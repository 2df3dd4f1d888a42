--------------------------- MODULE MCSessionClient ---------------------------
(* Instances of SessionClient for TLC. *)
EXTENDS SessionClient
CONSTANTS a1, a2, a3

Cells3 == {a1, a2, a3}

\* One API that pushes its own tag and one that pushes DoPrepareFail's: two
\* calls share a tag or not.
TwoApis == {"DoAllocate", "DoConnectFail"}
==============================================================================
