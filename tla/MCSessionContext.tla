--------------------------- MODULE MCSessionContext ---------------------------
(* Instances of SessionContext for TLC. *)
EXTENDS SessionContext
CONSTANTS a1, a2

Cells2 == {a1, a2}
TwoApis == {"DoAllocate", "DoConnectFail"}

\* A user at the keyboard of any kind, and one who types numbers only.
AnyEntry == Inputs
Numbers == {"number"}
==============================================================================
