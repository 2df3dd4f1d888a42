--------------------------- MODULE MCSessionServer ---------------------------
(* Instances of SessionServer for TLC. *)
EXTENDS SessionServer
CONSTANTS a1, a2, a3, a4, a5, r1, r2

\* HandleRpcs registers four methods; two of them for the run with liveness,
\* since the four classes differ in name only.
FourMethods == <<"DoAllocate", "DoPrepare", "DoConnect", "DoRelease">>
TwoMethods == <<"DoAllocate", "DoPrepare">>

\* One cell per acceptor and one per call in service.
Cells5 == {a1, a2, a3, a4, a5}
Cells4 == {a1, a2, a3, a4}
Calls2 == {r1, r2}
Calls1 == {r1}

\* Two served methods, so that calls share an acceptor or not, and one of the
\* six methods of the client's service that this server does not serve.
SomeApis == {"DoAllocate", "DoPrepare", "DoTimeout"}
OneApi == {"DoAllocate"}
==============================================================================
