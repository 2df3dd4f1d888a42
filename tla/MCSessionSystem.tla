--------------------------- MODULE MCSessionSystem ---------------------------
(* Instances of SessionSystem for TLC. *)
EXTENDS SessionSystem
CONSTANTS a1, a2, a3, a4, b1, b2, r1, r2

TwoMethods == <<"DoAllocate", "DoPrepare">>
Cells4 == {a1, a2, a3, a4}
Calls2 == {r1, r2}
ClientCells2 == {b1, b2}
Served1Unserved1 == {"DoAllocate", "DoTimeout"}
Other == {"DoPrepare"}
All == Served1Unserved1 \cup Other
Symmetric == Permutations(Cells4) \cup Permutations(Calls2)
               \cup Permutations(ClientCells2)
==============================================================================
