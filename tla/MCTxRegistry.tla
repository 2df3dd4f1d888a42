---------------------------- MODULE MCTxRegistry ----------------------------
(* Instances of TxRegistry for TLC. *)
EXTENDS TxRegistry
CONSTANTS h1, h2, ip1, ip2, p1, p2

OneHandler == {h1}
TwoHandlers == {h1, h2}
TwoIps == {ip1, ip2}
OnePeer == {p1}
TwoPeers == {p1, p2}

\* Handlers, addresses and resource managers differ in nothing but their names.
Symmetry == Permutations(TwoHandlers) \cup Permutations(TwoIps)
              \cup Permutations(TwoPeers)

\* Well-formed requests, and every kind of request.
GoodPorts == {"number"}
AllPorts == {"number", "bad"}
GoodBodies == {"whole"}
AllBodies == {"whole", "partial", "broken"}

\* Ages 0, 10 and 11 are reached: both sides of the limit.
Seconds == {10, 11}
\* Ages 11, 22, 300 and 311 and more are reached: both sides of either limit.
LongSeconds == {11, 300}
==============================================================================
