----------------------------- MODULE MCRouteGuide -----------------------------
(* Instances of RouteGuide for TLC. *)
EXTENDS RouteGuide
CONSTANTS c1, c2

Point(x, y) == [lat |-> x, lon |-> y]
TwoChats == {c1, c2}
Places == {Point(0, 0), Point(0, 1)}

\* The shape of the client's four notes (first and last at one place) cut to
\* three, against a client that repeats one location.
TwoScripts == (c1 :> <<Point(0, 0), Point(0, 1), Point(0, 0)>>)
                @@ (c2 :> <<Point(0, 0), Point(0, 0)>>)

FeatureAt(x, y, n) == [loc |-> Point(x, y), name |-> n]

\* A file that was not loaded, and one with a feature that has a name, one that
\* has none, and one outside the rectangle.
Databases == {<<>>, <<FeatureAt(0, 1, "a"), FeatureAt(1, 0, ""), FeatureAt(3, 1, "b")>>}
Corners == [lo |-> Point(0, 1), hi |-> Point(2, 0)]
==============================================================================
