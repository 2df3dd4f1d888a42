--------------------------- MODULE RouteGuide_proofs ---------------------------
(***************************************************************************)
(* RouteGuide contains RouteChat: whatever the other three methods do and  *)
(* whichever lists the programs loaded, every step is one of RouteChat or  *)
(* leaves it alone, so that what is proved of RouteChat holds of the whole *)
(* program.                                                                *)
(***************************************************************************)
EXTENDS RouteGuide, RouteChat_proofs

\* The facts about a search by a range-based for loop or std::find_if.
Search == INSTANCE TagList_proofs

\* A step of the programs is a step of RouteChat, or none for it.
LEMMA GuideStep == [GuideNext]_allVars => [Next]_vars
<1> SUFFICES ASSUME [GuideNext]_allVars PROVE [Next]_vars
  OBVIOUS
<1>1. CASE UNCHANGED allVars
  BY <1>1 DEF allVars
<1>2. CASE GuideNext
  <2>1. PICK c \in Chat : \/ StreamClient(c) \/ StreamServer(c)
                          \/ ChatClient(c) \/ ChatServer(c)
                          \/ StreamBreaks(c) \/ ClientVanishes(c)
    BY <1>2 DEF GuideNext
  <2>2. CASE StreamClient(c)
    <3>1. VisitNowhere(c) => Vanish(c)
      BY DEF VisitNowhere, ClientVanishes
    <3>2. \/ UNCHANGED vars
          \/ VisitNowhere(c)
      BY <2>2 DEF StreamClient, GetFeature, ReadFeature, FinishList,
         VisitPoint, FinishRoute
    <3> QED
      BY <3>1, <3>2 DEF Next
  <2>3. CASE StreamServer(c)
    BY <2>3 DEF StreamServer, ListFeature, ListReturn, ServerReadPoint,
       RecordReturn
  <2>4. CASE ChatClient(c) \/ ChatServer(c)
    BY <2>4 DEF ChatClient, ChatServer, Next
  <2>5. CASE ClientVanishes(c)
    BY <2>5 DEF ClientVanishes, Next
  <2>6. CASE StreamBreaks(c)
    BY <2>6 DEF StreamBreaks, BreakList, BreakRoute
  <2> QED
    BY <2>1, <2>2, <2>3, <2>4, <2>5, <2>6
<1> QED
  BY <1>1, <1>2

\* The programs implement RouteChat: with every other method, client and
\* database around it, its variables take only its own steps.
THEOREM GuideImplementsChat == GuideSpec => Init /\ [][Next]_vars
<1>1. GuideInit => Init
  BY DEF GuideInit
<1>2. [GuideNext]_allVars => [Next]_vars
  BY GuideStep
<1> QED
  BY <1>1, <1>2, PTL DEF GuideSpec

\* So they keep RouteChat's inductive invariant.
LEMMA GuideKeepsChat == GuideSpec => []IInv
<1>1. Init => IInv
  BY InitIInv
<1>2. IInv /\ [Next]_vars => IInv'
  BY NextIInv
<1> QED
  BY <1>1, <1>2, GuideImplementsChat, PTL

\* The types and bounds of the chats hold throughout the whole program.
THEOREM GuideTypeCorrect == GuideSpec => []TypeOK
<1>1. IInv => TypeOK
  BY DEF IInv, TypeOK
<1> QED
  BY <1>1, GuideKeepsChat, PTL

\* In the whole program too, no push_back invalidates another handler's
\* iterator.
THEOREM GuideIterationStable == GuideSpec => IterationStable
<1>1. IInv /\ [Next]_vars => [WalkStep]_vars
  BY NextWalks
<1> QED
  BY <1>1, GuideKeepsChat, GuideImplementsChat, PTL DEF IterationStable, WalkStep

\* What RouteChat's own proofs show of received_notes_ and of the answers holds
\* of the whole program.
LEMMA GuideKeepsAnswers == GuideSpec => [](NotesInOrder /\ AnswerInv)
<1>1. Init => IInv /\ PipeInv /\ NotesInOrder /\ AnswerInv
  BY InitIInv, InitPipe, InitAnswers
<1>2. IInv /\ PipeInv /\ NotesInOrder /\ AnswerInv /\ [Next]_vars
        => (IInv /\ PipeInv /\ NotesInOrder /\ AnswerInv)'
  BY NextIInv, NextPipe, NextAnswers
<1> QED
  BY <1>1, <1>2, GuideImplementsChat, PTL

\* In the whole program too, the server takes the notes of a client in order.
THEOREM GuideNotesInOrder == GuideSpec => []NotesInOrder
BY GuideKeepsAnswers, PTL

\* In the whole program too, each client of RouteChat is sent exactly the
\* answers to its notes.
THEOREM GuideAnswersExact == GuideSpec => []AnswersExact
BY GuideKeepsAnswers, AnswersFollow, PTL

-----------------------------------------------------------------------------
(* ListFeatures. *)

ListState == [pc : {"none", "serving", "returned"}, i : Nat,
              wire : Seq(Feature), got : Seq(Feature)]
RouteState == [pc : {"none", "serving", "returned"}, wire : Seq(Spot),
               written : Nat, atNamed : Nat, points : Nat, named : Nat]

\* The state of the two streams, and the databases.
GuideShapes == /\ features \in Seq(Feature)
               /\ own \in [Chat -> Seq(Feature)]
               /\ listing \in [Chat -> ListState]
               /\ route \in [Chat -> RouteState]

\* The features inside the rectangle that the handler's loop has passed.
Passed(i) == {k \in Inside : k < i}

\* The client of a list l was sent those the handler has passed, each in its
\* place.
ListedOf(S, list, l) ==
  LET sent == l.got \o l.wire
      passed == {k \in S : k < l.i}
  IN /\ Len(sent) = Cardinality(passed)
     /\ \A k \in passed : sent[Cardinality({j \in S : j <= k})] = list[k]
Listed(l) == ListedOf(Inside, features, l)

\* A handler returns when it has passed all features; and until a client
\* vanishes it has been sent all that was passed.
ListInv ==
  \A c \in Chat :
    /\ listing[c].i \in 1 .. Len(features) + 1
    /\ listing[c].pc = "returned" => listing[c].i = Len(features) + 1
    /\ c \notin gone => Listed(listing[c])

\* The greatest and the least of two numbers.
LEMMA MinMaxPair ==
  ASSUME NEW a \in Int, NEW b \in Int
  PROVE  /\ Min({a, b}) = IF a <= b THEN a ELSE b
         /\ Max({a, b}) = IF a <= b THEN b ELSE a
<1>1. \E m \in {a, b} : \A y \in {a, b} : m <= y
  OBVIOUS
<1>2. Min({a, b}) \in {a, b} /\ \A y \in {a, b} : Min({a, b}) <= y
  BY <1>1 DEF Min
<1>3. \E m \in {a, b} : \A y \in {a, b} : m >= y
  OBVIOUS
<1>4. Max({a, b}) \in {a, b} /\ \A y \in {a, b} : Max({a, b}) >= y
  BY <1>3 DEF Max
<1> QED
  BY <1>2, <1>4

\* To lie between two numbers in any order.
LEMMA BetweenMinMax ==
  ASSUME NEW x \in Int, NEW a \in Int, NEW b \in Int
  PROVE  Between(x, a, b) <=> x >= Min({a, b}) /\ x <= Max({a, b})
<1>1. /\ Min({a, b}) = IF a <= b THEN a ELSE b
      /\ Max({a, b}) = IF a <= b THEN b ELSE a
  BY MinMaxPair
<1> QED
  BY <1>1 DEF Between

\* The handler's test, which takes the corners in any order, is that of Inside.
LEMMA InsideIsInRect ==
  ASSUME GuideShapes, NEW i \in DOMAIN features
  PROVE  i \in Inside <=> InRect(features[i].loc)
<1> DEFINE p == features[i].loc
<1>1. p \in Spot
  <2>1. features[i] \in Feature
    BY ElementOfSeq, LenProperties DEF GuideShapes
  <2> QED
    BY <2>1 DEF Feature
<1>2. /\ p.lat \in Int /\ p.lon \in Int
      /\ Rect.lo.lat \in Int /\ Rect.lo.lon \in Int
      /\ Rect.hi.lat \in Int /\ Rect.hi.lon \in Int
  BY <1>1, GuideAssumption DEF Spot
<1> HIDE DEF p
<1>3. i \in Inside <=> /\ p.lon >= Min({Rect.lo.lon, Rect.hi.lon})
                       /\ p.lon <= Max({Rect.lo.lon, Rect.hi.lon})
                       /\ p.lat >= Min({Rect.lo.lat, Rect.hi.lat})
                       /\ p.lat <= Max({Rect.lo.lat, Rect.hi.lat})
  BY DEF Inside, p
<1>4. /\ Between(p.lon, Rect.lo.lon, Rect.hi.lon) <=>
           /\ p.lon >= Min({Rect.lo.lon, Rect.hi.lon})
           /\ p.lon <= Max({Rect.lo.lon, Rect.hi.lon})
      /\ Between(p.lat, Rect.lo.lat, Rect.hi.lat) <=>
           /\ p.lat >= Min({Rect.lo.lat, Rect.hi.lat})
           /\ p.lat <= Max({Rect.lo.lat, Rect.hi.lat})
  BY <1>2, BetweenMinMax
<1> QED
  BY <1>3, <1>4 DEF InRect, p

\* Where the features inside the rectangle are, and how many.
LEMMA InsideFacts ==
  ASSUME GuideShapes
  PROVE  /\ Len(features) \in Nat /\ DOMAIN features = 1 .. Len(features)
         /\ \A k \in Inside : k \in Nat /\ k >= 1 /\ k <= Len(features)
         /\ IsFiniteSet(Inside) /\ Cardinality(Inside) \in Nat
<1>1. Len(features) \in Nat /\ DOMAIN features = 1 .. Len(features)
  BY LenProperties DEF GuideShapes
<1>2. Inside \subseteq 1 .. Len(features)
  BY <1>1 DEF Inside
<1>3. IsFiniteSet(1 .. Len(features))
  BY <1>1, FS_Interval
<1>4. IsFiniteSet(Inside)
  BY <1>2, <1>3, FS_Subset
<1>5. Cardinality(Inside) \in Nat
  BY <1>4, FS_CardinalityType
<1>6. \A k \in Inside : k \in Nat /\ k >= 1 /\ k <= Len(features)
  BY <1>1, <1>2
<1> QED
  BY <1>1, <1>4, <1>5, <1>6

\* At first no feature is passed, and in the end all are.
LEMMA PassedEnds ==
  ASSUME GuideShapes
  PROVE  Passed(1) = {} /\ Passed(Len(features) + 1) = Inside
<1>1. \A k \in Inside : ~(k < 1) /\ k < Len(features) + 1
  BY InsideFacts
<1> QED
  BY <1>1 DEF Passed

\* How many were passed is a number.
LEMMA PassedFacts ==
  ASSUME GuideShapes, NEW i \in Nat
  PROVE  /\ IsFiniteSet(Passed(i))
         /\ Cardinality(Passed(i)) \in Nat
         /\ Cardinality(Passed(i)) <= Cardinality(Inside)
<1>1. Passed(i) \subseteq Inside
  BY DEF Passed
<1>2. IsFiniteSet(Inside)
  BY InsideFacts
<1>3. IsFiniteSet(Passed(i)) /\ Cardinality(Passed(i)) <= Cardinality(Inside)
  BY <1>1, <1>2, FS_Subset
<1> QED
  BY <1>3, FS_CardinalityType

\* Passing a feature adds it to those that were passed if it is inside.
LEMMA PassOne ==
  ASSUME GuideShapes, NEW i \in Nat
  PROVE  /\ i \in Inside => Passed(i + 1) = Passed(i) \cup {i}
         /\ i \in Inside =>
              Cardinality(Passed(i + 1)) = Cardinality(Passed(i)) + 1
         /\ i \notin Inside => Passed(i + 1) = Passed(i)
         /\ i \in Inside => Rank(i) = Cardinality(Passed(i)) + 1
<1>1. \A k \in Inside : /\ k < i + 1 <=> k < i \/ k = i
                        /\ k <= i <=> k < i \/ k = i
  BY InsideFacts
<1>2. i \notin Passed(i)
  BY DEF Passed
<1>3. i \notin Inside => Passed(i + 1) = Passed(i)
  BY <1>1 DEF Passed
<1>4. i \in Inside => /\ Passed(i + 1) = Passed(i) \cup {i}
                      /\ {j \in Inside : j <= i} = Passed(i) \cup {i}
  BY <1>1 DEF Passed
<1>5. Cardinality(Passed(i) \cup {i}) = Cardinality(Passed(i)) + 1
  BY <1>2, PassedFacts, FS_AddElement
<1> QED
  BY <1>3, <1>4, <1>5 DEF Rank

\* A feature that was passed has its place among those that were passed, and
\* one that was not, none.
LEMMA RankOfPassed ==
  ASSUME GuideShapes, NEW i \in Nat, NEW k \in Inside
  PROVE  /\ Rank(k) \in Nat \ {0}
         /\ k \in Passed(i) <=> Rank(k) <= Cardinality(Passed(i))
<1>1. k \in Nat /\ k + 1 \in Nat
  BY InsideFacts
<1>2. /\ Rank(k) = Cardinality(Passed(k)) + 1
      /\ Cardinality(Passed(k + 1)) = Cardinality(Passed(k)) + 1
  BY <1>1, PassOne
<1>3. /\ Cardinality(Passed(k)) \in Nat /\ Cardinality(Passed(i)) \in Nat
      /\ IsFiniteSet(Passed(i)) /\ IsFiniteSet(Passed(k))
  BY <1>1, PassedFacts
<1>4. CASE k < i
  <2>1. \A j \in Inside : j < k + 1 => j < i
    BY <1>1, <1>4, InsideFacts
  <2>2. Passed(k + 1) \subseteq Passed(i)
    BY <2>1 DEF Passed
  <2>3. Cardinality(Passed(k + 1)) <= Cardinality(Passed(i))
    BY <1>3, <2>2, FS_Subset
  <2> QED
    BY <1>2, <1>3, <1>4, <2>3 DEF Passed
<1>5. CASE ~(k < i)
  <2>1. \A j \in Inside : j < i => j < k
    BY <1>1, <1>5, InsideFacts
  <2>2. Passed(i) \subseteq Passed(k)
    BY <2>1 DEF Passed
  <2>3. Cardinality(Passed(i)) <= Cardinality(Passed(k))
    BY <1>3, <2>2, FS_Subset
  <2> QED
    BY <1>2, <1>3, <1>5, <2>3 DEF Passed
<1> QED
  BY <1>4, <1>5

\* What the lists keep is what ListExact says of them.
LEMMA ListFollows == GuideShapes /\ ListInv => ListExact
<1> SUFFICES ASSUME GuideShapes, ListInv, NEW c \in Chat \ gone
             PROVE  LET l == listing[c]
                        sent == l.got \o l.wire
                    IN /\ Len(sent) <= Cardinality(Inside)
                       /\ l.pc = "returned" => Len(sent) = Cardinality(Inside)
                       /\ \A i \in Inside :
                            Rank(i) <= Len(sent) => sent[Rank(i)] = features[i]
  BY DEF ListExact
<1> DEFINE l == listing[c]
           sent == l.got \o l.wire
<1>1. /\ l.i \in 1 .. Len(features) + 1
      /\ l.pc = "returned" => l.i = Len(features) + 1
      /\ Len(sent) = Cardinality(Passed(l.i))
      /\ \A k \in Passed(l.i) : sent[Rank(k)] = features[k]
  BY DEF ListInv, Listed, ListedOf, Passed, Rank
<1> HIDE DEF l, sent
<1>2. l.i \in Nat
  BY <1>1
<1>3. /\ Len(sent) <= Cardinality(Inside)
      /\ l.pc = "returned" => Len(sent) = Cardinality(Inside)
  BY <1>1, <1>2, PassedFacts, PassedEnds
<1>4. \A k \in Inside : Rank(k) <= Len(sent) => sent[Rank(k)] = features[k]
  BY <1>1, <1>2, RankOfPassed
<1> QED
  BY <1>2, <1>3, <1>4 DEF l, sent

\* The handler's loop comes to the next feature, and sends it if it is inside.
LEMMA PassFeature ==
  ASSUME GuideShapes, NEW l \in ListState, NEW m \in ListState,
         l.i \in DOMAIN features, Listed(l),
         m.i = l.i + 1, m.got = l.got,
         m.wire = IF InRect(features[l.i].loc) THEN Append(l.wire, features[l.i])
                  ELSE l.wire
  PROVE  Listed(m)
<1> DEFINE s == l.got \o l.wire
           t == m.got \o m.wire
           i == l.i
           f == features[i]
<1>1. /\ l.got \in Seq(Feature) /\ l.wire \in Seq(Feature) /\ i \in Nat
      /\ f \in Feature
  BY ElementOfSeq, LenProperties DEF ListState, GuideShapes
<1>2. i \in Inside <=> InRect(features[i].loc)
  BY InsideIsInRect
<1>3. t = IF i \in Inside THEN Append(s, f) ELSE s
  <2>1. CASE i \in Inside
    <3> DEFINE g == l.got
               w == l.wire
    <3>1. g \in Seq(Feature) /\ w \in Seq(Feature) /\ f \in Feature
      BY <1>1
    <3>2. t = g \o Append(w, f)
      BY <1>2, <2>1
    <3> HIDE DEF g, w, f
    <3>3. g \o Append(w, f) = Append(g \o w, f)
      BY <3>1, AppendBehind
    <3> QED
      BY <2>1, <3>2, <3>3 DEF g, w
  <2>2. CASE i \notin Inside
    BY <1>2, <2>2
  <2> QED
    BY <2>1, <2>2
<1>4. s \in Seq(Feature) /\ Len(s) \in Nat
  BY <1>1, ConcatProperties, LenProperties
<1>5. /\ Len(s) = Cardinality(Passed(i))
      /\ \A k \in Passed(i) : s[Rank(k)] = features[k]
  BY DEF Listed, ListedOf, Passed, Rank
<1>6. \A k \in Passed(i) : k \in Inside
  BY DEF Passed
<1> SUFFICES /\ Len(t) = Cardinality(Passed(i + 1))
             /\ \A k \in Passed(i + 1) : t[Rank(k)] = features[k]
  BY DEF Listed, ListedOf, Passed, Rank
<1> HIDE DEF s, t, i
<1>7. CASE i \in Inside
  <2>1. /\ Passed(i + 1) = Passed(i) \cup {i}
        /\ Cardinality(Passed(i + 1)) = Cardinality(Passed(i)) + 1
        /\ Rank(i) = Cardinality(Passed(i)) + 1
    BY <1>1, <1>7, PassOne
  <2>2. /\ Len(t) = Len(s) + 1
        /\ \A k \in 1 .. Len(s) : t[k] = s[k]
        /\ t[Len(s) + 1] = features[i]
    BY <1>1, <1>3, <1>4, <1>7, AppendProperties
  <2>3. \A k \in Passed(i) : Rank(k) \in 1 .. Len(s)
    BY <1>1, <1>4, <1>5, <1>6, RankOfPassed
  <2> QED
    BY <1>4, <1>5, <2>1, <2>2, <2>3
<1>8. CASE i \notin Inside
  <2>1. Passed(i + 1) = Passed(i)
    BY <1>1, <1>8, PassOne
  <2> QED
    BY <1>3, <1>5, <1>8, <2>1
<1> QED
  BY <1>7, <1>8

\* What the client reads was sent and stays so.
LEMMA HandFeature ==
  ASSUME NEW l \in ListState, NEW m, Listed(l), l.wire # <<>>,
         m.i = l.i, m.got = Append(l.got, Head(l.wire)), m.wire = Tail(l.wire)
  PROVE  Listed(m)
<1> DEFINE g == l.got
           w == l.wire
<1>1. g \in Seq(Feature) /\ w \in Seq(Feature) /\ w # <<>>
  BY DEF ListState
<1>2. m.got \o m.wire = Append(g, Head(w)) \o Tail(w)
  OBVIOUS
<1> HIDE DEF g, w
<1>3. Append(g, Head(w)) \o Tail(w) = g \o w
  BY <1>1, HandOver
<1> QED
  BY <1>2, <1>3 DEF g, w, Listed, ListedOf

\* Before the handler's first turn nothing is sent.
LEMMA NothingListed ==
  ASSUME GuideShapes
  PROVE  NoListing \in ListState /\ NoListing.i = 1 /\ Listed(NoListing)
<1>1. /\ NoListing.i = 1
      /\ NoListing.got \o NoListing.wire = <<>>
  BY DEF NoListing
<1>2. NoListing \in ListState
  BY DEF NoListing, ListState
<1>3. Passed(1) = {} /\ Cardinality(Passed(1)) = 0
  BY PassedEnds, FS_EmptySet
<1> QED
  BY <1>1, <1>2, <1>3 DEF Listed, ListedOf, Passed

\* The part of the invariant about one client.
ListOk(l) == /\ l \in ListState
             /\ l.i \in 1 .. Len(features) + 1
             /\ l.pc = "returned" => l.i = Len(features) + 1

\* The lists keep their invariant when one chat's does and no other changes.
LEMMA ListMove ==
  ASSUME GuideShapes, ListInv, NEW c \in Chat, NEW m,
         features' = features, gone \subseteq gone',
         listing' = [listing EXCEPT ![c] = m],
         ListOk(m), c \notin gone' => Listed(m)
  PROVE  ListInv' /\ listing' \in [Chat -> ListState]
<1>1. listing \in [Chat -> ListState]
  BY DEF GuideShapes
<1>2. /\ listing' \in [Chat -> ListState]
      /\ \A d \in Chat : listing'[d] = IF d = c THEN m ELSE listing[d]
  BY <1>1 DEF ListOk
<1>3. Inside' = Inside
  BY DEF Inside
<1>4. ASSUME NEW d \in Chat
      PROVE  /\ listing'[d].i \in 1 .. Len(features) + 1
             /\ listing'[d].pc = "returned" => listing'[d].i = Len(features) + 1
             /\ d \notin gone' => ListedOf(Inside, features, listing'[d])
  BY <1>2 DEF ListInv, ListOk, Listed
<1> QED
  BY <1>2, <1>3, <1>4 DEF ListInv, Listed

\* The steps of ListFeatures' handler.
LEMMA ListFeatureInv ==
  ASSUME GuideShapes, ListInv, NEW c \in Chat, ListFeature(c)
  PROVE  ListInv' /\ listing' \in [Chat -> ListState]
<1> DEFINE l == listing[c]
           f == features[l.i]
           sends == InRect(f.loc) /\ c \notin gone
           w == IF sends THEN Append(l.wire, f) ELSE l.wire
           m == [l EXCEPT !.i = l.i + 1, !.wire = w]
<1>1. /\ listing \in [Chat -> ListState] /\ l \in ListState
      /\ l.i \in 1 .. Len(features) /\ DOMAIN features = 1 .. Len(features)
      /\ Len(features) \in Nat
      /\ l.pc = "serving" /\ features' = features /\ gone' = gone
  BY InsideFacts DEF ListFeature, ListInv, GuideShapes, vars
<1>2. f \in Feature
  BY <1>1, ElementOfSeq DEF GuideShapes
<1>3. w \in Seq(Feature)
  BY <1>1, <1>2 DEF ListState
<1>4. listing' = [listing EXCEPT ![c] = m]
  <2>1. CASE sends
    BY <1>1, <2>1 DEF ListFeature
  <2>2. CASE ~sends
    <3>1. listing' = [listing EXCEPT ![c] = [l EXCEPT !.i = l.i + 1]]
      BY <1>1, <2>2 DEF ListFeature
    <3>2. [l EXCEPT !.i = l.i + 1] = m
      BY <1>1, <2>2 DEF ListState
    <3> QED
      BY <3>1, <3>2
  <2> QED
    BY <2>1, <2>2
<1>5. /\ m \in ListState /\ m.i = l.i + 1 /\ m.got = l.got /\ m.wire = w
      /\ m.pc = "serving"
  <2>1. l \in ListState /\ l.i + 1 \in Nat /\ l.pc = "serving"
    BY <1>1
  <2> DEFINE n == l.i + 1
  <2> HIDE DEF w, l, n
  <2> QED
    BY <1>3, <2>1 DEF ListState
<1>6. ListOk(m)
  BY <1>1, <1>5 DEF ListOk
<1>7. c \notin gone' => Listed(m)
  <2> SUFFICES ASSUME c \notin gone PROVE Listed(m)
    BY <1>1
  <2>1. Listed(l)
    BY DEF ListInv
  <2>2. m.wire = IF InRect(features[l.i].loc) THEN Append(l.wire, features[l.i])
                 ELSE l.wire
    BY <1>5
  <2>3. l.i \in DOMAIN features
    BY <1>1
  <2> HIDE DEF m, l
  <2> QED
    BY <1>1, <1>5, <2>1, <2>2, <2>3, PassFeature
<1> HIDE DEF m
<1> QED
  BY <1>1, <1>4, <1>6, <1>7, ListMove

\* A client's call, and the handler's return.
LEMMA ListPcInv ==
  ASSUME GuideShapes, ListInv, NEW c \in Chat, GetFeature(c) \/ ListReturn(c)
  PROVE  ListInv' /\ listing' \in [Chat -> ListState]
<1> DEFINE l == listing[c]
<1>1. PICK pc \in {"serving", "returned"} :
        /\ listing' = [listing EXCEPT ![c].pc = pc]
        /\ pc = "returned" => l.i > Len(features)
        /\ features' = features /\ gone' = gone
  BY DEF GetFeature, ListReturn, vars
<1> DEFINE m == [l EXCEPT !.pc = pc]
<1>2. /\ l \in ListState /\ l.i \in 1 .. Len(features) + 1
      /\ Len(features) \in Nat
      /\ c \notin gone => Listed(l)
  BY InsideFacts DEF ListInv, GuideShapes
<1>3. /\ m \in ListState /\ m.i = l.i /\ m.got = l.got /\ m.wire = l.wire
      /\ m.pc = pc
  BY <1>2 DEF ListState
<1>4. listing' = [listing EXCEPT ![c] = m]
  BY <1>1
<1>5. ListOk(m)
  BY <1>1, <1>2, <1>3 DEF ListOk
<1>6. c \notin gone' => Listed(m)
  BY <1>1, <1>2, <1>3 DEF Listed, ListedOf
<1> HIDE DEF m
<1> QED
  BY <1>1, <1>4, <1>5, <1>6, ListMove

\* The client reads a feature.
LEMMA ReadFeatureInv ==
  ASSUME GuideShapes, ListInv, NEW c \in Chat, ReadFeature(c)
  PROVE  ListInv' /\ listing' \in [Chat -> ListState]
<1> DEFINE l == listing[c]
           g == Append(l.got, Head(l.wire))
           w == Tail(l.wire)
           m == [l EXCEPT !.got = g, !.wire = w]
<1>1. /\ listing' = [listing EXCEPT ![c] = m]
      /\ features' = features /\ gone' = gone
      /\ l.wire # <<>> /\ c \notin gone
  BY DEF ReadFeature, In, vars
<1>2. l \in ListState /\ Listed(l) /\ ListOk(l)
  BY <1>1 DEF ListInv, GuideShapes, ListOk
<1>3. g \in Seq(Feature) /\ w \in Seq(Feature)
  BY <1>1, <1>2 DEF ListState
<1>4. /\ m \in ListState /\ m.i = l.i /\ m.got = g /\ m.wire = w
      /\ m.pc = l.pc
  <2> HIDE DEF g, w
  <2> QED
    BY <1>2, <1>3 DEF ListState
<1>5. ListOk(m)
  BY <1>2, <1>4 DEF ListOk
<1>6. Listed(m)
  <2> HIDE DEF m, l
  <2> QED
    BY <1>1, <1>2, <1>4, HandFeature DEF g, w
<1> HIDE DEF m
<1> QED
  BY <1>1, <1>5, <1>6, ListMove

\* The client has read all, or its stream broke, and what it got is not needed
\* any more.
LEMMA FinishListInv ==
  ASSUME GuideShapes, ListInv, NEW c \in Chat, FinishList(c) \/ BreakList(c)
  PROVE  ListInv' /\ listing' \in [Chat -> ListState]
<1>1. /\ listing' = [listing EXCEPT ![c] = NoListing]
      /\ features' = features /\ gone' = gone
  BY DEF FinishList, BreakList, vars
<1>2. ListOk(NoListing) /\ Listed(NoListing)
  BY NothingListed, InsideFacts DEF ListOk, NoListing
<1> QED
  BY <1>1, <1>2, ListMove

\* What a client that vanishes has got does not matter.
LEMMA VanishListInv ==
  ASSUME GuideShapes, ListInv, NEW c \in Chat, ClientVanishes(c)
  PROVE  ListInv' /\ listing' \in [Chat -> ListState]
<1> DEFINE l == listing[c]
           m == [l EXCEPT !.wire = <<>>, !.got = <<>>]
<1>1. /\ listing' = [listing EXCEPT ![c] = m]
      /\ features' = features /\ gone' = gone \cup {c}
  BY DEF ClientVanishes, Vanish
<1>2. l \in ListState /\ ListOk(l)
  BY DEF ListInv, GuideShapes, ListOk
<1>3. m \in ListState /\ m.i = l.i /\ m.pc = l.pc
  <2> DEFINE none == <<>>
  <2>1. none \in Seq(Feature)
    OBVIOUS
  <2> HIDE DEF none, l
  <2>2. [l EXCEPT !.wire = none, !.got = none] \in ListState
    BY <1>2, <2>1 DEF ListState
  <2> QED
    BY <1>2, <2>2 DEF none, ListState
<1>4. ListOk(m)
  BY <1>2, <1>3 DEF ListOk
<1> HIDE DEF m
<1> QED
  BY <1>1, <1>4, ListMove

-----------------------------------------------------------------------------
(* RecordRoute. *)

\* The points under way, after the first n, at which a feature with a name is,
\* by their place in the route.
UnderWay(n, wire) == {k \in n + 1 .. n + Len(wire) : NamedAt(wire[k - n])}

\* Every point a client has written is counted or under way, and so is every
\* one with a named feature; no handler returns before the last.
CountedOf(r, underWay) ==
  /\ r.points + Len(r.wire) = r.written
  /\ r.written <= Points
  /\ r.named + Cardinality(underWay) = r.atNamed
  /\ r.pc = "returned" => r.wire = <<>> /\ r.written = Points
Counted(r) == CountedOf(r, UnderWay(r.points, r.wire))

RouteInv == \A c \in Chat \ gone : Counted(route[c])

\* The least of a set of positions is one of them.
LEMMA MinIsLeast ==
  ASSUME NEW I, I \subseteq Nat, I # {}
  PROVE  Min(I) \in I /\ \A j \in I : Min(I) <= j
<1>1. Search!Min(I) \in I /\ \A j \in I : Search!Min(I) <= j
  BY Search!MinIsLeast
<1> QED
  BY <1>1 DEF Min, Search!Min

\* GetFeatureName finds the first feature at a point: its name is empty unless
\* that feature has one.
LEMMA NamedIsFound ==
  ASSUME GuideShapes, NEW p
  PROVE  NamedAt(p) <=> GetFeatureName(p) # ""
<1> DEFINE I == {i \in 1 .. Len(features) : features[i].loc = p}
<1>1. DOMAIN features = 1 .. Len(features) /\ Len(features) \in Nat
  BY InsideFacts
<1>2. GetFeatureName(p) = IF I = {} THEN "" ELSE features[Min(I)].name
  <2>1. CASE I = {}
    BY <2>1 DEF GetFeatureName, SelectInSeq
  <2>2. CASE I # {}
    <3>1. Min(I) \in I
      <4>1. I \subseteq Nat
        BY <1>1
      <4> HIDE DEF I
      <4> QED
        BY <2>2, <4>1, MinIsLeast
    <3>2. Min(I) # 0
      BY <1>1, <3>1
    <3> QED
      BY <2>2, <3>2 DEF GetFeatureName, SelectInSeq
  <2> QED
    BY <2>1, <2>2
<1>3. CASE I = {}
  BY <1>1, <1>2, <1>3 DEF NamedAt
<1>4. CASE I # {}
  <2>1. PICK m \in Nat : m = Min(I) /\ m \in I /\ \A j \in I : m <= j
    <3>1. I \subseteq Nat
      BY <1>1
    <3> HIDE DEF I
    <3>2. Min(I) \in I /\ \A j \in I : Min(I) <= j
      BY <1>4, <3>1, MinIsLeast
    <3> QED
      BY <3>1, <3>2
  <2>2. /\ m \in 1 .. Len(features) /\ features[m].loc = p
        /\ \A j \in 1 .. m - 1 : features[j].loc # p
    <3>1. m \in 1 .. Len(features) /\ features[m].loc = p
      BY <2>1
    <3>2. ASSUME NEW j \in 1 .. m - 1 PROVE j \notin I /\ j \in 1 .. Len(features)
      BY <1>1, <2>1, <3>1
    <3> QED
      BY <3>1, <3>2
  <2>3. NamedAt(p) <=> features[m].name # ""
    <3>1. ASSUME NEW i \in 1 .. Len(features), features[i].loc = p,
                 \A j \in 1 .. i - 1 : features[j].loc # p
          PROVE  i = m
      <4>1. ~(i < m) /\ ~(m < i)
        BY <1>1, <2>2, <3>1
      <4> QED
        BY <1>1, <2>2, <4>1
    <3> QED
      BY <1>1, <2>2, <3>1 DEF NamedAt
  <2> QED
    BY <1>2, <1>4, <2>1, <2>3
<1> QED
  BY <1>3, <1>4

\* Points under way are finitely many.
LEMMA UnderWayFacts ==
  ASSUME NEW n \in Nat, NEW w \in Seq(Spot)
  PROVE  /\ Len(w) \in Nat
         /\ UnderWay(n, w) \subseteq n + 1 .. n + Len(w)
         /\ IsFiniteSet(UnderWay(n, w))
         /\ Cardinality(UnderWay(n, w)) \in Nat
<1>1. Len(w) \in Nat
  BY LenProperties
<1>2. UnderWay(n, w) \subseteq n + 1 .. n + Len(w)
  BY DEF UnderWay
<1>3. IsFiniteSet(n + 1 .. n + Len(w))
  BY <1>1, FS_Interval
<1>4. IsFiniteSet(UnderWay(n, w))
  BY <1>2, <1>3, FS_Subset
<1> QED
  BY <1>1, <1>2, <1>4, FS_CardinalityType

\* One more point is under way.
LEMMA UnderWayAppend ==
  ASSUME NEW n \in Nat, NEW w \in Seq(Spot), NEW p \in Spot
  PROVE  /\ Len(Append(w, p)) = Len(w) + 1
         /\ Cardinality(UnderWay(n, Append(w, p))) =
              IF NamedAt(p) THEN Cardinality(UnderWay(n, w)) + 1
              ELSE Cardinality(UnderWay(n, w))
<1> DEFINE v == Append(w, p)
           L == Len(w)
           k == n + L + 1
<1>1. /\ L \in Nat /\ UnderWay(n, w) \subseteq n + 1 .. n + L
      /\ IsFiniteSet(UnderWay(n, w))
  BY UnderWayFacts
<1>2. /\ Len(v) = L + 1
      /\ \A i \in 1 .. L : v[i] = w[i]
      /\ v[L + 1] = p
  BY <1>1, AppendProperties
<1>3. \A j : j \in UnderWay(n, w) <=> j \in n + 1 .. n + L /\ NamedAt(w[j - n])
  BY DEF UnderWay
<1>4. \A j : j \in UnderWay(n, v) <=>
               j \in n + 1 .. n + (L + 1) /\ NamedAt(v[j - n])
  BY <1>2 DEF UnderWay
<1> HIDE DEF v, L
<1>5. \A j : j \in n + 1 .. n + (L + 1) <=> j \in n + 1 .. n + L \/ j = k
  BY <1>1
<1>6. k - n = L + 1 /\ k \notin n + 1 .. n + L
  BY <1>1
<1>7. \A j \in n + 1 .. n + L : j - n \in 1 .. L /\ v[j - n] = w[j - n]
  BY <1>1, <1>2
<1> HIDE DEF k
<1>8. UnderWay(n, v) = IF NamedAt(p) THEN UnderWay(n, w) \cup {k}
                       ELSE UnderWay(n, w)
  BY <1>2, <1>3, <1>4, <1>5, <1>6, <1>7
<1>9. k \notin UnderWay(n, w)
  BY <1>1, <1>6
<1>10. Cardinality(UnderWay(n, w) \cup {k}) = Cardinality(UnderWay(n, w)) + 1
  BY <1>1, <1>9, FS_AddElement
<1> QED
  BY <1>2, <1>8, <1>10 DEF v, L

\* The first point is under way no more.
LEMMA UnderWayTail ==
  ASSUME NEW n \in Nat, NEW w \in Seq(Spot), w # <<>>
  PROVE  /\ Len(Tail(w)) = Len(w) - 1
         /\ Cardinality(UnderWay(n + 1, Tail(w))) =
              IF NamedAt(Head(w)) THEN Cardinality(UnderWay(n, w)) - 1
              ELSE Cardinality(UnderWay(n, w))
<1> DEFINE v == Tail(w)
           L == Len(w)
           k == n + 1
<1>1. L \in Nat /\ IsFiniteSet(UnderWay(n, w))
  BY UnderWayFacts
<1>2. /\ Len(v) = L - 1 /\ Head(w) = w[1]
      /\ \A i \in 1 .. L - 1 : v[i] = w[i + 1]
      /\ L >= 1
  BY <1>1, HeadTailProperties, EmptySeq
<1>3. \A j : j \in UnderWay(n, w) <=> j \in n + 1 .. n + L /\ NamedAt(w[j - n])
  BY DEF UnderWay
<1>4. \A j : j \in UnderWay(n + 1, v) <=>
               j \in (n + 1) + 1 .. (n + 1) + (L - 1) /\ NamedAt(v[j - (n + 1)])
  BY <1>2 DEF UnderWay
<1> HIDE DEF v, L
<1>5. \A j : j \in (n + 1) + 1 .. (n + 1) + (L - 1)
               <=> j \in n + 1 .. n + L /\ j # k
  BY <1>1, <1>2
<1>6. k - n = 1 /\ k \in n + 1 .. n + L
  BY <1>1, <1>2
<1>7. \A j \in n + 1 .. n + L : j # k => v[j - (n + 1)] = w[j - n]
  <2> SUFFICES ASSUME NEW j \in n + 1 .. n + L, j # k
               PROVE  v[j - (n + 1)] = w[j - n]
    OBVIOUS
  <2>1. j - (n + 1) \in 1 .. L - 1 /\ (j - (n + 1)) + 1 = j - n
    BY <1>1, <1>2
  <2> QED
    BY <1>2, <2>1
<1> HIDE DEF k
<1>8. UnderWay(n + 1, v) = UnderWay(n, w) \ {k}
  BY <1>3, <1>4, <1>5, <1>7
<1>9. k \in UnderWay(n, w) <=> NamedAt(Head(w))
  BY <1>2, <1>3, <1>6
<1>10. Cardinality(UnderWay(n, w) \ {k}) =
         IF k \in UnderWay(n, w) THEN Cardinality(UnderWay(n, w)) - 1
         ELSE Cardinality(UnderWay(n, w))
  BY <1>1, FS_RemoveElement
<1> QED
  BY <1>2, <1>8, <1>9, <1>10 DEF v, L

\* A point that is written is under way.
LEMMA WritePoint ==
  ASSUME NEW r \in RouteState, NEW q, NEW p \in Spot,
         Counted(r), r.written # Points,
         q.pc = r.pc, q.wire = Append(r.wire, p), q.written = r.written + 1,
         q.points = r.points, q.named = r.named,
         q.atNamed = IF NamedAt(p) THEN r.atNamed + 1 ELSE r.atNamed
  PROVE  Counted(q)
<1>1. /\ r.wire \in Seq(Spot) /\ r.points \in Nat /\ r.named \in Nat
      /\ r.atNamed \in Nat /\ r.written \in Nat /\ Points \in Nat
  BY GuideAssumption DEF RouteState
<1>2. PICK n \in Nat, w \in Seq(Spot) : n = r.points /\ w = r.wire
  BY <1>1
<1>3. Len(w) \in Nat /\ Cardinality(UnderWay(n, w)) \in Nat
  BY UnderWayFacts
<1>4. /\ n + Len(w) = r.written /\ r.written <= Points
      /\ r.named + Cardinality(UnderWay(n, w)) = r.atNamed
      /\ r.pc # "returned"
  BY <1>2 DEF Counted, CountedOf
<1>5. /\ Len(Append(w, p)) = Len(w) + 1
      /\ Cardinality(UnderWay(n, Append(w, p))) =
           IF NamedAt(p) THEN Cardinality(UnderWay(n, w)) + 1
           ELSE Cardinality(UnderWay(n, w))
  BY UnderWayAppend
<1>6. q.wire = Append(w, p) /\ q.points = n /\ q.pc # "returned"
  BY <1>2, <1>4
<1>7. q.points + Len(q.wire) = q.written
  BY <1>1, <1>3, <1>4, <1>5, <1>6
<1>8. q.written <= Points
  BY <1>1, <1>4
<1>9. q.named + Cardinality(UnderWay(q.points, q.wire)) = q.atNamed
  <2>1. UnderWay(q.points, q.wire) = UnderWay(n, Append(w, p))
    BY <1>6
  <2>2. PICK k \in Nat : k = Cardinality(UnderWay(n, w))
    BY <1>3
  <2>3. PICK x \in Nat, y \in Nat : x = r.named /\ y = r.atNamed
    BY <1>1
  <2>4. Cardinality(UnderWay(q.points, q.wire))
          = IF NamedAt(p) THEN k + 1 ELSE k
    BY <1>5, <2>1, <2>2
  <2>5. x + k = y
    BY <1>4, <2>2, <2>3
  <2>6. x + (k + 1) = y + 1
    BY ONLY <2>5, x \in Nat, y \in Nat, k \in Nat
  <2> QED
    BY <2>3, <2>4, <2>5, <2>6
<1> QED
  BY <1>6, <1>7, <1>8, <1>9 DEF Counted, CountedOf

\* What is counted is not under way any more.
LEMMA Balance ==
  ASSUME NEW a \in Int, NEW b \in Int
  PROVE  (a + 1) + (b - 1) = a + b
OBVIOUS

\* A point that is read is counted.
LEMMA CountPoint ==
  ASSUME NEW r \in RouteState, NEW q,
         Counted(r), r.wire # <<>>, r.pc = "serving",
         q.pc = r.pc, q.wire = Tail(r.wire), q.written = r.written,
         q.points = r.points + 1, q.atNamed = r.atNamed,
         q.named = IF NamedAt(Head(r.wire)) THEN r.named + 1 ELSE r.named
  PROVE  Counted(q)
<1>1. /\ r.wire \in Seq(Spot) /\ r.points \in Nat /\ r.named \in Nat
      /\ r.atNamed \in Nat /\ r.written \in Nat
  BY DEF RouteState
<1>2. PICK n \in Nat, w \in Seq(Spot) : n = r.points /\ w = r.wire
  BY <1>1
<1>3. Len(w) \in Nat /\ Cardinality(UnderWay(n, w)) \in Nat
  BY UnderWayFacts
<1>4. /\ n + Len(w) = r.written /\ r.written <= Points
      /\ r.named + Cardinality(UnderWay(n, w)) = r.atNamed
  BY <1>2 DEF Counted, CountedOf
<1>5. /\ Len(Tail(w)) = Len(w) - 1
      /\ Cardinality(UnderWay(n + 1, Tail(w))) =
           IF NamedAt(Head(w)) THEN Cardinality(UnderWay(n, w)) - 1
           ELSE Cardinality(UnderWay(n, w))
  BY <1>2, UnderWayTail
<1>6. /\ q.wire = Tail(w) /\ q.points = n + 1 /\ q.pc # "returned"
      /\ q.named = IF NamedAt(Head(w)) THEN r.named + 1 ELSE r.named
  BY <1>2
<1>7. q.points + Len(q.wire) = q.written /\ q.written <= Points
  <2>1. Len(q.wire) = Len(w) - 1
    BY <1>5, <1>6
  <2>2. (n + 1) + (Len(w) - 1) = n + Len(w)
    BY <1>3, Balance
  <2> QED
    BY <1>4, <1>6, <2>1, <2>2
<1>8. q.named + Cardinality(UnderWay(q.points, q.wire)) = q.atNamed
  <2> DEFINE C == Cardinality(UnderWay(n, w))
             D == Cardinality(UnderWay(n + 1, Tail(w)))
             named == r.named
  <2>1. /\ C \in Nat /\ named \in Nat
        /\ D = IF NamedAt(Head(w)) THEN C - 1 ELSE C
        /\ q.named = IF NamedAt(Head(w)) THEN named + 1 ELSE named
        /\ named + C = r.atNamed
        /\ Cardinality(UnderWay(q.points, q.wire)) = D
    BY <1>1, <1>3, <1>4, <1>5, <1>6
  <2> HIDE DEF C, D, named
  <2>2. (named + 1) + (C - 1) = named + C
    BY <2>1, Balance
  <2>3. q.named + D = named + C
    BY <2>1, <2>2
  <2> QED
    BY <2>1, <2>3
<1> QED
  BY <1>6, <1>7, <1>8 DEF Counted, CountedOf

\* The routes keep their invariant when one chat's does and no other changes.
LEMMA RouteMove ==
  ASSUME GuideShapes, RouteInv, NEW c \in Chat, NEW q \in RouteState,
         features' = features, gone \subseteq gone',
         route' = [route EXCEPT ![c] = q],
         c \notin gone' => Counted(q)
  PROVE  RouteInv' /\ route' \in [Chat -> RouteState]
<1>1. /\ route' \in [Chat -> RouteState]
      /\ \A d \in Chat : route'[d] = IF d = c THEN q ELSE route[d]
  BY DEF GuideShapes
<1>2. ASSUME NEW d \in Chat \ gone' PROVE Counted(route[d])'
  <2>1. Counted(route'[d])
    BY <1>1, <1>2 DEF RouteInv
  <2>2. UnderWay(route[d].points, route[d].wire)'
          = UnderWay(route'[d].points, route'[d].wire)
    BY DEF UnderWay, NamedAt
  <2> QED
    BY <2>1, <2>2 DEF Counted, CountedOf
<1> QED
  BY <1>1, <1>2 DEF RouteInv

\* A client writes a point.
LEMMA VisitPointInv ==
  ASSUME GuideShapes, RouteInv, NEW c \in Chat, VisitPoint(c)
  PROVE  RouteInv' /\ route' \in [Chat -> RouteState]
<1> DEFINE r == route[c]
<1>1. PICK f \in Range(own[c]) :
        route' = [route EXCEPT
                    ![c].wire = Append(r.wire, f.loc),
                    ![c].written = r.written + 1,
                    ![c].atNamed = IF NamedAt(f.loc) THEN r.atNamed + 1
                                   ELSE r.atNamed]
  BY DEF VisitPoint
<1>2. f.loc \in Spot
  <2>1. own[c] \in Seq(Feature)
    BY DEF GuideShapes
  <2>2. f \in Feature
    BY <2>1, LenProperties, ElementOfSeq DEF Range
  <2> QED
    BY <2>2 DEF Feature
<1>3. PICK p \in Spot : p = f.loc
  BY <1>2
<1>4. /\ r \in RouteState /\ r.written # Points /\ Counted(r)
      /\ features' = features /\ gone' = gone
  BY DEF VisitPoint, In, AllVisited, GuideShapes, RouteInv, vars
<1>5. PICK w \in Seq(Spot), n \in Nat, a \in Nat :
        /\ w = Append(r.wire, p) /\ n = r.written + 1
        /\ a = IF NamedAt(p) THEN r.atNamed + 1 ELSE r.atNamed
  <2>1. r.wire \in Seq(Spot) /\ r.written \in Nat /\ r.atNamed \in Nat
    BY <1>4 DEF RouteState
  <2>2. Append(r.wire, p) \in Seq(Spot) /\ r.written + 1 \in Nat
    BY <2>1
  <2>3. (IF NamedAt(p) THEN r.atNamed + 1 ELSE r.atNamed) \in Nat
    BY <2>1
  <2> QED
    BY <2>2, <2>3
<1> DEFINE q == [r EXCEPT !.wire = w, !.written = n, !.atNamed = a]
<1>6. route' = [route EXCEPT ![c] = q]
  BY <1>1, <1>3, <1>5
<1>7. /\ q \in RouteState
      /\ q.pc = r.pc /\ q.wire = w /\ q.written = n /\ q.atNamed = a
      /\ q.points = r.points /\ q.named = r.named
  <2> HIDE DEF r
  <2> QED
    BY <1>4 DEF RouteState
<1> HIDE DEF q, r
<1>8. Counted(q)
  BY <1>4, <1>5, <1>7, WritePoint
<1> QED
  BY <1>4, <1>6, <1>7, <1>8, RouteMove

\* The handler reads a point.
LEMMA ServerReadPointInv ==
  ASSUME GuideShapes, RouteInv, NEW c \in Chat, ServerReadPoint(c)
  PROVE  RouteInv' /\ route' \in [Chat -> RouteState]
<1> DEFINE r == route[c]
<1>1. /\ route' = [route EXCEPT
                     ![c].wire = Tail(r.wire),
                     ![c].points = r.points + 1,
                     ![c].named = IF GetFeatureName(Head(r.wire)) # ""
                                  THEN r.named + 1 ELSE r.named]
      /\ r \in RouteState /\ r.pc = "serving" /\ r.wire # <<>>
      /\ features' = features /\ gone' = gone
  BY DEF ServerReadPoint, GuideShapes, vars
<1>2. PICK w \in Seq(Spot), n \in Nat, m \in Nat :
        /\ w = Tail(r.wire) /\ n = r.points + 1
        /\ m = IF NamedAt(Head(r.wire)) THEN r.named + 1 ELSE r.named
  <2>1. r.wire \in Seq(Spot) /\ r.points \in Nat /\ r.named \in Nat
    BY <1>1 DEF RouteState
  <2>2. Tail(r.wire) \in Seq(Spot) /\ r.points + 1 \in Nat
    <3>1. r.wire # <<>>
      BY <1>1
    <3> HIDE DEF r
    <3> QED
      BY <2>1, <3>1, HeadTailProperties
  <2>3. (IF NamedAt(Head(r.wire)) THEN r.named + 1 ELSE r.named) \in Nat
    BY <2>1
  <2> QED
    BY <2>2, <2>3
<1>3. NamedAt(Head(r.wire)) <=> GetFeatureName(Head(r.wire)) # ""
  BY NamedIsFound
<1>4. m = IF GetFeatureName(Head(r.wire)) # "" THEN r.named + 1 ELSE r.named
  BY <1>2, <1>3
<1> DEFINE q == [r EXCEPT !.wire = w, !.points = n, !.named = m]
<1>5. route' = [route EXCEPT ![c] = q]
  BY <1>1, <1>2, <1>4
<1>6. /\ q \in RouteState
      /\ q.pc = r.pc /\ q.wire = w /\ q.written = r.written
      /\ q.atNamed = r.atNamed /\ q.points = n /\ q.named = m
  <2>1. r \in RouteState
    BY <1>1
  <2> HIDE DEF r
  <2> QED
    BY <2>1 DEF RouteState
<1>7. c \notin gone => Counted(r)
  BY DEF RouteInv
<1> HIDE DEF q, r
<1>8. c \notin gone => Counted(q)
  BY <1>1, <1>2, <1>6, <1>7, CountPoint
<1> QED
  BY <1>1, <1>5, <1>6, <1>8, RouteMove

\* The handler returns, and not before the last point unless its client is
\* gone.
LEMMA RecordReturnInv ==
  ASSUME GuideShapes, RouteInv, NEW c \in Chat, RecordReturn(c)
  PROVE  RouteInv' /\ route' \in [Chat -> RouteState]
<1> DEFINE r == route[c]
           q == [r EXCEPT !.pc = "returned"]
<1>1. /\ route' = [route EXCEPT ![c] = q]
      /\ r \in RouteState
      /\ c \notin gone => r.wire = <<>> /\ r.written = Points
      /\ features' = features /\ gone' = gone
  BY DEF RecordReturn, AllVisited, GuideShapes, vars
<1>2. /\ q \in RouteState /\ q.pc = "returned"
      /\ q.wire = r.wire /\ q.written = r.written /\ q.atNamed = r.atNamed
      /\ q.points = r.points /\ q.named = r.named
  <2>1. r \in RouteState
    BY <1>1
  <2> HIDE DEF r
  <2> QED
    BY <2>1 DEF RouteState
<1>3. c \notin gone => Counted(r)
  BY DEF RouteInv
<1> HIDE DEF q, r
<1>4. c \notin gone => Counted(q)
  BY <1>1, <1>2, <1>3 DEF Counted, CountedOf
<1> QED
  BY <1>1, <1>2, <1>4, RouteMove

\* A route that begins or is over has no points.
LEMMA NoPoints == NoRoute \in RouteState /\ Counted(NoRoute)
<1>1. /\ NoRoute.points = 0 /\ NoRoute.wire = <<>> /\ NoRoute.written = 0
      /\ NoRoute.named = 0 /\ NoRoute.atNamed = 0 /\ NoRoute.pc = "none"
  BY DEF NoRoute
<1>2. NoRoute \in RouteState
  BY DEF NoRoute, RouteState
<1>3. UnderWay(0, <<>>) = {}
  BY DEF UnderWay
<1>4. Cardinality(UnderWay(0, <<>>)) = 0
  BY <1>3, FS_EmptySet
<1> QED
  BY <1>1, <1>2, <1>4, GuideAssumption DEF Counted, CountedOf

\* The client goes from ListFeatures to RecordRoute, and from there to
\* RouteChat, at the end of a stream or when it breaks.
LEMMA RouteEndsInv ==
  ASSUME GuideShapes, RouteInv, NEW c \in Chat,
         \/ FinishList(c) \/ FinishRoute(c)
         \/ BreakList(c) \/ BreakRoute(c)
  PROVE  RouteInv' /\ route' \in [Chat -> RouteState]
<1> DEFINE r == route[c]
           q == [r EXCEPT !.pc = "serving"]
<1>1. /\ features' = features /\ gone' = gone
      /\ \/ route' = [route EXCEPT ![c] = q]
         \/ route' = [route EXCEPT ![c] = NoRoute]
  BY DEF FinishList, FinishRoute, BreakList, BreakRoute, vars
<1>2. r \in RouteState /\ (c \notin gone => Counted(r))
  BY DEF GuideShapes, RouteInv
<1>3. /\ q \in RouteState /\ q.pc = "serving"
      /\ q.wire = r.wire /\ q.written = r.written /\ q.atNamed = r.atNamed
      /\ q.points = r.points /\ q.named = r.named
  <2> HIDE DEF r
  <2> QED
    BY <1>2 DEF RouteState
<1> HIDE DEF q, r
<1>4. c \notin gone => Counted(q)
  BY <1>2, <1>3 DEF Counted, CountedOf
<1>5. CASE route' = [route EXCEPT ![c] = q]
  BY <1>1, <1>3, <1>4, <1>5, RouteMove
<1>6. CASE route' = [route EXCEPT ![c] = NoRoute]
  BY <1>1, <1>6, NoPoints, RouteMove
<1> QED
  BY <1>1, <1>5, <1>6

\* The points of a client that vanishes do not matter.
LEMMA VanishRouteInv ==
  ASSUME GuideShapes, RouteInv, NEW c \in Chat, ClientVanishes(c)
  PROVE  RouteInv' /\ route' \in [Chat -> RouteState]
<1> DEFINE r == route[c]
           q == [r EXCEPT !.wire = <<>>]
<1>1. /\ route' = [route EXCEPT ![c] = q]
      /\ features' = features /\ gone' = gone \cup {c}
  BY DEF ClientVanishes, Vanish
<1>2. r \in RouteState /\ <<>> \in Seq(Spot)
  BY DEF GuideShapes
<1>3. q \in RouteState
  <2> DEFINE none == <<>>
  <2>1. none \in Seq(Spot)
    OBVIOUS
  <2> HIDE DEF none, r
  <2>2. [r EXCEPT !.wire = none] \in RouteState
    BY <1>2, <2>1 DEF RouteState
  <2> QED
    BY <2>2 DEF none
<1> HIDE DEF q
<1> QED
  BY <1>1, <1>3, RouteMove

-----------------------------------------------------------------------------
(* The whole program. *)

GuideInv == GuideShapes /\ ListInv /\ RouteInv

\* The steps of RouteChat leave the two streams alone.
LEMMA StreamsStay ==
  ASSUME GuideShapes, ListInv, RouteInv, UNCHANGED guideVars, gone \subseteq gone'
  PROVE  GuideShapes' /\ ListInv' /\ RouteInv'
<1>1. UNCHANGED <<features, own, listing, route>>
  BY DEF guideVars
<1>2. GuideShapes'
  BY <1>1 DEF GuideShapes
<1>3. Inside' = Inside
  BY <1>1 DEF Inside
<1>4. ListInv'
  BY <1>1, <1>3 DEF ListInv, Listed
<1>5. ASSUME NEW d \in Chat
      PROVE  UnderWay(route[d].points, route[d].wire)'
               = UnderWay(route[d].points, route[d].wire)
  BY <1>1 DEF UnderWay, NamedAt
<1>6. RouteInv'
  BY <1>1, <1>5 DEF RouteInv, Counted, CountedOf
<1> QED
  BY <1>2, <1>4, <1>6

\* At first nothing is sent on either stream.
LEMMA InitGuide == GuideInit => GuideInv
<1> SUFFICES ASSUME GuideInit PROVE GuideShapes /\ ListInv /\ RouteInv
  BY DEF GuideInv
<1>1. features \in Seq(Feature) /\ own \in [Chat -> Seq(Feature)]
  BY GuideAssumption DEF GuideInit
<1>2. /\ listing = [c \in Chat |-> NoListing]
      /\ route = [c \in Chat |-> NoRoute]
  BY DEF GuideInit
<1>3. NoListing \in ListState
  BY DEF NoListing, ListState
<1>4. GuideShapes
  BY <1>1, <1>2, <1>3, NoPoints DEF GuideShapes
<1>5. 1 \in 1 .. Len(features) + 1
  BY <1>4, InsideFacts
<1>6. ListInv
  BY <1>2, <1>4, <1>5, NothingListed DEF ListInv, NoListing
<1>7. RouteInv
  BY <1>2, NoPoints DEF RouteInv
<1> QED
  BY <1>4, <1>6, <1>7

\* Every step of the programs keeps what is said of the two streams.
LEMMA NextGuide == GuideInv /\ [GuideNext]_allVars => GuideInv'
<1> SUFFICES ASSUME GuideShapes, ListInv, RouteInv, [GuideNext]_allVars
             PROVE  GuideShapes' /\ ListInv' /\ RouteInv'
  BY DEF GuideInv
<1>1. CASE UNCHANGED allVars
  BY <1>1, StreamsStay DEF allVars, vars
<1>2. CASE GuideNext
  <2>1. PICK c \in Chat : \/ StreamClient(c) \/ StreamServer(c)
                          \/ ChatClient(c) \/ ChatServer(c)
                          \/ StreamBreaks(c) \/ ClientVanishes(c)
    BY <1>2 DEF GuideNext
  <2>2. CASE ChatClient(c) \/ ChatServer(c)
    <3>1. UNCHANGED guideVars /\ gone' = gone
      BY <2>2 DEF ChatClient, ChatServer, StartChat, WriteNote, WritesDone,
         ReadNote, FinishChat, ServerStep, ServerRead, ServerReturn, ScanNote,
         ScanEnd, PushBack, Lock
    <3> QED
      BY <3>1, StreamsStay
  <2>3. CASE ClientVanishes(c) \/ VisitNowhere(c)
    <3>1. ClientVanishes(c)
      BY <2>3 DEF VisitNowhere
    <3>2. features' = features /\ own' = own
      BY <3>1 DEF ClientVanishes
    <3> QED
      BY <3>1, <3>2, VanishListInv, VanishRouteInv DEF GuideShapes
  <2>4. CASE ListFeature(c) \/ ListReturn(c) \/ GetFeature(c) \/ ReadFeature(c)
    <3>1. UNCHANGED <<features, own, route, gone>>
      BY <2>4 DEF ListFeature, ListReturn, GetFeature, ReadFeature, vars
    <3>2. ListInv' /\ listing' \in [Chat -> ListState]
      BY <2>4, ListFeatureInv, ListPcInv, ReadFeatureInv
    <3>3. RouteInv'
      <4>1. ASSUME NEW d \in Chat
            PROVE  UnderWay(route[d].points, route[d].wire)'
                     = UnderWay(route[d].points, route[d].wire)
        BY <3>1 DEF UnderWay, NamedAt
      <4> QED
        BY <3>1, <4>1 DEF RouteInv, Counted, CountedOf
    <3> QED
      BY <3>1, <3>2, <3>3 DEF GuideShapes
  <2>5. CASE \/ VisitPoint(c) \/ ServerReadPoint(c) \/ RecordReturn(c)
             \/ FinishRoute(c) \/ BreakRoute(c)
    <3>1. UNCHANGED <<features, own, listing, gone>>
      BY <2>5 DEF VisitPoint, ServerReadPoint, RecordReturn, FinishRoute,
         BreakRoute, vars
    <3>2. RouteInv' /\ route' \in [Chat -> RouteState]
      BY <2>5, VisitPointInv, ServerReadPointInv, RecordReturnInv, RouteEndsInv
    <3>3. ListInv'
      <4>1. Inside' = Inside
        BY <3>1 DEF Inside
      <4> QED
        BY <3>1, <4>1 DEF ListInv, Listed
    <3> QED
      BY <3>1, <3>2, <3>3 DEF GuideShapes
  <2>6. CASE FinishList(c) \/ BreakList(c)
    <3>1. UNCHANGED <<features, own>>
      BY <2>6 DEF FinishList, BreakList
    <3> QED
      BY <2>6, <3>1, FinishListInv, RouteEndsInv DEF GuideShapes
  <2> QED
    BY <2>1, <2>2, <2>3, <2>4, <2>5, <2>6
       DEF StreamClient, StreamServer, StreamBreaks
<1> QED
  BY <1>1, <1>2

\* The programs keep the invariant of their two streams, for any databases, any
\* rectangle, any number of points and any clients.
THEOREM GuideInductive == GuideSpec => []GuideInv
<1>1. GuideInit => GuideInv
  BY InitGuide
<1>2. GuideInv /\ [GuideNext]_allVars => GuideInv'
  BY NextGuide
<1> QED
  BY <1>1, <1>2, PTL DEF GuideSpec

\* A client of ListFeatures gets exactly the server's features inside the
\* rectangle, whichever its corners are, in order, and all of them by the end.
THEOREM GuideListExact == GuideSpec => []ListExact
<1>1. GuideInv => ListExact
  BY ListFollows DEF GuideInv
<1> QED
  BY <1>1, GuideInductive, PTL

\* The summary of RecordRoute counts every point of its client, and of them
\* those at which the server has a feature with a name.
THEOREM GuideSummaryExact == GuideSpec => []SummaryExact
<1>1. GuideInv => SummaryExact
  <2> SUFFICES ASSUME GuideInv, NEW c \in Chat \ gone,
                      route[c].pc = "returned"
               PROVE  /\ route[c].points = Points
                      /\ route[c].named = route[c].atNamed
    BY DEF SummaryExact
  <2> DEFINE r == route[c]
  <2>1. r \in RouteState /\ Counted(r)
    BY DEF GuideInv, GuideShapes, RouteInv
  <2>2. /\ r.points \in Nat /\ r.named \in Nat /\ r.wire = <<>>
        /\ r.points + Len(r.wire) = Points
        /\ r.named + Cardinality(UnderWay(r.points, r.wire)) = r.atNamed
    BY <2>1 DEF RouteState, Counted, CountedOf
  <2>3. PICK n \in Nat, m \in Nat : n = r.points /\ m = r.named
    BY <2>2
  <2>4. UnderWay(n, <<>>) = {}
    <3>1. n + 1 .. n + Len(<<>>) = {}
      OBVIOUS
    <3> QED
      BY <3>1 DEF UnderWay
  <2>5. Cardinality(UnderWay(n, <<>>)) = 0
    BY <2>4, FS_EmptySet
  <2>6. n + 0 = Points /\ m + 0 = r.atNamed
    BY <2>2, <2>3, <2>5
  <2> QED
    BY <2>3, <2>6
<1> QED
  BY <1>1, GuideInductive, PTL
==============================================================================
