--------------------------- MODULE TagList_proofs ---------------------------
(***************************************************************************)
(* What the operations of TagList do to the pairs of a list, whatever the  *)
(* tags and the addresses are; and, first, the facts about a search by     *)
(* std::find_if and about vector::erase that all lists of the programs     *)
(* rest on.                                                                *)
(***************************************************************************)
EXTENDS TagList, SequenceTheorems, WellFoundedInduction, TLAPS

\* A set of numbers has a least element.
LEMMA LeastNat ==
  ASSUME NEW I, I \subseteq Nat, I # {}
  PROVE  \E i \in I : \A j \in I : i <= j
<1> DEFINE R == OpToRel(<, Nat)
<1>1. IsWellFoundedOn(R, Nat)
  BY NatLessThanWellFounded
<1> HIDE DEF R
<1>2. PICK i \in I : \A j \in I : <<j, i>> \notin R
  BY <1>1, WFMin
<1>3. ASSUME NEW j \in I PROVE i <= j
  <2>1. <<j, i>> \notin R
    BY <1>2
  <2>2. <<j, i>> \in R <=> j < i
    BY DEF R, OpToRel
  <2> QED
    BY <2>1, <2>2
<1> QED
  BY <1>2, <1>3

\* The least of a set of positions is one of them: SelectInSeq finds the first
\* element that passes the test.
THEOREM MinIsLeast ==
  ASSUME NEW I, I \subseteq Nat, I # {}
  PROVE  /\ Min(I) \in I
         /\ \A j \in I : Min(I) <= j
BY LeastNat DEF Min

\* vector::erase at a position takes that element out and closes the gap.
THEOREM RemoveAtProperties ==
  ASSUME NEW S, NEW list \in Seq(S), NEW k \in 1 .. Len(list)
  PROVE  /\ RemoveAt(list, k) \in Seq(S)
         /\ Len(RemoveAt(list, k)) = Len(list) - 1
         /\ \A i \in 1 .. (Len(list) - 1) :
              RemoveAt(list, k)[i] = IF i < k THEN list[i] ELSE list[i + 1]
<1> DEFINE n == Len(list)
           s1 == SubSeq(list, 1, k - 1)
           s2 == SubSeq(list, k + 1, n)
           new == s1 \o s2
<1>1. k \in 1 .. n
  OBVIOUS
<1>2. /\ n \in Nat
      /\ \A i \in 1 .. n : list[i] \in S
  BY LenProperties, ElementOfSeq
<1>3. /\ s1 \in Seq(S)
      /\ Len(s1) = k - 1
      /\ \A i \in 1 .. (k - 1) : s1[i] = list[i]
  <2>1. /\ 1 \in Int
        /\ k - 1 \in Int
        /\ \A i \in 1 .. (k - 1) : list[i] \in S
    BY <1>1, <1>2
  <2>2. /\ s1 \in Seq(S)
        /\ Len(s1) = IF 1 <= k - 1 THEN (k - 1) - 1 + 1 ELSE 0
        /\ \A i \in 1 .. ((k - 1) - 1 + 1) : s1[i] = list[1 + i - 1]
    BY <2>1, SubSeqProperties
  <2> QED
    BY <1>1, <1>2, <2>2
<1>4. /\ s2 \in Seq(S)
      /\ Len(s2) = n - k
      /\ \A i \in 1 .. (n - k) : s2[i] = list[k + i]
  <2>1. /\ k + 1 \in Int
        /\ n \in Int
        /\ \A i \in (k + 1) .. n : list[i] \in S
    BY <1>1, <1>2
  <2>2. /\ s2 \in Seq(S)
        /\ Len(s2) = IF k + 1 <= n THEN n - (k + 1) + 1 ELSE 0
        /\ \A i \in 1 .. (n - (k + 1) + 1) : s2[i] = list[(k + 1) + i - 1]
    BY <2>1, SubSeqProperties
  <2> QED
    BY <1>1, <1>2, <2>2
<1> HIDE DEF n, s1, s2
<1>5. /\ new \in Seq(S)
      /\ Len(new) = n - 1
      /\ \A i \in 1 .. (n - 1) :
           new[i] = IF i < k THEN list[i] ELSE list[i + 1]
  <2>1. /\ new \in Seq(S)
        /\ Len(new) = Len(s1) + Len(s2)
        /\ \A i \in 1 .. (Len(s1) + Len(s2)) :
             new[i] = IF i <= Len(s1) THEN s1[i] ELSE s2[i - Len(s1)]
    BY <1>3, <1>4, ConcatProperties
  <2>2. ASSUME NEW i \in 1 .. (n - 1)
        PROVE  new[i] = IF i < k THEN list[i] ELSE list[i + 1]
    <3>1. CASE i < k
      BY <1>1, <1>2, <1>3, <1>4, <2>1, <3>1
    <3>2. CASE ~(i < k)
      <4>1. new[i] = s2[i - (k - 1)]
        <5>1. /\ i \in 1 .. (Len(s1) + Len(s2))
              /\ ~(i <= Len(s1))
              /\ Len(s1) = k - 1
          BY <1>1, <1>2, <1>3, <1>4, <3>2
        <5> QED
          BY <2>1, <5>1
      <4>2. i - (k - 1) \in 1 .. (n - k)
        BY <1>1, <1>2, <3>2
      <4>3. s2[i - (k - 1)] = list[k + (i - (k - 1))]
        BY <1>4, <4>2
      <4>4. k + (i - (k - 1)) = i + 1
        BY <1>1, <1>2
      <4> QED
        BY <3>2, <4>1, <4>3, <4>4
    <3> QED
      BY <3>1, <3>2
  <2>3. Len(new) = n - 1
    BY <1>1, <1>2, <1>3, <1>4, <2>1
  <2> QED
    BY <2>1, <2>2, <2>3
<1> QED
  BY <1>5 DEF RemoveAt, n, s1, s2

-----------------------------------------------------------------------------
(* The list of tags. *)

\* tag_push of an address that is not listed adds its pair and no other, and
\* keeps the addresses of the list distinct.
THEOREM TagPushEntries ==
  ASSUME NEW Pair, NEW list \in Seq(Pair), UniqueObj(list),
         NEW t, NEW o, [tag |-> t, obj |-> o] \in Pair, o \notin Listed(list)
  PROVE  /\ TagPush(list, t, o) \in Seq(Pair)
         /\ UniqueObj(TagPush(list, t, o))
         /\ Entries(TagPush(list, t, o))
              = Entries(list) \cup {[tag |-> t, obj |-> o]}
<1> DEFINE e == [tag |-> t, obj |-> o]
           new == Append(list, e)
<1>1. /\ new \in Seq(Pair)
      /\ Len(new) = Len(list) + 1
      /\ \A i \in 1 .. Len(list) : new[i] = list[i]
      /\ new[Len(list) + 1] = e
  BY AppendProperties
<1>2. /\ Len(list) \in Nat
      /\ DOMAIN list = 1 .. Len(list)
      /\ DOMAIN new = 1 .. (Len(list) + 1)
  BY <1>1, LenProperties
<1>3. \A i \in 1 .. Len(list) : list[i].obj # o
  BY <1>2 DEF Listed, ToSet
<1>4. UniqueObj(new)
  BY <1>1, <1>2, <1>3 DEF UniqueObj
<1>5. Entries(new) = Entries(list) \cup {e}
  BY <1>1, <1>2 DEF Entries, ToSet
<1> QED
  BY <1>1, <1>4, <1>5 DEF TagPush

\* The least index of a one-element set of positions is that position.
LEMMA MinOfSingleton ==
  ASSUME NEW i \in Nat
  PROVE  Min({i}) = i
BY DEF Min

\* find_if by address finds the pair of a listed address.
THEOREM TagFindPosition ==
  ASSUME NEW Pair, NEW list \in Seq(Pair), UniqueObj(list),
         NEW e \in Entries(list)
  PROVE  /\ TagFind(list, e.obj) \in 1 .. Len(list)
         /\ list[TagFind(list, e.obj)] = e
<1> DEFINE I == {i \in 1 .. Len(list) : list[i].obj = e.obj}
<1>1. PICK i \in 1 .. Len(list) : list[i] = e
  BY LenProperties DEF Entries, ToSet
<1>2. I = {i}
  BY <1>1 DEF UniqueObj
<1>3. TagFind(list, e.obj) = Min(I)
  BY <1>2 DEF TagFind, SelectInSeq
<1>4. i \in Nat
  BY <1>1, LenProperties
<1>5. TagFind(list, e.obj) = i
  BY <1>2, <1>3, <1>4, MinOfSingleton
<1> QED
  BY <1>1, <1>5

\* list_tag_idx_.erase(it) at the pair found by address removes that pair, no
\* other, and keeps the addresses of the list distinct.
THEOREM TagEraseEntries ==
  ASSUME NEW Pair, NEW list \in Seq(Pair), UniqueObj(list),
         NEW e \in Entries(list)
  PROVE  /\ TagErase(list, e.obj) \in Seq(Pair)
         /\ UniqueObj(TagErase(list, e.obj))
         /\ Entries(TagErase(list, e.obj)) = Entries(list) \ {e}
<1> DEFINE n == Len(list)
           k == TagFind(list, e.obj)
           new == RemoveAt(list, k)
<1>1. /\ k \in 1 .. n
      /\ list[k] = e
  BY TagFindPosition
<1>2. /\ n \in Nat
      /\ DOMAIN list = 1 .. n
  BY LenProperties
<1> HIDE DEF k
<1>3. /\ new \in Seq(Pair)
      /\ Len(new) = n - 1
      /\ \A i \in 1 .. (n - 1) :
           new[i] = IF i < k THEN list[i] ELSE list[i + 1]
  BY <1>1, RemoveAtProperties
<1> HIDE DEF n, new
<1>4. UniqueObj(new)
  <2> SUFFICES ASSUME NEW i \in 1 .. Len(new), NEW j \in 1 .. Len(new),
                      new[i].obj = new[j].obj
               PROVE  i = j
    BY DEF UniqueObj
  <2> DEFINE pos(x) == IF x < k THEN x ELSE x + 1
  <2>1. /\ pos(i) \in 1 .. n
        /\ pos(j) \in 1 .. n
        /\ new[i] = list[pos(i)]
        /\ new[j] = list[pos(j)]
    BY <1>1, <1>2, <1>3
  <2>2. pos(i) = pos(j)
    BY <2>1 DEF UniqueObj, n
  <2> QED
    BY <1>1, <1>2, <1>3, <2>2
<1>5. Entries(new) = Entries(list) \ {e}
  <2>1. DOMAIN new = 1 .. (n - 1)
    BY <1>2, <1>3, LenProperties
  <2>2. ASSUME NEW i \in 1 .. (n - 1)
        PROVE  new[i] \in Entries(list) \ {e}
    <3>1. CASE i < k
      <4>1. new[i] = list[i] /\ i \in 1 .. n /\ i # k
        BY <1>1, <1>2, <1>3, <3>1
      <4> QED
        BY <1>1, <1>2, <4>1 DEF UniqueObj, Entries, ToSet, n
    <3>2. CASE ~(i < k)
      <4>1. new[i] = list[i + 1] /\ i + 1 \in 1 .. n /\ i + 1 # k
        BY <1>1, <1>2, <1>3, <3>2
      <4> QED
        BY <1>1, <1>2, <4>1 DEF UniqueObj, Entries, ToSet, n
    <3> QED
      BY <3>1, <3>2
  <2>3. ASSUME NEW x \in Entries(list) \ {e}
        PROVE  \E i \in 1 .. (n - 1) : new[i] = x
    <3>1. PICK j \in 1 .. n : list[j] = x
      BY <1>2 DEF Entries, ToSet
    <3>2. j # k
      BY <1>1, <3>1
    <3>3. CASE j < k
      BY <1>1, <1>2, <1>3, <3>1, <3>3
    <3>4. CASE j > k
      <4>1. j - 1 \in 1 .. (n - 1) /\ ~(j - 1 < k) /\ (j - 1) + 1 = j
        BY <1>1, <1>2, <3>4
      <4> QED
        BY <1>3, <3>1, <4>1
    <3> QED
      BY <1>1, <1>2, <3>2, <3>3, <3>4
  <2> QED
    BY <2>1, <2>2, <2>3 DEF Entries, ToSet
<1>6. TagErase(list, e.obj) = new
  BY DEF TagErase, new, k
<1> QED
  BY <1>3, <1>4, <1>5, <1>6

\* The tag read for a listed address is the one it was pushed with.
THEOREM TagOfEntry ==
  ASSUME NEW Pair, NEW list \in Seq(Pair), UniqueObj(list),
         NEW e \in Entries(list)
  PROVE  TagOf(list, e.obj) = e.tag
BY TagFindPosition DEF TagOf
==============================================================================
