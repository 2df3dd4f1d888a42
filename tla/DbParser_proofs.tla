--------------------------- MODULE DbParser_proofs ---------------------------
(***************************************************************************)
(* The parser of helper.cc on any text, and on the file of any database.   *)
(*                                                                         *)
(* First, what the recursive functions of DbParser compute: a recursion    *)
(* over 0 .. n has a solution, and induction is on the set of the places   *)
(* where a claim holds.  Then the type and the index of the parser,        *)
(* whatever the text is.  Then the text of a whole file, or of the first   *)
(* part of one, and where the parser is in it: ParserInv says which        *)
(* feature it is in, how far, and what of it is in the list.               *)
(* Last, a file that was changed at one place: EditInv says where the      *)
(* parser is in step with the file as it was, and where it gives up.       *)
(***************************************************************************)
EXTENDS DbParser, FiniteSetTheorems, SequenceTheorems, WellFoundedInduction, TLAPS

Search == INSTANCE TagList_proofs

-----------------------------------------------------------------------------
(* Recursion over 0 .. n. *)

\* What holds at 0 and from each place to the next holds at every place.
LEMMA UpTo ==
  ASSUME NEW n \in Nat, NEW Good,
         0 \in Good,
         \A k \in 1 .. n : k - 1 \in Good => k \in Good
  PROVE  n \in Good /\ \A k \in 0 .. n : k \in Good
<1> DEFINE Bad == {k \in 0 .. n : k \notin Good}
<1>1. SUFFICES ASSUME Bad # {} PROVE FALSE
  OBVIOUS
<1>2. PICK i \in Bad : \A j \in Bad : i <= j
  <2>1. Bad \subseteq Nat
    OBVIOUS
  <2> QED
    BY <1>1, <2>1, Search!LeastNat
<1>3. i \in 1 .. n /\ i - 1 \in 0 .. n
  BY <1>2
<1>4. i - 1 \in Good
  BY <1>2, <1>3
<1> QED
  BY <1>2, <1>3, <1>4

\* A recursion over 0 .. n whose steps stay in B.
Recursion(f, n, base, step) ==
  f[0] = base /\ \A k \in 1 .. n : f[k] = step[<<f[k - 1], k>>]

LEMMA RecursionExists ==
  ASSUME NEW n \in Nat, NEW B, NEW base \in B, NEW step \in [B \X (1 .. n) -> B]
  PROVE  \E f \in [0 .. n -> B] : Recursion(f, n, base, step)
<1> DEFINE Good == {m \in 0 .. n : \E f \in [0 .. m -> B] :
                                     Recursion(f, m, base, step)}
<1>1. 0 \in Good
  <2> DEFINE f == [k \in 0 .. 0 |-> base]
  <2>1. f \in [0 .. 0 -> B] /\ Recursion(f, 0, base, step)
    BY DEF Recursion
  <2> QED
    BY <2>1
<1>2. ASSUME NEW m \in 1 .. n, m - 1 \in Good PROVE m \in Good
  <2>1. PICK f \in [0 .. m - 1 -> B] : Recursion(f, m - 1, base, step)
    BY <1>2
  <2> DEFINE g == [k \in 0 .. m |-> IF k = m THEN step[<<f[m - 1], m>>] ELSE f[k]]
  <2>2. step[<<f[m - 1], m>>] \in B
    BY <2>1
  <2>3. g \in [0 .. m -> B]
    BY <2>2
  <2>4. ASSUME NEW k \in 1 .. m
        PROVE  g[k] = step[<<g[k - 1], k>>]
    <3>1. CASE k = m
      <4>1. k # 0 /\ k - 1 \in 0 .. m /\ k - 1 # m
        BY <3>1
      <4>2. g[k - 1] = f[m - 1] /\ g[k] = step[<<f[m - 1], m>>]
        BY <3>1, <4>1
      <4> QED
        BY <3>1, <4>1, <4>2
    <3>2. CASE k # m
      <4>1. k \in 1 .. m - 1 /\ g[k] = f[k] /\ g[k - 1] = f[k - 1]
        BY <3>2
      <4> QED
        BY <2>1, <4>1 DEF Recursion
    <3> QED
      BY <3>1, <3>2
  <2>5. Recursion(g, m, base, step)
    <3>1. 0 \in 0 .. m /\ 0 # m /\ f[0] = base
      BY <2>1 DEF Recursion
    <3> QED
      BY <2>4, <3>1 DEF Recursion
  <2> QED
    BY <2>3, <2>5
<1> HIDE DEF Good
<1>3. n \in Good
  BY <1>1, <1>2, UpTo
<1> QED
  BY <1>3 DEF Good
-----------------------------------------------------------------------------
(* Characters and texts. *)

\* The characters of the format differ from one another.
LEMMA Distinct ==
  /\ Space \notin {"[", "]", ":", Comma, Quote, Open, Shut} \cup Word
  /\ Comma # Shut /\ Comma # Quote /\ Shut # Quote /\ Shut \notin Word
  /\ Open # "]"
  BY Zenon DEF Space, Comma, Quote, Open, Shut, Word

LEMMA FormatChars ==
  /\ "[" \in Char /\ "]" \in Char /\ ":" \in Char /\ Comma \in Char
  /\ Quote \in Char /\ Open \in Char /\ Shut \in Char /\ Word \subseteq Char
BY ConstantsAssumption DEF Format

\* A few characters are a text.
LEMMA Pieces ==
  ASSUME NEW S, NEW a \in S, NEW b \in S, NEW c \in S, NEW d \in S
  PROVE  /\ <<a>> \in Seq(S) /\ Len(<<a>>) = 1
         /\ <<a, b>> \in Seq(S) /\ Len(<<a, b>>) = 2
         /\ <<a, b, c, d>> \in Seq(S) /\ Len(<<a, b, c, d>>) = 4
<1>1. <<a>> \in Seq(S) /\ Len(<<a>>) = 1
  OBVIOUS
<1>2. <<a, b>> \in Seq(S) /\ Len(<<a, b>>) = 2
  OBVIOUS
<1>3. <<a, b, c, d>> \in Seq(S) /\ Len(<<a, b, c, d>>) = 4
  OBVIOUS
<1> QED
  BY <1>1, <1>2, <1>3

\* The literals of the format are texts without spaces.
LEMMA LiteralText ==
  ASSUME NEW S, S = Char \/ S = Char \ {Space}
  PROVE  /\ <<"[">> \in Seq(S) /\ Len(<<"[">>) = 1
         /\ <<"]">> \in Seq(S) /\ Len(<<"]">>) = 1
         /\ <<"[", "]">> \in Seq(S) /\ Len(<<"[", "]">>) = 2
         /\ <<Open>> \in Seq(S) /\ Len(<<Open>>) = 1
         /\ <<Comma>> \in Seq(S) /\ Len(<<Comma>>) = 1
         /\ <<Quote>> \in Seq(S) /\ Len(<<Quote>>) = 1
         /\ <<Shut, Comma>> \in Seq(S) /\ Len(<<Shut, Comma>>) = 2
         /\ <<Quote, Shut>> \in Seq(S) /\ Len(<<Quote, Shut>>) = 2
         /\ \A word \in Word : Key(word) \in Seq(S) /\ Len(Key(word)) = 4
<1>1. /\ "[" \in S /\ "]" \in S /\ ":" \in S /\ Comma \in S
      /\ Quote \in S /\ Open \in S /\ Shut \in S
  BY FormatChars, Distinct
<1>2. \A word \in Word : word \in S
  BY FormatChars, Distinct
<1>3. /\ <<"[">> \in Seq(S) /\ Len(<<"[">>) = 1
      /\ <<"]">> \in Seq(S) /\ Len(<<"]">>) = 1
      /\ <<Open>> \in Seq(S) /\ Len(<<Open>>) = 1
      /\ <<Comma>> \in Seq(S) /\ Len(<<Comma>>) = 1
      /\ <<Quote>> \in Seq(S) /\ Len(<<Quote>>) = 1
  BY <1>1, Pieces
<1>4. /\ <<"[", "]">> \in Seq(S) /\ Len(<<"[", "]">>) = 2
      /\ <<Shut, Comma>> \in Seq(S) /\ Len(<<Shut, Comma>>) = 2
      /\ <<Quote, Shut>> \in Seq(S) /\ Len(<<Quote, Shut>>) = 2
  BY <1>1, Pieces
<1>5. ASSUME NEW word \in Word PROVE Key(word) \in Seq(S) /\ Len(Key(word)) = 4
  BY <1>1, <1>2, Pieces DEF Key
<1> QED
  BY <1>3, <1>4, <1>5

\* What is kept up to a place is what was kept before it, and the character
\* of that place if it is no space.
KeptStep(t, n) ==
  Kept(t)[n] = IF t[n] = Space THEN Kept(t)[n - 1] ELSE Append(Kept(t)[n - 1], t[n])

LEMMA KeptSteps ==
  ASSUME NEW S, NEW t \in Seq(S)
  PROVE  /\ Kept(t) \in [0 .. Len(t) -> Seq(S)]
         /\ Kept(t)[0] = <<>>
         /\ \A n \in 1 .. Len(t) : KeptStep(t, n)
<1> DEFINE B == Seq(S)
           step == [bk \in B \X (1 .. Len(t)) |->
                      IF t[bk[2]] = Space THEN bk[1] ELSE Append(bk[1], t[bk[2]])]
           Solves(f) ==
             f = [n \in 0 .. Len(t) |->
                    IF n = 0 THEN <<>>
                    ELSE IF t[n] = Space THEN f[n - 1] ELSE Append(f[n - 1], t[n])]
<1>1. Len(t) \in Nat /\ <<>> \in B /\ \A n \in 1 .. Len(t) : t[n] \in S
  BY LenProperties, ElementOfSeq
<1>2. \A s \in B, e \in S : Append(s, e) \in B
  BY AppendProperties
<1>3. step \in [B \X (1 .. Len(t)) -> B]
  BY <1>1, <1>2
<1>4. PICK f \in [0 .. Len(t) -> B] : Recursion(f, Len(t), <<>>, step)
  <2> HIDE DEF B, step
  <2> QED
    BY <1>1, <1>3, RecursionExists
<1>5. ASSUME NEW n \in 1 .. Len(t)
      PROVE  f[n] = IF t[n] = Space THEN f[n - 1] ELSE Append(f[n - 1], t[n])
  <2>1. n - 1 \in 0 .. Len(t) /\ n \in 0 .. Len(t) /\ n # 0
    BY <1>1
  <2>2. f[n] = step[<<f[n - 1], n>>]
    BY <1>4, <2>1 DEF Recursion
  <2>3. <<f[n - 1], n>> \in B \X (1 .. Len(t))
    BY <2>1, <1>4
  <2> QED
    BY <2>2, <2>3
<1>6. Solves(f)
  <2>1. f[0] = <<>>
    BY <1>4 DEF Recursion
  <2>2. ASSUME NEW n \in 0 .. Len(t)
        PROVE  f[n] = IF n = 0 THEN <<>>
                      ELSE IF t[n] = Space THEN f[n - 1] ELSE Append(f[n - 1], t[n])
    <3>1. CASE n = 0
      BY <2>1, <3>1
    <3>2. CASE n # 0
      <4>1. n \in 1 .. Len(t)
        BY <1>1, <3>2
      <4> QED
        BY <1>5, <3>2, <4>1
    <3> QED
      BY <3>1, <3>2
  <2> HIDE DEF B, step
  <2> QED
    BY <1>4, <2>2
<1>7. Solves(Kept(t))
  BY <1>6 DEF Kept
<1> HIDE DEF B, step
<1>8. Kept(t)[0] = <<>>
  <2>1. 0 \in 0 .. Len(t)
    BY <1>1
  <2> QED
    BY <1>7, <2>1
<1>9. ASSUME NEW n \in 1 .. Len(t) PROVE KeptStep(t, n)
  <2>1. n \in 0 .. Len(t) /\ n # 0
    BY <1>1
  <2> QED
    BY <1>7, <2>1 DEF KeptStep
<1>10. \A n \in 0 .. Len(t) : Kept(t)[n] \in B
  <2> DEFINE Good == {k \in 0 .. Len(t) : Kept(t)[k] \in B}
  <2> HIDE DEF Solves
  <2>1. 0 \in Good
    BY <1>1, <1>8
  <2>2. ASSUME NEW n \in 1 .. Len(t), n - 1 \in Good PROVE n \in Good
    <3>1. KeptStep(t, n)
      BY <1>9
    <3>2. Kept(t)[n - 1] \in B /\ t[n] \in S
      BY <1>1, <2>2
    <3>3. Append(Kept(t)[n - 1], t[n]) \in B
      BY <1>2, <3>2
    <3>4. Kept(t)[n] \in B
      BY <3>1, <3>2, <3>3 DEF KeptStep
    <3> QED
      BY <3>4
  <2> HIDE DEF Good
  <2>3. \A n \in 0 .. Len(t) : n \in Good
    BY <1>1, <2>1, <2>2, UpTo
  <2> QED
    BY <2>3 DEF Good
<1>11. Kept(t) \in [0 .. Len(t) -> B]
  BY <1>7, <1>10
<1> QED
  BY <1>8, <1>9, <1>11 DEF B

THEOREM StripType ==
  ASSUME NEW S, NEW t \in Seq(S)
  PROVE  Strip(t) \in Seq(S)
<1>1. Kept(t) \in [0 .. Len(t) -> Seq(S)] /\ Len(t) \in 0 .. Len(t)
  BY KeptSteps, LenProperties
<1> QED
  BY <1>1 DEF Strip
-----------------------------------------------------------------------------
(* Numbers. *)

\* The value of some digits is a number.
LEMMA ValueType ==
  ASSUME NEW digits \in Seq(DOMAIN Digit)
  PROVE  Value(digits)[Len(digits)] \in Nat
<1> DEFINE D == Len(digits)
           step == [vk \in Nat \X (1 .. D) |-> 10 * vk[1] + Digit[digits[vk[2]]]]
           Solves(f) ==
             f = [n \in 0 .. Len(digits) |->
                    IF n = 0 THEN 0 ELSE 10 * f[n - 1] + Digit[digits[n]]]
<1>1. D \in Nat /\ \A n \in 1 .. D : Digit[digits[n]] \in Nat
  <2>1. D \in Nat /\ \A n \in 1 .. D : digits[n] \in DOMAIN Digit
    BY LenProperties, ElementOfSeq
  <2> QED
    BY <2>1, ConstantsAssumption
<1>2. step \in [Nat \X (1 .. D) -> Nat]
  BY <1>1
<1>3. PICK f \in [0 .. D -> Nat] : Recursion(f, D, 0, step)
  <2> HIDE DEF D, step
  <2> QED
    BY <1>1, <1>2, RecursionExists
<1>4. ASSUME NEW n \in 1 .. D PROVE f[n] = 10 * f[n - 1] + Digit[digits[n]]
  <2>1. n - 1 \in 0 .. D
    BY <1>1
  <2>2. f[n] = step[<<f[n - 1], n>>]
    BY <1>3 DEF Recursion
  <2> QED
    BY <2>1, <2>2, <1>3
<1>5. Solves(f)
  <2>1. f[0] = 0
    BY <1>3 DEF Recursion
  <2>2. ASSUME NEW n \in 0 .. D
        PROVE  f[n] = IF n = 0 THEN 0 ELSE 10 * f[n - 1] + Digit[digits[n]]
    <3>1. CASE n = 0
      BY <2>1, <3>1
    <3>2. CASE n # 0
      <4>1. n \in 1 .. D
        BY <1>1, <3>2
      <4> QED
        BY <1>4, <3>2, <4>1
    <3> QED
      BY <3>1, <3>2
  <2> QED
    BY <1>3, <2>2
<1>6. Solves(Value(digits))
  BY <1>5 DEF Value
<1> DEFINE v == Value(digits)
<1>7. v[0] = 0
  <2>1. 0 \in 0 .. Len(digits)
    BY <1>1
  <2> QED
    BY <1>6, <2>1
<1>8. ASSUME NEW n \in 1 .. D PROVE v[n] = 10 * v[n - 1] + Digit[digits[n]]
  <2>1. n \in 0 .. Len(digits) /\ n # 0
    BY <1>1
  <2> QED
    BY <1>6, <2>1
<1> HIDE DEF v, D, Solves
<1> DEFINE Good == {k \in 0 .. D : v[k] \in Nat}
<1>9. 0 \in Good
  BY <1>1, <1>7
<1>10. ASSUME NEW n \in 1 .. D, n - 1 \in Good PROVE n \in Good
  <2>1. v[n] = 10 * v[n - 1] + Digit[digits[n]]
    BY <1>8
  <2>2. v[n - 1] \in Nat /\ Digit[digits[n]] \in Nat
    BY <1>1, <1>10
  <2>3. \A x, y \in Nat : 10 * x + y \in Nat
    OBVIOUS
  <2>4. v[n] \in Nat
    BY <2>1, <2>2, <2>3
  <2> QED
    BY <1>1, <2>4
<1>11. D \in Good
  <2> HIDE DEF Good
  <2> QED
    BY <1>1, <1>9, <1>10, UpTo
<1> QED
  BY <1>11 DEF v, D

\* What stol takes for the digits at the front are digits.
LEMMA LeadingDigitsType ==
  ASSUME NEW t \in Seq(Char)
  PROVE  LeadingDigits(t) \in Seq(DOMAIN Digit)
<1> DEFINE I == {i \in 1 .. Len(t) : t[i] \notin DOMAIN Digit}
           n == SelectInSeq(t, LAMBDA c : c \notin DOMAIN Digit)
<1>1. Len(t) \in Nat
  BY LenProperties
<1>2. n = IF I # {} THEN Min(I) ELSE 0
  BY DEF SelectInSeq
<1>3. CASE I = {}
  <2>1. \A i \in 1 .. Len(t) : t[i] \in DOMAIN Digit
    BY <1>3
  <2>2. t \in Seq(DOMAIN Digit)
    BY <1>1, <2>1, LenProperties, SeqDef
  <2>3. n = 0
    BY <1>2, <1>3
  <2> QED
    BY <2>2, <2>3 DEF LeadingDigits
<1>4. CASE I # {}
  <2>1. Min(I) \in I /\ \A j \in I : Min(I) <= j
    <3>1. I \subseteq Nat
      BY <1>1
    <3> HIDE DEF I
    <3>2. Search!Min(I) \in I /\ \A j \in I : Search!Min(I) <= j
      BY <1>4, <3>1, Search!MinIsLeast
    <3> QED
      BY <3>2 DEF Min, Search!Min
  <2>2. n = Min(I) /\ n \in 1 .. Len(t)
    BY <1>2, <1>4, <2>1
  <2> HIDE DEF n
  <2>3. \A i \in 1 .. n - 1 : i \in 1 .. Len(t) /\ i \notin I
    BY <1>1, <2>1, <2>2
  <2>4. \A i \in 1 .. n - 1 : t[i] \in DOMAIN Digit
    BY <2>3
  <2>5. SubSeq(t, 1, n - 1) \in Seq(DOMAIN Digit)
    BY <2>2, <2>4, SubSeqProperties
  <2>6. LeadingDigits(t) = IF n = 0 THEN t ELSE SubSeq(t, 1, n - 1)
    BY DEF LeadingDigits, n
  <2>7. n # 0
    BY <2>2
  <2> QED
    BY <2>5, <2>6, <2>7
<1> QED
  BY <1>3, <1>4

\* stol returns an integer, and the message takes it narrowed.
LEMMA LongType ==
  ASSUME NEW t \in Seq(Char)
  PROVE  Long(t) \in Int
<1>1. Unsigned(t) \in Seq(Char)
  BY HeadTailProperties DEF Unsigned
<1>2. LeadingDigits(Unsigned(t)) \in Seq(DOMAIN Digit)
  BY <1>1, LeadingDigitsType
<1>3. Magnitude(t) \in Nat
  BY <1>2, ValueType DEF Magnitude
<1> QED
  BY <1>3 DEF Long

LEMMA Int32Type ==
  ASSUME NEW n \in Int
  PROVE  /\ Int32(n) \in Int32Range
         /\ n \in Int32Range => Int32(n) = n
<1>1. IntMax \in Nat
  BY ConstantsAssumption
<1>2. Int32(n) \in Int32Range
  BY <1>1 DEF Int32, Int32Range
<1>3. ASSUME n \in Int32Range PROVE Int32(n) = n
  BY <1>1, <1>3 DEF Int32, Int32Range
<1> QED
  BY <1>2, <1>3

-----------------------------------------------------------------------------
(* Files. *)

\* The strings of the format, and a coordinate and a name, are texts.
LEMMA FeatureText ==
  ASSUME NEW f \in Feature
  PROVE  /\ f.lat \in Coordinate /\ f.lon \in Coordinate
         /\ f.lat \in Seq(Char) /\ f.lon \in Seq(Char)
         /\ f.name \in Seq(Char \ {Quote}) /\ f.name \in Seq(Char)
         /\ RenderFeature(f) \in Seq(Char)
<1>1. /\ f.lat \in Coordinate /\ f.lon \in Coordinate
      /\ f.name \in Seq(Char \ {Quote})
  BY DEF Feature
<1>2. \A S : \A t \in Seq(Char \ S) : t \in Seq(Char)
  <2> TAKE S
  <2> TAKE t \in Seq(Char \ S)
  <2>1. \A i \in 1 .. Len(t) : t[i] \in Char
    BY ElementOfSeq
  <2> QED
    BY <2>1, SeqMonotonic
<1>3. f.lat \in Seq(Char) /\ f.lon \in Seq(Char) /\ f.name \in Seq(Char)
  BY <1>1, <1>2 DEF Coordinate
<1>4. \A s, t \in Seq(Char) : s \o t \in Seq(Char)
  BY ConcatProperties
<1>5. /\ <<Open>> \in Seq(Char) /\ <<Comma>> \in Seq(Char)
      /\ <<Quote>> \in Seq(Char) /\ <<Shut, Comma>> \in Seq(Char)
      /\ <<Quote, Shut>> \in Seq(Char)
  BY LiteralText
<1>6. /\ Key("location") \in Seq(Char) /\ Key("latitude") \in Seq(Char)
      /\ Key("longitude") \in Seq(Char) /\ Key("name") \in Seq(Char)
  BY LiteralText DEF Word
<1>7. RenderFeature(f) \in Seq(Char)
  BY ONLY <1>3, <1>4, <1>5, <1>6 DEF RenderFeature
<1> QED
  BY <1>1, <1>3, <1>7

\* The file up to a feature is the file up to the one before, the feature, and
\* a comma or, after the last, the closing bracket.
WrittenStep(fs, k) ==
  Written(fs)[k] = Written(fs)[k - 1] \o RenderFeature(fs[k])
                     \o <<IF k = Len(fs) THEN "]" ELSE Comma>>

LEMMA WrittenSteps ==
  ASSUME NEW fs \in Seq(Feature)
  PROVE  /\ Written(fs) \in [0 .. Len(fs) -> Seq(Char)]
         /\ Written(fs)[0] = <<"[">>
         /\ \A k \in 1 .. Len(fs) : WrittenStep(fs, k)
<1> DEFINE n == Len(fs)
           B == Seq(Char)
           More(s, k) == s \o RenderFeature(fs[k])
                           \o <<IF k = Len(fs) THEN "]" ELSE Comma>>
           step == [wk \in B \X (1 .. n) |-> More(wk[1], wk[2])]
           Solves(f) ==
             f = [k \in 0 .. Len(fs) |->
                    IF k = 0 THEN <<"[">>
                    ELSE f[k - 1] \o RenderFeature(fs[k])
                           \o <<IF k = Len(fs) THEN "]" ELSE Comma>>]
<1>1. n \in Nat /\ \A k \in 1 .. n : fs[k] \in Feature
  BY LenProperties, ElementOfSeq
<1>2. ASSUME NEW s \in B, NEW k \in 1 .. n PROVE More(s, k) \in B
  <2>1. RenderFeature(fs[k]) \in B
    BY <1>1, FeatureText
  <2>2. <<IF k = Len(fs) THEN "]" ELSE Comma>> \in B
    <3>1. CASE k = Len(fs)
      BY <3>1, LiteralText
    <3>2. CASE k # Len(fs)
      BY <3>2, LiteralText
    <3> QED
      BY <3>1, <3>2
  <2>3. s \o RenderFeature(fs[k]) \in B
    BY <2>1, ConcatProperties
  <2> QED
    BY <2>2, <2>3, ConcatProperties
<1>3. step \in [B \X (1 .. n) -> B] /\ <<"[">> \in B
  <2>1. <<"[">> \in B
    BY LiteralText
  <2> HIDE DEF More, B, n
  <2>2. ASSUME NEW wk \in B \X (1 .. n) PROVE More(wk[1], wk[2]) \in B
    <3>1. wk[1] \in B /\ wk[2] \in 1 .. n
      OBVIOUS
    <3> QED
      BY <1>2, <3>1
  <2> QED
    BY <2>1, <2>2
<1>4. PICK f \in [0 .. n -> B] : Recursion(f, n, <<"[">>, step)
  <2> HIDE DEF n, step, B
  <2> QED
    BY <1>1, <1>3, RecursionExists
<1>5. ASSUME NEW k \in 1 .. n PROVE f[k] = More(f[k - 1], k)
  <2> HIDE DEF More
  <2>1. k - 1 \in 0 .. n
    BY <1>1
  <2>2. f[k] = step[<<f[k - 1], k>>]
    BY <1>4 DEF Recursion
  <2> QED
    BY <2>1, <2>2, <1>4
<1>6. Solves(f)
  <2>1. f[0] = <<"[">>
    BY <1>4 DEF Recursion
  <2>2. ASSUME NEW k \in 0 .. n
        PROVE  f[k] = IF k = 0 THEN <<"[">> ELSE More(f[k - 1], k)
    <3> HIDE DEF More
    <3>1. CASE k = 0
      BY <2>1, <3>1
    <3>2. CASE k # 0
      <4>1. k \in 1 .. n
        BY <1>1, <3>2
      <4> QED
        BY <1>5, <3>2, <4>1
    <3> QED
      BY <3>1, <3>2
  <2> QED
    BY <1>4, <2>2
<1>7. Solves(Written(fs))
  BY <1>6 DEF Written
<1> DEFINE w == Written(fs)
<1>8. w = [k \in 0 .. n |-> IF k = 0 THEN <<"[">> ELSE More(w[k - 1], k)]
  BY <1>7
<1>9. w[0] = <<"[">>
  <2>1. 0 \in 0 .. n
    BY <1>1
  <2> QED
    BY <1>8, <2>1
<1>10. ASSUME NEW k \in 1 .. n PROVE w[k] = More(w[k - 1], k)
  <2> HIDE DEF More, w, n
  <2>1. k \in 0 .. n /\ k # 0
    BY <1>1
  <2> QED
    BY <1>8, <2>1
<1>11. ASSUME NEW k \in 1 .. n PROVE WrittenStep(fs, k)
  <2>1. w[k] = More(w[k - 1], k)
    BY <1>10
  <2> QED
    BY <2>1 DEF WrittenStep
<1>12. w \in [0 .. n -> B]
  <2> DEFINE Good == {k \in 0 .. n : w[k] \in B}
  <2> HIDE DEF w, n, More
  <2>1. 0 \in Good
    <3>1. <<"[">> \in B
      BY LiteralText
    <3>2. w[0] \in B
      BY <1>9, <3>1
    <3>3. 0 \in 0 .. n
      BY <1>1
    <3> QED
      BY <3>2, <3>3
  <2>2. ASSUME NEW k \in 1 .. n, k - 1 \in Good PROVE k \in Good
    <3>1. w[k] = More(w[k - 1], k)
      BY <1>10
    <3>2. w[k - 1] \in B
      BY <2>2
    <3>3. More(w[k - 1], k) \in B
      BY <1>2, <3>2
    <3> QED
      BY <1>1, <3>1, <3>3
  <2>3. \A k \in 0 .. n : k \in Good
    <3> HIDE DEF Good
    <3> QED
      BY <1>1, <2>1, <2>2, UpTo
  <2>4. \A k \in 0 .. n : w[k] \in B
    BY <2>3
  <2> QED
    BY <1>8, <2>4
<1> QED
  BY <1>9, <1>11, <1>12

LEMMA RenderType ==
  ASSUME NEW fs \in Seq(Feature)
  PROVE  Render(fs) \in Seq(Char)
<1>1. Len(fs) \in 0 .. Len(fs)
  BY LenProperties
<1>2. Written(fs)[Len(fs)] \in Seq(Char)
  BY <1>1, WrittenSteps
<1>3. <<"[", "]">> \in Seq(Char)
  BY LiteralText
<1> QED
  BY <1>2, <1>3 DEF Render

\* A damaged text is a text.
LEMMA DamagedType ==
  ASSUME NEW t \in Seq(Char), NEW u \in Cut(t) \cup Edited(t)
  PROVE  u \in Seq(Char)
<1>1. Len(t) \in Nat /\ \A i \in 1 .. Len(t) : t[i] \in Char
  BY LenProperties, ElementOfSeq
<1>2. \A m, n \in Int : (m >= 1 /\ n <= Len(t)) => SubSeq(t, m, n) \in Seq(Char)
  <2> SUFFICES ASSUME NEW m \in Int, NEW n \in Int, m >= 1, n <= Len(t)
               PROVE  SubSeq(t, m, n) \in Seq(Char)
    OBVIOUS
  <2>1. \A i \in m .. n : t[i] \in Char
    BY <1>1
  <2> QED
    BY <2>1, SubSeqProperties
<1>3. \A a, b \in Seq(Char) : a \o b \in Seq(Char)
  BY ConcatProperties
<1>4. CASE u \in Cut(t)
  BY <1>1, <1>2, <1>4 DEF Cut
<1>5. ASSUME NEW i \in DOMAIN t, u = RemoveAt(t, i) PROVE u \in Seq(Char)
  <2>1. i \in 1 .. Len(t)
    BY LenProperties
  <2>2. SubSeq(t, 1, i - 1) \in Seq(Char) /\ SubSeq(t, i + 1, Len(t)) \in Seq(Char)
    BY <1>1, <1>2, <2>1
  <2> QED
    BY <1>3, <1>5, <2>2 DEF RemoveAt
<1>6. ASSUME NEW i \in DOMAIN t, NEW c \in Typo, u = ReplaceAt(t, i, c)
      PROVE  u \in Seq(Char)
  <2>1. c \in Char
    BY ConstantsAssumption
  <2> QED
    BY <1>6, <2>1, ExceptSeq DEF ReplaceAt
<1>7. ASSUME NEW i \in 1 .. Len(t) + 1, NEW c \in Typo, u = InsertAt(t, i, c)
      PROVE  u \in Seq(Char)
  <2>1. <<c>> \in Seq(Char)
    BY ConstantsAssumption
  <2>2. SubSeq(t, 1, i - 1) \in Seq(Char) /\ SubSeq(t, i, Len(t)) \in Seq(Char)
    BY <1>1, <1>2
  <2> QED
    BY <1>3, <1>7, <2>1, <2>2 DEF InsertAt
<1> QED
  BY <1>4, <1>5, <1>6, <1>7 DEF Edited

-----------------------------------------------------------------------------
(* The parser on any text. *)

\* Where the parser is in the groups of literals, and that it has a feature to
\* fill while it reads one.
PlaceInv ==
  /\ at.i <= Len(Expect[at.group])
  /\ pc = "number" => at.group <= 2
  /\ pc \in {"match", "number", "name", "named", "close"} => list # <<>>

TextInv == TypeOK /\ PlaceInv /\ IndexInRange

\* The groups are of literals, each of one character at least.
LEMMA Literals ==
  ASSUME NEW g \in 1 .. 3, NEW i \in 1 .. 4, i <= Len(Expect[g])
  PROVE  /\ Expect[g][i] \in Seq(Char)
         /\ Len(Expect[g][i]) \in 1 .. 4
<1>1. /\ <<Open>> \in Seq(Char) /\ Len(<<Open>>) = 1
      /\ <<Comma>> \in Seq(Char) /\ Len(<<Comma>>) = 1
      /\ <<Quote>> \in Seq(Char) /\ Len(<<Quote>>) = 1
      /\ <<Shut, Comma>> \in Seq(Char) /\ Len(<<Shut, Comma>>) = 2
  BY LiteralText
<1>2. /\ Key("location") \in Seq(Char) /\ Len(Key("location")) = 4
      /\ Key("latitude") \in Seq(Char) /\ Len(Key("latitude")) = 4
      /\ Key("longitude") \in Seq(Char) /\ Len(Key("longitude")) = 4
      /\ Key("name") \in Seq(Char) /\ Len(Key("name")) = 4
  BY LiteralText DEF Word
<1>3. Expect[g][i] \in {<<Open>>, <<Comma>>, <<Quote>>, <<Shut, Comma>>,
        Key("location"), Key("latitude"), Key("longitude"), Key("name")}
  <2>1. CASE g = 1
    BY <2>1 DEF Expect
  <2>2. CASE g = 2
    BY <2>2 DEF Expect
  <2>3. CASE g = 3
    BY <2>3 DEF Expect
  <2> QED
    BY <2>1, <2>2, <2>3
<1>4. 1 \in 1 .. 4 /\ 2 \in 1 .. 4 /\ 4 \in 1 .. 4
  OBVIOUS
<1> HIDE DEF Key
<1>5. ASSUME NEW e, e = <<Open>> \/ e = <<Comma>> \/ e = <<Quote>> \/ e = <<Shut, Comma>>
      PROVE  e \in Seq(Char) /\ Len(e) \in 1 .. 4
  BY ONLY <1>1, <1>4, <1>5, Zenon
<1>6. ASSUME NEW e, \/ e = Key("location") \/ e = Key("latitude")
                   \/ e = Key("longitude") \/ e = Key("name")
      PROVE  e \in Seq(Char) /\ Len(e) \in 1 .. 4
  BY ONLY <1>2, <1>4, <1>6, Zenon
<1> QED
  BY ONLY <1>3, <1>5, <1>6, Zenon

\* The features of the list: numbers of an int32 each, and a name.
Entry == [lat : Int32Range, lon : Int32Range, name : Seq(Char)]

LEMMA InitTextInv == Init => TextInv
<1> SUFFICES ASSUME Init PROVE TextInv
  OBVIOUS
<1>1. db \in Seq(Feature)
  BY ConstantsAssumption DEF Init
<1>2. Render(db) \in Seq(Char)
  BY <1>1, RenderType
<1>3. text \in Seq(Char)
  BY <1>2, DamagedType DEF Init
<1>4. TypeOK
  <2>1. list \in Seq(Entry)
    BY EmptySeq DEF Init
  <2>2. at \in [group : 1 .. 3, i : 1 .. 4]
    BY DEF Init
  <2>3. /\ current \in Nat /\ start \in Nat /\ failed \in BOOLEAN
        /\ pc = "construct"
    BY DEF Init
  <2> QED
    BY <1>3, <2>1, <2>2, <2>3 DEF TypeOK, Entry
<1>5. PlaceInv /\ IndexInRange
  BY DEF Init, PlaceInv, IndexInRange, Expect
<1> QED
  BY <1>4, <1>5 DEF TextInv

LEMMA ConstructKeepsText == TextInv /\ Construct => TextInv'
<1> SUFFICES ASSUME TextInv, Construct PROVE TextInv'
  OBVIOUS
<1>1. text' \in Seq(Char)
  BY StripType DEF TextInv, TypeOK, Construct
<1>2. TypeOK'
  BY <1>1 DEF TextInv, TypeOK, Construct
<1>3. (PlaceInv /\ IndexInRange)'
  BY DEF TextInv, PlaceInv, IndexInRange, Construct
<1> QED
  BY <1>2, <1>3 DEF TextInv

LEMMA LoopKeepsText == TextInv /\ Loop => TextInv'
<1> SUFFICES ASSUME TextInv, Loop PROVE TextInv'
  OBVIOUS
<1> DEFINE e == [lat |-> 0, lon |-> 0, name |-> <<>>]
<1>1. e \in Entry /\ list \in Seq(Entry) /\ <<>> \in Seq(Entry)
  BY ConstantsAssumption DEF Entry, Int32Range, TextInv, TypeOK
<1>2. Append(list, e) \in Seq(Entry) /\ Append(list, e) # <<>>
  <2> HIDE DEF e
  <2> QED
    BY <1>1, AppendProperties
<1>3. Size \in Nat
  BY LenProperties DEF TextInv, TypeOK, Size
<1>4. TypeOK'
  <2>1. list' \in Seq(Entry)
    BY <1>1, <1>2 DEF Loop, Fail
  <2>2. UNCHANGED <<text, current, failed, start>>
    BY DEF Loop
  <2>3. at' \in [group : 1 .. 3, i : 1 .. 4] /\ pc' \in {"end", "match"}
    BY DEF Loop, Fail, TextInv, TypeOK
  <2> QED
    BY <2>1, <2>2, <2>3 DEF TextInv, TypeOK, Entry
<1>5. PlaceInv'
  <2>1. at'.i <= Len(Expect[at'.group])
    <3>1. 1 <= Len(Expect[1])
      BY DEF Expect
    <3> QED
      BY <3>1 DEF TextInv, PlaceInv, Loop, Fail
  <2>2. pc' = "end" \/ (pc' = "match" /\ list' # <<>>)
    BY <1>2 DEF Loop, Fail
  <2> QED
    BY <2>1, <2>2 DEF PlaceInv
<1>6. IndexInRange'
  BY <1>3 DEF TextInv, TypeOK, IndexInRange, Loop, Fail, Finished, Size
<1> QED
  BY <1>4, <1>5, <1>6 DEF TextInv

LEMMA MatchKeepsText == TextInv /\ MatchNext => TextInv'
<1> SUFFICES ASSUME TextInv, MatchNext PROVE TextInv'
  OBVIOUS
<1> DEFINE literal == Expect[at.group][at.i]
<1>1. PICK g \in 1 .. 3, i \in 1 .. 4 : at = [group |-> g, i |-> i]
  BY DEF TextInv, TypeOK
<1>2. at.group = g /\ at.i = i /\ i <= Len(Expect[g])
  BY <1>1 DEF TextInv, PlaceInv
<1>3. Len(literal) \in 1 .. 4
  BY <1>2, Literals
<1>4. Len(Expect[g]) \in 1 .. 4
  BY DEF Expect
<1>5. /\ pc = "match" /\ list # <<>> /\ list \in Seq(Entry)
      /\ current \in Nat /\ start \in Nat
      /\ current' = current + Len(literal)
      /\ UNCHANGED <<text, failed>>
  BY DEF TextInv, TypeOK, PlaceInv, Entry, MatchNext
<1>6. CASE ~Match(literal)
  <2>1. pc' = "end" /\ list' = <<>> /\ UNCHANGED <<at, start>>
    BY <1>6 DEF MatchNext, Fail
  <2>2. TypeOK'
    BY <1>3, <1>5, <2>1 DEF TextInv, TypeOK
  <2> QED
    BY <2>1, <2>2 DEF TextInv, PlaceInv, IndexInRange
<1>7. CASE Match(literal) /\ i < Len(Expect[g])
  <2>1. at' = [group |-> g, i |-> i + 1] /\ UNCHANGED <<pc, list, start>>
    BY <1>1, <1>2, <1>7 DEF MatchNext
  <2>2. current' <= Size
    BY <1>5, <1>7 DEF Match
  <2>3. TypeOK'
    <3>1. i + 1 \in 1 .. 4
      <4>1. i < Len(Expect[g])
        BY <1>7
      <4>2. \A m, j \in 1 .. 4 : j < m => j + 1 \in 1 .. 4
        OBVIOUS
      <4> QED
        BY <1>4, <4>1, <4>2, Zenon
    <3>2. at' \in [group : 1 .. 3, i : 1 .. 4]
      BY <2>1, <3>1
    <3>3. current' \in Nat /\ start' \in Nat
      BY <1>3, <1>5, <2>1
    <3> QED
      BY <1>5, <2>1, <3>2, <3>3 DEF TextInv, TypeOK
  <2>4. PlaceInv'
    BY <1>4, <1>5, <1>7, <2>1 DEF PlaceInv
  <2>5. IndexInRange'
    BY <1>5, <2>1, <2>2 DEF IndexInRange, Size
  <2> QED
    BY <2>3, <2>4, <2>5 DEF TextInv
<1>8. CASE Match(literal) /\ ~(i < Len(Expect[g]))
  <2>1. /\ pc' = IF g = 3 THEN "name" ELSE "number"
        /\ start' = current'
        /\ UNCHANGED <<at, list>>
    BY <1>2, <1>8 DEF MatchNext
  <2>2. current' <= Size
    BY <1>5, <1>8 DEF Match
  <2>3. TypeOK'
    BY <1>3, <1>5, <2>1 DEF TextInv, TypeOK
  <2>4. PlaceInv'
    BY <1>2, <1>5, <2>1 DEF PlaceInv
  <2>5. IndexInRange'
    BY <1>5, <2>1, <2>2 DEF IndexInRange, Size
  <2> QED
    BY <2>3, <2>4, <2>5 DEF TextInv
<1> QED
  BY <1>6, <1>7, <1>8

LEMMA ScanKeepsText == TextInv /\ (ScanNumber \/ ScanName) => TextInv'
<1> SUFFICES ASSUME TextInv, ScanNumber \/ ScanName PROVE TextInv'
  OBVIOUS
<1>1. Size \in Nat
  BY LenProperties DEF TextInv, TypeOK, Size
<1>2. /\ current \in Nat /\ current <= Size /\ current # Size
      /\ current' = current + 1
      /\ pc \in {"number", "name"} /\ pc' \in {pc, "named"}
      /\ pc' = "number" => pc = "number"
      /\ UNCHANGED <<text, failed, at, start, list>>
  BY DEF TextInv, TypeOK, IndexInRange, ScanNumber, ScanName, InNumber
<1>3. TypeOK'
  BY <1>2 DEF TextInv, TypeOK
<1>4. PlaceInv'
  BY <1>2 DEF TextInv, PlaceInv
<1>5. IndexInRange'
  BY <1>1, <1>2 DEF IndexInRange, Size
<1> QED
  BY <1>3, <1>4, <1>5 DEF TextInv

\* What is between two places of the text is a text.
LEMMA PieceType ==
  ASSUME TextInv, NEW m \in Nat, NEW n \in Int, n <= Size
  PROVE  SubSeq(text, m + 1, n) \in Seq(Char)
<1>1. Len(text) \in Nat /\ \A i \in 1 .. Len(text) : text[i] \in Char
  BY LenProperties, ElementOfSeq DEF TextInv, TypeOK
<1>2. \A i \in m + 1 .. n : text[i] \in Char
  BY <1>1 DEF Size
<1> QED
  BY <1>2, SubSeqProperties

LEMMA ReadLongKeepsText == TextInv /\ ReadLong => TextInv'
<1> SUFFICES ASSUME TextInv, ReadLong PROVE TextInv'
  OBVIOUS
<1> DEFINE t == SubSeq(text, start + 1, current)
           n == Int32(Long(t))
           e == list[Len(list)]
           filled == IF at.group = 1 THEN [e EXCEPT !.lat = n] ELSE [e EXCEPT !.lon = n]
<1>1. /\ list # <<>> /\ list \in Seq(Entry) /\ pc = "number" /\ at.group <= 2
      /\ current \in Nat /\ start \in Nat /\ current <= Size
      /\ UNCHANGED <<text, current, failed, start>>
  <2>1. pc = "number" /\ UNCHANGED <<text, current, failed, start>>
    BY DEF ReadLong
  <2>2. list \in Seq(Entry) /\ current \in Nat /\ start \in Nat
    BY Zenon DEF TextInv, TypeOK, Entry
  <2>3. list # <<>> /\ at.group <= 2
    BY <2>1 DEF TextInv, PlaceInv
  <2>4. current <= Size
    BY <2>1 DEF TextInv, IndexInRange
  <2> QED
    BY <2>1, <2>2, <2>3, <2>4
<1>2. n \in Int32Range
  <2>1. t \in Seq(Char)
    <3>1. text \in Seq(Char)
      BY DEF TextInv, TypeOK
    <3> QED
      BY <1>1, <3>1, PieceType DEF Size
  <2> HIDE DEF t
  <2> QED
    BY <2>1, LongType, Int32Type
<1>3. CASE Throws(t)
  <2>1. pc' = "threw" /\ UNCHANGED <<at, list>>
    BY <1>3 DEF ReadLong
  <2>2. TypeOK'
    BY <1>1, <2>1 DEF TextInv, TypeOK
  <2> QED
    BY <2>1, <2>2 DEF TextInv, PlaceInv, IndexInRange
<1>4. CASE ~Throws(t)
  <2>1. /\ list' = [list EXCEPT ![Len(list)] = filled]
        /\ at' = [group |-> at.group + 1, i |-> 1] /\ pc' = "match"
    BY <1>4 DEF ReadLong
  <2> HIDE DEF n, t
  <2>2. e \in Entry
    BY <1>1, ElementOfSeq, EmptySeq, LenProperties
  <2>3. filled \in Entry
    <3> HIDE DEF e
    <3> QED
      BY <1>2, <2>2 DEF Entry
  <2> HIDE DEF filled, e
  <2>4. list' \in Seq(Entry) /\ Len(list') = Len(list)
    BY <1>1, <2>1, <2>3, ExceptSeq
  <2>5. list' # <<>>
    BY <1>1, <2>4, EmptySeq
  <2>6. at' \in [group : 1 .. 3, i : 1 .. 4]
    BY <1>1, <2>1 DEF TextInv, TypeOK
  <2>7. TypeOK'
    BY <1>1, <2>1, <2>4, <2>6 DEF TextInv, TypeOK, Entry
  <2>8. PlaceInv'
    <3>1. 1 <= Len(Expect[at'.group])
      BY <2>6 DEF Expect
    <3> QED
      BY <2>1, <2>5, <3>1 DEF PlaceInv
  <2>9. IndexInRange'
    BY <1>1, <2>1 DEF IndexInRange, Size
  <2> QED
    BY <2>7, <2>8, <2>9 DEF TextInv
<1> QED
  BY <1>3, <1>4

LEMMA ReadNameKeepsText == TextInv /\ ReadName => TextInv'
<1> SUFFICES ASSUME TextInv, ReadName PROVE TextInv'
  OBVIOUS
<1> DEFINE t == SubSeq(text, start + 1, current - 1)
           e == list[Len(list)]
           filled == [e EXCEPT !.name = t]
<1>1. /\ list # <<>> /\ list \in Seq(Entry)
      /\ current \in Nat /\ start \in Nat /\ current <= Size /\ Size \in Nat
      /\ UNCHANGED <<text, current, failed, at, start>>
  BY LenProperties
     DEF TextInv, TypeOK, PlaceInv, IndexInRange, Entry, ReadName, Size
<1>2. t \in Seq(Char)
  <2>1. current - 1 \in Int /\ current - 1 <= Size
    BY <1>1
  <2> QED
    BY <1>1, <2>1, PieceType
<1>3. CASE current = Size
  <2>1. pc' = "end" /\ list' = <<>>
    BY <1>3 DEF ReadName, Fail
  <2>2. TypeOK'
    BY <1>1, <2>1 DEF TextInv, TypeOK
  <2> QED
    BY <1>1, <2>1, <2>2 DEF TextInv, PlaceInv, IndexInRange
<1>4. CASE current # Size
  <2>1. list' = [list EXCEPT ![Len(list)] = filled] /\ pc' = "close"
    BY <1>4 DEF ReadName
  <2> HIDE DEF t
  <2>2. e \in Entry
    BY <1>1, ElementOfSeq, EmptySeq, LenProperties
  <2>3. filled \in Entry
    <3> HIDE DEF e
    <3> QED
      BY <1>2, <2>2 DEF Entry
  <2> HIDE DEF filled, e
  <2>4. list' \in Seq(Entry) /\ Len(list') = Len(list)
    BY <1>1, <2>1, <2>3, ExceptSeq
  <2>5. list' # <<>>
    BY <1>1, <2>4, EmptySeq
  <2>6. TypeOK'
    BY <1>1, <2>1, <2>4 DEF TextInv, TypeOK, Entry
  <2>7. PlaceInv'
    BY <1>1, <2>1, <2>5 DEF TextInv, PlaceInv
  <2>8. IndexInRange'
    BY <1>1, <1>4, <2>1 DEF IndexInRange, Size
  <2> QED
    BY <2>6, <2>7, <2>8 DEF TextInv
<1> QED
  BY <1>3, <1>4

LEMMA CloseKeepsText == TextInv /\ Close => TextInv'
<1> SUFFICES ASSUME TextInv, Close PROVE TextInv'
  OBVIOUS
<1>1. /\ current' = current + 2
      /\ \/ pc' = "loop" /\ UNCHANGED list
         \/ pc' = "end" /\ list' = <<>>
      /\ UNCHANGED <<text, failed, at, start>>
  BY DEF Close, Fail
<1>2. TypeOK'
  <2>1. list' \in Seq(Entry)
    BY <1>1, EmptySeq DEF TextInv, TypeOK, Entry
  <2>2. current' \in Nat
    BY <1>1 DEF TextInv, TypeOK
  <2> QED
    BY <1>1, <2>1, <2>2 DEF TextInv, TypeOK, Entry
<1>3. (PlaceInv /\ IndexInRange)'
  BY <1>1 DEF TextInv, PlaceInv, IndexInRange
<1> QED
  BY <1>2, <1>3 DEF TextInv

LEMMA NextTextInv == TextInv /\ [Next]_vars => TextInv'
<1> SUFFICES ASSUME TextInv, [Next]_vars PROVE TextInv'
  OBVIOUS
<1>1. CASE UNCHANGED vars
  BY <1>1 DEF vars, TextInv, TypeOK, PlaceInv, IndexInRange, Size
<1>2. CASE Parse
  BY <1>2, ConstructKeepsText, LoopKeepsText, MatchKeepsText, ScanKeepsText,
     ReadLongKeepsText, ReadNameKeepsText, CloseKeepsText DEF Parse
<1> QED
  BY <1>1, <1>2 DEF Next, Ended

THEOREM ParserTextInductive == Spec => []TextInv
<1> QED
  BY InitTextInv, NextTextInv, PTL DEF Spec

\* The parser keeps its types on every text: the coordinates it sets fit the
\* message, whatever number the text has in their place.
THEOREM ParserTypeCorrect == Spec => []TypeOK
<1>1. TextInv => TypeOK
  BY DEF TextInv
<1> QED
  BY <1>1, ParserTextInductive, PTL

\* The parser reads inside the text, whatever the text is.
THEOREM ParserIndexInRange == Spec => []IndexInRange
<1>1. TextInv => IndexInRange
  BY DEF TextInv
<1> QED
  BY <1>1, ParserTextInductive, PTL

-----------------------------------------------------------------------------
(* Stripping a text piece by piece. *)

LEMMA AppendToConcat ==
  ASSUME NEW S, NEW s \in Seq(S), NEW t \in Seq(S), NEW e \in S
  PROVE  s \o Append(t, e) = Append(s \o t, e)
<1>1. <<e>> \in Seq(S) /\ s \o t \in Seq(S)
  BY ConcatProperties
<1>2. Append(t, e) = t \o <<e>> /\ Append(s \o t, e) = (s \o t) \o <<e>>
  BY <1>1, AppendIsConcat
<1> QED
  BY <1>1, <1>2, ConcatAssociative

\* The spaces of a text are those of its two pieces.
THEOREM StripConcat ==
  ASSUME NEW S, NEW a \in Seq(S), NEW b \in Seq(S)
  PROVE  Strip(a \o b) = Strip(a) \o Strip(b)
<1> DEFINE m == Len(a)
           n == Len(b)
           c == a \o b
           ka == Kept(a)
           kb == Kept(b)
           kc == Kept(c)
           B == Seq(S)
<1>1. /\ m \in Nat /\ n \in Nat /\ c \in Seq(S) /\ Len(c) = m + n
      /\ \A i \in 1 .. m : c[i] = a[i] /\ a[i] \in S
      /\ \A i \in 1 .. n : c[m + i] = b[i] /\ b[i] \in S
  <2>1. m \in Nat /\ n \in Nat
    BY LenProperties
  <2>2. /\ c \in Seq(S) /\ Len(c) = m + n
        /\ \A i \in 1 .. m + n : c[i] = IF i <= m THEN a[i] ELSE b[i - m]
    BY ConcatProperties
  <2>3. \A i \in 1 .. m : c[i] = a[i] /\ a[i] \in S
    BY <2>1, <2>2, ElementOfSeq
  <2>4. ASSUME NEW i \in 1 .. n PROVE c[m + i] = b[i] /\ b[i] \in S
    <3>1. m + i \in 1 .. m + n /\ ~(m + i <= m) /\ (m + i) - m = i
      BY <2>1
    <3>2. c[m + i] = b[(m + i) - m]
      BY <2>2, <3>1
    <3> QED
      BY <3>1, <3>2, ElementOfSeq
  <2> QED
    BY <2>1, <2>2, <2>3, <2>4
<1>2. ka \in [0 .. m -> B] /\ kb \in [0 .. n -> B] /\ kc \in [0 .. m + n -> B]
  BY <1>1, KeptSteps
<1>3. ka[0] = <<>> /\ kb[0] = <<>> /\ kc[0] = <<>>
  BY <1>1, KeptSteps
<1>4. /\ \A k \in 1 .. m : KeptStep(a, k)
      /\ \A k \in 1 .. n : KeptStep(b, k)
      /\ \A k \in 1 .. m + n : KeptStep(c, k)
  BY <1>1, KeptSteps
<1>5. \A s \in B : s \o <<>> = s
  BY ConcatEmptySeq
<1>6. \A s, t \in B, e \in S : s \o Append(t, e) = Append(s \o t, e)
  BY AppendToConcat
<1>7. Strip(a) = ka[m] /\ Strip(b) = kb[n] /\ Strip(c) = kc[m + n]
  BY <1>1 DEF Strip
<1> HIDE DEF m, n, c, ka, kb, kc, B
<1> DEFINE First == {k \in 0 .. m : kc[k] = ka[k]}
           Second == {k \in 0 .. n : kc[m + k] = ka[m] \o kb[k]}
<1>8. m \in First
  <2>1. 0 \in First
    BY <1>1, <1>3
  <2>2. ASSUME NEW k \in 1 .. m, k - 1 \in First PROVE k \in First
    <3>1. KeptStep(a, k) /\ KeptStep(c, k)
      BY <1>1, <1>4
    <3>2. kc[k - 1] = ka[k - 1] /\ c[k] = a[k]
      BY <1>1, <2>2
    <3>3. kc[k] = ka[k]
      BY <3>1, <3>2 DEF KeptStep, ka, kc
    <3> QED
      BY <1>1, <3>3
  <2> HIDE DEF First
  <2> QED
    BY <1>1, <2>1, <2>2, UpTo
<1>9. kc[m] = ka[m]
  BY <1>8
<1>10. n \in Second
  <2>1. 0 \in Second
    <3>1. ka[m] \in B
      BY <1>1, <1>2
    <3>2. kc[m + 0] = ka[m] \o kb[0]
      <4>1. m + 0 = m /\ ka[m] \o <<>> = ka[m]
        BY <1>1, <1>5, <3>1
      <4> QED
        BY <1>3, <1>9, <4>1
    <3>3. 0 \in 0 .. n
      BY <1>1
    <3> QED
      BY <3>2, <3>3
  <2>2. ASSUME NEW k \in 1 .. n, k - 1 \in Second PROVE k \in Second
    <3>1. m + k \in 1 .. m + n /\ (m + k) - 1 = m + (k - 1) /\ k - 1 \in 0 .. n
      BY <1>1
    <3>2. KeptStep(b, k) /\ KeptStep(c, m + k)
      BY <1>4, <3>1
    <3>3. kc[(m + k) - 1] = ka[m] \o kb[k - 1] /\ c[m + k] = b[k] /\ b[k] \in S
      BY <1>1, <2>2, <3>1
    <3>4. ka[m] \in B /\ kb[k - 1] \in B
      BY <1>1, <1>2, <3>1
    <3>5. ASSUME b[k] = Space PROVE kc[m + k] = ka[m] \o kb[k]
      <4>1. kb[k] = kb[k - 1] /\ kc[m + k] = kc[(m + k) - 1]
        BY <3>2, <3>3, <3>5 DEF KeptStep, kb, kc
      <4> QED
        BY <3>3, <4>1
    <3>6. ASSUME b[k] # Space PROVE kc[m + k] = ka[m] \o kb[k]
      <4>1. kb[k] = Append(kb[k - 1], b[k]) /\ kc[m + k] = Append(kc[(m + k) - 1], b[k])
        BY <3>2, <3>3, <3>6 DEF KeptStep, kb, kc
      <4>2. ka[m] \o Append(kb[k - 1], b[k]) = Append(ka[m] \o kb[k - 1], b[k])
        BY <1>6, <3>3, <3>4
      <4> QED
        BY <3>3, <4>1, <4>2
    <3>7. kc[m + k] = ka[m] \o kb[k]
      BY <3>5, <3>6
    <3>8. k \in 0 .. n
      BY <1>1
    <3> QED
      BY <3>7, <3>8
  <2> HIDE DEF Second
  <2> QED
    BY <1>1, <2>1, <2>2, UpTo
<1> QED
  BY <1>7, <1>10 DEF c

\* A text without spaces is left as it is.
THEOREM StripClean ==
  ASSUME NEW S, NEW t \in Seq(S), \A i \in 1 .. Len(t) : t[i] # Space
  PROVE  Strip(t) = t
<1> DEFINE n == Len(t)
           kt == Kept(t)
<1>1. n \in Nat /\ \A i \in 1 .. n : t[i] \in S
  BY LenProperties, ElementOfSeq
<1>2. kt[0] = <<>> /\ \A k \in 1 .. n : KeptStep(t, k)
  BY KeptSteps
<1>3. Strip(t) = kt[n]
  BY DEF Strip
<1> HIDE DEF n, kt
<1> DEFINE Good == {k \in 0 .. n : kt[k] = SubSeq(t, 1, k)}
<1>4. 0 \in Good
  <2>1. SubSeq(t, 1, 0) = <<>>
    BY SubSeqEmpty
  <2>2. kt[0] = SubSeq(t, 1, 0) /\ 0 \in 0 .. n
    BY <1>1, <1>2, <2>1
  <2> QED
    BY <2>2
<1>5. ASSUME NEW k \in 1 .. n, k - 1 \in Good PROVE k \in Good
  <2>1. KeptStep(t, k) /\ t[k] # Space
    BY <1>2 DEF n
  <2>2. kt[k] = Append(SubSeq(t, 1, k - 1), t[k])
    BY <1>5, <2>1 DEF KeptStep, kt
  <2>3. SubSeq(t, 1, k) = SubSeq(t, 1, k - 1) \o <<t[k]>>
    BY <1>1, SubSeqRecursiveSecond DEF n
  <2>4. SubSeq(t, 1, k - 1) \in Seq(S)
    BY <1>1, SubSeqProperties
  <2>5. Append(SubSeq(t, 1, k - 1), t[k]) = SubSeq(t, 1, k - 1) \o <<t[k]>>
    BY <1>1, <2>4, AppendIsConcat
  <2> QED
    BY <1>1, <2>2, <2>3, <2>5
<1>6. n \in Good
  <2> HIDE DEF Good
  <2> QED
    BY <1>1, <1>4, <1>5, UpTo
<1>7. SubSeq(t, 1, n) = t
  BY SubSeqFull DEF n
<1> QED
  BY <1>3, <1>6, <1>7

LEMMA StripNoSpace ==
  ASSUME NEW t \in Seq(Char \ {Space})
  PROVE  t \in Seq(Char) /\ Strip(t) = t
<1>1. \A i \in 1 .. Len(t) : t[i] # Space
  BY ElementOfSeq
<1>2. t \in Seq(Char)
  BY SeqMonotonic
<1> QED
  BY <1>1, <1>2, StripClean

-----------------------------------------------------------------------------
(* The file of a database, as the parser sees it. *)

Named(f) == [f EXCEPT !.name = Strip(@)]
Stripped(fs) == [i \in DOMAIN fs |-> Named(fs[i])]

LEMMA StripFeature ==
  ASSUME NEW f \in Feature
  PROVE  /\ Named(f) \in Feature
         /\ Strip(RenderFeature(f)) = RenderFeature(Named(f))
<1> DEFINE g == Named(f)
<1>1. /\ f.lat \in Seq(Char) /\ f.lon \in Seq(Char) /\ f.name \in Seq(Char)
      /\ f.lat \in Coordinate /\ f.lon \in Coordinate
      /\ f.name \in Seq(Char \ {Quote})
  BY FeatureText
<1>2. Strip(f.name) \in Seq(Char \ {Quote})
  BY <1>1, StripType
<1>3. g \in Feature /\ g.lat = f.lat /\ g.lon = f.lon /\ g.name = Strip(f.name)
  BY <1>2 DEF Feature, Named
<1>4. Strip(f.lat) = f.lat /\ Strip(f.lon) = f.lon
  <2>1. ASSUME NEW t \in Coordinate PROVE Strip(t) = t
    <3>1. t \in Seq(Char \ {Space, Comma, Shut})
      BY DEF Coordinate
    <3>2. t \in Seq(Char \ {Space})
      BY <3>1, SeqMonotonic
    <3> QED
      BY <3>2, StripNoSpace
  <2> QED
    BY <1>1, <2>1
<1>7. /\ <<Open>> \in Seq(Char) /\ Strip(<<Open>>) = <<Open>>
      /\ <<Comma>> \in Seq(Char) /\ Strip(<<Comma>>) = <<Comma>>
      /\ <<Quote>> \in Seq(Char) /\ Strip(<<Quote>>) = <<Quote>>
      /\ <<Shut, Comma>> \in Seq(Char) /\ Strip(<<Shut, Comma>>) = <<Shut, Comma>>
      /\ <<Quote, Shut>> \in Seq(Char) /\ Strip(<<Quote, Shut>>) = <<Quote, Shut>>
  BY LiteralText, StripNoSpace
<1>8. ASSUME NEW word \in Word
      PROVE  Key(word) \in Seq(Char) /\ Strip(Key(word)) = Key(word)
  BY LiteralText, StripNoSpace
<1>9. /\ Key("location") \in Seq(Char) /\ Strip(Key("location")) = Key("location")
      /\ Key("latitude") \in Seq(Char) /\ Strip(Key("latitude")) = Key("latitude")
      /\ Key("longitude") \in Seq(Char) /\ Strip(Key("longitude")) = Key("longitude")
      /\ Key("name") \in Seq(Char) /\ Strip(Key("name")) = Key("name")
  BY <1>8 DEF Word
<1>10. \A s, t \in Seq(Char) : s \o t \in Seq(Char) /\ Strip(s \o t) = Strip(s) \o Strip(t)
  BY ConcatProperties, StripConcat
<1>11. Strip(RenderFeature(f)) = RenderFeature(g)
  <2> HIDE DEF g
  <2> DEFINE c1 == <<Open>> \o Key("location")
             c2 == c1 \o <<Open>>
             c3 == c2 \o Key("latitude")
             c4 == c3 \o f.lat
             c5 == c4 \o <<Comma>>
             c6 == c5 \o Key("longitude")
             c7 == c6 \o f.lon
             c8 == c7 \o <<Shut, Comma>>
             c9 == c8 \o Key("name")
             c10 == c9 \o <<Quote>>
             c11 == c10 \o f.name
             c12 == c11 \o <<Quote, Shut>>
             d1 == <<Open>> \o Key("location")
             d2 == d1 \o <<Open>>
             d3 == d2 \o Key("latitude")
             d4 == d3 \o g.lat
             d5 == d4 \o <<Comma>>
             d6 == d5 \o Key("longitude")
             d7 == d6 \o g.lon
             d8 == d7 \o <<Shut, Comma>>
             d9 == d8 \o Key("name")
             d10 == d9 \o <<Quote>>
             d11 == d10 \o g.name
             d12 == d11 \o <<Quote, Shut>>
  <2> HIDE DEF c1, c2, c3, c4, c5, c6, c7, c8, c9, c10, c11, c12,
               d1, d2, d3, d4, d5, d6, d7, d8, d9, d10, d11, d12
  <2>1. c1 \in Seq(Char) /\ Strip(c1) = d1
    <3>1. Strip(c1) = Strip(<<Open>>) \o Strip(Key("location")) /\ c1 \in Seq(Char)
      BY ONLY <1>7, <1>9, <1>10, Zenon DEF c1
    <3>2. Strip(c1) = <<Open>> \o Key("location")
      BY ONLY <1>7, <1>9, <3>1, Zenon
    <3> QED
      BY ONLY <3>1, <3>2, Zenon DEF d1
  <2>2. c2 \in Seq(Char) /\ Strip(c2) = d2
    BY ONLY <1>7, <1>10, <2>1, Zenon DEF c2, d2
  <2>3. c3 \in Seq(Char) /\ Strip(c3) = d3
    BY ONLY <1>9, <1>10, <2>2, Zenon DEF c3, d3
  <2>4. c4 \in Seq(Char) /\ Strip(c4) = d4
    <3>1. f.lat \in Seq(Char) /\ Strip(f.lat) = g.lat
      BY <1>1, <1>3, <1>4
    <3> QED
      BY ONLY <1>10, <2>3, <3>1, Zenon DEF c4, d4
  <2>5. c5 \in Seq(Char) /\ Strip(c5) = d5
    BY ONLY <1>7, <1>10, <2>4, Zenon DEF c5, d5
  <2>6. c6 \in Seq(Char) /\ Strip(c6) = d6
    BY ONLY <1>9, <1>10, <2>5, Zenon DEF c6, d6
  <2>7. c7 \in Seq(Char) /\ Strip(c7) = d7
    <3>1. f.lon \in Seq(Char) /\ Strip(f.lon) = g.lon
      BY <1>1, <1>3, <1>4
    <3> QED
      BY ONLY <1>10, <2>6, <3>1, Zenon DEF c7, d7
  <2>8. c8 \in Seq(Char) /\ Strip(c8) = d8
    BY ONLY <1>7, <1>10, <2>7, Zenon DEF c8, d8
  <2>9. c9 \in Seq(Char) /\ Strip(c9) = d9
    BY ONLY <1>9, <1>10, <2>8, Zenon DEF c9, d9
  <2>10. c10 \in Seq(Char) /\ Strip(c10) = d10
    BY ONLY <1>7, <1>10, <2>9, Zenon DEF c10, d10
  <2>11. c11 \in Seq(Char) /\ Strip(c11) = d11
    BY ONLY <1>1, <1>3, <1>4, <1>10, <2>10, Zenon DEF c11, d11
  <2>12. c12 \in Seq(Char) /\ Strip(c12) = d12
    BY ONLY <1>7, <1>10, <2>11, Zenon DEF c12, d12
  <2>13. RenderFeature(f) = c12 /\ RenderFeature(g) = d12
    BY ONLY Zenon DEF RenderFeature, c1, c2, c3, c4, c5, c6, c7, c8, c9, c10, c11, c12,
       d1, d2, d3, d4, d5, d6, d7, d8, d9, d10, d11, d12
  <2> QED
    BY <2>12, <2>13
<1> QED
  BY <1>3, <1>11

\* Stripping a file strips the names of its features.
THEOREM StripRender ==
  ASSUME NEW fs \in Seq(Feature)
  PROVE  /\ Stripped(fs) \in Seq(Feature)
         /\ Len(Stripped(fs)) = Len(fs)
         /\ \A k \in 1 .. Len(fs) : Stripped(fs)[k] = Named(fs[k])
         /\ Strip(Render(fs)) = Render(Stripped(fs))
<1> DEFINE n == Len(fs)
           ss == Stripped(fs)
           w == Written(fs)
           v == Written(ss)
           Sep(k) == <<IF k = n THEN "]" ELSE Comma>>
<1>1. n \in Nat /\ \A k \in 1 .. n : fs[k] \in Feature
  BY LenProperties, ElementOfSeq
<1>2. /\ ss = [k \in 1 .. n |-> Named(fs[k])]
      /\ \A k \in 1 .. n : Named(fs[k]) \in Feature
  BY <1>1, LenProperties, StripFeature DEF Stripped
<1>3. ss \in Seq(Feature) /\ Len(ss) = n /\ \A k \in 1 .. n : ss[k] = Named(fs[k])
  <2> HIDE DEF ss, n
  <2>1. ss \in [1 .. n -> Feature]
    BY <1>2
  <2>2. ss \in Seq(Feature)
    BY <1>1, <2>1, SeqDef
  <2> QED
    BY <1>1, <1>2, <2>1, <2>2, LenProperties
<1>4. \A s \in Seq(Char), t \in Seq(Char) :
        s \o t \in Seq(Char) /\ Strip(s \o t) = Strip(s) \o Strip(t)
  BY ConcatProperties, StripConcat
<1>5. /\ <<"[">> \in Seq(Char) /\ Strip(<<"[">>) = <<"[">>
      /\ <<"]">> \in Seq(Char) /\ Strip(<<"]">>) = <<"]">>
      /\ <<Comma>> \in Seq(Char) /\ Strip(<<Comma>>) = <<Comma>>
      /\ <<"[", "]">> \in Seq(Char) /\ Strip(<<"[", "]">>) = <<"[", "]">>
  BY LiteralText, StripNoSpace
<1>6. /\ w \in [0 .. n -> Seq(Char)] /\ v \in [0 .. n -> Seq(Char)]
      /\ w[0] = <<"[">> /\ v[0] = <<"[">>
      /\ \A k \in 1 .. n : WrittenStep(fs, k) /\ WrittenStep(ss, k)
  BY <1>3, WrittenSteps
<1> HIDE DEF n, ss, w, v
<1> DEFINE Good == {k \in 0 .. n : Strip(w[k]) = v[k]}
<1>7. 0 \in Good
  <2>1. Strip(w[0]) = v[0]
    BY <1>5, <1>6
  <2> QED
    BY <1>1, <2>1
<1>8. ASSUME NEW k \in 1 .. n, k - 1 \in Good PROVE k \in Good
  <2> DEFINE r == RenderFeature(fs[k])
             q == RenderFeature(ss[k])
  <2>1. w[k] = w[k - 1] \o r \o Sep(k) /\ v[k] = v[k - 1] \o q \o Sep(k)
    BY <1>3, <1>6 DEF WrittenStep, n, w, v
  <2>2. fs[k] \in Feature /\ ss[k] = Named(fs[k])
    BY <1>1, <1>3
  <2>3. Strip(r) = q /\ r \in Seq(Char)
    BY <2>2, StripFeature, FeatureText
  <2>4. Sep(k) \in Seq(Char) /\ Strip(Sep(k)) = Sep(k)
    BY <1>5
  <2>5. w[k - 1] \in Seq(Char) /\ Strip(w[k - 1]) = v[k - 1]
    BY <1>1, <1>6, <1>8
  <2> HIDE DEF r, q, Sep
  <2>6. Strip(w[k]) = v[k]
    <3>1. /\ w[k - 1] \o r \in Seq(Char)
          /\ Strip(w[k - 1] \o r) = v[k - 1] \o q
      BY <1>4, <2>3, <2>5
    <3> QED
      BY <1>4, <2>1, <2>4, <3>1
  <2> QED
    BY <1>1, <2>6
<1>9. n \in Good
  <2> HIDE DEF Good
  <2> QED
    BY <1>1, <1>7, <1>8, UpTo
<1>10. Strip(Render(fs)) = Render(ss)
  <2>1. CASE n = 0
    <3>1. fs = <<>> /\ ss = <<>>
      BY <1>3, <2>1, EmptySeq DEF n
    <3> QED
      BY <1>5, <3>1 DEF Render
  <2>2. CASE n # 0
    <3>1. fs # <<>> /\ ss # <<>>
      BY <1>3, <2>2, EmptySeq DEF n
    <3>2. Render(fs) = w[n] /\ Render(ss) = v[n]
      BY <1>3, <3>1 DEF Render, w, v, n
    <3> QED
      BY <1>9, <3>2
  <2> QED
    BY <2>1, <2>2
<1> QED
  BY <1>3, <1>10 DEF ss, n

-----------------------------------------------------------------------------
(* Where each piece of a file is. *)

\* From place p on, counted from 0, t reads s.
Reads(t, p, s) == p + Len(s) <= Len(t) /\ \A i \in 1 .. Len(s) : t[p + i] = s[i]

LEMMA ReadsConcat ==
  ASSUME NEW t \in Seq(Char), NEW p \in Nat, NEW a \in Seq(Char),
         NEW b \in Seq(Char), Reads(t, p, a \o b)
  PROVE  Reads(t, p, a) /\ Reads(t, p + Len(a), b)
<1> DEFINE m == Len(a)
           n == Len(b)
           c == a \o b
<1>1. m \in Nat /\ n \in Nat /\ Len(t) \in Nat /\ Len(c) = m + n
  BY LenProperties, ConcatProperties
<1>2. \A i \in 1 .. m + n : c[i] = IF i <= m THEN a[i] ELSE b[i - m]
  BY ConcatProperties
<1>3. p + (m + n) <= Len(t) /\ \A i \in 1 .. m + n : t[p + i] = c[i]
  BY <1>1 DEF Reads
<1> HIDE DEF m, n, c
<1>4. ASSUME NEW i \in 1 .. m PROVE t[p + i] = a[i]
  <2>1. i \in 1 .. m + n /\ i <= m
    BY <1>1
  <2> QED
    BY <1>2, <1>3, <2>1
<1>5. ASSUME NEW i \in 1 .. n PROVE t[(p + m) + i] = b[i]
  <2>1. m + i \in 1 .. m + n /\ ~(m + i <= m) /\ (m + i) - m = i
    BY <1>1
  <2>2. t[p + (m + i)] = b[i]
    BY <1>2, <1>3, <2>1
  <2>3. p + (m + i) = (p + m) + i
    BY <1>1, <2>1
  <2> QED
    BY <2>2, <2>3
<1>6. p + m <= Len(t) /\ (p + m) + n <= Len(t)
  BY <1>1, <1>3
<1> QED
  BY <1>4, <1>5, <1>6 DEF Reads, m, n

\* Where the groups of literals of a feature begin, counted from its first
\* character, and the literals of each group from the first of them.
GroupAt(f, g) ==
  CASE g = 1 -> 0
    [] g = 2 -> 10 + Len(f.lat)
    [] g = 3 -> 15 + Len(f.lat) + Len(f.lon)
LiteralAt == << <<0, 1, 5, 6>>, <<0, 1>>, <<0, 2, 6>> >>
GroupLen == <<10, 5, 7>>
QuoteAt(f) == 22 + Len(f.lat) + Len(f.lon) + Len(f.name)
FeatureLen(f) == QuoteAt(f) + 2

Coord(f, g) == IF g = 1 THEN f.lat ELSE f.lon

LEMMA FeatureSizes ==
  ASSUME NEW f \in Feature
  PROVE  \E a, b, c \in Nat :
           /\ Len(f.lat) = a /\ Len(f.lon) = b /\ Len(f.name) = c
           /\ GroupAt(f, 1) = 0 /\ GroupAt(f, 2) = 10 + a
           /\ GroupAt(f, 3) = 15 + a + b
           /\ QuoteAt(f) = 22 + a + b + c
           /\ FeatureLen(f) = 24 + a + b + c
<1>1. PICK a \in Nat, b \in Nat, c \in Nat :
        Len(f.lat) = a /\ Len(f.lon) = b /\ Len(f.name) = c
  BY FeatureText, LenProperties
<1>2. QuoteAt(f) = 22 + a + b + c
  BY <1>1 DEF QuoteAt
<1>3. FeatureLen(f) = 24 + a + b + c
  BY <1>2 DEF FeatureLen
<1>4. GroupAt(f, 1) = 0 /\ GroupAt(f, 2) = 10 + a /\ GroupAt(f, 3) = 15 + a + b
  BY <1>1 DEF GroupAt
<1> QED
  BY <1>1, <1>2, <1>3, <1>4

\* t has the feature f from place p on.
Spelled(t, p, f) ==
  /\ \A g \in 1 .. 3 : \A i \in 1 .. Len(Expect[g]) :
       Reads(t, p + GroupAt(f, g) + LiteralAt[g][i], Expect[g][i])
  /\ \A g \in 1 .. 2 : Reads(t, p + GroupAt(f, g) + GroupLen[g], Coord(f, g))
  /\ Reads(t, p + GroupAt(f, 3) + GroupLen[3], f.name)
  /\ Reads(t, p + QuoteAt(f), <<Quote, Shut>>)

LEMMA FeatureSpelled ==
  ASSUME NEW t \in Seq(Char), NEW p \in Nat, NEW f \in Feature,
         Reads(t, p, RenderFeature(f))
  PROVE  /\ Spelled(t, p, f)
         /\ Len(RenderFeature(f)) = FeatureLen(f)
<1>0. PICK l1 \in Nat, l2 \in Nat, l3 \in Nat :
        /\ Len(f.lat) = l1 /\ Len(f.lon) = l2 /\ Len(f.name) = l3
        /\ GroupAt(f, 1) = 0 /\ GroupAt(f, 2) = 10 + l1
        /\ GroupAt(f, 3) = 15 + l1 + l2
        /\ QuoteAt(f) = 22 + l1 + l2 + l3
        /\ FeatureLen(f) = 24 + l1 + l2 + l3
  BY FeatureSizes
<1>17. p \in Nat /\ l1 \in Nat /\ l2 \in Nat /\ l3 \in Nat
  OBVIOUS
<1> DEFINE T == Seq(Char)
           c1 == <<Open>> \o Key("location")
           c2 == c1 \o <<Open>>
           c3 == c2 \o Key("latitude")
           c4 == c3 \o f.lat
           c5 == c4 \o <<Comma>>
           c6 == c5 \o Key("longitude")
           c7 == c6 \o f.lon
           c8 == c7 \o <<Shut, Comma>>
           c9 == c8 \o Key("name")
           c10 == c9 \o <<Quote>>
           c11 == c10 \o f.name
           c12 == c11 \o <<Quote, Shut>>
<1>1. f.lat \in T /\ f.lon \in T /\ f.name \in T
  BY FeatureText
<1>2. /\ <<Open>> \in T /\ Len(<<Open>>) = 1 /\ <<Comma>> \in T /\ Len(<<Comma>>) = 1
      /\ <<Quote>> \in T /\ Len(<<Quote>>) = 1
      /\ <<Shut, Comma>> \in T /\ Len(<<Shut, Comma>>) = 2
      /\ <<Quote, Shut>> \in T /\ Len(<<Quote, Shut>>) = 2
  BY LiteralText
<1>4. /\ Key("location") \in T /\ Len(Key("location")) = 4
      /\ Key("latitude") \in T /\ Len(Key("latitude")) = 4
      /\ Key("longitude") \in T /\ Len(Key("longitude")) = 4
      /\ Key("name") \in T /\ Len(Key("name")) = 4
  BY LiteralText DEF Word
<1>6. \A s, u \in T : s \o u \in T /\ Len(s \o u) = Len(s) + Len(u)
  BY ConcatProperties
<1>7. \A s, u \in T : Reads(t, p, s \o u) => Reads(t, p, s) /\ Reads(t, p + Len(s), u)
  BY ReadsConcat
<1> HIDE DEF T
<1>8. c1 \in T /\ Len(c1) = 5
  <2>1. c1 \in T /\ Len(c1) = 1 + 4
    <3>1. <<Open>> \in T /\ Len(<<Open>>) = 1
      BY <1>2
    <3>2. Key("location") \in T /\ Len(Key("location")) = 4
      BY <1>4
    <3>3. c1 \in T /\ Len(c1) = Len(<<Open>>) + Len(Key("location"))
      BY ONLY <1>6, <3>1, <3>2, Zenon DEF c1
    <3> QED
      BY ONLY <3>1, <3>2, <3>3, Zenon
  <2>2. 1 + 4 = 5
    OBVIOUS
  <2> QED
    BY <2>1, <2>2
<1>8a. c2 \in T /\ Len(c2) = 6
  <2> HIDE DEF c1
  <2>1. c2 \in T /\ Len(c2) = (5) + 1
    <3>1. <<Open>> \in T /\ Len(<<Open>>) = 1
      BY <1>2
    <3> QED
      BY ONLY <1>6, <1>8, <3>1, Zenon DEF c2
  <2>2. (5) + 1 = 6
    BY ONLY <1>17
  <2> QED
    BY <2>1, <2>2
<1>8b. c3 \in T /\ Len(c3) = 10
  <2> HIDE DEF c2
  <2>1. c3 \in T /\ Len(c3) = (6) + 4
    <3>1. Key("latitude") \in T /\ Len(Key("latitude")) = 4
      BY <1>4
    <3> QED
      BY ONLY <1>6, <1>8a, <3>1, Zenon DEF c3
  <2>2. (6) + 4 = 10
    BY ONLY <1>17
  <2> QED
    BY <2>1, <2>2
<1>8c. c4 \in T /\ Len(c4) = 10 + l1
  <2> HIDE DEF c3
  <2>1. c4 \in T /\ Len(c4) = (10) + l1
    <3>1. f.lat \in T /\ Len(f.lat) = l1
      BY <1>0, <1>1
    <3> QED
      BY ONLY <1>6, <1>8b, <3>1, Zenon DEF c4
  <2>2. (10) + l1 = 10 + l1
    BY ONLY <1>17
  <2> QED
    BY <2>1, <2>2
<1>8d. c5 \in T /\ Len(c5) = 11 + l1
  <2> HIDE DEF c4
  <2>1. c5 \in T /\ Len(c5) = (10 + l1) + 1
    <3>1. <<Comma>> \in T /\ Len(<<Comma>>) = 1
      BY <1>2
    <3> QED
      BY ONLY <1>6, <1>8c, <3>1, Zenon DEF c5
  <2>2. (10 + l1) + 1 = 11 + l1
    BY ONLY <1>17
  <2> QED
    BY <2>1, <2>2
<1>8e. c6 \in T /\ Len(c6) = 15 + l1
  <2> HIDE DEF c5
  <2>1. c6 \in T /\ Len(c6) = (11 + l1) + 4
    <3>1. Key("longitude") \in T /\ Len(Key("longitude")) = 4
      BY <1>4
    <3> QED
      BY ONLY <1>6, <1>8d, <3>1, Zenon DEF c6
  <2>2. (11 + l1) + 4 = 15 + l1
    BY ONLY <1>17
  <2> QED
    BY <2>1, <2>2
<1>8f. c7 \in T /\ Len(c7) = 15 + l1 + l2
  <2> HIDE DEF c6
  <2>1. c7 \in T /\ Len(c7) = (15 + l1) + l2
    <3>1. f.lon \in T /\ Len(f.lon) = l2
      BY <1>0, <1>1
    <3> QED
      BY ONLY <1>6, <1>8e, <3>1, Zenon DEF c7
  <2>2. (15 + l1) + l2 = 15 + l1 + l2
    BY ONLY <1>17
  <2> QED
    BY <2>1, <2>2
<1>8g. c8 \in T /\ Len(c8) = 17 + l1 + l2
  <2> HIDE DEF c7
  <2>1. c8 \in T /\ Len(c8) = (15 + l1 + l2) + 2
    <3>1. <<Shut, Comma>> \in T /\ Len(<<Shut, Comma>>) = 2
      BY <1>2
    <3> QED
      BY ONLY <1>6, <1>8f, <3>1, Zenon DEF c8
  <2>2. (15 + l1 + l2) + 2 = 17 + l1 + l2
    BY ONLY <1>17
  <2> QED
    BY <2>1, <2>2
<1>8h. c9 \in T /\ Len(c9) = 21 + l1 + l2
  <2> HIDE DEF c8
  <2>1. c9 \in T /\ Len(c9) = (17 + l1 + l2) + 4
    <3>1. Key("name") \in T /\ Len(Key("name")) = 4
      BY <1>4
    <3> QED
      BY ONLY <1>6, <1>8g, <3>1, Zenon DEF c9
  <2>2. (17 + l1 + l2) + 4 = 21 + l1 + l2
    BY ONLY <1>17
  <2> QED
    BY <2>1, <2>2
<1>8i. c10 \in T /\ Len(c10) = 22 + l1 + l2
  <2> HIDE DEF c9
  <2>1. c10 \in T /\ Len(c10) = (21 + l1 + l2) + 1
    <3>1. <<Quote>> \in T /\ Len(<<Quote>>) = 1
      BY <1>2
    <3> QED
      BY ONLY <1>6, <1>8h, <3>1, Zenon DEF c10
  <2>2. (21 + l1 + l2) + 1 = 22 + l1 + l2
    BY ONLY <1>17
  <2> QED
    BY <2>1, <2>2
<1>8j. c11 \in T /\ Len(c11) = 22 + l1 + l2 + l3
  <2> HIDE DEF c10
  <2>1. c11 \in T /\ Len(c11) = (22 + l1 + l2) + l3
    <3>1. f.name \in T /\ Len(f.name) = l3
      BY <1>0, <1>1
    <3> QED
      BY ONLY <1>6, <1>8i, <3>1, Zenon DEF c11
  <2>2. (22 + l1 + l2) + l3 = 22 + l1 + l2 + l3
    BY ONLY <1>17
  <2> QED
    BY <2>1, <2>2
<1>8k. c12 \in T /\ Len(c12) = 24 + l1 + l2 + l3
  <2> HIDE DEF c11
  <2>1. c12 \in T /\ Len(c12) = (22 + l1 + l2 + l3) + 2
    <3>1. <<Quote, Shut>> \in T /\ Len(<<Quote, Shut>>) = 2
      BY <1>2
    <3> QED
      BY ONLY <1>6, <1>8j, <3>1, Zenon DEF c12
  <2>2. (22 + l1 + l2 + l3) + 2 = 24 + l1 + l2 + l3
    BY ONLY <1>17
  <2> QED
    BY <2>1, <2>2
<1>12. c12 = RenderFeature(f)
  BY DEF RenderFeature
<1>13. /\ Reads(t, p, c11) /\ Reads(t, p + (22 + l1 + l2 + l3), <<Quote, Shut>>)
       /\ Reads(t, p, c10) /\ Reads(t, p + (22 + l1 + l2), f.name)
  <2> HIDE DEF c10
  <2>1. Reads(t, p, c12)
    BY <1>12
  <2>2. Reads(t, p, c11) /\ Reads(t, p + Len(c11), <<Quote, Shut>>)
    BY <1>2, <1>7, <1>8j, <1>8k, <2>1
  <2>3. Reads(t, p, c10) /\ Reads(t, p + Len(c10), f.name)
    BY <1>1, <1>7, <1>8f, <1>8g, <1>8h, <1>8i, <2>2
  <2> HIDE DEF c11
  <2> QED
    BY <1>8f, <1>8g, <1>8h, <1>8i, <1>8j, <1>8k, <2>2, <2>3
<1>14. /\ Reads(t, p + (21 + l1 + l2), <<Quote>>)
       /\ Reads(t, p + (17 + l1 + l2), Key("name"))
       /\ Reads(t, p + (15 + l1 + l2), <<Shut, Comma>>)
       /\ Reads(t, p, c7) /\ Reads(t, p + (15 + l1), f.lon)
       /\ Reads(t, p, c6)
  <2> HIDE DEF c6
  <2>1. Reads(t, p, c9) /\ Reads(t, p + Len(c9), <<Quote>>)
    BY <1>2, <1>7, <1>8f, <1>8g, <1>8h, <1>8i, <1>13
  <2>2. Reads(t, p, c8) /\ Reads(t, p + Len(c8), Key("name"))
    BY <1>4, <1>7, <1>8f, <1>8g, <1>8h, <1>8i, <2>1
  <2>3. Reads(t, p, c7) /\ Reads(t, p + Len(c7), <<Shut, Comma>>)
    BY <1>2, <1>7, <1>8f, <1>8g, <1>8h, <1>8i, <2>2
  <2>4. Reads(t, p, c6) /\ Reads(t, p + Len(c6), f.lon)
    BY <1>1, <1>7, <1>8c, <1>8d, <1>8e, <2>3
  <2> HIDE DEF c7, c8, c9
  <2> QED
    BY <1>8c, <1>8d, <1>8e, <1>8f, <1>8g, <1>8h, <1>8i, <2>1, <2>2, <2>3, <2>4
<1>15. /\ Reads(t, p + (11 + l1), Key("longitude"))
       /\ Reads(t, p + (10 + l1), <<Comma>>)
       /\ Reads(t, p + 10, f.lat)
       /\ Reads(t, p, c3)
  <2> HIDE DEF c3
  <2>1. Reads(t, p, c5) /\ Reads(t, p + Len(c5), Key("longitude"))
    BY <1>4, <1>7, <1>8c, <1>8d, <1>8e, <1>14
  <2>2. Reads(t, p, c4) /\ Reads(t, p + Len(c4), <<Comma>>)
    BY <1>2, <1>7, <1>8c, <1>8d, <1>8e, <2>1
  <2>3. Reads(t, p, c3) /\ Reads(t, p + Len(c3), f.lat)
    BY <1>1, <1>7, <1>8, <1>8a, <1>8b, <2>2
  <2> HIDE DEF c4, c5
  <2> QED
    BY <1>8, <1>8a, <1>8b, <1>8c, <1>8d, <1>8e, <2>1, <2>2, <2>3
<1>16. /\ Reads(t, p + 6, Key("latitude"))
       /\ Reads(t, p + 5, <<Open>>)
       /\ Reads(t, p + 1, Key("location"))
       /\ Reads(t, p, <<Open>>)
  <2>1. Reads(t, p, c2) /\ Reads(t, p + Len(c2), Key("latitude"))
    BY <1>4, <1>7, <1>8, <1>8a, <1>8b, <1>15
  <2>2. Reads(t, p, c1) /\ Reads(t, p + Len(c1), <<Open>>)
    BY <1>2, <1>7, <1>8, <1>8a, <1>8b, <2>1
  <2>3. Reads(t, p, <<Open>>) /\ Reads(t, p + Len(<<Open>>), Key("location"))
    BY <1>2, <1>4, <1>7, <2>2
  <2> HIDE DEF c1, c2
  <2> QED
    BY <1>2, <1>8, <1>8a, <1>8b, <2>1, <2>2, <2>3
<1> HIDE DEF c1, c2, c3, c4, c5, c6, c7, c8, c9, c10, c11, c12
<1>18. ASSUME NEW i \in 1 .. Len(Expect[1])
       PROVE  Reads(t, p + GroupAt(f, 1) + LiteralAt[1][i], Expect[1][i])
  <2>1. Len(Expect[1]) = 4
    BY DEF Expect
  <2>2. i \in {1, 2, 3, 4}
    BY <2>1
  <2>3. /\ Expect[1][1] = <<Open>> /\ Expect[1][2] = Key("location")
        /\ Expect[1][3] = <<Open>> /\ Expect[1][4] = Key("latitude")
    BY DEF Expect
  <2>4. /\ LiteralAt[1][1] = 0 /\ LiteralAt[1][2] = 1
        /\ LiteralAt[1][3] = 5 /\ LiteralAt[1][4] = 6
    BY DEF LiteralAt
  <2>5. /\ p + GroupAt(f, 1) + LiteralAt[1][1] = p
        /\ p + GroupAt(f, 1) + LiteralAt[1][2] = p + 1
        /\ p + GroupAt(f, 1) + LiteralAt[1][3] = p + 5
        /\ p + GroupAt(f, 1) + LiteralAt[1][4] = p + 6
    <3>1. GroupAt(f, 1) = 0
      BY <1>0
    <3>2. p + 0 + 0 = p /\ p + 0 + 1 = p + 1 /\ p + 0 + 5 = p + 5 /\ p + 0 + 6 = p + 6
      BY ONLY <1>17
    <3> QED
      BY ONLY <2>4, <3>1, <3>2, Zenon
  <2> QED
    BY <1>16, <2>2, <2>3, <2>5
<1>19. ASSUME NEW i \in 1 .. Len(Expect[2])
       PROVE  Reads(t, p + GroupAt(f, 2) + LiteralAt[2][i], Expect[2][i])
  <2>1. Len(Expect[2]) = 2
    BY DEF Expect
  <2>2. i \in {1, 2}
    BY <2>1
  <2>3. Expect[2][1] = <<Comma>> /\ Expect[2][2] = Key("longitude")
    BY DEF Expect
  <2>4. LiteralAt[2][1] = 0 /\ LiteralAt[2][2] = 1
    BY DEF LiteralAt
  <2>5. /\ p + GroupAt(f, 2) + LiteralAt[2][1] = p + (10 + l1)
        /\ p + GroupAt(f, 2) + LiteralAt[2][2] = p + (11 + l1)
    <3>1. GroupAt(f, 2) = 10 + l1
      BY <1>0
    <3>2. p + (10 + l1) + 0 = p + (10 + l1) /\ p + (10 + l1) + 1 = p + (11 + l1)
      BY ONLY <1>17
    <3> QED
      BY ONLY <2>4, <3>1, <3>2, Zenon
  <2> QED
    BY <1>15, <2>2, <2>3, <2>5
<1>20. ASSUME NEW i \in 1 .. Len(Expect[3])
       PROVE  Reads(t, p + GroupAt(f, 3) + LiteralAt[3][i], Expect[3][i])
  <2>1. Len(Expect[3]) = 3
    BY DEF Expect
  <2>2. i \in {1, 2, 3}
    BY <2>1
  <2>3. /\ Expect[3][1] = <<Shut, Comma>> /\ Expect[3][2] = Key("name")
        /\ Expect[3][3] = <<Quote>>
    BY DEF Expect
  <2>4. LiteralAt[3][1] = 0 /\ LiteralAt[3][2] = 2 /\ LiteralAt[3][3] = 6
    BY DEF LiteralAt
  <2>5. /\ p + GroupAt(f, 3) + LiteralAt[3][1] = p + (15 + l1 + l2)
        /\ p + GroupAt(f, 3) + LiteralAt[3][2] = p + (17 + l1 + l2)
        /\ p + GroupAt(f, 3) + LiteralAt[3][3] = p + (21 + l1 + l2)
    <3>1. GroupAt(f, 3) = 15 + l1 + l2
      BY <1>0
    <3> QED
      BY ONLY <2>4, <3>1, <1>17
  <2> QED
    BY <1>14, <2>2, <2>3, <2>5
<1>21. \A g \in 1 .. 2 : Reads(t, p + GroupAt(f, g) + GroupLen[g], Coord(f, g))
  <2>1. GroupLen[1] = 10 /\ GroupLen[2] = 5
    BY DEF GroupLen
  <2>2. Coord(f, 1) = f.lat /\ Coord(f, 2) = f.lon
    BY DEF Coord
  <2>3. /\ p + GroupAt(f, 1) + GroupLen[1] = p + 10
        /\ p + GroupAt(f, 2) + GroupLen[2] = p + (15 + l1)
    <3>1. GroupAt(f, 1) = 0 /\ GroupAt(f, 2) = 10 + l1
      BY <1>0
    <3>2. p + 0 + 10 = p + 10 /\ p + (10 + l1) + 5 = p + (15 + l1)
      BY ONLY <1>17
    <3> QED
      BY ONLY <2>1, <3>1, <3>2, Zenon
  <2>4. ASSUME NEW g, g = 1 PROVE Reads(t, p + GroupAt(f, g) + GroupLen[g], Coord(f, g))
    <3>1. Reads(t, p + 10, f.lat)
      BY <1>15
    <3> QED
      BY ONLY <2>2, <2>3, <2>4, <3>1, Zenon
  <2>5. ASSUME NEW g, g = 2 PROVE Reads(t, p + GroupAt(f, g) + GroupLen[g], Coord(f, g))
    <3>1. Reads(t, p + (15 + l1), f.lon)
      BY <1>14
    <3> QED
      BY ONLY <2>2, <2>3, <2>5, <3>1, Zenon
  <2>6. \A g \in 1 .. 2 : g = 1 \/ g = 2
    OBVIOUS
  <2> QED
    BY ONLY <2>4, <2>5, <2>6, Zenon
<1>22. Reads(t, p + GroupAt(f, 3) + GroupLen[3], f.name)
  <2>1. p + GroupAt(f, 3) + GroupLen[3] = p + (22 + l1 + l2)
    <3>1. GroupAt(f, 3) = 15 + l1 + l2
      BY <1>0
    <3>2. GroupLen[3] = 7
      BY DEF GroupLen
    <3>3. p + (15 + l1 + l2) + 7 = p + (22 + l1 + l2)
      BY ONLY <1>17
    <3> QED
      BY ONLY <3>1, <3>2, <3>3, Zenon
  <2> QED
    BY <1>13, <2>1
<1>24. \A g \in 1 .. 3 : \A i \in 1 .. Len(Expect[g]) :
         Reads(t, p + GroupAt(f, g) + LiteralAt[g][i], Expect[g][i])
  BY <1>18, <1>19, <1>20
<1>25. Reads(t, p + QuoteAt(f), <<Quote, Shut>>)
  BY <1>0, <1>13
<1> QED
  BY <1>0, <1>8k, <1>12, <1>21, <1>22, <1>24, <1>25 DEF Spelled

\* How much of the file is its first k features.
Place(fs, k) == Len(Written(fs)[k])

\* A file spells its features one after the other.
THEOREM FileSpelled ==
  ASSUME NEW fs \in Seq(Feature), fs # <<>>
  PROVE  /\ Render(fs) \in Seq(Char)
         /\ Render(fs)[1] = "["
         /\ Place(fs, 0) = 1
         /\ Place(fs, Len(fs)) = Len(Render(fs))
         /\ \A k \in 0 .. Len(fs) : Place(fs, k) \in 1 .. Len(Render(fs))
         /\ \A k \in 1 .. Len(fs) :
              /\ Spelled(Render(fs), Place(fs, k - 1), fs[k])
              /\ Place(fs, k) = Place(fs, k - 1) + FeatureLen(fs[k]) + 1
              /\ Render(fs)[Place(fs, k)] = IF k = Len(fs) THEN "]" ELSE Comma
<1> DEFINE n == Len(fs)
           w == Written(fs)
           T == Seq(Char)
           R == Render(fs)
           r(k) == RenderFeature(fs[k])
           Sep(k) == <<IF k = n THEN "]" ELSE Comma>>
           Less(j) == w[j - 1] \o r(j)
<1>1. n \in Nat /\ n # 0 /\ \A k \in 1 .. n : fs[k] \in Feature
  BY LenProperties, ElementOfSeq, EmptySeq
<1>2. R = w[n]
  BY DEF Render
<1>3. /\ w \in [0 .. n -> T] /\ w[0] = <<"[">>
      /\ \A k \in 1 .. n : WrittenStep(fs, k)
  BY WrittenSteps
<1>4. \A k \in 1 .. n : w[k] = Less(k) \o Sep(k)
  BY <1>3 DEF WrittenStep
<1>5. ASSUME NEW k \in 1 .. n PROVE r(k) \in T /\ Sep(k) \in T /\ Len(Sep(k)) = 1
  <2>1. r(k) \in T
    BY <1>1, FeatureText
  <2>2. CASE k = n
    BY <2>1, <2>2, LiteralText
  <2>3. CASE k # n
    BY <2>1, <2>3, LiteralText
  <2> QED
    BY <2>2, <2>3
<1>6. \A k \in 1 .. n : w[k - 1] \in T
  BY <1>1, <1>3
<1>7. \A k \in 1 .. n : Less(k) \in T
  <2> HIDE DEF w, r
  <2> QED
    BY <1>5, <1>6, ConcatProperties
<1>8. R \in T /\ Len(R) \in Nat
  <2>1. R \in T
    BY <1>1, <1>2, <1>3
  <2> QED
    BY <2>1, LenProperties
<1> HIDE DEF n, w, R, r, Sep, Less
\* From the last feature back, the file begins with what was written so far.
<1>9. ASSUME NEW k \in 1 .. n, Reads(R, 0, w[k])
      PROVE  /\ Reads(R, 0, w[k - 1])
             /\ Reads(R, Len(w[k - 1]), r(k))
             /\ Reads(R, Len(w[k - 1]) + Len(r(k)), Sep(k))
  <2>1. Less(k) \in T /\ Sep(k) \in T /\ w[k - 1] \in T /\ r(k) \in T
    BY <1>5, <1>6, <1>7
  <2>2. Len(Less(k)) = Len(w[k - 1]) + Len(r(k))
    BY <2>1, ConcatProperties DEF Less
  <2>3. Reads(R, 0, Less(k)) /\ Reads(R, 0 + Len(Less(k)), Sep(k))
    BY <1>4, <1>8, <1>9, <2>1, ReadsConcat
  <2>4. Reads(R, 0, w[k - 1]) /\ Reads(R, 0 + Len(w[k - 1]), r(k))
    BY <1>8, <2>1, <2>3, ReadsConcat DEF Less
  <2>5. Len(w[k - 1]) \in Nat /\ Len(r(k)) \in Nat
    BY <2>1, LenProperties
  <2>6. 0 + Len(w[k - 1]) = Len(w[k - 1])
    BY <2>5
  <2>7. 0 + Len(Less(k)) = Len(w[k - 1]) + Len(r(k))
    BY <2>2, <2>5
  <2> QED
    BY <2>3, <2>4, <2>6, <2>7
<1> DEFINE Good == {k \in 0 .. n : Reads(R, 0, w[n - k])}
<1>10. \A k \in 0 .. n : k \in Good
  <2>1. 0 \in Good
    <3>1. Reads(R, 0, w[n])
      BY <1>2, <1>8 DEF Reads
    <3>2. n - 0 = n
      BY <1>1
    <3> QED
      BY <1>1, <3>1, <3>2
  <2>2. ASSUME NEW k \in 1 .. n, k - 1 \in Good PROVE k \in Good
    <3>1. n - (k - 1) \in 1 .. n /\ (n - (k - 1)) - 1 = n - k
      BY <1>1
    <3>2. Reads(R, 0, w[n - (k - 1)])
      BY <2>2
    <3>3. Reads(R, 0, w[n - k])
      BY <1>9, <3>1, <3>2
    <3> QED
      BY <1>1, <3>3
  <2> HIDE DEF Good
  <2> QED
    BY <1>1, <2>1, <2>2, UpTo
<1>11. ASSUME NEW k \in 0 .. n PROVE Reads(R, 0, w[k])
  <2>1. n - k \in 0 .. n /\ n - (n - k) = k
    BY <1>1
  <2>2. Reads(R, 0, w[n - (n - k)])
    BY <1>10, <2>1
  <2> QED
    BY <2>1, <2>2
<1>12. \A k \in 0 .. n : Len(w[k]) \in Nat
  BY <1>3, LenProperties
<1>13. \A k \in 0 .. n : Len(w[k]) <= Len(R)
  BY <1>8, <1>11, <1>12 DEF Reads
<1>14. Len(w[0]) = 1 /\ w[0][1] = "["
  BY <1>3
<1>15. R[1] = "["
  <2>1. 0 \in 0 .. n /\ 0 + 1 = 1
    BY <1>1
  <2>2. Reads(R, 0, w[0])
    BY <1>11, <2>1
  <2>3. R[0 + 1] = w[0][1]
    BY <1>14, <2>2 DEF Reads
  <2> QED
    BY <1>14, <2>1, <2>3
<1>16. ASSUME NEW k \in 1 .. n
       PROVE  /\ Spelled(R, Len(w[k - 1]), fs[k])
              /\ Len(w[k]) = Len(w[k - 1]) + FeatureLen(fs[k]) + 1
              /\ R[Len(w[k])] = IF k = n THEN "]" ELSE Comma
  <2>1. k \in 0 .. n /\ k - 1 \in 0 .. n
    BY <1>1
  <2>2. /\ Reads(R, Len(w[k - 1]), r(k))
        /\ Reads(R, Len(w[k - 1]) + Len(r(k)), Sep(k))
    BY <1>9, <1>11, <2>1
  <2>3. Len(w[k - 1]) \in Nat /\ fs[k] \in Feature /\ Len(r(k)) \in Nat
    BY <1>1, <1>5, <1>12, <2>1, LenProperties
  <2>4. Spelled(R, Len(w[k - 1]), fs[k]) /\ Len(r(k)) = FeatureLen(fs[k])
    BY <1>8, <2>2, <2>3, FeatureSpelled DEF r
  <2>5. Len(w[k]) = Len(w[k - 1]) + Len(r(k)) + 1
    <3>1. w[k - 1] \in T /\ r(k) \in T /\ Less(k) \in T /\ Sep(k) \in T
      BY <1>5, <1>6, <1>7
    <3>2. Len(Less(k)) = Len(w[k - 1]) + Len(r(k))
      BY <3>1, ConcatProperties DEF Less
    <3>3. Len(w[k]) = Len(Less(k)) + Len(Sep(k))
      BY <1>4, <3>1, ConcatProperties
    <3> QED
      BY <1>5, <3>2, <3>3
  <2>6. R[(Len(w[k - 1]) + Len(r(k))) + 1] = Sep(k)[1]
    BY <1>5, <2>2 DEF Reads
  <2>7. Sep(k)[1] = IF k = n THEN "]" ELSE Comma
    BY DEF Sep
  <2> QED
    BY <2>4, <2>5, <2>6, <2>7
<1>17. \A k \in 0 .. n : Len(w[k]) \in 1 .. Len(R)
  <2> DEFINE Long1 == {k \in 0 .. n : Len(w[k]) >= 1}
  <2>1. 0 \in Long1
    BY <1>1, <1>14
  <2>2. ASSUME NEW k \in 1 .. n, k - 1 \in Long1 PROVE k \in Long1
    <3>1. Len(w[k]) = Len(w[k - 1]) + FeatureLen(fs[k]) + 1 /\ fs[k] \in Feature
      BY <1>1, <1>16
    <3>2. FeatureLen(fs[k]) \in Nat
      <4>1. PICK a \in Nat, b \in Nat, c \in Nat : FeatureLen(fs[k]) = 24 + a + b + c
        BY <3>1, FeatureSizes
      <4> QED
        BY <4>1
    <3> QED
      BY <1>1, <1>12, <2>2, <3>1, <3>2
  <2>3. \A k \in 0 .. n : k \in Long1
    <3> HIDE DEF Long1
    <3> QED
      BY <1>1, <2>1, <2>2, UpTo
  <2> QED
    BY <1>8, <1>12, <1>13, <2>3
<1> QED
  BY <1>2, <1>8, <1>14, <1>15, <1>16, <1>17 DEF Place, n, w, R

-----------------------------------------------------------------------------
(* The parser on a file, or on the first part of one. *)

\* The file once its spaces are gone: its features, and its text.
Clean == Stripped(db)
File == Render(Clean)

\* The text is the front of that file; all of it if nothing was cut off.
Whole == Size = Len(File)
IsFront == /\ Size <= Len(File)
           /\ \A i \in 1 .. Size : text[i] = File[i]
           /\ damage = "none" => Whole

\* The feature being read and where it begins.
This == Clean[Len(list)]
Begin == Place(Clean, Len(list) - 1)

\* The first k features of the list are those of the database.
HasRead(k) == /\ k <= Len(db)
              /\ \A i \in 1 .. k : list[i] = LoadedDb[i]

\* What was read of the feature before its group g of literals.
CoordsRead(g) == /\ g >= 2 => list[Len(list)].lat = Long(This.lat)
                 /\ g = 3 => list[Len(list)].lon = Long(This.lon)

Reading == /\ Len(list) >= 1 /\ Len(list) <= Len(db)
           /\ HasRead(Len(list) - 1)
           /\ CoordsRead(at.group)

AtLoop == HasRead(Len(list)) /\ current = Place(Clean, Len(list))

\* The next literal is the next of the file.
AtLiteral ==
  /\ Reading
  /\ current = Begin + GroupAt(This, at.group) + LiteralAt[at.group][at.i]

\* The text was cut inside a number, so that no literal is left to match.
CutShort == ~Whole /\ current = Size /\ at.i = 1

AtMatch ==
  /\ Len(list) <= Len(db)
  /\ HasRead(Len(list) - 1)
  /\ AtLiteral \/ CutShort

AtNumber ==
  /\ Reading
  /\ start = Begin + GroupAt(This, at.group) + GroupLen[at.group]
  /\ current \in start .. start + Len(Coord(This, at.group))

AtName ==
  /\ Reading /\ at.group = 3
  /\ start = Begin + GroupAt(This, 3) + GroupLen[3]

AtClose == /\ HasRead(Len(list))
           /\ current = Begin + QuoteAt(This) + 1

AtEnd == \/ list = <<>> /\ ~Whole
         \/ HasRead(Len(list)) /\ (Whole => Len(list) = Len(db))

InFeature ==
  /\ pc = "loop" => AtLoop
  /\ pc = "match" => AtMatch
  /\ pc = "number" => AtNumber
  /\ pc = "name" => AtName /\ current \in start .. start + Len(This.name)
  /\ pc = "named" => AtName /\ current = start + Len(This.name) + 1
  /\ pc = "close" => AtClose
  /\ pc = "end" => AtEnd
  /\ pc = "threw" => ~Whole

\* In the file of no feature the first literal is not found.
InNothing == \/ pc = "loop" /\ current = 1 /\ list = <<>>
             \/ pc = "match" /\ current = 1 /\ at = [group |-> 1, i |-> 1]
             \/ pc = "end" /\ list = <<>>

\* As the text was before the constructor stripped it.
Unread == /\ current = 0 /\ list = <<>>
          /\ damage = "none" => text = Render(db)
          /\ damage = "cut" => text \in Cut(Render(db))

InFile == /\ IsFront
          /\ failed => Size = 0
          /\ IF db = <<>> THEN InNothing ELSE InFeature

ParserInv == /\ db \in Database
             /\ damage \in {"none", "cut", "edit"}
             /\ damage # "edit" => IF pc = "construct" THEN Unread ELSE InFile

\* The file without its spaces, and what is loaded from its features.
LEMMA CleanFile ==
  ASSUME db \in Database
  PROVE  /\ db \in Seq(Feature) /\ Len(db) \in Nat
         /\ Clean \in Seq(Feature) /\ Len(Clean) = Len(db)
         /\ File \in Seq(Char) /\ Len(File) \in Nat \ {0} /\ File[1] = "["
         /\ Render(db) \in Seq(Char) /\ Strip(Render(db)) = File
         /\ db = <<>> => Len(File) = 2 /\ File[2] = "]"
<1>1. db \in Seq(Feature) /\ Len(db) \in Nat /\ Render(db) \in Seq(Char)
  BY ConstantsAssumption, LenProperties, RenderType
<1>2. Clean \in Seq(Feature) /\ Len(Clean) = Len(db) /\ Strip(Render(db)) = File
  BY <1>1, StripRender DEF Clean, File
<1>3. CASE db = <<>>
  <2>1. Clean = <<>>
    BY <1>2, <1>3, EmptySeq
  <2>2. File = <<"[", "]">>
    BY <2>1 DEF File, Render
  <2>3. File \in Seq(Char) /\ Len(File) = 2 /\ File[1] = "[" /\ File[2] = "]"
    BY <2>2, LiteralText
  <2> QED
    BY <1>1, <1>2, <2>3
<1>4. CASE db # <<>>
  <2>1. Clean # <<>>
    BY <1>1, <1>2, <1>4, EmptySeq
  <2>2. /\ File \in Seq(Char) /\ File[1] = "["
        /\ Place(Clean, 0) = 1
        /\ \A k \in 0 .. Len(Clean) : Place(Clean, k) \in 1 .. Len(File)
    BY <1>2, <2>1, FileSpelled DEF File
  <2>3. Len(File) \in Nat
    BY <2>2, LenProperties
  <2>4. 0 \in 0 .. Len(Clean)
    BY <1>1, <1>2
  <2>5. Len(File) \in Nat \ {0}
    BY <2>2, <2>3, <2>4
  <2> QED
    BY <1>1, <1>2, <1>4, <2>2, <2>5
<1> QED
  BY <1>3, <1>4

LEMMA CleanFeature ==
  ASSUME db \in Database, NEW k \in 1 .. Len(db)
  PROVE  /\ Clean[k] \in Feature
         /\ LoadedDb[k] = [lat |-> Long(Clean[k].lat), lon |-> Long(Clean[k].lon),
                           name |-> Clean[k].name]
<1>1. db \in Seq(Feature) /\ Clean \in Seq(Feature) /\ Len(Clean) = Len(db)
  BY CleanFile
<1>2. db[k] \in Feature /\ DOMAIN db = 1 .. Len(db)
  BY <1>1, ElementOfSeq, LenProperties
<1>3. Clean[k] = Named(db[k])
  BY <1>1, StripRender DEF Clean
<1>4. /\ Clean[k].lat = db[k].lat /\ Clean[k].lon = db[k].lon
      /\ Clean[k].name = Strip(db[k].name)
  BY <1>2, <1>3 DEF Named, Feature
<1>5. LoadedDb[k] = Loaded(db[k])
  BY <1>2 DEF LoadedDb
<1>6. Clean[k] \in Feature
  BY <1>2, <1>3, StripFeature
<1> QED
  BY <1>4, <1>5, <1>6 DEF Loaded

\* Where the k-th feature is in the file, and what follows it.
LEMMA FeaturePlace ==
  ASSUME db \in Database, NEW k \in 1 .. Len(db)
  PROVE  /\ Spelled(File, Place(Clean, k - 1), Clean[k])
         /\ File[Place(Clean, k)] = IF k = Len(db) THEN "]" ELSE Comma
         /\ k = Len(db) => Place(Clean, k) = Len(File)
         /\ \E b \in Nat, l1 \in Nat, l2 \in Nat, l3 \in Nat :
              /\ Place(Clean, k - 1) = b
              /\ Len(Clean[k].lat) = l1 /\ Len(Clean[k].lon) = l2
              /\ Len(Clean[k].name) = l3
              /\ GroupAt(Clean[k], 1) = 0 /\ GroupAt(Clean[k], 2) = 10 + l1
              /\ GroupAt(Clean[k], 3) = 15 + l1 + l2
              /\ QuoteAt(Clean[k]) = 22 + l1 + l2 + l3
              /\ Place(Clean, k) = b + 25 + l1 + l2 + l3
              /\ b + 25 + l1 + l2 + l3 <= Len(File)
<1>1. /\ Clean \in Seq(Feature) /\ Len(Clean) = Len(db) /\ Len(db) \in Nat
      /\ Len(File) \in Nat
  BY CleanFile
<1>2. Clean # <<>>
  BY <1>1, EmptySeq
<1>3. /\ Place(Clean, Len(db)) = Len(File)
      /\ \A j \in 0 .. Len(db) : Place(Clean, j) \in 1 .. Len(File)
      /\ Spelled(File, Place(Clean, k - 1), Clean[k])
      /\ Place(Clean, k) = Place(Clean, k - 1) + FeatureLen(Clean[k]) + 1
      /\ File[Place(Clean, k)] = IF k = Len(db) THEN "]" ELSE Comma
  BY <1>1, <1>2, FileSpelled DEF File
<1>4. Clean[k] \in Feature
  BY CleanFeature
<1>5. PICK l1 \in Nat, l2 \in Nat, l3 \in Nat :
        /\ Len(Clean[k].lat) = l1 /\ Len(Clean[k].lon) = l2 /\ Len(Clean[k].name) = l3
        /\ GroupAt(Clean[k], 1) = 0 /\ GroupAt(Clean[k], 2) = 10 + l1
        /\ GroupAt(Clean[k], 3) = 15 + l1 + l2
        /\ QuoteAt(Clean[k]) = 22 + l1 + l2 + l3
        /\ FeatureLen(Clean[k]) = 24 + l1 + l2 + l3
  BY <1>4, FeatureSizes
<1>6. k \in 0 .. Len(db) /\ k - 1 \in 0 .. Len(db)
  BY <1>1
<1>7. Place(Clean, k - 1) \in 1 .. Len(File) /\ Place(Clean, k) \in 1 .. Len(File)
  BY <1>3, <1>6
<1>8. PICK b \in Nat : Place(Clean, k - 1) = b
  BY <1>1, <1>7
<1>9. Place(Clean, k) = b + 25 + l1 + l2 + l3
  <2>1. Place(Clean, k) = b + (24 + l1 + l2 + l3) + 1
    BY <1>3, <1>5, <1>8
  <2> QED
    BY <2>1
<1>10. b + 25 + l1 + l2 + l3 <= Len(File)
  BY <1>1, <1>7, <1>9
<1> QED
  BY <1>3, <1>5, <1>8, <1>9, <1>10

\* A piece of a text that has the elements of s is s.
LEMMA PieceIs ==
  ASSUME NEW t \in Seq(Char), NEW s \in Seq(Char), NEW p \in Nat, NEW m \in Nat,
         Len(s) = m, p + m <= Len(t), \A i \in 1 .. m : t[p + i] = s[i]
  PROVE  SubSeq(t, p + 1, p + m) = s
<1> DEFINE u == SubSeq(t, p + 1, p + m)
<1>1. PICK n \in Nat : Len(t) = n
  BY LenProperties
<1>2. \A i \in 1 .. n : t[i] \in Char
  BY <1>1, ElementOfSeq
<1>3. p + m <= n
  BY <1>1
<1>4. /\ p + 1 \in Int /\ p + m \in Int /\ \A i \in p + 1 .. p + m : i \in 1 .. n
      /\ (IF p + 1 <= p + m THEN (p + m) - (p + 1) + 1 ELSE 0) = m
      /\ (p + m) - (p + 1) + 1 = m
      /\ \A i \in 1 .. m : (p + 1) + i - 1 = p + i
  BY ONLY p \in Nat, m \in Nat, n \in Nat, <1>3
<1>5. \A i \in p + 1 .. p + m : t[i] \in Char
  BY ONLY <1>2, <1>4, Zenon
<1>6. /\ u \in Seq(Char)
      /\ Len(u) = IF p + 1 <= p + m THEN (p + m) - (p + 1) + 1 ELSE 0
      /\ \A i \in 1 .. (p + m) - (p + 1) + 1 : u[i] = t[(p + 1) + i - 1]
  BY ONLY <1>4, <1>5, SubSeqProperties
<1>7. Len(u) = m /\ \A i \in 1 .. m : u[i] = t[p + i]
  BY ONLY <1>4, <1>6, Zenon
<1>8. \A i \in 1 .. m : u[i] = s[i]
  BY ONLY <1>7, \A i \in 1 .. m : t[p + i] = s[i], Zenon
<1> HIDE DEF u
<1>9. Len(u) = Len(s) /\ \A i \in 1 .. Len(u) : u[i] = s[i]
  BY ONLY <1>7, <1>8, Len(s) = m, Zenon
<1>10. u = s
  BY ONLY <1>6, <1>9, s \in Seq(Char), SeqEqual, Zenon
<1> QED
  BY <1>10 DEF u

\* What the text has where the file reads s.
LEMMA PieceRead ==
  ASSUME TextInv, IsFront, NEW s \in Seq(Char), NEW p \in Nat,
         Reads(File, p, s), p + Len(s) <= Size
  PROVE  /\ \A i \in 1 .. Len(s) : text[p + i] = s[i]
         /\ SubSeq(text, p + 1, p + Len(s)) = s
<1>1. Len(s) \in Nat /\ Size \in Nat /\ text \in Seq(Char) /\ Len(text) = Size
  BY LenProperties DEF TextInv, TypeOK, Size
<1>2. ASSUME NEW i \in 1 .. Len(s) PROVE text[p + i] = s[i]
  <2>1. p + i \in 1 .. Size
    BY <1>1
  <2>2. text[p + i] = File[p + i]
    BY <2>1 DEF IsFront
  <2> QED
    BY <2>2 DEF Reads
<1>3. p + Len(s) <= Len(text)
  BY <1>1
<1>4. SubSeq(text, p + 1, p + Len(s)) = s
  <2>1. p \in Nat /\ s \in Seq(Char)
    OBVIOUS
  <2> QED
    BY ONLY <1>1, <1>2, <1>3, <2>1, PieceIs, Zenon
<1> QED
  BY <1>2, <1>4

\* Where the file has s the parser of a whole file finds it.
LEMMA WholeMatches ==
  ASSUME TextInv, IsFront, Whole, NEW s \in Seq(Char), Reads(File, current, s)
  PROVE  Match(s)
<1>1. current \in Nat /\ current + Len(s) <= Size
  BY DEF TextInv, TypeOK, Whole, Reads
<1>2. SubSeq(text, current + 1, current + Len(s)) = s
  BY <1>1, PieceRead
<1> QED
  BY <1>1, <1>2 DEF Match

LEMMA GoodCoordinate ==
  ASSUME NEW t \in Coordinate
  PROVE  /\ t \in Seq(Char) /\ ~Throws(t) /\ Int32(Long(t)) = Long(t)
         /\ \A i \in 1 .. Len(t) : t[i] \notin {Comma, Shut}
<1>1. t \in Seq(Char \ {Space, Comma, Shut}) /\ ~Throws(t) /\ Long(t) \in Int32Range
  BY DEF Coordinate
<1>2. t \in Seq(Char)
  BY <1>1, SeqMonotonic
<1>3. Int32(Long(t)) = Long(t)
  BY <1>1, <1>2, LongType, Int32Type
<1>4. \A i \in 1 .. Len(t) : t[i] \in Char \ {Space, Comma, Shut}
  BY <1>1, ElementOfSeq
<1> QED
  BY <1>1, <1>2, <1>3, <1>4

\* A literal is followed by the next of its group, the last by what it is
\* there for.
LEMMA LiteralNext ==
  ASSUME NEW g \in 1 .. 3, NEW i \in 1 .. 4, i <= Len(Expect[g])
  PROVE  /\ LiteralAt[g][i] \in Nat
         /\ LiteralAt[g][1] = 0
         /\ IF i < Len(Expect[g])
            THEN LiteralAt[g][i + 1] = LiteralAt[g][i] + Len(Expect[g][i])
            ELSE GroupLen[g] = LiteralAt[g][i] + Len(Expect[g][i])
<1>1. /\ Len(<<Open>>) = 1 /\ Len(<<Comma>>) = 1 /\ Len(<<Quote>>) = 1
      /\ Len(<<Shut, Comma>>) = 2
  OBVIOUS
<1>2. /\ Len(Key("location")) = 4 /\ Len(Key("latitude")) = 4
      /\ Len(Key("longitude")) = 4 /\ Len(Key("name")) = 4
  BY LiteralText DEF Word
<1>3. GroupLen[1] = 10 /\ GroupLen[2] = 5 /\ GroupLen[3] = 7
  BY DEF GroupLen
<1>4. /\ LiteralAt[1][1] = 0 /\ LiteralAt[1][2] = 1
      /\ LiteralAt[1][3] = 5 /\ LiteralAt[1][4] = 6
      /\ LiteralAt[2][1] = 0 /\ LiteralAt[2][2] = 1
      /\ LiteralAt[3][1] = 0 /\ LiteralAt[3][2] = 2 /\ LiteralAt[3][3] = 6
  BY DEF LiteralAt
<1>5. Len(Expect[1]) = 4 /\ Len(Expect[2]) = 2 /\ Len(Expect[3]) = 3
  BY DEF Expect
<1>6. /\ Expect[1][1] = <<Open>> /\ Expect[1][2] = Key("location")
      /\ Expect[1][3] = <<Open>> /\ Expect[1][4] = Key("latitude")
      /\ Expect[2][1] = <<Comma>> /\ Expect[2][2] = Key("longitude")
      /\ Expect[3][1] = <<Shut, Comma>> /\ Expect[3][2] = Key("name")
      /\ Expect[3][3] = <<Quote>>
  BY DEF Expect
<1>7. /\ Len(Expect[1][1]) = 1 /\ Len(Expect[1][2]) = 4
      /\ Len(Expect[1][3]) = 1 /\ Len(Expect[1][4]) = 4
      /\ Len(Expect[2][1]) = 1 /\ Len(Expect[2][2]) = 4
      /\ Len(Expect[3][1]) = 2 /\ Len(Expect[3][2]) = 4 /\ Len(Expect[3][3]) = 1
  BY ONLY <1>1, <1>2, <1>6, Zenon
<1>8. CASE g = 1
  <2>1. i <= 4
    BY <1>5, <1>8, Zenon
  <2>2. CASE i = 1
    <3>1. /\ LiteralAt[g][i] = 0 /\ Len(Expect[g][i]) = 1
          /\ LiteralAt[g][1] = 0 /\ Len(Expect[g]) = 4
      BY <1>4, <1>5, <1>7, <1>8, <2>2, Zenon
    <3>2. i + 1 = 2
      BY <2>2
    <3>3. LiteralAt[g][i + 1] = 1
      BY <1>4, <1>8, <3>2, Zenon
    <3> QED
      BY ONLY <2>2, <3>1, <3>3
  <2>3. CASE i = 2
    <3>1. /\ LiteralAt[g][i] = 1 /\ Len(Expect[g][i]) = 4
          /\ LiteralAt[g][1] = 0 /\ Len(Expect[g]) = 4
      BY <1>4, <1>5, <1>7, <1>8, <2>3, Zenon
    <3>2. i + 1 = 3
      BY <2>3
    <3>3. LiteralAt[g][i + 1] = 5
      BY <1>4, <1>8, <3>2, Zenon
    <3> QED
      BY ONLY <2>3, <3>1, <3>3
  <2>4. CASE i = 3
    <3>1. /\ LiteralAt[g][i] = 5 /\ Len(Expect[g][i]) = 1
          /\ LiteralAt[g][1] = 0 /\ Len(Expect[g]) = 4
      BY <1>4, <1>5, <1>7, <1>8, <2>4, Zenon
    <3>2. i + 1 = 4
      BY <2>4
    <3>3. LiteralAt[g][i + 1] = 6
      BY <1>4, <1>8, <3>2, Zenon
    <3> QED
      BY ONLY <2>4, <3>1, <3>3
  <2>5. CASE i = 4
    <3>1. /\ LiteralAt[g][i] = 6 /\ Len(Expect[g][i]) = 4
          /\ LiteralAt[g][1] = 0 /\ Len(Expect[g]) = 4
      BY <1>4, <1>5, <1>7, <1>8, <2>5, Zenon
    <3>3. GroupLen[g] = 10
      BY <1>3, <1>8, Zenon
    <3> QED
      BY ONLY <2>5, <3>1, <3>3
  <2> QED
    BY <2>1, <2>2, <2>3, <2>4, <2>5
<1>9. CASE g = 2
  <2>1. i <= 2
    BY <1>5, <1>9, Zenon
  <2>2. CASE i = 1
    <3>1. /\ LiteralAt[g][i] = 0 /\ Len(Expect[g][i]) = 1
          /\ LiteralAt[g][1] = 0 /\ Len(Expect[g]) = 2
      BY <1>4, <1>5, <1>7, <1>9, <2>2, Zenon
    <3>2. i + 1 = 2
      BY <2>2
    <3>3. LiteralAt[g][i + 1] = 1
      BY <1>4, <1>9, <3>2, Zenon
    <3> QED
      BY ONLY <2>2, <3>1, <3>3
  <2>3. CASE i = 2
    <3>1. /\ LiteralAt[g][i] = 1 /\ Len(Expect[g][i]) = 4
          /\ LiteralAt[g][1] = 0 /\ Len(Expect[g]) = 2
      BY <1>4, <1>5, <1>7, <1>9, <2>3, Zenon
    <3>3. GroupLen[g] = 5
      BY <1>3, <1>9, Zenon
    <3> QED
      BY ONLY <2>3, <3>1, <3>3
  <2> QED
    BY <2>1, <2>2, <2>3
<1>10. CASE g = 3
  <2>1. i <= 3
    BY <1>5, <1>10, Zenon
  <2>2. CASE i = 1
    <3>1. /\ LiteralAt[g][i] = 0 /\ Len(Expect[g][i]) = 2
          /\ LiteralAt[g][1] = 0 /\ Len(Expect[g]) = 3
      BY <1>4, <1>5, <1>7, <1>10, <2>2, Zenon
    <3>2. i + 1 = 2
      BY <2>2
    <3>3. LiteralAt[g][i + 1] = 2
      BY <1>4, <1>10, <3>2, Zenon
    <3> QED
      BY ONLY <2>2, <3>1, <3>3
  <2>3. CASE i = 2
    <3>1. /\ LiteralAt[g][i] = 2 /\ Len(Expect[g][i]) = 4
          /\ LiteralAt[g][1] = 0 /\ Len(Expect[g]) = 3
      BY <1>4, <1>5, <1>7, <1>10, <2>3, Zenon
    <3>2. i + 1 = 3
      BY <2>3
    <3>3. LiteralAt[g][i + 1] = 6
      BY <1>4, <1>10, <3>2, Zenon
    <3> QED
      BY ONLY <2>3, <3>1, <3>3
  <2>4. CASE i = 3
    <3>1. /\ LiteralAt[g][i] = 6 /\ Len(Expect[g][i]) = 1
          /\ LiteralAt[g][1] = 0 /\ Len(Expect[g]) = 3
      BY <1>4, <1>5, <1>7, <1>10, <2>4, Zenon
    <3>3. GroupLen[g] = 7
      BY <1>3, <1>10, Zenon
    <3> QED
      BY ONLY <2>4, <3>1, <3>3
  <2> QED
    BY <2>1, <2>2, <2>3, <2>4
<1> QED
  BY <1>8, <1>9, <1>10

-----------------------------------------------------------------------------
(* Each step on such a text. *)

LEMMA SameText ==
  ASSUME UNCHANGED <<text, db, damage>>
  PROVE  /\ Size' = Size /\ Clean' = Clean /\ File' = File /\ LoadedDb' = LoadedDb
         /\ Whole' <=> Whole
         /\ IsFront' <=> IsFront
<1>1. Size' = Size /\ Clean' = Clean /\ LoadedDb' = LoadedDb
  BY DEF Size, Clean, LoadedDb
<1>2. File' = File
  BY <1>1 DEF File
<1>3. Whole' <=> Whole
  BY <1>1, <1>2 DEF Whole
<1> QED
  BY <1>1, <1>2, <1>3 DEF IsFront

\* After its last feature, and only there, the parser is at the end of the
\* file.
LEMMA LoopPlace ==
  ASSUME db \in Database, db # <<>>, NEW k \in 0 .. Len(db)
  PROVE  /\ Place(Clean, k) \in Nat \ {0}
         /\ k = Len(db) => Place(Clean, k) = Len(File)
         /\ k # Len(db) => Place(Clean, k) < Len(File)
<1>1. /\ Clean \in Seq(Feature) /\ Len(Clean) = Len(db) /\ Len(db) \in Nat
      /\ db \in Seq(Feature) /\ Len(File) \in Nat
  BY CleanFile
<1>2. Clean # <<>>
  BY <1>1, EmptySeq
<1>3. /\ Place(Clean, k) \in 1 .. Len(File)
      /\ Place(Clean, Len(db)) = Len(File)
  BY <1>1, <1>2, FileSpelled DEF File
<1>4. ASSUME k # Len(db) PROVE Place(Clean, k) < Len(File)
  <2>1. k + 1 \in 1 .. Len(db) /\ (k + 1) - 1 = k
    BY <1>1, <1>4
  <2>2. PICK b \in Nat, l1 \in Nat, l2 \in Nat, l3 \in Nat :
          Place(Clean, (k + 1) - 1) = b /\ b + 25 + l1 + l2 + l3 <= Len(File)
    <3> DEFINE j == k + 1
    <3>1. j \in 1 .. Len(db)
      BY <2>1
    <3> HIDE DEF j
    <3>2. \E b, l1, l2, l3 \in Nat :
            Place(Clean, j - 1) = b /\ b + 25 + l1 + l2 + l3 <= Len(File)
      BY <3>1, FeaturePlace
    <3> QED
      BY <3>2 DEF j
  <2>3. Place(Clean, k) = b
    BY <2>1, <2>2
  <2> QED
    BY <1>1, <2>2, <2>3
<1>5. Place(Clean, k) \in Nat \ {0}
  BY <1>1, <1>3
<1> QED
  BY <1>3, <1>4, <1>5

LEMMA LoopKeepsFile ==
  ASSUME TextInv, db \in Database, InFile, Loop
  PROVE  InFile'
<1> DEFINE k == Len(list)
           e == [lat |-> 0, lon |-> 0, name |-> <<>>]
<1>1. /\ pc = "loop" /\ UNCHANGED <<text, current, failed, start, db, damage>>
      /\ IsFront /\ (failed => Size = 0)
  BY DEF Loop, InFile
<1>2. /\ Size' = Size /\ Clean' = Clean /\ File' = File /\ LoadedDb' = LoadedDb
      /\ (Whole' <=> Whole) /\ IsFront' /\ (failed' => Size' = 0)
  BY <1>1, SameText
<1>3. /\ db \in Seq(Feature) /\ Len(db) \in Nat /\ Len(File) \in Nat
      /\ list \in Seq(Entry) /\ current \in Nat /\ Size \in Nat /\ k \in Nat
      /\ Size <= Len(File)
  BY <1>1, CleanFile, LenProperties DEF TextInv, TypeOK, Entry, Size, IsFront
<1>4. CASE Finished
  <2>1. pc' = "end" /\ UNCHANGED <<list, at>>
    BY <1>4 DEF Loop
  <2>2. CASE db = <<>>
    BY <1>1, <1>2, <2>1, <2>2 DEF InFile, InNothing
  <2>3. CASE db # <<>>
    <3>1. HasRead(k) /\ current = Place(Clean, k)
      BY <1>1, <2>3 DEF InFile, InFeature, AtLoop
    <3>2. k \in 0 .. Len(db)
      BY <1>3, <3>1 DEF HasRead
    <3>3. Whole => k = Len(db)
      <4>1. SUFFICES ASSUME Whole, k # Len(db) PROVE FALSE
        OBVIOUS
      <4>2. current < Len(File)
        BY <2>3, <3>1, <3>2, <4>1, LoopPlace
      <4> QED
        BY <1>3, <1>4, <4>1, <4>2 DEF Finished, Whole
    <3>4. HasRead(Len(list))'
      BY <1>1, <1>2, <2>1, <3>1 DEF HasRead
    <3>5. AtEnd'
      BY <1>1, <1>2, <2>1, <3>3, <3>4 DEF AtEnd
    <3> QED
      BY <1>1, <1>2, <2>1, <2>3, <3>5 DEF InFile, InFeature
  <2> QED
    BY <2>2, <2>3
<1>5. CASE ~Finished
  <2>1. current < Size
    BY <1>3, <1>5 DEF Finished
  <2>2. ~failed
    BY <1>1, <1>3, <2>1
  <2>3. /\ list' = Append(list, e) /\ pc' = "match"
        /\ at' = [group |-> 1, i |-> 1]
    BY <1>5, <2>2 DEF Loop
  <2>4. CASE db = <<>>
    <3>1. current' = 1
      BY <1>1, <2>4 DEF InFile, InNothing
    <3> QED
      BY <1>1, <1>2, <2>3, <2>4, <3>1 DEF InFile, InNothing
  <2>5. CASE db # <<>>
    <3>1. HasRead(k) /\ current = Place(Clean, k)
      BY <1>1, <2>5 DEF InFile, InFeature, AtLoop
    <3>2. k \in 0 .. Len(db)
      BY <1>3, <3>1 DEF HasRead
    <3>3. k + 1 \in 1 .. Len(db)
      <4>1. k = Len(db) => current = Len(File)
        BY <2>5, <3>1, <3>2, LoopPlace
      <4>2. k # Len(db)
        BY <1>3, <2>1, <4>1
      <4> QED
        BY <1>3, <3>2, <4>2
    <3>4. Len(list') = k + 1 /\ \A i \in 1 .. k : list'[i] = list[i]
      <4>1. e \in Entry
        BY ConstantsAssumption DEF Entry, Int32Range
      <4> HIDE DEF e
      <4> QED
        BY <1>3, <2>3, <4>1, AppendProperties
    <3>5. Len(list') - 1 = k /\ Len(list') >= 1 /\ Len(list') <= Len(db')
      BY <1>1, <1>3, <3>3, <3>4
    <3>6. HasRead(Len(list) - 1)'
      BY <1>1, <1>2, <1>3, <3>1, <3>4, <3>5 DEF HasRead
    <3>7. at'.group = 1 /\ at'.i = 1
      BY <2>3
    <3>8. CoordsRead(at.group)'
      BY <3>7 DEF CoordsRead
    <3>9. Begin' = current'
      BY <1>1, <1>2, <3>1, <3>5 DEF Begin
    <3>10. GroupAt(This, at.group)' = 0 /\ LiteralAt[at.group][at.i]' = 0
      BY <3>7 DEF GroupAt, LiteralAt
    <3>11. AtLiteral'
      <4>1. current' = Begin' + 0 + 0
        BY <1>1, <1>3, <3>9
      <4> QED
        BY <3>5, <3>6, <3>8, <3>10, <4>1 DEF AtLiteral, Reading
    <3>12. AtMatch'
      BY <3>5, <3>6, <3>11 DEF AtMatch
    <3> QED
      BY <1>1, <1>2, <2>3, <2>5, <3>12 DEF InFile, InFeature
  <2> QED
    BY <2>4, <2>5
<1> QED
  BY <1>4, <1>5

LEMMA MatchKeepsFile ==
  ASSUME TextInv, db \in Database, InFile, MatchNext
  PROVE  InFile'
<1> DEFINE k == Len(list)
           literal == Expect[at.group][at.i]
<1>1. /\ pc = "match" /\ UNCHANGED <<text, failed, db, damage>>
      /\ IsFront /\ (failed => Size = 0)
      /\ current' = current + Len(literal)
  BY DEF MatchNext, InFile
<1>2. /\ Size' = Size /\ Clean' = Clean /\ File' = File /\ LoadedDb' = LoadedDb
      /\ (Whole' <=> Whole) /\ IsFront' /\ (failed' => Size' = 0)
  BY <1>1, SameText
<1>3. PICK g \in 1 .. 3, i \in 1 .. 4 : at = [group |-> g, i |-> i]
  BY DEF TextInv, TypeOK
<1>4. /\ at.group = g /\ at.i = i /\ i <= Len(Expect[g])
      /\ literal = Expect[g][i]
  BY <1>3 DEF TextInv, PlaceInv
<1>5. literal \in Seq(Char) /\ Len(literal) \in 1 .. 4
  BY <1>4, Literals
<1>6. /\ Len(File) \in Nat /\ current \in Nat /\ Size \in Nat
      /\ Size <= Len(File) /\ list # <<>> /\ list \in Seq(Entry)
      /\ k \in Nat /\ k >= 1
  <2>1. list # <<>> /\ list \in Seq(Entry)
    BY <1>1 DEF TextInv, TypeOK, PlaceInv, Entry
  <2>2. k \in Nat \ {0}
    BY <2>1, EmptySeq
  <2> QED
    BY <1>1, <2>1, <2>2, CleanFile, LenProperties DEF TextInv, TypeOK, Size, IsFront
<1> HIDE DEF literal, k
<1>7. CASE db = <<>>
  <2>1. current = 1 /\ g = 1 /\ i = 1
    BY <1>1, <1>3, <1>7 DEF InFile, InNothing
  <2>2. ~Match(literal)
    <3>1. SUFFICES ASSUME Match(literal) PROVE FALSE
      OBVIOUS
    <3>2. literal = <<Open>>
      BY <1>4, <2>1 DEF Expect
    <3>3. 2 <= Size /\ SubSeq(text, 2, 2) = <<Open>>
      <4>1. Len(<<Open>>) = 1 /\ 1 + 1 = 2
        OBVIOUS
      <4> QED
        BY <2>1, <3>1, <3>2, <4>1 DEF Match
    <3>4. text[2] = "]"
      BY <1>1, <1>6, <1>7, <3>3, CleanFile DEF IsFront
    <3>5. text[2] = Open
      <4>1. \A j \in 2 .. 2 : text[j] \in Char
        <5>1. \A j \in 1 .. Size : text[j] \in Char
          BY ElementOfSeq DEF TextInv, TypeOK, Size
        <5> QED
          BY <1>6, <3>3, <5>1
      <4>2. SubSeq(text, 2, 2)[1] = text[2 + 1 - 1]
        BY <4>1, SubSeqProperties
      <4>3. <<Open>>[1] = Open /\ 2 + 1 - 1 = 2
        OBVIOUS
      <4> QED
        BY ONLY <3>3, <4>2, <4>3, Zenon
    <3> QED
      BY <3>4, <3>5, Distinct
  <2>3. pc' = "end" /\ list' = <<>>
    BY <2>2 DEF MatchNext, Fail, literal
  <2> QED
    BY <1>1, <1>2, <1>7, <2>3 DEF InFile, InNothing
<1>8. CASE db # <<>>
  <2>1. AtMatch
    BY <1>1, <1>8 DEF InFile, InFeature
  <2>2. k \in 1 .. Len(db)
    BY <1>6, <2>1, CleanFile DEF AtMatch, k
  <2>3. ASSUME AtLiteral PROVE Reads(File, current, literal)
    <3>1. Spelled(File, Place(Clean, k - 1), Clean[k])
      BY <2>2, FeaturePlace
    <3>2. current = Begin + GroupAt(This, g) + LiteralAt[g][i]
      BY <1>4, <2>3 DEF AtLiteral
    <3>3. Begin = Place(Clean, k - 1) /\ This = Clean[k]
      BY DEF Begin, This, k
    <3>4. i \in 1 .. Len(Expect[g])
      <4>1. Len(Expect[g]) \in 1 .. 4
        BY DEF Expect
      <4> QED
        BY <1>4, <4>1
    <3> QED
      BY <1>4, <3>1, <3>2, <3>3, <3>4 DEF Spelled
  <2>4. CASE ~Match(literal)
    <3>1. pc' = "end" /\ list' = <<>>
      BY <2>4 DEF MatchNext, Fail, literal
    <3>2. ~Whole
      BY <1>1, <1>5, <2>1, <2>3, <2>4, WholeMatches DEF AtMatch, CutShort
    <3>3. AtEnd'
      BY <1>2, <3>1, <3>2 DEF AtEnd
    <3> QED
      BY <1>1, <1>2, <1>8, <3>1, <3>3 DEF InFile, InFeature
  <2>5. CASE Match(literal)
    <3>1. AtLiteral
      <4>1. current + Len(literal) <= Size
        BY <2>5 DEF Match
      <4>2. PICK m \in 1 .. 4 : Len(literal) = m
        BY <1>5
      <4>3. current + m <= Size
        BY <4>1, <4>2
      <4>4. current # Size
        BY <1>6, <4>3
      <4> QED
        BY <2>1, <4>4 DEF AtMatch, CutShort
    <3>2. Reading /\ current = Begin + GroupAt(This, g) + LiteralAt[g][i]
      BY <1>4, <3>1 DEF AtLiteral
    <3>3. PICK b \in Nat, ga \in Nat : Begin = b /\ GroupAt(This, g) = ga
      <4>1. Begin \in Nat /\ This = Clean[k]
        <5>1. k - 1 \in 0 .. Len(db)
          BY <2>2, CleanFile
        <5>2. Place(Clean, k - 1) \in Nat
          BY <1>8, <5>1, LoopPlace
        <5> QED
          BY <5>2 DEF Begin, This, k
      <4>2. PICK l1 \in Nat, l2 \in Nat :
              /\ GroupAt(Clean[k], 1) = 0 /\ GroupAt(Clean[k], 2) = 10 + l1
              /\ GroupAt(Clean[k], 3) = 15 + l1 + l2
        <5>1. Clean[k] \in Feature
          BY <2>2, CleanFeature
        <5> QED
          BY <5>1, FeatureSizes
      <4>3. g = 1 \/ g = 2 \/ g = 3
        OBVIOUS
      <4>4. GroupAt(This, g) \in Nat
        BY <4>1, <4>2, <4>3
      <4> QED
        BY <4>1, <4>4
    <3>4. /\ LiteralAt[g][i] \in Nat
          /\ IF i < Len(Expect[g])
             THEN LiteralAt[g][i + 1] = LiteralAt[g][i] + Len(literal)
             ELSE GroupLen[g] = LiteralAt[g][i] + Len(literal)
      BY <1>4, LiteralNext
    <3>5. CASE i < Len(Expect[g])
      <4>1. at' = [group |-> g, i |-> i + 1] /\ UNCHANGED <<pc, list, start>>
        BY <1>3, <1>4, <2>5, <3>5 DEF MatchNext, literal
      <4>2. at'.group = g /\ at'.i = i + 1 /\ This' = This /\ Begin' = Begin
        BY <1>2, <4>1 DEF This, Begin
      <4>3. current' = Begin + GroupAt(This, g) + LiteralAt[g][i + 1]
        <5>1. current' = (b + ga + LiteralAt[g][i]) + Len(literal)
          BY <1>1, <3>2, <3>3
        <5>2. LiteralAt[g][i + 1] = LiteralAt[g][i] + Len(literal)
          BY <3>4, <3>5
        <5>3. PICK x \in Nat, m \in Nat : LiteralAt[g][i] = x /\ Len(literal) = m
          BY <1>5, <3>4
        <5>4. b + ga + (x + m) = (b + ga + x) + m
          BY ONLY <3>3, <5>3
        <5> QED
          BY ONLY <3>3, <5>1, <5>2, <5>3, <5>4, Zenon
      <4>4. Reading'
        BY <1>1, <1>2, <1>4, <3>2, <4>1, <4>2 DEF Reading, HasRead, CoordsRead
      <4>5. AtLiteral'
        BY <4>2, <4>3, <4>4 DEF AtLiteral
      <4>6. AtMatch'
        BY <4>4, <4>5 DEF AtMatch, Reading
      <4> QED
        BY <1>1, <1>2, <1>8, <4>1, <4>6 DEF InFile, InFeature
    <3>6. CASE ~(i < Len(Expect[g]))
      <4>1. /\ pc' = IF g = 3 THEN "name" ELSE "number"
            /\ start' = current' /\ UNCHANGED <<at, list>>
        BY <1>4, <2>5, <3>6 DEF MatchNext, literal
      <4>2. at'.group = g /\ This' = This /\ Begin' = Begin
        BY <1>2, <1>4, <4>1 DEF This, Begin
      <4>3. start' = Begin + GroupAt(This, g) + GroupLen[g] /\ start' \in Nat
        <5>1. current' = (b + ga + LiteralAt[g][i]) + Len(literal)
          BY <1>1, <3>2, <3>3
        <5>2. GroupLen[g] = LiteralAt[g][i] + Len(literal)
          BY <3>4, <3>6
        <5>3. PICK x \in Nat, m \in Nat : LiteralAt[g][i] = x /\ Len(literal) = m
          BY <1>5, <3>4
        <5>4. b + ga + (x + m) = (b + ga + x) + m /\ b + ga + (x + m) \in Nat
          BY ONLY <3>3, <5>3
        <5> QED
          BY ONLY <3>3, <4>1, <5>1, <5>2, <5>3, <5>4, Zenon
      <4>4. Reading'
        BY <1>1, <1>2, <1>4, <3>2, <4>1, <4>2 DEF Reading, HasRead, CoordsRead
      <4>5. Clean[k] = This /\ Clean[k] \in Feature
        BY <2>2, CleanFeature DEF This, k
      <4>6. PICK a \in Nat, c \in Nat, d \in Nat :
              Len(This.lat) = a /\ Len(This.lon) = c /\ Len(This.name) = d
        BY <4>5, FeatureSizes
      <4>7. CASE g = 3
        <5>1. AtName'
          BY <4>2, <4>3, <4>4, <4>7 DEF AtName
        <5>2. current' \in start' .. start' + Len(This'.name)
          BY <4>1, <4>2, <4>3, <4>6
        <5> QED
          BY <1>1, <1>2, <1>8, <4>1, <4>7, <5>1, <5>2 DEF InFile, InFeature
      <4>8. CASE g # 3
        <5>1. current' \in start' .. start' + Len(Coord(This', g))
          BY <4>1, <4>2, <4>3, <4>6 DEF Coord
        <5>2. AtNumber'
          BY <4>2, <4>3, <4>4, <5>1 DEF AtNumber
        <5> QED
          BY <1>1, <1>2, <1>8, <4>1, <4>8, <5>2 DEF InFile, InFeature
      <4> QED
        BY <4>7, <4>8
    <3> QED
      BY <3>5, <3>6
  <2> QED
    BY <2>4, <2>5
<1> QED
  BY <1>7, <1>8

\* A coordinate, and what ends it.
LEMMA NumberPlace ==
  ASSUME db \in Database, NEW k \in 1 .. Len(db), NEW g \in 1 .. 2
  PROVE  \E s, n \in Nat :
           /\ Place(Clean, k - 1) + GroupAt(Clean[k], g) + GroupLen[g] = s
           /\ Coord(Clean[k], g) \in Coordinate /\ Len(Coord(Clean[k], g)) = n
           /\ Reads(File, s, Coord(Clean[k], g))
           /\ Place(Clean, k - 1) + GroupAt(Clean[k], g + 1) = s + n
           /\ s + n < Len(File)
           /\ File[s + n + 1] \in {Comma, Shut}
<1>0. PICK b \in Nat, l1 \in Nat, l2 \in Nat, l3 \in Nat :
        /\ Place(Clean, k - 1) = b
        /\ Len(Clean[k].lat) = l1 /\ Len(Clean[k].lon) = l2
        /\ Len(Clean[k].name) = l3
        /\ GroupAt(Clean[k], 1) = 0 /\ GroupAt(Clean[k], 2) = 10 + l1
        /\ GroupAt(Clean[k], 3) = 15 + l1 + l2
        /\ QuoteAt(Clean[k]) = 22 + l1 + l2 + l3
        /\ Place(Clean, k) = b + 25 + l1 + l2 + l3
        /\ b + 25 + l1 + l2 + l3 <= Len(File)
  BY ONLY db \in Database, k \in 1 .. Len(db), FeaturePlace, Zenon
<1> DEFINE f == Clean[k]
           p == Place(Clean, k - 1)
<1>1. /\ p = b
      /\ Len(f.lat) = l1 /\ Len(f.lon) = l2 /\ Len(f.name) = l3
      /\ GroupAt(f, 1) = 0 /\ GroupAt(f, 2) = 10 + l1
      /\ GroupAt(f, 3) = 15 + l1 + l2
      /\ QuoteAt(f) = 22 + l1 + l2 + l3
      /\ Place(Clean, k) = b + 25 + l1 + l2 + l3
      /\ b + 25 + l1 + l2 + l3 <= Len(File)
  BY ONLY <1>0, Zenon
<1>2. Spelled(File, p, f) /\ f \in Feature /\ Len(File) \in Nat
  BY FeaturePlace, CleanFeature, CleanFile
<1>3. f.lat \in Coordinate /\ f.lon \in Coordinate
  BY <1>2, FeatureText
<1> HIDE DEF f, p
<1>4. /\ LiteralAt[2][1] = 0 /\ LiteralAt[3][1] = 0
      /\ GroupLen[1] = 10 /\ GroupLen[2] = 5
  BY DEF LiteralAt, GroupLen
<1>5. Coord(f, 1) = f.lat /\ Coord(f, 2) = f.lon
  BY DEF Coord
<1>6. /\ Expect[2][1] = <<Comma>> /\ Expect[3][1] = <<Shut, Comma>>
      /\ 1 \in 1 .. Len(Expect[2]) /\ 1 \in 1 .. Len(Expect[3])
  BY DEF Expect
<1>7. /\ Reads(File, p + GroupAt(f, 2) + LiteralAt[2][1], <<Comma>>)
      /\ Reads(File, p + GroupAt(f, 3) + LiteralAt[3][1], <<Shut, Comma>>)
      /\ Reads(File, p + GroupAt(f, 1) + GroupLen[1], f.lat)
      /\ Reads(File, p + GroupAt(f, 2) + GroupLen[2], f.lon)
  <2>1. /\ Reads(File, p + GroupAt(f, 2) + LiteralAt[2][1], Expect[2][1])
        /\ Reads(File, p + GroupAt(f, 3) + LiteralAt[3][1], Expect[3][1])
    BY ONLY <1>2, <1>6, 2 \in 1 .. 3, 3 \in 1 .. 3, Zenon DEF Spelled
  <2>2. /\ Reads(File, p + GroupAt(f, 1) + GroupLen[1], Coord(f, 1))
        /\ Reads(File, p + GroupAt(f, 2) + GroupLen[2], Coord(f, 2))
    BY <1>2 DEF Spelled
  <2> QED
    BY <1>5, <1>6, <2>1, <2>2
<1>8. /\ p + GroupAt(f, 1) + GroupLen[1] = b + 10
      /\ p + GroupAt(f, 2) + GroupLen[2] = b + 15 + l1
      /\ p + GroupAt(f, 2) + LiteralAt[2][1] = b + 10 + l1
      /\ p + GroupAt(f, 2) = b + 10 + l1
      /\ p + GroupAt(f, 3) + LiteralAt[3][1] = b + 15 + l1 + l2
      /\ p + GroupAt(f, 3) = b + 15 + l1 + l2
  <2>1. /\ p = b /\ GroupAt(f, 1) = 0 /\ GroupAt(f, 2) = 10 + l1
        /\ GroupAt(f, 3) = 15 + l1 + l2
    BY <1>1
  <2>2. b \in Nat /\ l1 \in Nat /\ l2 \in Nat
    OBVIOUS
  <2>3. /\ b + 0 + 10 = b + 10
        /\ b + (10 + l1) + 5 = b + 15 + l1
        /\ b + (10 + l1) + 0 = b + 10 + l1 /\ b + (10 + l1) = b + 10 + l1
        /\ b + (15 + l1 + l2) + 0 = b + 15 + l1 + l2
        /\ b + (15 + l1 + l2) = b + 15 + l1 + l2
    BY ONLY <2>2
  <2> QED
    BY ONLY <1>4, <2>1, <2>3, Zenon
<1>9. /\ Reads(File, b + 10, f.lat) /\ Reads(File, b + 15 + l1, f.lon)
      /\ Reads(File, b + 10 + l1, <<Comma>>)
      /\ Reads(File, b + 15 + l1 + l2, <<Shut, Comma>>)
  BY <1>7, <1>8
<1>10. File[b + 10 + l1 + 1] = Comma /\ File[b + 15 + l1 + l2 + 1] = Shut
  <2>1. /\ Len(<<Comma>>) = 1 /\ <<Comma>>[1] = Comma
        /\ Len(<<Shut, Comma>>) = 2 /\ <<Shut, Comma>>[1] = Shut
        /\ 1 \in 1 .. 1 /\ 1 \in 1 .. 2
    OBVIOUS
  <2> QED
    BY ONLY <1>9, <2>1, Zenon DEF Reads
<1>11. CASE g = 1
  <2> DEFINE s == b + 10
  <2>1. s \in Nat /\ s + l1 = b + 10 + l1 /\ s + l1 + 1 = b + 10 + l1 + 1
    OBVIOUS
  <2>2. p + GroupAt(f, g) + GroupLen[g] = s /\ p + GroupAt(f, g + 1) = s + l1
    <3>1. g + 1 = 2
      BY <1>11
    <3> QED
      BY <1>8, <1>11, <2>1, <3>1
  <2>3. Coord(f, g) = f.lat /\ Len(f.lat) = l1
    BY <1>1, <1>5, <1>11
  <2>4. s + l1 < Len(File)
    BY <1>1, <1>2
  <2>5. File[s + l1 + 1] \in {Comma, Shut}
    BY <1>10, <2>1
  <2>6. Reads(File, s, f.lat)
    BY <1>9
  <2> HIDE DEF s
  <2> QED
    BY <1>3, <2>1, <2>2, <2>3, <2>4, <2>5, <2>6 DEF f, p
<1>12. CASE g = 2
  <2> DEFINE s == b + 15 + l1
  <2>1. s \in Nat /\ s + l2 = b + 15 + l1 + l2 /\ s + l2 + 1 = b + 15 + l1 + l2 + 1
    OBVIOUS
  <2>2. p + GroupAt(f, g) + GroupLen[g] = s /\ p + GroupAt(f, g + 1) = s + l2
    <3>1. g + 1 = 3
      BY <1>12
    <3> QED
      BY <1>8, <1>12, <2>1, <3>1
  <2>3. Coord(f, g) = f.lon /\ Len(f.lon) = l2
    BY <1>1, <1>5, <1>12
  <2>4. s + l2 < Len(File)
    BY <1>1, <1>2
  <2>5. File[s + l2 + 1] \in {Comma, Shut}
    BY <1>10, <2>1
  <2>6. Reads(File, s, f.lon)
    BY <1>9
  <2> HIDE DEF s
  <2> QED
    BY <1>3, <2>1, <2>2, <2>3, <2>4, <2>5, <2>6 DEF f, p
<1> QED
  BY <1>11, <1>12

LEMMA ScanNumberKeepsFile ==
  ASSUME TextInv, db \in Database, InFile, ScanNumber
  PROVE  InFile'
<1> DEFINE k == Len(list)
<1>1. /\ pc = "number" /\ UNCHANGED <<text, failed, pc, at, start, list, db, damage>>
      /\ InNumber /\ current' = current + 1
      /\ IsFront /\ (failed => Size = 0)
  BY DEF ScanNumber, InFile
<1>2. /\ Size' = Size /\ Clean' = Clean /\ File' = File /\ LoadedDb' = LoadedDb
      /\ (Whole' <=> Whole) /\ IsFront' /\ (failed' => Size' = 0)
  BY <1>1, SameText
<1>3. db # <<>> /\ AtNumber
  BY <1>1 DEF InFile, InNothing, InFeature
<1>4. /\ current \in Nat /\ Size \in Nat /\ current < Size
      /\ text[current + 1] \notin {Comma, Shut}
      /\ text[current + 1] = File[current + 1]
  <2>1. current \in Nat /\ Size \in Nat /\ current < Size
    BY <1>1, LenProperties DEF TextInv, TypeOK, IndexInRange, InNumber, Size
  <2>2. current + 1 \in 1 .. Size
    BY <2>1
  <2> QED
    BY <1>1, <2>1, <2>2 DEF InNumber, IsFront
<1>5. PICK g \in 1 .. 2 : at.group = g
  BY <1>1 DEF TextInv, TypeOK, PlaceInv
<1>6. k \in 1 .. Len(db)
  BY <1>3, LenProperties DEF AtNumber, Reading, TextInv, TypeOK
<1>7. PICK s \in Nat, n \in Nat :
        /\ Place(Clean, k - 1) + GroupAt(Clean[k], g) + GroupLen[g] = s
        /\ Coord(Clean[k], g) \in Coordinate /\ Len(Coord(Clean[k], g)) = n
        /\ Reads(File, s, Coord(Clean[k], g))
        /\ Place(Clean, k - 1) + GroupAt(Clean[k], g + 1) = s + n
        /\ s + n < Len(File)
        /\ File[s + n + 1] \in {Comma, Shut}
  <2>1. db \in Database
    OBVIOUS
  <2> QED
    BY ONLY <1>6, <2>1, NumberPlace, Zenon
<1>8. start = s /\ Len(Coord(This, g)) = n /\ current \in s .. s + n
  BY <1>3, <1>5, <1>7 DEF AtNumber, Begin, This
<1>9. current + 1 \in s .. s + n
  <2>1. current # s + n
    BY <1>4, <1>7
  <2> QED
    BY <1>4, <1>8, <2>1
<1>10. This' = This /\ Begin' = Begin
  BY <1>1, <1>2 DEF This, Begin
<1>11. Reading'
  BY <1>1, <1>2, <1>3, <1>10 DEF AtNumber, Reading, HasRead, CoordsRead
<1>12. AtNumber'
  <2>1. current' \in start' .. start' + Len(Coord(This', at'.group))
    BY <1>1, <1>5, <1>8, <1>9, <1>10
  <2>2. start' = Begin' + GroupAt(This', at'.group) + GroupLen[at'.group]
    BY <1>1, <1>3, <1>10 DEF AtNumber
  <2> QED
    BY <1>11, <2>1, <2>2 DEF AtNumber
<1> QED
  BY <1>1, <1>2, <1>3, <1>12 DEF InFile, InFeature

LEMMA ReadLongKeepsFile ==
  ASSUME TextInv, db \in Database, InFile, ReadLong
  PROVE  InFile'
<1> DEFINE k == Len(list)
           t == SubSeq(text, start + 1, current)
           v == Int32(Long(t))
           e == list[k]
           filled == IF at.group = 1 THEN [e EXCEPT !.lat = v] ELSE [e EXCEPT !.lon = v]
<1>1. /\ pc = "number" /\ UNCHANGED <<text, current, failed, start, db, damage>>
      /\ ~InNumber
      /\ IsFront /\ (failed => Size = 0)
  BY DEF ReadLong, InFile
<1>2. /\ Size' = Size /\ Clean' = Clean /\ File' = File /\ LoadedDb' = LoadedDb
      /\ (Whole' <=> Whole) /\ IsFront' /\ (failed' => Size' = 0)
  BY <1>1, SameText
<1>3. db # <<>> /\ AtNumber
  BY <1>1 DEF InFile, InNothing, InFeature
<1>4. /\ current \in Nat /\ Size \in Nat /\ current <= Size
      /\ list \in Seq(Entry) /\ Len(File) \in Nat /\ Size <= Len(File)
  BY <1>1, CleanFile, LenProperties
     DEF TextInv, TypeOK, IndexInRange, Size, Entry, IsFront
<1>5. PICK g \in 1 .. 2 : at.group = g
  BY <1>1 DEF TextInv, TypeOK, PlaceInv
<1>6. k \in 1 .. Len(db)
  BY <1>3, LenProperties DEF AtNumber, Reading, TextInv, TypeOK
<1>7. PICK s \in Nat, n \in Nat :
        /\ Place(Clean, k - 1) + GroupAt(Clean[k], g) + GroupLen[g] = s
        /\ Coord(Clean[k], g) \in Coordinate /\ Len(Coord(Clean[k], g)) = n
        /\ Reads(File, s, Coord(Clean[k], g))
        /\ Place(Clean, k - 1) + GroupAt(Clean[k], g + 1) = s + n
        /\ s + n < Len(File)
        /\ File[s + n + 1] \in {Comma, Shut}
  BY <1>6, NumberPlace
<1>8. start = s /\ current \in s .. s + n
  BY <1>3, <1>5, <1>7 DEF AtNumber, Begin, This
<1> DEFINE c == Coord(Clean[k], g)
<1>9. /\ c \in Seq(Char) /\ ~Throws(c) /\ Int32(Long(c)) = Long(c)
      /\ \A i \in 1 .. Len(c) : c[i] \notin {Comma, Shut}
  BY <1>7, GoodCoordinate
\* The number was cut, or the parser has read it whole.
<1>10. current = s + n \/ (current = Size /\ ~Whole)
  <2>1. SUFFICES ASSUME current # s + n
                 PROVE  current = Size /\ ~Whole
    OBVIOUS
  <2>2. current < s + n
    BY <1>8, <2>1
  <2>3. current = Size
    <3>1. SUFFICES ASSUME current # Size PROVE FALSE
      OBVIOUS
    <3>2. current + 1 \in 1 .. Size
      BY <1>4, <3>1
    <3>3. text[current + 1] = File[current + 1]
      BY <1>1, <3>2 DEF IsFront
    <3>4. PICK j \in 1 .. n : current + 1 = s + j
      <4>1. (current + 1) - s \in 1 .. n /\ current + 1 = s + ((current + 1) - s)
        BY <1>4, <1>8, <2>2
      <4> QED
        BY <4>1
    <3>5. File[s + j] = c[j]
      BY <1>7 DEF Reads
    <3>6. c[j] \notin {Comma, Shut}
      BY <1>7, <1>9
    <3> QED
      BY <1>1, <3>1, <3>3, <3>4, <3>5, <3>6 DEF InNumber
  <2> QED
    BY <1>4, <1>7, <2>2, <2>3 DEF Whole
<1>11. CASE Throws(t)
  <2>1. pc' = "threw"
    BY <1>11 DEF ReadLong
  <2>2. current # s + n
    <3>1. SUFFICES ASSUME current = s + n PROVE FALSE
      OBVIOUS
    <3>2. SubSeq(text, s + 1, s + n) = c
      <4>1. s + Len(c) <= Size
        BY <1>4, <1>7, <3>1
      <4> HIDE DEF c
      <4>2. SubSeq(text, s + 1, s + Len(c)) = c
        BY <1>1, <1>7, <1>9, <4>1, PieceRead DEF c
      <4> QED
        BY <1>7, <4>2 DEF c
    <3>3. t = c
      BY <1>8, <3>1, <3>2
    <3> QED
      BY <1>9, <1>11, <3>3
  <2>3. ~Whole'
    BY <1>2, <1>10, <2>2
  <2> QED
    BY <1>1, <1>2, <1>3, <2>1, <2>3 DEF InFile, InFeature
<1>12. CASE ~Throws(t)
  <2>1. /\ list' = [list EXCEPT ![k] = filled]
        /\ at' = [group |-> at.group + 1, i |-> 1] /\ pc' = "match"
    BY <1>12 DEF ReadLong
  <2>2. v \in Int32Range
    <3>1. t \in Seq(Char)
      <4>1. start \in Nat /\ current \in Int /\ current <= Size
        BY <1>4, <1>8
      <4> QED
        BY <4>1, PieceType
    <3> HIDE DEF t
    <3> QED
      BY <3>1, LongType, Int32Type
  <2>3. e \in Entry /\ k \in 1 .. Len(list)
    <3>1. k \in 1 .. Len(list)
      BY <1>6
    <3> QED
      BY <1>4, <3>1, ElementOfSeq
  <2> HIDE DEF v, t
  <2>4. filled \in Entry
    <3> HIDE DEF e
    <3> QED
      BY <2>2, <2>3 DEF Entry
  <2>5. /\ Len(list') = k /\ list'[k] = filled
        /\ \A j \in 1 .. k : j # k => list'[j] = list[j]
    <3> HIDE DEF filled
    <3> QED
      BY <1>4, <2>1, <2>3, <2>4, ExceptSeq
  <2>6. HasRead(Len(list) - 1)'
    <3>1. HasRead(k - 1)
      BY <1>3 DEF AtNumber, Reading
    <3>2. \A j \in 1 .. k - 1 : j \in 1 .. k /\ j # k
      BY <1>6
    <3>3. \A j \in 1 .. k - 1 : list'[j] = LoadedDb[j]
      BY <2>5, <3>1, <3>2 DEF HasRead
    <3>4. Len(list') - 1 = k - 1 /\ db' = db
      BY <1>1, <2>5
    <3> QED
      BY <1>2, <3>1, <3>3, <3>4 DEF HasRead
  <2>7. Len(list') >= 1 /\ Len(list') <= Len(db')
    BY <1>1, <1>6, <2>5
  <2>8. This' = Clean[k] /\ Begin' = Place(Clean, k - 1) /\ This = Clean[k]
    BY <1>2, <2>5 DEF This, Begin
  <2>9. at'.i = 1 /\ at'.group = g + 1
    BY <1>5, <2>1
  <2>10. CASE current # s + n
    <3>1. CutShort'
      BY <1>1, <1>2, <1>10, <2>9, <2>10 DEF CutShort
    <3>2. AtMatch'
      BY <2>6, <2>7, <3>1 DEF AtMatch
    <3> QED
      BY <1>1, <1>2, <1>3, <2>1, <3>2 DEF InFile, InFeature
  <2>11. CASE current = s + n
    <3>1. v = Long(c)
      <4>1. SubSeq(text, s + 1, s + n) = c
        <5>1. s + Len(c) <= Size
          BY <1>4, <1>7, <2>11
        <5> HIDE DEF c
        <5>2. SubSeq(text, s + 1, s + Len(c)) = c
          BY <1>1, <1>7, <1>9, <5>1, PieceRead DEF c
        <5> QED
          BY <1>7, <5>2 DEF c
      <4>2. t = c
        BY <1>8, <2>11, <4>1 DEF t
      <4> QED
        BY <1>9, <4>2 DEF v
    <3>2. CoordsRead(at.group)'
      <4>1. CoordsRead(g)
        BY <1>3, <1>5 DEF AtNumber, Reading
      <4>2. CASE g = 1
        <5>1. filled.lat = v /\ c = Clean[k].lat
          BY <1>5, <2>3, <4>2 DEF Coord, Entry
        <5>2. list'[k].lat = Long(Clean[k].lat) /\ at'.group = 2
          BY <2>5, <2>9, <3>1, <4>2, <5>1
        <5> QED
          BY <2>5, <2>8, <5>2 DEF CoordsRead
      <4>3. CASE g = 2
        <5>1. filled.lon = v /\ filled.lat = e.lat /\ c = Clean[k].lon
          BY <1>5, <2>3, <4>3 DEF Coord, Entry
        <5>2. e.lat = Long(Clean[k].lat)
          BY <2>8, <4>1, <4>3 DEF CoordsRead
        <5>3. /\ list'[k].lat = Long(Clean[k].lat)
              /\ list'[k].lon = Long(Clean[k].lon)
          BY <2>5, <3>1, <5>1, <5>2
        <5> QED
          BY <2>5, <2>8, <5>3 DEF CoordsRead
      <4> QED
        BY <4>2, <4>3
    <3>3. AtLiteral'
      <4>1. LiteralAt[g + 1][1] = 0
        BY DEF LiteralAt
      <4>2. current' = s + n + 0
        BY <1>1, <2>11
      <4>3. current' = Begin' + GroupAt(This', g + 1) + LiteralAt[g + 1][1]
        BY <1>7, <2>8, <4>1, <4>2
      <4>4. Reading'
        BY <2>6, <2>7, <3>2 DEF Reading
      <4> QED
        BY <2>9, <4>3, <4>4 DEF AtLiteral
    <3>4. AtMatch'
      BY <2>6, <2>7, <3>3 DEF AtMatch
    <3> QED
      BY <1>1, <1>2, <1>3, <2>1, <3>4 DEF InFile, InFeature
  <2> QED
    BY <2>10, <2>11
<1> QED
  BY <1>11, <1>12

\* A name, and the quote and the brace that end its feature.
LEMMA NamePlace ==
  ASSUME db \in Database, NEW k \in 1 .. Len(db)
  PROVE  \E s, n \in Nat :
           /\ Place(Clean, k - 1) + GroupAt(Clean[k], 3) + GroupLen[3] = s
           /\ Place(Clean, k - 1) + QuoteAt(Clean[k]) = s + n
           /\ Clean[k].name \in Seq(Char \ {Quote}) /\ Clean[k].name \in Seq(Char)
           /\ Len(Clean[k].name) = n
           /\ Reads(File, s, Clean[k].name)
           /\ File[s + n + 1] = Quote /\ File[s + n + 2] = Shut
           /\ Place(Clean, k) = s + n + 3
           /\ s + n + 3 <= Len(File)
<1>0. PICK b \in Nat, l1 \in Nat, l2 \in Nat, l3 \in Nat :
        /\ Place(Clean, k - 1) = b
        /\ Len(Clean[k].lat) = l1 /\ Len(Clean[k].lon) = l2
        /\ Len(Clean[k].name) = l3
        /\ GroupAt(Clean[k], 1) = 0 /\ GroupAt(Clean[k], 2) = 10 + l1
        /\ GroupAt(Clean[k], 3) = 15 + l1 + l2
        /\ QuoteAt(Clean[k]) = 22 + l1 + l2 + l3
        /\ Place(Clean, k) = b + 25 + l1 + l2 + l3
        /\ b + 25 + l1 + l2 + l3 <= Len(File)
  BY ONLY db \in Database, k \in 1 .. Len(db), FeaturePlace, Zenon
<1> DEFINE f == Clean[k]
           p == Place(Clean, k - 1)
<1>1. /\ p = b
      /\ Len(f.lat) = l1 /\ Len(f.lon) = l2 /\ Len(f.name) = l3
      /\ GroupAt(f, 1) = 0 /\ GroupAt(f, 2) = 10 + l1
      /\ GroupAt(f, 3) = 15 + l1 + l2
      /\ QuoteAt(f) = 22 + l1 + l2 + l3
      /\ Place(Clean, k) = b + 25 + l1 + l2 + l3
      /\ b + 25 + l1 + l2 + l3 <= Len(File)
  BY ONLY <1>0, Zenon
<1>2. Spelled(File, p, f) /\ f \in Feature /\ Len(File) \in Nat
  BY FeaturePlace, CleanFeature, CleanFile
<1>3. f.name \in Seq(Char \ {Quote}) /\ f.name \in Seq(Char)
  BY <1>2, FeatureText
<1> HIDE DEF f, p
<1>4. GroupLen[3] = 7
  BY DEF GroupLen
<1>5. /\ Reads(File, p + GroupAt(f, 3) + GroupLen[3], f.name)
      /\ Reads(File, p + QuoteAt(f), <<Quote, Shut>>)
  BY <1>2 DEF Spelled
<1> DEFINE s == b + 22 + l1 + l2
<1>6. /\ s \in Nat
      /\ p + GroupAt(f, 3) + GroupLen[3] = s
      /\ p + QuoteAt(f) = s + l3
      /\ Place(Clean, k) = s + l3 + 3
      /\ s + l3 + 3 <= Len(File)
  <2>1. /\ p = b /\ GroupAt(f, 3) = 15 + l1 + l2
        /\ QuoteAt(f) = 22 + l1 + l2 + l3
        /\ Place(Clean, k) = b + 25 + l1 + l2 + l3
        /\ b + 25 + l1 + l2 + l3 <= Len(File)
    BY <1>1
  <2>2. b \in Nat /\ l1 \in Nat /\ l2 \in Nat /\ l3 \in Nat /\ Len(File) \in Nat
    BY <1>2
  <2> QED
    BY ONLY <1>4, <2>1, <2>2
<1> HIDE DEF s
<1>7. File[s + l3 + 1] = Quote /\ File[s + l3 + 2] = Shut
  <2>1. /\ Len(<<Quote, Shut>>) = 2 /\ <<Quote, Shut>>[1] = Quote
        /\ <<Quote, Shut>>[2] = Shut /\ 1 \in 1 .. 2 /\ 2 \in 1 .. 2
    OBVIOUS
  <2>2. Reads(File, s + l3, <<Quote, Shut>>)
    BY <1>5, <1>6
  <2> QED
    BY ONLY <2>1, <2>2, Zenon DEF Reads
<1>8. Reads(File, s, f.name) /\ Len(f.name) = l3
  BY <1>1, <1>5, <1>6
<1> QED
  BY <1>3, <1>6, <1>7, <1>8 DEF f, p

LEMMA ScanNameKeepsFile ==
  ASSUME TextInv, db \in Database, InFile, ScanName
  PROVE  InFile'
<1> DEFINE k == Len(list)
<1>1. /\ pc = "name" /\ UNCHANGED <<text, failed, at, start, list, db, damage>>
      /\ current # Size /\ current' = current + 1
      /\ pc' = IF text[current + 1] = Quote THEN "named" ELSE "name"
      /\ IsFront /\ (failed => Size = 0)
  BY DEF ScanName, InFile
<1>2. /\ Size' = Size /\ Clean' = Clean /\ File' = File /\ LoadedDb' = LoadedDb
      /\ (Whole' <=> Whole) /\ IsFront' /\ (failed' => Size' = 0)
  BY <1>1, SameText
<1>3. db # <<>> /\ AtName /\ current \in start .. start + Len(This.name)
  BY <1>1 DEF InFile, InNothing, InFeature
<1>4. current \in Nat /\ text[current + 1] = File[current + 1]
  <2>1. current \in Nat /\ Size \in Nat /\ current < Size
    BY <1>1, LenProperties DEF TextInv, TypeOK, IndexInRange, Size
  <2>2. current + 1 \in 1 .. Size
    BY <2>1
  <2> QED
    BY <1>1, <2>1, <2>2 DEF IsFront
<1>5. k \in 1 .. Len(db)
  BY <1>3, LenProperties DEF AtName, Reading, TextInv, TypeOK
<1>6. PICK s \in Nat, n \in Nat :
        /\ Place(Clean, k - 1) + GroupAt(Clean[k], 3) + GroupLen[3] = s
        /\ Clean[k].name \in Seq(Char \ {Quote}) /\ Len(Clean[k].name) = n
        /\ Reads(File, s, Clean[k].name)
        /\ File[s + n + 1] = Quote
  BY <1>5, NamePlace
<1>7. start = s /\ Len(This.name) = n /\ current \in s .. s + n
  BY <1>3, <1>6 DEF AtName, Begin, This
<1>8. This' = This /\ Begin' = Begin
  BY <1>1, <1>2 DEF This, Begin
<1>9. AtName'
  <2>1. Reading'
    BY <1>1, <1>2, <1>3, <1>8 DEF AtName, Reading, HasRead, CoordsRead
  <2> QED
    BY <1>1, <1>3, <1>8, <2>1 DEF AtName
<1>10. CASE current = s + n
  <2>1. text[current + 1] = Quote
    BY <1>4, <1>6, <1>10
  <2>2. pc' = "named" /\ current' = start' + Len(This'.name) + 1
    BY <1>1, <1>7, <1>8, <1>10, <2>1
  <2> QED
    BY <1>1, <1>2, <1>3, <1>9, <2>2 DEF InFile, InFeature
<1>11. CASE current # s + n
  <2>1. PICK j \in 1 .. n : current + 1 = s + j
    <3>1. (current + 1) - s \in 1 .. n /\ current + 1 = s + ((current + 1) - s)
      BY <1>4, <1>7, <1>11
    <3> QED
      BY <3>1
  <2>2. text[current + 1] # Quote
    <3>1. text[current + 1] = Clean[k].name[j]
      BY <1>4, <1>6, <2>1 DEF Reads
    <3>2. Clean[k].name[j] \in Char \ {Quote}
      BY <1>6, ElementOfSeq
    <3> QED
      BY <3>1, <3>2
  <2>3. pc' = "name" /\ current' \in start' .. start' + Len(This'.name)
    BY <1>1, <1>4, <1>7, <1>8, <1>11, <2>2
  <2> QED
    BY <1>1, <1>2, <1>3, <1>9, <2>3 DEF InFile, InFeature
<1> QED
  BY <1>10, <1>11

LEMMA ReadNameKeepsFile ==
  ASSUME TextInv, db \in Database, InFile, ReadName
  PROVE  InFile'
<1> DEFINE k == Len(list)
           t == SubSeq(text, start + 1, current - 1)
           e == list[k]
           filled == [e EXCEPT !.name = t]
<1>1. /\ pc = "named" \/ (pc = "name" /\ current = Size)
      /\ UNCHANGED <<text, current, failed, at, start, db, damage>>
      /\ IsFront /\ (failed => Size = 0)
  BY DEF ReadName, InFile
<1>2. /\ Size' = Size /\ Clean' = Clean /\ File' = File /\ LoadedDb' = LoadedDb
      /\ (Whole' <=> Whole) /\ IsFront' /\ (failed' => Size' = 0)
  BY <1>1, SameText
<1>3. /\ db # <<>> /\ AtName
      /\ pc = "named" => current = start + Len(This.name) + 1
      /\ pc = "name" => current \in start .. start + Len(This.name)
  BY <1>1 DEF InFile, InNothing, InFeature
<1>4. /\ current \in Nat /\ Size \in Nat /\ current <= Size
      /\ list \in Seq(Entry) /\ Len(File) \in Nat /\ Size <= Len(File)
  BY <1>1, CleanFile, LenProperties
     DEF TextInv, TypeOK, IndexInRange, Size, Entry, IsFront
<1>5. k \in 1 .. Len(db)
  BY <1>3, LenProperties DEF AtName, Reading, TextInv, TypeOK
<1>6. PICK s \in Nat, n \in Nat :
        /\ Place(Clean, k - 1) + GroupAt(Clean[k], 3) + GroupLen[3] = s
        /\ Place(Clean, k - 1) + QuoteAt(Clean[k]) = s + n
        /\ Clean[k].name \in Seq(Char) /\ Len(Clean[k].name) = n
        /\ Reads(File, s, Clean[k].name)
        /\ s + n + 3 <= Len(File)
  BY <1>5, NamePlace
<1>7. start = s /\ Len(This.name) = n /\ This = Clean[k]
  BY <1>3, <1>6 DEF AtName, Begin, This
<1>8. CASE current = Size
  <2>1. pc' = "end" /\ list' = <<>>
    BY <1>8 DEF ReadName, Fail
  <2>2. ~Whole
    <3>1. current <= s + n + 1
      BY <1>1, <1>3, <1>4, <1>7
    <3> QED
      BY <1>4, <1>6, <1>8, <3>1 DEF Whole
  <2>3. AtEnd'
    BY <1>2, <2>1, <2>2 DEF AtEnd
  <2> QED
    BY <1>1, <1>2, <1>3, <2>1, <2>3 DEF InFile, InFeature
<1>9. CASE current # Size
  <2>1. list' = [list EXCEPT ![k] = filled] /\ pc' = "close"
    BY <1>9 DEF ReadName
  <2>2. current = s + n + 1
    BY <1>1, <1>3, <1>7, <1>9
  <2>3. t = Clean[k].name
    <3> DEFINE c == Clean[k].name
    <3>1. current - 1 = s + Len(c) /\ s + Len(c) <= Size
      BY <1>4, <1>6, <2>2
    <3> HIDE DEF c
    <3>2. SubSeq(text, s + 1, s + Len(c)) = c
      BY <1>1, <1>6, <3>1, PieceRead DEF c
    <3> QED
      BY <1>7, <3>1, <3>2 DEF c
  <2>4. e \in Entry /\ k \in 1 .. Len(list)
    <3>1. k \in 1 .. Len(list)
      BY <1>5
    <3> QED
      BY <1>4, <3>1, ElementOfSeq
  <2> HIDE DEF t
  <2>5. filled \in Entry
    <3> HIDE DEF e
    <3> QED
      BY <1>6, <2>3, <2>4 DEF Entry
  <2>6. /\ Len(list') = k /\ list'[k] = filled
        /\ \A j \in 1 .. k : j # k => list'[j] = list[j]
    <3> HIDE DEF filled
    <3> QED
      BY <1>4, <2>1, <2>4, <2>5, ExceptSeq
  <2>7. filled = LoadedDb[k]
    <3>1. /\ e.lat = Long(Clean[k].lat) /\ e.lon = Long(Clean[k].lon)
      BY <1>3, <1>7 DEF AtName, Reading, CoordsRead
    <3>2. filled = [lat |-> e.lat, lon |-> e.lon, name |-> t]
      <4> HIDE DEF e
      <4> QED
        BY <2>4 DEF Entry
    <3>3. LoadedDb[k] = [lat |-> Long(Clean[k].lat), lon |-> Long(Clean[k].lon),
                         name |-> Clean[k].name]
      BY <1>5, CleanFeature
    <3> QED
      BY <2>3, <3>1, <3>2, <3>3
  <2>8. HasRead(Len(list))'
    <3>1. HasRead(k - 1)
      BY <1>3 DEF AtName, Reading
    <3>2. ASSUME NEW j \in 1 .. k PROVE list'[j] = LoadedDb[j]
      <4>1. CASE j = k
        BY <2>6, <2>7, <4>1
      <4>2. CASE j # k
        <5>1. j \in 1 .. k - 1
          BY <1>5, <4>2
        <5> QED
          BY <2>6, <3>1, <4>2, <5>1 DEF HasRead
      <4> QED
        BY <4>1, <4>2
    <3>3. k <= Len(db') /\ LoadedDb' = LoadedDb /\ Len(list') = k
      BY <1>1, <1>2, <1>5, <2>6
    <3> QED
      BY <3>2, <3>3 DEF HasRead
  <2>9. AtClose'
    <3>1. This' = Clean[k] /\ Begin' = Place(Clean, k - 1)
      BY <1>2, <2>6 DEF This, Begin
    <3>2. current' = Begin' + QuoteAt(This') + 1
      BY <1>1, <1>6, <2>2, <3>1
    <3> QED
      BY <2>8, <3>2 DEF AtClose
  <2>10. Len(list') >= 1
    BY <1>5, <2>6
  <2> QED
    BY <1>1, <1>2, <1>3, <2>1, <2>9 DEF InFile, InFeature
<1> QED
  BY <1>8, <1>9

LEMMA CloseKeepsFile ==
  ASSUME TextInv, db \in Database, InFile, Close
  PROVE  InFile'
<1> DEFINE k == Len(list)
<1>1. /\ pc = "close" /\ current' = current + 2
      /\ UNCHANGED <<text, failed, at, start, db, damage>>
      /\ IsFront /\ (failed => Size = 0)
  BY DEF Close, InFile
<1>2. /\ Size' = Size /\ Clean' = Clean /\ File' = File /\ LoadedDb' = LoadedDb
      /\ (Whole' <=> Whole) /\ IsFront' /\ (failed' => Size' = 0)
  BY <1>1, SameText
<1>3. db # <<>> /\ HasRead(k) /\ current = Begin + QuoteAt(This) + 1
  BY <1>1 DEF InFile, InNothing, InFeature, AtClose
<1>4. /\ current \in Nat /\ Size \in Nat /\ current < Size
      /\ Len(File) \in Nat /\ Size <= Len(File) /\ k \in 1 .. Len(db)
  <2>1. list # <<>> /\ list \in Seq(Entry)
    BY <1>1 DEF TextInv, TypeOK, PlaceInv, Entry
  <2>2. k \in Nat \ {0} /\ k <= Len(db) /\ Len(db) \in Nat
    BY <1>3, <2>1, EmptySeq, CleanFile DEF HasRead
  <2> QED
    BY <1>1, <2>2, CleanFile, LenProperties
       DEF TextInv, TypeOK, IndexInRange, Size, IsFront
<1>5. PICK s \in Nat, n \in Nat :
        /\ Place(Clean, k - 1) + QuoteAt(Clean[k]) = s + n
        /\ File[s + n + 2] = Shut
        /\ Place(Clean, k) = s + n + 3 /\ s + n + 3 <= Len(File)
  BY <1>4, NamePlace
<1>6. current = s + n + 1 /\ current' = Place(Clean, k)
  BY <1>1, <1>3, <1>5 DEF Begin, This
<1>7. CASE pc' = "loop" /\ UNCHANGED list
  <2>1. HasRead(Len(list))'
    BY <1>1, <1>2, <1>3, <1>7 DEF HasRead
  <2>2. AtLoop'
    BY <1>2, <1>6, <1>7, <2>1 DEF AtLoop
  <2> QED
    BY <1>1, <1>2, <1>3, <1>7, <2>2 DEF InFile, InFeature
<1>8. CASE pc' = "end" /\ list' = <<>>
  <2>1. /\ ~Match(<<Shut, Comma>>)
        /\ ~(current' = Size /\ text[current'] = "]" /\ text[current + 1] \notin Word)
    BY <1>8 DEF Close
  <2>2. ASSUME Whole PROVE FALSE
    <3>1. text[current + 1] = Shut /\ text[current + 2] = File[Place(Clean, k)]
      <4>1. current + 1 \in 1 .. Size /\ current + 2 \in 1 .. Size
        BY <1>4, <1>5, <1>6, <2>2 DEF Whole
      <4>2. current + 1 = s + n + 2 /\ current + 2 = Place(Clean, k)
        BY <1>5, <1>6
      <4> QED
        BY <1>1, <1>5, <4>1, <4>2 DEF IsFront
    <3>2. CASE k = Len(db)
      <4>1. /\ File[Place(Clean, k)] = "]"
            /\ Place(Clean, k) = Len(File)
        BY <1>4, <3>2, FeaturePlace
      <4>2. current' = Size /\ text[current'] = "]"
        BY <1>1, <1>6, <2>2, <3>1, <4>1 DEF Whole
      <4>3. text[current + 1] \notin Word
        BY <3>1, Distinct
      <4> QED
        BY <2>1, <4>2, <4>3
    <3>3. CASE k # Len(db)
      <4>1. File[Place(Clean, k)] = Comma
        BY <1>4, <3>3, FeaturePlace
      <4>2. <<Shut, Comma>> \in Seq(Char) /\ Len(<<Shut, Comma>>) = 2
        BY LiteralText
      <4>3. Reads(File, current, <<Shut, Comma>>)
        <5>1. current + 2 <= Len(File)
          BY <1>5, <1>6
        <5>2. File[current + 1] = Shut
          <6>1. current + 1 = s + n + 2
            BY <1>6
          <6> QED
            BY <1>5, <6>1
        <5>3. File[current + 2] = Comma
          <6>1. current + 2 = Place(Clean, k)
            BY <1>1, <1>6
          <6> QED
            BY <4>1, <6>1
        <5>4. <<Shut, Comma>>[1] = Shut /\ <<Shut, Comma>>[2] = Comma
          OBVIOUS
        <5>5. ASSUME NEW i \in 1 .. 2 PROVE File[current + i] = <<Shut, Comma>>[i]
          <6>1. i = 1 \/ i = 2
            OBVIOUS
          <6> QED
            BY <5>2, <5>3, <5>4, <6>1
        <5> QED
          BY <4>2, <5>1, <5>5 DEF Reads
      <4> QED
        BY <1>1, <2>1, <2>2, <4>2, <4>3, WholeMatches
    <3> QED
      BY <3>2, <3>3
  <2>3. AtEnd'
    BY <1>2, <1>8, <2>2 DEF AtEnd
  <2> QED
    BY <1>1, <1>2, <1>3, <1>8, <2>3 DEF InFile, InFeature
<1> QED
  BY <1>7, <1>8 DEF Close, Fail

LEMMA ConstructReadsFile ==
  ASSUME TextInv, db \in Database, damage \in {"none", "cut"}, Unread, Construct
  PROVE  InFile'
<1> DEFINE R == Render(db)
<1>1. /\ text' = Strip(text) /\ current' = 1 /\ pc' = "loop"
      /\ failed' = (text' = <<>> \/ Head(text') # "[")
      /\ UNCHANGED <<at, start, list, db, damage>>
  BY DEF Construct
<1>2. /\ R \in Seq(Char) /\ Strip(R) = File /\ File \in Seq(Char)
      /\ Len(File) \in Nat \ {0} /\ File[1] = "["
      /\ db \in Seq(Feature) /\ Len(db) \in Nat
  BY CleanFile
<1>3. Clean' = Clean /\ File' = File /\ LoadedDb' = LoadedDb
  <2>1. Clean' = Clean /\ LoadedDb' = LoadedDb
    BY <1>1 DEF Clean, LoadedDb
  <2> QED
    BY <2>1 DEF File
<1> HIDE DEF R
<1>4. PICK rest \in Seq(Char) :
        /\ text' \in Seq(Char)
        /\ File = text' \o rest
        /\ damage = "none" => Len(rest) = 0
  <2>1. CASE damage = "none"
    <3>1. text' = File
      BY <1>1, <1>2, <2>1 DEF Unread, R
    <3>2. <<>> \in Seq(Char) /\ Len(<<>>) = 0 /\ File \o <<>> = File
      BY <1>2, EmptySeq, ConcatEmptySeq
    <3> QED
      BY <1>2, <3>1, <3>2
  <2>2. CASE damage = "cut"
    <3>1. PICK m \in 0 .. Len(R) - 1 : text = SubSeq(R, 1, m)
      BY <2>2 DEF Unread, Cut, R
    <3>2. Len(R) \in Nat /\ m \in 0 .. Len(R) /\ Len(R) \in m .. Len(R)
      BY <1>2, LenProperties
    <3> DEFINE a == SubSeq(R, 1, m)
               z == SubSeq(R, m + 1, Len(R))
    <3>3. a \in Seq(Char) /\ z \in Seq(Char)
      <4>1. \A i \in 1 .. Len(R) : R[i] \in Char
        BY <1>2, ElementOfSeq
      <4>2. /\ \A i \in 1 .. m : R[i] \in Char
            /\ \A i \in m + 1 .. Len(R) : R[i] \in Char
        BY <3>2, <4>1
      <4>3. a \in Seq(Char)
        BY <3>2, <4>2, SubSeqProperties
      <4>4. z \in Seq(Char)
        BY <3>2, <4>2, SubSeqProperties
      <4> QED
        BY <4>3, <4>4
    <3>4. a \o z = R
      <4>1. 1 \in 1 .. Len(R) + 1 /\ m \in (1 - 1) .. Len(R)
        BY <3>2
      <4>2. a \o z = SubSeq(R, 1, Len(R))
        BY <1>2, <3>2, <4>1, ConcatAdjacentSubSeq
      <4> QED
        BY <1>2, <4>2, SubSeqFull
    <3> HIDE DEF a, z
    <3>5. File = Strip(a) \o Strip(z)
      BY <1>2, <3>3, <3>4, StripConcat
    <3>6. text' = Strip(a) /\ Strip(a) \in Seq(Char) /\ Strip(z) \in Seq(Char)
      BY <1>1, <3>1, <3>3, StripType DEF a
    <3> QED
      BY <2>2, <3>5, <3>6
  <2> QED
    BY <2>1, <2>2
<1>5. PICK n \in Nat, r \in Nat : Len(text') = n /\ Len(rest) = r
  BY <1>4, LenProperties
<1>6. /\ Len(File) = n + r
      /\ \A i \in 1 .. n + r : File[i] = IF i <= n THEN text'[i] ELSE rest[i - n]
  BY <1>4, <1>5, ConcatProperties
<1>7. Size' = n /\ n <= Len(File) /\ \A i \in 1 .. n : text'[i] = File[i]
  BY <1>5, <1>6 DEF Size
<1>8. IsFront'
  <2>1. damage' = "none" => Whole'
    BY <1>1, <1>3, <1>4, <1>5, <1>6, <1>7 DEF Whole
  <2> QED
    BY <1>3, <1>7, <2>1 DEF IsFront
<1>9. failed' => Size' = 0
  <2>1. SUFFICES ASSUME failed', n # 0 PROVE FALSE
    BY <1>7
  <2>2. text' # <<>>
    BY <1>5, <2>1, EmptySeq
  <2>3. Head(text') = text'[1] /\ text'[1] = File[1]
    BY <1>7, <2>1, <2>2
  <2> QED
    BY <1>1, <1>2, <2>1, <2>2, <2>3
<1>10. list' = <<>>
  BY <1>1 DEF Unread
<1>11. CASE db = <<>>
  <2>1. InNothing'
    BY <1>1, <1>10 DEF InNothing
  <2> QED
    BY <1>1, <1>8, <1>9, <1>11, <2>1 DEF InFile
<1>12. CASE db # <<>>
  <2>1. Len(list') = 0
    BY <1>10, EmptySeq
  <2>2. HasRead(Len(list))'
    <3>1. \A i \in 1 .. 0 : FALSE
      OBVIOUS
    <3>2. 0 <= Len(db') /\ \A i \in 1 .. 0 : list'[i] = LoadedDb'[i]
      BY <1>1, <1>2, <3>1
    <3> QED
      BY <2>1, <3>2 DEF HasRead
  <2>3. Place(Clean, 0) = 1
    <3>1. Clean \in Seq(Feature) /\ Len(Clean) = Len(db)
      BY CleanFile
    <3>2. Clean # <<>>
      BY <1>2, <1>12, <3>1, EmptySeq
    <3> QED
      BY <3>1, <3>2, FileSpelled
  <2>4. AtLoop'
    BY <1>1, <1>3, <2>1, <2>2, <2>3 DEF AtLoop
  <2> QED
    BY <1>1, <1>8, <1>9, <1>12, <2>4 DEF InFile, InFeature
<1> QED
  BY <1>11, <1>12

LEMMA InitParserInv == Init => ParserInv
<1> SUFFICES ASSUME Init PROVE ParserInv
  OBVIOUS
<1>1. db \in Database /\ damage \in {"none", "cut", "edit"} /\ pc = "construct"
  BY DEF Init
<1>2. Unread
  BY DEF Init, Unread
<1> QED
  BY <1>1, <1>2 DEF ParserInv

LEMMA NextParserInv == TextInv /\ ParserInv /\ [Next]_vars => ParserInv'
<1> SUFFICES ASSUME TextInv, ParserInv, [Next]_vars PROVE ParserInv'
  OBVIOUS
<1>1. UNCHANGED <<db, damage>>
  BY DEF Next, Parse, Ended, vars, Construct, Loop, MatchNext, ScanNumber, ReadLong,
         ScanName, ReadName, Close
<1>2. CASE damage = "edit"
  BY <1>1, <1>2 DEF ParserInv
<1>3. CASE damage # "edit" /\ UNCHANGED vars
  <2>1. Unread' <=> Unread
    BY <1>3 DEF vars, Unread
  <2>2. InFile' <=> InFile
    <3>1. /\ Size' = Size /\ Clean' = Clean /\ File' = File /\ LoadedDb' = LoadedDb
          /\ (Whole' <=> Whole) /\ (IsFront' <=> IsFront)
      BY <1>3, SameText DEF vars
    <3>2. This' = This /\ Begin' = Begin
      BY <1>3, <3>1 DEF vars, This, Begin
    <3>3. \A j : HasRead(j)' <=> HasRead(j)
      BY <1>3, <3>1 DEF vars, HasRead
    <3>4. Reading' <=> Reading
      BY <1>3, <3>1, <3>2 DEF vars, Reading, HasRead, CoordsRead
    <3>5. InNothing' <=> InNothing
      BY <1>3 DEF vars, InNothing
    <3>6. /\ AtLoop' <=> AtLoop
          /\ AtNumber' <=> AtNumber
          /\ AtName' <=> AtName
          /\ AtClose' <=> AtClose
          /\ AtEnd' <=> AtEnd
      <4>1. AtLoop' <=> AtLoop
        BY <1>3, <3>1 DEF vars, AtLoop, HasRead
      <4>2. AtNumber' <=> AtNumber
        BY <1>3, <3>2, <3>4 DEF vars, AtNumber
      <4>3. AtName' <=> AtName
        BY <1>3, <3>2, <3>4 DEF vars, AtName
      <4>4. AtClose' <=> AtClose
        BY <1>3, <3>1, <3>2 DEF vars, AtClose, HasRead
      <4>5. AtEnd' <=> AtEnd
        BY <1>3, <3>1 DEF vars, AtEnd, HasRead
      <4> QED
        BY <4>1, <4>2, <4>3, <4>4, <4>5
    <3>7. AtMatch' <=> AtMatch
      <4>1. AtLiteral' <=> AtLiteral
        BY <1>3, <3>2, <3>4 DEF vars, AtLiteral
      <4>2. CutShort' <=> CutShort
        BY <1>3, <3>1 DEF vars, CutShort
      <4> QED
        BY <1>3, <3>1, <4>1, <4>2 DEF vars, AtMatch, HasRead
    <3>8. InFeature' <=> InFeature
      BY <1>3, <3>1, <3>2, <3>6, <3>7 DEF vars, InFeature
    <3> QED
      BY <1>3, <3>1, <3>5, <3>8 DEF vars, InFile
  <2> QED
    BY <1>3, <2>1, <2>2 DEF vars, ParserInv
<1>4. CASE damage # "edit" /\ Parse
  <2>1. db \in Database /\ damage \in {"none", "cut"}
    BY <1>4 DEF ParserInv
  <2>2. pc' # "construct"
    BY <1>4 DEF Parse, Construct, Loop, MatchNext, ScanNumber, ReadLong,
                ScanName, ReadName, Close, Fail
  <2>3. InFile'
    <3>1. CASE Construct
      <4>1. Unread
        BY <1>4, <3>1 DEF ParserInv, Construct
      <4> QED
        BY <2>1, <3>1, <4>1, ConstructReadsFile
    <3>2. CASE ~Construct
      <4>1. \/ Loop \/ MatchNext \/ ScanNumber \/ ReadLong
            \/ ScanName \/ ReadName \/ Close
        BY <1>4, <3>2 DEF Parse
      <4>2. pc # "construct"
        BY <4>1 DEF Loop, MatchNext, ScanNumber, ReadLong, ScanName, ReadName, Close
      <4>3. InFile
        BY <1>4, <4>2 DEF ParserInv
      <4> QED
        BY <2>1, <4>1, <4>3, LoopKeepsFile, MatchKeepsFile, ScanNumberKeepsFile,
           ReadLongKeepsFile, ScanNameKeepsFile, ReadNameKeepsFile, CloseKeepsFile
    <3> QED
      BY <3>1, <3>2
  <2> QED
    BY <1>1, <2>1, <2>2, <2>3 DEF ParserInv
<1> QED
  BY <1>2, <1>3, <1>4 DEF Next, Ended

THEOREM ParserInductive == Spec => [](TextInv /\ ParserInv)
<1>1. Init => TextInv /\ ParserInv
  BY InitTextInv, InitParserInv
<1>2. TextInv /\ ParserInv /\ [Next]_vars => TextInv' /\ ParserInv'
  BY NextTextInv, NextParserInv
<1> QED
  BY <1>1, <1>2, PTL DEF Spec

\* A list of as many features as the database, each loaded from its feature,
\* is what the whole file loads; the first of them are a prefix of it.
LEMMA ReadIsLoaded ==
  ASSUME TextInv, db \in Database, HasRead(Len(list))
  PROVE  /\ IsPrefix(list, LoadedDb)
         /\ Len(list) = Len(db) => list = LoadedDb
<1> DEFINE k == Len(list)
<1>1. /\ db \in Seq(Feature) /\ Len(db) \in Nat /\ DOMAIN db = 1 .. Len(db)
      /\ list \in Seq(Entry) /\ k \in Nat /\ DOMAIN list = 1 .. k
      /\ k <= Len(db)
  BY CleanFile, LenProperties DEF TextInv, TypeOK, Entry, HasRead
<1>2. LoadedDb \in Seq({Loaded(db[i]) : i \in 1 .. Len(db)}) /\ Len(LoadedDb) = Len(db)
  <2> DEFINE T == {Loaded(db[i]) : i \in 1 .. Len(db)}
  <2>1. LoadedDb \in [1 .. Len(db) -> T]
    BY <1>1 DEF LoadedDb
  <2> HIDE DEF T
  <2>2. LoadedDb \in Seq(T)
    BY <1>1, <2>1, SeqDef
  <2>3. DOMAIN LoadedDb = 1 .. Len(db) /\ DOMAIN LoadedDb = 1 .. Len(LoadedDb)
    BY <2>1, <2>2, LenProperties
  <2>4. Len(LoadedDb) \in Nat
    BY <2>2, LenProperties
  <2>5. Len(LoadedDb) = Len(db)
    BY <1>1, <2>3, <2>4
  <2> QED
    BY <2>2, <2>5 DEF T
<1>3. \A i \in 1 .. k : list[i] = LoadedDb[i]
  BY DEF HasRead
<1>4. list = SubSeq(LoadedDb, 1, k)
  <2> DEFINE T == {Loaded(db[i]) : i \in 1 .. Len(db)}
             u == SubSeq(LoadedDb, 1, k)
  <2> HIDE DEF T
  <2>1. \A i \in 1 .. k : LoadedDb[i] \in T /\ i \in 1 .. Len(db)
    <3>1. \A i \in 1 .. Len(db) : LoadedDb[i] \in T
      BY <1>2, ElementOfSeq DEF T
    <3> QED
      BY <1>1, <3>1
  <2>2. /\ u \in Seq(T) /\ Len(u) = IF 1 <= k THEN k - 1 + 1 ELSE 0
        /\ \A i \in 1 .. k - 1 + 1 : u[i] = LoadedDb[1 + i - 1]
    BY <1>1, <2>1, SubSeqProperties
  <2>3. Len(u) = k
    BY <1>1, <2>2
  <2>4. \A i \in 1 .. k : u[i] = list[i]
    <3>1. k - 1 + 1 = k /\ \A i \in 1 .. k : 1 + i - 1 = i
      BY <1>1
    <3> QED
      BY <1>3, <2>2, <3>1
  <2>5. list \in Seq(T)
    <3>1. \A i \in 1 .. k : list[i] \in T
      BY <1>3, <2>1
    <3> QED
      BY <1>1, <3>1, SeqDef
  <2> HIDE DEF u
  <2>6. list = u
    BY <2>2, <2>3, <2>4, <2>5, SeqEqual
  <2> QED
    BY <2>6 DEF u
<1>5. IsPrefix(list, LoadedDb)
  BY <1>1, <1>2, <1>4 DEF IsPrefix
<1>6. ASSUME k = Len(db) PROVE list = LoadedDb
  BY <1>2, <1>4, <1>6, SubSeqFull
<1> QED
  BY <1>5, <1>6

\* The file of any database of legal features is loaded whole: no number makes
\* stol throw, no name is cut short at what looks like the end of a feature,
\* and every feature comes out with the numbers and the name it went in with.
THEOREM ParserLoadsWholeFile == Spec => []WholeFileLoads
<1>1. TextInv /\ ParserInv => WholeFileLoads
  <2> SUFFICES ASSUME TextInv, ParserInv, damage = "none", Stopped
               PROVE  pc = "end" /\ list = LoadedDb
    BY DEF WholeFileLoads
  <2>1. db \in Database /\ InFile /\ Whole /\ pc \in {"end", "threw"}
    BY DEF ParserInv, Stopped, InFile, IsFront
  <2>2. CASE db = <<>>
    <3>1. pc = "end" /\ list = <<>>
      BY <2>1, <2>2 DEF InFile, InNothing
    <3>2. Len(list) = 0 /\ Len(db) = 0
      BY <2>2, <3>1, EmptySeq
    <3>3. HasRead(Len(list))
      <4>1. \A i \in 1 .. 0 : list[i] = LoadedDb[i]
        OBVIOUS
      <4> QED
        BY <3>2, <4>1 DEF HasRead
    <3> QED
      BY <2>1, <3>1, <3>2, <3>3, ReadIsLoaded
  <2>3. CASE db # <<>>
    <3>1. pc = "end" /\ HasRead(Len(list)) /\ Len(list) = Len(db)
      BY <2>1, <2>3 DEF InFile, InFeature, AtEnd
    <3> QED
      BY <2>1, <3>1, ReadIsLoaded
  <2> QED
    BY <2>2, <2>3
<1> QED
  BY <1>1, ParserInductive, PTL

\* From a file that was cut, wherever that was, the parser loads nothing or the
\* first features of the database, each as the whole file would have it.
THEOREM ParserLoadsPrefix == Spec => []CutLoadsPrefix
<1>1. TextInv /\ ParserInv => CutLoadsPrefix
  <2> SUFFICES ASSUME TextInv, ParserInv, damage = "cut", pc = "end", list # <<>>
               PROVE  IsPrefix(list, LoadedDb)
    BY DEF CutLoadsPrefix
  <2>1. db \in Database /\ InFile
    BY DEF ParserInv
  <2>2. HasRead(Len(list))
    BY <2>1 DEF InFile, InNothing, InFeature, AtEnd
  <2> QED
    BY <2>1, <2>2, ReadIsLoaded
<1> QED
  BY <1>1, ParserInductive, PTL

-----------------------------------------------------------------------------
(* A file that was changed at one place. *)

\* t is f with one element more, one less or another one: the first a elements
\* are the same, and a is the greatest such number; those behind place
\* Behind(d, a) are the same as well, d places further on.
Behind(d, a) == IF d = -1 THEN a ELSE a + 1
ChangedAt(t, f, d, a) ==
  /\ d \in {-1, 0, 1} /\ Len(t) = Len(f) + d
  /\ a \in Nat /\ a <= Len(t) /\ a <= Len(f)
  /\ \A i \in 1 .. a : t[i] = f[i]
  /\ a < Len(t) /\ a < Len(f) => t[a + 1] # f[a + 1]
  /\ \A i \in Behind(d, a) + 1 .. Len(t) : t[i] = f[i - d]

\* Place c of the text is place p of the file, before the change or behind it.
Aligned(d, a, c, p, j) == \/ j = 0 /\ c = p /\ c <= a
                          \/ j # 0 /\ c = p + d /\ c >= Behind(d, a)

\* A scan for a character of D that began at place s of t has come to e.
Stops(t, D, s, e) ==
  /\ s <= e /\ e <= Len(t)
  /\ \A i \in s + 1 .. e : t[i] \notin D
  /\ e = Len(t) \/ t[e + 1] \in D

\* Behind place s, f has n characters and then one of D.
Ends(f, D, s, n) ==
  /\ s + n < Len(f)
  /\ \A i \in s + 1 .. s + n : f[i] \notin D
  /\ f[s + n + 1] \in D

\* The change put a character of D into such a piece, or took its end away.
Split(t, f, D, d, a, s, n, e) ==
  e = a /\ d >= 0 /\ a < Len(t) /\ t[a + 1] \in D /\ t[a + 1] # f[a + 1]
Joins(t, f, D, d, a, s, n, e) ==
  /\ a = s + n /\ d <= 0 /\ e >= Behind(d, a)
  /\ \A i \in s + n + 2 .. e - d : f[i] \notin D
  /\ e = Len(t) \/ (t[e + 1] = f[e + 1 - d] /\ t[e + 1] \in D)

Shift == Size - Len(File)
EditAt(a) == ChangedAt(text, File, Shift, a)
InStep(a, c, p, j) == Aligned(Shift, a, c, p, j)

\* The first k features of the list are those of the database, but for the one
\* that was changed.
HasReadBut(k, j) == /\ k <= Len(db)
                    /\ \A i \in 1 .. k : i # j => list[i] = LoadedDb[i]
ReadingBut(j) == /\ Len(list) >= 1 /\ Len(list) <= Len(db)
                 /\ HasReadBut(Len(list) - 1, j)
                 /\ Len(list) # j => CoordsRead(at.group)

LiteralPlace(g, i) == Begin + GroupAt(This, g) + LiteralAt[g][i]
GroupEnd(g) == Begin + GroupAt(This, g) + GroupLen[g]
QuotePlace == Begin + QuoteAt(This)

\* At place p of t a feature's key follows; a comma, before any brace.
KeyAt(t, p) == p + 2 <= Len(t) /\ t[p + 1] = Quote /\ t[p + 2] = "location"
CommaAt(t, p) == \E y \in p + 1 .. Len(t) :
                   /\ t[y] = Comma
                   /\ \A i \in p + 1 .. y - 1 : t[i] \notin {Comma, Shut}
KeyFails(p) == ~KeyAt(text, p)
LonFails(p) == CommaAt(text, p)

\* The text was changed behind place a.  Wherever the parser is, it has loaded
\* nothing or the whole file, or it will give up (what it must find next is not
\* there: the literals, the key of the next feature, or the comma and the key
\* of the longitude), or it is in step with the file: before the change (j = 0),
\* or behind it, which was in feature j.
LoopAfter(a) ==
  \/ list = <<>> /\ (failed \/ Finished)
  \/ Len(list) = Len(db) /\ Finished /\ \E j \in 0 .. Len(db) : HasReadBut(Len(db), j)
  \/ ~Finished /\ KeyFails(current + 1)
  \/ /\ Len(list) < Len(db)
     /\ \E j \in 0 .. Len(db) :
          HasReadBut(Len(list), j) /\ InStep(a, current, Place(Clean, Len(list)), j)

MatchAfter(a) ==
  \/ ~Match(Expect[at.group][at.i])
  \/ at = [group |-> 1, i |-> 1] /\ KeyFails(current + 1)
  \/ at.group = 2 /\ LonFails(IF at.i = 1 THEN current + 1 ELSE current)
  \/ \E j \in 0 .. Len(db) :
       ReadingBut(j) /\ InStep(a, current, LiteralPlace(at.group, at.i), j)

NumberAfter(a) ==
  /\ start <= current
  /\ \A i \in start + 1 .. current : text[i] \notin {Comma, Shut}
  /\ \/ at.group = 2 /\ LonFails(start)
     \/ \E j \in 0 .. Len(db) :
          ReadingBut(j) /\ InStep(a, start, GroupEnd(at.group), j)

NameAfter(a, c) ==
  /\ start <= c
  /\ \A i \in start + 1 .. c : text[i] # Quote
  /\ at.group = 3
  /\ \E j \in 0 .. Len(db) : ReadingBut(j) /\ InStep(a, start, GroupEnd(3), j)

\* The test at the end of a feature.
CloseSucceeds == \/ Match(<<Shut, Comma>>)
                 \/ /\ current + 2 = Size
                    /\ text[current + 2] = "]"
                    /\ text[current + 1] \notin Word

CloseAfter(a) ==
  \/ CloseSucceeds => current + 2 < Size /\ KeyFails(current + 3)
  \/ /\ Len(list) >= 1 /\ Len(list) <= Len(db)
     /\ \E j \in 0 .. Len(db) :
          HasReadBut(Len(list), j) /\ InStep(a, current, QuotePlace + 1, j)

EndAfter == \/ list = <<>>
            \/ Len(list) = Len(db) /\ \E j \in 0 .. Len(db) : HasReadBut(Len(db), j)

InDamaged(a) ==
  /\ pc = "loop" => LoopAfter(a)
  /\ pc = "match" => MatchAfter(a)
  /\ pc = "number" => NumberAfter(a)
  /\ pc = "name" => NameAfter(a, current)
  /\ pc = "named" => /\ current > start /\ text[current] = Quote
                     /\ NameAfter(a, current - 1)
  /\ pc = "close" => CloseAfter(a)
  /\ pc = "end" => EndAfter

\* z is a, x and b, of lengths p, m and q.
Joined(z, a, x, b, p, m, q) ==
  /\ z \in Seq(Char) /\ Len(z) = p + m + q
  /\ \A i \in 1 .. p : z[i] = a[i]
  /\ \A i \in 1 .. m : z[p + i] = x[i]
  /\ \A i \in 1 .. q : z[p + m + i] = b[i]

LEMMA ThreePieces ==
  ASSUME NEW a \in Seq(Char), NEW x \in Seq(Char), NEW b \in Seq(Char),
         NEW p \in Nat, NEW m \in Nat, NEW q \in Nat,
         Len(a) = p, Len(x) = m, Len(b) = q,
         NEW z, z = a \o (x \o b)
  PROVE  Joined(z, a, x, b, p, m, q)
<1> DEFINE y == x \o b
<1>1. y \in Seq(Char) /\ Len(y) = m + q
  BY ConcatProperties
<1>2. \A i \in 1 .. m + q : y[i] = IF i <= m THEN x[i] ELSE b[i - m]
  BY ConcatProperties
<1>3. z = a \o y
  OBVIOUS
<1> HIDE DEF y
<1>4. z \in Seq(Char) /\ Len(z) = p + (m + q)
  BY ONLY <1>1, <1>3, a \in Seq(Char), Len(a) = p, ConcatProperties
<1>5. \A i \in 1 .. p + (m + q) : z[i] = IF i <= p THEN a[i] ELSE y[i - p]
  <2>1. \A i \in 1 .. Len(a) + Len(y) :
          (a \o y)[i] = IF i <= Len(a) THEN a[i] ELSE y[i - Len(a)]
    BY ONLY <1>1, a \in Seq(Char), ConcatProperties
  <2> QED
    BY ONLY <1>1, <1>3, <2>1, Len(a) = p, Zenon
<1>6. \A i \in 1 .. p : z[i] = a[i]
  BY <1>5
<1>7. ASSUME NEW i \in 1 .. m PROVE z[p + i] = x[i]
  <2>1. p + i \in 1 .. p + (m + q) /\ ~(p + i <= p) /\ (p + i) - p = i
    BY DEF y
  <2>2. i \in 1 .. m + q /\ i <= m
    OBVIOUS
  <2> QED
    BY <1>2, <1>5, <2>1, <2>2
<1>8. ASSUME NEW i \in 1 .. q PROVE z[p + m + i] = b[i]
  <2>1. /\ p + m + i \in 1 .. p + (m + q) /\ ~(p + m + i <= p)
        /\ (p + m + i) - p = m + i
    OBVIOUS
  <2>2. m + i \in 1 .. m + q /\ ~(m + i <= m) /\ (m + i) - m = i
    OBVIOUS
  <2>3. z[p + m + i] = y[m + i]
    BY <1>5, <2>1
  <2>4. y[m + i] = b[i]
    BY <1>2, <2>2
  <2> QED
    BY <2>3, <2>4
<1>9. p + (m + q) = p + m + q
  OBVIOUS
<1>10. z \in Seq(Char) /\ Len(z) = p + m + q
  BY ONLY <1>4, <1>9, Zenon
<1> QED
  BY ONLY <1>6, <1>7, <1>8, <1>10, Zenon DEF Joined

\* An edit takes out, puts in or replaces a piece of one character at most.
PieceEdited(t, u) ==
  \E a, o, m, b \in Seq(Char) :
    t = a \o (o \o b) /\ u = a \o (m \o b) /\ Len(o) <= 1 /\ Len(m) <= 1

LEMMA EditedPieces ==
  ASSUME NEW t \in Seq(Char), NEW u \in Edited(t)
  PROVE  PieceEdited(t, u)
<1> USE DEF PieceEdited
<1> DEFINE n == Len(t)
           T == Seq(Char)
<1>1. n \in Nat /\ \A i \in 1 .. n : t[i] \in Char
  BY LenProperties, ElementOfSeq
<1>2. <<>> \in T /\ Len(<<>>) = 0 /\ \A c \in Char : <<c>> \in T /\ Len(<<c>>) = 1
  BY EmptySeq
<1>3. ASSUME NEW i \in 1 .. n + 1
      PROVE  /\ SubSeq(t, 1, i - 1) \in T /\ SubSeq(t, i, n) \in T
             /\ t = SubSeq(t, 1, i - 1) \o SubSeq(t, i, n)
  <2>1. \A j \in 1 .. i - 1 : t[j] \in Char
    BY <1>1
  <2>2. \A j \in i .. n : t[j] \in Char
    BY <1>1
  <2>3. SubSeq(t, 1, i - 1) \in T
    BY <1>1, <2>1, SubSeqProperties
  <2>4. SubSeq(t, i, n) \in T
    BY <1>1, <2>2, SubSeqProperties
  <2> DEFINE m == i - 1
  <2>5. m + 1 = i /\ m \in (1 - 1) .. n /\ 1 \in 1 .. n + 1 /\ n \in m .. n /\ m \in Nat
    BY <1>1
  <2> HIDE DEF m
  <2>6. SubSeq(t, 1, m) \o SubSeq(t, m + 1, n) = SubSeq(t, 1, n)
    BY <1>1, <2>5, ConcatAdjacentSubSeq
  <2>7. SubSeq(t, 1, n) = t
    BY SubSeqFull
  <2>8. SubSeq(t, m + 1, n) = SubSeq(t, i, n)
    BY <2>5
  <2>9. SubSeq(t, 1, m) = SubSeq(t, 1, i - 1)
    BY DEF m
  <2>10. t = SubSeq(t, 1, i - 1) \o SubSeq(t, i, n)
    BY ONLY <2>6, <2>7, <2>8, <2>9, Zenon
  <2> QED
    BY <2>3, <2>4, <2>10
<1>4. ASSUME NEW i \in 1 .. n
      PROVE  /\ SubSeq(t, i + 1, n) \in T /\ <<t[i]>> \in T
             /\ t = SubSeq(t, 1, i - 1) \o (<<t[i]>> \o SubSeq(t, i + 1, n))
  <2>1. i \in 1 .. n + 1 /\ i + 1 \in 1 .. n + 1
    BY <1>1
  <2>2. SubSeq(t, i, n) = <<t[i]>> \o SubSeq(t, i + 1, n)
    BY <1>1, SubSeqRecursiveFirst
  <2>3. t = SubSeq(t, 1, i - 1) \o SubSeq(t, i, n)
    BY <1>3, <2>1
  <2>4. SubSeq(t, i + 1, n) \in T
    BY <1>3, <2>1
  <2> QED
    BY <1>1, <1>2, <2>2, <2>3, <2>4
<1>5. DOMAIN t = 1 .. n
  BY LenProperties
<1>6. \A c \in Typo : c \in Char
  BY ConstantsAssumption
<1>7. CASE \E i \in 1 .. n : u = RemoveAt(t, i)
  <2>1. PICK i \in 1 .. n : u = RemoveAt(t, i)
    BY <1>7
  <2> DEFINE a == SubSeq(t, 1, i - 1)
             b == SubSeq(t, i + 1, n)
  <2>2. i \in 1 .. n + 1
    BY <1>1
  <2>3. a \in T /\ b \in T /\ <<t[i]>> \in T /\ t[i] \in Char
    BY <1>1, <1>3, <1>4, <2>2
  <2>4. t = a \o (<<t[i]>> \o b)
    BY <1>4
  <2>5. u = a \o b
    BY <2>1 DEF RemoveAt
  <2> HIDE DEF a, b
  <2>6. <<>> \o b = b
    BY <2>3, ConcatEmptySeq
  <2>7. u = a \o (<<>> \o b) /\ Len(<<t[i]>>) <= 1 /\ Len(<<>>) <= 1
    BY <2>5, <2>6
  <2> QED
    BY <1>2, <2>3, <2>4, <2>7
<1>8. CASE \E i \in 1 .. n : \E c \in Typo : u = ReplaceAt(t, i, c)
  <2>1. PICK i \in 1 .. n, c \in Typo : u = ReplaceAt(t, i, c)
    BY <1>8
  <2> DEFINE a == SubSeq(t, 1, i - 1)
             b == SubSeq(t, i + 1, n)
             v == a \o (<<c>> \o b)
  <2>2. i \in 1 .. n + 1 /\ c \in Char
    BY <1>1, <1>6
  <2>3. a \in T /\ b \in T /\ <<t[i]>> \in T /\ t[i] \in Char /\ <<c>> \in T
    BY <1>1, <1>2, <1>3, <1>4, <2>2
  <2>4. t = a \o (<<t[i]>> \o b)
    BY <1>4
  <2>5. u = [t EXCEPT ![i] = c]
    BY <2>1 DEF ReplaceAt
  <2>6. PICK p \in Nat, q \in Nat : p = i - 1 /\ q = n - i /\ Len(a) = p /\ Len(b) = q
    <3>1. i - 1 \in Nat /\ n - i \in Nat
      BY <1>1
    <3>2. Len(a) = i - 1
      <4>1. \A j \in 1 .. i - 1 : t[j] \in Char
        BY <1>1
      <4> QED
        BY <1>1, <4>1, SubSeqProperties
    <3>3. Len(b) = n - i
      <4>1. \A j \in i + 1 .. n : t[j] \in Char
        BY <1>1
      <4>2. Len(b) = IF i + 1 <= n THEN n - (i + 1) + 1 ELSE 0
        BY <1>1, <4>1, SubSeqProperties
      <4> HIDE DEF b
      <4> QED
        BY <1>1, <4>2
    <3> HIDE DEF a, b
    <3> QED
      BY <3>1, <3>2, <3>3
  <2>7. u \in T /\ Len(u) = n /\ \A j \in 1 .. n : u[j] = IF j = i THEN c ELSE t[j]
    BY <2>2, <2>5, ExceptSeq
  <2> HIDE DEF a, b
  <2>8. /\ v \in T /\ Len(v) = p + 1 + q
        /\ \A j \in 1 .. p : v[j] = a[j]
        /\ \A j \in 1 .. 1 : v[p + j] = <<c>>[j]
        /\ \A j \in 1 .. q : v[p + 1 + j] = b[j]
    <3> DEFINE x == <<c>>
    <3>1. Len(x) = 1 /\ x \in T /\ v = a \o (x \o b) /\ 1 \in Nat
      BY <2>3
    <3> HIDE DEF x, v, T
    <3>2. Joined(v, a, x, b, p, 1, q)
      BY ONLY <2>3, <2>6, <3>1, ThreePieces, Zenon DEF T
    <3> QED
      BY <3>2 DEF Joined, x, T
  <2>9. /\ n = p + 1 + q
        /\ \A j \in 1 .. p : t[j] = a[j]
        /\ \A j \in 1 .. q : t[p + 1 + j] = b[j]
    <3> DEFINE x == <<t[i]>>
    <3>1. Len(x) = 1 /\ x \in T /\ t = a \o (x \o b) /\ 1 \in Nat
      BY <2>3, <2>4
    <3> HIDE DEF x, T, n
    <3>2. Joined(t, a, x, b, p, 1, q)
      BY ONLY <2>3, <2>6, <3>1, ThreePieces, Zenon DEF T
    <3> QED
      BY <3>2 DEF Joined, n
  <2> HIDE DEF v
  <2>12. ASSUME NEW j \in 1 .. n PROVE u[j] = v[j]
    <3>1. CASE j <= p
      <4>1. j \in 1 .. p /\ j # i
        BY <1>1, <2>6, <3>1
      <4> QED
        BY <2>7, <2>8, <2>9, <4>1
    <3>2. CASE j = p + 1
      <4>1. j = i /\ 1 \in 1 .. 1 /\ <<c>>[1] = c
        BY <2>6, <3>2
      <4> QED
        BY <2>7, <2>8, <3>2, <4>1
    <3>3. CASE j > p + 1
      <4>1. PICK h \in 1 .. q : j = p + 1 + h /\ j # i
        <5>1. j - (p + 1) \in 1 .. q /\ j = p + 1 + (j - (p + 1)) /\ j # i
          BY <1>1, <2>6, <2>9, <3>3
        <5> QED
          BY <5>1
      <4> QED
        BY <2>7, <2>8, <2>9, <4>1
    <3> QED
      BY <2>6, <3>1, <3>2, <3>3
  <2>13. u = v
    BY <2>7, <2>8, <2>9, <2>12, SeqEqual
  <2>14. Len(<<t[i]>>) <= 1 /\ Len(<<c>>) <= 1
    OBVIOUS
  <2> QED
    BY <2>3, <2>4, <2>13, <2>14 DEF v
<1>9. CASE \E i \in 1 .. n + 1 : \E c \in Typo : u = InsertAt(t, i, c)
  <2>1. PICK i \in 1 .. n + 1, c \in Typo : u = InsertAt(t, i, c)
    BY <1>9
  <2> DEFINE a == SubSeq(t, 1, i - 1)
             b == SubSeq(t, i, n)
  <2>2. a \in T /\ b \in T /\ t = a \o b /\ <<c>> \in T
    BY <1>2, <1>3, <1>6
  <2>3. u = (a \o <<c>>) \o b \/ u = a \o (<<c>> \o b)
    BY <2>1 DEF InsertAt
  <2> HIDE DEF a, b
  <2>4. u = a \o (<<c>> \o b) /\ <<>> \o b = b
    <3>1. (a \o <<c>>) \o b = a \o (<<c>> \o b)
      BY <2>2, ConcatAssociative
    <3>2. <<>> \o b = b
      BY <2>2, ConcatEmptySeq
    <3> QED
      BY ONLY <2>3, <3>1, <3>2, Zenon
  <2>5. t = a \o (<<>> \o b) /\ Len(<<c>>) <= 1 /\ Len(<<>>) <= 1
    BY <2>2, <2>4
  <2> QED
    BY <1>2, <2>2, <2>4, <2>5
<1>10. \/ \E i \in 1 .. n : u = RemoveAt(t, i)
       \/ \E i \in 1 .. n : \E c \in Typo : u = ReplaceAt(t, i, c)
       \/ \E i \in 1 .. n + 1 : \E c \in Typo : u = InsertAt(t, i, c)
  BY <1>5 DEF Edited
<1> QED
  BY ONLY <1>7, <1>8, <1>9, <1>10, Zenon

\* Two texts that differ in such a piece agree up to some place, and behind it.
LEMMA JoinedChange ==
  ASSUME NEW f, NEW t, NEW a, NEW o, NEW m, NEW b,
         NEW p \in Nat, NEW lo \in {0, 1}, NEW lm \in {0, 1}, NEW q \in Nat,
         Joined(f, a, o, b, p, lo, q), Joined(t, a, m, b, p, lm, q)
  PROVE  \E k \in Nat : ChangedAt(t, f, Len(t) - Len(f), k)
<1>3. /\ Len(f) = p + lo + q /\ Len(t) = p + lm + q
      /\ \A i \in 1 .. p : t[i] = f[i]
      /\ \A i \in 1 .. q : f[p + lo + i] = b[i]
      /\ \A i \in 1 .. q : t[p + lm + i] = b[i]
  BY DEF Joined
<1>4. lo \in {0, 1} /\ lm \in {0, 1}
  OBVIOUS
<1> DEFINE I == {k \in Nat : /\ p <= k
                             /\ \/ k >= p + lm + q \/ k >= p + lo + q
                                \/ t[k + 1] # f[k + 1]}
           d == lm - lo
<1>5. PICK k \in I : \A j \in I : k <= j
  <2>1. p + lm + q \in I
    OBVIOUS
  <2>2. I \subseteq Nat /\ I # {}
    BY <2>1
  <2> HIDE DEF I
  <2> QED
    BY <2>2, Search!LeastNat
<1>6. k \in Nat /\ p <= k /\ k <= p + lm + q /\ k <= p + lo + q
  <2>1. p + lm + q \in I
    OBVIOUS
  <2>2. p + lo + q \in I
    OBVIOUS
  <2> QED
    BY <1>5, <2>1, <2>2
<1>7. ASSUME NEW i \in 1 .. k PROVE t[i] = f[i]
  <2>1. CASE i <= p
    BY <1>3, <2>1
  <2>2. CASE i > p
    <3>1. i - 1 \in Nat /\ i - 1 >= p /\ ~(k <= i - 1) /\ (i - 1) + 1 = i
      BY <1>6, <2>2
    <3>2. i - 1 \notin I
      BY <1>5, <3>1
    <3>3. t[(i - 1) + 1] = f[(i - 1) + 1]
      BY <3>1, <3>2
    <3> QED
      BY <3>1, <3>3
  <2> QED
    BY <1>6, <2>1, <2>2
<1>8. k < p + lm + q /\ k < p + lo + q => t[k + 1] # f[k + 1]
  BY <1>5, <1>6
<1>9. ASSUME NEW i \in Behind(d, k) + 1 .. p + lm + q PROVE t[i] = f[i - d]
  <2>1. i > p + lm /\ i \in Int /\ i <= p + lm + q
    <3>1. CASE d = -1
      BY <1>4, <1>6, <3>1 DEF Behind
    <3>2. CASE d # -1
      BY <1>4, <1>6, <3>2 DEF Behind
    <3> QED
      BY <3>1, <3>2
  <2>2. PICK h \in 1 .. q : i = p + lm + h
    <3>1. i - (p + lm) \in 1 .. q /\ i = p + lm + (i - (p + lm))
      BY <2>1
    <3> QED
      BY <3>1
  <2>3. i - d = p + lo + h
    BY <1>4, <2>2
  <2>4. t[p + lm + h] = b[h] /\ f[p + lo + h] = b[h]
    BY <1>3
  <2> QED
    BY <2>2, <2>3, <2>4
<1>10. d \in {-1, 0, 1} /\ Len(t) = Len(f) + d /\ Len(t) - Len(f) = d
  BY <1>3, <1>4
<1> HIDE DEF d, I
<1>11. ChangedAt(t, f, d, k)
  BY <1>3, <1>6, <1>7, <1>8, <1>9, <1>10 DEF ChangedAt
<1> QED
  BY <1>6, <1>10, <1>11

\* The same, of concatenations.
LEMMA PiecesChange ==
  ASSUME NEW a \in Seq(Char), NEW o \in Seq(Char), NEW m \in Seq(Char),
         NEW b \in Seq(Char), Len(o) <= 1, Len(m) <= 1,
         NEW f, f = a \o (o \o b), NEW t, t = a \o (m \o b)
  PROVE  \E k \in Nat : ChangedAt(t, f, Len(t) - Len(f), k)
<1>1. PICK p \in Nat, lo \in Nat, lm \in Nat, q \in Nat :
        Len(a) = p /\ Len(o) = lo /\ Len(m) = lm /\ Len(b) = q
  BY LenProperties
<1>2. Joined(f, a, o, b, p, lo, q) /\ Joined(t, a, m, b, p, lm, q)
  BY ONLY <1>1, ThreePieces, a \in Seq(Char), o \in Seq(Char), m \in Seq(Char),
     b \in Seq(Char), f = a \o (o \o b), t = a \o (m \o b), Zenon
<1>3. lo \in {0, 1} /\ lm \in {0, 1}
  BY <1>1
<1> QED
  BY ONLY <1>2, <1>3, p \in Nat, q \in Nat, JoinedChange, Zenon

\* Of one character remove_if leaves one at most.
LEMMA StripOne ==
  ASSUME NEW x \in Seq(Char), Len(x) <= 1
  PROVE  Strip(x) \in Seq(Char) /\ Len(Strip(x)) <= 1
<1>1. /\ Len(x) \in Nat /\ Kept(x)[0] = <<>>
      /\ \A n \in 1 .. Len(x) : KeptStep(x, n)
  BY KeptSteps, LenProperties
<1>2. Strip(x) \in Seq(Char)
  BY StripType
<1>3. CASE Len(x) = 0
  <2>1. Strip(x) = <<>>
    BY <1>1, <1>3 DEF Strip
  <2>2. Len(<<>>) <= 1
    OBVIOUS
  <2> QED
    BY ONLY <1>2, <2>1, <2>2, Zenon
<1>4. CASE Len(x) = 1
  <2>1. KeptStep(x, 1) /\ 1 - 1 = 0
    BY <1>1, <1>4
  <2>2. Strip(x) = IF x[1] = Space THEN <<>> ELSE Append(<<>>, x[1])
    BY <1>1, <1>4, <2>1 DEF KeptStep, Strip
  <2>3. Len(<<>>) <= 1 /\ Len(Append(<<>>, x[1])) <= 1
    OBVIOUS
  <2> QED
    BY ONLY <1>2, <2>2, <2>3, Zenon
<1>5. Len(x) = 0 \/ Len(x) = 1
  <2>1. PICK n \in Nat : Len(x) = n
    BY <1>1
  <2>2. n <= 1
    BY <2>1
  <2>3. n = 0 \/ n = 1
    BY ONLY <2>2, n \in Nat
  <2> QED
    BY ONLY <2>1, <2>3, Zenon
<1> QED
  BY ONLY <1>3, <1>4, <1>5, Zenon

\* It works on each of the pieces.
LEMMA StripThree ==
  ASSUME NEW a \in Seq(Char), NEW x \in Seq(Char), NEW b \in Seq(Char)
  PROVE  Strip(a \o (x \o b)) = Strip(a) \o (Strip(x) \o Strip(b))
<1>1. x \o b \in Seq(Char) /\ Strip(x \o b) = Strip(x) \o Strip(b)
  BY StripConcat, ConcatProperties
<1> QED
  BY <1>1, StripConcat

\* Without its spaces the changed file is the clean one, changed at one place.
LEMMA EditedFile ==
  ASSUME db \in Database, NEW u, u \in Edited(Render(db))
  PROVE  /\ Strip(u) \in Seq(Char)
         /\ \E k \in Nat : ChangedAt(Strip(u), File, Len(Strip(u)) - Len(File), k)
<1>1. Render(db) \in Seq(Char) /\ Strip(Render(db)) = File
  BY CleanFile
<1>2. PICK a \in Seq(Char), o \in Seq(Char), m \in Seq(Char), b \in Seq(Char) :
        /\ Render(db) = a \o (o \o b) /\ u = a \o (m \o b)
        /\ Len(o) <= 1 /\ Len(m) <= 1
  <2> DEFINE t == Render(db)
  <2>1. t \in Seq(Char) /\ u \in Edited(t)
    BY <1>1
  <2> HIDE DEF t
  <2>2. PieceEdited(t, u)
    BY ONLY <2>1, EditedPieces, Zenon
  <2> QED
    BY <2>2 DEF t, PieceEdited
<1>3. Strip(a) \in Seq(Char) /\ Strip(b) \in Seq(Char)
  BY StripType
<1>4. File = Strip(a) \o (Strip(o) \o Strip(b))
  <2>1. Strip(Render(db)) = Strip(a \o (o \o b))
    BY ONLY <1>2, Zenon
  <2>2. Strip(a \o (o \o b)) = Strip(a) \o (Strip(o) \o Strip(b))
    BY ONLY StripThree, a \in Seq(Char), b \in Seq(Char), o \in Seq(Char), Zenon
  <2> QED
    BY ONLY <1>1, <2>1, <2>2, Zenon
<1>5. Strip(u) = Strip(a) \o (Strip(m) \o Strip(b))
  BY ONLY <1>2, StripThree, a \in Seq(Char), b \in Seq(Char), m \in Seq(Char), Zenon
<1>6. /\ Strip(o) \in Seq(Char) /\ Len(Strip(o)) <= 1
      /\ Strip(m) \in Seq(Char) /\ Len(Strip(m)) <= 1
  BY <1>2, StripOne
<1>7. Strip(u) \in Seq(Char)
  <2>1. u \in Seq(Char)
    BY <1>1, DamagedType
  <2> QED
    BY <2>1, StripType
<1> QED
  BY ONLY <1>3, <1>4, <1>5, <1>6, <1>7, PiecesChange, Zenon

\* m elements of t behind place c are those of f behind place p.
Same(t, c, f, p, m) == /\ c + m <= Len(t)
                       /\ \A i \in 1 .. m : t[c + i] = f[p + i]

\* What the text has in common with the file keeps the two in step.
LEMMA AlignedNext ==
  ASSUME NEW t, NEW f, NEW n \in Nat, NEW d, NEW a, Len(f) = n,
         ChangedAt(t, f, d, a),
         NEW c \in Nat, NEW p \in Nat, NEW j, NEW m \in Nat,
         Aligned(d, a, c, p, j), p + m <= n, Same(t, c, f, p, m)
  PROVE  Aligned(d, a, c + m, p + m, j)
<1>0. c + m <= Len(t) /\ \A i \in 1 .. m : t[c + i] = f[p + i]
  BY DEF Same
<1>1. /\ d \in {-1, 0, 1} /\ Len(t) = n + d /\ a \in Nat /\ a <= Len(t) /\ a <= n
      /\ a < Len(t) /\ a < n => t[a + 1] # f[a + 1]
  BY DEF ChangedAt
<1>2. CASE j = 0
  <2>1. c = p /\ c <= a
    BY <1>2 DEF Aligned
  <2>2. c + m <= a
    <3>1. SUFFICES ASSUME c + m > a PROVE FALSE
      BY <1>1
    <3>2. a + 1 - c \in 1 .. m /\ c + (a + 1 - c) = a + 1 /\ p + (a + 1 - c) = a + 1
      BY <1>1, <2>1, <3>1
    <3>3. t[a + 1] = f[a + 1]
      BY <1>0, <3>2
    <3>4. a < Len(t) /\ a < n
      BY <1>0, <1>1, <2>1, <3>1
    <3> QED
      BY <1>1, <3>3, <3>4
  <2> QED
    BY <1>2, <2>1, <2>2 DEF Aligned
<1>3. CASE j # 0
  <2>1. c = p + d /\ c >= Behind(d, a)
    BY <1>3 DEF Aligned
  <2>2. Behind(d, a) \in Nat
    BY <1>1 DEF Behind
  <2>3. c + m = (p + m) + d /\ c + m >= Behind(d, a)
    BY <1>1, <2>1, <2>2
  <2> QED
    BY <1>3, <2>3 DEF Aligned
<1> QED
  BY <1>2, <1>3

\* In step the text has behind its place what the file has.
LEMMA AlignedSame ==
  ASSUME NEW t, NEW f, NEW n \in Nat, NEW d, NEW a, Len(f) = n,
         ChangedAt(t, f, d, a),
         NEW c \in Nat, NEW p \in Nat, NEW j, NEW m \in Nat,
         Aligned(d, a, c, p, j), p + m <= n, j = 0 => c + m <= a
  PROVE  Same(t, c, f, p, m)
<1>1. /\ d \in {-1, 0, 1} /\ Len(t) = n + d /\ a \in Nat /\ a <= Len(t) /\ a <= n
      /\ \A i \in 1 .. a : t[i] = f[i]
      /\ \A i \in Behind(d, a) + 1 .. Len(t) : t[i] = f[i - d]
  BY DEF ChangedAt
<1>2. CASE j = 0
  <2>1. c = p /\ c + m <= a
    BY <1>2 DEF Aligned
  <2>2. \A i \in 1 .. m : c + i \in 1 .. a
    BY <1>1, <2>1
  <2>3. c + m <= Len(t)
    BY <1>1, <2>1
  <2> QED
    BY <1>1, <2>1, <2>2, <2>3 DEF Same
<1>3. CASE j # 0
  <2>1. c = p + d /\ c >= Behind(d, a)
    BY <1>3 DEF Aligned
  <2>2. Behind(d, a) \in Nat
    BY <1>1 DEF Behind
  <2>3. c + m <= Len(t)
    BY <1>1, <2>1
  <2>4. ASSUME NEW i \in 1 .. m PROVE t[c + i] = f[p + i]
    <3>1. c + i \in Behind(d, a) + 1 .. Len(t) /\ (c + i) - d = p + i
      BY <1>1, <2>1, <2>2, <2>3
    <3> QED
      BY <1>1, <3>1
  <2> QED
    BY <2>3, <2>4 DEF Same
<1> QED
  BY <1>2, <1>3

\* A scan stops where the piece it is in ends.
LEMMA ScanEnd ==
  ASSUME NEW t, NEW D, NEW n \in Nat, Len(t) = n,
         NEW s \in Nat, NEW m \in Nat, NEW e \in Nat,
         Ends(t, D, s, m), Stops(t, D, s, e)
  PROVE  e = s + m
<1>1. /\ s + m < n
      /\ \A i \in s + 1 .. s + m : t[i] \notin D
      /\ t[s + m + 1] \in D
  BY DEF Ends
<1>2. /\ s <= e /\ e <= n
      /\ \A i \in s + 1 .. e : t[i] \notin D
      /\ e = n \/ t[e + 1] \in D
  BY DEF Stops
<1>3. ~(e < s + m)
  <2>1. SUFFICES ASSUME e < s + m PROVE FALSE
    OBVIOUS
  <2>2. e + 1 \in s + 1 .. s + m /\ e # n
    BY <1>1, <1>2, <2>1
  <2> QED
    BY <1>1, <1>2, <2>2
<1>4. ~(e > s + m)
  <2>1. SUFFICES ASSUME e > s + m PROVE FALSE
    OBVIOUS
  <2>2. s + m + 1 \in s + 1 .. e
    BY <2>1
  <2> QED
    BY <1>1, <1>2, <2>2
<1> QED
  BY <1>3, <1>4

\* Where a scan ends that the change is in the way of.
LEMMA ScanChanged ==
  ASSUME NEW t, NEW f, NEW D, NEW n \in Nat, NEW d, NEW a, Len(f) = n,
         ChangedAt(t, f, d, a),
         NEW s \in Nat, NEW m \in Nat, NEW e \in Nat,
         s <= a, a <= s + m, Ends(f, D, s, m), Stops(t, D, s, e)
  PROVE  \/ e = s + m + d /\ e >= Behind(d, a)
         \/ Split(t, f, D, d, a, s, m, e)
         \/ Joins(t, f, D, d, a, s, m, e)
<1>1. /\ d \in {-1, 0, 1} /\ Len(t) = n + d /\ a \in Nat /\ a <= Len(t) /\ a <= n
      /\ \A i \in 1 .. a : t[i] = f[i]
      /\ a < Len(t) /\ a < n => t[a + 1] # f[a + 1]
      /\ \A i \in Behind(d, a) + 1 .. Len(t) : t[i] = f[i - d]
  BY DEF ChangedAt
<1>2. /\ s + m < n
      /\ \A i \in s + 1 .. s + m : f[i] \notin D
      /\ f[s + m + 1] \in D
  BY DEF Ends
<1>3. /\ s <= e /\ e <= Len(t)
      /\ \A i \in s + 1 .. e : t[i] \notin D
      /\ e = Len(t) \/ t[e + 1] \in D
  BY DEF Stops
<1>4. e >= a
  <2>1. SUFFICES ASSUME e < a PROVE FALSE
    BY <1>1
  <2>2. e + 1 \in 1 .. a /\ e + 1 \in s + 1 .. s + m /\ e # Len(t)
    BY <1>1, <1>3, <2>1
  <2>3. t[e + 1] = f[e + 1]
    BY <1>1, <2>2
  <2> QED
    BY <1>2, <1>3, <2>2, <2>3
<1>5. CASE d = -1 /\ a < s + m
  <2>1. Behind(d, a) = a
    BY <1>5 DEF Behind
  <2>2. \A i \in a + 1 .. n - 1 : t[i] = f[i + 1]
    <3>1. ASSUME NEW i \in a + 1 .. n - 1 PROVE t[i] = f[i + 1]
      <4>1. i \in Behind(d, a) + 1 .. Len(t) /\ i - d = i + 1
        BY <1>1, <1>5, <2>1
      <4> QED
        BY <1>1, <4>1
    <3> QED
      BY <3>1
  <2>3. t[s + m] \in D
    <3>1. s + m \in a + 1 .. n - 1
      BY <1>1, <1>2, <1>5
    <3> QED
      BY <1>2, <2>2, <3>1
  <2>4. e <= s + m - 1
    <3>1. SUFFICES ASSUME e > s + m - 1 PROVE FALSE
      OBVIOUS
    <3>2. s + m \in s + 1 .. e
      BY <1>1, <1>5, <3>1
    <3> QED
      BY <1>3, <2>3, <3>2
  <2>5. e >= s + m - 1
    <3>1. SUFFICES ASSUME e < s + m - 1 PROVE FALSE
      OBVIOUS
    <3>2. e + 1 \in a + 1 .. n - 1 /\ (e + 1) + 1 \in s + 1 .. s + m /\ e # Len(t)
      BY <1>1, <1>2, <1>4, <1>5, <3>1
    <3>3. t[e + 1] = f[(e + 1) + 1]
      BY <2>2, <3>2
    <3> QED
      BY <1>2, <1>3, <3>2, <3>3
  <2>6. e = s + m + d /\ e >= Behind(d, a)
    BY <1>4, <1>5, <2>1, <2>4, <2>5
  <2> QED
    BY <2>6
<1>6. CASE d # -1 /\ e = a
  <2>1. a < n /\ a < Len(t) /\ d >= 0
    BY <1>1, <1>2, <1>6
  <2>2. t[a + 1] \in D /\ t[a + 1] # f[a + 1]
    BY <1>1, <1>3, <1>6, <2>1
  <2> QED
    BY <1>6, <2>1, <2>2 DEF Split
<1>7. CASE d # -1 /\ e > a /\ a < s + m
  <2>1. Behind(d, a) = a + 1
    BY <1>7 DEF Behind
  <2>2. ASSUME NEW i \in a + 2 .. Len(t) PROVE t[i] = f[i - d]
    <3>1. i \in Behind(d, a) + 1 .. Len(t)
      BY <1>1, <2>1
    <3> QED
      BY <1>1, <3>1
  <2>3. e <= s + m + d
    <3>1. SUFFICES ASSUME e > s + m + d PROVE FALSE
      BY <1>1
    <3>2. /\ s + m + d + 1 \in s + 1 .. e /\ s + m + d + 1 \in a + 2 .. Len(t)
          /\ (s + m + d + 1) - d = s + m + 1
      BY <1>1, <1>2, <1>3, <1>7, <3>1
    <3>3. t[s + m + d + 1] = f[s + m + 1]
      BY <2>2, <3>2
    <3> QED
      BY <1>2, <1>3, <3>2, <3>3
  <2>4. e >= s + m + d
    <3>1. SUFFICES ASSUME e < s + m + d PROVE FALSE
      BY <1>1
    <3>2. /\ e + 1 \in a + 2 .. Len(t) /\ (e + 1) - d \in s + 1 .. s + m
          /\ e # Len(t)
      BY <1>1, <1>2, <1>3, <1>7, <3>1
    <3>3. t[e + 1] = f[(e + 1) - d]
      BY <2>2, <3>2
    <3> QED
      BY <1>2, <1>3, <3>2, <3>3
  <2> QED
    BY <1>1, <1>7, <2>1, <2>3, <2>4
<1>8. CASE d = 1 /\ e > a /\ a = s + m
  <2>1. Behind(d, a) = a + 1
    BY <1>8 DEF Behind
  <2>2. a + 2 <= Len(t) /\ (a + 2) - d = s + m + 1
    BY <1>1, <1>2, <1>8
  <2>3. t[a + 2] \in D
    <3>1. a + 2 \in Behind(d, a) + 1 .. Len(t)
      BY <1>1, <2>1, <2>2
    <3> QED
      BY <1>1, <1>2, <2>2, <3>1
  <2>4. ~(e > a + 1)
    <3>1. SUFFICES ASSUME e > a + 1 PROVE FALSE
      OBVIOUS
    <3>2. a + 2 \in s + 1 .. e
      BY <1>1, <1>8, <3>1
    <3> QED
      BY <1>3, <2>3, <3>2
  <2> QED
    BY <1>1, <1>8, <2>1, <2>4
<1>9. CASE a = s + m /\ (d = -1 \/ (d = 0 /\ e > a))
  <2>1. d <= 0 /\ e >= Behind(d, a) /\ Behind(d, a) \in Nat
        /\ Behind(d, a) - d = s + m + 1
    BY <1>1, <1>4, <1>9 DEF Behind
  <2>2. ASSUME NEW i \in s + m + 2 .. e - d PROVE f[i] \notin D
    <3>1. /\ i + d \in Behind(d, a) + 1 .. Len(t) /\ (i + d) - d = i
          /\ i + d \in s + 1 .. e
      <4>1. i + d \in Int /\ i + d <= e /\ i + d > Behind(d, a)
        BY <1>1, <2>1
      <4>2. Behind(d, a) >= s
        BY <1>1, <1>9 DEF Behind
      <4> QED
        BY <1>1, <1>3, <2>1, <4>1, <4>2
    <3>2. t[i + d] = f[i]
      BY <1>1, <3>1
    <3> QED
      BY <1>3, <3>1, <3>2
  <2>3. ASSUME e # Len(t) PROVE t[e + 1] = f[e + 1 - d]
    <3>1. e + 1 \in Behind(d, a) + 1 .. Len(t)
      BY <1>1, <1>3, <2>1, <2>3
    <3>2. \A i \in Behind(d, a) + 1 .. Len(t) : t[i] = f[i - d]
      BY <1>1
    <3>3. (e + 1) - d = e + 1 - d
      BY <1>1
    <3> QED
      BY ONLY <3>1, <3>2, <3>3, Zenon
  <2>4. e = Len(t) \/ (t[e + 1] = f[e + 1 - d] /\ t[e + 1] \in D)
    BY ONLY <1>3, <2>3, Zenon
  <2> QED
    BY <1>9, <2>1, <2>2, <2>4 DEF Joins
<1>10. \/ d = -1 /\ a < s + m
       \/ d # -1 /\ e = a
       \/ d # -1 /\ e > a /\ a < s + m
       \/ d = 1 /\ e > a /\ a = s + m
       \/ a = s + m /\ (d = -1 \/ (d = 0 /\ e > a))
  <2>1. a \in Nat /\ e \in Nat /\ s \in Nat /\ m \in Nat /\ a <= s + m
        /\ d \in {-1, 0, 1}
    BY <1>1
  <2> QED
    BY ONLY <1>4, <2>1
<1> QED
  BY ONLY <1>5, <1>6, <1>7, <1>8, <1>9, <1>10, Zenon

\* A scan that began in step with the file ends in step with it, having read the
\* same, or else the change was in what it read.
SameScan(t, f, d, a, c, s, j, m, e) ==
  /\ e = c + m /\ e < Len(t)
  /\ Aligned(d, a, e, s + m, j) /\ Aligned(d, a, e + 1, s + m + 1, j)
  /\ \A i \in 1 .. m : t[c + i] = f[s + i]
OtherScan(d, a, s, m, e) == e = s + m + d /\ e >= Behind(d, a)

\* The three ways a scan that begins in step can end.
LEMMA ScanAligned ==
  ASSUME NEW t, NEW f, NEW D, NEW n \in Nat, NEW d, NEW a, Len(f) = n,
         ChangedAt(t, f, d, a),
         NEW c \in Nat, NEW s \in Nat, NEW j, NEW m \in Nat, NEW e \in Nat,
         Aligned(d, a, c, s, j), Ends(f, D, s, m), Stops(t, D, c, e)
  PROVE  \/ SameScan(t, f, d, a, c, s, j, m, e)
         \/ /\ j = 0 /\ c = s /\ s <= a /\ a <= s + m
            /\ \/ OtherScan(d, a, s, m, e)
               \/ Split(t, f, D, d, a, s, m, e)
               \/ Joins(t, f, D, d, a, s, m, e)
<1>1. /\ s + m < n
      /\ \A i \in s + 1 .. s + m : f[i] \notin D
      /\ f[s + m + 1] \in D
  BY DEF Ends
<1>2. a \in Nat /\ Len(t) \in Nat
  <2>1. d \in {-1, 0, 1} /\ Len(t) = n + d /\ a \in Nat
    BY DEF ChangedAt
  <2> QED
    BY <1>1, <2>1
<1>3. CASE j = 0 => c + (m + 1) <= a
  <2>1. m + 1 \in Nat /\ s + (m + 1) <= n
    BY <1>1
  <2>11. Same(t, c, f, s, m + 1)
    BY ONLY n \in Nat, Len(f) = n, ChangedAt(t, f, d, a), c \in Nat, s \in Nat,
       Aligned(d, a, c, s, j), <1>3, <2>1, AlignedSame, Zenon
  <2>2. /\ c + (m + 1) <= Len(t)
        /\ \A i \in 1 .. m + 1 : t[c + i] = f[s + i]
    BY <2>11 DEF Same
  <2>3. PICK w \in Nat : Len(t) = w
    BY <1>2
  <2>4. ASSUME NEW i \in 1 .. m PROVE t[c + i] = f[s + i]
    <3>1. i \in 1 .. m + 1
      OBVIOUS
    <3> QED
      BY ONLY <2>2, <3>1, Zenon
  <2>5. Ends(t, D, c, m)
    <3>1. c + m < Len(t)
      BY <2>2, <2>3
    <3>2. ASSUME NEW i \in c + 1 .. c + m PROVE t[i] \notin D
      <4>1. i - c \in 1 .. m /\ c + (i - c) = i /\ s + (i - c) \in s + 1 .. s + m
        OBVIOUS
      <4>2. t[i] = f[s + (i - c)]
        BY <2>4, <4>1
      <4> QED
        BY <1>1, <4>1, <4>2
    <3>3. t[c + m + 1] \in D
      <4>1. m + 1 \in 1 .. m + 1 /\ c + (m + 1) = c + m + 1 /\ s + (m + 1) = s + m + 1
        OBVIOUS
      <4> QED
        BY <1>1, <2>2, <4>1
    <3> QED
      BY <3>1, <3>2, <3>3 DEF Ends
  <2>6. e = c + m /\ e < Len(t)
    <3>1. e = c + m
      BY <2>3, <2>5, ScanEnd
    <3> QED
      BY <2>2, <2>3, <3>1
  <2>7. Aligned(d, a, c + m, s + m, j)
    <3>1. s + m <= n /\ c + m <= Len(t)
      BY <1>1, <2>2, <2>3
    <3>2. Same(t, c, f, s, m)
      BY <2>4, <3>1 DEF Same
    <3> QED
      BY ONLY n \in Nat, Len(f) = n, ChangedAt(t, f, d, a), c \in Nat, s \in Nat,
         m \in Nat, Aligned(d, a, c, s, j), <3>1, <3>2, AlignedNext, Zenon
  <2>8. Aligned(d, a, c + (m + 1), s + (m + 1), j)
    BY ONLY n \in Nat, Len(f) = n, ChangedAt(t, f, d, a), c \in Nat, s \in Nat,
       Aligned(d, a, c, s, j), <2>1, <2>11, AlignedNext, Zenon
  <2>9. c + (m + 1) = e + 1 /\ s + (m + 1) = s + m + 1
    BY <2>6
  <2>10. SameScan(t, f, d, a, c, s, j, m, e)
    BY ONLY <2>4, <2>6, <2>7, <2>8, <2>9, Zenon DEF SameScan
  <2> QED
    BY <2>10
<1>4. CASE j = 0 /\ c + (m + 1) > a
  <2>1. c = s /\ s <= a /\ a <= s + m
    BY <1>2, <1>4 DEF Aligned
  <2>2. Stops(t, D, s, e)
    BY <2>1
  <2>3. \/ e = s + m + d /\ e >= Behind(d, a)
        \/ Split(t, f, D, d, a, s, m, e)
        \/ Joins(t, f, D, d, a, s, m, e)
    BY <2>1, <2>2, ScanChanged
  <2> QED
    BY <1>4, <2>1, <2>3 DEF OtherScan
<1> QED
  BY <1>2, <1>3, <1>4

\* More characters that differ.
LEMMA Distinct2 ==
  /\ Comma # Shut /\ Shut # Comma /\ Quote # Shut /\ Comma # Quote /\ Shut # Quote
  /\ Quote \notin {Comma, Shut} /\ ":" \notin {Comma, Shut}
  /\ "longitude" \notin {Comma, Shut}
  /\ "]" # Comma /\ "]" # Quote /\ "]" # Shut /\ "location" # Shut
  /\ "location" # Quote /\ Open # Quote
  BY Zenon DEF Comma, Quote, Open, Shut

\* A latitude whose end was changed is followed by no comma, or by one that
\* another comma follows where the longitude should be.
LEMMA LatitudeEnd ==
  ASSUME NEW t, NEW f, NEW n \in Nat, NEW d, NEW a, Len(f) = n,
         ChangedAt(t, f, d, a),
         NEW s \in Nat, NEW m \in Nat, NEW e \in Nat, s <= a, a <= s + m,
         Ends(f, {Comma, Shut}, s, m), f[s + m + 1] = Comma,
         NEW q \in Nat, s + m + 1 < q, q <= n, f[q] = Shut,
         \A i \in s + m + 2 .. q - 1 : f[i] \notin {Comma, Shut},
         \/ Split(t, f, {Comma, Shut}, d, a, s, m, e)
         \/ Joins(t, f, {Comma, Shut}, d, a, s, m, e),
         e < Len(t), t[e + 1] = Comma
  PROVE  CommaAt(t, e + 1)
<1> DEFINE D == {Comma, Shut}
<1>1. /\ d \in {-1, 0, 1} /\ Len(t) = n + d /\ a \in Nat /\ a <= Len(t) /\ a <= n
      /\ \A i \in Behind(d, a) + 1 .. Len(t) : t[i] = f[i - d]
  BY DEF ChangedAt
<1>2. /\ s + m < n
      /\ \A i \in s + 1 .. s + m : f[i] \notin D
  BY DEF Ends
<1>3. CASE Split(t, f, D, d, a, s, m, e)
  <2>1. e = a /\ d >= 0 /\ a < Len(t) /\ t[a + 1] # f[a + 1]
    BY <1>3 DEF Split
  <2>2. a # s + m
    BY <2>1
  <2>3. Behind(d, a) = a + 1
    BY <1>1, <2>1 DEF Behind
  <2>4. /\ s + m + 1 + d \in (e + 1) + 1 .. Len(t)
        /\ s + m + 1 + d \in Behind(d, a) + 1 .. Len(t)
        /\ (s + m + 1 + d) - d = s + m + 1
    BY <1>1, <1>2, <2>1, <2>2, <2>3
  <2>5. t[s + m + 1 + d] = Comma
    BY <1>1, <2>4
  <2>6. ASSUME NEW i \in (e + 1) + 1 .. (s + m + 1 + d) - 1 PROVE t[i] \notin D
    <3>1. i \in Behind(d, a) + 1 .. Len(t) /\ i - d \in s + 1 .. s + m
      BY <1>1, <1>2, <2>1, <2>3
    <3>2. t[i] = f[i - d]
      BY <1>1, <3>1
    <3> QED
      BY <1>2, <3>1, <3>2
  <2> HIDE DEF D
  <2>7. PICK y \in (e + 1) + 1 .. Len(t) : y = s + m + 1 + d
    BY <2>4
  <2>8. t[y] = Comma /\ \A i \in (e + 1) + 1 .. y - 1 : t[i] \notin D
    BY ONLY <2>5, <2>6, <2>7, Zenon
  <2> QED
    BY ONLY <2>7, <2>8, Zenon DEF CommaAt, D
<1>4. CASE Joins(t, f, D, d, a, s, m, e)
  <2>1. /\ a = s + m /\ d <= 0 /\ e >= Behind(d, a)
        /\ \A i \in s + m + 2 .. e - d : f[i] \notin D
        /\ t[e + 1] = f[e + 1 - d] /\ t[e + 1] \in D
    BY <1>4 DEF Joins
  <2>2. e + 1 - d >= s + m + 2
    <3>1. a = s + m /\ d <= 0 /\ e >= (IF d = -1 THEN a ELSE a + 1) /\ d \in {-1, 0, 1}
      BY <1>1, <2>1 DEF Behind
    <3> QED
      BY ONLY <3>1, s \in Nat, m \in Nat, e \in Nat
  <2>3. ~(e - d >= q)
    <3>1. SUFFICES ASSUME e - d >= q PROVE FALSE
      OBVIOUS
    <3>2. q \in s + m + 2 .. e - d
      BY <1>1, <3>1
    <3> QED
      BY <2>1, <3>2
  <2>4. ~(e + 1 - d < q)
    <3>1. SUFFICES ASSUME e + 1 - d < q PROVE FALSE
      OBVIOUS
    <3>2. e + 1 - d \in s + m + 2 .. q - 1
      <4>1. d \in {-1, 0, 1}
        BY <1>1
      <4> QED
        BY ONLY <2>2, <3>1, <4>1, e \in Nat, q \in Nat, s \in Nat, m \in Nat
    <3> QED
      BY <2>1, <3>2
  <2>5. e + 1 - d = q
    BY <1>1, <2>3, <2>4
  <2>6. Comma = Shut
    BY <2>1, <2>5
  <2> QED
    BY <2>6, Distinct2
<1> QED
  BY <1>3, <1>4

\* A longitude whose end was changed is not followed by brace and comma.
LEMMA LongitudeEnd ==
  ASSUME NEW t, NEW f, NEW n \in Nat, NEW d, NEW a, Len(f) = n,
         ChangedAt(t, f, d, a),
         NEW s \in Nat, NEW m \in Nat, NEW e \in Nat, s <= a, a <= s + m,
         Ends(f, {Comma, Shut}, s, m), f[s + m + 1] = Shut,
         s + m + 2 <= n, f[s + m + 2] = Comma,
         \/ Split(t, f, {Comma, Shut}, d, a, s, m, e)
         \/ Joins(t, f, {Comma, Shut}, d, a, s, m, e),
         e + 2 <= Len(t), t[e + 1] = Shut, t[e + 2] = Comma
  PROVE  FALSE
<1> DEFINE D == {Comma, Shut}
<1>1. /\ d \in {-1, 0, 1} /\ Len(t) = n + d /\ a \in Nat /\ a <= Len(t) /\ a <= n
      /\ \A i \in Behind(d, a) + 1 .. Len(t) : t[i] = f[i - d]
  BY DEF ChangedAt
<1>2. /\ s + m < n
      /\ \A i \in s + 1 .. s + m : f[i] \notin D
  BY DEF Ends
<1>3. CASE Split(t, f, D, d, a, s, m, e)
  <2>1. e = a /\ d >= 0 /\ a < Len(t) /\ t[a + 1] # f[a + 1]
    BY <1>3 DEF Split
  <2>2. a < s + m
    BY <1>1, <2>1
  <2>3. Behind(d, a) = a + 1
    BY <1>1, <2>1 DEF Behind
  <2>4. t[a + 2] = f[a + 2 - d] /\ t[a + 2] = Comma
    <3>1. a + 2 \in Behind(d, a) + 1 .. Len(t)
      BY <1>1, <2>1, <2>3
    <3> QED
      BY <1>1, <2>1, <3>1
  <2>5. a + 2 - d \in s + 1 .. s + m \/ a + 2 - d = s + m + 1
    BY <1>1, <2>1, <2>2
  <2>6. CASE a + 2 - d \in s + 1 .. s + m
    BY <1>2, <2>4, <2>6
  <2>7. CASE a + 2 - d = s + m + 1
    <3>1. Comma = Shut
      BY <2>4, <2>7
    <3> QED
      BY <3>1, Distinct2
  <2> QED
    BY <2>5, <2>6, <2>7
<1>4. CASE Joins(t, f, D, d, a, s, m, e)
  <2>1. /\ a = s + m /\ d <= 0 /\ e >= Behind(d, a)
        /\ \A i \in s + m + 2 .. e - d : f[i] \notin D
        /\ t[e + 1] = f[e + 1 - d]
    BY <1>1, <1>4 DEF Joins
  <2>2. e + 1 - d >= s + m + 2
    BY <1>1, <2>1 DEF Behind
  <2>3. ~(e - d >= s + m + 2)
    <3>1. SUFFICES ASSUME e - d >= s + m + 2 PROVE FALSE
      OBVIOUS
    <3>2. s + m + 2 \in s + m + 2 .. e - d
      BY <1>1, <3>1
    <3> QED
      BY <2>1, <3>2
  <2>4. e + 1 - d = s + m + 2
    BY <1>1, <2>2, <2>3
  <2>5. Comma = Shut
    BY <2>1, <2>4
  <2> QED
    BY <2>5, Distinct2
<1> QED
  BY <1>3, <1>4

\* A name cut in two by a quote is followed by no brace and comma, or no other
\* feature follows them, though the text goes on.
LEMMA NameSplit ==
  ASSUME NEW t, NEW f, NEW n \in Nat, NEW d, NEW a, Len(f) = n,
         ChangedAt(t, f, d, a),
         NEW s \in Nat, NEW m \in Nat, NEW e \in Nat, s <= a, a <= s + m,
         Ends(f, {Quote}, s, m), f[s + m + 2] = Shut, s + m + 3 <= n,
         Split(t, f, {Quote}, d, a, s, m, e)
  PROVE  /\ e + 3 < Len(t)
         /\ t[e + 2] = Shut /\ t[e + 3] = Comma => ~KeyAt(t, e + 4)
<1>1. /\ d \in {-1, 0, 1} /\ Len(t) = n + d /\ a \in Nat /\ a <= Len(t) /\ a <= n
      /\ \A i \in Behind(d, a) + 1 .. Len(t) : t[i] = f[i - d]
  BY DEF ChangedAt
<1>2. /\ \A i \in s + 1 .. s + m : f[i] # Quote
      /\ f[s + m + 1] = Quote
  BY DEF Ends
<1>3. e = a /\ d >= 0 /\ a < Len(t) /\ t[a + 1] = Quote /\ t[a + 1] # f[a + 1]
  BY DEF Split
<1>4. a < s + m
  BY <1>1, <1>2, <1>3
<1>5. Behind(d, a) = a + 1
  BY <1>1, <1>3 DEF Behind
<1>6. e + 3 < Len(t)
  BY <1>1, <1>3, <1>4
<1>7. ASSUME t[e + 3] = Comma, KeyAt(t, e + 4) PROVE FALSE
  <2>1. e + 6 <= Len(t) /\ t[e + 5] = Quote /\ t[e + 6] = "location"
    <3>1. (e + 4) + 2 = e + 6 /\ (e + 4) + 1 = e + 5
      OBVIOUS
    <3> QED
      BY ONLY <1>7, <3>1, Zenon DEF KeyAt
  <2>2. \A i \in a + 2 .. Len(t) : t[i] = f[i - d]
    BY <1>1, <1>5
  <2> DEFINE q == a + 3 - d
  <2>3. /\ a + 3 \in a + 2 .. Len(t) /\ a + 5 \in a + 2 .. Len(t)
        /\ a + 6 \in a + 2 .. Len(t)
        /\ (a + 5) - d = q + 2 /\ (a + 6) - d = q + 3
        /\ q \in Nat /\ q >= s + 2 /\ q <= s + m + 2
    BY <1>1, <1>3, <1>4, <2>1
  <2>4. f[q] = Comma /\ f[q + 2] = Quote /\ f[q + 3] = "location"
    <3>1. t[a + 3] = Comma /\ t[a + 5] = Quote /\ t[a + 6] = "location"
      BY ONLY <1>3, <1>7, <2>1, Zenon
    <3>2. /\ t[a + 3] = f[(a + 3) - d] /\ t[a + 5] = f[(a + 5) - d]
          /\ t[a + 6] = f[(a + 6) - d]
      BY ONLY <2>2, <2>3, Zenon
    <3>3. q = (a + 3) - d
      BY <1>1 DEF q
    <3> QED
      BY ONLY <2>3, <3>1, <3>2, <3>3, Zenon
  <2> HIDE DEF q
  <2>5. q # s + m + 2 /\ q # s + m + 1
    <3>1. Comma # Shut /\ Comma # Quote
      BY Distinct2
    <3> QED
      BY <1>2, <2>4, <3>1
  <2>6. q + 2 \notin s + 1 .. s + m
    BY <1>2, <2>4
  <2>7. q + 2 = s + m + 1 \/ q + 2 = s + m + 2
    BY <2>3, <2>5, <2>6
  <2>8. CASE q + 2 = s + m + 2
    <3>1. Shut = Quote
      BY <2>4, <2>8
    <3> QED
      BY <3>1, Distinct2
  <2>9. CASE q + 2 = s + m + 1
    <3>1. q + 3 = s + m + 2
      BY <2>3, <2>9
    <3>2. Shut = "location"
      BY <2>4, <3>1
    <3> QED
      BY <3>2, Distinct2
  <2> QED
    BY <2>7, <2>8, <2>9
<1> QED
  BY <1>6, <1>7

\* A name that lost its closing quote ends in the key of the next feature, or
\* with the text.
EndsInKey(t, f, n, p, e) ==
  /\ n # p + 3 \/ f[p + 3] = Quote
  /\ p + 6 <= n /\ f[p + 3] # Quote /\ f[p + 4] # Quote /\ f[p + 5] = Quote
       => e + 2 <= Len(t) /\ t[e + 2] = f[p + 6]

LEMMA NameJoins ==
  ASSUME NEW t, NEW f, NEW n \in Nat, NEW d, NEW a, Len(f) = n,
         ChangedAt(t, f, d, a),
         NEW s \in Nat, NEW m \in Nat, NEW e \in Nat,
         Ends(f, {Quote}, s, m), f[s + m + 2] = Shut,
         Joins(t, f, {Quote}, d, a, s, m, e), e < Len(t)
  PROVE  EndsInKey(t, f, n, s + m, e)
<1>1. /\ d \in {-1, 0, 1} /\ Len(t) = n + d /\ a \in Nat /\ a <= Len(t) /\ a <= n
      /\ \A i \in Behind(d, a) + 1 .. Len(t) : t[i] = f[i - d]
  BY DEF ChangedAt
<1>2. s + m < n
  BY DEF Ends
<1>3. /\ a = s + m /\ d <= 0 /\ e >= Behind(d, a)
      /\ \A i \in s + m + 2 .. e - d : f[i] # Quote
      /\ t[e + 1] = f[e + 1 - d] /\ t[e + 1] = Quote
  BY <1>1 DEF Joins
<1>4. e + 1 - d >= s + m + 2
  BY <1>1, <1>3 DEF Behind
<1>5. f[e + 1 - d] = Quote /\ e + 1 - d <= n /\ e - d \in Int
  BY <1>1, <1>3
<1>6. e + 1 - d # s + m + 2
  <2>1. Shut # Quote
    BY Distinct2
  <2> QED
    BY <1>5, <2>1
<1>7. e + 1 - d >= s + m + 3
  BY <1>1, <1>4, <1>6
<1>8. ASSUME n = s + m + 3 PROVE f[s + m + 3] = Quote
  <2>1. e + 1 - d = s + m + 3
    BY <1>1, <1>5, <1>7, <1>8
  <2> QED
    BY <1>5, <2>1
<1>9. ASSUME s + m + 6 <= n, f[s + m + 3] # Quote, f[s + m + 4] # Quote,
             f[s + m + 5] = Quote
      PROVE  e + 2 <= Len(t) /\ t[e + 2] = f[s + m + 6]
  <2>1. e + 1 - d # s + m + 3 /\ e + 1 - d # s + m + 4
    BY <1>5, <1>9
  <2>2. ~(e - d >= s + m + 5)
    <3>1. SUFFICES ASSUME e - d >= s + m + 5 PROVE FALSE
      OBVIOUS
    <3>2. s + m + 5 \in s + m + 2 .. e - d
      BY <1>5, <3>1
    <3> QED
      BY <1>3, <1>9, <3>2
  <2>3. e + 1 - d = s + m + 5
    <3>1. d \in {-1, 0, 1}
      BY <1>1
    <3> QED
      BY ONLY <1>7, <2>1, <2>2, <3>1, e \in Nat, s \in Nat, m \in Nat
  <2>4. /\ e + 2 <= Len(t) /\ e + 2 \in Behind(d, a) + 1 .. Len(t)
        /\ (e + 2) - d = s + m + 6
    BY <1>1, <1>3, <1>9, <2>3 DEF Behind
  <2> QED
    BY <1>1, <2>4
<1> QED
  BY ONLY <1>8, <1>9, Zenon DEF EndsInKey

-----------------------------------------------------------------------------
(* The parser on a file that was changed. *)

\* What the lemmas below need of the types.
LEMMA EditTypes ==
  ASSUME TextInv, db \in Database, NEW a, EditAt(a)
  PROVE  /\ text \in Seq(Char) /\ Len(text) = Size /\ Size \in Nat
         /\ Len(File) \in Nat /\ Len(File) > 0 /\ Len(db) \in Nat
         /\ Shift \in {-1, 0, 1} /\ Size = Len(File) + Shift
         /\ a \in Nat /\ a <= Size /\ a <= Len(File)
         /\ ChangedAt(text, File, Shift, a)
         /\ Behind(Shift, a) \in Nat
         /\ current \in Nat /\ start \in Nat /\ list \in Seq(Entry) /\ Len(list) \in Nat
<1>1. /\ text \in Seq(Char) /\ current \in Nat /\ start \in Nat /\ list \in Seq(Entry)
  BY DEF TextInv, TypeOK, Entry
<1>2. Len(text) = Size /\ Size \in Nat /\ Len(list) \in Nat
  BY <1>1, LenProperties DEF Size
<1>3. Len(File) \in Nat /\ Len(File) > 0 /\ Len(db) \in Nat
  BY CleanFile
<1>4. ChangedAt(text, File, Shift, a)
  BY DEF EditAt
<1>5. /\ Shift \in {-1, 0, 1} /\ Len(text) = Len(File) + Shift
      /\ a \in Nat /\ a <= Len(text) /\ a <= Len(File)
  BY <1>4 DEF ChangedAt
<1>6. Behind(Shift, a) \in Nat
  BY <1>5 DEF Behind
<1> QED
  BY <1>1, <1>2, <1>3, <1>4, <1>5, <1>6

\* Every step but the constructor's leaves text and file as they are.
LEMMA SameEdit ==
  ASSUME UNCHANGED <<text, db, damage>>
  PROVE  /\ text' = text /\ db' = db
         /\ Size' = Size /\ Clean' = Clean /\ File' = File /\ LoadedDb' = LoadedDb
         /\ Shift' = Shift
         /\ \A a : EditAt(a)' <=> EditAt(a)
         /\ \A a, c, p, j : InStep(a, c, p, j)' <=> InStep(a, c, p, j)
         /\ \A p : (KeyFails(p)' <=> KeyFails(p)) /\ (LonFails(p)' <=> LonFails(p))
<1>1. Size' = Size /\ Clean' = Clean /\ File' = File /\ LoadedDb' = LoadedDb
  BY SameText
<1>2. Shift' = Shift
  BY <1>1 DEF Shift
<1>3. \A a : EditAt(a)' <=> EditAt(a)
  BY <1>1, <1>2 DEF EditAt
<1>4. \A a, c, p, j : InStep(a, c, p, j)' <=> InStep(a, c, p, j)
  BY <1>2 DEF InStep
<1>5. \A p : (KeyFails(p)' <=> KeyFails(p)) /\ (LonFails(p)' <=> LonFails(p))
  BY DEF KeyFails, LonFails
<1> QED
  BY <1>1, <1>2, <1>3, <1>4, <1>5

\* Where Match finds s the text reads s.
LEMMA PieceAt ==
  ASSUME NEW t \in Seq(Char), NEW c \in Nat, NEW s \in Seq(Char),
         c + Len(s) <= Len(t), SubSeq(t, c + 1, c + Len(s)) = s
  PROVE  Reads(t, c, s)
<1>1. PICK n \in Nat, m \in Nat : Len(t) = n /\ Len(s) = m
  BY LenProperties
<1>2. \A i \in 1 .. n : t[i] \in Char
  BY <1>1, ElementOfSeq
<1>3. c + m <= n /\ SubSeq(t, c + 1, c + m) = s
  BY <1>1
<1>4. /\ c + 1 \in Int /\ c + m \in Int /\ \A i \in c + 1 .. c + m : i \in 1 .. n
      /\ (c + m) - (c + 1) + 1 = m
      /\ \A i \in 1 .. m : (c + 1) + i - 1 = c + i
  BY ONLY c \in Nat, m \in Nat, n \in Nat, <1>3
<1>5. \A i \in c + 1 .. c + m : t[i] \in Char
  BY ONLY <1>2, <1>4, Zenon
<1>6. \A i \in 1 .. (c + m) - (c + 1) + 1 : SubSeq(t, c + 1, c + m)[i] = t[(c + 1) + i - 1]
  BY ONLY <1>4, <1>5, SubSeqProperties
<1>7. \A i \in 1 .. m : t[c + i] = s[i]
  BY ONLY <1>3, <1>4, <1>6, Zenon
<1> QED
  BY ONLY <1>1, <1>3, <1>7, Zenon DEF Reads

\* A Match that succeeds in both keeps text and file in step.
LEMMA MatchInStep ==
  ASSUME TextInv, db \in Database, NEW a, EditAt(a),
         NEW s \in Seq(Char), NEW m \in Nat, Len(s) = m, Match(s),
         NEW p \in Nat, NEW j, Reads(File, p, s), InStep(a, current, p, j)
  PROVE  InStep(a, current + m, p + m, j)
<1>1. current + m <= Size /\ \A i \in 1 .. m : text[current + i] = s[i]
  <2>1. text \in Seq(Char) /\ current \in Nat
    BY DEF TextInv, TypeOK
  <2>2. current + Len(s) <= Len(text) /\ SubSeq(text, current + 1, current + Len(s)) = s
    BY DEF Match, Size
  <2>3. Reads(text, current, s)
    BY ONLY s \in Seq(Char), <2>1, <2>2, PieceAt, Zenon
  <2> QED
    BY ONLY Len(s) = m, <2>3, Zenon DEF Reads, Size
<1>2. p + m <= Len(File) /\ \A i \in 1 .. m : File[p + i] = s[i]
  BY DEF Reads
<1>3. current \in Nat /\ Len(File) \in Nat /\ Len(text) = Size
      /\ ChangedAt(text, File, Shift, a)
  BY EditTypes
<1>4. Same(text, current, File, p, m)
  BY ONLY <1>1, <1>2, <1>3, Zenon DEF Same
<1>5. Aligned(Shift, a, current, p, j)
  BY DEF InStep
<1>6. PICK n \in Nat : Len(File) = n
  BY <1>3
<1>7. p + m <= n
  BY ONLY <1>2, <1>6, Zenon
<1>8. Aligned(Shift, a, current + m, p + m, j)
  BY ONLY <1>3, <1>4, <1>5, <1>6, <1>7, m \in Nat, p \in Nat, AlignedNext, Zenon
<1> QED
  BY <1>8 DEF InStep

\* A feature takes room in the file.
LEMMA FeatureRoom ==
  ASSUME db \in Database, NEW k \in Nat, k < Len(db)
  PROVE  Place(Clean, k) \in Nat /\ Place(Clean, k) + 25 <= Len(File)
<1>1. PICK j \in 1 .. Len(db) : j = k + 1
  BY CleanFile
<1>2. PICK b \in Nat, l1 \in Nat, l2 \in Nat, l3 \in Nat :
        /\ Place(Clean, j - 1) = b
        /\ Len(Clean[j].lat) = l1 /\ Len(Clean[j].lon) = l2
        /\ Len(Clean[j].name) = l3
        /\ GroupAt(Clean[j], 1) = 0 /\ GroupAt(Clean[j], 2) = 10 + l1
        /\ GroupAt(Clean[j], 3) = 15 + l1 + l2
        /\ QuoteAt(Clean[j]) = 22 + l1 + l2 + l3
        /\ Place(Clean, j) = b + 25 + l1 + l2 + l3
        /\ b + 25 + l1 + l2 + l3 <= Len(File)
  BY ONLY db \in Database, <1>1, FeaturePlace, Zenon
<1>3. Len(File) \in Nat
  BY CleanFile
<1>4. j - 1 = k
  BY ONLY <1>1, k \in Nat
<1>5. Place(Clean, k) = b
  BY ONLY <1>2, <1>4, Zenon
<1>6. b + 25 <= Len(File)
  <2>1. b + 25 + l1 + l2 + l3 <= Len(File)
    BY <1>2
  <2> QED
    BY ONLY <2>1, <1>3, b \in Nat, l1 \in Nat, l2 \in Nat, l3 \in Nat
<1> QED
  BY ONLY <1>5, <1>6, b \in Nat, Zenon

\* The loop, at a feature in step or at a text that is none.
LEMMA LoopEdited ==
  ASSUME TextInv, db \in Database, NEW a, EditAt(a), LoopAfter(a), Loop
  PROVE  InDamaged(a)'
<1> DEFINE k == Len(list)
           e == [lat |-> 0, lon |-> 0, name |-> <<>>]
<1>1. pc = "loop" /\ UNCHANGED <<text, current, failed, start, db, damage>>
  BY DEF Loop
<1>2. /\ text' = text /\ db' = db
      /\ Size' = Size /\ Clean' = Clean /\ File' = File /\ LoadedDb' = LoadedDb
      /\ \A c, p, j : InStep(a, c, p, j)' <=> InStep(a, c, p, j)
      /\ \A p : KeyFails(p)' <=> KeyFails(p)
  BY <1>1, SameEdit
<1>3. /\ Len(File) \in Nat /\ Len(db) \in Nat /\ current \in Nat /\ Size \in Nat
      /\ k \in Nat /\ list \in Seq(Entry) /\ Shift \in {-1, 0, 1}
      /\ Size = Len(File) + Shift /\ a <= Size /\ a \in Nat
  BY EditTypes
<1>4. CASE Finished
  <2>1. pc' = "end" /\ UNCHANGED list
    BY <1>4 DEF Loop
  <2>2. EndAfter'
    <3>1. CASE list = <<>>
      BY <2>1, <3>1 DEF EndAfter
    <3>2. CASE k = Len(db) /\ \E j \in 0 .. Len(db) : HasReadBut(Len(db), j)
      BY <1>2, <2>1, <3>2 DEF EndAfter, HasReadBut
    <3>3. ASSUME k < Len(db), NEW j \in 0 .. Len(db), InStep(a, current, Place(Clean, k), j)
          PROVE  FALSE
      <4>1. PICK p \in Nat : Place(Clean, k) = p /\ p + 25 <= Len(File)
        BY <1>3, <3>3, FeatureRoom
      <4>2. current >= Size
        BY <1>4 DEF Finished
      <4>3. \/ current = p /\ current <= a
            \/ current = p + Shift
        BY <3>3, <4>1 DEF InStep, Aligned
      <4> QED
        BY ONLY <1>3, <4>1, <4>2, <4>3, p \in Nat
    <3> QED
      BY <1>4, <3>1, <3>2, <3>3 DEF LoopAfter
  <2> QED
    BY <2>1, <2>2 DEF InDamaged
<1>5. CASE ~Finished /\ failed
  <2>1. pc' = "end" /\ list' = <<>>
    BY <1>5 DEF Loop, Fail
  <2> QED
    BY <2>1 DEF InDamaged, EndAfter
<1>6. CASE ~Finished /\ ~failed
  <2>1. /\ list' = Append(list, e) /\ pc' = "match"
        /\ at' = [group |-> 1, i |-> 1]
    BY <1>6 DEF Loop
  <2>2. CASE KeyFails(current + 1)
    <3>1. (at = [group |-> 1, i |-> 1] /\ KeyFails(current + 1))'
      BY <1>1, <1>2, <2>1, <2>2
    <3>2. MatchAfter(a)'
      BY <3>1 DEF MatchAfter
    <3> QED
      BY <2>1, <3>2 DEF InDamaged
  <2>3. ASSUME k < Len(db), NEW j \in 0 .. Len(db), HasReadBut(k, j),
               InStep(a, current, Place(Clean, k), j)
        PROVE  InDamaged(a)'
    <3>1. Len(list') = k + 1 /\ \A i \in 1 .. k : list'[i] = list[i]
      <4>1. e \in Entry
        BY ConstantsAssumption DEF Entry, Int32Range
      <4> HIDE DEF e
      <4> QED
        BY <1>3, <2>1, <4>1, AppendProperties
    <3>2. Len(list') - 1 = k /\ Len(list') >= 1 /\ Len(list') <= Len(db')
      BY <1>1, <1>3, <2>3, <3>1
    <3>3. HasReadBut(Len(list) - 1, j)'
      BY <1>1, <1>2, <1>3, <2>3, <3>1, <3>2 DEF HasReadBut
    <3>4. at'.group = 1 /\ at'.i = 1
      BY <2>1
    <3>5. CoordsRead(at.group)'
      BY <3>4 DEF CoordsRead
    <3>6. ReadingBut(j)'
      BY <3>2, <3>3, <3>5 DEF ReadingBut
    <3>7. LiteralPlace(at.group, at.i)' = Place(Clean, k)
      <4>1. Begin' = Place(Clean, k)
        BY <1>2, <3>2 DEF Begin
      <4>2. GroupAt(This, at.group)' = 0 /\ LiteralAt[at.group][at.i]' = 0
        BY <3>4 DEF GroupAt, LiteralAt
      <4>3. Place(Clean, k) + 0 + 0 = Place(Clean, k)
        BY <1>3, <2>3, FeatureRoom
      <4> QED
        BY <4>1, <4>2, <4>3 DEF LiteralPlace
    <3>8. InStep(a, current, LiteralPlace(at.group, at.i), j)'
      BY <1>1, <1>2, <2>3, <3>7
    <3>9. MatchAfter(a)'
      BY <1>1, <3>6, <3>8 DEF MatchAfter
    <3> QED
      BY <2>1, <3>9 DEF InDamaged
  <2> QED
    BY <1>6, <2>2, <2>3 DEF LoopAfter
<1> QED
  BY <1>4, <1>5, <1>6

\* The elements of the literals that stop the parser on a changed file.
LEMMA LiteralElements ==
  /\ Len(<<Open>>) = 1 /\ Len(<<Comma>>) = 1 /\ Len(<<Shut, Comma>>) = 2
  /\ <<Open>>[1] = Open /\ <<Comma>>[1] = Comma
  /\ <<Shut, Comma>>[1] = Shut /\ <<Shut, Comma>>[2] = Comma
  /\ \A word \in Word :
       /\ Len(Key(word)) = 4
       /\ Key(word)[1] = Quote /\ Key(word)[2] = word
       /\ Key(word)[3] = Quote /\ Key(word)[4] = ":"
  /\ "location" \in Word /\ "longitude" \in Word
<1>1. \A x : <<x>>[1] = x /\ Len(<<x>>) = 1
  OBVIOUS
<1>2. \A x, y : <<x, y>>[1] = x /\ <<x, y>>[2] = y /\ Len(<<x, y>>) = 2
  OBVIOUS
<1>3. \A x, y, z, w : /\ <<x, y, z, w>>[1] = x /\ <<x, y, z, w>>[2] = y
                      /\ <<x, y, z, w>>[3] = z /\ <<x, y, z, w>>[4] = w
                      /\ Len(<<x, y, z, w>>) = 4
  OBVIOUS
<1>4. \A word \in Word :
       /\ Len(Key(word)) = 4
       /\ Key(word)[1] = Quote /\ Key(word)[2] = word
       /\ Key(word)[3] = Quote /\ Key(word)[4] = ":"
  BY ONLY <1>3, Zenon DEF Key
<1>5. "location" \in Word /\ "longitude" \in Word
  BY DEF Word
<1> QED
  BY ONLY <1>1, <1>2, <1>4, <1>5, Zenon

\* A longitude's key is no comma.
LEMMA CommaBehindKey ==
  ASSUME NEW t \in Seq(Char), NEW c \in Nat, Reads(t, c, Key("longitude")), CommaAt(t, c)
  PROVE  CommaAt(t, c + 4)
<1> DEFINE s == Key("longitude")
<1>1. PICK n \in Nat : Len(t) = n
  BY LenProperties
<1>2. s \in Seq(Char) /\ Len(s) = 4
  BY LiteralText DEF Word
<1>3. \A i \in 1 .. 4 : t[c + i] = s[i]
  <2>1. Reads(t, c, s)
    OBVIOUS
  <2> HIDE DEF s
  <2> QED
    BY ONLY <1>2, <2>1, Zenon DEF Reads
<1>4. s[1] = Quote /\ s[2] = "longitude" /\ s[3] = Quote /\ s[4] = ":"
  BY LiteralElements
<1>5. \A i \in 1 .. 4 : s[i] # Comma
  <2>1. Quote # Comma /\ "longitude" # Comma /\ ":" # Comma
    BY Distinct2, Zenon
  <2>2. \A i \in 1 .. 4 : i = 1 \/ i = 2 \/ i = 3 \/ i = 4
    OBVIOUS
  <2> QED
    BY ONLY <1>4, <2>1, <2>2, Zenon
<1> HIDE DEF s
<1>6. PICK y \in c + 1 .. Len(t) :
        /\ t[y] = Comma
        /\ \A i \in c + 1 .. y - 1 : t[i] \notin {Comma, Shut}
  BY DEF CommaAt
<1>7. y >= c + 5
  <2>1. SUFFICES ASSUME y < c + 5 PROVE FALSE
    BY <1>1, <1>6
  <2>2. y - c \in 1 .. 4 /\ c + (y - c) = y
    BY <1>1, <1>6, <2>1
  <2> QED
    BY ONLY <1>3, <1>5, <1>6, <2>2, Zenon
<1>8. y \in (c + 4) + 1 .. Len(t)
  BY <1>1, <1>6, <1>7
<1>9. \A i \in (c + 4) + 1 .. y - 1 : i \in c + 1 .. y - 1
  OBVIOUS
<1> QED
  BY ONLY <1>6, <1>8, <1>9, Zenon DEF CommaAt

\* Where Match finds the key of a feature there is one.
LEMMA KeyFound ==
  ASSUME NEW t \in Seq(Char), NEW c \in Nat, Reads(t, c, Key("location"))
  PROVE  KeyAt(t, c)
<1> DEFINE s == Key("location")
<1>1. s \in Seq(Char) /\ Len(s) = 4
  BY LiteralText DEF Word
<1>2. \A i \in 1 .. 4 : t[c + i] = s[i]
  <2>1. Reads(t, c, s)
    OBVIOUS
  <2> HIDE DEF s
  <2> QED
    BY ONLY <1>1, <2>1, Zenon DEF Reads
<1>3. s[1] = Quote /\ s[2] = "location"
  BY LiteralElements
<1> HIDE DEF s
<1>4. c + 2 <= Len(t) /\ 1 \in 1 .. 4 /\ 2 \in 1 .. 4
  <2>1. PICK n \in Nat : Len(t) = n
    BY LenProperties
  <2>2. Reads(t, c, s) /\ Len(s) = 4
    BY <1>1 DEF s
  <2>3. c + 4 <= n
    BY ONLY <2>1, <2>2, Zenon DEF Reads
  <2> QED
    BY ONLY <2>1, <2>3, c \in Nat
<1> QED
  BY ONLY <1>2, <1>3, <1>4, Zenon DEF KeyAt

\* Where the file has the literals of the feature being read.
LEMMA LiteralPlaces ==
  ASSUME db \in Database, Len(list) \in 1 .. Len(db),
         NEW g \in 1 .. 3, NEW i \in 1 .. 4, i <= Len(Expect[g])
  PROVE  /\ LiteralPlace(g, i) \in Nat
         /\ Reads(File, LiteralPlace(g, i), Expect[g][i])
         /\ IF i < Len(Expect[g])
            THEN LiteralPlace(g, i + 1) = LiteralPlace(g, i) + Len(Expect[g][i])
            ELSE GroupEnd(g) = LiteralPlace(g, i) + Len(Expect[g][i])
<1>1. PICK k \in 1 .. Len(db) : k = Len(list)
  OBVIOUS
<1>2. Begin = Place(Clean, k - 1) /\ This = Clean[k]
  BY <1>1 DEF Begin, This
<1>3. Spelled(File, Place(Clean, k - 1), Clean[k])
  BY FeaturePlace
<1>4. i \in 1 .. Len(Expect[g])
  <2>1. Len(Expect[g]) \in 1 .. 4
    BY DEF Expect
  <2> QED
    BY <2>1
<1>5. Reads(File, LiteralPlace(g, i), Expect[g][i])
  BY <1>2, <1>3, <1>4 DEF Spelled, LiteralPlace
<1>6. PICK b \in Nat, ga \in Nat : Begin = b /\ GroupAt(This, g) = ga
  <2>1. k - 1 \in 0 .. Len(db) /\ db # <<>>
    BY CleanFile, EmptySeq
  <2>2. Place(Clean, k - 1) \in Nat
    BY <2>1, LoopPlace
  <2>3. PICK l1 \in Nat, l2 \in Nat :
          /\ GroupAt(Clean[k], 1) = 0 /\ GroupAt(Clean[k], 2) = 10 + l1
          /\ GroupAt(Clean[k], 3) = 15 + l1 + l2
    <3>1. Clean[k] \in Feature
      BY CleanFeature
    <3> QED
      BY <3>1, FeatureSizes
  <2>4. g = 1 \/ g = 2 \/ g = 3
    OBVIOUS
  <2>5. 10 + l1 \in Nat /\ 15 + l1 + l2 \in Nat /\ 0 \in Nat
    OBVIOUS
  <2>6. GroupAt(This, g) \in Nat
    BY ONLY <1>2, <2>3, <2>4, <2>5, Zenon
  <2> QED
    BY <1>2, <2>2, <2>6
<1>7. PICK x \in Nat, m \in Nat : LiteralAt[g][i] = x /\ Len(Expect[g][i]) = m
  <2>1. LiteralAt[g][i] \in Nat
    BY LiteralNext
  <2>2. Len(Expect[g][i]) \in 1 .. 4
    BY Literals
  <2>3. \A x \in 1 .. 4 : x \in Nat
    OBVIOUS
  <2> QED
    BY ONLY <2>1, <2>2, <2>3, Zenon
<1>8. IF i < Len(Expect[g])
      THEN LiteralAt[g][i + 1] = x + m
      ELSE GroupLen[g] = x + m
  BY <1>7, LiteralNext
<1>9. LiteralPlace(g, i) = b + ga + x /\ LiteralPlace(g, i) \in Nat
  <2>1. LiteralPlace(g, i) = b + ga + x
    BY <1>6, <1>7 DEF LiteralPlace
  <2> QED
    BY <2>1
<1>10. CASE i < Len(Expect[g])
  <2>1. LiteralPlace(g, i + 1) = b + ga + (x + m)
    BY <1>6, <1>8, <1>10 DEF LiteralPlace
  <2>2. b + ga + (x + m) = (b + ga + x) + m
    BY ONLY b \in Nat, ga \in Nat, x \in Nat, m \in Nat
  <2> QED
    BY ONLY <1>5, <1>7, <1>9, <1>10, <2>1, <2>2, Zenon
<1>11. CASE ~(i < Len(Expect[g]))
  <2>1. GroupEnd(g) = b + ga + (x + m)
    BY <1>6, <1>8, <1>11 DEF GroupEnd
  <2>2. b + ga + (x + m) = (b + ga + x) + m
    BY ONLY b \in Nat, ga \in Nat, x \in Nat, m \in Nat
  <2> QED
    BY ONLY <1>5, <1>7, <1>9, <1>11, <2>1, <2>2, Zenon
<1> QED
  BY ONLY <1>10, <1>11, Zenon

\* The literals: one that is found keeps the text in step, and when none was to
\* be found the parser gives up.
LEMMA MatchEdited ==
  ASSUME TextInv, db \in Database, NEW a, EditAt(a), MatchAfter(a), MatchNext
  PROVE  InDamaged(a)'
<1> DEFINE k == Len(list)
           literal == Expect[at.group][at.i]
<1>1. /\ pc = "match" /\ UNCHANGED <<text, failed, db, damage>>
      /\ current' = current + Len(literal)
  BY DEF MatchNext
<1>2. /\ text' = text /\ db' = db
      /\ Size' = Size /\ Clean' = Clean /\ File' = File /\ LoadedDb' = LoadedDb
      /\ \A c, p, j : InStep(a, c, p, j)' <=> InStep(a, c, p, j)
      /\ \A p : (KeyFails(p)' <=> KeyFails(p)) /\ (LonFails(p)' <=> LonFails(p))
  BY <1>1, SameEdit
<1>3. PICK g \in 1 .. 3, i \in 1 .. 4 : at = [group |-> g, i |-> i]
  BY DEF TextInv, TypeOK
<1>4. /\ at.group = g /\ at.i = i /\ i <= Len(Expect[g])
      /\ literal = Expect[g][i]
  BY <1>3 DEF TextInv, PlaceInv
<1>5. literal \in Seq(Char) /\ Len(literal) \in 1 .. 4
  BY <1>4, Literals
<1>6. /\ text \in Seq(Char) /\ Len(text) = Size /\ Size \in Nat /\ current \in Nat
      /\ Len(db) \in Nat /\ k \in Nat /\ Len(File) \in Nat
  BY EditTypes
<1>7. Len(Expect[1]) = 4 /\ Len(Expect[2]) = 2 /\ Len(Expect[3]) = 3
  BY DEF Expect
<1>8. /\ Expect[1][1] = <<Open>> /\ Expect[1][2] = Key("location")
      /\ Expect[2][1] = <<Comma>> /\ Expect[2][2] = Key("longitude")
  BY DEF Expect
<1> HIDE DEF literal, k
<1>9. CASE ~Match(literal)
  <2>1. pc' = "end" /\ list' = <<>>
    BY <1>9 DEF MatchNext, Fail, literal
  <2> QED
    BY <2>1 DEF InDamaged, EndAfter
<1>10. CASE Match(literal) /\ i < Len(Expect[g])
  <2>1. /\ at' = [group |-> g, i |-> i + 1] /\ UNCHANGED <<pc, list, start>>
    BY <1>3, <1>4, <1>10 DEF MatchNext, literal
  <2>2. at'.group = g /\ at'.i = i + 1
    BY <2>1
  <2>3. CASE at = [group |-> 1, i |-> 1] /\ KeyFails(current + 1)
    <3>1. g = 1 /\ i = 1
      BY <1>4, <2>3
    <3>2. current' = current + 1
      <4>1. literal = <<Open>>
        BY <1>4, <1>8, <3>1
      <4> QED
        BY ONLY <1>1, <4>1, LiteralElements, Zenon
    <3>3. at'.group = 1 /\ at'.i = 2
      BY <2>2, <3>1
    <3>4. ~Match(Key("location"))'
      <4>1. SUFFICES ASSUME Match(Key("location"))' PROVE FALSE
        OBVIOUS
      <4> DEFINE s == Key("location")
      <4>2. s \in Seq(Char)
        BY LiteralText DEF Word
      <4> HIDE DEF s
      <4>3. /\ current' + Len(s) <= Len(text)
            /\ SubSeq(text, current' + 1, current' + Len(s)) = s
        BY <1>2, <1>6, <4>1 DEF Match, s
      <4>4. current' \in Nat
        BY <1>6, <3>2
      <4>5. Reads(text, current', s)
        BY ONLY <1>6, <4>2, <4>3, <4>4, PieceAt, Zenon
      <4>6. KeyAt(text, current')
        BY ONLY <1>6, <4>4, <4>5, KeyFound, Zenon DEF s
      <4> QED
        BY <2>3, <3>2, <4>6 DEF KeyFails
    <3>5. ~Match(Expect[at.group][at.i])'
      BY <1>8, <3>3, <3>4
    <3>6. MatchAfter(a)'
      BY <3>5 DEF MatchAfter
    <3> QED
      BY <1>1, <2>1, <3>6 DEF InDamaged
  <2>4. CASE at.group = 2 /\ LonFails(IF at.i = 1 THEN current + 1 ELSE current)
    <3>1. g = 2 /\ i = 1
      <4>1. g = 2
        BY ONLY <1>4, <2>4, Zenon
      <4>2. i < 2
        BY ONLY <1>7, <1>10, <4>1, Zenon
      <4> QED
        BY ONLY <4>1, <4>2, i \in 1 .. 4
    <3>2. current' = current + 1
      <4>1. literal = <<Comma>>
        BY <1>4, <1>8, <3>1
      <4> QED
        BY ONLY <1>1, <4>1, LiteralElements, Zenon
    <3>3. at'.group = 2 /\ at'.i # 1
      BY <2>2, <3>1
    <3>4. LonFails(current')
      BY <1>4, <2>4, <3>1, <3>2
    <3>5. LonFails(IF at.i = 1 THEN current + 1 ELSE current)'
      BY <1>2, <3>3, <3>4 DEF LonFails
    <3>6. MatchAfter(a)'
      BY <3>3, <3>5 DEF MatchAfter
    <3> QED
      BY <1>1, <2>1, <3>6 DEF InDamaged
  <2>5. ASSUME NEW j \in 0 .. Len(db), ReadingBut(j),
               InStep(a, current, LiteralPlace(at.group, at.i), j)
        PROVE  InDamaged(a)'
    <3>1. Len(list) \in 1 .. Len(db)
      BY <1>6, <2>5 DEF ReadingBut, k
    <3>2. PICK p \in Nat :
            /\ LiteralPlace(g, i) = p /\ Reads(File, p, literal)
            /\ LiteralPlace(g, i + 1) = p + Len(literal)
      BY <1>4, <1>10, <3>1, LiteralPlaces
    <3>3. PICK m \in Nat : Len(literal) = m
      BY <1>5
    <3>4. InStep(a, current, p, j)
      BY <1>4, <2>5, <3>2
    <3>5. InStep(a, current + m, p + m, j)
      BY ONLY TextInv, db \in Database, EditAt(a), <1>5, <1>10, <3>2, <3>3, <3>4,
         MatchInStep, Zenon
    <3>6. LiteralPlace(at.group, at.i)' = p + m
      <4>1. LiteralPlace(g, i + 1)' = LiteralPlace(g, i + 1)
        BY <1>2, <2>1 DEF LiteralPlace, Begin, This
      <4> QED
        BY <2>2, <3>2, <3>3, <4>1 DEF LiteralPlace
    <3>7. InStep(a, current, LiteralPlace(at.group, at.i), j)'
      <4>1. current' = current + m
        BY <1>1, <3>3
      <4> QED
        BY <1>2, <3>5, <3>6, <4>1
    <3>8. ReadingBut(j)'
      BY <1>2, <1>4, <2>1, <2>2, <2>5 DEF ReadingBut, HasReadBut, CoordsRead, This
    <3>9. MatchAfter(a)'
      BY <1>2, <3>7, <3>8 DEF MatchAfter
    <3> QED
      BY <1>1, <2>1, <3>9 DEF InDamaged
  <2> QED
    BY <1>10, <2>3, <2>4, <2>5 DEF MatchAfter, literal
<1>11. CASE Match(literal) /\ ~(i < Len(Expect[g]))
  <2>1. /\ pc' = IF g = 3 THEN "name" ELSE "number"
        /\ start' = current' /\ UNCHANGED <<at, list>>
    BY <1>4, <1>11 DEF MatchNext, literal
  <2>2. at'.group = g
    BY <1>4, <2>1
  <2>3. start' = current' /\ current' \in Nat
    BY <1>1, <1>5, <1>6, <2>1
  <2>4. start' <= current' /\ \A x \in start' + 1 .. current' : FALSE
    <3>1. \A y \in Nat : y <= y /\ \A x \in y + 1 .. y : FALSE
      OBVIOUS
    <3> QED
      BY ONLY <2>3, <3>1, Zenon
  <2>5. CASE at = [group |-> 1, i |-> 1] /\ KeyFails(current + 1)
    <3>1. g = 1 /\ i = 1
      BY <1>4, <2>5
    <3>2. ~(1 < 4)
      BY ONLY <1>7, <1>11, <3>1, Zenon
    <3> QED
      BY <3>2
  <2>6. CASE at.group = 2 /\ LonFails(IF at.i = 1 THEN current + 1 ELSE current)
    <3>1. g = 2 /\ i # 1 /\ i = 2
      <4>1. g = 2
        BY ONLY <1>4, <2>6, Zenon
      <4>2. i <= 2 /\ ~(i < 2)
        BY ONLY <1>4, <1>7, <1>11, <4>1, Zenon
      <4> QED
        BY ONLY <4>1, <4>2, i \in 1 .. 4
    <3>2. CommaAt(text, current)
      BY <1>4, <2>6, <3>1 DEF LonFails
    <3> DEFINE s == Key("longitude")
    <3>3. literal = s /\ Len(s) = 4 /\ s \in Seq(Char)
      <4>1. literal = s
        BY <1>4, <1>8, <3>1
      <4> QED
        BY <4>1, <1>5, LiteralElements
    <3> HIDE DEF s
    <3>4. /\ current + Len(s) <= Len(text)
          /\ SubSeq(text, current + 1, current + Len(s)) = s
      BY <1>6, <1>11, <3>3 DEF Match
    <3>5. Reads(text, current, s)
      BY ONLY <1>6, <3>3, <3>4, PieceAt, Zenon
    <3>6. CommaAt(text, current + 4)
      BY ONLY <1>6, <3>2, <3>5, CommaBehindKey, Zenon DEF s
    <3>7. start' = current + 4
      BY <1>1, <2>1, <3>3
    <3>8. LonFails(start)'
      BY <1>2, <3>6, <3>7 DEF LonFails
    <3>9. at'.group = 2 /\ pc' = "number"
      BY <2>1, <2>2, <3>1
    <3>10. NumberAfter(a)'
      BY <2>4, <3>8, <3>9 DEF NumberAfter
    <3> QED
      BY <3>9, <3>10 DEF InDamaged
  <2>7. ASSUME NEW j \in 0 .. Len(db), ReadingBut(j),
               InStep(a, current, LiteralPlace(at.group, at.i), j)
        PROVE  InDamaged(a)'
    <3>1. Len(list) \in 1 .. Len(db)
      BY <1>6, <2>7 DEF ReadingBut, k
    <3>2. PICK p \in Nat :
            /\ LiteralPlace(g, i) = p /\ Reads(File, p, literal)
            /\ GroupEnd(g) = p + Len(literal)
      BY <1>4, <1>11, <3>1, LiteralPlaces
    <3>3. PICK m \in Nat : Len(literal) = m
      BY <1>5
    <3>4. InStep(a, current, p, j)
      BY <1>4, <2>7, <3>2
    <3>5. InStep(a, current + m, p + m, j)
      BY ONLY TextInv, db \in Database, EditAt(a), <1>5, <1>11, <3>2, <3>3, <3>4,
         MatchInStep, Zenon
    <3>6. GroupEnd(g)' = p + m
      <4>1. GroupEnd(g)' = GroupEnd(g)
        BY <1>2, <2>1 DEF GroupEnd, Begin, This
      <4> QED
        BY <3>2, <3>3, <4>1
    <3>7. InStep(a, start, GroupEnd(g), j)'
      <4>1. start' = current + m
        BY <1>1, <2>1, <3>3
      <4> QED
        BY <1>2, <3>5, <3>6, <4>1
    <3>8. ReadingBut(j)'
      BY <1>2, <1>4, <2>1, <2>2, <2>7 DEF ReadingBut, HasReadBut, CoordsRead, This
    <3>9. CASE g = 3
      <4>1. (\E j1 \in 0 .. Len(db) : ReadingBut(j1) /\ InStep(a, start, GroupEnd(3), j1))'
        BY <1>2, <3>7, <3>8, <3>9
      <4>2. NameAfter(a, current)'
        BY <2>2, <2>4, <3>9, <4>1 DEF NameAfter
      <4> QED
        BY <2>1, <3>9, <4>2 DEF InDamaged
    <3>10. CASE g # 3
      <4>1. (\E j1 \in 0 .. Len(db) :
               ReadingBut(j1) /\ InStep(a, start, GroupEnd(at.group), j1))'
        <5>1. GroupEnd(at.group)' = GroupEnd(g)'
          BY <2>2 DEF GroupEnd
        <5> QED
          BY <1>2, <3>7, <3>8, <5>1
      <4>2. NumberAfter(a)'
        BY <2>4, <4>1 DEF NumberAfter
      <4> QED
        BY <2>1, <3>10, <4>2 DEF InDamaged
    <3> QED
      BY <3>9, <3>10
  <2> QED
    BY <1>11, <2>5, <2>6, <2>7 DEF MatchAfter, literal
<1> QED
  BY <1>9, <1>10, <1>11

\* The scans, which keep what they have passed free of their ends.
LEMMA ScanNumberEdited ==
  ASSUME TextInv, db \in Database, NEW a, EditAt(a), NumberAfter(a), ScanNumber
  PROVE  InDamaged(a)'
<1>1. /\ pc = "number" /\ UNCHANGED <<text, failed, pc, at, start, list, db, damage>>
      /\ current' = current + 1
      /\ text[current + 1] \notin {Comma, Shut}
  BY DEF ScanNumber, InNumber
<1>2. /\ text' = text /\ db' = db /\ Clean' = Clean /\ LoadedDb' = LoadedDb
      /\ \A c, p, j : InStep(a, c, p, j)' <=> InStep(a, c, p, j)
      /\ \A p : LonFails(p)' <=> LonFails(p)
  BY <1>1, SameEdit
<1>3. current \in Nat /\ start \in Nat
  BY EditTypes
<1>4. /\ start <= current
      /\ \A i \in start + 1 .. current : text[i] \notin {Comma, Shut}
  BY DEF NumberAfter
<1>5. /\ start <= current + 1
      /\ \A i \in start + 1 .. current + 1 : i \in start + 1 .. current \/ i = current + 1
  BY ONLY <1>3, <1>4
<1>6. /\ (start <= current)'
      /\ (\A i \in start + 1 .. current : text[i] \notin {Comma, Shut})'
  BY ONLY <1>1, <1>4, <1>5, Zenon
<1>7. CASE at.group = 2 /\ LonFails(start)
  <2>1. (at.group = 2 /\ LonFails(start))'
    BY <1>1, <1>2, <1>7
  <2>2. NumberAfter(a)'
    BY ONLY <1>6, <2>1, Zenon DEF NumberAfter
  <2> QED
    BY <1>1, <2>2 DEF InDamaged
<1>8. ASSUME NEW j \in 0 .. Len(db), ReadingBut(j),
             InStep(a, start, GroupEnd(at.group), j)
      PROVE  InDamaged(a)'
  <2>1. ReadingBut(j)'
    BY <1>1, <1>2, <1>8 DEF ReadingBut, HasReadBut, CoordsRead, This
  <2>2. InStep(a, start, GroupEnd(at.group), j)'
    <3>1. GroupEnd(at.group)' = GroupEnd(at.group)
      BY <1>1, <1>2 DEF GroupEnd, Begin, This
    <3> QED
      BY <1>1, <1>2, <1>8, <3>1
  <2>3. (\E i \in 0 .. Len(db) : ReadingBut(i) /\ InStep(a, start, GroupEnd(at.group), i))'
    BY <1>2, <2>1, <2>2
  <2>4. NumberAfter(a)'
    BY ONLY <1>6, <2>3, Zenon DEF NumberAfter
  <2> QED
    BY <1>1, <2>4 DEF InDamaged
<1> QED
  BY <1>7, <1>8 DEF NumberAfter

LEMMA ScanNameEdited ==
  ASSUME TextInv, db \in Database, NEW a, EditAt(a), NameAfter(a, current), ScanName
  PROVE  InDamaged(a)'
<1>1. /\ pc = "name" /\ UNCHANGED <<text, failed, at, start, list, db, damage>>
      /\ current' = current + 1
      /\ pc' = IF text[current + 1] = Quote THEN "named" ELSE "name"
  BY DEF ScanName
<1>2. /\ text' = text /\ db' = db /\ Clean' = Clean /\ LoadedDb' = LoadedDb
      /\ \A c, p, j : InStep(a, c, p, j)' <=> InStep(a, c, p, j)
  BY <1>1, SameEdit
<1>3. current \in Nat /\ start \in Nat
  BY EditTypes
<1>4. /\ start <= current /\ at.group = 3
      /\ \A i \in start + 1 .. current : text[i] # Quote
  BY DEF NameAfter
<1>5. PICK j \in 0 .. Len(db) : ReadingBut(j) /\ InStep(a, start, GroupEnd(3), j)
  BY DEF NameAfter
<1>6. (\E i \in 0 .. Len(db) : ReadingBut(i) /\ InStep(a, start, GroupEnd(3), i))'
  <2>1. ReadingBut(j)'
    BY <1>1, <1>2, <1>5 DEF ReadingBut, HasReadBut, CoordsRead, This
  <2>2. GroupEnd(3)' = GroupEnd(3)
    BY <1>1, <1>2 DEF GroupEnd, Begin, This
  <2> QED
    BY <1>1, <1>2, <1>5, <2>1, <2>2
<1>7. start' = start /\ text' = text /\ at'.group = 3
  BY <1>1, <1>4
<1>8. CASE text[current + 1] = Quote
  <2>1. current' > start' /\ current' - 1 = current
    BY ONLY <1>1, <1>3, <1>4
  <2>2. pc' = "named" /\ text'[current'] = Quote
    BY <1>1, <1>7, <1>8
  <2>3. NameAfter(a, current - 1)'
    BY ONLY <1>4, <1>6, <1>7, <2>1, Zenon DEF NameAfter
  <2> QED
    BY <2>1, <2>2, <2>3 DEF InDamaged
<1>9. CASE text[current + 1] # Quote
  <2>1. /\ start <= current + 1
        /\ \A i \in start + 1 .. current + 1 : i \in start + 1 .. current \/ i = current + 1
    BY ONLY <1>3, <1>4
  <2>2. pc' = "name"
    BY <1>1, <1>9
  <2>3. NameAfter(a, current)'
    BY ONLY <1>1, <1>4, <1>6, <1>7, <1>9, <2>1, Zenon DEF NameAfter
  <2> QED
    BY <2>2, <2>3 DEF InDamaged
<1> QED
  BY <1>8, <1>9

\* A coordinate in the file, and the literal that follows it.
LEMMA NumberEnds ==
  ASSUME db \in Database, Len(list) \in 1 .. Len(db), NEW g \in 1 .. 2
  PROVE  \E s, n \in Nat :
           /\ GroupEnd(g) = s
           /\ Coord(This, g) \in Coordinate /\ Len(Coord(This, g)) = n
           /\ \A i \in 1 .. n : File[s + i] = Coord(This, g)[i]
           /\ Ends(File, {Comma, Shut}, s, n)
           /\ LiteralPlace(g + 1, 1) = s + n
           /\ g = 1 => File[s + n + 1] = Comma
           /\ g = 2 => /\ s + n + 2 <= Len(File)
                       /\ File[s + n + 1] = Shut /\ File[s + n + 2] = Comma
<1>1. PICK k \in 1 .. Len(db) : k = Len(list)
  OBVIOUS
<1>2. Begin = Place(Clean, k - 1) /\ This = Clean[k]
  BY <1>1 DEF Begin, This
<1>3. PICK s \in Nat, n \in Nat :
        /\ Place(Clean, k - 1) + GroupAt(Clean[k], g) + GroupLen[g] = s
        /\ Coord(Clean[k], g) \in Coordinate /\ Len(Coord(Clean[k], g)) = n
        /\ Reads(File, s, Coord(Clean[k], g))
        /\ Place(Clean, k - 1) + GroupAt(Clean[k], g + 1) = s + n
        /\ s + n < Len(File)
        /\ File[s + n + 1] \in {Comma, Shut}
  BY ONLY db \in Database, k \in 1 .. Len(db), g \in 1 .. 2, NumberPlace, Zenon
<1>4. GroupEnd(g) = s
  BY <1>2, <1>3 DEF GroupEnd
<1> DEFINE c == Coord(This, g)
<1>5. c \in Coordinate /\ Len(c) = n /\ Reads(File, s, c)
  BY <1>2, <1>3
<1>6. \A i \in 1 .. n : c[i] \notin {Comma, Shut}
  BY <1>5, GoodCoordinate
<1> HIDE DEF c
<1>7. \A i \in 1 .. n : File[s + i] = c[i]
  BY ONLY <1>5, Zenon DEF Reads
<1>8. Ends(File, {Comma, Shut}, s, n)
  <2>1. \A i \in s + 1 .. s + n : File[i] \notin {Comma, Shut}
    <3>1. \A i \in s + 1 .. s + n : i - s \in 1 .. n /\ s + (i - s) = i
      OBVIOUS
    <3> QED
      BY ONLY <1>6, <1>7, <3>1, Zenon
  <2> QED
    BY ONLY <1>3, <2>1, Zenon DEF Ends
<1>9. LiteralPlace(g + 1, 1) = s + n
  <2>1. LiteralAt[g + 1][1] = 0
    <3>1. LiteralAt[2][1] = 0 /\ LiteralAt[3][1] = 0
      BY DEF LiteralAt
    <3>2. g + 1 = 2 \/ g + 1 = 3
      OBVIOUS
    <3> QED
      BY ONLY <3>1, <3>2, Zenon
  <2>2. LiteralPlace(g + 1, 1) = s + n + 0
    BY <1>2, <1>3, <2>1 DEF LiteralPlace
  <2> QED
    BY <2>2
<1>10. /\ Expect[2][1] = <<Comma>> /\ Expect[3][1] = <<Shut, Comma>>
       /\ 1 <= Len(Expect[2]) /\ 1 <= Len(Expect[3])
  BY DEF Expect
<1>11. ASSUME g = 1 PROVE File[s + n + 1] = Comma
  <2>1. Reads(File, LiteralPlace(2, 1), Expect[2][1])
    <3>1. 2 \in 1 .. 3 /\ 1 \in 1 .. 4
      OBVIOUS
    <3> QED
      BY ONLY <1>10, <3>1, db \in Database, Len(list) \in 1 .. Len(db), LiteralPlaces,
         Zenon
  <2>2. LiteralPlace(2, 1) = s + n
    <3>1. g + 1 = 2
      BY <1>11
    <3> QED
      BY <1>9, <3>1
  <2>3. Reads(File, s + n, <<Comma>>)
    BY <1>10, <2>1, <2>2
  <2>4. 1 \in 1 .. 1
    OBVIOUS
  <2> QED
    BY ONLY <2>3, <2>4, LiteralElements, Zenon DEF Reads
<1>12. ASSUME g = 2
       PROVE  /\ s + n + 2 <= Len(File)
              /\ File[s + n + 1] = Shut /\ File[s + n + 2] = Comma
  <2>1. Reads(File, LiteralPlace(3, 1), Expect[3][1])
    <3>1. 3 \in 1 .. 3 /\ 1 \in 1 .. 4
      OBVIOUS
    <3> QED
      BY ONLY <1>10, <3>1, db \in Database, Len(list) \in 1 .. Len(db), LiteralPlaces,
         Zenon
  <2>2. LiteralPlace(3, 1) = s + n
    <3>1. g + 1 = 3
      BY <1>12
    <3> QED
      BY <1>9, <3>1
  <2>3. Reads(File, s + n, <<Shut, Comma>>)
    BY <1>10, <2>1, <2>2
  <2>4. 1 \in 1 .. 2 /\ 2 \in 1 .. 2
    OBVIOUS
  <2> QED
    BY ONLY <2>3, <2>4, LiteralElements, Zenon DEF Reads
<1>13. /\ GroupEnd(g) = s
       /\ Coord(This, g) \in Coordinate /\ Len(Coord(This, g)) = n
       /\ \A i \in 1 .. n : File[s + i] = Coord(This, g)[i]
  BY <1>4, <1>5, <1>7 DEF c
<1> QED
  BY ONLY <1>8, <1>9, <1>11, <1>12, <1>13, s \in Nat, n \in Nat, Zenon

\* Behind a latitude the next comma or brace but one is the brace that ends the
\* longitude.
LEMMA LatitudeFollowed ==
  ASSUME db \in Database, Len(list) \in 1 .. Len(db),
         NEW s \in Nat, NEW n \in Nat, LiteralPlace(2, 1) = s + n
  PROVE  \E q \in Nat : /\ s + n + 1 < q /\ q <= Len(File) /\ File[q] = Shut
                        /\ \A i \in s + n + 2 .. q - 1 : File[i] \notin {Comma, Shut}
<1>1. /\ Expect[2][1] = <<Comma>> /\ Expect[2][2] = Key("longitude")
      /\ Len(Expect[2]) = 2
  BY DEF Expect
<1>2. 2 \in 1 .. 3 /\ 1 \in 1 .. 4 /\ 2 \in 1 .. 4 /\ 1 <= 2 /\ 2 <= 2 /\ 1 < 2
      /\ ~(2 < 2) /\ 1 + 1 = 2 /\ 2 \in 1 .. 2
  OBVIOUS
<1>3. LiteralPlace(2, 2) = s + n + 1
  <2>1. LiteralPlace(2, 1 + 1) = LiteralPlace(2, 1) + Len(Expect[2][1])
    BY <1>1, <1>2, LiteralPlaces
  <2> QED
    BY ONLY <1>1, <1>2, <2>1, LiteralPlace(2, 1) = s + n, LiteralElements, Zenon
<1>4. /\ Reads(File, LiteralPlace(2, 2), Expect[2][2])
      /\ GroupEnd(2) = LiteralPlace(2, 2) + Len(Expect[2][2])
  BY <1>1, <1>2, LiteralPlaces
<1> DEFINE key == Key("longitude")
<1>5. Reads(File, s + n + 1, key)
  BY <1>1, <1>3, <1>4
<1>6. /\ Len(key) = 4
      /\ key[1] = Quote /\ key[2] = "longitude" /\ key[3] = Quote /\ key[4] = ":"
  BY LiteralElements
<1>7. GroupEnd(2) = s + n + 5
  <2>1. GroupEnd(2) = s + n + 1 + 4
    BY <1>1, <1>3, <1>4, <1>6
  <2> QED
    BY <2>1
<1> HIDE DEF key
<1>8. \A i \in 1 .. 4 : File[(s + n + 1) + i] \notin {Comma, Shut}
  <2>1. \A i \in 1 .. 4 : File[(s + n + 1) + i] = key[i]
    BY ONLY <1>5, <1>6, Zenon DEF Reads
  <2>2. \A i \in 1 .. 4 : i = 1 \/ i = 2 \/ i = 3 \/ i = 4
    OBVIOUS
  <2>3. \A i \in 1 .. 4 : key[i] \notin {Comma, Shut}
    BY ONLY <1>6, <2>2, Distinct2, Zenon
  <2> QED
    BY ONLY <2>1, <2>3, Zenon
<1>9. PICK u \in Nat, m \in Nat :
        /\ GroupEnd(2) = u
        /\ Ends(File, {Comma, Shut}, u, m)
        /\ File[u + m + 1] = Shut /\ u + m + 2 <= Len(File)
  BY <1>2, NumberEnds
<1>10. PICK z \in Nat : Len(File) = z
  BY CleanFile
<1> DEFINE q == u + m + 1
<1>11. q \in Nat /\ s + n + 1 < q /\ q <= Len(File) /\ File[q] = Shut
  <2>1. u = s + n + 5 /\ u + m + 2 <= z
    BY <1>7, <1>9, <1>10
  <2>2. q \in Nat /\ s + n + 1 < q /\ q <= z
    BY ONLY <2>1, s \in Nat, n \in Nat, u \in Nat, m \in Nat, z \in Nat
  <2> QED
    BY <1>9, <1>10, <2>2
<1>12. ASSUME NEW i \in s + n + 2 .. q - 1 PROVE File[i] \notin {Comma, Shut}
  <2>1. u = s + n + 5
    BY <1>7, <1>9
  <2>2. \/ i - (s + n + 1) \in 1 .. 4 /\ (s + n + 1) + (i - (s + n + 1)) = i
        \/ i \in u + 1 .. u + m
    BY ONLY <2>1, s \in Nat, n \in Nat, u \in Nat, m \in Nat, i \in s + n + 2 .. q - 1
  <2>3. \A x \in u + 1 .. u + m : File[x] \notin {Comma, Shut}
    BY ONLY <1>9, Zenon DEF Ends
  <2> QED
    BY ONLY <1>8, <2>2, <2>3, Zenon
<1> HIDE DEF q
<1> QED
  BY ONLY <1>11, <1>12, Zenon

\* What Match has found of the literals behind a coordinate and a name.
LEMMA EndFound ==
  ASSUME TextInv
  PROVE  /\ Match(<<Comma>>) => current + 1 <= Size /\ text[current + 1] = Comma
         /\ Match(<<Shut, Comma>>) => /\ current + 2 <= Size
                                      /\ text[current + 1] = Shut
                                      /\ text[current + 2] = Comma
<1>1. text \in Seq(Char) /\ current \in Nat /\ Len(text) = Size
  BY DEF TextInv, TypeOK, Size
<1>2. 1 \in 1 .. 1 /\ 1 \in 1 .. 2 /\ 2 \in 1 .. 2
  OBVIOUS
<1>3. ASSUME Match(<<Comma>>)
      PROVE  current + 1 <= Size /\ text[current + 1] = Comma
  <2> DEFINE s == <<Comma>>
  <2>1. s \in Seq(Char) /\ Len(s) = 1 /\ s[1] = Comma
    BY LiteralText, LiteralElements
  <2> HIDE DEF s
  <2>2. current + Len(s) <= Size /\ SubSeq(text, current + 1, current + Len(s)) = s
    BY <1>3 DEF Match, s
  <2>3. Reads(text, current, s)
    BY ONLY <1>1, <2>1, <2>2, PieceAt, Zenon
  <2> QED
    BY ONLY <1>1, <1>2, <2>1, <2>3, Zenon DEF Reads
<1>4. ASSUME Match(<<Shut, Comma>>)
      PROVE  /\ current + 2 <= Size
             /\ text[current + 1] = Shut /\ text[current + 2] = Comma
  <2> DEFINE s == <<Shut, Comma>>
  <2>1. s \in Seq(Char) /\ Len(s) = 2 /\ s[1] = Shut /\ s[2] = Comma
    BY LiteralText, LiteralElements
  <2> HIDE DEF s
  <2>2. current + Len(s) <= Size /\ SubSeq(text, current + 1, current + Len(s)) = s
    BY <1>4 DEF Match, s
  <2>3. Reads(text, current, s)
    BY ONLY <1>1, <2>1, <2>2, PieceAt, Zenon
  <2> QED
    BY ONLY <1>1, <1>2, <2>1, <2>3, Zenon DEF Reads
<1> QED
  BY ONLY <1>3, <1>4, Zenon

\* A number in step, or one whose end was changed.
LEMMA ReadLongEdited ==
  ASSUME TextInv, db \in Database, NEW a, EditAt(a), NumberAfter(a), ReadLong
  PROVE  InDamaged(a)'
<1> DEFINE k == Len(list)
           D == {Comma, Shut}
           t == SubSeq(text, start + 1, current)
           v == Int32(Long(t))
           e == list[k]
           filled == IF at.group = 1 THEN [e EXCEPT !.lat = v] ELSE [e EXCEPT !.lon = v]
<1>1. /\ pc = "number" /\ UNCHANGED <<text, current, failed, start, db, damage>>
      /\ ~InNumber
  BY DEF ReadLong
<1>2. /\ text' = text /\ db' = db /\ Size' = Size
      /\ Clean' = Clean /\ File' = File /\ LoadedDb' = LoadedDb
      /\ \A c, p, j : InStep(a, c, p, j)' <=> InStep(a, c, p, j)
      /\ \A p : LonFails(p)' <=> LonFails(p)
  BY <1>1, SameEdit
<1>3. /\ text \in Seq(Char) /\ Len(text) = Size /\ Size \in Nat
      /\ current \in Nat /\ start \in Nat /\ list \in Seq(Entry) /\ k \in Nat
      /\ Len(db) \in Nat /\ Len(File) \in Nat /\ a \in Nat
      /\ Shift \in {-1, 0, 1} /\ ChangedAt(text, File, Shift, a)
  BY EditTypes
<1>4. current <= Size /\ list # <<>>
  BY <1>1 DEF TextInv, IndexInRange, PlaceInv
<1>5. PICK g \in 1 .. 2 : at.group = g
  BY <1>1 DEF TextInv, TypeOK, PlaceInv
<1>6. /\ start <= current
      /\ \A i \in start + 1 .. current : text[i] \notin D
  BY DEF NumberAfter
<1>7. current = Size \/ text[current + 1] \in D
  BY <1>1 DEF InNumber
<1>8. k >= 1
  BY <1>3, <1>4, EmptySeq
<1> HIDE DEF D
<1>9. CASE Throws(t)
  <2>1. pc' = "threw"
    BY <1>9 DEF ReadLong
  <2> QED
    BY <2>1 DEF InDamaged
<1>10. CASE ~Throws(t)
  <2>1. /\ list' = [list EXCEPT ![k] = filled]
        /\ at' = [group |-> at.group + 1, i |-> 1] /\ pc' = "match"
    BY <1>10 DEF ReadLong
  <2>2. t \in Seq(Char) /\ v \in Int32Range
    <3>1. t \in Seq(Char)
      BY <1>3, <1>4, PieceType
    <3> HIDE DEF t
    <3> QED
      BY <3>1, LongType, Int32Type
  <2>3. e \in Entry /\ k \in 1 .. Len(list)
    <3>1. k \in 1 .. Len(list)
      BY <1>3, <1>8
    <3> QED
      BY <1>3, <3>1, ElementOfSeq
  <2> HIDE DEF v, t
  <2>4. filled \in Entry
    <3> HIDE DEF e
    <3> QED
      BY <2>2, <2>3 DEF Entry
  <2>5. /\ Len(list') = k /\ list'[k] = filled
        /\ \A j \in 1 .. k : j # k => list'[j] = list[j]
    <3> HIDE DEF filled
    <3> QED
      BY <1>3, <2>1, <2>3, <2>4, ExceptSeq
  <2>6. at'.group = g + 1 /\ at'.i = 1
    BY <1>5, <2>1
  <2>7. Expect[g + 1][1] = IF g = 1 THEN <<Comma>> ELSE <<Shut, Comma>>
    <3>1. Expect[2][1] = <<Comma>> /\ Expect[3][1] = <<Shut, Comma>>
      BY DEF Expect
    <3>2. /\ g = 1 \/ g = 2
          /\ 1 + 1 = 2 /\ 2 + 1 = 3 /\ 2 # 1
      BY ONLY g \in 1 .. 2
    <3> QED
      BY ONLY <3>1, <3>2, Zenon
  <2> HIDE DEF e, filled
  <2>8. ASSUME ~Match(Expect[g + 1][1]) PROVE InDamaged(a)'
    <3>1. ~Match(Expect[at.group][at.i])'
      BY <1>1, <1>2, <2>6, <2>8 DEF Match
    <3>2. MatchAfter(a)'
      BY <3>1 DEF MatchAfter
    <3> QED
      BY <2>1, <3>2 DEF InDamaged
  <2>9. ASSUME NEW i \in 0 .. Len(db), HasReadBut(k - 1, i), k <= Len(db),
               Len(list) # i => CoordsRead(at.group)',
               InStep(a, current, LiteralPlace(g + 1, 1), i)
        PROVE  InDamaged(a)'
    <3>1. This' = This /\ Begin' = Begin
      BY <1>2, <2>5 DEF This, Begin
    <3>2. LiteralPlace(at.group, at.i)' = LiteralPlace(g + 1, 1)
      BY <2>6, <3>1 DEF LiteralPlace
    <3>3. HasReadBut(Len(list) - 1, i)'
      <4>1. \A j \in 1 .. k - 1 : j \in 1 .. k /\ j # k
        BY ONLY <1>3
      <4>2. \A j \in 1 .. k - 1 : j # i => list'[j] = LoadedDb[j]
        BY <2>5, <2>9, <4>1 DEF HasReadBut
      <4> QED
        BY <1>2, <2>5, <2>9, <4>2 DEF HasReadBut
    <3>4. ReadingBut(i)'
      BY <1>2, <1>8, <2>5, <2>9, <3>3 DEF ReadingBut
    <3>5. MatchAfter(a)'
      BY <1>1, <1>2, <2>9, <3>2, <3>4 DEF MatchAfter
    <3> QED
      BY <2>1, <3>5 DEF InDamaged
  <2>10. CASE at.group = 2 /\ LonFails(start)
    <3>1. g = 2
      BY <1>5, <2>10
    <3>2. ~Match(<<Shut, Comma>>)
      <4>1. SUFFICES ASSUME Match(<<Shut, Comma>>) PROVE FALSE
        OBVIOUS
      <4>2. current + 2 <= Size /\ text[current + 1] = Shut
        BY <4>1, EndFound
      <4>3. PICK y \in start + 1 .. Len(text) :
              text[y] = Comma /\ \A i \in start + 1 .. y - 1 : text[i] \notin D
        BY <2>10 DEF LonFails, CommaAt, D
      <4>4. y \notin start + 1 .. current
        BY <1>6, <4>3 DEF D
      <4>5. y # current + 1
        BY <4>2, <4>3, Distinct2
      <4>6. current + 1 \in start + 1 .. y - 1
        BY ONLY <1>3, <1>6, <4>4, <4>5, y \in start + 1 .. Len(text)
      <4> QED
        BY <4>2, <4>3, <4>6 DEF D
    <3>3. ~Match(Expect[g + 1][1])
      BY ONLY <2>7, <3>1, <3>2
    <3> QED
      BY <2>8, <3>3
  <2>11. ASSUME NEW j \in 0 .. Len(db), ReadingBut(j),
                InStep(a, start, GroupEnd(at.group), j)
         PROVE  InDamaged(a)'
    <3>1. /\ k \in 1 .. Len(db) /\ k <= Len(db)
          /\ HasReadBut(k - 1, j) /\ (k # j => CoordsRead(g))
      <4>1. k <= Len(db) /\ HasReadBut(k - 1, j) /\ (k # j => CoordsRead(g))
        BY <1>5, <2>11 DEF ReadingBut
      <4> QED
        BY <1>3, <1>8, <4>1
    <3>2. PICK s \in Nat, n \in Nat :
            /\ GroupEnd(g) = s
            /\ Coord(This, g) \in Coordinate /\ Len(Coord(This, g)) = n
            /\ \A i \in 1 .. n : File[s + i] = Coord(This, g)[i]
            /\ Ends(File, {Comma, Shut}, s, n)
            /\ LiteralPlace(g + 1, 1) = s + n
            /\ g = 1 => File[s + n + 1] = Comma
            /\ g = 2 => /\ s + n + 2 <= Len(File)
                        /\ File[s + n + 1] = Shut /\ File[s + n + 2] = Comma
      BY ONLY <3>1, db \in Database, g \in 1 .. 2, NumberEnds, Zenon
    <3>3. Stops(text, {Comma, Shut}, start, current)
      BY <1>3, <1>4, <1>6, <1>7 DEF Stops, D
    <3>4. Aligned(Shift, a, start, s, j)
      BY <1>5, <2>11, <3>2 DEF InStep
    <3>5. PICK z \in Nat : Len(File) = z
      BY <1>3
    <3>6. \/ SameScan(text, File, Shift, a, start, s, j, n, current)
          \/ /\ j = 0 /\ start = s /\ s <= a /\ a <= s + n
             /\ \/ OtherScan(Shift, a, s, n, current)
                \/ Split(text, File, {Comma, Shut}, Shift, a, s, n, current)
                \/ Joins(text, File, {Comma, Shut}, Shift, a, s, n, current)
      <4>1. /\ ChangedAt(text, File, Shift, a) /\ start \in Nat /\ current \in Nat
            /\ Ends(File, {Comma, Shut}, s, n)
        BY ONLY <1>3, <3>2, Zenon
      <4> QED
        BY ONLY <3>3, <3>4, <3>5, <4>1, s \in Nat, n \in Nat, z \in Nat, ScanAligned,
           Zenon
    <3>7. CASE SameScan(text, File, Shift, a, start, s, j, n, current)
      <4> DEFINE c == Coord(This, g)
      <4>1. /\ current = start + n /\ Aligned(Shift, a, current, s + n, j)
            /\ \A i \in 1 .. n : text[start + i] = File[s + i]
        BY <3>7 DEF SameScan
      <4>2. /\ c \in Seq(Char) /\ Int32(Long(c)) = Long(c) /\ Len(c) = n
        BY <3>2, GoodCoordinate
      <4>3. \A i \in 1 .. n : text[start + i] = c[i]
        BY <3>2, <4>1
      <4> HIDE DEF c
      <4>4. t = c
        <5>1. start + n <= Len(text)
          BY <1>3, <1>4, <4>1
        <5>2. SubSeq(text, start + 1, start + n) = c
          BY ONLY <1>3, <4>2, <4>3, <5>1, n \in Nat, PieceIs, Zenon
        <5> QED
          BY <4>1, <5>2 DEF t
      <4>5. v = Long(c)
        BY <4>2, <4>4 DEF v
      <4>6. This' = This
        BY <1>2, <2>5 DEF This
      <4>7. ASSUME k # j PROVE CoordsRead(at.group)'
        <5>1. CoordsRead(g)
          BY <3>1, <4>7
        <5>2. CASE g = 1
          <6>1. filled.lat = v /\ c = This.lat
            BY <1>5, <2>3, <5>2 DEF Coord, Entry, filled, c
          <6>2. list'[k].lat = Long(This.lat) /\ at'.group = 2
            BY <2>5, <2>6, <4>5, <5>2, <6>1
          <6> QED
            BY <2>5, <4>6, <6>2 DEF CoordsRead
        <5>3. CASE g = 2
          <6>1. filled.lon = v /\ filled.lat = e.lat /\ c = This.lon
            BY <1>5, <2>3, <5>3 DEF Coord, Entry, filled, c
          <6>2. e.lat = Long(This.lat)
            BY <5>1, <5>3 DEF CoordsRead, e
          <6>3. list'[k].lat = Long(This.lat) /\ list'[k].lon = Long(This.lon)
            BY <2>5, <4>5, <6>1, <6>2
          <6> QED
            BY <2>5, <4>6, <6>3 DEF CoordsRead
        <5> QED
          BY <5>2, <5>3
      <4>8. InStep(a, current, LiteralPlace(g + 1, 1), j)
        BY <3>2, <4>1 DEF InStep
      <4> QED
        BY <2>9, <3>1, <4>7, <4>8
    <3>8. CASE j = 0 /\ OtherScan(Shift, a, s, n, current)
      <4>1. Aligned(Shift, a, current, s + n, k)
        BY <1>8, <3>8 DEF OtherScan, Aligned
      <4>2. InStep(a, current, LiteralPlace(g + 1, 1), k)
        BY <3>2, <4>1 DEF InStep
      <4>3. HasReadBut(k - 1, k) /\ k \in 0 .. Len(db)
        <5>1. \A i \in 1 .. k - 1 : i # 0
          BY ONLY <1>3
        <5>2. k \in 0 .. Len(db)
          BY <1>3, <3>1
        <5>3. k - 1 <= Len(db) /\ \A i \in 1 .. k - 1 : i # j => list[i] = LoadedDb[i]
          BY <3>1 DEF HasReadBut
        <5> QED
          BY ONLY <3>8, <5>1, <5>2, <5>3, Zenon DEF HasReadBut
      <4> QED
        BY <2>9, <3>1, <4>2, <4>3
    <3>9. CASE /\ s <= a /\ a <= s + n
               /\ \/ Split(text, File, {Comma, Shut}, Shift, a, s, n, current)
                  \/ Joins(text, File, {Comma, Shut}, Shift, a, s, n, current)
      <4>1. CASE g = 1 /\ current < Len(text) /\ text[current + 1] = Comma
        <5>1. LiteralPlace(2, 1) = s + n
          <6>1. g + 1 = 2
            BY <4>1
          <6> QED
            BY <3>2, <6>1
        <5>2. PICK q \in Nat :
                /\ s + n + 1 < q /\ q <= Len(File) /\ File[q] = Shut
                /\ \A i \in s + n + 2 .. q - 1 : File[i] \notin {Comma, Shut}
          BY ONLY <3>1, <5>1, db \in Database, s \in Nat, n \in Nat,
             LatitudeFollowed, Zenon
        <5>3. q <= z /\ File[s + n + 1] = Comma
          BY <3>2, <3>5, <4>1, <5>2
        <5>4. CommaAt(text, current + 1)
          BY ONLY <1>3, <3>2, <3>5, <3>9, <4>1, <5>2, <5>3, s \in Nat, n \in Nat,
             q \in Nat, z \in Nat, LatitudeEnd, Zenon
        <5>5. at'.group = 2 /\ at'.i = 1
          BY <2>6, <4>1
        <5>6. LonFails(IF at.i = 1 THEN current + 1 ELSE current)'
          BY <1>1, <1>2, <5>4, <5>5 DEF LonFails
        <5>7. MatchAfter(a)'
          BY <5>5, <5>6 DEF MatchAfter
        <5> QED
          BY <2>1, <5>7 DEF InDamaged
      <4>2. CASE g = 1 /\ ~(current < Len(text) /\ text[current + 1] = Comma)
        <5>1. ~Match(<<Comma>>)
          <6>1. SUFFICES ASSUME Match(<<Comma>>) PROVE FALSE
            OBVIOUS
          <6>2. current + 1 <= Size /\ text[current + 1] = Comma
            BY <6>1, EndFound
          <6>3. current < Len(text)
            BY <1>3, <6>2
          <6> QED
            BY <4>2, <6>2, <6>3
        <5>2. ~Match(Expect[g + 1][1])
          BY ONLY <2>7, <4>2, <5>1
        <5> QED
          BY <2>8, <5>2
      <4>3. CASE g = 2
        <5>1. ~Match(<<Shut, Comma>>)
          <6>1. SUFFICES ASSUME Match(<<Shut, Comma>>) PROVE FALSE
            OBVIOUS
          <6>2. /\ current + 2 <= Len(text)
                /\ text[current + 1] = Shut /\ text[current + 2] = Comma
            BY <1>3, <6>1, EndFound
          <6>3. /\ s + n + 2 <= z
                /\ File[s + n + 1] = Shut /\ File[s + n + 2] = Comma
            BY <3>2, <3>5, <4>3
          <6>4. /\ ChangedAt(text, File, Shift, a) /\ current \in Nat
                /\ Ends(File, {Comma, Shut}, s, n)
            BY ONLY <1>3, <3>2, Zenon
          <6> QED
            BY ONLY <3>5, <3>9, <6>2, <6>3, <6>4, s \in Nat, n \in Nat, z \in Nat,
               LongitudeEnd, Zenon
        <5>2. ~Match(Expect[g + 1][1])
          BY ONLY <2>7, <4>3, <5>1
        <5> QED
          BY <2>8, <5>2
      <4>4. g = 1 \/ g = 2
        OBVIOUS
      <4> QED
        BY ONLY <4>1, <4>2, <4>3, <4>4, Zenon
    <3> QED
      BY ONLY <3>6, <3>7, <3>8, <3>9, Zenon
  <2> QED
    BY <2>10, <2>11 DEF NumberAfter
<1> QED
  BY <1>9, <1>10

\* A name in the file, and what follows it.
LEMMA NameEnds ==
  ASSUME db \in Database, Len(list) \in 1 .. Len(db)
  PROVE  \E s, n \in Nat :
           /\ GroupEnd(3) = s /\ QuotePlace = s + n
           /\ This.name \in Seq(Char) /\ Len(This.name) = n
           /\ \A i \in 1 .. n : File[s + i] = This.name[i]
           /\ Ends(File, {Quote}, s, n)
           /\ File[s + n + 2] = Shut
           /\ Place(Clean, Len(list)) = s + n + 3 /\ s + n + 3 <= Len(File)
<1>1. PICK k \in 1 .. Len(db) : k = Len(list)
  OBVIOUS
<1>2. Begin = Place(Clean, k - 1) /\ This = Clean[k]
  BY <1>1 DEF Begin, This
<1>3. PICK s \in Nat, n \in Nat :
        /\ Place(Clean, k - 1) + GroupAt(Clean[k], 3) + GroupLen[3] = s
        /\ Place(Clean, k - 1) + QuoteAt(Clean[k]) = s + n
        /\ Clean[k].name \in Seq(Char \ {Quote}) /\ Clean[k].name \in Seq(Char)
        /\ Len(Clean[k].name) = n
        /\ Reads(File, s, Clean[k].name)
        /\ File[s + n + 1] = Quote /\ File[s + n + 2] = Shut
        /\ Place(Clean, k) = s + n + 3
        /\ s + n + 3 <= Len(File)
  BY ONLY db \in Database, k \in 1 .. Len(db), NamePlace, Zenon
<1>4. GroupEnd(3) = s /\ QuotePlace = s + n
  BY <1>2, <1>3 DEF GroupEnd, QuotePlace
<1> DEFINE c == This.name
<1>5. c \in Seq(Char \ {Quote}) /\ c \in Seq(Char) /\ Len(c) = n /\ Reads(File, s, c)
  BY <1>2, <1>3
<1> HIDE DEF c
<1>6. \A i \in 1 .. n : c[i] # Quote
  BY <1>5, ElementOfSeq
<1>7. \A i \in 1 .. n : File[s + i] = c[i]
  BY ONLY <1>5, Zenon DEF Reads
<1>8. PICK z \in Nat : Len(File) = z
  BY CleanFile
<1>9. Ends(File, {Quote}, s, n)
  <2>1. \A i \in s + 1 .. s + n : File[i] \notin {Quote}
    <3>1. \A i \in s + 1 .. s + n : i - s \in 1 .. n /\ s + (i - s) = i
      OBVIOUS
    <3> QED
      BY ONLY <1>6, <1>7, <3>1, Zenon
  <2>2. s + n < Len(File)
    BY <1>3, <1>8
  <2> QED
    BY ONLY <1>3, <2>1, <2>2, Zenon DEF Ends
<1>10. /\ This.name \in Seq(Char) /\ Len(This.name) = n
       /\ \A i \in 1 .. n : File[s + i] = This.name[i]
  BY <1>5, <1>7 DEF c
<1> QED
  BY ONLY <1>1, <1>3, <1>4, <1>9, <1>10, s \in Nat, n \in Nat, Zenon

\* Behind a feature that is not the last there are a comma and the next.
LEMMA NextFeature ==
  ASSUME db \in Database, NEW k \in 1 .. Len(db), k # Len(db),
         NEW p \in Nat, Place(Clean, k) = p
  PROVE  /\ p + 3 <= Len(File)
         /\ File[p] = Comma /\ File[p + 1] = Open
         /\ File[p + 2] = Quote /\ File[p + 3] = "location"
<1>1. File[p] = Comma
  BY FeaturePlace
<1>2. PICK j \in 1 .. Len(db) : j - 1 = k
  <2>1. k + 1 \in 1 .. Len(db) /\ (k + 1) - 1 = k
    BY CleanFile
  <2> QED
    BY <2>1
<1>3. Spelled(File, p, Clean[j])
  <2>1. Spelled(File, Place(Clean, j - 1), Clean[j])
    BY FeaturePlace
  <2> QED
    BY <1>2, <2>1
<1>4. /\ Expect[1][1] = <<Open>> /\ Expect[1][2] = Key("location")
      /\ 1 \in 1 .. Len(Expect[1]) /\ 2 \in 1 .. Len(Expect[1]) /\ 1 \in 1 .. 3
  BY DEF Expect
<1>5. LiteralAt[1][1] = 0 /\ LiteralAt[1][2] = 1 /\ GroupAt(Clean[j], 1) = 0
  BY DEF LiteralAt, GroupAt
<1>6. /\ Reads(File, p + GroupAt(Clean[j], 1) + LiteralAt[1][1], Expect[1][1])
      /\ Reads(File, p + GroupAt(Clean[j], 1) + LiteralAt[1][2], Expect[1][2])
  BY ONLY <1>3, <1>4, Zenon DEF Spelled
<1>7. Reads(File, p, <<Open>>) /\ Reads(File, p + 1, Key("location"))
  <2>1. p + 0 + 0 = p /\ p + 0 + 1 = p + 1
    OBVIOUS
  <2> QED
    BY ONLY <1>4, <1>5, <1>6, <2>1, Zenon
<1>8. File[p + 1] = Open
  <2>1. 1 \in 1 .. 1
    OBVIOUS
  <2> QED
    BY ONLY <1>7, <2>1, LiteralElements, Zenon DEF Reads
<1>9. /\ (p + 1) + 4 <= Len(File)
      /\ File[(p + 1) + 1] = Quote /\ File[(p + 1) + 2] = "location"
  <2>1. 1 \in 1 .. 4 /\ 2 \in 1 .. 4
    OBVIOUS
  <2> DEFINE s == Key("location")
  <2>2. Len(s) = 4 /\ s[1] = Quote /\ s[2] = "location" /\ Reads(File, p + 1, s)
    BY <1>7, LiteralElements
  <2> HIDE DEF s
  <2> QED
    BY ONLY <2>1, <2>2, Zenon DEF Reads
<1>10. (p + 1) + 1 = p + 2 /\ (p + 1) + 2 = p + 3 /\ p + 3 <= Len(File)
  <2>1. PICK z \in Nat : Len(File) = z
    BY CleanFile
  <2> QED
    BY <1>9, <2>1
<1> QED
  BY ONLY <1>1, <1>8, <1>9, <1>10, Zenon

\* A name in step, one cut in two or one that runs on.
LEMMA ReadNameEdited ==
  ASSUME TextInv, db \in Database, NEW a, EditAt(a),
         pc = "named" => /\ current > start /\ text[current] = Quote
                         /\ NameAfter(a, current - 1),
         ReadName
  PROVE  InDamaged(a)'
<1> DEFINE k == Len(list)
           t == SubSeq(text, start + 1, current - 1)
           e == list[k]
           filled == [e EXCEPT !.name = t]
<1>1. /\ pc = "named" \/ (pc = "name" /\ current = Size)
      /\ UNCHANGED <<text, current, failed, at, start, db, damage>>
  BY DEF ReadName
<1>2. /\ text' = text /\ db' = db /\ Size' = Size
      /\ Clean' = Clean /\ File' = File /\ LoadedDb' = LoadedDb
      /\ \A c, p, j : InStep(a, c, p, j)' <=> InStep(a, c, p, j)
      /\ \A p : KeyFails(p)' <=> KeyFails(p)
  BY <1>1, SameEdit
<1>3. /\ text \in Seq(Char) /\ Len(text) = Size /\ Size \in Nat
      /\ current \in Nat /\ start \in Nat /\ list \in Seq(Entry) /\ k \in Nat
      /\ Len(db) \in Nat /\ Len(File) \in Nat /\ a \in Nat
      /\ Shift \in {-1, 0, 1} /\ ChangedAt(text, File, Shift, a)
  BY EditTypes
<1>4. current <= Size /\ list # <<>>
  BY <1>1 DEF TextInv, IndexInRange, PlaceInv
<1>5. k >= 1
  BY <1>3, <1>4, EmptySeq
<1>6. CASE current = Size
  <2>1. pc' = "end" /\ list' = <<>>
    BY <1>6 DEF ReadName, Fail
  <2> QED
    BY <2>1 DEF InDamaged, EndAfter
<1>7. CASE current # Size
  <2>1. list' = [list EXCEPT ![k] = filled] /\ pc' = "close"
    BY <1>7 DEF ReadName
  <2>2. current > start /\ text[current] = Quote /\ NameAfter(a, current - 1)
    BY <1>1, <1>7
  <2>3. PICK E \in Nat : current = E + 1 /\ current - 1 = E
    <3>1. current - 1 \in Nat /\ current = (current - 1) + 1
      BY ONLY <1>3, <2>2
    <3> QED
      BY <3>1
  <2>4. PICK j \in 0 .. Len(db) : ReadingBut(j) /\ InStep(a, start, GroupEnd(3), j)
    BY <2>2 DEF NameAfter
  <2>5. /\ start <= E /\ at.group = 3
        /\ \A i \in start + 1 .. E : text[i] # Quote
    BY <2>2, <2>3 DEF NameAfter
  <2>6. /\ k \in 1 .. Len(db) /\ k <= Len(db)
        /\ HasReadBut(k - 1, j) /\ (k # j => CoordsRead(3))
    <3>1. k <= Len(db) /\ HasReadBut(k - 1, j) /\ (k # j => CoordsRead(3))
      BY <2>4, <2>5 DEF ReadingBut
    <3> QED
      BY <1>3, <1>5, <3>1
  <2>7. PICK s \in Nat, n \in Nat :
          /\ GroupEnd(3) = s /\ QuotePlace = s + n
          /\ This.name \in Seq(Char) /\ Len(This.name) = n
          /\ \A i \in 1 .. n : File[s + i] = This.name[i]
          /\ Ends(File, {Quote}, s, n)
          /\ File[s + n + 2] = Shut
          /\ Place(Clean, k) = s + n + 3 /\ s + n + 3 <= Len(File)
    BY ONLY <2>6, db \in Database, NameEnds, Zenon
  <2>8. PICK z \in Nat : Len(File) = z
    BY <1>3
  <2>9. t \in Seq(Char)
    BY <1>3, <1>4, <2>3, PieceType
  <2>10. e \in Entry /\ k \in 1 .. Len(list)
    <3>1. k \in 1 .. Len(list)
      BY <1>3, <1>5
    <3> QED
      BY <1>3, <3>1, ElementOfSeq
  <2> HIDE DEF t
  <2>11. filled \in Entry
    <3> HIDE DEF e
    <3> QED
      BY <2>9, <2>10 DEF Entry
  <2>12. /\ Len(list') = k /\ list'[k] = filled
         /\ \A i \in 1 .. k : i # k => list'[i] = list[i]
    <3> HIDE DEF filled
    <3> QED
      BY <1>3, <2>1, <2>10, <2>11, ExceptSeq
  <2> HIDE DEF e, filled
  <2>13. ASSUME NEW i \in 0 .. Len(db), HasReadBut(k - 1, i),
                k # i => filled = LoadedDb[k],
                InStep(a, current, QuotePlace + 1, i)
         PROVE  InDamaged(a)'
    <3>1. QuotePlace' = QuotePlace
      BY <1>2, <2>12 DEF QuotePlace, Begin, This
    <3>2. \A x \in 1 .. k : x # i => list'[x] = LoadedDb[x]
      <4>1. \A x \in 1 .. k : x = k \/ (x \in 1 .. k - 1 /\ x # k)
        <5>1. \A m \in Nat : \A x \in 1 .. m : x = m \/ (x \in 1 .. m - 1 /\ x # m)
          OBVIOUS
        <5> QED
          BY ONLY <1>3, <5>1, Zenon
      <4>2. \A x \in 1 .. k - 1 : x # i => list[x] = LoadedDb[x]
        BY <2>13 DEF HasReadBut
      <4> QED
        BY ONLY <2>12, <2>13, <4>1, <4>2, Zenon
    <3>3. HasReadBut(Len(list), i)'
      BY <1>2, <2>6, <2>12, <3>2 DEF HasReadBut
    <3>4. CloseAfter(a)'
      BY <1>1, <1>2, <1>5, <2>6, <2>12, <2>13, <3>1, <3>3 DEF CloseAfter
    <3> QED
      BY <2>1, <3>4 DEF InDamaged
  <2>14. ASSUME CloseSucceeds => current + 2 < Size /\ KeyFails(current + 3)
         PROVE  InDamaged(a)'
    <3>1. (CloseSucceeds => current + 2 < Size /\ KeyFails(current + 3))'
      BY <1>1, <1>2, <2>14 DEF CloseSucceeds, Match
    <3>2. CloseAfter(a)'
      BY <3>1 DEF CloseAfter
    <3> QED
      BY <2>1, <3>2 DEF InDamaged
  <2>15. Stops(text, {Quote}, start, E)
    <3>1. E <= Len(text)
      BY <1>3, <1>4, <2>3
    <3>2. text[E + 1] = Quote
      BY <2>2, <2>3
    <3> QED
      BY ONLY <2>5, <3>1, <3>2, Zenon DEF Stops
  <2>16. Aligned(Shift, a, start, s, j)
    BY <2>4, <2>7 DEF InStep
  <2>17. \/ SameScan(text, File, Shift, a, start, s, j, n, E)
         \/ /\ j = 0 /\ start = s /\ s <= a /\ a <= s + n
            /\ \/ OtherScan(Shift, a, s, n, E)
               \/ Split(text, File, {Quote}, Shift, a, s, n, E)
               \/ Joins(text, File, {Quote}, Shift, a, s, n, E)
    <3>1. /\ ChangedAt(text, File, Shift, a) /\ start \in Nat
          /\ Ends(File, {Quote}, s, n)
      BY ONLY <1>3, <2>7, Zenon
    <3> QED
      BY ONLY <2>8, <2>15, <2>16, <3>1, s \in Nat, n \in Nat, z \in Nat, E \in Nat,
         ScanAligned, Zenon
  <2>18. CASE SameScan(text, File, Shift, a, start, s, j, n, E)
    <3> DEFINE c == This.name
    <3>1. /\ E = start + n /\ Aligned(Shift, a, E + 1, s + n + 1, j)
          /\ \A i \in 1 .. n : text[start + i] = File[s + i]
      BY <2>18 DEF SameScan
    <3>2. c \in Seq(Char) /\ Len(c) = n /\ \A i \in 1 .. n : text[start + i] = c[i]
      BY <2>7, <3>1
    <3> HIDE DEF c
    <3>3. t = c
      <4>1. start + n <= Len(text)
        BY <1>3, <1>4, <2>3, <3>1
      <4>2. SubSeq(text, start + 1, start + n) = c
        BY ONLY <1>3, <3>2, <4>1, n \in Nat, PieceIs, Zenon
      <4> QED
        BY <2>3, <3>1, <4>2 DEF t
    <3>4. ASSUME k # j PROVE filled = LoadedDb[k]
      <4>1. e.lat = Long(This.lat) /\ e.lon = Long(This.lon)
        BY <2>6, <3>4 DEF CoordsRead, e
      <4>2. filled = [lat |-> e.lat, lon |-> e.lon, name |-> t]
        BY <2>10 DEF Entry, filled
      <4>3. LoadedDb[k] = [lat |-> Long(Clean[k].lat), lon |-> Long(Clean[k].lon),
                           name |-> Clean[k].name]
        BY <2>6, CleanFeature
      <4> QED
        BY <3>3, <4>1, <4>2, <4>3 DEF This, c
    <3>5. InStep(a, current, QuotePlace + 1, j)
      BY <2>3, <2>7, <3>1 DEF InStep
    <3> QED
      BY <2>6, <2>13, <3>4, <3>5
  <2>19. CASE j = 0 /\ OtherScan(Shift, a, s, n, E)
    <3>1. Aligned(Shift, a, E + 1, s + n + 1, k)
      <4>1. Behind(Shift, a) \in Nat
        BY EditTypes
      <4>2. E = s + n + Shift /\ E >= Behind(Shift, a)
        BY <2>19 DEF OtherScan
      <4>3. E + 1 = s + n + 1 + Shift /\ E + 1 >= Behind(Shift, a) /\ k # 0
        BY ONLY <1>3, <1>5, <4>1, <4>2, s \in Nat, n \in Nat, E \in Nat
      <4> QED
        BY ONLY <4>3, Zenon DEF Aligned
    <3>2. InStep(a, current, QuotePlace + 1, k)
      BY <2>3, <2>7, <3>1 DEF InStep
    <3>3. HasReadBut(k - 1, k) /\ k \in 0 .. Len(db)
      <4>1. \A i \in 1 .. k - 1 : i # 0
        BY ONLY <1>3
      <4>2. k \in 0 .. Len(db)
        BY <1>3, <2>6
      <4>3. k - 1 <= Len(db) /\ \A i \in 1 .. k - 1 : i # j => list[i] = LoadedDb[i]
        BY <2>6 DEF HasReadBut
      <4> QED
        BY ONLY <2>19, <4>1, <4>2, <4>3, Zenon DEF HasReadBut
    <3> QED
      BY <2>13, <3>2, <3>3
  <2>20. CASE /\ s <= a /\ a <= s + n
              /\ Split(text, File, {Quote}, Shift, a, s, n, E)
    <3>1. s + n + 3 <= z /\ File[s + n + 2] = Shut /\ Ends(File, {Quote}, s, n)
      BY <2>7, <2>8
    <3>2. /\ E + 3 < Len(text)
          /\ text[E + 2] = Shut /\ text[E + 3] = Comma => ~KeyAt(text, E + 4)
      BY ONLY <1>3, <2>8, <2>20, <3>1, s \in Nat, n \in Nat, z \in Nat, E \in Nat,
         NameSplit, Zenon
    <3>3. /\ current + 1 = E + 2 /\ current + 2 = E + 3 /\ current + 3 = E + 4
      BY ONLY <2>3
    <3>4. current + 2 < Size /\ current + 2 # Size
      <4>1. E + 3 < Size
        BY <1>3, <3>2
      <4> QED
        BY ONLY <1>3, <3>3, <4>1
    <3>5. ASSUME CloseSucceeds PROVE KeyFails(current + 3)
      <4>1. Match(<<Shut, Comma>>)
        BY <3>4, <3>5 DEF CloseSucceeds
      <4>2. text[current + 1] = Shut /\ text[current + 2] = Comma
        BY <4>1, EndFound
      <4>3. ~KeyAt(text, E + 4)
        BY <3>2, <3>3, <4>2
      <4> QED
        BY <3>3, <4>3 DEF KeyFails
    <3> QED
      BY <2>14, <3>4, <3>5
  <2>21. CASE Joins(text, File, {Quote}, Shift, a, s, n, E)
    <3>1. File[s + n + 2] = Shut /\ Ends(File, {Quote}, s, n) /\ E < Len(text)
      BY <1>3, <1>4, <2>3, <2>7
    <3>2. EndsInKey(text, File, z, s + n, E)
      <4>1. ChangedAt(text, File, Shift, a)
        BY ONLY <1>3, Zenon
      <4> QED
        BY ONLY <2>8, <2>21, <3>1, <4>1, s \in Nat, n \in Nat, z \in Nat, E \in Nat,
           NameJoins, Zenon
    <3>3. k # Len(db)
      <4>1. SUFFICES ASSUME k = Len(db) PROVE FALSE
        OBVIOUS
      <4>2. File[Place(Clean, k)] = "]" /\ Place(Clean, k) = Len(File)
        BY <2>6, <4>1, FeaturePlace
      <4>3. File[s + n + 3] = "]" /\ z = s + n + 3
        BY <2>7, <2>8, <4>2
      <4>4. z # s + n + 3 \/ File[s + n + 3] = Quote
        BY ONLY <3>2, Zenon DEF EndsInKey
      <4> QED
        BY <4>3, <4>4, Distinct2
    <3> DEFINE p == s + n + 3
    <3>4. /\ p \in Nat /\ p + 1 = s + n + 4 /\ p + 2 = s + n + 5 /\ p + 3 = s + n + 6
      OBVIOUS
    <3>5. Place(Clean, k) = p
      BY <2>7
    <3> HIDE DEF p
    <3>6. /\ p + 3 <= Len(File)
          /\ File[p] = Comma /\ File[p + 1] = Open
          /\ File[p + 2] = Quote /\ File[p + 3] = "location"
      BY ONLY <2>6, <3>3, <3>4, <3>5, db \in Database, NextFeature, Zenon
    <3>7. text[E + 2] = "location"
      <4>1. /\ s + n + 6 <= z /\ File[s + n + 3] # Quote /\ File[s + n + 4] # Quote
            /\ File[s + n + 5] = Quote /\ File[s + n + 6] = "location"
        BY ONLY <2>8, <3>4, <3>6, Distinct2, Zenon DEF p
      <4> QED
        BY ONLY <3>2, <4>1, Zenon DEF EndsInKey
    <3>8. text[current + 1] = "location"
      <4>1. current + 1 = E + 2
        BY ONLY <2>3
      <4> QED
        BY <3>7, <4>1
    <3>9. ~CloseSucceeds
      <4>1. "location" \in Word /\ "location" # Shut
        BY LiteralElements, Distinct2
      <4>2. ~Match(<<Shut, Comma>>)
        BY <3>8, <4>1, EndFound
      <4> QED
        BY <3>8, <4>1, <4>2 DEF CloseSucceeds
    <3> QED
      BY <2>14, <3>9
  <2> QED
    BY ONLY <2>17, <2>18, <2>19, <2>20, <2>21, Zenon
<1> QED
  BY <1>6, <1>7

\* The end of a feature.
LEMMA CloseEdited ==
  ASSUME TextInv, db \in Database, NEW a, EditAt(a), CloseAfter(a), Close
  PROVE  InDamaged(a)'
<1> DEFINE k == Len(list)
<1>1. /\ pc = "close" /\ current' = current + 2
      /\ UNCHANGED <<text, failed, at, start, db, damage>>
  BY DEF Close
<1>2. /\ text' = text /\ db' = db /\ Size' = Size
      /\ Clean' = Clean /\ LoadedDb' = LoadedDb
      /\ \A c, p, j : InStep(a, c, p, j)' <=> InStep(a, c, p, j)
      /\ \A p : KeyFails(p)' <=> KeyFails(p)
  BY <1>1, SameEdit
<1>3. /\ Len(text) = Size /\ Size \in Nat /\ current \in Nat /\ k \in Nat
      /\ Len(db) \in Nat /\ Len(File) \in Nat
      /\ Shift \in {-1, 0, 1} /\ Size = Len(File) + Shift
  BY EditTypes
<1> HIDE DEF k
<1>4. CASE ~CloseSucceeds
  <2>1. pc' = "end" /\ list' = <<>>
    BY <1>1, <1>4 DEF Close, CloseSucceeds, Fail
  <2> QED
    BY <2>1 DEF InDamaged, EndAfter
<1>5. CASE CloseSucceeds
  <2>1. pc' = "loop" /\ list' = list
    BY <1>1, <1>5 DEF Close, CloseSucceeds
  <2>2. ASSUME current + 2 < Size, KeyFails(current + 3) PROVE InDamaged(a)'
    <3>1. (current + 2) + 1 = current + 3 /\ ~(current + 2 >= Size)
      BY ONLY <1>3, <2>2
    <3>2. ~Finished' /\ KeyFails(current + 1)'
      BY <1>1, <1>2, <2>2, <3>1 DEF Finished, KeyFails
    <3>3. LoopAfter(a)'
      BY <3>2 DEF LoopAfter
    <3> QED
      BY <2>1, <3>3 DEF InDamaged
  <2>3. ASSUME NEW j \in 0 .. Len(db), k >= 1, k <= Len(db), HasReadBut(k, j),
               InStep(a, current, QuotePlace + 1, j)
        PROVE  InDamaged(a)'
    <3>1. k \in 1 .. Len(db)
      BY ONLY <1>3, <2>3
    <3>2. PICK s \in Nat, n \in Nat :
            /\ QuotePlace = s + n /\ File[s + n + 2] = Shut
            /\ Place(Clean, k) = s + n + 3 /\ s + n + 3 <= Len(File)
      BY <3>1, NameEnds DEF k
    <3>3. PICK p \in Nat : /\ p = QuotePlace + 1 /\ File[p + 1] = Shut
                           /\ Place(Clean, k) = p + 2 /\ p + 2 <= Len(File)
      <4>1. /\ s + n + 1 \in Nat /\ (s + n + 1) + 1 = s + n + 2
            /\ (s + n + 1) + 2 = s + n + 3
        OBVIOUS
      <4> QED
        BY ONLY <3>2, <4>1, Zenon
    <3>4. InStep(a, current, p, j)
      BY <2>3, <3>3
    <3>5. HasReadBut(Len(list), j)'
      BY <1>2, <2>1, <2>3 DEF HasReadBut, k
    <3>6. \/ j = 0 /\ current = p
          \/ j # 0 /\ current = p + Shift
      BY <3>4 DEF InStep, Aligned
    <3>7. CASE k # Len(db)
      <4>1. File[p + 2] = Comma
        BY <3>1, <3>3, <3>7, FeaturePlace
      <4>2. p + 2 + 25 <= Len(File)
        <5>1. k < Len(db)
          BY ONLY <1>3, <2>3, <3>7
        <5>2. Place(Clean, k) + 25 <= Len(File)
          BY <1>3, <5>1, FeatureRoom
        <5> QED
          BY <3>3, <5>2
      <4>3. current + 2 # Size
        BY ONLY <1>3, <3>6, <4>2, p \in Nat
      <4>4. Match(<<Shut, Comma>>)
        BY <1>5, <4>3 DEF CloseSucceeds
      <4> DEFINE w == <<Shut, Comma>>
      <4>5. w \in Seq(Char) /\ Len(w) = 2 /\ w[1] = Shut /\ w[2] = Comma /\ Match(w)
        BY <4>4, LiteralText, LiteralElements
      <4> HIDE DEF w
      <4>6. Reads(File, p, w)
        <5>1. \A i \in 1 .. 2 : i = 1 \/ i = 2
          OBVIOUS
        <5> QED
          BY ONLY <3>3, <4>1, <4>5, <5>1, Zenon DEF Reads
      <4>7. InStep(a, current + 2, p + 2, j)
        BY ONLY TextInv, db \in Database, EditAt(a), <3>4, <4>5, <4>6, p \in Nat,
           2 \in Nat, MatchInStep, Zenon
      <4>8. InStep(a, current, Place(Clean, Len(list)), j)'
        BY <1>1, <1>2, <2>1, <3>3, <4>7 DEF k
      <4>9. Len(list') < Len(db')
        BY <1>2, <1>3, <2>1, <2>3, <3>7 DEF k
      <4>10. LoopAfter(a)'
        BY <1>2, <3>5, <4>8, <4>9 DEF LoopAfter
      <4> QED
        BY <2>1, <4>10 DEF InDamaged
    <3>8. CASE k = Len(db)
      <4>1. p + 2 = Len(File)
        BY <3>1, <3>3, <3>8, FeaturePlace
      <4>2. CASE current + 2 >= Size
        <5>1. Finished'
          BY <1>1, <1>2, <4>2 DEF Finished
        <5>2. Len(list') = Len(db') /\ HasReadBut(Len(db), j)'
          BY <1>2, <2>1, <3>5, <3>8 DEF k
        <5>3. LoopAfter(a)'
          BY <1>2, <5>1, <5>2 DEF LoopAfter
        <5> QED
          BY <2>1, <5>3 DEF InDamaged
      <4>3. CASE ~(current + 2 >= Size)
        <5>1. current + 2 < Size /\ ~((current + 3) + 2 <= Size)
          BY ONLY <1>3, <3>6, <4>1, <4>3, p \in Nat
        <5>2. KeyFails(current + 3)
          BY ONLY <1>3, <5>1, Zenon DEF KeyFails, KeyAt
        <5> QED
          BY <2>2, <5>1, <5>2
      <4> QED
        BY <4>2, <4>3
    <3> QED
      BY <3>7, <3>8
  <2> QED
    BY <1>5, <2>2, <2>3 DEF CloseAfter, k
<1> QED
  BY <1>4, <1>5

\* The constructor, after which the text is in step at place 1.
LEMMA ConstructEdited ==
  ASSUME TextInv, db \in Database, text \in Edited(Render(db)), list = <<>>, Construct
  PROVE  \E a \in Nat : EditAt(a)' /\ InDamaged(a)'
<1>1. /\ text' = Strip(text) /\ current' = 1 /\ pc' = "loop"
      /\ failed' = (text' = <<>> \/ Head(text') # "[")
      /\ UNCHANGED <<at, start, list, db, damage>>
  BY DEF Construct
<1>2. /\ File[1] = "[" /\ Len(File) \in Nat \ {0} /\ Len(db) \in Nat
      /\ Clean \in Seq(Feature) /\ Len(Clean) = Len(db)
      /\ db = <<>> => Len(File) = 2
      /\ db \in Seq(Feature)
  BY CleanFile
<1>3. Clean' = Clean /\ File' = File /\ LoadedDb' = LoadedDb /\ db' = db
  <2>1. Clean' = Clean /\ LoadedDb' = LoadedDb
    BY <1>1 DEF Clean, LoadedDb
  <2> QED
    BY <1>1, <2>1 DEF File
<1>4. /\ text' \in Seq(Char)
      /\ \E k \in Nat : ChangedAt(text', File, Len(text') - Len(File), k)
  BY ONLY db \in Database, text \in Edited(Render(db)), <1>1, EditedFile, Zenon
<1>5. PICK a \in Nat : ChangedAt(text', File, Len(text') - Len(File), a)
  BY <1>4
<1>6. EditAt(a)'
  BY <1>3, <1>5 DEF EditAt, Shift, Size
<1>7. PICK n \in Nat : Len(text') = n
  BY <1>4, LenProperties
<1>8. Size' = n
  BY <1>7 DEF Size
<1>9. list' = <<>> /\ Len(list') = 0
  BY <1>1, EmptySeq
<1>10. CASE failed' \/ n <= 1
  <2>1. (failed \/ Finished)'
    BY <1>1, <1>8, <1>10 DEF Finished
  <2>2. LoopAfter(a)'
    BY <1>9, <2>1 DEF LoopAfter
  <2> QED
    BY <1>1, <1>6, <2>2 DEF InDamaged
<1>11. CASE ~failed' /\ n > 1
  <2>1. ~Finished'
    BY <1>1, <1>8, <1>11 DEF Finished
  <2>2. text'[1] = File[1]
    <3>1. text' # <<>> /\ Head(text') = "["
      BY <1>1, <1>11
    <3>2. Head(text') = text'[1]
      BY <3>1
    <3> QED
      BY <1>2, <3>1, <3>2
  <2>3. CASE db = <<>>
    <3>1. n \in {1, 2, 3}
      <4>1. Len(File) = 2
        BY ONLY <1>2, <2>3, Zenon
      <4>2. n - Len(File) \in {-1, 0, 1}
        BY <1>5, <1>7 DEF ChangedAt
      <4> QED
        BY ONLY <4>1, <4>2, n \in Nat
    <3>2. ~(2 + 2 <= n)
      BY <3>1
    <3>3. ~KeyAt(text', 2)
      BY <1>7, <3>2 DEF KeyAt
    <3>4. KeyFails(current + 1)'
      <4>1. current' + 1 = 2
        BY <1>1
      <4> QED
        BY <3>3, <4>1 DEF KeyFails
    <3>5. LoopAfter(a)'
      BY <2>1, <3>4 DEF LoopAfter
    <3> QED
      BY <1>1, <1>6, <3>5 DEF InDamaged
  <2>4. CASE db # <<>>
    <3>1. a >= 1
      <4>1. a < Len(text') /\ a < Len(File) => text'[a + 1] # File[a + 1]
        BY ONLY <1>5, Zenon DEF ChangedAt
      <4>2. ASSUME a = 0 PROVE FALSE
        <5>1. a < Len(text') /\ a < Len(File) /\ a + 1 = 1
          BY ONLY <1>2, <1>7, <1>11, <4>2, n \in Nat
        <5> QED
          BY ONLY <2>2, <4>1, <5>1, Zenon
      <4> QED
        BY <4>2
    <3>2. Len(db) >= 1
      BY <1>2, <2>4, EmptySeq
    <3>3. Place(Clean, 0) = 1
      <4>1. Clean # <<>>
        BY <1>2, <3>2, EmptySeq
      <4> QED
        BY <1>2, <4>1, FileSpelled
    <3>4. InStep(a, current, Place(Clean, Len(list)), 0)'
      BY <1>1, <1>3, <1>9, <3>1, <3>3 DEF InStep, Aligned
    <3>5. HasReadBut(Len(list), 0)'
      <4>1. \A i \in 1 .. 0 : FALSE
        OBVIOUS
      <4>2. 0 <= Len(db')
        BY <1>2, <1>3
      <4> QED
        BY <1>9, <4>1, <4>2 DEF HasReadBut
    <3>6. Len(list') < Len(db') /\ 0 \in 0 .. Len(db')
      BY <1>2, <1>3, <1>9, <3>2
    <3>7. LoopAfter(a)'
      BY <3>4, <3>5, <3>6 DEF LoopAfter
    <3> QED
      BY <1>1, <1>6, <3>7 DEF InDamaged
  <2> QED
    BY <2>3, <2>4
<1> QED
  BY <1>7, <1>10, <1>11

\* The file is changed until the constructor has stripped it, and its clean form
\* from then on.
EditInv == damage = "edit" =>
  IF pc = "construct" THEN text \in Edited(Render(db)) /\ list = <<>>
  ELSE \E a \in Nat : EditAt(a) /\ InDamaged(a)

LEMMA InitEditInv == Init => EditInv
  BY DEF Init, EditInv

\* The steps behind the constructor's.
LEMMA ParseEdited ==
  ASSUME TextInv, db \in Database, NEW a, EditAt(a), InDamaged(a), Parse, ~Construct
  PROVE  InDamaged(a)'
<1>1. CASE Loop
  <2>1. LoopAfter(a)
    BY <1>1 DEF Loop, InDamaged
  <2> QED
    BY <1>1, <2>1, LoopEdited
<1>2. CASE MatchNext
  <2>1. MatchAfter(a)
    BY <1>2 DEF MatchNext, InDamaged
  <2> QED
    BY <1>2, <2>1, MatchEdited
<1>3. CASE ScanNumber
  <2>1. NumberAfter(a)
    BY <1>3 DEF ScanNumber, InDamaged
  <2> QED
    BY <1>3, <2>1, ScanNumberEdited
<1>4. CASE ReadLong
  <2>1. NumberAfter(a)
    BY <1>4 DEF ReadLong, InDamaged
  <2> QED
    BY <1>4, <2>1, ReadLongEdited
<1>5. CASE ScanName
  <2>1. NameAfter(a, current)
    BY <1>5 DEF ScanName, InDamaged
  <2> QED
    BY <1>5, <2>1, ScanNameEdited
<1>6. CASE ReadName
  <2>1. pc = "named" => /\ current > start /\ text[current] = Quote
                        /\ NameAfter(a, current - 1)
    BY DEF InDamaged
  <2> QED
    BY <1>6, <2>1, ReadNameEdited
<1>7. CASE Close
  <2>1. CloseAfter(a)
    BY <1>7 DEF Close, InDamaged
  <2> QED
    BY <1>7, <2>1, CloseEdited
<1> QED
  BY <1>1, <1>2, <1>3, <1>4, <1>5, <1>6, <1>7 DEF Parse

\* A step that changes nothing keeps it.
LEMMA SameDamaged ==
  ASSUME UNCHANGED vars, NEW a
  PROVE  InDamaged(a)' <=> InDamaged(a)
<1>1. /\ UNCHANGED <<text, current, failed, pc, at, start, list, db, damage>>
      /\ UNCHANGED <<text, db, damage>>
  BY DEF vars
<1>2. /\ Size' = Size /\ Clean' = Clean /\ LoadedDb' = LoadedDb
      /\ \A c, p, j : InStep(a, c, p, j)' <=> InStep(a, c, p, j)
      /\ \A p : (KeyFails(p)' <=> KeyFails(p)) /\ (LonFails(p)' <=> LonFails(p))
  BY <1>1, SameEdit
<1>3. This' = This /\ Begin' = Begin
  BY <1>1, <1>2 DEF This, Begin
<1>4. \A k, j : HasReadBut(k, j)' <=> HasReadBut(k, j)
  BY <1>1, <1>2 DEF HasReadBut
<1>5. \A j : ReadingBut(j)' <=> ReadingBut(j)
  BY <1>1, <1>2, <1>3 DEF ReadingBut, HasReadBut, CoordsRead
<1>6. LoopAfter(a)' <=> LoopAfter(a)
  BY <1>1, <1>2 DEF LoopAfter, HasReadBut, Finished
<1>7. MatchAfter(a)' <=> MatchAfter(a)
  BY <1>1, <1>2, <1>3, <1>5 DEF MatchAfter, LiteralPlace, Match
<1>8. NumberAfter(a)' <=> NumberAfter(a)
  BY <1>1, <1>2, <1>3, <1>5 DEF NumberAfter, GroupEnd
<1>9. \A c : NameAfter(a, c)' <=> NameAfter(a, c)
  BY <1>1, <1>2, <1>3, <1>5 DEF NameAfter, GroupEnd
<1>10. CloseAfter(a)' <=> CloseAfter(a)
  BY <1>1, <1>2, <1>3 DEF CloseAfter, CloseSucceeds, QuotePlace, HasReadBut, Match
<1>11. EndAfter' <=> EndAfter
  BY <1>1, <1>2 DEF EndAfter, HasReadBut
<1> QED
  BY <1>1, <1>6, <1>7, <1>8, <1>9, <1>10, <1>11 DEF InDamaged, NameAfter, GroupEnd

LEMMA NextEditInv ==
  TextInv /\ db \in Database /\ EditInv /\ [Next]_vars => EditInv'
<1> SUFFICES ASSUME TextInv, db \in Database, EditInv, [Next]_vars, damage' = "edit"
             PROVE  EditInv'
  BY DEF EditInv
<1>1. UNCHANGED <<db, damage>> /\ damage = "edit"
  BY DEF Next, Parse, Ended, vars, Construct, Loop, MatchNext, ScanNumber, ReadLong,
         ScanName, ReadName, Close
<1>2. CASE UNCHANGED vars
  <2>1. \A a : EditAt(a)' <=> EditAt(a)
    BY <1>2, SameEdit DEF vars
  <2>2. \A a : InDamaged(a)' <=> InDamaged(a)
    BY <1>2, SameDamaged
  <2> QED
    BY <1>2, <2>1, <2>2 DEF EditInv, vars
<1>3. CASE Construct
  <2>1. text \in Edited(Render(db)) /\ list = <<>> /\ pc' # "construct"
    BY <1>1, <1>3 DEF EditInv, Construct
  <2>2. \E a \in Nat : EditAt(a)' /\ InDamaged(a)'
    BY <1>3, <2>1, ConstructEdited
  <2> QED
    BY <2>1, <2>2 DEF EditInv
<1>4. CASE Parse /\ ~Construct
  <2>1. pc # "construct" /\ pc' # "construct" /\ UNCHANGED <<text, db, damage>>
    BY <1>4 DEF Parse, Loop, MatchNext, ScanNumber, ReadLong, ScanName, ReadName,
                Close, Fail
  <2>2. PICK a \in Nat : EditAt(a) /\ InDamaged(a)
    BY <1>1, <2>1 DEF EditInv
  <2>3. EditAt(a)'
    BY <2>1, <2>2, SameEdit
  <2>4. InDamaged(a)'
    BY <1>4, <2>2, ParseEdited
  <2> QED
    BY <2>1, <2>3, <2>4 DEF EditInv
<1> QED
  BY <1>2, <1>3, <1>4 DEF Next, Ended, Parse

\* On a file changed at one place the parser is in step with the file it was
\* before, ahead of the change or behind it, or at a text it gives up at.
THEOREM ParserEditInductive == Spec => []EditInv
<1>1. ParserInv => db \in Database
  BY DEF ParserInv
<1>2. Init => EditInv
  BY InitEditInv
<1>3. TextInv /\ ParserInv /\ EditInv /\ [Next]_vars => EditInv'
  BY <1>1, NextEditInv
<1> QED
  BY <1>2, <1>3, ParserInductive, PTL DEF Spec

\* A damaged file never makes up features: one that was cut loads nothing or
\* the first features of its database; one that lost a character, got one more
\* or has a wrong one loads nothing or every feature, all but one as they were.
THEOREM ParserDamageIsLocal == Spec => []DamageIsLocal
<1>1. TextInv /\ ParserInv /\ EditInv /\ CutLoadsPrefix => DamageIsLocal
  <2> SUFFICES ASSUME TextInv, ParserInv, EditInv, damage = "edit", pc = "end",
                      list # <<>>
               PROVE  /\ Len(list) = Len(db)
                      /\ Cardinality({i \in DOMAIN db : list[i] # LoadedDb[i]}) <= 1
    BY DEF DamageIsLocal
  <2>1. EndAfter
    BY DEF EditInv, InDamaged
  <2>2. PICK j \in 0 .. Len(db) : Len(list) = Len(db) /\ HasReadBut(Len(db), j)
    BY <2>1 DEF EndAfter
  <2>3. DOMAIN db = 1 .. Len(db)
    <3>1. db \in Seq(Feature)
      BY CleanFile DEF ParserInv
    <3> QED
      BY <3>1, LenProperties
  <2> DEFINE T == {i \in DOMAIN db : list[i] # LoadedDb[i]}
  <2>4. T \subseteq {j}
    BY <2>2, <2>3 DEF HasReadBut
  <2> HIDE DEF T
  <2>5. T = {} \/ T = {j}
    BY <2>4
  <2>6. Cardinality(T) <= 1
    <3>1. Cardinality({}) = 0 /\ Cardinality({j}) = 1
      BY FS_EmptySet, FS_Singleton
    <3>2. Cardinality(T) = 0 \/ Cardinality(T) = 1
      BY ONLY <2>5, <3>1, Zenon
    <3> QED
      BY ONLY <3>2
  <2> QED
    BY <2>2, <2>6 DEF T
<1> QED
  BY <1>1, ParserInductive, ParserEditInductive, ParserLoadsPrefix, PTL
==============================================================================
