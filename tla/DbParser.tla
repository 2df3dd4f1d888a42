------------------------------- MODULE DbParser -------------------------------
(***************************************************************************)
(* helper.cc: ParseDb and its Parser, which load the features of a JSON    *)
(* file into feature_list, at the start of the RouteGuide server and of    *)
(* its client.                                                             *)
(*                                                                         *)
(* The text is a sequence of characters.  A key word is one element, wider *)
(* than a character.  current is current_, counted from 0, so that the     *)
(* next element is text[current + 1].  Match moves current_ on whether or  *)
(* not it matches; a number is what stol reads at the front of the text up *)
(* to the next "," or "}"; a name ends at the next quote.                  *)
(*                                                                         *)
(* db and damage are history: the database the file was written from, and  *)
(* what happened to the file since.                                        *)
(***************************************************************************)
EXTENDS Integers, SequencesExt

CONSTANTS Digit,      \* [digit character -> its value]
          LongMax,    \* the greatest long; stol throws out of its range
          IntMax,     \* the greatest coordinate of the message Point
          Database,   \* the databases files are written from
          Char,       \* the characters, and the key words
          Typo        \* those a damaged file may have in a wrong place

Word == {"location", "latitude", "longitude", "name"}
Space == " "
Comma == ","
Quote == "\""
Open == "{"
Shut == "}"
Format == {"[", "]", ":", Space, Comma, Quote, Open, Shut} \cup Word

VARIABLES text,       \* db_, from the constructor on without spaces
          current,    \* current_
          failed,     \* failed_ as the constructor left it
          pc,         \* where ParseDb is
          at,         \* in TryParseOne: the group of literals, and the next
          start,      \* where the number or the name began
          list,       \* feature_list
          db, damage  \* history

vars == <<text, current, failed, pc, at, start, list, db, damage>>

\* A literal of the file format: a key with its quotes and colon.
Key(word) == <<Quote, word, Quote, ":">>

\* What TryParseOne matches before the latitude, before the longitude and
\* before the name.
Expect == << << <<Open>>, Key("location"), <<Open>>, Key("latitude")>>,
             << <<Comma>>, Key("longitude")>>,
             << <<Shut, Comma>>, Key("name"), <<Quote>> >> >>

-----------------------------------------------------------------------------
(* What the parser does to a piece of text. *)

\* remove_if of the spaces, from the front to each place.
Kept(t) ==
  LET kept[n \in 0 .. Len(t)] ==
        IF n = 0 THEN <<>>
        ELSE IF t[n] = Space THEN kept[n - 1] ELSE Append(kept[n - 1], t[n])
  IN kept
Strip(t) == Kept(t)[Len(t)]

\* std::stol: an optional sign and the digits at the front; what follows them
\* is ignored.  No digits, or a number that is no long, and it throws.
Unsigned(t) == IF t # <<>> /\ Head(t) \in {"-", "+"} THEN Tail(t) ELSE t
LeadingDigits(t) ==
  LET n == SelectInSeq(t, LAMBDA c : c \notin DOMAIN Digit)
  IN IF n = 0 THEN t ELSE SubSeq(t, 1, n - 1)
Value(digits) ==
  LET value[n \in 0 .. Len(digits)] ==
        IF n = 0 THEN 0 ELSE 10 * value[n - 1] + Digit[digits[n]]
  IN value
Magnitude(t) == LET digits == LeadingDigits(Unsigned(t))
                IN Value(digits)[Len(digits)]
Long(t) == IF t # <<>> /\ Head(t) = "-" THEN 0 - Magnitude(t) ELSE Magnitude(t)
Throws(t) == \/ LeadingDigits(Unsigned(t)) = <<>>
             \/ Long(t) \notin (0 - LongMax - 1) .. LongMax

\* Faulty variant: the fields are uint32.
Int32_Unsigned(n) == n % (2 * IntMax + 2)

\* set_latitude and set_longitude take an int32.
Int32(n) == ((n + IntMax + 1) % (2 * IntMax + 2)) - IntMax - 1
Int32Range == (0 - IntMax - 1) .. IntMax

-----------------------------------------------------------------------------
(* Files. *)

\* A coordinate is kept as it is written; a name has no quote in it.
Coordinate ==
  {t \in Seq(Char \ {Space, Comma, Shut}) : ~Throws(t) /\ Long(t) \in Int32Range}
Feature == [lat : Coordinate, lon : Coordinate, name : Seq(Char \ {Quote})]

ASSUME ConstantsAssumption == /\ LongMax \in Nat
                              /\ IntMax \in Nat
                              /\ \A c \in DOMAIN Digit : Digit[c] \in 0 .. 9
                              /\ Database \subseteq Seq(Feature)
                              /\ Format \cup Typo \subseteq Char

RenderFeature(f) ==
  <<Open>> \o Key("location") \o <<Open>> \o Key("latitude") \o f.lat
    \o <<Comma>> \o Key("longitude") \o f.lon
    \o <<Shut, Comma>> \o Key("name") \o <<Quote>> \o f.name \o <<Quote, Shut>>

\* The file up to each of its features, and the file.
Written(fs) ==
  LET written[k \in 0 .. Len(fs)] ==
        IF k = 0 THEN <<"[">>
        ELSE written[k - 1] \o RenderFeature(fs[k])
               \o <<IF k = Len(fs) THEN "]" ELSE Comma>>
  IN written
Render(fs) == IF fs = <<>> THEN <<"[", "]">> ELSE Written(fs)[Len(fs)]

\* A file that was cut, or changed at one place.
Cut(t) == {SubSeq(t, 1, n) : n \in 0 .. Len(t) - 1}
Edited(t) == {RemoveAt(t, i) : i \in DOMAIN t}
               \cup {ReplaceAt(t, i, c) : i \in DOMAIN t, c \in Typo}
               \cup {InsertAt(t, i, c) : i \in 1 .. Len(t) + 1, c \in Typo}

Init == /\ db \in Database
        /\ \/ text = Render(db) /\ damage = "none"
           \/ text \in Cut(Render(db)) /\ damage = "cut"
           \/ text \in Edited(Render(db)) /\ damage = "edit"
        /\ current = 0
        /\ failed = FALSE
        /\ pc = "construct"
        /\ at = [group |-> 1, i |-> 1]
        /\ start = 0
        /\ list = <<>>

-----------------------------------------------------------------------------
(* The parser. *)

Size == Len(text)

\* db_.substr(current_, prefix.size()) == prefix; substr is shorter at the end.
Match(prefix) ==
  /\ current + Len(prefix) <= Size
  /\ SubSeq(text, current + 1, current + Len(prefix)) = prefix

\* Faulty variant: the list is not cleared.
Fail_KeepsList == pc' = "end" /\ UNCHANGED list

\* TryParseOne returned false: the list is cleared and the loop left.
Fail == pc' = "end" /\ list' = <<>>

\* The constructor strips the spaces and matches "[".
Construct ==
  /\ pc = "construct"
  /\ text' = Strip(text)
  /\ failed' = (text' = <<>> \/ Head(text') # "[")
  /\ current' = 1
  /\ pc' = "loop"
  /\ UNCHANGED <<at, start, list, db, damage>>

Finished == current >= Size

\* The test of the loop, push_back(Feature()), and the first test of
\* TryParseOne.
Loop ==
  /\ pc = "loop"
  /\ IF Finished THEN pc' = "end" /\ UNCHANGED <<list, at>>
     ELSE IF failed THEN Fail /\ UNCHANGED at
     ELSE /\ list' = Append(list, [lat |-> 0, lon |-> 0, name |-> <<>>])
          /\ pc' = "match"
          /\ at' = [group |-> 1, i |-> 1]
  /\ UNCHANGED <<text, current, failed, start, db, damage>>

\* One Match of TryParseOne; the first that fails ends the parse.
MatchNext ==
  /\ pc = "match"
  /\ LET group == Expect[at.group]
         literal == group[at.i]
     IN /\ current' = current + Len(literal)
        /\ IF ~Match(literal) THEN Fail /\ UNCHANGED <<at, start>>
           ELSE IF at.i < Len(group)
           THEN at' = [at EXCEPT !.i = @ + 1] /\ UNCHANGED <<pc, list, start>>
           ELSE /\ pc' = IF at.group = 3 THEN "name" ELSE "number"
                /\ start' = current'
                /\ UNCHANGED <<at, list>>
  /\ UNCHANGED <<text, failed, db, damage>>

InNumber == current # Size /\ text[current + 1] \notin {Comma, Shut}

\* Faulty variant: current_ is not moved on.
ScanNumber_Stuck ==
  /\ pc = "number"
  /\ InNumber
  /\ UNCHANGED vars

\* The loop of ReadLong ...
ScanNumber ==
  /\ pc = "number"
  /\ InNumber
  /\ current' = current + 1
  /\ UNCHANGED <<text, failed, pc, at, start, list, db, damage>>

\* ... and its stol.  Nothing catches what it throws: the program ends.
ReadLong ==
  /\ pc = "number"
  /\ ~InNumber
  /\ LET t == SubSeq(text, start + 1, current)
         n == Int32(Long(t))
     IN IF Throws(t) THEN pc' = "threw" /\ UNCHANGED <<at, list>>
        ELSE /\ list' = [list EXCEPT ![Len(list)] =
                          IF at.group = 1 THEN [@ EXCEPT !.lat = n]
                          ELSE [@ EXCEPT !.lon = n]]
             /\ at' = [group |-> at.group + 1, i |-> 1]
             /\ pc' = "match"
  /\ UNCHANGED <<text, current, failed, start, db, damage>>

\* while (current_ != db_.size() && db_[current_++] != '"')
ScanName ==
  /\ pc = "name"
  /\ current # Size
  /\ current' = current + 1
  /\ pc' = IF text[current + 1] = Quote THEN "named" ELSE "name"
  /\ UNCHANGED <<text, failed, at, start, list, db, damage>>

\* Faulty variant: the end of the text is not tested.
ReadName_AtEnd ==
  /\ pc = "named" \/ (pc = "name" /\ current = Size)
  /\ pc' = "close"
  /\ list' = [list EXCEPT ![Len(list)].name = SubSeq(text, start + 1, current - 1)]
  /\ UNCHANGED <<text, current, failed, at, start, db, damage>>

\* Faulty variant: the name keeps its closing quote.
ReadName_WithQuote ==
  /\ pc = "named" \/ (pc = "name" /\ current = Size)
  /\ IF current = Size THEN Fail
     ELSE /\ pc' = "close"
          /\ list' = [list EXCEPT ![Len(list)].name =
                        SubSeq(text, start + 1, current)]
  /\ UNCHANGED <<text, current, failed, at, start, db, damage>>

\* A name whose quote is the last character counts as one without an end.
ReadName ==
  /\ pc = "named" \/ (pc = "name" /\ current = Size)
  /\ IF current = Size THEN Fail
     ELSE /\ pc' = "close"
          /\ list' = [list EXCEPT ![Len(list)].name =
                        SubSeq(text, start + 1, current - 1)]
  /\ UNCHANGED <<text, current, failed, at, start, db, damage>>

\* Match("},"), or else the text ends with a character and "]" here: what the
\* character is nobody looks at.
Close ==
  /\ pc = "close"
  /\ current' = current + 2
  /\ IF \/ Match(<<Shut, Comma>>)
        \/ /\ current' = Size
           /\ text[current'] = "]"
           /\ text[current + 1] \notin Word
     THEN pc' = "loop" /\ UNCHANGED list
     ELSE Fail
  /\ UNCHANGED <<text, failed, at, start, db, damage>>

-----------------------------------------------------------------------------
Stopped == pc \in {"end", "threw"}
Ended == Stopped /\ UNCHANGED vars

Parse == \/ Construct \/ Loop \/ MatchNext \/ ScanNumber \/ ReadLong
         \/ ScanName \/ ReadName \/ Close

Next == Parse \/ Ended

\* One thread, which nothing blocks.
Spec == Init /\ [][Next]_vars /\ WF_vars(Parse)

-----------------------------------------------------------------------------
\* Type correctness; coordinates fit the message.
TypeOK ==
  /\ text \in Seq(Char)
  /\ current \in Nat /\ start \in Nat
  /\ failed \in BOOLEAN
  /\ pc \in {"construct", "loop", "match", "number", "name", "named", "close",
             "end", "threw"}
  /\ at \in [group : 1 .. 3, i : 1 .. 4]
  /\ list \in Seq([lat : Int32Range, lon : Int32Range, name : Seq(Char)])

\* The parser never reads outside its text, although Match moves current_ past
\* the end: substr(current_) starts at the terminating null at most (else it
\* would throw), and so does db_[current_ - 1] after the failed Match("},").
IndexInRange ==
  /\ pc \in {"match", "number", "name", "named"} => current <= Size
  /\ pc = "close" => current < Size

\* What Parser makes of a coordinate that fits, and of a name.
Loaded(f) == [lat |-> Long(f.lat), lon |-> Long(f.lon),
              name |-> Strip(f.name)]
LoadedDb == [i \in DOMAIN db |-> Loaded(db[i])]

\* A file in the form the comment of Parser gives is loaded whole, feature by
\* feature, whatever the names hold ("}", "," and spaces too).
WholeFileLoads == damage = "none" /\ Stopped => pc = "end" /\ list = LoadedDb

\* A damaged file never makes up features: one that was cut loads nothing or
\* the first features of the database, one changed at one place nothing or as
\* many features as before, of which all but one are as they were.
CutLoadsPrefix ==
  damage = "cut" /\ pc = "end" => list = <<>> \/ IsPrefix(list, LoadedDb)
DamageIsLocal ==
  /\ CutLoadsPrefix
  /\ damage = "edit" /\ pc = "end" /\ list # <<>> =>
       /\ Len(list) = Len(db)
       /\ Cardinality({i \in DOMAIN db : list[i] # LoadedDb[i]}) <= 1

\* Every file is parsed to its end, given up or makes stol throw.
ParseEnds == <>Stopped
==============================================================================
