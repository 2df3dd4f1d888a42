------------------------------ MODULE MCDbParser ------------------------------
(* Instances of DbParser for TLC. *)
EXTENDS DbParser

Digits == ("0" :> 0) @@ ("5" :> 5) @@ ("7" :> 7)

\* Coordinates that fit five bits; with one digit more they do not, and with
\* some digits they do not fit a long either.
Near == [lat |-> <<"7">>, lon |-> <<"-", "5">>, name |-> <<>>]
Far == [lat |-> <<"-", "0">>, lon |-> <<"+", "5">>, name |-> <<"7", " ", "}", ",">>]

Databases == {<<>>, <<Near>>, <<Far>>, <<Far, Near>>, <<Near, Far>>}

Chars == Format \cup DOMAIN Digits \cup {"-", "+"}

Typos == {"{", "}", "]", ",", "\"", "7", "-", "+", " ", "name"}
==============================================================================
