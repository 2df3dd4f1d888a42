------------------------------- MODULE TxTable -------------------------------
(***************************************************************************)
(* What the REST session manager promises a resource manager, without      *)
(* threads, lock or list: a table of transmitters.  A request configures a *)
(* transmitter, new or known, from the present second on; a transmitter    *)
(* that is not configured again leaves the table after Limit seconds, not  *)
(* earlier, and sometime.  TxRegistry implements this module as long as    *)
(* requests come one at a time.                                            *)
(***************************************************************************)
EXTENDS Integers

CONSTANTS Tx,          \* transmitters
          Limit,       \* seconds a transmitter stays; the checker's ten are
                       \* not the 300 that g_config.h names
          Steps,       \* seconds that may pass at once
          AgeCap,      \* ages from this on are not told apart
          Absent       \* the age of a transmitter that is not in the table

VARIABLE age           \* seconds since a transmitter was configured

Init == age = [ip \in Tx |-> Absent]

In == {ip \in Tx : age[ip] # Absent}

Configure(ip) == age' = [age EXCEPT ![ip] = 0]

Evict(ip) == /\ ip \in In
             /\ age[ip] > Limit
             /\ age' = [age EXCEPT ![ip] = Absent]

Elapse(d) ==
  age' = [ip \in Tx |-> IF ip \notin In THEN Absent
                        ELSE IF age[ip] + d > AgeCap THEN AgeCap
                        ELSE age[ip] + d]

Next == \/ \E ip \in Tx : Configure(ip) \/ Evict(ip)
        \/ \E d \in Steps : Elapse(d)

Spec == Init /\ [][Next]_age /\ \A ip \in Tx : WF_age(Evict(ip))
==============================================================================
