-------------------------- MODULE SessionSystem_proofs --------------------------
(***************************************************************************)
(* The server alone, and client and server over one channel, for every     *)
(* list of registrations and every set of addresses and calls.             *)
(*                                                                         *)
(* An object of the server is what its status, its operation and its call  *)
(* say together: ServerIInv relates the three, and says which object holds *)
(* which call.                                                             *)
(*                                                                         *)
(* In the system each side takes only the steps its own module has, so     *)
(* that the client's invariants (SessionClient_proofs, here the instance   *)
(* P) and the server's hold in it too.  With them, a call in the hands of  *)
(* the channel keeps its address and its API until its link is cut, no     *)
(* reply reaches another call, and the server aborts over a call that died *)
(* only.                                                                   *)
(***************************************************************************)
EXTENDS SessionSystem, TagList_proofs, FiniteSetTheorems

-----------------------------------------------------------------------------
(* The server. *)

\* The thread leaves the registration loop when every method is registered.
LoopInv ==
  /\ thread.pc = "register" => thread.registered < Len(Registrations)
  /\ thread.pc \in {"poll", "aborted"} => thread.registered = Len(Registrations)

\* An object has a call from the moment gRPC matched one; that call is of its
\* method, not to be matched again, and its state is behind the reply's.
ObjectInv ==
  \A a \in Live :
    /\ heap[a].call = NULL <=> op[a] = "requested"
    /\ op[a] # "requested" => call[heap[a].call].method = heap[a].method
    /\ op[a] \in {"matched", "writing"} =>
         call[heap[a].call].state \in {"serving", "dead"}
    /\ op[a] = "written" => call[heap[a].call].state = "replied"
    /\ op[a] = "failed" => call[heap[a].call].state = "dead"

\* No two objects hold one call.
DistinctCalls ==
  \A a, b \in Live :
    heap[a].call = heap[b].call /\ heap[a].call # NULL => a = b

\* A call in service is held by an object.
HeldCalls ==
  \A r \in Rpc :
    call[r].state = "serving" => \E a \in Live : heap[a].call = r

\* The objects of a class that wait for a call or were just matched with one.
Acceptors(m) == {a \in Live : heap[a].method = m /\ heap[a].status = "PROCESS"}

\* A registered method has one acceptor, another has none.
AcceptorInv ==
  \A m \in Served :
    /\ m \in Registered => \E a \in Addr : Acceptors(m) = {a}
    /\ m \notin Registered => Acceptors(m) = {}

ServerIInv == /\ TypeOK
              /\ TagListExact
              /\ OneOperationPerObject
              /\ LoopInv
              /\ ObjectInv
              /\ DistinctCalls
              /\ HeldCalls
              /\ AcceptorInv

Pair == [tag : Served, obj : Addr]

StateInv == /\ LoopInv
            /\ OneOperationPerObject
            /\ ObjectInv
            /\ DistinctCalls
            /\ HeldCalls

-----------------------------------------------------------------------------
(* The list and the acceptors, whatever the step. *)

\* A step that leaves the list and the methods of the objects alone keeps the
\* list exact.
LEMMA ListUntouched ==
  ASSUME TagListExact, tags' = tags, Live' = Live,
         \A a \in Live : heap'[a].method = heap[a].method
  PROVE  TagListExact'
<1>1. {[tag |-> heap'[a].method, obj |-> a] : a \in Live'}
        = {[tag |-> heap[a].method, obj |-> a] : a \in Live}
  OBVIOUS
<1> QED
  BY <1>1 DEF TagListExact

\* A step that changes neither method nor status of an object keeps the
\* acceptors.
LEMMA AcceptorsUntouched ==
  ASSUME AcceptorInv, Live' = Live, Registered' = Registered,
         \A a \in Live : /\ heap'[a].method = heap[a].method
                         /\ heap'[a].status = heap[a].status
  PROVE  AcceptorInv'
<1>1. \A m : Acceptors(m)' = Acceptors(m)
  BY DEF Acceptors
<1> QED
  BY <1>1 DEF AcceptorInv, Served

\* The addresses in the list are those of the live objects.
LEMMA ListedLive ==
  ASSUME TagListExact
  PROVE  Listed(tags) = Live
<1> DEFINE pair(a) == [tag |-> heap[a].method, obj |-> a]
<1>1. ToSet(tags) = {pair(a) : a \in Live}
  BY DEF TagListExact, Entries
<1>2. Listed(tags) = {e.obj : e \in {pair(a) : a \in Live}}
  BY <1>1 DEF Listed
<1>3. \A a \in Live : pair(a).obj = a
  OBVIOUS
<1> HIDE DEF pair
<1> QED
  BY <1>2, <1>3

\* A new acceptor is pushed with the tag of its class at a free address: the
\* list stays exact.
LEMMA ListPush ==
  ASSUME TypeOK, TagListExact, NEW m \in Served, NEW b \in Addr \ Live,
         tags' = TagPush(tags, m, b), Live' = Live \cup {b},
         heap'[b].method = m,
         \A a \in Live : heap'[a].method = heap[a].method
  PROVE  tags' \in Seq(Pair) /\ TagListExact'
<1>1. tags \in Seq(Pair) /\ UniqueObj(tags)
  BY DEF TypeOK, Pair, TagListExact
<1>2. [tag |-> m, obj |-> b] \in Pair /\ b \notin Listed(tags)
  BY ListedLive DEF Pair
<1>3. /\ tags' \in Seq(Pair)
      /\ UniqueObj(tags')
      /\ Entries(tags') = Entries(tags) \cup {[tag |-> m, obj |-> b]}
  BY <1>1, <1>2, TagPushEntries
<1>4. {[tag |-> heap'[a].method, obj |-> a] : a \in Live'}
        = {[tag |-> heap[a].method, obj |-> a] : a \in Live}
            \cup {[tag |-> m, obj |-> b]}
  OBVIOUS
<1> QED
  BY <1>3, <1>4 DEF TagListExact

\* The tag of a live object is its method, and erasing it keeps the list
\* exact for the others.
LEMMA ListErase ==
  ASSUME TypeOK, TagListExact, NEW a \in Live
  PROVE  /\ TagOf(tags, a) = heap[a].method
         /\ tags' = TagErase(tags, a) /\ Live' = Live \ {a}
              /\ (\A b \in Live \ {a} : heap'[b] = heap[b])
              => tags' \in Seq(Pair) /\ TagListExact'
<1> DEFINE e == [tag |-> heap[a].method, obj |-> a]
<1>1. tags \in Seq(Pair) /\ UniqueObj(tags)
  BY DEF TypeOK, Pair, TagListExact
<1>2. e \in Entries(tags) /\ e.obj = a /\ e.tag = heap[a].method
  BY DEF TagListExact
<1>3. /\ TagErase(tags, e.obj) \in Seq(Pair)
      /\ UniqueObj(TagErase(tags, e.obj))
      /\ Entries(TagErase(tags, e.obj)) = Entries(tags) \ {e}
      /\ TagOf(tags, e.obj) = e.tag
  <2> HIDE DEF e
  <2> QED
    BY <1>1, <1>2, TagEraseEntries, TagOfEntry
<1>4. ASSUME tags' = TagErase(tags, a), Live' = Live \ {a},
             \A b \in Live \ {a} : heap'[b] = heap[b]
      PROVE  tags' \in Seq(Pair) /\ TagListExact'
  <2>1. {[tag |-> heap'[b].method, obj |-> b] : b \in Live'}
          = {[tag |-> heap[b].method, obj |-> b] : b \in Live} \ {e}
    BY <1>4
  <2> QED
    BY <1>2, <1>3, <1>4, <2>1 DEF TagListExact
<1> QED
  BY <1>2, <1>3, <1>4

-----------------------------------------------------------------------------
(* The steps. *)

\* A live object is a CallData.
LEMMA LiveObject ==
  ASSUME TypeOK, NEW a \in Live
  PROVE  /\ a \in Addr
         /\ heap[a] \in CallData
         /\ heap[a].method \in Served
         /\ heap[a].status \in {"PROCESS", "FINISH"}
         /\ heap[a].call \in Rpc \cup {NULL}
BY DEF TypeOK, Live, CallData

\* A new acceptor is an object.
LEMMA NewAcceptor ==
  ASSUME NEW m \in Served
  PROVE  /\ Acceptor(m) \in CallData
         /\ Acceptor(m) # NULL
         /\ Acceptor(m).method = m
         /\ Acceptor(m).status = "PROCESS"
         /\ Acceptor(m).call = NULL
BY ConstantsAssumption DEF Acceptor, CallData, ConstantsAssumption

\* The loop of HandleRpcs registers the next method, which had no acceptor.
LEMMA RegisterKeeps ==
  ASSUME ServerIInv, Register
  PROVE  ServerIInv'
<1> DEFINE n == thread.registered + 1
           m == Registrations[n]
<1>t. TypeOK /\ TagListExact /\ StateInv /\ AcceptorInv
  BY DEF ServerIInv, StateInv
<1>1. /\ Registrations \in Seq(STRING)
      /\ Len(Registrations) \in Nat
      /\ DOMAIN Registrations = 1 .. Len(Registrations)
      /\ thread.registered \in Nat
      /\ n \in 1 .. Len(Registrations)
  BY <1>t, ConstantsAssumption, LenProperties
     DEF TypeOK, StateInv, LoopInv, Register, ConstantsAssumption
<1>n. n \in 0 .. Len(Registrations) /\ n <= Len(Registrations) /\ n \in Nat
  BY <1>1
<1>2. m \in Served
  BY <1>1 DEF Served, ToSet
<1>3. /\ thread.pc = "register"
      /\ thread' = [pc |-> IF n = Len(Registrations) THEN "poll"
                           ELSE "register",
                    registered |-> n]
      /\ call' = call
  BY DEF Register
<1>4. PICK b \in Addr \ Live :
        /\ heap' = [heap EXCEPT ![b] = Acceptor(m)]
        /\ op' = [op EXCEPT ![b] = "requested"]
        /\ tags' = TagPush(tags, m, b)
  BY DEF Register
<1>5. Registered' = Registered \cup {m} /\ m \notin Registered
  <2>1. thread'.registered = thread.registered + 1
    BY <1>3
  <2>2. 1 .. thread'.registered = 1 .. thread.registered \cup {n}
    BY <1>1, <2>1
  <2>3. \A i \in 1 .. thread.registered : Registrations[i] # m
    BY <1>1, ConstantsAssumption DEF ConstantsAssumption, IsInjective
  <2> QED
    BY <2>2, <2>3 DEF Registered
<1> HIDE DEF n, m
<1>6. /\ heap'[b] = Acceptor(m)
      /\ op'[b] = "requested"
      /\ \A a \in Addr \ {b} : heap'[a] = heap[a] /\ op'[a] = op[a]
  BY <1>t, <1>4 DEF TypeOK
<1>7. Live' = Live \cup {b}
  BY <1>2, <1>4, <1>6, NewAcceptor DEF Live
<1>8. tags' \in Seq(Pair) /\ TagListExact'
  BY <1>t, <1>2, <1>4, <1>6, <1>7, ListPush, NewAcceptor, LiveObject
<1>9. TypeOK'
  <2>1. heap' \in [Addr -> CallData \cup {NULL}]
    BY <1>t, <1>2, <1>4, NewAcceptor DEF TypeOK
  <2>2. op' \in [Addr -> OpState]
    BY <1>t, <1>4 DEF TypeOK, OpState
  <2>3. thread' \in [pc : {"register", "poll", "aborted", "down"},
                     registered : 0 .. Len(Registrations)]
    BY <1>n, <1>3
  <2> QED
    BY <1>t, <1>3, <1>8, <2>1, <2>2, <2>3 DEF TypeOK, Pair
<1>10. LoopInv'
  BY <1>n, <1>3 DEF LoopInv
<1>11. OneOperationPerObject'
  BY <1>t, <1>2, <1>6, <1>7, NewAcceptor DEF StateInv, OneOperationPerObject
<1>12. ObjectInv'
  BY <1>t, <1>2, <1>3, <1>6, <1>7, NewAcceptor, LiveObject DEF StateInv, ObjectInv
<1>13. DistinctCalls'
  BY <1>t, <1>2, <1>6, <1>7, NewAcceptor, LiveObject DEF StateInv, DistinctCalls
<1>14. HeldCalls'
  BY <1>t, <1>3, <1>6, <1>7, LiveObject DEF StateInv, HeldCalls
<1>15. AcceptorInv'
  <2>1. \A k \in Served : Acceptors(k)'
          = IF k = m THEN Acceptors(k) \cup {b} ELSE Acceptors(k)
    BY <1>2, <1>6, <1>7, NewAcceptor, LiveObject, <1>t DEF Acceptors
  <2> QED
    BY <1>t, <1>5, <2>1 DEF AcceptorInv, Served
<1> QED
  BY <1>8, <1>9, <1>10, <1>11, <1>12, <1>13, <1>14, <1>15 DEF ServerIInv

\* Proceed of a matched object: a fresh acceptor of its class takes its place
\* and the object, now FINISH, keeps its call for the reply.
LEMMA ProcessKeeps ==
  ASSUME ServerIInv, NEW a \in Addr, op[a] \in {"matched", "written"},
         Process(a, TagOf(tags, a))
  PROVE  ServerIInv'
<1> DEFINE m == heap[a].method
<1>t. TypeOK /\ TagListExact /\ StateInv /\ AcceptorInv
  BY DEF ServerIInv, StateInv
<1>1. a \in Live /\ op[a] = "matched" /\ heap[a].status = "PROCESS"
  BY <1>t DEF StateInv, OneOperationPerObject, Process
<1>2. m \in Served /\ TagOf(tags, a) = m
  BY <1>t, <1>1, LiveObject, ListErase
<1>3. UNCHANGED <<call, thread>>
  BY DEF Process
<1>4. PICK b \in Addr \ Live :
        /\ heap' = [heap EXCEPT ![b] = Acceptor(m), ![a].status = "FINISH"]
        /\ op' = [op EXCEPT ![b] = "requested", ![a] = "writing"]
        /\ tags' = TagPush(tags, m, b)
  BY <1>2 DEF Process
<1> DEFINE after == [heap[a] EXCEPT !.status = "FINISH"]
<1>5. /\ after \in CallData
      /\ after # NULL
      /\ after.method = m
      /\ after.status = "FINISH"
      /\ after.call = heap[a].call
  BY <1>t, <1>1, LiveObject, ConstantsAssumption
     DEF CallData, ConstantsAssumption
<1>6. a # b
  BY <1>1
<1>7. /\ heap'[b] = Acceptor(m)
      /\ op'[b] = "requested"
      /\ heap'[a] = after
      /\ op'[a] = "writing"
      /\ \A c \in Addr \ {a, b} : heap'[c] = heap[c] /\ op'[c] = op[c]
  BY <1>t, <1>4, <1>6 DEF TypeOK
<1> HIDE DEF m, after
<1>8. Live' = Live \cup {b}
  BY <1>1, <1>2, <1>5, <1>6, <1>7, NewAcceptor DEF Live
<1>9. tags' \in Seq(Pair) /\ TagListExact'
  <2>1. heap'[b].method = m /\ \A c \in Live : heap'[c].method = heap[c].method
    BY <1>2, <1>5, <1>7, NewAcceptor, <1>t, LiveObject DEF m
  <2> QED
    BY <1>t, <1>2, <1>4, <1>8, <2>1, ListPush
<1>10. TypeOK'
  <2>1. heap' \in [Addr -> CallData \cup {NULL}]
    <3>1. heap' = [heap EXCEPT ![b] = Acceptor(m), ![a] = after]
      BY <1>t, <1>4, <1>6 DEF TypeOK, after
    <3> QED
      BY <1>t, <1>2, <1>5, <3>1, NewAcceptor DEF TypeOK
  <2>2. op' \in [Addr -> OpState]
    BY <1>t, <1>4 DEF TypeOK, OpState
  <2> QED
    BY <1>t, <1>3, <1>9, <2>1, <2>2 DEF TypeOK, Pair
<1>11. LoopInv'
  BY <1>t, <1>3 DEF StateInv, LoopInv
<1>12. OneOperationPerObject'
  BY <1>t, <1>1, <1>2, <1>5, <1>6, <1>7, <1>8, NewAcceptor
     DEF StateInv, OneOperationPerObject
<1>13. ObjectInv'
  <2>1. ASSUME NEW c \in Live \ {a}
        PROVE  c \in Addr \ {a, b} /\ heap'[c] = heap[c] /\ op'[c] = op[c]
    BY <1>t, <1>7, LiveObject
  <2> QED
    BY <1>t, <1>1, <1>2, <1>3, <1>5, <1>6, <1>7, <1>8, <2>1, NewAcceptor
       DEF StateInv, ObjectInv, m
<1>14. DistinctCalls'
  BY <1>t, <1>1, <1>2, <1>5, <1>7, <1>8, NewAcceptor, LiveObject
     DEF StateInv, DistinctCalls
<1>15. HeldCalls'
  BY <1>t, <1>1, <1>3, <1>5, <1>7, <1>8, LiveObject DEF StateInv, HeldCalls
<1>16. AcceptorInv'
  <2>1. \A k \in Served : Acceptors(k)'
          = IF k = m THEN (Acceptors(k) \ {a}) \cup {b} ELSE Acceptors(k)
    BY <1>t, <1>1, <1>2, <1>5, <1>6, <1>7, <1>8, NewAcceptor, LiveObject
       DEF Acceptors, m
  <2>2. a \in Acceptors(m)
    BY <1>1 DEF Acceptors, m
  <2>3. m \in Registered /\ Acceptors(m) = {a}
    BY <1>t, <1>2, <2>2 DEF AcceptorInv
  <2>4. Registered' = Registered
    BY <1>3 DEF Registered
  <2>5. \A k \in Served : k = m => Acceptors(k)' = {b}
    BY <2>1, <2>3
  <2> QED
    BY <1>t, <1>2, <2>1, <2>3, <2>4, <2>5 DEF AcceptorInv, Served
<1> QED
  BY <1>9, <1>10, <1>11, <1>12, <1>13, <1>14, <1>15, <1>16 DEF ServerIInv

\* Proceed of a written object: it leaves the list and the heap, and its call
\* is answered.
LEMMA FinishKeeps ==
  ASSUME ServerIInv, NEW a \in Addr, op[a] \in {"matched", "written"},
         FinishAndDelete(a)
  PROVE  ServerIInv'
<1>t. TypeOK /\ TagListExact /\ StateInv /\ AcceptorInv
  BY DEF ServerIInv, StateInv
<1>1. a \in Live /\ op[a] = "written" /\ heap[a].status = "FINISH"
  BY <1>t DEF StateInv, OneOperationPerObject, FinishAndDelete
<1>2. /\ heap' = [heap EXCEPT ![a] = NULL]
      /\ op' = [op EXCEPT ![a] = "none"]
      /\ tags' = TagErase(tags, a)
      /\ UNCHANGED <<call, thread>>
  BY DEF FinishAndDelete
<1>3. /\ heap'[a] = NULL
      /\ op'[a] = "none"
      /\ \A b \in Addr \ {a} : heap'[b] = heap[b] /\ op'[b] = op[b]
  BY <1>t, <1>2 DEF TypeOK
<1>4. Live' = Live \ {a}
  BY <1>3 DEF Live
<1>5. \A b \in Live \ {a} : heap'[b] = heap[b] /\ op'[b] = op[b]
  BY <1>3 DEF Live
<1>6. tags' \in Seq(Pair) /\ TagListExact'
  BY <1>t, <1>1, <1>2, <1>4, <1>5, ListErase
<1>7. TypeOK'
  <2>1. heap' \in [Addr -> CallData \cup {NULL}] /\ op' \in [Addr -> OpState]
    BY <1>t, <1>2 DEF TypeOK, OpState
  <2> QED
    BY <1>t, <1>2, <1>6, <2>1 DEF TypeOK, Pair
<1>8. LoopInv'
  BY <1>t, <1>2 DEF StateInv, LoopInv
<1>9. OneOperationPerObject'
  BY <1>t, <1>3, <1>4 DEF StateInv, OneOperationPerObject
<1>10. ObjectInv'
  BY <1>t, <1>2, <1>4, <1>5 DEF StateInv, ObjectInv
<1>11. DistinctCalls'
  BY <1>t, <1>4, <1>5 DEF StateInv, DistinctCalls
<1>12. HeldCalls'
  <2>1. call[heap[a].call].state = "replied"
    BY <1>t, <1>1 DEF StateInv, ObjectInv
  <2> QED
    BY <1>t, <1>2, <1>4, <1>5, <2>1 DEF StateInv, HeldCalls
<1>13. AcceptorInv'
  <2>1. \A k : Acceptors(k)' = Acceptors(k)
    BY <1>1, <1>4, <1>5 DEF Acceptors
  <2>2. Registered' = Registered
    BY <1>2 DEF Registered
  <2> QED
    BY <1>t, <2>1, <2>2 DEF AcceptorInv, Served
<1> QED
  BY <1>6, <1>7, <1>8, <1>9, <1>10, <1>11, <1>12, <1>13 DEF ServerIInv

\* gRPC gives a waiting call to an acceptor of its method.
LEMMA MatchKeeps ==
  ASSUME ServerIInv, NEW r \in Rpc, NEW a \in Addr, Match(r, a)
  PROVE  ServerIInv'
<1>t. TypeOK /\ TagListExact /\ StateInv /\ AcceptorInv
  BY DEF ServerIInv, StateInv
<1>1. /\ call[r].state = "waiting"
      /\ op[a] = "requested"
      /\ heap[a].method = call[r].method
      /\ UNCHANGED <<tags, thread>>
  BY DEF Match
<1>2. a \in Live /\ heap[a].status = "PROCESS"
  BY <1>t, <1>1 DEF StateInv, OneOperationPerObject
<1> DEFINE after == [heap[a] EXCEPT !.call = r]
           served == [call[r] EXCEPT !.state = "serving"]
<1>3. /\ after \in CallData
      /\ after # NULL
      /\ after.method = heap[a].method
      /\ after.status = "PROCESS"
      /\ after.call = r
  BY <1>t, <1>2, LiveObject, ConstantsAssumption
     DEF CallData, ConstantsAssumption
<1>4. /\ served \in [state : CallState, method : CallApi \cup {NULL}]
      /\ served.state = "serving"
      /\ served.method = call[r].method
  BY <1>t DEF TypeOK, CallState
<1>5. /\ heap' = [heap EXCEPT ![a] = after]
      /\ op' = [op EXCEPT ![a] = "matched"]
      /\ call' = [call EXCEPT ![r] = served]
  BY DEF Match
<1>6. /\ heap'[a] = after
      /\ op'[a] = "matched"
      /\ call'[r] = served
      /\ \A b \in Addr \ {a} : heap'[b] = heap[b] /\ op'[b] = op[b]
      /\ \A q \in Rpc \ {r} : call'[q] = call[q]
  BY <1>t, <1>5 DEF TypeOK
<1> HIDE DEF after, served
<1>7. Live' = Live
  BY <1>2, <1>3, <1>6 DEF Live
<1>8. \A b \in Live \ {a} : heap'[b] = heap[b] /\ op'[b] = op[b]
  BY <1>6 DEF Live
<1>9. \A b \in Live : heap[b].call # r
  <2>1. \A b \in Live : heap[b].call = r => op[b] # "requested"
    BY <1>t, ConstantsAssumption DEF StateInv, ObjectInv, ConstantsAssumption
  <2> QED
    BY <1>t, <1>1, <2>1 DEF StateInv, ObjectInv, OneOperationPerObject, Live
<1>10. TypeOK'
  BY <1>t, <1>1, <1>3, <1>4, <1>5 DEF TypeOK, OpState
<1>11. LoopInv'
  BY <1>t, <1>1 DEF StateInv, LoopInv
<1>12. OneOperationPerObject'
  BY <1>t, <1>2, <1>3, <1>6, <1>7 DEF StateInv, OneOperationPerObject
<1>13. ObjectInv'
  <2>1. ASSUME NEW b \in Live \ {a}, op[b] # "requested"
        PROVE  heap[b].call \in Rpc /\ call'[heap[b].call] = call[heap[b].call]
    BY <1>t, <1>6, <1>9, <2>1, LiveObject DEF StateInv, ObjectInv
  <2>2. r # NULL
    BY ConstantsAssumption DEF ConstantsAssumption
  <2> QED
    BY <1>t, <1>1, <1>2, <1>3, <1>4, <1>6, <1>7, <1>8, <2>1, <2>2
       DEF StateInv, ObjectInv
<1>14. DistinctCalls'
  BY <1>t, <1>3, <1>6, <1>7, <1>8, <1>9 DEF StateInv, DistinctCalls
<1>15. HeldCalls'
  <2>1. heap[a].call = NULL
    BY <1>t, <1>1, <1>2 DEF StateInv, ObjectInv
  <2>2. \A q \in Rpc : q # NULL
    BY ConstantsAssumption DEF ConstantsAssumption
  <2> QED
    BY <1>t, <1>2, <1>3, <1>6, <1>7, <1>8, <2>1, <2>2 DEF StateInv, HeldCalls
<1>16. \A b \in Live : /\ heap'[b].method = heap[b].method
                      /\ heap'[b].status = heap[b].status
  BY <1>2, <1>3, <1>6, <1>8
<1>17. Registered' = Registered
  BY <1>1 DEF Registered
<1>18. TagListExact' /\ AcceptorInv'
  BY <1>t, <1>1, <1>7, <1>16, <1>17, ListUntouched, AcceptorsUntouched
<1> QED
  BY <1>10, <1>11, <1>12, <1>13, <1>14, <1>15, <1>18 DEF ServerIInv

\* What a step of gRPC and the peers that changes calls only leaves alone.
LEMMA HeapUntouched ==
  ASSUME ServerIInv, UNCHANGED <<heap, tags, thread>>
  PROVE  /\ Live' = Live
         /\ TagListExact'
         /\ LoopInv'
         /\ DistinctCalls'
         /\ AcceptorInv'
<1>1. Live' = Live /\ Registered' = Registered
  BY DEF Live, Registered
<1> QED
  BY <1>1, ListUntouched, AcceptorsUntouched
     DEF ServerIInv, LoopInv, DistinctCalls

\* The reply of an object reaches the wire, or finds its call dead.
LEMMA WriteKeeps ==
  ASSUME ServerIInv, NEW a \in Addr, WriteDone(a)
  PROVE  ServerIInv'
<1> DEFINE r == heap[a].call
           alive == call[r].state = "serving"
           result == IF alive THEN "written" ELSE "failed"
<1>t. TypeOK /\ StateInv
  BY DEF ServerIInv, StateInv
<1>1. /\ op[a] = "writing"
      /\ op' = [op EXCEPT ![a] = result]
      /\ call' = IF alive THEN [call EXCEPT ![r].state = "replied"] ELSE call
      /\ UNCHANGED <<heap, tags, thread>>
  BY DEF WriteDone
<1>2. a \in Live /\ heap[a].status = "FINISH"
  BY <1>t, <1>1, LiveObject DEF StateInv, OneOperationPerObject
<1>3. r \in Rpc /\ call[r].state \in {"serving", "dead"}
  BY <1>t, <1>1, <1>2, LiveObject DEF StateInv, ObjectInv
<1>4. /\ op'[a] = result
      /\ \A b \in Addr \ {a} : op'[b] = op[b]
  BY <1>t, <1>1 DEF TypeOK
<1>5. /\ call'[r].state = IF alive THEN "replied" ELSE "dead"
      /\ call'[r].method = call[r].method
      /\ \A q \in Rpc \ {r} : call'[q] = call[q]
  BY <1>t, <1>1, <1>3 DEF TypeOK
<1>6. \A b \in Live \ {a} : heap[b].call # r
  BY <1>t, <1>2, <1>3, ConstantsAssumption
     DEF StateInv, DistinctCalls, ConstantsAssumption
<1>7. TypeOK'
  <2>1. op' \in [Addr -> OpState]
    BY <1>t, <1>1 DEF TypeOK, OpState
  <2>2. call' \in [Rpc -> [state : CallState, method : CallApi \cup {NULL}]]
    <3>1. call \in [Rpc -> [state : CallState, method : CallApi \cup {NULL}]]
      BY <1>t DEF TypeOK
    <3>2. [call EXCEPT ![r].state = "replied"]
            \in [Rpc -> [state : CallState, method : CallApi \cup {NULL}]]
      BY <3>1 DEF CallState
    <3> QED
      BY <1>1, <3>1, <3>2
  <2> QED
    BY <1>t, <1>1, <2>1, <2>2 DEF TypeOK
<1>8. Live' = Live /\ TagListExact' /\ LoopInv' /\ DistinctCalls' /\ AcceptorInv'
  BY <1>1, HeapUntouched
<1> HIDE DEF r, alive, result
<1>9. result \in {"written", "failed"} /\ (result = "written" <=> alive)
  BY DEF result
<1>10. OneOperationPerObject'
  BY <1>t, <1>1, <1>2, <1>4, <1>8, <1>9 DEF StateInv, OneOperationPerObject
<1>11. ObjectInv'
  <2>1. ASSUME NEW b \in Live \ {a}, op[b] # "requested"
        PROVE  call'[heap[b].call] = call[heap[b].call]
    BY <1>t, <1>5, <1>6, <2>1, LiveObject DEF StateInv, ObjectInv
  <2>2. \A b \in Live \ {a} : op'[b] = op[b]
    BY <1>4 DEF Live
  <2>3. heap[a].call = r /\ r # NULL
    BY <1>3, ConstantsAssumption DEF ConstantsAssumption, r
  <2>4. ASSUME NEW b \in Live \ {a}
        PROVE  /\ op'[b] = op[b]
               /\ op[b] # "requested" =>
                    call'[heap[b].call] = call[heap[b].call]
    BY <2>1, <2>2
  <2>5. /\ call'[r].method = heap[a].method
        /\ op'[a] = "written" => call'[r].state = "replied"
        /\ op'[a] = "failed" => call'[r].state = "dead"
    BY <1>t, <1>1, <1>2, <1>4, <1>5, <1>9, <2>3 DEF StateInv, ObjectInv
  <2>6. op'[a] \in {"written", "failed"}
    BY <1>4, <1>9
  <2> SUFFICES ASSUME NEW b \in Live
               PROVE  /\ heap[b].call = NULL <=> op'[b] = "requested"
                      /\ op'[b] # "requested" =>
                           call'[heap[b].call].method = heap[b].method
                      /\ op'[b] \in {"matched", "writing"} =>
                           call'[heap[b].call].state \in {"serving", "dead"}
                      /\ op'[b] = "written" =>
                           call'[heap[b].call].state = "replied"
                      /\ op'[b] = "failed" =>
                           call'[heap[b].call].state = "dead"
    BY <1>1, <1>8 DEF ObjectInv
  <2>7. CASE b = a
    BY <2>3, <2>5, <2>6, <2>7
  <2>8. CASE b # a
    BY <1>t, <2>4, <2>8 DEF StateInv, ObjectInv
  <2> QED
    BY <2>7, <2>8
<1>12. HeldCalls'
  BY <1>t, <1>1, <1>3, <1>5, <1>8 DEF StateInv, HeldCalls
<1> QED
  BY <1>7, <1>8, <1>10, <1>11, <1>12 DEF ServerIInv

\* A call that arrives, dies or is dropped: it is not in service afterwards,
\* and the objects that hold it, if any, find it dead.
LEMMA CallKeeps ==
  ASSUME ServerIInv, NEW r \in Rpc,
         \/ \E m \in CallApi : Arrive(r, m)
         \/ Die(r)
         \/ Forget(r)
  PROVE  ServerIInv'
<1>t. TypeOK /\ StateInv
  BY DEF ServerIInv, StateInv
<1>1. UNCHANGED <<heap, tags, op, thread>>
  BY DEF Arrive, Die, Forget
<1>2. Live' = Live /\ TagListExact' /\ LoopInv' /\ DistinctCalls' /\ AcceptorInv'
  BY <1>1, HeapUntouched
<1>3. /\ call' \in [Rpc -> [state : CallState, method : CallApi \cup {NULL}]]
      /\ \A q \in Rpc \ {r} : call'[q] = call[q]
      /\ call'[r].state # "serving"
      /\ \/ \A a \in Live : heap[a].call # r
         \/ /\ call[r].state \in {"waiting", "serving"}
            /\ call'[r].state = "dead"
            /\ call'[r].method = call[r].method
  <2>1. CASE \E m \in CallApi : Arrive(r, m)
    <3>1. PICK m \in CallApi : Arrive(r, m)
      BY <2>1
    <3> DEFINE s == IF m \in Served THEN "waiting" ELSE "rejected"
    <3>2. /\ call[r].state = "absent"
          /\ call' = [call EXCEPT ![r] = [state |-> s, method |-> m]]
      BY <3>1 DEF Arrive
    <3>3. s \in CallState /\ s # "serving"
      BY DEF CallState
    <3>4. \A a \in Live : heap[a].call # r
      BY <1>t, <3>2, LiveObject, ConstantsAssumption
         DEF StateInv, ObjectInv, OneOperationPerObject, ConstantsAssumption
    <3> HIDE DEF s
    <3> QED
      BY <1>t, <3>2, <3>3, <3>4 DEF TypeOK
  <2>2. CASE Die(r)
    BY <1>t, <2>2 DEF TypeOK, CallState, Die
  <2>3. CASE Forget(r)
    BY <1>t, <2>3 DEF TypeOK, CallState, Forget
  <2> QED
    BY <2>1, <2>2, <2>3
<1>4. TypeOK'
  BY <1>t, <1>1, <1>3 DEF TypeOK
<1>5. OneOperationPerObject'
  BY <1>t, <1>1, <1>2 DEF StateInv, OneOperationPerObject
<1>6. ObjectInv'
  <2> SUFFICES ASSUME NEW a \in Live,
                      op[a] # "requested"
               PROVE  /\ call'[heap[a].call].method = heap[a].method
                      /\ op[a] \in {"matched", "writing"} =>
                           call'[heap[a].call].state \in {"serving", "dead"}
                      /\ op[a] = "written" =>
                           call'[heap[a].call].state = "replied"
                      /\ op[a] = "failed" =>
                           call'[heap[a].call].state = "dead"
    BY <1>t, <1>1, <1>2 DEF StateInv, ObjectInv
  <2>1. heap[a].call \in Rpc
    BY <1>t, LiveObject DEF StateInv, ObjectInv
  <2>2. CASE heap[a].call = r
    BY <1>t, <1>3, <2>2 DEF StateInv, ObjectInv
  <2>3. CASE heap[a].call # r
    BY <1>t, <1>3, <2>1, <2>3 DEF StateInv, ObjectInv
  <2> QED
    BY <2>2, <2>3
<1>7. HeldCalls'
  BY <1>t, <1>1, <1>2, <1>3 DEF StateInv, HeldCalls
<1> QED
  BY <1>2, <1>4, <1>5, <1>6, <1>7 DEF ServerIInv

\* The failed assertion stops the thread and changes nothing else.
LEMMA AbortKeeps ==
  ASSUME ServerIInv,
         \/ \E a \in Addr : Abort(a)
         \/ UNCHANGED vars
  PROVE  ServerIInv'
<1>t. TypeOK /\ TagListExact /\ StateInv /\ AcceptorInv
  BY DEF ServerIInv, StateInv
<1>1. /\ UNCHANGED <<heap, tags, op, call>>
      /\ thread' = thread \/ (/\ thread.pc = "poll"
                              /\ thread' = [thread EXCEPT !.pc = "aborted"])
  BY DEF Abort, vars
<1>2. Live' = Live /\ Registered' = Registered
  BY <1>t, <1>1 DEF Live, Registered, TypeOK
<1>3. TypeOK' /\ LoopInv'
  BY <1>t, <1>1 DEF TypeOK, StateInv, LoopInv
<1>4. TagListExact' /\ AcceptorInv'
  BY <1>t, <1>1, <1>2, ListUntouched, AcceptorsUntouched
<1>5. OneOperationPerObject' /\ ObjectInv' /\ DistinctCalls' /\ HeldCalls'
  BY <1>t, <1>1, <1>2
     DEF StateInv, OneOperationPerObject, ObjectInv, DistinctCalls, HeldCalls
<1> QED
  BY <1>3, <1>4, <1>5 DEF ServerIInv

\* Every step of the server's thread, of gRPC and of the peers preserves the
\* inductive invariant.
LEMMA NextServerIInv == ServerIInv /\ [Next]_vars => ServerIInv'
<1> SUFFICES ASSUME ServerIInv, [Next]_vars PROVE ServerIInv'
  OBVIOUS
<1> QED
  BY RegisterKeeps, ProcessKeeps, FinishKeeps, MatchKeeps, WriteKeeps,
     CallKeeps, AbortKeeps DEF Next, HandleEvent, Aborted

\* Before the first registration there is no object and no call.
LEMMA InitServerIInv == Init => ServerIInv
<1> SUFFICES ASSUME Init PROVE ServerIInv
  OBVIOUS
<1> USE DEF Init
<1>1. Live = {} /\ Registered = {}
  <2>1. 1 .. thread.registered = {}
    OBVIOUS
  <2> QED
    BY <2>1 DEF Live, Registered
<1>2. Len(Registrations) \in Nat /\ 0 < Len(Registrations)
  BY ConstantsAssumption, LenProperties, EmptySeq DEF ConstantsAssumption
<1>3. /\ <<>> \in Seq([tag : Served, obj : Addr])
      /\ UniqueObj(<<>>)
      /\ Entries(<<>>) = {}
  BY DEF UniqueObj, Entries, ToSet
<1>4. TypeOK
  <2>1. thread \in [pc : {"register", "poll", "aborted", "down"},
                    registered : 0 .. Len(Registrations)]
    BY <1>2
  <2> QED
    BY <1>3, <2>1 DEF TypeOK, OpState, CallState
<1>5. TagListExact
  BY <1>1, <1>3 DEF TagListExact
<1>6. LoopInv /\ ObjectInv /\ DistinctCalls /\ HeldCalls
  BY <1>1, <1>2 DEF LoopInv, ObjectInv, DistinctCalls, HeldCalls
<1>7. OneOperationPerObject
  BY <1>1 DEF OneOperationPerObject
<1>8. AcceptorInv
  BY <1>1 DEF AcceptorInv, Acceptors
<1> QED
  BY <1>4, <1>5, <1>6, <1>7, <1>8 DEF ServerIInv

-----------------------------------------------------------------------------
(* The theorems. *)

\* The inductive invariant holds in every reachable state of the server.
THEOREM ServerInductive == Spec => []ServerIInv
BY InitServerIInv, NextServerIInv, PTL DEF Spec

\* Type correctness: no object is left in the status CREATE.
THEOREM ServerTypeCorrect == Spec => []TypeOK
<1>1. ServerIInv => TypeOK
  BY DEF ServerIInv
<1> QED
  BY <1>1, ServerInductive, PTL

\* The list is exact for any number of objects that reuse any number of
\* addresses: every static_cast is to the right class.
THEOREM ServerTagListExact == Spec => []TagListExact
<1>1. ServerIInv => TagListExact
  BY DEF ServerIInv
<1> QED
  BY <1>1, ServerInductive, PTL

\* Proceed never takes the wrong branch and no operation outlives its object.
THEOREM ServerOneOperation == Spec => []OneOperationPerObject
<1>1. ServerIInv => OneOperationPerObject
  BY DEF ServerIInv
<1> QED
  BY <1>1, ServerInductive, PTL

\* Every registered method keeps exactly one acceptor, however many calls.
THEOREM ServerOneAcceptor == Spec => []OneAcceptorPerMethod
<1>1. ServerIInv => OneAcceptorPerMethod
  <2> SUFFICES ASSUME ServerIInv, NEW m \in Served
               PROVE  Cardinality(Acceptors(m))
                        = IF m \in Registered THEN 1 ELSE 0
    BY DEF OneAcceptorPerMethod, Acceptors
  <2>1. CASE m \in Registered
    <3>1. PICK a \in Addr : Acceptors(m) = {a}
      BY <2>1 DEF ServerIInv, AcceptorInv
    <3> QED
      BY <2>1, <3>1, FS_Singleton
  <2>2. CASE m \notin Registered
    <3>1. Acceptors(m) = {}
      BY <2>2 DEF ServerIInv, AcceptorInv
    <3> QED
      BY <2>2, <3>1, FS_EmptySet
  <2> QED
    BY <2>1, <2>2
<1> QED
  BY <1>1, ServerInductive, PTL

\* No call is answered by two objects or by an object of another method.
THEOREM ServerOneObject == Spec => []OneObjectPerCall
<1>1. ServerIInv => OneObjectPerCall
  <2> SUFFICES ASSUME ServerIInv, NEW r \in Rpc
               PROVE  LET serving == {a \in Live : heap[a].call = r} IN
                      /\ Cardinality(serving) <= 1
                      /\ call[r].state = "serving" => serving # {}
                      /\ \A a \in serving : heap[a].method = call[r].method
    BY DEF OneObjectPerCall
  <2> DEFINE serving == {a \in Live : heap[a].call = r}
  <2>0. r # NULL
    BY ConstantsAssumption DEF ConstantsAssumption
  <2>1. serving = {} \/ \E a \in Live : serving = {a}
    BY <2>0 DEF ServerIInv, DistinctCalls
  <2>2. Cardinality(serving) <= 1
    <3>1. CASE serving = {}
      BY <3>1, FS_EmptySet
    <3>2. ASSUME NEW a \in Live, serving = {a} PROVE Cardinality(serving) = 1
      BY <3>2, FS_Singleton
    <3> HIDE DEF serving
    <3> QED
      BY <2>1, <3>1, <3>2, FS_EmptySet
  <2>3. call[r].state = "serving" => serving # {}
    BY DEF ServerIInv, HeldCalls
  <2>4. \A a \in serving : heap[a].method = call[r].method
    BY <2>0 DEF ServerIInv, ObjectInv
  <2> QED
    BY <2>2, <2>3, <2>4
<1> QED
  BY <1>1, ServerInductive, PTL

-----------------------------------------------------------------------------
P == INSTANCE SessionClient_proofs WITH
  Addr <- CAddr, heap <- cHeap, tags <- cTags, rpc <- cRpc,
  shutdown <- cShutdown, main <- cMain, reaper <- cReaper

-----------------------------------------------------------------------------
(* The steps of the system, as the client sees them. *)

\* The client sees of a step one of its own, or nothing.
LEMMA ClientSide == [SystemNext]_systemVars => [Client!Next]_clientVars
<1> SUFFICES ASSUME [SystemNext]_systemVars PROVE [Client!Next]_clientVars
  OBVIOUS
<1>1. CASE UNCHANGED systemVars \/ ClientGone
  <2>1. UNCHANGED systemVars
    BY <1>1 DEF ClientGone
  <2> QED
    BY <2>1 DEF systemVars
<1>2. CASE ClientSteps
  BY <1>2 DEF ClientSteps, Client!Next, Client!IssueStep
<1>3. CASE ServerSteps
  BY <1>3 DEF ServerSteps
<1>4. ASSUME NEW r \in Rpc,
             Send(r) \/ OtherCalls(r) \/ ServerSideEnds(r) \/ Forgotten(r)
      PROVE  [Client!Next]_clientVars
  BY <1>4 DEF Send, OtherCalls, ServerSideEnds, Forgotten, Client!Next,
     Client!IssueStep
<1>5. CASE SendLost
  BY <1>5 DEF SendLost, Client!Next, Client!IssueStep
<1>6. ASSUME NEW a \in CAddr, ClientSideEnds(a)
      PROVE  [Client!Next]_clientVars
  <2>1. Client!Complete(a, "OK") \/ Client!Complete(a, "FAILED") \/ Client!Expire(a)
    BY <1>6 DEF ClientSideEnds, Answered, Broken
  <2>2. Client!Answer(a) \/ Client!Expire(a)
    BY <2>1 DEF Client!Answer
  <2> QED
    BY <2>2 DEF Client!Next
<1> QED
  BY <1>1, <1>2, <1>3, <1>4, <1>5, <1>6 DEF SystemNext

-----------------------------------------------------------------------------
(* The client of the system is the client of SessionClient_proofs. *)

\* The assumptions on the client's constants are those of the system.
LEMMA SameConstants == P!ConstantsAssumption
BY SystemAssumption DEF SystemAssumption, Client!ConstantsAssumption,
   P!ConstantsAssumption, Client!CallStruct, P!CallStruct, Client!Api, P!Api

\* Both instances start alike.
LEMMA SameInit == Client!Init => P!Init
BY DEF Client!Init, P!Init

\* Both instances take the same steps.
LEMMA SameNext == [Client!Next]_clientVars => [P!Next]_P!vars
<1> USE DEF Client!vars, P!vars, clientVars, Client!Live, P!Live
<1>1. \A api : Client!Request(api) => P!Request(api)
  BY DEF Client!Request, P!Request, Client!NewCall, P!NewCall
<1>2. Client!tag_push => P!tag_push
  BY DEF Client!tag_push, P!tag_push, Client!PushedTag, P!PushedTag,
     Client!TagPush, P!TagPush
<1>3. Client!StartCall \/ Client!FinishCall => P!StartCall \/ P!FinishCall
  BY DEF Client!StartCall, P!StartCall, Client!FinishCall, P!FinishCall
<1>4. Client!tag_pop => P!tag_pop
  BY DEF Client!tag_pop, P!tag_pop, Client!TagErase, P!TagErase, Client!TagOf,
     P!TagOf, Client!TagFind, P!TagFind, Client!RemoveAt, P!RemoveAt,
     Client!SelectInSeq, P!SelectInSeq, Client!Min, P!Min
<1>5. Client!Cleanup => P!Cleanup
  BY DEF Client!Cleanup, P!Cleanup, Client!Listed, P!Listed, Client!ToSet,
     P!ToSet
<1>6. Client!Dispatch => P!Dispatch
  BY DEF Client!Dispatch, P!Dispatch, Client!Handled, P!Handled, Client!Api,
     P!Api
<1>7. \/ Client!StopAsyncCompleteRpc \/ Client!Join
      \/ Client!NextEnd \/ Client!Exited
      => P!StopAsyncCompleteRpc \/ P!Join \/ P!NextEnd \/ P!Exited
  BY DEF Client!StopAsyncCompleteRpc, P!StopAsyncCompleteRpc, Client!Join,
     P!Join, Client!NextEnd, P!NextEnd, Client!Exited, P!Exited,
     Client!Drained, P!Drained
<1>8. \A a : Client!Answer(a) \/ Client!Expire(a) \/ Client!NextEvent(a)
             => P!Answer(a) \/ P!Expire(a) \/ P!NextEvent(a)
  BY DEF Client!Answer, P!Answer, Client!Expire, P!Expire, Client!NextEvent,
     P!NextEvent, Client!Complete, P!Complete
<1> QED
  BY <1>1, <1>2, <1>3, <1>4, <1>5, <1>6, <1>7, <1>8
     DEF Client!Next, P!Next, Client!IssueStep, P!IssueStep, Client!ReapStep,
         P!ReapStep

\* A step of the system keeps the client's inductive invariant.
LEMMA ClientInvStep == P!IInv /\ [SystemNext]_systemVars => P!IInv'
BY SameConstants, ClientSide, SameNext, P!NextIInv

\* The client's inductive invariant holds throughout the system: whatever the
\* server, the channel and other peers do.
THEOREM SystemClientInductive == SystemSpec => []P!IInv
<1>1. SystemInit => P!IInv
  BY SameConstants, SameInit, P!InitIInv DEF SystemInit
<1> QED
  BY <1>1, ClientInvStep, PTL DEF SystemSpec

\* Whatever server, channel and other peers do, the client keeps the promise
\* of CallLedger: a call is answered once, reaped once, and the ledger closes
\* with no call in it.
THEOREM SystemKeepsLedger ==
  SystemSpec => P!Ledger!Init /\ [][P!Ledger!Next]_(P!Ledger!vars)
<1>1. SystemInit => P!Init
  BY SameInit DEF SystemInit
<1>2. P!Init => P!Ledger!Init
  BY SameConstants, P!InitLedger
<1>3. P!Init => P!StatusInv
  BY DEF P!Init, P!StatusInv, P!Live
<1>4. P!IInv /\ P!StatusInv /\ [SystemNext]_systemVars => P!StatusInv'
  BY SameConstants, ClientSide, SameNext, P!NextStatus DEF P!LedgerInv
<1>5. P!IInv /\ P!StatusInv /\ [SystemNext]_systemVars
        => [P!Ledger!Next]_(P!Ledger!vars)
  BY SameConstants, ClientSide, SameNext, P!NextLedger DEF P!LedgerInv
<1> QED
  BY <1>1, <1>2, <1>3, <1>4, <1>5, SystemClientInductive, PTL DEF SystemSpec

-----------------------------------------------------------------------------
(* What the steps of the client do to the calls it has issued. *)

\* The facts of the client's invariant that are used below.
LEMMA ClientFacts ==
  ASSUME P!IInv
  PROVE  /\ cHeap \in [CAddr -> P!CallStruct \cup {NULL}]
         /\ cRpc \in [CAddr -> P!RpcState]
         /\ \A a \in CAddr : cRpc[a] # "none" => cHeap[a] # NULL
         /\ cMain.pc = "start" => cRpc[cMain.call] = "none"
         /\ cMain.pc = "finish" => /\ cMain.call \in CAddr
                                   /\ cRpc[cMain.call] = "started"
                                   /\ cHeap[cMain.call] # NULL
         /\ cReaper.pc = "dispatch" => cRpc[cReaper.got] = "none"
         /\ cReaper.pc = "cleanup" => \A a \in CAddr : cHeap[a] = NULL
         /\ NULL \notin P!CallStruct
BY SameConstants DEF P!IInv, P!TypeOK, P!MainHolds, P!ReaperHolds, P!GrpcHolds,
   P!DownInOrder, P!Live, P!ConstantsAssumption

\* The threads of the client never touch a call that gRPC watches, and make
\* no call but the user's.
LEMMA ClientFrame ==
  ASSUME P!IInv, ClientSteps, NEW a \in CAddr
  PROVE  /\ cRpc'[a] = "watched" <=> cRpc[a] = "watched"
         /\ cRpc[a] = "watched" => cHeap'[a] = cHeap[a]
         /\ \/ cHeap'[a] = NULL
            \/ cHeap'[a] = cHeap[a]
            \/ cHeap'[a].api \in UserApi /\ cHeap'[a].status = "unset"
<1> USE ClientFacts
<1>1. ASSUME NEW api \in UserApi, Client!Request(api)
      PROVE /\ cRpc'[a] = "watched" <=> cRpc[a] = "watched"
            /\ cRpc[a] = "watched" => cHeap'[a] = cHeap[a]
            /\ \/ cHeap'[a] = cHeap[a]
               \/ cHeap'[a].api \in UserApi /\ cHeap'[a].status = "unset"
  <2>1. cRpc' = cRpc
    BY <1>1 DEF Client!Request
  <2>2. \/ cHeap'[a] = cHeap[a]
        \/ cHeap[a] = NULL /\ cHeap'[a] = Client!NewCall(api)
    BY <1>1 DEF Client!Request, Client!Live
  <2>3. Client!NewCall(api).api = api /\ Client!NewCall(api).status = "unset"
    BY DEF Client!NewCall
  <2> QED
    BY <2>1, <2>2, <2>3
<1>2. CASE \/ Client!tag_push \/ Client!StopAsyncCompleteRpc \/ Client!Join
           \/ Client!NextEnd \/ Client!tag_pop
  BY <1>2 DEF Client!tag_push, Client!StopAsyncCompleteRpc, Client!Join,
     Client!NextEnd, Client!tag_pop
<1>3. CASE Client!StartCall
  BY <1>3 DEF Client!StartCall
<1>4. ASSUME NEW b \in CAddr, Client!NextEvent(b)
      PROVE UNCHANGED cHeap /\ (cRpc'[a] = "watched" <=> cRpc[a] = "watched")
  BY <1>4 DEF Client!NextEvent
<1>5. CASE Client!Dispatch
  BY <1>5 DEF Client!Dispatch
<1>6. CASE Client!Cleanup
  BY <1>6 DEF Client!Cleanup
<1> QED
  BY <1>1, <1>2, <1>3, <1>4, <1>5, <1>6 DEF ClientSteps, Client!ReapStep

\* Finish hands exactly the main thread's call to gRPC.
LEMMA FinishFrame ==
  ASSUME P!IInv, Client!FinishCall
  PROVE  /\ cMain.call \in CAddr
         /\ cRpc[cMain.call] = "started"
         /\ cHeap[cMain.call] # NULL
         /\ cHeap' = cHeap
         /\ cRpc' = [cRpc EXCEPT ![cMain.call] = "watched"]
BY ClientFacts DEF Client!FinishCall

\* The end of a call takes it from gRPC and writes its status.
LEMMA CompleteFrame ==
  ASSUME P!IInv, NEW a \in CAddr, NEW s \in {"OK", "FAILED"},
         Client!Complete(a, s)
  PROVE  /\ cRpc' = [cRpc EXCEPT ![a] = "queued"]
         /\ \A b \in CAddr \ {a} : cHeap'[b] = cHeap[b]
         /\ cHeap[a] # NULL
         /\ cHeap'[a].api = cHeap[a].api
         /\ cHeap'[a].status = s
<1>1. cHeap[a] \in P!CallStruct /\ cHeap[a] # NULL
  BY ClientFacts DEF Client!Complete, P!RpcState
<1>2. cHeap' = [cHeap EXCEPT ![a] = [cHeap[a] EXCEPT !.status = s]]
  BY DEF Client!Complete
<1> QED
  BY <1>1, <1>2, ClientFacts DEF Client!Complete, P!CallStruct

-----------------------------------------------------------------------------
(* The link. *)

\* The places for calls have the types the code gives them.
CallTyped == call \in [Rpc -> [state : CallState, method : CallApi \cup {NULL}]]

\* The calls of the client are the user's.
OnlyUserCalls == \A a \in CAddr : cHeap[a] # NULL => cHeap[a].api \in UserApi

\* Only a call of a method HandleRpcs registered gets as far as an acceptor.
OnlyServedReplied ==
  \A r \in Rpc : call[r].state \in {"waiting", "serving", "replied"} =>
                   call[r].method \in Served

ServerInv == CallTyped /\ OnlyServedReplied

LinkInv == /\ link \in [CAddr -> Rpc \cup {NULL}]
           /\ OnlyUserCalls
           /\ LinkExact
           /\ UnservedNeverOk

\* No call is dropped and none changes its method.
CallsKept ==
  \A r \in Rpc : /\ call'[r].method = call[r].method
                 /\ call[r].state # "absent" => call'[r].state # "absent"

\* A call that moves on in its life keeps its place and its method.
LEMMA MoveCall ==
  ASSUME ServerInv, NEW q \in Rpc, NEW s \in CallState \ {"absent"},
         call' = [call EXCEPT ![q].state = s],
         \/ s = "dead"
         \/ call[q].state \in {"waiting", "serving"}
  PROVE  ServerInv' /\ CallsKept
<1> USE DEF ServerInv, CallTyped
<1>1. call'[q] = [state |-> s, method |-> call[q].method]
  OBVIOUS
<1>2. \A r \in Rpc \ {q} : call'[r] = call[r]
  OBVIOUS
<1>3. CallTyped'
  OBVIOUS
<1>4. OnlyServedReplied'
  BY <1>1, <1>2 DEF OnlyServedReplied
<1>5. CallsKept
  BY <1>1, <1>2 DEF CallsKept
<1> QED
  BY <1>3, <1>4, <1>5

\* The server and its gRPC move calls along; they drop none, change no method
\* and reply to none they did not serve.
LEMMA ServerFrame ==
  ASSUME ServerInv, ServerSteps
  PROVE  ServerInv' /\ CallsKept
<1>0. ASSUME UNCHANGED call PROVE ServerInv' /\ CallsKept
  BY <1>0 DEF ServerInv, CallTyped, OnlyServedReplied, CallsKept
<1>1. CASE Register
  BY <1>0, <1>1 DEF Register
<1>2. ASSUME NEW a \in Addr, HandleEvent(a) \/ Abort(a)
      PROVE  ServerInv' /\ CallsKept
  BY <1>0, <1>2 DEF HandleEvent, Abort, Process, FinishAndDelete
<1>3. ASSUME NEW a \in Addr, WriteDone(a)
      PROVE  ServerInv' /\ CallsKept
  <2> DEFINE r == heap[a].call
  <2>1. CASE call' = call
    BY <1>0, <2>1
  <2>2. CASE call' # call
    <3>1. /\ call[r].state = "serving"
          /\ call' = [call EXCEPT ![r].state = "replied"]
      BY <1>3, <2>2 DEF WriteDone
    <3>2. r \in Rpc
      BY <3>1, <2>2 DEF ServerInv, CallTyped
    <3>3. "replied" \in CallState \ {"absent"}
      BY DEF CallState
    <3> HIDE DEF r
    <3> QED
      BY <3>1, <3>2, <3>3, MoveCall
  <2> QED
    BY <2>1, <2>2
<1>4. ASSUME NEW r \in Rpc, NEW a \in Addr, Match(r, a)
      PROVE  ServerInv' /\ CallsKept
  BY <1>4, MoveCall DEF Match, CallState
<1> QED
  BY <1>1, <1>2, <1>3, <1>4 DEF ServerSteps

\* A call that arrives takes a free place, and waits only if its method is
\* served; other calls stay as they are.
LEMMA ArriveFrame ==
  ASSUME ServerInv, NEW q \in Rpc, NEW m \in CallApi, Arrive(q, m)
  PROVE  /\ ServerInv'
         /\ call[q].state = "absent"
         /\ call'[q].state # "absent"
         /\ call'[q].method = m
         /\ \A r \in Rpc \ {q} : call'[r] = call[r]
<1> USE DEF ServerInv, CallTyped
<1> DEFINE s == IF m \in Served THEN "waiting" ELSE "rejected"
<1>1. call'[q] = [state |-> s, method |-> m]
  BY DEF Arrive
<1>2. \A r \in Rpc \ {q} : call'[r] = call[r]
  BY DEF Arrive
<1>3. CallTyped'
  BY DEF Arrive, CallState
<1>4. OnlyServedReplied'
  BY <1>1, <1>2 DEF OnlyServedReplied
<1> QED
  BY <1>1, <1>2, <1>3, <1>4 DEF Arrive

\* Only an ended call that carries none of the client's is dropped.
LEMMA ForgottenFrame ==
  ASSUME ServerInv, NEW q \in Rpc, Forgotten(q)
  PROVE  /\ ServerInv'
         /\ q \notin Linked
         /\ \A r \in Rpc \ {q} : call'[r] = call[r]
         /\ UNCHANGED <<clientVars, link>>
<1> USE DEF ServerInv, CallTyped
<1>1. call'[q] = [state |-> "absent", method |-> NULL]
  BY DEF Forgotten, Forget
<1>2. \A r \in Rpc \ {q} : call'[r] = call[r]
  BY DEF Forgotten, Forget
<1>3. CallTyped'
  BY DEF Forgotten, Forget, CallState
<1>4. OnlyServedReplied'
  BY <1>1, <1>2 DEF OnlyServedReplied
<1> QED
  BY <1>2, <1>3, <1>4 DEF Forgotten

-----------------------------------------------------------------------------
(* The steps that keep the link as it is. *)

\* A step that keeps the watched calls of the client, and the calls of the
\* server that carry them, keeps the link exact.
LEMMA LinkKept ==
  ASSUME LinkInv, UNCHANGED link,
         \A a \in CAddr : link[a] # NULL =>
           /\ cRpc'[a] = "watched"
           /\ cHeap'[a] = cHeap[a]
           /\ call'[link[a]].method = call[link[a]].method
           /\ call'[link[a]].state # "absent"
  PROVE  LinkExact'
BY DEF LinkInv, LinkExact

\* A step that gives a struct of the heap nothing but a fresh call of the
\* user's keeps what is known of the heap.
LEMMA HeapKept ==
  ASSUME LinkInv,
         \A a \in CAddr : \/ cHeap'[a] = NULL
                          \/ cHeap'[a] = cHeap[a]
                          \/ /\ cHeap'[a].api \in UserApi
                             /\ cHeap'[a].status = "unset"
  PROVE  OnlyUserCalls' /\ UnservedNeverOk'
BY DEF LinkInv, OnlyUserCalls, UnservedNeverOk, Served

\* The client's own steps.
LEMMA ClientStepsKeep ==
  ASSUME P!IInv, ServerInv, LinkInv, ClientSteps
  PROVE  ServerInv' /\ LinkInv'
<1>1. UNCHANGED <<call, link>>
  BY DEF ClientSteps, serverVars, vars
<1>2. ServerInv'
  BY <1>1 DEF ServerInv, CallTyped, OnlyServedReplied
<1>3. \A a \in CAddr : link[a] # NULL =>
        cRpc[a] = "watched" /\ call[link[a]].state # "absent"
  BY DEF LinkInv, LinkExact
<1>4. LinkExact'
  BY <1>1, <1>3, ClientFrame, LinkKept
<1>5. OnlyUserCalls' /\ UnservedNeverOk'
  BY ClientFrame, HeapKept
<1> QED
  BY <1>1, <1>2, <1>4, <1>5 DEF LinkInv

\* Steps the client takes no part in.
LEMMA OthersKeep ==
  ASSUME ServerInv', LinkInv, UNCHANGED <<clientVars, link>>,
         \A r \in Linked : /\ call'[r].method = call[r].method
                           /\ call'[r].state # "absent"
  PROVE  LinkInv'
<1>1. UNCHANGED <<cHeap, cRpc, link>>
  BY DEF clientVars
<1>2. \A a \in CAddr : link[a] # NULL => link[a] \in Linked /\ cRpc[a] = "watched"
  BY DEF Linked, LinkInv, LinkExact
<1>3. LinkExact'
  BY <1>1, <1>2, LinkKept
<1>4. OnlyUserCalls' /\ UnservedNeverOk'
  BY <1>1, HeapKept
<1> QED
  BY <1>1, <1>3, <1>4 DEF LinkInv

\* The server's own steps, and the ends of calls it sees.
LEMMA ServerStepsKeep ==
  ASSUME ServerInv, LinkInv,
         \/ ServerSteps
         \/ \E q \in Rpc : OtherCalls(q) \/ ServerSideEnds(q) \/ Forgotten(q)
  PROVE  ServerInv' /\ LinkInv'
<1>0. \A r \in Linked : r \in Rpc /\ call[r].state # "absent"
  BY DEF Linked, LinkInv, LinkExact
<1>1. CASE ServerSteps
  <2>1. UNCHANGED <<clientVars, link>>
    BY <1>1 DEF ServerSteps
  <2> QED
    BY <1>0, <1>1, <2>1, ServerFrame, OthersKeep DEF CallsKept
<1>2. ASSUME NEW q \in Rpc, OtherCalls(q)
      PROVE  ServerInv' /\ LinkInv'
  <2>1. PICK m \in OtherApi : Arrive(q, m)
    BY <1>2 DEF OtherCalls
  <2>2. m \in CallApi
    BY SystemAssumption DEF SystemAssumption
  <2>3. UNCHANGED <<clientVars, link>>
    BY <1>2 DEF OtherCalls
  <2> QED
    BY <1>0, <2>1, <2>2, <2>3, ArriveFrame, OthersKeep
<1>3. ASSUME NEW q \in Rpc, ServerSideEnds(q)
      PROVE  ServerInv' /\ LinkInv'
  <2>1. ServerInv' /\ CallsKept
    BY <1>3, MoveCall DEF ServerSideEnds, Die, CallState
  <2>2. UNCHANGED <<clientVars, link>>
    BY <1>3 DEF ServerSideEnds
  <2> QED
    BY <1>0, <2>1, <2>2, OthersKeep DEF CallsKept
<1>4. ASSUME NEW q \in Rpc, Forgotten(q)
      PROVE  ServerInv' /\ LinkInv'
  BY <1>0, <1>4, ForgottenFrame, OthersKeep
<1> QED
  BY <1>1, <1>2, <1>3, <1>4

-----------------------------------------------------------------------------
(* The steps that change the link. *)

\* Finish joins the call to a free place at the server.
LEMMA SendKeeps ==
  ASSUME P!IInv, ServerInv, LinkInv, NEW q \in Rpc, Send(q)
  PROVE  ServerInv' /\ LinkInv'
<1> DEFINE c == cMain.call
           m == cHeap[c].api
<1>1. /\ c \in CAddr
      /\ cRpc[c] = "started"
      /\ cHeap[c] # NULL
      /\ cHeap' = cHeap
      /\ cRpc' = [cRpc EXCEPT ![c] = "watched"]
  BY FinishFrame DEF Send
<1>2. m \in CallApi
  BY <1>1, SystemAssumption DEF LinkInv, OnlyUserCalls, SystemAssumption
<1>3. /\ ServerInv'
      /\ call[q].state = "absent"
      /\ call'[q].state # "absent"
      /\ call'[q].method = m
      /\ \A r \in Rpc \ {q} : call'[r] = call[r]
  <2> HIDE DEF m
  <2>1. Arrive(q, m)
    BY DEF Send, m
  <2> QED
    BY <1>2, <2>1, ArriveFrame
<1>4. link \in [CAddr -> Rpc \cup {NULL}] /\ LinkExact
  BY DEF LinkInv
<1>5. link' = [link EXCEPT ![c] = q]
  BY DEF Send
<1>6. link' \in [CAddr -> Rpc \cup {NULL}]
  BY <1>4, <1>5
<1>7. link'[c] = q /\ \A a \in CAddr \ {c} : link'[a] = link[a]
  BY <1>1, <1>4, <1>5
<1>8. cRpc'[c] = "watched" /\ \A a \in CAddr \ {c} : cRpc'[a] = cRpc[a]
  BY <1>1, ClientFacts
<1>9. \A a \in CAddr : link[a] # NULL => link[a] \in Rpc \ {q}
  BY <1>3, <1>4 DEF LinkExact
<1>10. LinkExact'
  BY <1>1, <1>3, <1>4, <1>7, <1>8, <1>9 DEF LinkExact
<1>11. OnlyUserCalls' /\ UnservedNeverOk'
  BY <1>1, HeapKept
<1> QED
  BY <1>3, <1>6, <1>10, <1>11 DEF LinkInv

\* A call that finds no server has no link.
LEMMA SendLostKeeps ==
  ASSUME P!IInv, ServerInv, LinkInv, SendLost
  PROVE  ServerInv' /\ LinkInv'
<1>1. UNCHANGED <<call, link>>
  BY DEF SendLost, serverVars, vars
<1>2. cHeap' = cHeap /\ cRpc' = [cRpc EXCEPT ![cMain.call] = "watched"]
  BY FinishFrame DEF SendLost
<1>3. \A a \in CAddr : cRpc[a] = "watched" => cRpc'[a] = "watched"
  BY <1>2, ClientFacts
<1>4. \A a \in CAddr : link[a] # NULL =>
        cRpc[a] = "watched" /\ call[link[a]].state # "absent"
  BY DEF LinkInv, LinkExact
<1>5. LinkExact'
  BY <1>1, <1>2, <1>3, <1>4, LinkKept
<1>6. OnlyUserCalls' /\ UnservedNeverOk'
  BY <1>2, HeapKept
<1>7. ServerInv'
  BY <1>1 DEF ServerInv, CallTyped, OnlyServedReplied
<1> QED
  BY <1>1, <1>5, <1>6, <1>7 DEF LinkInv

\* The end of a call at the client cuts its link; it is OK only when the
\* server replied, which it does to calls of its methods only.
LEMMA ClientSideEndsKeeps ==
  ASSUME P!IInv, ServerInv, LinkInv, NEW c \in CAddr, ClientSideEnds(c)
  PROVE  ServerInv' /\ LinkInv'
<1>1. UNCHANGED call
  BY DEF ClientSideEnds, serverVars, vars
<1>2. ServerInv'
  BY <1>1 DEF ServerInv, CallTyped, OnlyServedReplied
<1>3. link \in [CAddr -> Rpc \cup {NULL}] /\ LinkExact
  BY DEF LinkInv
<1>4. link' = [link EXCEPT ![c] = NULL]
  BY DEF ClientSideEnds, Unlink
<1>5. PICK s \in {"OK", "FAILED"} :
        /\ Client!Complete(c, s)
        /\ s = "OK" => link[c] # NULL /\ call[link[c]].state = "replied"
  BY DEF ClientSideEnds, Answered, Broken, Client!Expire
<1>6. /\ cRpc' = [cRpc EXCEPT ![c] = "queued"]
      /\ \A b \in CAddr \ {c} : cHeap'[b] = cHeap[b]
      /\ cHeap[c] # NULL
      /\ cHeap'[c].api = cHeap[c].api
      /\ cHeap'[c].status = s
  BY <1>5, CompleteFrame
<1>7. link' \in [CAddr -> Rpc \cup {NULL}]
  BY <1>3, <1>4
<1>8. link'[c] = NULL /\ \A b \in CAddr \ {c} : link'[b] = link[b]
  BY <1>3, <1>4
<1>9. \A b \in CAddr \ {c} : cRpc'[b] = cRpc[b]
  BY <1>6, ClientFacts
<1>10. LinkExact'
  BY <1>1, <1>3, <1>6, <1>8, <1>9 DEF LinkExact
<1>11. OnlyUserCalls'
  BY <1>6 DEF LinkInv, OnlyUserCalls
<1>12. s = "OK" => cHeap[c].api \in Served
  BY <1>3, <1>5 DEF LinkExact, ServerInv, OnlyServedReplied
<1>13. UnservedNeverOk'
  BY <1>6, <1>12 DEF LinkInv, UnservedNeverOk, Served
<1> QED
  BY <1>2, <1>7, <1>10, <1>11, <1>13 DEF LinkInv

-----------------------------------------------------------------------------
\* Every step of the system keeps the link.
LEMMA LinkStep ==
  P!IInv /\ ServerInv /\ LinkInv /\ [SystemNext]_systemVars
  => ServerInv' /\ LinkInv'
<1> SUFFICES ASSUME P!IInv, ServerInv, LinkInv, [SystemNext]_systemVars
             PROVE  ServerInv' /\ LinkInv'
  OBVIOUS
<1>1. CASE UNCHANGED systemVars \/ ClientGone
  <2>1. UNCHANGED <<clientVars, call, link>>
    BY <1>1 DEF ClientGone, systemVars, serverVars, vars
  <2>2. ServerInv'
    BY <2>1 DEF ServerInv, CallTyped, OnlyServedReplied
  <2>3. \A r \in Linked : call[r].state # "absent"
    BY DEF Linked, LinkInv, LinkExact
  <2> QED
    BY <2>1, <2>2, <2>3, OthersKeep
<1> QED
  BY <1>1, ClientStepsKeep, ServerStepsKeep, SendKeeps, SendLostKeeps,
     ClientSideEndsKeeps DEF SystemNext

\* The link holds what it should in every reachable state.
THEOREM SystemInductive == SystemSpec => [](P!IInv /\ ServerInv /\ LinkInv)
<1>1. SystemInit => ServerInv /\ LinkInv
  BY DEF SystemInit, Init, Client!Init, ServerInv, CallTyped, CallState,
     OnlyServedReplied, LinkInv, OnlyUserCalls, LinkExact, UnservedNeverOk
<1> QED
  BY <1>1, LinkStep, SystemClientInductive, PTL DEF SystemSpec

\* No reply ever reaches another call.
THEOREM SystemLinkExact == SystemSpec => []LinkExact
<1>1. LinkInv => LinkExact
  BY DEF LinkInv
<1> QED
  BY <1>1, SystemInductive, PTL

\* A call of a method that is not registered never succeeds.
THEOREM SystemUnservedNeverOk == SystemSpec => []UnservedNeverOk
<1>1. LinkInv => UnservedNeverOk
  BY DEF LinkInv
<1> QED
  BY <1>1, SystemInductive, PTL

\* The server sees of a step one of its own, or nothing.
LEMMA ServerSide ==
  P!IInv /\ LinkInv /\ [SystemNext]_systemVars => [Next]_serverVars
<1> SUFFICES ASSUME P!IInv, LinkInv, [SystemNext]_systemVars
             PROVE  [Next]_serverVars
  OBVIOUS
<1>1. CASE UNCHANGED systemVars \/ ClientGone
  BY <1>1 DEF ClientGone, systemVars
<1>2. CASE ClientSteps
  BY <1>2 DEF ClientSteps
<1>3. CASE ServerSteps
  BY <1>3 DEF ServerSteps, Next
<1>4. ASSUME NEW r \in Rpc, Send(r)
      PROVE  [Next]_serverVars
  <2>1. cHeap[cMain.call].api \in CallApi
    BY <1>4, FinishFrame, SystemAssumption
       DEF Send, LinkInv, OnlyUserCalls, SystemAssumption
  <2> QED
    BY <1>4, <2>1 DEF Send, Next
<1>5. ASSUME NEW r \in Rpc, OtherCalls(r) \/ ServerSideEnds(r) \/ Forgotten(r)
      PROVE  [Next]_serverVars
  BY <1>5, SystemAssumption
     DEF OtherCalls, ServerSideEnds, Forgotten, Next, SystemAssumption
<1>6. CASE SendLost \/ \E a \in CAddr : ClientSideEnds(a)
  BY <1>6 DEF SendLost, ClientSideEnds
<1> QED
  BY <1>1, <1>2, <1>3, <1>4, <1>5, <1>6 DEF SystemNext

\* Client and server take only the steps of their own modules.
THEOREM SystemKeepsParts == SystemSpec => PartsUnchanged
<1>1. SystemInit => Client!Init /\ Init
  BY DEF SystemInit
<1>2. [SystemNext]_systemVars => [Client!Next]_clientVars
  BY ClientSide
<1>3. P!IInv /\ LinkInv /\ [SystemNext]_systemVars => [Next]_serverVars
  BY ServerSide
<1> QED
  BY <1>1, <1>2, <1>3, SystemInductive, PTL DEF SystemSpec, PartsUnchanged

-----------------------------------------------------------------------------
(* The server of the system. *)

\* The server's inductive invariant holds throughout the system: its objects,
\* its list and its calls stay in order whatever the client does.
THEOREM SystemServerInductive == SystemSpec => []ServerIInv
<1>1. SystemInit => ServerIInv
  BY InitServerIInv DEF SystemInit
<1>2. P!IInv /\ LinkInv /\ [SystemNext]_systemVars /\ ServerIInv => ServerIInv'
  BY ServerSide, NextServerIInv DEF serverVars
<1> QED
  BY <1>1, <1>2, SystemInductive, PTL DEF SystemSpec

\* The thread of an aborted server takes no step: what it stopped over stays,
\* since no call that an object refers to is ever dropped.
LEMMA AbortStep ==
  ServerIInv /\ AbortOnlyAfterDeath /\ [Next]_serverVars
  => AbortOnlyAfterDeath'
<1> SUFFICES ASSUME ServerIInv, AbortOnlyAfterDeath, [Next]_serverVars,
                    thread'.pc = "aborted"
             PROVE  \E a \in Live' : /\ op'[a] = "failed"
                                    /\ call'[heap'[a].call].state = "dead"
  BY DEF AbortOnlyAfterDeath
<1>1. ASSUME NEW a \in Addr, Abort(a)
      PROVE  \E b \in Live' : /\ op'[b] = "failed"
                             /\ call'[heap'[b].call].state = "dead"
  <2>1. op[a] = "failed" /\ UNCHANGED <<heap, op, call>>
    BY <1>1 DEF Abort
  <2>2. a \in Live
    BY <2>1 DEF ServerIInv, OneOperationPerObject
  <2>3. call[heap[a].call].state = "dead"
    BY <2>1, <2>2 DEF ServerIInv, ObjectInv
  <2>4. a \in Live'
    BY <2>1, <2>2 DEF Live
  <2> QED
    BY <2>1, <2>3, <2>4
<1>2. CASE thread.pc = "aborted" /\ \/ UNCHANGED <<heap, op, call>>
                                    \/ \E r \in Rpc : Forget(r)
  <2>1. PICK a \in Live : /\ op[a] = "failed"
                          /\ call[heap[a].call].state = "dead"
    BY <1>2 DEF AbortOnlyAfterDeath
  <2>2. heap[a].call \in Rpc
    <3>1. heap[a].call # NULL
      BY <2>1 DEF ServerIInv, ObjectInv
    <3>2. heap[a].call \in Rpc \cup {NULL}
      BY LiveObject DEF ServerIInv
    <3> QED
      BY <3>1, <3>2
  <2>3. UNCHANGED <<heap, op>>
    BY <1>2 DEF Forget
  <2>4. call'[heap[a].call] = call[heap[a].call]
    BY <1>2, <2>2 DEF Forget, ServerIInv, TypeOK
  <2>5. a \in Live'
    BY <2>3 DEF Live
  <2> QED
    BY <2>1, <2>3, <2>4, <2>5
<1>3. \/ \E a \in Addr : Abort(a)
      \/ /\ thread.pc = "aborted"
         /\ \/ UNCHANGED <<heap, op, call>>
            \/ \E r \in Rpc : Forget(r)
  <2>1. CASE UNCHANGED serverVars \/ Aborted
    BY <2>1 DEF Aborted, serverVars, vars, Running
  <2>2. CASE Register
    BY <2>2 DEF Register, Running
  <2>3. ASSUME NEW a \in Addr, HandleEvent(a) \/ WriteDone(a) PROVE FALSE
    BY <2>3 DEF HandleEvent, WriteDone, Process, FinishAndDelete, Running
  <2>4. ASSUME NEW r \in Rpc,
               \/ \E m \in CallApi : Arrive(r, m)
               \/ \E a \in Addr : Match(r, a)
               \/ Die(r)
        PROVE  FALSE
    BY <2>4 DEF Arrive, Match, Die, Running
  <2>5. CASE \E r \in Rpc : Forget(r)
    BY <2>5 DEF Forget, Running
  <2> QED
    BY <2>1, <2>2, <2>3, <2>4, <2>5 DEF Next
<1> QED
  BY <1>1, <1>2, <1>3

\* The server aborts only over the reply to a call that died: never through
\* the client's shutdown, an address used again, or a call it answered.
THEOREM SystemAbortOnlyAfterDeath == SystemSpec => []AbortOnlyAfterDeath
<1>1. SystemInit => AbortOnlyAfterDeath
  BY DEF SystemInit, Init, AbortOnlyAfterDeath
<1>2. /\ P!IInv /\ LinkInv /\ ServerIInv
      /\ [SystemNext]_systemVars /\ AbortOnlyAfterDeath
      => AbortOnlyAfterDeath'
  BY ServerSide, AbortStep
<1> QED
  BY <1>1, <1>2, SystemInductive, SystemServerInductive, PTL DEF SystemSpec
==============================================================================
