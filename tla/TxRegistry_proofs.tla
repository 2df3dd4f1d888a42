-------------------------- MODULE TxRegistry_proofs --------------------------
(***************************************************************************)
(* The registry of transmitters.  First, for any number of handlers, what  *)
(* the lock does guarantee: IInv says who holds it.  Then, for requests    *)
(* that come one at a time (OneAtATime), what the handlers guarantee: the  *)
(* list has no duplicate and no entry that stays for ever, and is the      *)
(* table of TxTable.  SerialInv says what tx_received holds meanwhile;     *)
(* with two handlers it is false, and so is NoDuplicateTx (the run         *)
(* registry_duplicate).                                                    *)
(***************************************************************************)
EXTENDS TxRegistry, TagList_proofs

Inside == {"check", "push", "init", "unlock"}

\* tx_info_list_lock is held by exactly the handler between its lock and its
\* unlock; the checker holds it within one step only.
LockExact == \A h \in Handler : handler[h].pc \in Inside <=> lock = h

\* A handler that is not idle has a request, and behind recvdata_copy there is
\* an address in tx_received.
HandlerInv ==
  \A h \in Handler :
    /\ handler[h].pc # "idle" => handler[h].req \in Request
    /\ handler[h].pc \in {"copying", "lock"} \cup Inside => received # NULL

IInv == TypeOK /\ LockExact /\ HandlerInv

-----------------------------------------------------------------------------
(* The parts of the steps. *)

\* The handlers but not the list: what TypeOK says of the rest.
RestTyped == /\ lock \in Handler \cup {NULL}
             /\ received \in TxIp \cup {Torn, NULL}
             /\ clash \in BOOLEAN
             /\ rm \in [ip : Peer \cup {Torn, NULL}, port : Peer \cup {NULL}]
             /\ crashed \in BOOLEAN

HandlerState == [pc : HandlerPc, req : Request \cup {NULL}, at : Nat \ {0}]
HandlerTyped == handler \in [Handler -> HandlerState]

LEMMA TypeParts ==
  TypeOK <=> list \in Seq(Entry) /\ RestTyped /\ HandlerTyped
BY DEF TypeOK, RestTyped, HandlerTyped, HandlerState

\* A handler that goes on keeps its request; the others stay where they are.
LEMMA GotoFrame ==
  ASSUME HandlerTyped, NEW h \in Handler, NEW pc \in HandlerPc, Goto(h, pc)
  PROVE  /\ HandlerTyped'
         /\ handler'[h].pc = pc
         /\ handler'[h].req = handler[h].req
         /\ handler'[h].at = 1
         /\ \A g \in Handler \ {h} : handler'[g] = handler[g]
BY DEF HandlerTyped, HandlerState, Goto

\* A loop goes on by one entry.
LEMMA NextEntryFrame ==
  ASSUME HandlerTyped, NEW h \in Handler, NextEntry(h)
  PROVE  /\ HandlerTyped'
         /\ handler'[h].pc = handler[h].pc
         /\ handler'[h].req = handler[h].req
         /\ handler'[h].at = handler[h].at + 1
         /\ handler[h].at \in Nat \ {0}
         /\ \A g \in Handler \ {h} : handler'[g] = handler[g]
BY DEF HandlerTyped, HandlerState, NextEntry

\* A handler that returns is idle.
LEMMA ReturnFrame ==
  ASSUME HandlerTyped, NEW h \in Handler, Return(h)
  PROVE  /\ HandlerTyped'
         /\ handler'[h].pc = "idle"
         /\ \A g \in Handler \ {h} : handler'[g] = handler[g]
BY DEF HandlerTyped, HandlerState, Return, HandlerPc

\* A step of one handler outside the lock keeps the lock exact.
LEMMA OutsideKeeps ==
  ASSUME IInv, NEW h \in Handler, UNCHANGED lock,
         handler[h].pc \notin Inside, handler'[h].pc \notin Inside,
         \A g \in Handler \ {h} : handler'[g] = handler[g]
  PROVE  LockExact'
BY DEF IInv, LockExact

\* So does a step of its holder under the lock.
LEMMA InsideKeeps ==
  ASSUME IInv, NEW h \in Handler, UNCHANGED lock,
         handler[h].pc \in Inside, handler'[h].pc \in Inside,
         \A g \in Handler \ {h} : handler'[g] = handler[g]
  PROVE  LockExact'
BY DEF IInv, LockExact

\* A new request in an idle handler.
LEMMA ReceiveKeeps ==
  ASSUME IInv, NEW h \in Handler, NEW req \in Request, Receive(h, req)
  PROVE  IInv'
<1>1. list \in Seq(Entry) /\ RestTyped /\ HandlerTyped
  BY TypeParts DEF IInv
<1>2. /\ handler[h].pc = "idle"
      /\ handler' = [handler EXCEPT ![h] = [pc |-> "rm", req |-> req, at |-> 1]]
      /\ UNCHANGED <<list, lock, received, clash, rm, crashed>>
  BY DEF Receive, At
<1>3. /\ HandlerTyped'
      /\ handler'[h] = [pc |-> "rm", req |-> req, at |-> 1]
      /\ \A g \in Handler \ {h} : handler'[g] = handler[g]
  BY <1>1, <1>2 DEF HandlerTyped, HandlerState, HandlerPc
<1>4. TypeOK'
  <2>1. RestTyped' /\ list' \in Seq(Entry)
    BY <1>1, <1>2 DEF RestTyped
  <2> QED
    BY <1>3, <2>1 DEF TypeOK, RestTyped, HandlerTyped, HandlerState
<1>5. LockExact'
  BY <1>2, <1>3, OutsideKeeps DEF Inside
<1>6. HandlerInv'
  BY <1>2, <1>3 DEF IInv, HandlerInv, Inside
<1> QED
  BY <1>4, <1>5, <1>6 DEF IInv

\* The choice of the resource manager: the list and tx_received are not
\* touched.
LEMMA RmKeeps ==
  ASSUME IInv, NEW h \in Handler, CheckRm(h) \/ CopyRmIp(h) \/ ReadPort(h)
  PROVE  IInv'
<1>1. list \in Seq(Entry) /\ RestTyped /\ HandlerTyped
  BY TypeParts DEF IInv
<1>2. UNCHANGED <<list, lock, received, clash, crashed>>
  BY DEF CheckRm, CopyRmIp, ReadPort
<1>3. /\ handler[h].pc \in {"rm", "rmip", "port"}
      /\ handler[h].req \in Request
  BY DEF CheckRm, CopyRmIp, ReadPort, At, IInv, HandlerInv
<1>4. /\ HandlerTyped'
      /\ handler'[h].pc \in {"rmip", "port", "copy", "idle"}
      /\ handler'[h].pc # "idle" => handler'[h].req = handler[h].req
      /\ \A g \in Handler \ {h} : handler'[g] = handler[g]
  <2>1. \/ \E pc \in {"rmip", "port", "copy"} : Goto(h, pc)
        \/ Return(h)
    BY DEF CheckRm, CopyRmIp, ReadPort
  <2> QED
    BY <1>1, <2>1, GotoFrame, ReturnFrame DEF HandlerPc
<1>5. rm' \in [ip : Peer \cup {Torn, NULL}, port : Peer \cup {NULL}]
  <2>1. handler[h].req.peer \in Peer
    BY <1>3 DEF Request
  <2>2. /\ rm \in [ip : Peer \cup {Torn, NULL}, port : Peer \cup {NULL}]
        /\ rm.ip \in Peer \cup {Torn, NULL}
    BY <1>1 DEF RestTyped
  <2>3. \/ rm' = rm
        \/ \E ip \in Peer \cup {Torn, NULL} : rm' = [rm EXCEPT !.ip = ip]
        \/ rm' = [rm EXCEPT !.port = handler[h].req.peer]
    BY <2>1, <2>2 DEF CheckRm, CopyRmIp, ReadPort
  <2> QED
    BY <2>1, <2>2, <2>3
<1>6. TypeOK'
  <2>1. RestTyped' /\ list' \in Seq(Entry)
    BY <1>1, <1>2, <1>5 DEF RestTyped
  <2> QED
    BY <1>4, <2>1 DEF TypeOK, RestTyped, HandlerTyped, HandlerState
<1>7. LockExact'
  BY <1>2, <1>3, <1>4, OutsideKeeps DEF Inside
<1>8. HandlerInv'
  BY <1>2, <1>3, <1>4 DEF IInv, HandlerInv, Inside
<1> QED
  BY <1>6, <1>7, <1>8 DEF IInv

\* recvdata_copy writes tx_received before the lock is taken.
LEMMA CopyKeeps ==
  ASSUME IInv, NEW h \in Handler, CopyStart(h) \/ CopyEnd(h)
  PROVE  IInv'
<1>1. list \in Seq(Entry) /\ RestTyped /\ HandlerTyped
  BY TypeParts DEF IInv
<1>2. UNCHANGED <<list, lock, rm, crashed>>
  BY DEF CopyStart, CopyEnd
<1>3. /\ handler[h].pc \in {"copy", "copying"}
      /\ handler[h].req \in Request
      /\ handler[h].req.ip \in TxIp
  BY DEF CopyStart, CopyEnd, At, IInv, HandlerInv, Request
<1>4. /\ HandlerTyped'
      /\ handler'[h].pc \in {"copying", "lock", "idle"}
      /\ handler'[h].pc # "idle" => handler'[h].req = handler[h].req
      /\ \A g \in Handler \ {h} : handler'[g] = handler[g]
  <2>1. \/ \E pc \in {"copying", "lock"} : Goto(h, pc)
        \/ Return(h)
    BY DEF CopyStart, CopyEnd
  <2> QED
    BY <1>1, <2>1, GotoFrame, ReturnFrame DEF HandlerPc
<1>5. /\ received' \in TxIp \cup {Torn, NULL}
      /\ clash' \in BOOLEAN
      /\ received' = NULL => received = NULL /\ handler'[h].pc = "idle"
  <2>1. CASE CopyStart(h)
    <3>1. \/ received' = received /\ clash' = clash /\ Return(h)
          \/ /\ received' \in {handler[h].req.ip, Torn}
             /\ clash' \in BOOLEAN
      BY <2>1 DEF CopyStart
    <3>2. Return(h) => handler'[h].pc = "idle"
      BY <1>1, ReturnFrame
    <3> QED
      BY <1>1, <1>3, <3>1, <3>2, ConstantsAssumption
         DEF RestTyped, ConstantsAssumption
  <2>2. CASE CopyEnd(h)
    <3>1. received' \in TxIp \cup {Torn} /\ clash' = clash
      BY <1>3, <2>2 DEF CopyEnd
    <3> QED
      BY <1>1, <3>1, ConstantsAssumption DEF RestTyped, ConstantsAssumption
  <2> QED
    BY <2>1, <2>2
<1>6. TypeOK'
  <2>1. RestTyped' /\ list' \in Seq(Entry)
    BY <1>1, <1>2, <1>5 DEF RestTyped
  <2> QED
    BY <1>4, <2>1 DEF TypeOK, RestTyped, HandlerTyped, HandlerState
<1>7. LockExact'
  BY <1>2, <1>3, <1>4, OutsideKeeps DEF Inside
<1>8. HandlerInv'
  BY <1>3, <1>4, <1>5 DEF IInv, HandlerInv, Inside
<1> QED
  BY <1>6, <1>7, <1>8 DEF IInv

\* The lock is taken when nobody holds it and given back by its holder; then
\* the handler returns.
LEMMA LockKeeps ==
  ASSUME IInv, NEW h \in Handler, Lock(h) \/ Unlock(h) \/ Connect(h)
  PROVE  IInv'
<1>1. list \in Seq(Entry) /\ RestTyped /\ HandlerTyped
  BY TypeParts DEF IInv
<1>2. UNCHANGED <<list, received, clash, rm, crashed>>
  BY DEF Lock, Unlock, Connect
<1>3. /\ handler[h].pc \in {"lock", "unlock", "connect"}
      /\ handler[h].req \in Request
  BY DEF Lock, Unlock, Connect, At, IInv, HandlerInv
<1>4. /\ HandlerTyped'
      /\ handler'[h].pc \in {"check", "connect", "idle"}
      /\ handler'[h].pc # "idle" => handler'[h].req = handler[h].req
      /\ handler'[h].pc = "check" => handler[h].pc = "lock"
      /\ \A g \in Handler \ {h} : handler'[g] = handler[g]
  <2>1. \/ Goto(h, "check") /\ handler[h].pc = "lock"
        \/ Goto(h, "connect")
        \/ Return(h)
    BY DEF Lock, Unlock, Connect, At
  <2> QED
    BY <1>1, <2>1, GotoFrame, ReturnFrame DEF HandlerPc
<1>5. LockExact' /\ lock' \in Handler \cup {NULL}
  <2>1. \A g \in Handler : g # NULL
    BY ConstantsAssumption DEF ConstantsAssumption
  <2>2. CASE Lock(h)
    <3>1. /\ lock = NULL
          /\ lock' = h
          /\ handler'[h].pc = "check"
      BY <1>1, <2>2, GotoFrame DEF Lock, HandlerPc
    <3> QED
      BY <1>4, <2>1, <3>1 DEF IInv, LockExact, Inside
  <2>3. CASE Unlock(h)
    <3>1. /\ handler[h].pc = "unlock"
          /\ lock' = NULL
          /\ handler'[h].pc = "connect"
      BY <1>1, <2>3, GotoFrame DEF Unlock, At, HandlerPc
    <3> QED
      BY <1>4, <2>1, <3>1 DEF IInv, LockExact, Inside
  <2>4. CASE Connect(h)
    <3>1. /\ handler[h].pc = "connect"
          /\ lock' = lock
          /\ handler'[h].pc = "idle"
      BY <1>1, <2>4, ReturnFrame DEF Connect, At
    <3> QED
      BY <1>1, <1>4, <3>1, OutsideKeeps DEF Inside, RestTyped
  <2> QED
    BY <2>2, <2>3, <2>4
<1>6. TypeOK'
  <2>1. RestTyped' /\ list' \in Seq(Entry)
    BY <1>1, <1>2, <1>5 DEF RestTyped
  <2> QED
    BY <1>4, <2>1 DEF TypeOK, RestTyped, HandlerTyped, HandlerState
<1>7. HandlerInv'
  BY <1>2, <1>3, <1>4 DEF IInv, HandlerInv, Inside
<1> QED
  BY <1>5, <1>6, <1>7 DEF IInv

-----------------------------------------------------------------------------
(* What the steps under the lock, the checker and the clock do to the list. *)

\* push_back of tx_received.
LEMMA PushList ==
  ASSUME IInv, NEW h \in Handler, Push(h)
  PROVE  /\ list' \in Seq(Entry)
         /\ Len(list') = Len(list) + 1
         /\ \A i \in 1 .. Len(list) : list'[i] = list[i]
         /\ list'[Len(list) + 1] = [ip |-> received, state |-> "EMPTY", age |-> 0]
<1> DEFINE e == [ip |-> received, state |-> "EMPTY", age |-> 0]
<1>1. list \in Seq(Entry)
  BY DEF IInv, TypeOK
<1>2. e \in Entry
  <2>1. received \in TxIp \cup {Torn}
    BY DEF Push, At, IInv, HandlerInv, Inside, TypeOK
  <2>2. 0 \in -1 .. AgeCap
    BY ConstantsAssumption DEF ConstantsAssumption
  <2> QED
    BY <2>1, <2>2 DEF Entry
<1>3. list' = Append(list, e)
  BY DEF Push
<1> HIDE DEF e
<1>4. /\ list' \in Seq(Entry)
      /\ Len(list') = Len(list) + 1
      /\ \A i \in 1 .. Len(list) : list'[i] = list[i]
      /\ list'[Len(list) + 1] = e
  BY <1>1, <1>2, <1>3, AppendProperties
<1> QED
  BY <1>4 DEF e

\* tx_info_state_init goes on to the next entry, ends behind the last, or
\* marks the entry it has come to.
Passes(h) == /\ NextEntry(h)
             /\ list' = list
             /\ list[handler[h].at].ip # received \/ received = Torn

Misses(h) == /\ Goto(h, "unlock")
             /\ list' = list
             /\ handler[h].at > Len(list)

Marks(h, k) == /\ Goto(h, "unlock")
               /\ k = handler[h].at
               /\ list[k].ip = received
               /\ list'[k] = [ip |-> received, state |-> "INIT", age |-> 0]
               /\ \A i \in 1 .. Len(list) : i # k => list'[i] = list[i]

LEMMA InitStateList ==
  ASSUME IInv, NEW h \in Handler, InitState(h)
  PROVE  /\ list' \in Seq(Entry)
         /\ Len(list') = Len(list)
         /\ \/ Passes(h)
            \/ Misses(h)
            \/ \E k \in 1 .. Len(list) : Marks(h, k)
<1> DEFINE k == handler[h].at
           Marked(x) == [ip |-> x.ip, state |-> "INIT", age |-> 0]
<1>1. list \in Seq(Entry) /\ Len(list) \in Nat
  BY LenProperties DEF IInv, TypeOK
<1>2. k \in Nat \ {0}
  BY DEF IInv, TypeOK
<1>3. CASE Passes(h) \/ Misses(h)
  BY <1>1, <1>3 DEF Passes, Misses
<1>4. CASE /\ k <= Len(list)
           /\ list[k].ip = received
           /\ list' = [list EXCEPT ![k].state = "INIT", ![k].age = 0]
           /\ Goto(h, "unlock")
  <2> HIDE DEF k
  <2>1. k \in 1 .. Len(list)
    BY <1>1, <1>2, <1>4
  <2>2. list[k] \in Entry
    BY <1>1, <2>1, ElementOfSeq
  <2>3. 0 \in -1 .. AgeCap
    BY ConstantsAssumption DEF ConstantsAssumption
  <2>4. Marked(list[k]) \in Entry
    BY <2>2, <2>3 DEF Entry
  <2>5. list' = [list EXCEPT ![k] = Marked(list[k])]
    <3>1. list' = [list EXCEPT ![k] = [@ EXCEPT !.state = "INIT", !.age = 0]]
      BY <1>1, <1>4, <2>1
    <3>2. ASSUME NEW x \in Entry
          PROVE  [x EXCEPT !.state = "INIT", !.age = 0] = Marked(x)
      <4> DEFINE y == [x EXCEPT !.state = "INIT"]
      <4>1. [x EXCEPT !.state = "INIT", !.age = 0] = [y EXCEPT !.age = 0]
        OBVIOUS
      <4>2. y \in Entry /\ y.ip = x.ip /\ y.state = "INIT"
        BY DEF Entry
      <4> HIDE DEF y
      <4>3. [y EXCEPT !.age = 0] = [ip |-> y.ip, state |-> y.state, age |-> 0]
        BY <4>2 DEF Entry
      <4> QED
        BY <4>1, <4>2, <4>3
    <3> QED
      BY <2>2, <3>1, <3>2
  <2> HIDE DEF Marked
  <2>6. /\ list' \in Seq(Entry)
        /\ Len(list') = Len(list)
        /\ \A i \in 1 .. Len(list) :
             list'[i] = IF i = k THEN Marked(list[k]) ELSE list[i]
    BY <1>1, <2>1, <2>4, <2>5, ExceptSeq
  <2> QED
    BY <1>4, <2>1, <2>6 DEF Marked, Marks, k
<1> QED
  <2>1. \A e : /\ TRUE \in Same(e) => e.ip = received
               /\ FALSE \in Same(e) => e.ip # received \/ received = Torn
    BY DEF Same
  <2>2. \A e : Same(e) \subseteq BOOLEAN
    BY DEF Same
  <2> HIDE DEF k
  <2>3. CASE k > Len(list)
    BY <1>3, <2>3 DEF InitState, Misses, k
  <2>4. CASE ~(k > Len(list))
    <3>1. PICK same \in Same(list[k]) :
            IF same
            THEN /\ list' = [list EXCEPT ![k].state = "INIT", ![k].age = 0]
                 /\ Goto(h, "unlock")
            ELSE NextEntry(h) /\ UNCHANGED list
      BY <2>4 DEF InitState, k
    <3>2. k <= Len(list)
      BY <1>1, <1>2, <2>4
    <3>3. CASE same
      BY <1>4, <2>1, <2>2, <3>1, <3>2, <3>3
    <3>4. CASE ~same
      BY <1>3, <2>1, <2>2, <3>1, <3>4 DEF Passes, k
    <3> QED
      BY <3>3, <3>4
  <2> QED
    BY <2>3, <2>4

\* The pass of the checker erases an entry that expired, or changes nothing.
LEMMA ScanList ==
  ASSUME IInv, Scan
  PROVE  /\ list' \in Seq(Entry)
         /\ \/ list' = list /\ \E i \in 1 .. Len(list) : Backward(list[i])
            \/ /\ crashed' = crashed
               /\ \E k \in 1 .. Len(list) : /\ Expired(list[k])
                                            /\ list' = RemoveAt(list, k)
<1> DEFINE I == {i \in 1 .. Len(list) : Expired(list[i]) \/ Backward(list[i])}
           k == SelectInSeq(list, LAMBDA e : Expired(e) \/ Backward(e))
<1>1. list \in Seq(Entry) /\ Len(list) \in Nat
  BY LenProperties DEF IInv, TypeOK
<1>2. /\ k # 0
      /\ IF Backward(list[k])
         THEN crashed' = TRUE /\ UNCHANGED list
         ELSE list' = RemoveAt(list, k) /\ UNCHANGED crashed
  BY DEF Scan
<1>3. k = IF I # {} THEN Min(I) ELSE 0
  BY DEF SelectInSeq
<1>4. k \in I
  <2>1. I \subseteq Nat
    BY <1>1
  <2> HIDE DEF I, k
  <2> QED
    BY <1>2, <1>3, <2>1, MinIsLeast
<1>5. k \in 1 .. Len(list) /\ (Expired(list[k]) \/ Backward(list[k]))
  BY <1>4
<1> HIDE DEF k
<1>6. RemoveAt(list, k) \in Seq(Entry)
  BY <1>1, <1>5, RemoveAtProperties
<1> QED
  BY <1>1, <1>2, <1>5, <1>6

\* Time changes ages only.
LEMMA ClockList ==
  ASSUME IInv, SetBack \/ \E d \in ClockSteps : Tick(d)
  PROVE  /\ list' \in Seq(Entry)
         /\ Len(list') = Len(list)
         /\ \A i \in 1 .. Len(list) : /\ list'[i].ip = list[i].ip
                                      /\ list'[i].state = list[i].state
<1>1. /\ list \in Seq(Entry)
      /\ Len(list) \in Nat
      /\ DOMAIN list = 1 .. Len(list)
      /\ \A i \in 1 .. Len(list) : list[i] \in Entry
  BY LenProperties, ElementOfSeq DEF IInv, TypeOK
<1>2. PICK f \in [1 .. Len(list) -> Entry] :
        /\ list' = f
        /\ \A i \in 1 .. Len(list) : /\ f[i].ip = list[i].ip
                                     /\ f[i].state = list[i].state
  <2>1. CASE SetBack
    <3> DEFINE Back(e) == [e EXCEPT !.age = -1]
               f == [i \in 1 .. Len(list) |-> IF Timed(list[i])
                                              THEN Back(list[i])
                                              ELSE list[i]]
    <3>1. list' = f
      BY <1>1, <2>1 DEF SetBack
    <3>2. ASSUME NEW e \in Entry
          PROVE  /\ Back(e) \in Entry
                 /\ Back(e).ip = e.ip
                 /\ Back(e).state = e.state
      BY ConstantsAssumption DEF Entry, ConstantsAssumption
    <3> HIDE DEF Back
    <3> QED
      BY <1>1, <3>1, <3>2
  <2>2. ASSUME NEW d \in ClockSteps, Tick(d)
        PROVE  \E f \in [1 .. Len(list) -> Entry] :
                 /\ list' = f
                 /\ \A i \in 1 .. Len(list) : /\ f[i].ip = list[i].ip
                                              /\ f[i].state = list[i].state
    <3> DEFINE f == [i \in 1 .. Len(list) |-> IF Timed(list[i])
                                              THEN Older(list[i], d)
                                              ELSE list[i]]
    <3>1. list' = f
      BY <1>1, <2>2 DEF Tick
    <3>2. ASSUME NEW e \in Entry
          PROVE  /\ Older(e, d) \in Entry
                 /\ Older(e, d).ip = e.ip
                 /\ Older(e, d).state = e.state
      BY ConstantsAssumption DEF Older, Entry, ConstantsAssumption
    <3> QED
      BY <1>1, <3>1, <3>2
  <2> QED
    BY <2>1, <2>2
<1>3. f \in Seq(Entry) /\ Len(f) = Len(list)
  BY <1>1
<1> QED
  BY <1>2, <1>3

-----------------------------------------------------------------------------
(* The steps under the lock, the checker and the clock keep the invariant. *)

\* The search, the push and the marking, by the holder of the lock.
LEMMA ListStepKeeps ==
  ASSUME IInv, NEW h \in Handler, CheckList(h) \/ Push(h) \/ InitState(h)
  PROVE  IInv'
<1>1. list \in Seq(Entry) /\ RestTyped /\ HandlerTyped
  BY TypeParts DEF IInv
<1>2. UNCHANGED <<lock, received, clash, rm, crashed>>
  BY DEF CheckList, Push, InitState
<1>3. /\ handler[h].pc \in {"check", "push", "init"}
      /\ handler[h].req \in Request
      /\ received # NULL
  BY DEF CheckList, Push, InitState, At, IInv, HandlerInv, Inside
<1>4. /\ HandlerTyped'
      /\ handler'[h].pc \in {"check", "push", "init", "unlock"}
      /\ handler'[h].req = handler[h].req
      /\ \A g \in Handler \ {h} : handler'[g] = handler[g]
  <2>1. \/ \E pc \in {"push", "init", "unlock"} : Goto(h, pc)
        \/ NextEntry(h) /\ handler[h].pc \in {"check", "init"}
    BY DEF CheckList, Push, InitState, At
  <2> QED
    BY <1>1, <2>1, GotoFrame, NextEntryFrame DEF HandlerPc
<1>5. list' \in Seq(Entry)
  BY <1>1, PushList, InitStateList DEF CheckList
<1>6. TypeOK'
  <2>1. RestTyped'
    BY <1>1, <1>2 DEF RestTyped
  <2> QED
    BY <1>4, <1>5, <2>1 DEF TypeOK, RestTyped, HandlerTyped, HandlerState
<1>7. LockExact'
  BY <1>2, <1>3, <1>4, InsideKeeps DEF Inside
<1>8. HandlerInv'
  BY <1>2, <1>3, <1>4 DEF IInv, HandlerInv, Inside
<1> QED
  BY <1>6, <1>7, <1>8 DEF IInv

\* The steps no handler takes part in.
LEMMA OtherKeeps ==
  ASSUME IInv,
         \/ Scan \/ SetBack
         \/ \E d \in ClockSteps : Tick(d)
         \/ UNCHANGED vars
  PROVE  IInv'
<1>1. list \in Seq(Entry) /\ RestTyped /\ HandlerTyped
  BY TypeParts DEF IInv
<1>2. UNCHANGED <<lock, received, clash, rm, handler>>
  BY DEF Scan, SetBack, Tick, vars
<1>3. crashed' \in BOOLEAN
  BY <1>1 DEF Scan, SetBack, Tick, vars, RestTyped
<1>4. list' \in Seq(Entry)
  BY <1>1, ScanList, ClockList DEF vars
<1>5. TypeOK'
  BY <1>1, <1>2, <1>3, <1>4
     DEF TypeOK, RestTyped, HandlerTyped, HandlerState
<1>6. LockExact' /\ HandlerInv'
  BY <1>2 DEF IInv, LockExact, HandlerInv
<1> QED
  BY <1>5, <1>6 DEF IInv

\* Every step keeps the invariant.
LEMMA NextIInv == IInv /\ [Next]_vars => IInv'
<1> SUFFICES ASSUME IInv, [Next]_vars PROVE IInv'
  OBVIOUS
<1> QED
  BY ReceiveKeeps, RmKeeps, CopyKeeps, LockKeeps, ListStepKeeps, OtherKeeps
     DEF Next, HandlerStep, Crashed

\* Nothing is listed, held or requested at the start.
LEMMA InitIInv == Init => IInv
<1> SUFFICES ASSUME Init PROVE IInv
  OBVIOUS
<1>1. TypeOK
  <2>1. handler \in [Handler -> HandlerState]
    <3>1. [pc |-> "idle", req |-> NULL, at |-> 1] \in HandlerState
      BY DEF HandlerState, HandlerPc
    <3> QED
      BY <3>1 DEF Init
  <2> QED
    BY <2>1, EmptySeq DEF Init, TypeOK, HandlerState
<1>2. LockExact /\ HandlerInv
  BY ConstantsAssumption
     DEF Init, LockExact, HandlerInv, Inside, ConstantsAssumption
<1> QED
  BY <1>1, <1>2 DEF IInv

\* The inductive invariant holds in every reachable state, however many
\* handlers there are and whatever they copy over each other.
THEOREM RegistryInductive == Spec => []IInv
BY InitIInv, NextIInv, PTL DEF Spec

\* Type correctness: no entry is pushed with an uninitialised field.
THEOREM RegistryTypeCorrect == Spec => []TypeOK
<1>1. IInv => TypeOK
  BY DEF IInv
<1> QED
  BY <1>1, RegistryInductive, PTL

-----------------------------------------------------------------------------
(* The action properties. *)

\* A step that changes the shape of the list is its lock holder's, or the
\* checker's while nobody holds the lock.
LEMMA ShapeStep ==
  ASSUME IInv, [Next]_vars, Shape' # Shape
  PROVE  \/ lock = NULL
         \/ \E h \in Handler : /\ lock = h
                               /\ Push(h) \/ InitState(h)
<1>1. CASE UNCHANGED list
  BY <1>1 DEF Shape
<1>2. CASE Scan
  BY <1>2 DEF Scan
<1>3. CASE SetBack \/ \E d \in ClockSteps : Tick(d)
  <2>1. /\ DOMAIN list' = DOMAIN list
        /\ \A i \in DOMAIN list : /\ list'[i].ip = list[i].ip
                                  /\ list'[i].state = list[i].state
    BY <1>3, ClockList, LenProperties DEF IInv, TypeOK
  <2> QED
    BY <2>1 DEF Shape
<1>4. ASSUME NEW h \in Handler, Push(h) \/ InitState(h)
      PROVE  lock = h
  BY <1>4 DEF Push, InitState, At, IInv, LockExact, Inside
<1>5. \/ UNCHANGED list
      \/ Scan \/ SetBack
      \/ \E d \in ClockSteps : Tick(d)
      \/ \E h \in Handler : Push(h) \/ InitState(h)
  BY DEF Next, Receive, HandlerStep, CheckRm, CopyRmIp, ReadPort, CopyStart,
     CopyEnd, Lock, CheckList, Unlock, Connect, Crashed, vars
<1> QED
  BY <1>1, <1>2, <1>3, <1>4, <1>5

\* While a handler holds the lock, nobody else changes which entries there
\* are and how they are marked.
THEOREM RegistryCriticalSection == Spec => CriticalSectionStable
<1> DEFINE Stable == \A h \in Handler :
                       lock = h /\ handler'[h] = handler[h] => Shape' = Shape
<1>1. IInv /\ [Next]_vars => Stable
  <2> SUFFICES ASSUME IInv, [Next]_vars, NEW h \in Handler, lock = h,
                      handler'[h] = handler[h], Shape' # Shape
               PROVE  FALSE
    OBVIOUS
  <2>1. h # NULL
    BY ConstantsAssumption DEF ConstantsAssumption
  <2>2. Push(h) \/ InitState(h)
    BY <2>1, ShapeStep
  <2>3. \/ handler[h].pc = "push" /\ Goto(h, "init")
        \/ handler[h].pc = "init" /\ Goto(h, "unlock")
    BY <2>2 DEF Push, InitState, At, Shape
  <2>4. HandlerTyped
    BY TypeParts DEF IInv
  <2> QED
    BY <2>3, <2>4, GotoFrame DEF HandlerPc
<1>2. IInv /\ [Next]_vars => [Stable]_vars
  BY <1>1
<1> QED
  BY <1>2, RegistryInductive, PTL DEF Spec, CriticalSectionStable

\* An expired entry of the registry is one in INIT, more than ten seconds old.
LEMMA ExpiredEntry ==
  ASSUME NEW e \in Entry, Expired(e)
  PROVE  e.state = "INIT" /\ e.age > 10
<1>1. e.state \in {"EMPTY", "INIT"}
  BY DEF Entry
<1>2. e.state = "INIT"
  BY <1>1 DEF Expired, Timed, Limit
<1> QED
  BY <1>2 DEF Expired, Limit

\* The choice of the resource manager is final.
THEOREM RegistryRmFinal == Spec => RmIsFinal
<1> DEFINE Final == Chosen => Chosen' /\ rm' = rm
<1>1. IInv /\ [Next]_vars => Final
  <2> SUFFICES ASSUME IInv, [Next]_vars, Chosen PROVE Chosen' /\ rm' = rm
    OBVIOUS
  <2>1. HandlerTyped
    BY TypeParts DEF IInv
  <2>2. ASSUME NEW h \in Handler, handler'[h].pc \notin {"rmip", "port"}, rm' = rm,
               \A g \in Handler \ {h} : handler'[g] = handler[g]
        PROVE  Chosen' /\ rm' = rm
    BY <2>2 DEF Chosen
  <2>3. ASSUME NEW h \in Handler, NEW req \in Request, Receive(h, req)
        PROVE  Chosen' /\ rm' = rm
    BY <2>1, <2>2, <2>3 DEF Receive, HandlerTyped
  <2>4. ASSUME NEW h \in Handler, HandlerStep(h) \/ Lock(h)
        PROVE  Chosen' /\ rm' = rm
    <3>1. ~CopyRmIp(h) /\ ~ReadPort(h)
      BY DEF Chosen, CopyRmIp, ReadPort, At
    <3>2. rm' = rm
      BY <2>4, <3>1 DEF HandlerStep, CheckRm, CopyStart, CopyEnd, Lock, CheckList,
         Push, InitState, Unlock, Connect
    <3>3. \/ \E pc \in HandlerPc \ {"rmip", "port"} : Goto(h, pc)
          \/ Return(h)
          \/ NextEntry(h)
      BY <2>4, <3>1 DEF HandlerStep, CheckRm, RmIsNew, Chosen, CopyStart, CopyEnd,
         Lock, CheckList, Push, InitState, Unlock, Connect, HandlerPc
    <3> QED
      BY <2>1, <2>2, <3>2, <3>3, GotoFrame, ReturnFrame, NextEntryFrame DEF Chosen
  <2>5. CASE \/ Scan \/ SetBack \/ Crashed
             \/ \E d \in ClockSteps : Tick(d)
             \/ UNCHANGED vars
    BY <2>5 DEF Scan, SetBack, Crashed, Tick, vars, Chosen
  <2> QED
    BY <2>3, <2>4, <2>5 DEF Next
<1>2. IInv /\ [Next]_vars => [Final]_vars
  BY <1>1
<1> QED
  BY <1>2, RegistryInductive, PTL DEF Spec, RmIsFinal

-----------------------------------------------------------------------------
(* Requests that come one at a time. *)

OneAtATime == \A g, h \in Handler : g = h

IsListed(ip) == \E i \in DOMAIN list : list[i].ip = ip

\* The entries that a loop has left behind have other addresses.
PassedDiffer(h) ==
  \A i \in DOMAIN list : i < handler[h].at => list[i].ip # received

\* From the end of recvdata_copy on tx_received is the handler's own request;
\* what the search found is so still at the push and at the marking, and what
\* either loop has left behind is not what it looks for; and no entry but the
\* one about to be marked is unmarked.
SerialInv ==
  /\ ~clash
  /\ \A h \in Handler :
       /\ handler[h].pc \in {"lock"} \cup Inside => received = handler[h].req.ip
       /\ handler[h].pc \in {"check", "init"} => PassedDiffer(h)
       /\ handler[h].pc = "push" => ~IsListed(received)
       /\ handler[h].pc = "init" => IsListed(received)
  /\ \A i \in DOMAIN list :
       /\ list[i].ip \in TxIp
       /\ list[i].state = "EMPTY" =>
            \E h \in Handler : handler[h].pc = "init" /\ list[i].ip = received

SerialParts == SerialInv /\ NoDuplicateTx /\ AcceptedIsListed

SerialIInv == IInv /\ SerialParts

\* A step that leaves the list alone, from elsewhere than the marking.
LEMMA QuietSerial ==
  ASSUME OneAtATime, SerialParts, UNCHANGED list, NEW h \in Handler,
         handler[h].pc # "init", handler'[h].pc # "unlock", ~clash',
         handler'[h].pc \in {"lock"} \cup Inside => received' = handler'[h].req.ip,
         handler'[h].pc \in {"check", "init"} => PassedDiffer(h)',
         handler'[h].pc = "push" => ~IsListed(received'),
         handler'[h].pc = "init" => IsListed(received')
  PROVE  SerialParts'
<1>1. \A g \in Handler : g = h
  BY DEF OneAtATime
<1>2. \A i \in DOMAIN list : list[i].state # "EMPTY"
  BY <1>1 DEF SerialParts, SerialInv
<1>3. SerialInv'
  BY <1>1, <1>2 DEF SerialParts, SerialInv, IsListed
<1>4. NoDuplicateTx' /\ AcceptedIsListed'
  BY <1>1 DEF SerialParts, NoDuplicateTx, AcceptedIsListed
<1> QED
  BY <1>3, <1>4 DEF SerialParts

\* The handler's steps outside the lock, its lock and its unlock.
LEMMA HandlerSerial ==
  ASSUME OneAtATime, SerialIInv, NEW h \in Handler,
         \/ \E req \in Request : Receive(h, req)
         \/ CheckRm(h) \/ CopyRmIp(h) \/ ReadPort(h)
         \/ CopyStart(h) \/ CopyEnd(h)
         \/ Lock(h) \/ CheckList(h) \/ Unlock(h) \/ Connect(h)
  PROVE  SerialParts'
<1>1. HandlerTyped /\ SerialParts /\ IInv
  BY TypeParts DEF SerialIInv, IInv
<1>2. \A g \in Handler : g = h
  BY DEF OneAtATime
<1>3. /\ UNCHANGED list
      /\ handler[h].pc # "init"
  BY DEF Receive, CheckRm, CopyRmIp, ReadPort, CopyStart, CopyEnd, Lock,
     CheckList, Unlock, Connect, At
<1>4. ~clash
  BY <1>1 DEF SerialParts, SerialInv
<1>5. CASE \/ \E req \in Request : Receive(h, req)
           \/ CheckRm(h) \/ CopyRmIp(h) \/ ReadPort(h)
           \/ CopyStart(h) \/ Unlock(h) \/ Connect(h)
  <2>1. ~clash'
    BY <1>2, <1>4, <1>5 DEF Receive, CheckRm, CopyRmIp, ReadPort, CopyStart,
       Unlock, Connect
  <2>2. handler'[h].pc \in {"rm", "rmip", "port", "copy", "copying", "connect",
                            "idle"}
    <3>1. \/ \E pc \in {"rmip", "port", "copy", "copying", "connect"} : Goto(h, pc)
          \/ Return(h)
          \/ \E req \in Request : Receive(h, req)
      BY <1>5 DEF CheckRm, CopyRmIp, ReadPort, CopyStart, Unlock, Connect
    <3>2. ASSUME NEW req \in Request, Receive(h, req)
          PROVE  handler'[h].pc = "rm"
      BY <1>1, <3>2 DEF Receive, HandlerTyped
    <3> QED
      BY <1>1, <3>1, <3>2, GotoFrame, ReturnFrame DEF HandlerPc
  <2> QED
    BY <1>1, <1>3, <2>1, <2>2, QuietSerial DEF Inside
<1>6. CASE CopyEnd(h)
  <2>1. received' = handler[h].req.ip /\ clash' = clash
    BY <1>4, <1>6 DEF CopyEnd
  <2>2. \/ Goto(h, "lock")
        \/ Return(h)
    BY <1>6 DEF CopyEnd
  <2>3. \/ handler'[h].pc = "lock" /\ handler'[h].req = handler[h].req
        \/ handler'[h].pc = "idle"
    BY <1>1, <2>2, GotoFrame, ReturnFrame DEF HandlerPc
  <2> QED
    BY <1>1, <1>3, <1>4, <2>1, <2>3, QuietSerial DEF Inside
<1>6a. /\ list \in Seq(Entry)
       /\ Len(list) \in Nat
       /\ DOMAIN list = 1 .. Len(list)
  BY <1>1, LenProperties DEF IInv, TypeOK
<1>7. CASE Lock(h)
  <2>1. received' = received /\ clash' = clash
    BY <1>7 DEF Lock
  <2>2. received = handler[h].req.ip
    BY <1>1, <1>7 DEF Lock, At, SerialParts, SerialInv, Inside
  <2>3. /\ handler'[h].pc = "check"
        /\ handler'[h].req = handler[h].req
        /\ handler'[h].at = 1
    BY <1>1, <1>7, GotoFrame DEF Lock, HandlerPc
  <2>4. PassedDiffer(h)'
    BY <1>3, <1>6a, <2>3 DEF PassedDiffer
  <2> QED
    BY <1>1, <1>3, <1>4, <2>1, <2>2, <2>3, <2>4, QuietSerial
<1>8. CASE CheckList(h)
  <2> DEFINE k == handler[h].at
  <2>1. received' = received /\ clash' = clash /\ handler[h].pc = "check"
    BY <1>8 DEF CheckList, At
  <2>2. received = handler[h].req.ip /\ PassedDiffer(h)
    BY <1>1, <2>1 DEF SerialParts, SerialInv, Inside
  <2>3. received \in TxIp
    BY <1>1, <2>1, <2>2 DEF IInv, HandlerInv, Request
  <2>4. k \in Nat \ {0}
    BY <1>1 DEF IInv, TypeOK
  <2>5. CASE Goto(h, "push") /\ k > Len(list)
    <3>1. ~IsListed(received)
      BY <1>6a, <2>2, <2>4, <2>5 DEF PassedDiffer, IsListed
    <3>2. handler'[h].pc = "push" /\ handler'[h].req = handler[h].req
      BY <1>1, <2>5, GotoFrame DEF HandlerPc
    <3> QED
      BY <1>1, <1>3, <1>4, <2>1, <2>2, <3>1, <3>2, QuietSerial
  <2>6. CASE Goto(h, "init") /\ k \in 1 .. Len(list) /\ list[k].ip = received
    <3>1. IsListed(received)
      BY <1>6a, <2>6 DEF IsListed
    <3>2. /\ handler'[h].pc = "init"
          /\ handler'[h].req = handler[h].req
          /\ handler'[h].at = 1
      BY <1>1, <2>6, GotoFrame DEF HandlerPc
    <3>3. PassedDiffer(h)'
      BY <1>3, <1>6a, <3>2 DEF PassedDiffer
    <3> QED
      BY <1>1, <1>3, <1>4, <2>1, <2>2, <3>1, <3>2, <3>3, QuietSerial
  <2>7. CASE NextEntry(h) /\ k \in 1 .. Len(list) /\ list[k].ip # received
    <3>1. /\ handler'[h].pc = "check"
          /\ handler'[h].req = handler[h].req
          /\ handler'[h].at = k + 1
      BY <1>1, <2>1, <2>7, NextEntryFrame
    <3>2. PassedDiffer(h)'
      <4> SUFFICES ASSUME NEW i \in DOMAIN list, i < k + 1
                   PROVE  list[i].ip # received
        BY <1>3, <2>1, <3>1 DEF PassedDiffer
      <4>1. i = k \/ i < k
        BY <1>6a, <2>4
      <4> QED
        BY <2>2, <2>7, <4>1 DEF PassedDiffer
    <3> QED
      BY <1>1, <1>3, <1>4, <2>1, <2>2, <3>1, <3>2, QuietSerial
  <2> QED
    <3>1. \A e : \A same \in Same(e) : same <=> e.ip = received
      BY <2>3, ConstantsAssumption DEF Same, ConstantsAssumption
    <3> HIDE DEF k
    <3>2. \/ Goto(h, "push") /\ k > Len(list)
          \/ Goto(h, "init") /\ k <= Len(list) /\ list[k].ip = received
          \/ NextEntry(h) /\ k <= Len(list) /\ list[k].ip # received
      BY <1>6a, <1>8, <2>4, <3>1 DEF CheckList, k
    <3> QED
      BY <1>6a, <2>4, <2>5, <2>6, <2>7, <3>2
<1> QED
  BY <1>5, <1>6, <1>7, <1>8

\* The push adds an address that is not in the list, and has it marked next.
LEMMA PushSerial ==
  ASSUME OneAtATime, SerialIInv, NEW h \in Handler, Push(h)
  PROVE  SerialParts'
<1>1. /\ HandlerTyped /\ SerialParts /\ IInv
      /\ list \in Seq(Entry)
      /\ Len(list) \in Nat
      /\ DOMAIN list = 1 .. Len(list)
  BY TypeParts, LenProperties DEF SerialIInv, IInv
<1>2. \A g \in Handler : g = h
  BY DEF OneAtATime
<1>3. /\ list' \in Seq(Entry)
      /\ Len(list') = Len(list) + 1
      /\ \A i \in 1 .. Len(list) : list'[i] = list[i]
      /\ list'[Len(list) + 1].ip = received
      /\ DOMAIN list' = 1 .. (Len(list) + 1)
  BY <1>1, PushList, LenProperties
<1>4. /\ handler'[h].pc = "init"
      /\ handler'[h].req = handler[h].req
      /\ handler'[h].at = 1
      /\ handler[h].pc = "push"
      /\ received' = received /\ clash' = clash
  BY <1>1, GotoFrame DEF Push, At, HandlerPc
<1>5. received = handler[h].req.ip /\ handler[h].req.ip \in TxIp
  BY <1>1, <1>4 DEF SerialParts, SerialInv, Inside, IInv, HandlerInv, Request
<1>6. \A i \in 1 .. Len(list) : list[i].ip # received /\ list[i].state # "EMPTY"
  BY <1>1, <1>2, <1>4 DEF SerialParts, SerialInv, IsListed
<1>7. NoDuplicateTx'
  BY <1>1, <1>3, <1>6 DEF SerialParts, NoDuplicateTx
<1>8. SerialInv'
  <2>1. IsListed(received)' /\ PassedDiffer(h)'
    BY <1>1, <1>3, <1>4 DEF IsListed, PassedDiffer
  <2>2. \A i \in DOMAIN list' :
          /\ list'[i].ip \in TxIp
          /\ list'[i].state = "EMPTY" => list'[i].ip = received
    BY <1>1, <1>3, <1>5, <1>6 DEF SerialParts, SerialInv
  <2> QED
    BY <1>1, <1>2, <1>4, <1>5, <2>1, <2>2 DEF SerialParts, SerialInv
<1>9. AcceptedIsListed'
  BY <1>2, <1>4 DEF AcceptedIsListed
<1> QED
  BY <1>7, <1>8, <1>9 DEF SerialParts

\* The marking finds the entry of the request, which is the only one with its
\* address: after it no entry is unmarked.
LEMMA InitStateSerial ==
  ASSUME OneAtATime, SerialIInv, NEW h \in Handler, InitState(h)
  PROVE  SerialParts'
<1> DEFINE k == handler[h].at
<1>1. /\ HandlerTyped /\ SerialParts /\ IInv
      /\ list \in Seq(Entry)
      /\ Len(list) \in Nat
      /\ DOMAIN list = 1 .. Len(list)
  BY TypeParts, LenProperties DEF SerialIInv, IInv
<1>2. \A g \in Handler : g = h
  BY DEF OneAtATime
<1>3. /\ handler[h].pc = "init"
      /\ received' = received /\ clash' = clash
  BY DEF InitState, At
<1>4. /\ received = handler[h].req.ip
      /\ received \in TxIp
      /\ IsListed(received)
      /\ PassedDiffer(h)
      /\ k \in Nat \ {0}
  BY <1>1, <1>3 DEF SerialParts, SerialInv, Inside, IInv, HandlerInv, Request,
     TypeOK
<1>5. k \in 1 .. Len(list)
  BY <1>1, <1>4 DEF IsListed, PassedDiffer
<1>6. CASE Passes(h)
  <2>0. NextEntry(h) /\ UNCHANGED list /\ list[k].ip # received
    BY <1>4, <1>6, ConstantsAssumption DEF Passes, ConstantsAssumption
  <2>1. /\ handler'[h].pc = "init"
        /\ handler'[h].req = handler[h].req
        /\ handler'[h].at = k + 1
    BY <1>1, <1>3, <2>0, NextEntryFrame
  <2>2. PassedDiffer(h)'
    <3> SUFFICES ASSUME NEW i \in DOMAIN list, i < k + 1
                 PROVE  list[i].ip # received
      BY <1>3, <2>0, <2>1 DEF PassedDiffer
    <3>1. i = k \/ i < k
      BY <1>1, <1>4
    <3> QED
      BY <1>4, <2>0, <3>1 DEF PassedDiffer
  <2>3. SerialInv'
    BY <1>1, <1>2, <1>3, <1>4, <2>0, <2>1, <2>2 DEF SerialParts, SerialInv, IsListed
  <2>4. NoDuplicateTx' /\ AcceptedIsListed'
    BY <1>1, <1>2, <2>0, <2>1 DEF SerialParts, NoDuplicateTx, AcceptedIsListed
  <2> QED
    BY <2>3, <2>4 DEF SerialParts
<1>7. CASE Marks(h, k)
  <2>1. /\ handler'[h].pc = "unlock"
        /\ handler'[h].req = handler[h].req
    BY <1>1, <1>7, GotoFrame DEF Marks, HandlerPc
  <2>2. /\ list' \in Seq(Entry)
        /\ Len(list') = Len(list)
        /\ DOMAIN list' = 1 .. Len(list)
        /\ list[k].ip = received
        /\ list'[k].ip = received
        /\ list'[k].state = "INIT"
        /\ \A i \in 1 .. Len(list) : i # k => list'[i] = list[i]
    BY <1>1, <1>5, <1>7, InitStateList, LenProperties DEF Marks
  <2> HIDE DEF k
  <2>3. NoDuplicateTx'
    BY <1>1, <1>5, <2>2 DEF SerialParts, NoDuplicateTx
  <2>4. SerialInv'
    <3>1. \A i \in DOMAIN list' :
            list'[i].ip \in TxIp /\ list'[i].state # "EMPTY"
      <4>1. \A i \in 1 .. Len(list) :
              list[i].state = "EMPTY" => list[i].ip = received
        BY <1>1 DEF SerialParts, SerialInv
      <4>2. \A i \in 1 .. Len(list) : i # k => list[i].ip # received
        BY <1>1, <1>4, <1>5, <2>2 DEF SerialParts, NoDuplicateTx
      <4> QED
        BY <1>1, <1>4, <1>5, <2>2, <4>1, <4>2 DEF SerialParts, SerialInv
    <3> QED
      BY <1>1, <1>2, <1>3, <1>4, <2>1, <3>1 DEF SerialParts, SerialInv
  <2>5. AcceptedIsListed'
    <3>1. list'[k] \in ToSet(list')
      BY <1>5, <2>2 DEF ToSet
    <3> QED
      BY <1>2, <1>4, <2>1, <2>2, <3>1 DEF AcceptedIsListed
  <2> QED
    BY <2>3, <2>4, <2>5 DEF SerialParts
<1> QED
  <2>1. ~Misses(h)
    BY <1>1, <1>5 DEF Misses
  <2>2. Passes(h) \/ Marks(h, k)
    BY <1>1, <2>1, InitStateList DEF Marks
  <2> QED
    BY <1>6, <1>7, <2>2

\* The checker runs while no handler is under the lock: nobody relies on the
\* entry it erases.
LEMMA ScanSerial ==
  ASSUME SerialIInv, Scan
  PROVE  SerialParts'
<1>1. /\ SerialParts /\ IInv
      /\ list \in Seq(Entry)
      /\ Len(list) \in Nat
      /\ DOMAIN list = 1 .. Len(list)
  BY TypeParts, LenProperties DEF SerialIInv, IInv
<1>2. /\ lock = NULL
      /\ UNCHANGED <<received, clash, handler>>
  BY DEF Scan
<1>3. \A h \in Handler : handler[h].pc \notin Inside
  BY <1>1, <1>2, ConstantsAssumption DEF IInv, LockExact, ConstantsAssumption
<1>4. \A i \in 1 .. Len(list) : list[i].ip \in TxIp /\ list[i].state # "EMPTY"
  BY <1>1, <1>3 DEF SerialParts, SerialInv, Inside
<1>5. NoDuplicateTx' /\ \A i \in DOMAIN list' : /\ list'[i].ip \in TxIp
                                               /\ list'[i].state # "EMPTY"
  <2>1. CASE list' = list
    BY <1>1, <1>4, <2>1 DEF SerialParts, NoDuplicateTx
  <2>2. ASSUME NEW k \in 1 .. Len(list), list' = RemoveAt(list, k)
        PROVE  NoDuplicateTx' /\ \A i \in DOMAIN list' :
                 list'[i].ip \in TxIp /\ list'[i].state # "EMPTY"
    <3>1. /\ list' \in Seq(Entry)
          /\ Len(list') = Len(list) - 1
          /\ \A i \in 1 .. (Len(list) - 1) :
               list'[i] = IF i < k THEN list[i] ELSE list[i + 1]
      BY <1>1, <2>2, RemoveAtProperties
    <3>2. DOMAIN list' = 1 .. (Len(list) - 1)
      BY <3>1, LenProperties
    <3> DEFINE pos(i) == IF i < k THEN i ELSE i + 1
    <3>3. \A i \in DOMAIN list' : pos(i) \in 1 .. Len(list) /\ list'[i] = list[pos(i)]
      BY <1>1, <3>1, <3>2
    <3>4. \A i, j \in DOMAIN list' : pos(i) = pos(j) => i = j
      BY <1>1, <3>2
    <3> HIDE DEF pos
    <3> QED
      BY <1>1, <1>4, <3>3, <3>4 DEF SerialParts, NoDuplicateTx
  <2> QED
    BY <1>1, <2>1, <2>2, ScanList
<1>6. SerialInv' /\ AcceptedIsListed'
  BY <1>1, <1>2, <1>3, <1>5
     DEF SerialParts, SerialInv, AcceptedIsListed, Inside
<1> QED
  BY <1>5, <1>6 DEF SerialParts

\* Time changes neither addresses nor marks.
LEMMA ClockSerial ==
  ASSUME SerialIInv, \/ SetBack \/ UNCHANGED vars
                     \/ \E d \in ClockSteps : Tick(d)
  PROVE  SerialParts'
<1>1. /\ SerialParts /\ IInv
      /\ list \in Seq(Entry)
      /\ DOMAIN list = 1 .. Len(list)
  BY TypeParts, LenProperties DEF SerialIInv, IInv
<1>2. UNCHANGED <<received, clash, handler>>
  BY DEF SetBack, Tick, vars
<1>3. /\ list' \in Seq(Entry)
      /\ Len(list') = Len(list)
      /\ \A i \in 1 .. Len(list) : /\ list'[i].ip = list[i].ip
                                   /\ list'[i].state = list[i].state
  BY <1>1, ClockList DEF vars
<1>4. DOMAIN list' = 1 .. Len(list)
  BY <1>3, LenProperties
<1>5. NoDuplicateTx'
  BY <1>1, <1>3, <1>4 DEF SerialParts, NoDuplicateTx
<1>6. SerialInv'
  <2>1. /\ IsListed(received)' <=> IsListed(received)
        /\ \A h \in Handler : PassedDiffer(h)' <=> PassedDiffer(h)
    BY <1>1, <1>2, <1>3, <1>4 DEF IsListed, PassedDiffer
  <2> QED
    BY <1>1, <1>2, <1>3, <1>4, <2>1 DEF SerialParts, SerialInv
<1>7. AcceptedIsListed'
  <2> SUFFICES ASSUME NEW h \in Handler, handler'[h].pc = "unlock"
               PROVE  \E e \in ToSet(list') : /\ e.ip = handler'[h].req.ip
                                             /\ e.state = "INIT"
    BY DEF AcceptedIsListed
  <2>1. PICK i \in DOMAIN list : /\ list[i].ip = handler[h].req.ip
                                 /\ list[i].state = "INIT"
    BY <1>1, <1>2 DEF SerialParts, AcceptedIsListed, ToSet
  <2>2. list'[i] \in ToSet(list')
    BY <1>1, <1>4, <2>1 DEF ToSet
  <2> QED
    BY <1>1, <1>2, <1>3, <2>1, <2>2
<1> QED
  BY <1>5, <1>6, <1>7 DEF SerialParts

\* Every step keeps what holds of requests one at a time.
LEMMA NextSerial ==
  ASSUME OneAtATime
  PROVE  SerialIInv /\ [Next]_vars => SerialIInv'
<1> SUFFICES ASSUME SerialIInv, [Next]_vars PROVE SerialIInv'
  OBVIOUS
<1>1. IInv'
  BY NextIInv DEF SerialIInv
<1>2. SerialParts'
  BY HandlerSerial, PushSerial, InitStateSerial, ScanSerial, ClockSerial
     DEF Next, HandlerStep, Crashed
<1> QED
  BY <1>1, <1>2 DEF SerialIInv

\* The invariant of requests one at a time holds in every reachable state.
THEOREM SerialInductive ==
  ASSUME OneAtATime
  PROVE  Spec => []SerialIInv
<1>1. Init => SerialIInv
  <2> SUFFICES ASSUME Init PROVE SerialIInv
    OBVIOUS
  <2>1. DOMAIN list = {}
    BY DEF Init
  <2>2. SerialParts
    BY <2>1 DEF Init, SerialParts, SerialInv, NoDuplicateTx, AcceptedIsListed,
       Inside
  <2> QED
    BY <2>2, InitIInv DEF SerialIInv
<1>2. SerialIInv /\ [Next]_vars => SerialIInv'
  BY NextSerial
<1> QED
  BY <1>1, <1>2, PTL DEF Spec

\* No transmitter is listed twice as long as requests come one at a time.
THEOREM SerialNoDuplicate ==
  ASSUME OneAtATime
  PROVE  Spec => []NoDuplicateTx
<1>1. SerialIInv => NoDuplicateTx
  BY DEF SerialIInv, SerialParts
<1> QED
  BY <1>1, SerialInductive, PTL

\* No entry stays in the list unmarked, out of the checker's reach.
THEOREM SerialEntriesTimed ==
  ASSUME OneAtATime
  PROVE  Spec => []EveryEntryTimed
<1>1. SerialIInv => EveryEntryTimed
  <2> SUFFICES ASSUME SerialIInv, lock = NULL, NEW i \in DOMAIN list
               PROVE  list[i].state = "INIT"
    BY DEF EveryEntryTimed, ToSet
  <2>1. \A h \in Handler : handler[h].pc # "init"
    BY ConstantsAssumption
       DEF SerialIInv, IInv, LockExact, ConstantsAssumption, Inside
  <2>2. list[i].state # "EMPTY"
    BY <2>1 DEF SerialIInv, SerialParts, SerialInv
  <2>3. list[i] \in Entry
    BY ElementOfSeq, LenProperties DEF SerialIInv, IInv, TypeOK
  <2> QED
    BY <2>2, <2>3 DEF Entry
<1> QED
  BY <1>1, SerialInductive, PTL

\* A request that is about to be answered 200 has its transmitter in the list.
THEOREM SerialAccepted ==
  ASSUME OneAtATime
  PROVE  Spec => []AcceptedIsListed
<1>1. SerialIInv => AcceptedIsListed
  BY DEF SerialIInv, SerialParts
<1> QED
  BY <1>1, SerialInductive, PTL

-----------------------------------------------------------------------------
(* The table that requests one at a time make of the list (TxTable), as long *)
(* as the clock is not set back.                                             *)

\* Nobody dies of a negative age.
ClockInv == /\ ~crashed
            /\ \A i \in DOMAIN list : list[i].age >= 0

TableInv == SerialIInv /\ ClockInv

\* TableAge as a function of the list.
AgesOf(l) == [ip \in TxIp |->
                LET i == SelectInSeq(l, LAMBDA e : e.ip = ip)
                IN IF i # 0 /\ Timed(l[i]) THEN l[i].age ELSE NULL]

\* In a list without duplicates the age of an address is that of its entry.
LEMMA AgesOfList ==
  ASSUME NEW l \in Seq(Entry),
         \A i, j \in 1 .. Len(l) : l[i].ip = l[j].ip => i = j
  PROVE  /\ \A i \in 1 .. Len(l) :
              l[i].ip \in TxIp =>
                AgesOf(l)[l[i].ip] = IF l[i].state = "INIT" THEN l[i].age ELSE NULL
         /\ \A ip \in TxIp :
              (\A i \in 1 .. Len(l) : l[i].ip # ip) => AgesOf(l)[ip] = NULL
<1> DEFINE I(ip) == {i \in 1 .. Len(l) : l[i].ip = ip}
           first(ip) == SelectInSeq(l, LAMBDA e : e.ip = ip)
<1>1. Len(l) \in Nat
  BY LenProperties
<1>2. \A ip : first(ip) = IF I(ip) # {} THEN Min(I(ip)) ELSE 0
  BY DEF SelectInSeq
<1>3. \A ip \in TxIp :
        AgesOf(l)[ip] = IF first(ip) # 0 /\ Timed(l[first(ip)])
                        THEN l[first(ip)].age ELSE NULL
  BY DEF AgesOf
<1>4. ASSUME NEW i \in 1 .. Len(l) PROVE first(l[i].ip) = i /\ i # 0
  <2>1. I(l[i].ip) = {i}
    OBVIOUS
  <2>2. i \in Nat /\ i # 0
    BY <1>1
  <2> HIDE DEF I, first
  <2> QED
    BY <1>2, <2>1, <2>2, MinOfSingleton
<1>5. \A i \in 1 .. Len(l) : Timed(l[i]) <=> l[i].state = "INIT"
  <2> SUFFICES ASSUME NEW i \in 1 .. Len(l)
               PROVE  Timed(l[i]) <=> l[i].state = "INIT"
    OBVIOUS
  <2>1. l[i] \in Entry
    BY ElementOfSeq
  <2>2. l[i].state \in {"EMPTY", "INIT"}
    BY <2>1 DEF Entry
  <2> QED
    BY <2>2 DEF Timed, Limit
<1>6. ASSUME NEW ip \in TxIp, \A i \in 1 .. Len(l) : l[i].ip # ip
      PROVE  AgesOf(l)[ip] = NULL
  <2>1. I(ip) = {}
    BY <1>6
  <2> HIDE DEF I, first
  <2> QED
    BY <1>2, <1>3, <2>1
<1> HIDE DEF first
<1> QED
  BY <1>3, <1>4, <1>5, <1>6

\* An empty list is an empty table.
LEMMA InitTable == Init => Table!Init
<1> SUFFICES ASSUME Init PROVE Table!Init
  OBVIOUS
<1>1. TableAge = AgesOf(list)
  BY DEF TableAge, FirstWith, AgesOf
<1>2. /\ list \in Seq(Entry)
      /\ Len(list) = 0
  BY EmptySeq DEF Init
<1>3. \A i \in 1 .. Len(list) : FALSE
  BY <1>2
<1>4. \A ip \in TxIp : AgesOf(list)[ip] = NULL
  BY <1>2, <1>3, AgesOfList
<1> QED
  BY <1>1, <1>4 DEF Table!Init, AgesOf

\* Every step keeps the ages at or above zero and the process alive.
LEMMA NextClock ==
  ASSUME ~ClockMayGoBack, TableInv, [Next]_vars
  PROVE  ClockInv'
<1>1. /\ IInv /\ ~crashed
      /\ list \in Seq(Entry)
      /\ Len(list) \in Nat
      /\ DOMAIN list = 1 .. Len(list)
      /\ \A i \in 1 .. Len(list) : list[i] \in Entry /\ list[i].age >= 0
  BY LenProperties, ElementOfSeq DEF TableInv, SerialIInv, IInv, TypeOK, ClockInv
<1>2. CASE UNCHANGED <<list, crashed>>
  BY <1>1, <1>2 DEF ClockInv
<1>3. ASSUME NEW h \in Handler, Push(h) PROVE ClockInv'
  <2>1. /\ Len(list') = Len(list) + 1
        /\ DOMAIN list' = 1 .. (Len(list) + 1)
        /\ \A i \in 1 .. Len(list) : list'[i] = list[i]
        /\ list'[Len(list) + 1].age = 0
    BY <1>1, <1>3, PushList, LenProperties
  <2>2. crashed' = crashed
    BY <1>3 DEF Push
  <2> QED
    BY <1>1, <2>1, <2>2 DEF ClockInv
<1>4. ASSUME NEW h \in Handler, InitState(h) PROVE ClockInv'
  <2>1. /\ DOMAIN list' = 1 .. Len(list)
        /\ \A i \in 1 .. Len(list) : list'[i].age \in {list[i].age, 0}
    <3>1. list' \in Seq(Entry) /\ Len(list') = Len(list)
      BY <1>1, <1>4, InitStateList
    <3>2. \/ list' = list
          \/ \E k \in 1 .. Len(list) : Marks(h, k)
      BY <1>1, <1>4, InitStateList DEF Passes, Misses
    <3> QED
      BY <1>1, <3>1, <3>2, LenProperties DEF Marks
  <2>2. crashed' = crashed
    BY <1>4 DEF InitState
  <2> QED
    BY <1>1, <2>1, <2>2 DEF ClockInv
<1>5. CASE Scan
  <2>1. PICK k \in 1 .. Len(list) : list' = RemoveAt(list, k) /\ crashed' = crashed
    <3>1. \A i \in 1 .. Len(list) : ~Backward(list[i])
      BY <1>1 DEF Backward, Entry
    <3> QED
      BY <1>1, <1>5, <3>1, ScanList
  <2>2. /\ list' \in Seq(Entry)
        /\ Len(list') = Len(list) - 1
        /\ \A i \in 1 .. (Len(list) - 1) :
             list'[i] = IF i < k THEN list[i] ELSE list[i + 1]
    BY <1>1, <2>1, RemoveAtProperties
  <2>3. DOMAIN list' = 1 .. (Len(list) - 1)
    BY <2>2, LenProperties
  <2>4. \A i \in DOMAIN list' : list'[i].age >= 0
    BY <1>1, <2>2, <2>3
  <2> QED
    BY <1>1, <2>1, <2>4 DEF ClockInv
<1>6. ASSUME NEW d \in ClockSteps, Tick(d) PROVE ClockInv'
  <2>1. /\ DOMAIN list' = 1 .. Len(list)
        /\ \A i \in 1 .. Len(list) :
             list'[i] = IF Timed(list[i]) THEN Older(list[i], d) ELSE list[i]
        /\ crashed' = crashed
    BY <1>1, <1>6 DEF Tick
  <2>2. ASSUME NEW e \in Entry, e.age >= 0 PROVE Older(e, d).age >= 0
    BY <2>2, ConstantsAssumption DEF Older, Entry, ConstantsAssumption
  <2> QED
    BY <1>1, <2>1, <2>2 DEF ClockInv
<1>7. ~SetBack
  BY DEF SetBack
<1>8. \/ UNCHANGED <<list, crashed>>
      \/ Scan
      \/ \E d \in ClockSteps : Tick(d)
      \/ \E h \in Handler : Push(h) \/ InitState(h)
  BY <1>7 DEF Next, Receive, HandlerStep, CheckRm, CopyRmIp, ReadPort, CopyStart,
     CopyEnd, Lock, CheckList, Unlock, Connect, Crashed, vars
<1> QED
  BY <1>2, <1>3, <1>4, <1>5, <1>6, <1>8

\* The table of a list without duplicates.
TableFacts ==
  /\ TableAge = AgesOf(list)
  /\ list \in Seq(Entry)
  /\ Len(list) \in Nat
  /\ DOMAIN list = 1 .. Len(list)
  /\ \A i \in 1 .. Len(list) : /\ list[i] \in Entry
                               /\ list[i].ip \in TxIp
                               /\ list[i].age \in Nat
  /\ \A i, j \in 1 .. Len(list) : list[i].ip = list[j].ip => i = j

\* The invariant makes the list such a table, before a step ...
LEMMA TableNow == TableInv => TableFacts
<1> SUFFICES ASSUME TableInv PROVE TableFacts
  OBVIOUS
<1>1. TableAge = AgesOf(list)
  BY DEF TableAge, FirstWith, AgesOf
<1>2. /\ list \in Seq(Entry)
      /\ Len(list) \in Nat
      /\ DOMAIN list = 1 .. Len(list)
      /\ \A i \in 1 .. Len(list) : list[i] \in Entry
  BY LenProperties, ElementOfSeq DEF TableInv, SerialIInv, IInv, TypeOK
<1>3. \A i \in 1 .. Len(list) : list[i].ip \in TxIp /\ list[i].age >= 0
  BY <1>2 DEF TableInv, SerialIInv, SerialParts, SerialInv, ClockInv
<1>4. \A i \in 1 .. Len(list) : list[i].age \in Int
  BY <1>2 DEF Entry
<1>5. \A i, j \in 1 .. Len(list) : list[i].ip = list[j].ip => i = j
  BY <1>2, <1>3 DEF TableInv, SerialIInv, SerialParts, NoDuplicateTx
<1> QED
  BY <1>1, <1>2, <1>3, <1>4, <1>5 DEF TableFacts

\* ... and after it.
LEMMA TableThen == TableInv' => TableFacts'
BY TableNow, PTL

\* Two lists with the same entry for an address give it the same age.
LEMMA SameEntry ==
  ASSUME NEW l \in Seq(Entry), NEW m \in Seq(Entry),
         \A i, j \in 1 .. Len(l) : l[i].ip = l[j].ip => i = j,
         \A i, j \in 1 .. Len(m) : m[i].ip = m[j].ip => i = j,
         NEW i \in 1 .. Len(l), NEW j \in 1 .. Len(m), l[i] = m[j],
         l[i].ip \in TxIp
  PROVE  AgesOf(l)[l[i].ip] = AgesOf(m)[l[i].ip]
<1>1. AgesOf(l)[l[i].ip] = IF l[i].state = "INIT" THEN l[i].age ELSE NULL
  BY AgesOfList
<1>2. AgesOf(m)[m[j].ip] = IF m[j].state = "INIT" THEN m[j].age ELSE NULL
  BY AgesOfList
<1> QED
  BY <1>1, <1>2

\* Tables are equal when every transmitter has the same age in both.
LEMMA AgesEqual ==
  ASSUME NEW l, NEW f, f = [ip \in TxIp |-> f[ip]],
         \A ip \in TxIp : AgesOf(l)[ip] = f[ip]
  PROVE  AgesOf(l) = f
<1>1. AgesOf(l) = [ip \in TxIp |-> AgesOf(l)[ip]]
  BY DEF AgesOf
<1> HIDE DEF AgesOf
<1> QED
  BY <1>1

\* An entry that is not marked yet is not in the table.
LEMMA PushTable ==
  ASSUME TableInv, TableInv', NEW h \in Handler, Push(h)
  PROVE  UNCHANGED TableAge
<1>1. TableFacts /\ TableFacts'
  BY TableNow, TableThen
<1>1a. /\ list \in Seq(Entry) /\ list' \in Seq(Entry)
       /\ \A i, j \in 1 .. Len(list) : list[i].ip = list[j].ip => i = j
       /\ \A i, j \in 1 .. Len(list') : list'[i].ip = list'[j].ip => i = j
  BY <1>1 DEF TableFacts
<1>2. /\ Len(list') = Len(list) + 1
      /\ \A i \in 1 .. Len(list) : list'[i] = list[i]
      /\ list'[Len(list) + 1].state = "EMPTY"
  BY PushList DEF TableInv, SerialIInv
<1>3. ASSUME NEW ip \in TxIp
      PROVE  AgesOf(list')[ip] = AgesOf(list)[ip]
  <2>1. ASSUME NEW i \in 1 .. Len(list), list[i].ip = ip
        PROVE  AgesOf(list')[ip] = AgesOf(list)[ip]
    <3>1. i \in 1 .. Len(list') /\ list'[i] = list[i]
      BY <1>1, <1>2 DEF TableFacts
    <3>2. list[i].ip \in TxIp /\ list[i] = list'[i]
      BY <2>1, <3>1
    <3>3. AgesOf(list)[list[i].ip] = AgesOf(list')[list[i].ip]
      BY ONLY <1>1a, <2>1, <3>1, <3>2, SameEntry
    <3> QED
      BY <2>1, <3>3
  <2>2. ASSUME \A i \in 1 .. Len(list) : list[i].ip # ip
        PROVE  AgesOf(list')[ip] = AgesOf(list)[ip]
    <3>1. AgesOf(list)[ip] = NULL
      BY <1>1, <2>2, AgesOfList DEF TableFacts
    <3>2. CASE list'[Len(list) + 1].ip = ip
      <4>1. Len(list) + 1 \in 1 .. Len(list')
        BY <1>1, <1>2 DEF TableFacts
      <4> QED
        BY <1>1, <1>2, <3>1, <3>2, <4>1, AgesOfList DEF TableFacts
    <3>3. CASE list'[Len(list) + 1].ip # ip
      <4>1. \A i \in 1 .. Len(list') : list'[i].ip # ip
        BY <1>1, <1>2, <2>2, <3>3 DEF TableFacts
      <4> QED
        BY <1>1, <3>1, <4>1, AgesOfList DEF TableFacts
    <3> QED
      BY <3>2, <3>3
  <2> QED
    BY <2>1, <2>2
<1>4. AgesOf(list') = AgesOf(list)
  <2>1. AgesOf(list) = [ip \in TxIp |-> AgesOf(list)[ip]]
    BY DEF AgesOf
  <2> QED
    BY <1>3, <2>1, AgesEqual
<1> QED
  BY <1>1, <1>4 DEF TableFacts

\* The marking configures the transmitter of the request.
LEMMA MarksTable ==
  ASSUME TableInv, TableInv', NEW h \in Handler, InitState(h),
         NEW k \in 1 .. Len(list), Marks(h, k)
  PROVE  \E ip \in TxIp : Table!Configure(ip)
<1>1. TableFacts /\ TableFacts'
  BY TableNow, TableThen
<1>2. /\ list \in Seq(Entry) /\ list' \in Seq(Entry)
      /\ \A i, j \in 1 .. Len(list) : list[i].ip = list[j].ip => i = j
      /\ \A i, j \in 1 .. Len(list') : list'[i].ip = list'[j].ip => i = j
  BY <1>1 DEF TableFacts
<1>3. list[k].ip = received /\ received \in TxIp
  BY <1>1 DEF TableFacts, Marks
<1>4. /\ Len(list') = Len(list)
      /\ \A i \in 1 .. Len(list) : i # k => list'[i] = list[i]
      /\ list'[k] = [ip |-> received, state |-> "INIT", age |-> 0]
  BY InitStateList DEF Marks, TableInv, SerialIInv
<1>5. ASSUME NEW ip \in TxIp
      PROVE  AgesOf(list')[ip] = [AgesOf(list) EXCEPT ![received] = 0][ip]
  <2>1. [AgesOf(list) EXCEPT ![received] = 0][ip]
          = IF ip = received THEN 0 ELSE AgesOf(list)[ip]
    BY DEF AgesOf
  <2>2. CASE ip = received
    <3>1. k \in 1 .. Len(list') /\ list'[k].ip = ip /\ list'[k].state = "INIT"
          /\ list'[k].age = 0
      BY <1>3, <1>4, <2>2
    <3>2. AgesOf(list')[list'[k].ip] = list'[k].age
      BY <1>2, <3>1, AgesOfList
    <3> QED
      BY <2>1, <2>2, <3>1, <3>2
  <2>3. ASSUME ip # received, NEW i \in 1 .. Len(list), list[i].ip = ip
        PROVE  AgesOf(list')[ip] = AgesOf(list)[ip]
    <3>1. i \in 1 .. Len(list') /\ list'[i] = list[i]
      BY <1>3, <1>4, <2>3
    <3> QED
      BY <1>2, <2>3, <3>1, SameEntry
  <2>4. ASSUME ip # received, \A i \in 1 .. Len(list) : list[i].ip # ip
        PROVE  AgesOf(list')[ip] = AgesOf(list)[ip]
    <3>1. \A i \in 1 .. Len(list') : list'[i].ip # ip
      BY <1>3, <1>4, <2>4
    <3> QED
      BY ONLY <1>2, <2>4, <3>1, ip \in TxIp, AgesOfList
  <2> QED
    BY <2>1, <2>2, <2>3, <2>4
<1>6. AgesOf(list') = [AgesOf(list) EXCEPT ![received] = 0]
  <2> DEFINE f == [AgesOf(list) EXCEPT ![received] = 0]
  <2>1. f = [ip \in TxIp |-> f[ip]]
    BY DEF AgesOf
  <2>2. \A ip \in TxIp : AgesOf(list')[ip] = f[ip]
    BY <1>5
  <2> HIDE DEF f
  <2>3. AgesOf(list') = f
    BY <2>1, <2>2, AgesEqual
  <2> QED
    BY <2>3 DEF f
<1> QED
  BY <1>1, <1>3, <1>6 DEF TableFacts, Table!Configure

\* The checker evicts the transmitter whose entry it erases.
LEMMA ScanTable ==
  ASSUME TableInv, TableInv', Scan
  PROVE  \E ip \in TxIp : Table!Evict(ip)
<1>1. TableFacts /\ TableFacts'
  BY TableNow, TableThen
<1>1a. /\ list \in Seq(Entry) /\ list' \in Seq(Entry)
       /\ Len(list) \in Nat
       /\ \A i, j \in 1 .. Len(list) : list[i].ip = list[j].ip => i = j
       /\ \A i, j \in 1 .. Len(list') : list'[i].ip = list'[j].ip => i = j
       /\ \A i \in 1 .. Len(list) : list[i] \in Entry /\ list[i].ip \in TxIp
  BY <1>1 DEF TableFacts
<1>2. PICK k \in 1 .. Len(list) : Expired(list[k]) /\ list' = RemoveAt(list, k)
  <2>1. \A i \in 1 .. Len(list) : ~Backward(list[i])
    BY <1>1 DEF TableFacts, Backward
  <2> QED
    BY <2>1, ScanList DEF TableInv, SerialIInv
<1> DEFINE gone == list[k].ip
<1>3. list[k].state = "INIT" /\ list[k].age > 10 /\ gone \in TxIp
  BY <1>1a, <1>2, ExpiredEntry
<1>4. AgesOf(list)[gone] > 10 /\ AgesOf(list)[gone] # NULL
  <2>1. AgesOf(list)[list[k].ip] = list[k].age
    BY <1>1a, <1>3, AgesOfList
  <2>2. list[k].age \in Nat
    BY <1>1 DEF TableFacts
  <2> QED
    BY <1>3, <2>1, <2>2, ConstantsAssumption DEF ConstantsAssumption
<1>5. /\ Len(list') = Len(list) - 1
      /\ \A i \in 1 .. (Len(list) - 1) :
           list'[i] = IF i < k THEN list[i] ELSE list[i + 1]
  <2>1. list \in Seq(Entry)
    BY <1>1a
  <2> QED
    BY <1>2, <2>1, RemoveAtProperties
<1>6. AgesOf(list')[gone] = NULL
  <2>1. ASSUME NEW i \in 1 .. Len(list') PROVE list'[i].ip # gone
    <3> DEFINE j == IF i < k THEN i ELSE i + 1
    <3>1. j \in 1 .. Len(list) /\ j # k /\ list'[i] = list[j]
      BY <1>1a, <1>5
    <3> QED
      BY <1>1a, <3>1
  <2> QED
    BY <1>1a, <1>3, <2>1, AgesOfList
<1>7. ASSUME NEW ip \in TxIp, ip # gone
      PROVE  AgesOf(list')[ip] = AgesOf(list)[ip]
  <2>1. ASSUME NEW i \in 1 .. Len(list), list[i].ip = ip
        PROVE  AgesOf(list')[ip] = AgesOf(list)[ip]
    <3> DEFINE j == IF i < k THEN i ELSE i - 1
    <3>1. i # k
      BY <1>7, <2>1
    <3>2. j \in 1 .. Len(list') /\ list'[j] = list[i]
      BY <1>1a, <1>5, <3>1
    <3> HIDE DEF j
    <3>3. AgesOf(list)[list[i].ip] = AgesOf(list')[list[i].ip]
      BY <1>1a, <3>2, SameEntry
    <3> QED
      BY <2>1, <3>3
  <2>2. ASSUME \A i \in 1 .. Len(list) : list[i].ip # ip
        PROVE  AgesOf(list')[ip] = AgesOf(list)[ip]
    <3>1. ASSUME NEW i \in 1 .. Len(list') PROVE list'[i].ip # ip
      <4> DEFINE j == IF i < k THEN i ELSE i + 1
      <4>1. j \in 1 .. Len(list) /\ list'[i] = list[j]
        BY <1>1a, <1>5
      <4> QED
        BY <2>2, <4>1
    <3>2. AgesOf(list')[ip] = NULL
      BY <1>1a, <3>1, AgesOfList
    <3>3. AgesOf(list)[ip] = NULL
      BY <1>1a, <2>2, AgesOfList
    <3> QED
      BY <3>2, <3>3
  <2> QED
    BY <2>1, <2>2
<1>8. AgesOf(list') = [AgesOf(list) EXCEPT ![gone] = NULL]
  <2> DEFINE f == [AgesOf(list) EXCEPT ![gone] = NULL]
  <2>1. f = [ip \in TxIp |-> f[ip]]
    BY DEF AgesOf
  <2>2. \A ip \in TxIp : f[ip] = IF ip = gone THEN NULL ELSE AgesOf(list)[ip]
    BY DEF AgesOf
  <2>3. \A ip \in TxIp : AgesOf(list')[ip] = f[ip]
    BY <1>6, <1>7, <2>2
  <2> HIDE DEF f
  <2> QED
    BY <2>1, <2>3, AgesEqual DEF f
<1> HIDE DEF gone
<1> QED
  BY <1>1, <1>3, <1>4, <1>8
     DEF TableFacts, Table!Evict, Table!In, Limit

\* A second that passes makes every transmitter of the table older.
LEMMA TickTable ==
  ASSUME TableInv, TableInv', NEW d \in ClockSteps, Tick(d)
  PROVE  Table!Elapse(d)
<1>1. TableFacts /\ TableFacts'
  BY TableNow, TableThen
<1>1a. /\ list \in Seq(Entry) /\ list' \in Seq(Entry)
       /\ \A i, j \in 1 .. Len(list) : list[i].ip = list[j].ip => i = j
       /\ \A i, j \in 1 .. Len(list') : list'[i].ip = list'[j].ip => i = j
       /\ \A i \in 1 .. Len(list) : list[i] \in Entry
       /\ \A i \in 1 .. Len(list) : list[i].age \in Nat
  BY <1>1 DEF TableFacts
<1>2. /\ Len(list') = Len(list)
      /\ \A i \in 1 .. Len(list) : /\ list'[i].ip = list[i].ip
                                   /\ list'[i].state = list[i].state
  BY ClockList DEF TableInv, SerialIInv
<1> DEFINE older(a) == IF a + d > AgeCap THEN AgeCap ELSE a + d
<1>3. ASSUME NEW i \in 1 .. Len(list), list[i].state = "INIT"
      PROVE  list'[i].age = older(list[i].age)
  <2>1. Timed(list[i])
    BY <1>3 DEF Timed, Limit
  <2>2. list'[i] = Older(list[i], d)
    BY <1>1, <2>1 DEF Tick, TableFacts
  <2>3. ASSUME NEW e \in Entry PROVE Older(e, d).age = older(e.age)
    BY DEF Older, Entry
  <2> QED
    BY <1>1a, <2>2, <2>3
<1>4. ASSUME NEW ip \in TxIp
      PROVE  AgesOf(list')[ip] = IF AgesOf(list)[ip] = NULL THEN NULL
                                 ELSE older(AgesOf(list)[ip])
  <2>1. ASSUME NEW i \in 1 .. Len(list), list[i].ip = ip
        PROVE  AgesOf(list')[ip] = IF AgesOf(list)[ip] = NULL THEN NULL
                                   ELSE older(AgesOf(list)[ip])
    <3>1. AgesOf(list)[list[i].ip]
            = IF list[i].state = "INIT" THEN list[i].age ELSE NULL
      BY <1>1a, <2>1, AgesOfList
    <3>2. AgesOf(list')[list'[i].ip]
            = IF list'[i].state = "INIT" THEN list'[i].age ELSE NULL
      BY <1>1a, <1>2, <2>1, AgesOfList
    <3>3. list[i].age # NULL
      BY <1>1a, ConstantsAssumption DEF ConstantsAssumption
    <3> HIDE DEF older
    <3> QED
      BY <1>2, <1>3, <2>1, <3>1, <3>2, <3>3
  <2>2. ASSUME \A i \in 1 .. Len(list) : list[i].ip # ip
        PROVE  AgesOf(list')[ip] = NULL /\ AgesOf(list)[ip] = NULL
    <3>1. \A i \in 1 .. Len(list') : list'[i].ip # ip
      BY <1>2, <2>2
    <3>2. AgesOf(list')[ip] = NULL
      BY <1>1a, <3>1, AgesOfList
    <3> QED
      BY <1>1a, <2>2, <3>2, AgesOfList
  <2> HIDE DEF older
  <2> QED
    BY <2>1, <2>2
<1>5. AgesOf(list') = [ip \in TxIp |-> IF AgesOf(list)[ip] = NULL THEN NULL
                                       ELSE older(AgesOf(list)[ip])]
  <2> DEFINE f == [ip \in TxIp |-> IF AgesOf(list)[ip] = NULL THEN NULL
                                   ELSE older(AgesOf(list)[ip])]
  <2>1. f = [ip \in TxIp |-> f[ip]]
    OBVIOUS
  <2>2. ASSUME NEW ip \in TxIp PROVE AgesOf(list')[ip] = f[ip]
    <3>1. f[ip] = IF AgesOf(list)[ip] = NULL THEN NULL
                  ELSE older(AgesOf(list)[ip])
      OBVIOUS
    <3> QED
      BY <1>4, <3>1
  <2> HIDE DEF f
  <2>3. AgesOf(list') = f
    BY <2>1, <2>2, AgesEqual
  <2> QED
    BY <2>3 DEF f
<1> QED
  BY <1>1, <1>5 DEF TableFacts, Table!Elapse, Table!In

\* Every step of the program is a step of the table, or none.
LEMMA NextTable ==
  ASSUME OneAtATime, ~ClockMayGoBack, TableInv, TableInv', [Next]_vars
  PROVE  [Table!Next]_TableAge
<1>1. ASSUME UNCHANGED list PROVE UNCHANGED TableAge
  <2>1. TableAge = AgesOf(list) /\ TableAge' = AgesOf(list')
    BY TableNow, TableThen DEF TableFacts
  <2> QED
    BY <1>1, <2>1
<1>2. ASSUME NEW h \in Handler, Push(h)
      PROVE  UNCHANGED TableAge
  BY <1>2, PushTable
<1>3. ASSUME NEW h \in Handler, InitState(h)
      PROVE  UNCHANGED list \/ Table!Next
  <2>1. \/ UNCHANGED list
        \/ \E k \in 1 .. Len(list) : Marks(h, k)
    BY <1>3, InitStateList DEF TableInv, SerialIInv, Passes, Misses
  <2> QED
    BY <1>3, <2>1, MarksTable DEF Table!Next
<1>4. CASE Scan
  BY <1>4, ScanTable DEF Table!Next
<1>5. ASSUME NEW d \in ClockSteps, Tick(d)
      PROVE  Table!Next
  BY <1>5, TickTable DEF Table!Next
<1>6. \/ UNCHANGED list
      \/ Scan
      \/ \E d \in ClockSteps : Tick(d)
      \/ \E h \in Handler : Push(h) \/ InitState(h)
  BY DEF SetBack, Next, Receive, HandlerStep, CheckRm, CopyRmIp, ReadPort,
     CopyStart, CopyEnd, Lock, CheckList, Unlock, Connect, Crashed, vars
<1> QED
  BY <1>1, <1>2, <1>3, <1>4, <1>5, <1>6

\* The invariant of the table holds in every reachable state.
THEOREM SerialTableInductive ==
  ASSUME OneAtATime, ~ClockMayGoBack
  PROVE  Spec => []TableInv
<1>1. Init => ClockInv
  <2> SUFFICES ASSUME Init PROVE ClockInv
    OBVIOUS
  <2>1. DOMAIN list = {}
    BY DEF Init
  <2> QED
    BY <2>1 DEF Init, ClockInv
<1>2. SerialIInv /\ ClockInv /\ [Next]_vars => ClockInv'
  BY NextClock DEF TableInv
<1>3. TableInv <=> SerialIInv /\ ClockInv
  BY DEF TableInv
<1> QED
  BY <1>1, <1>2, <1>3, SerialInductive, PTL DEF Spec

\* Handlers, list and checker together implement TxTable: transmitters enter
\* the table when their request is accepted, age with the clock and leave it
\* only once they are past the limit, whatever the list goes through in
\* between.
THEOREM SerialImplementsTable ==
  ASSUME OneAtATime, ~ClockMayGoBack
  PROVE  Spec => Table!Init /\ [][Table!Next]_TableAge
<1>1. TableInv /\ TableInv' /\ [Next]_vars => [Table!Next]_TableAge
  BY NextTable
<1> QED
  BY <1>1, InitTable, SerialTableInductive, PTL DEF Spec
==============================================================================
