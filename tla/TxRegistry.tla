------------------------------ MODULE TxRegistry ------------------------------
(***************************************************************************)
(* The REST session manager (Cpprest_API): the list of transmitters        *)
(* tx_info_list, the handlers of POST /set-tx-configuration that add to    *)
(* it, and the state checker that evicts from it.                          *)
(*                                                                         *)
(* The listener runs handlers in a thread pool.  Each parses its request   *)
(* into the one global tx_received without a lock, and only then takes     *)
(* tx_info_list_lock to search the list, push tx_received and mark the     *)
(* entry INIT.  Both searches go through the list entry by entry and read  *)
(* tx_received.tx_ip again at every comparison, and so does the push.      *)
(* Handlers also race on rm_ip and rm_port, which the first request sets.  *)
(* The checker loops over the list under the lock, for ever.               *)
(*                                                                         *)
(* An entry keeps its tx_ip, its state and its age, that is                *)
(* current_time_sec() - init_time, counted up to AgeCap and -1 when the    *)
(* clock went back behind init_time.  The other fields are payload.        *)
(***************************************************************************)
EXTENDS Integers, SequencesExt

CONSTANTS Handler,        \* threads of the pool that run a handler
          TxIp,           \* tx-ip values of well-formed requests
          Peer,           \* resource managers that send requests
          PortKind,       \* the Port header: subset of {"number", "bad"}
          BodyKind,       \* the body: subset of {"whole", "partial", "broken"}
          ClockSteps,     \* seconds that may pass at once
          ClockMayGoBack, \* whether the wall clock may be set back
          AgeCap,         \* ages from this on are not told apart
          MaxEntries,     \* no request is received while the list is longer
          Torn,           \* a tx_received.tx_ip or rm_ip mixed from two requests
          NULL

ASSUME ConstantsAssumption ==
  /\ PortKind \subseteq {"number", "bad"}
  /\ BodyKind \subseteq {"whole", "partial", "broken"}
  /\ ClockSteps \subseteq Nat \ {0}
  /\ ClockMayGoBack \in BOOLEAN
  /\ AgeCap \in Nat /\ AgeCap > 10
  /\ MaxEntries \in Nat
  /\ NULL \notin TxIp \cup Peer \cup Handler \cup {Torn} \cup Nat
  /\ Torn \notin TxIp \cup Peer

VARIABLES list,        \* tx_info_list
          lock,        \* the holder of tx_info_list_lock, or NULL
          received,    \* tx_received.tx_ip
          clash,       \* two copies of different addresses overlapped
          rm,          \* rm_ip and rm_port, as the peer each was taken from
          handler,     \* each handler: its pc, its request, and the position
                       \* of the entry that the loop it is in compares next
          crashed      \* the process died

vars == <<list, lock, received, clash, rm, handler, crashed>>

\* Seconds after which state_checker_loop erases an entry of a state.  Only
\* EMPTY and INIT are ever assigned; EMPTY has no limit.  The ten seconds are
\* those of the code, a literal in place of TX_INFO_INIT_TIMEOUT_SEC.
Limit == [INIT |-> 10, READY |-> 60, CONNECTED |-> 15]
Timed(e) == e.state \in DOMAIN Limit
Entry == [ip : TxIp \cup {Torn}, state : {"EMPTY", "INIT"}, age : -1 .. AgeCap]
Request == [ip : TxIp, peer : Peer, port : PortKind, body : BodyKind]
HandlerPc == {"idle", "rm", "rmip", "port", "copy", "copying", "lock", "check", "push",
              "init", "unlock", "connect"}

Init == /\ list = <<>>
        /\ lock = NULL
        /\ received = NULL
        /\ clash = FALSE
        /\ rm = [ip |-> NULL, port |-> NULL]
        /\ handler = [h \in Handler |-> [pc |-> "idle", req |-> NULL, at |-> 1]]
        /\ crashed = FALSE

At(h, pc) == ~crashed /\ handler[h].pc = pc
Goto(h, pc) ==
  handler' = [handler EXCEPT ![h] = [pc |-> pc, req |-> @.req, at |-> 1]]
\* The loop the handler is in goes on to the next entry.
NextEntry(h) == handler' = [handler EXCEPT ![h].at = @ + 1]
\* The handler returns, or an exception left it and the listener answers 500.
Return(h) ==
  handler' = [handler EXCEPT ![h] = [pc |-> "idle", req |-> NULL, at |-> 1]]

-----------------------------------------------------------------------------
(* configuration_handle *)

Receive(h, req) ==
  /\ At(h, "idle")
  /\ Len(list) < MaxEntries
  /\ handler' = [handler EXCEPT ![h] = [pc |-> "rm", req |-> req, at |-> 1]]
  /\ UNCHANGED <<list, lock, received, clash, rm, crashed>>

\* Faulty variant: a resource manager without a port is replaced.
RmIsNew_NoPort == rm.port = NULL

RmIsNew == rm.ip = NULL /\ rm.port = NULL

\* The first request makes its sender the resource manager; handlers that look
\* before rm_ip is written all take their request for the first.
CheckRm(h) ==
  /\ At(h, "rm")
  /\ Goto(h, IF RmIsNew THEN "rmip" ELSE "copy")
  /\ UNCHANGED <<list, lock, received, clash, rm, crashed>>

\* The strncpy into rm_ip.  Over the copy of another handler it may leave the
\* bytes of either or of both.
CopyRmIp(h) ==
  /\ At(h, "rmip")
  /\ \E ip \in {handler[h].req.peer} \cup
               (IF rm.ip = NULL THEN {} ELSE {rm.ip, Torn}) :
       rm' = [rm EXCEPT !.ip = ip]
  /\ Goto(h, "port")
  /\ UNCHANGED <<list, lock, received, clash, crashed>>

\* Then rm_port, unless the Port header is no number and stoi throws.
ReadPort(h) ==
  /\ At(h, "port")
  /\ IF handler[h].req.port = "number"
     THEN rm' = [rm EXCEPT !.port = handler[h].req.peer] /\ Goto(h, "copy")
     ELSE UNCHANGED rm /\ Return(h)
  /\ UNCHANGED <<list, lock, received, clash, crashed>>

\* task.get(), and recvdata_copy up to its first strncpy.  A broken body
\* throws before anything is copied.  While tx_ip is being overwritten, other
\* threads read a mixture, unless it already holds the same address.
CopyStart(h) ==
  /\ At(h, "copy")
  /\ LET req == handler[h].req
         others == {g \in Handler \ {h} : handler[g].pc = "copying"}
     IN IF req.body = "broken"
        THEN Return(h) /\ UNCHANGED <<received, clash>>
        ELSE /\ Goto(h, "copying")
             /\ received' = IF received = req.ip THEN received ELSE Torn
             /\ clash' = (others # {} /\ (clash \/ \E g \in others :
                                                   handler[g].req.ip # req.ip))
  /\ UNCHANGED <<list, lock, rm, crashed>>

\* The copy of tx_ip is complete; a missing later field throws.  Copies that
\* overlapped may leave the bytes of either or of both.
CopyEnd(h) ==
  /\ At(h, "copying")
  /\ received' \in {handler[h].req.ip} \cup
                   (IF clash THEN TxIp \cup {Torn} ELSE {})
  /\ IF handler[h].req.body = "whole" THEN Goto(h, "lock") ELSE Return(h)
  /\ UNCHANGED <<list, lock, clash, rm, crashed>>

Lock(h) ==
  /\ At(h, "lock")
  /\ lock = NULL
  /\ lock' = h
  /\ Goto(h, "check")
  /\ UNCHANGED <<list, received, clash, rm, crashed>>

\* What strcmp may say of an entry and tx_received.tx_ip: two mixtures of
\* bytes may be the same one or not.
Same(e) == IF e.ip # received THEN {FALSE}
           ELSE IF received = Torn THEN BOOLEAN ELSE {TRUE}

\* Faulty variants: the search stops before the last entry, or finds an entry
\* in any case.
CheckList_MissesLast(h) ==
  /\ At(h, "check")
  /\ IF handler[h].at >= Len(list)
     THEN Goto(h, "push")
     ELSE \E same \in Same(list[handler[h].at]) :
            IF same THEN Goto(h, "init") ELSE NextEntry(h)
  /\ UNCHANGED <<list, lock, received, clash, rm, crashed>>
CheckList_NeverPush(h) ==
  /\ At(h, "check")
  /\ Goto(h, "init")
  /\ UNCHANGED <<list, lock, received, clash, rm, crashed>>

\* if_there_is_not_data_tx_info_save: one turn of its search ...
CheckList(h) ==
  /\ At(h, "check")
  /\ IF handler[h].at > Len(list)
     THEN Goto(h, "push")
     ELSE \E same \in Same(list[handler[h].at]) :
            IF same THEN Goto(h, "init") ELSE NextEntry(h)
  /\ UNCHANGED <<list, lock, received, clash, rm, crashed>>

\* Faulty variant: the state of the pushed entry is not initialised.
Push_Uninitialised(h) ==
  /\ At(h, "push")
  /\ list' = Append(list, [ip |-> received, state |-> "UNSET", age |-> 0])
  /\ Goto(h, "init")
  /\ UNCHANGED <<lock, received, clash, rm, crashed>>

\* ... and the push_back of tx_received, whose state is TX_ST_EMPTY.
Push(h) ==
  /\ At(h, "push")
  /\ list' = Append(list, [ip |-> received, state |-> "EMPTY", age |-> 0])
  /\ Goto(h, "init")
  /\ UNCHANGED <<lock, received, clash, rm, crashed>>

\* Faulty variant: the entry is not marked.
InitState_Forgotten(h) ==
  /\ At(h, "init")
  /\ Goto(h, "unlock")
  /\ UNCHANGED <<list, lock, received, clash, rm, crashed>>

\* tx_info_state_init, one turn of its loop: the first entry found to have
\* tx_received.tx_ip becomes INIT, and if none has it nothing is marked.
InitState(h) ==
  /\ At(h, "init")
  /\ LET i == handler[h].at
     IN IF i > Len(list)
        THEN Goto(h, "unlock") /\ UNCHANGED list
        ELSE \E same \in Same(list[i]) :
               IF same
               THEN /\ list' = [list EXCEPT ![i].state = "INIT", ![i].age = 0]
                    /\ Goto(h, "unlock")
               ELSE NextEntry(h) /\ UNCHANGED list
  /\ UNCHANGED <<lock, received, clash, rm, crashed>>

\* Faulty variant: the handler goes on without releasing the mutex.
Unlock_Forgotten(h) ==
  /\ At(h, "unlock")
  /\ Goto(h, "connect")
  /\ UNCHANGED <<list, lock, received, clash, rm, crashed>>

Unlock(h) ==
  /\ At(h, "unlock")
  /\ lock' = NULL
  /\ Goto(h, "connect")
  /\ UNCHANGED <<list, received, clash, rm, crashed>>

\* Reply 200, then POST session-connection to rm_ip:rm_port; whatever comes of
\* it, the handler is over.
Connect(h) ==
  /\ At(h, "connect")
  /\ Return(h)
  /\ UNCHANGED <<list, lock, received, clash, rm, crashed>>

-----------------------------------------------------------------------------
(* state_checker_loop: one pass under the lock. *)

\* Faulty variant: >= in place of >.
Expired_AtLimit(e) == Timed(e) /\ e.age >= Limit[e.state]

Expired(e) == Timed(e) /\ e.age > Limit[e.state]

\* diff_times_sec meets t_new < t_old: the warning goes to fd_log, which
\* nobody opened, and the process dies.
Backward(e) == Timed(e) /\ e.age < 0

\* Faulty variant: the pass does not take the lock.
Scan_Unlocked ==
  /\ ~crashed
  /\ LET i == SelectInSeq(list, LAMBDA e : Expired(e) \/ Backward(e))
     IN /\ i # 0
        /\ IF Backward(list[i])
           THEN crashed' = TRUE /\ UNCHANGED list
           ELSE list' = RemoveAt(list, i) /\ UNCHANGED crashed
  /\ UNCHANGED <<lock, received, clash, rm, handler>>

\* The first entry that ends the pass is erased, or kills the process.
Scan ==
  /\ ~crashed
  /\ lock = NULL
  /\ LET i == SelectInSeq(list, LAMBDA e : Expired(e) \/ Backward(e))
     IN /\ i # 0
        /\ IF Backward(list[i])
           THEN crashed' = TRUE /\ UNCHANGED list
           ELSE list' = RemoveAt(list, i) /\ UNCHANGED crashed
  /\ UNCHANGED <<lock, received, clash, rm, handler>>

-----------------------------------------------------------------------------
(* The wall clock (gettimeofday). *)

Older(e, d) == [e EXCEPT !.age = IF @ + d > AgeCap THEN AgeCap ELSE @ + d]

Tick(d) ==
  /\ ~crashed
  /\ list' = [i \in DOMAIN list |-> IF Timed(list[i]) THEN Older(list[i], d)
                                    ELSE list[i]]
  /\ UNCHANGED <<lock, received, clash, rm, handler, crashed>>

\* The clock is set back to before every init_time.
SetBack ==
  /\ ClockMayGoBack
  /\ ~crashed
  /\ list' = [i \in DOMAIN list |-> IF Timed(list[i])
                                    THEN [list[i] EXCEPT !.age = -1]
                                    ELSE list[i]]
  /\ UNCHANGED <<lock, received, clash, rm, handler, crashed>>

-----------------------------------------------------------------------------
Crashed == crashed /\ UNCHANGED vars

HandlerStep(h) == \/ CheckRm(h) \/ CopyRmIp(h) \/ ReadPort(h)
                  \/ CopyStart(h) \/ CopyEnd(h)
                  \/ CheckList(h) \/ Push(h) \/ InitState(h) \/ Unlock(h)
                  \/ Connect(h)

Next == \/ \E h \in Handler : \/ \E req \in Request : Receive(h, req)
                              \/ HandlerStep(h)
                              \/ Lock(h)
        \/ Scan
        \/ \E d \in ClockSteps : Tick(d)
        \/ SetBack
        \/ Crashed

\* Threads are scheduled, time passes, and a thread that asks for the mutex
\* again and again gets it.
Fairness == /\ \A h \in Handler : WF_vars(HandlerStep(h)) /\ SF_vars(Lock(h))
            /\ SF_vars(Scan)
            /\ WF_vars(\E d \in ClockSteps : Tick(d))

Spec == Init /\ [][Next]_vars /\ Fairness

-----------------------------------------------------------------------------
\* Type correctness: no entry is pushed with an uninitialised field.
TypeOK ==
  /\ list \in Seq(Entry)
  /\ lock \in Handler \cup {NULL}
  /\ received \in TxIp \cup {Torn, NULL}
  /\ clash \in BOOLEAN
  /\ rm \in [ip : Peer \cup {Torn, NULL}, port : Peer \cup {NULL}]
  /\ handler \in [Handler -> [pc : HandlerPc, req : Request \cup {NULL}, at : Nat \ {0}]]
  /\ crashed \in BOOLEAN

\* A tx_ip is listed once: if_there_is_not_data_tx_info_save reports a known
\* one as "Already exists TX information" and does not push it again.  (Two
\* mixtures of bytes need not be the same address.)
NoDuplicateTx ==
  \A i, j \in DOMAIN list :
    list[i].ip \in TxIp /\ list[i].ip = list[j].ip => i = j

\* When the lock is free every entry has been marked INIT, so that the checker
\* will evict it: an EMPTY entry stays in the list for ever.
EveryEntryTimed == lock = NULL => \A e \in ToSet(list) : e.state = "INIT"

\* The transmitter of the request is in the list and marked when its handler has
\* done its work under the lock and is about to answer 200.
AcceptedIsListed ==
  \A h \in Handler : handler[h].pc = "unlock" =>
    \E e \in ToSet(list) : /\ e.ip = handler[h].req.ip
                           /\ e.state = "INIT"

\* The choice of the resource manager is final: once rm_ip is set and the
\* requests that took themselves for the first are through with it, no request
\* ever chooses again, not even when no port could be read and the program has
\* nobody it can reach.
Chosen == rm.ip # NULL /\ \A h \in Handler : handler[h].pc \notin {"rmip", "port"}
RmIsFinal == [][Chosen => Chosen' /\ rm' = rm]_vars

\* While a handler holds the lock, no other thread adds, erases or marks an
\* entry: its search, its push and its marking see one list.
Shape == [i \in DOMAIN list |-> <<list[i].ip, list[i].state>>]
CriticalSectionStable ==
  [][\A h \in Handler :
       lock = h /\ handler'[h] = handler[h] => Shape' = Shape]_vars

\* TX_INFO_INIT_TIMEOUT_SEC, "5 minutes for storage boot".
DocumentedInitTimeout == 300

\* A transmitter that was configured is given TX_INFO_INIT_TIMEOUT_SEC to boot
\* before the checker gives it up: no entry is erased earlier.
KeptForStorageBoot ==
  [][Len(list') < Len(list) =>
       \E i \in DOMAIN list : /\ list' = RemoveAt(list, i)
                              /\ list[i].age > DocumentedInitTimeout]_vars

\* Every request is finished, with an answer or an exception: no path leaves
\* the handler holding or waiting for the mutex.
EveryRequestSettles ==
  \A h \in Handler : handler[h].pc = "rm" ~> handler[h].pc = "idle"

-----------------------------------------------------------------------------
(* The abstract table: an entry is in it once it is marked INIT. *)
FirstWith(ip) == SelectInSeq(list, LAMBDA e : e.ip = ip)

TableAge == [ip \in TxIp |->
               LET i == FirstWith(ip)
               IN IF i # 0 /\ Timed(list[i]) THEN list[i].age ELSE NULL]

Table == INSTANCE TxTable WITH
  Tx     <- TxIp,
  Limit  <- Limit.INIT,
  Steps  <- ClockSteps,
  Absent <- NULL,
  age    <- TableAge

\* Handlers, list and checker together are a table of transmitters that are
\* configured and evicted one by one, each after the limit the checker applies.
\* (That this limit is not the documented one is KeptForStorageBoot.)
ImplementsTable == Table!Spec
==============================================================================
