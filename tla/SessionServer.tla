---------------------------- MODULE SessionServer ----------------------------
(***************************************************************************)
(* ServerImpl: the asynchronous gRPC server of the session API.            *)
(*                                                                         *)
(* One thread.  It first registers one acceptor object per method, then    *)
(* polls the completion queue.  The queue's tag is the object's address;   *)
(* list_tag_idx_ tells which class to cast it to.  An object first waits   *)
(* for a call (status PROCESS); when one is matched it registers a fresh   *)
(* acceptor of its class, starts its reply and becomes FINISH; when the    *)
(* reply is on the wire it erases its pair from the list and deletes       *)
(* itself.  CREATE is over before the constructor returns.                 *)
(*                                                                         *)
(* gRPC and the peers are external: calls arrive for any method, are       *)
(* rejected when the service does not serve the method, wait until an      *)
(* acceptor is free, and may die (their deadline, a cancellation, a lost   *)
(* connection).  A reply to a dead call completes with ok = false.         *)
(***************************************************************************)
EXTENDS TagList

CONSTANTS Registrations,  \* the methods HandleRpcs registers, in its order
          Addr,        \* heap cells a ...Data object can occupy
          Rpc,         \* places for calls of the peers; they are reused
          CallApi,     \* the methods peers call, served or not
          NULL         \* a free heap cell, and no call

\* The methods of the service.  Each has a class of its own, AllocateData,
\* PrepareData, ConnectData, ReleaseData, all four with the same Proceed.
Served == ToSet(Registrations)

CallData == [method : Served, status : {"PROCESS", "FINISH"},
             call : Rpc \cup {NULL}]

ASSUME ConstantsAssumption == /\ Registrations \in Seq(STRING) \ {<<>>}
                              /\ IsInjective(Registrations)
                              /\ NULL \notin Rpc
                              /\ NULL \notin Addr
                              /\ NULL \notin CallData

VARIABLES heap,        \* [Addr -> CallData or NULL]
          tags,        \* list_tag_idx_
          op,          \* the gRPC operation started with an address as tag
          call,        \* [Rpc -> state and method of the peer's call]
          thread       \* pc of the server's thread, registrations done

vars == <<heap, tags, op, call, thread>>

\* requested: Request...API is pending; matched: its event is queued.
\* writing: responder_.Finish is pending; written, failed: its event, with
\* ok = true and ok = false.
OpState == {"none", "requested", "matched", "writing", "written", "failed"}
CallState == {"absent", "waiting", "serving", "replied", "rejected", "dead"}

Live == {a \in Addr : heap[a] # NULL}
Registered == {Registrations[i] : i \in 1 .. thread.registered}

\* What BuildAndStart leaves behind.  When the port is taken it returns null,
\* Run goes on regardless, and the process is down: the first Request...API
\* goes through a service without a server.
Init == /\ heap = [a \in Addr |-> NULL]
        /\ tags = <<>>
        /\ op = [a \in Addr |-> "none"]
        /\ call = [r \in Rpc |-> [state |-> "absent", method |-> NULL]]
        /\ thread \in [pc : {"register", "down"}, registered : {0}]

-----------------------------------------------------------------------------
(* The server's thread. *)

\* Faulty variant: the constructor leaves the status at CREATE.
Acceptor_Create(method) ==
  [method |-> method, status |-> "CREATE", call |-> NULL]

\* new ...Data(...): the constructor runs Proceed in CREATE, which becomes
\* PROCESS and asks gRPC for one call of the class's method.
Acceptor(method) == [method |-> method, status |-> "PROCESS", call |-> NULL]

Register ==
  /\ thread.pc = "register"
  /\ LET n == thread.registered + 1
         m == Registrations[n]
     IN /\ \E a \in Addr \ Live :
             /\ heap' = [heap EXCEPT ![a] = Acceptor(m)]
             /\ op' = [op EXCEPT ![a] = "requested"]
             /\ tags' = TagPush(tags, m, a)
        /\ thread' = [pc |-> IF n = Len(Registrations) THEN "poll"
                             ELSE "register",
                      registered |-> n]
  /\ UNCHANGED call

\* Faulty variant: no next acceptor is registered.
Process_NoNext(a, m) ==
  /\ heap[a].status = "PROCESS"
  /\ heap' = [heap EXCEPT ![a].status = "FINISH"]
  /\ op' = [op EXCEPT ![a] = "writing"]
  /\ UNCHANGED <<tags, call, thread>>

\* Faulty variant: the reply is not started.
Process_NoReply(a, m) ==
  /\ heap[a].status = "PROCESS"
  /\ \E b \in Addr \ Live :
       /\ heap' = [heap EXCEPT ![b] = Acceptor(m), ![a].status = "FINISH"]
       /\ op' = [op EXCEPT ![b] = "requested", ![a] = "none"]
       /\ tags' = TagPush(tags, m, b)
  /\ UNCHANGED <<call, thread>>

\* Faulty variant: the next acceptor is a copy of this object, context too.
Process_Copies(a, m) ==
  /\ heap[a].status = "PROCESS"
  /\ \E b \in Addr \ Live :
       /\ heap' = [heap EXCEPT ![b] = heap[a], ![a].status = "FINISH"]
       /\ op' = [op EXCEPT ![b] = "requested", ![a] = "writing"]
       /\ tags' = TagPush(tags, m, b)
  /\ UNCHANGED <<call, thread>>

\* Faulty variant: the status is not set to FINISH.
Process_NoFinish(a, m) ==
  /\ heap[a].status = "PROCESS"
  /\ \E b \in Addr \ Live :
       /\ heap' = [heap EXCEPT ![b] = Acceptor(m)]
       /\ op' = [op EXCEPT ![b] = "requested", ![a] = "writing"]
       /\ tags' = TagPush(tags, m, b)
  /\ UNCHANGED <<call, thread>>

\* Proceed of a PROCESS object of class m: register the next acceptor, list
\* it, become FINISH, start the reply.
Process(a, m) ==
  /\ heap[a].status = "PROCESS"
  /\ \E b \in Addr \ Live :
       /\ heap' = [heap EXCEPT ![b] = Acceptor(m), ![a].status = "FINISH"]
       /\ op' = [op EXCEPT ![b] = "requested", ![a] = "writing"]
       /\ tags' = TagPush(tags, m, b)
  /\ UNCHANGED <<call, thread>>

\* Faulty variant: the object is deleted and stays in the list.
FinishAndDelete_Listed(a) ==
  /\ heap[a].status = "FINISH"
  /\ heap' = [heap EXCEPT ![a] = NULL]
  /\ op' = [op EXCEPT ![a] = "none"]
  /\ UNCHANGED <<tags, call, thread>>

\* Proceed of a FINISH object: list_erase_func(this); delete this.
FinishAndDelete(a) ==
  /\ heap[a].status = "FINISH"
  /\ tags' = TagErase(tags, a)
  /\ heap' = [heap EXCEPT ![a] = NULL]
  /\ op' = [op EXCEPT ![a] = "none"]
  /\ UNCHANGED <<call, thread>>

\* One turn of the loop with ok = true: tag_pop reads the tag, and Proceed of
\* the class it names runs.
HandleEvent(a) ==
  /\ thread.pc = "poll"
  /\ op[a] \in {"matched", "written"}
  /\ Process(a, TagOf(tags, a)) \/ FinishAndDelete(a)

\* One turn of the loop with ok = false: GPR_ASSERT(ok) aborts the process.
Abort(a) ==
  /\ thread.pc = "poll"
  /\ op[a] = "failed"
  /\ thread' = [thread EXCEPT !.pc = "aborted"]
  /\ UNCHANGED <<heap, tags, op, call>>

-----------------------------------------------------------------------------
(* gRPC and the peers. *)

Running == thread.pc \in {"register", "poll"}

\* A method the service does not serve is answered UNIMPLEMENTED by gRPC.
Arrive(r, m) ==
  /\ Running
  /\ call[r].state = "absent"
  /\ call' = [call EXCEPT ![r] =
                [state |-> IF m \in Served THEN "waiting" ELSE "rejected",
                 method |-> m]]
  /\ UNCHANGED <<heap, tags, op, thread>>

Match(r, a) ==
  /\ Running
  /\ call[r].state = "waiting"
  /\ op[a] = "requested"
  /\ heap[a].method = call[r].method
  /\ call' = [call EXCEPT ![r].state = "serving"]
  /\ heap' = [heap EXCEPT ![a].call = r]
  /\ op' = [op EXCEPT ![a] = "matched"]
  /\ UNCHANGED <<tags, thread>>

\* The reply is written to the wire, or the call is already dead.
WriteDone(a) ==
  /\ Running
  /\ op[a] = "writing"
  /\ LET r == heap[a].call
         alive == call[r].state = "serving"
     IN /\ op' = [op EXCEPT ![a] = IF alive THEN "written" ELSE "failed"]
        /\ call' = IF alive THEN [call EXCEPT ![r].state = "replied"] ELSE call
  /\ UNCHANGED <<heap, tags, thread>>

\* The peer gives up a call; one that was still waiting is never matched.
Die(r) ==
  /\ Running
  /\ call[r].state \in {"waiting", "serving"}
  /\ call' = [call EXCEPT ![r].state = "dead"]
  /\ UNCHANGED <<heap, tags, op, thread>>

\* The place of an ended call is free again once no object refers to it.
Forget(r) ==
  /\ call[r].state \in {"replied", "rejected", "dead"}
  /\ \A a \in Live : heap[a].call # r
  /\ call' = [call EXCEPT ![r] = [state |-> "absent", method |-> NULL]]
  /\ UNCHANGED <<heap, tags, op, thread>>

-----------------------------------------------------------------------------
Aborted == thread.pc \in {"aborted", "down"} /\ UNCHANGED vars

Next == \/ Register
        \/ \E a \in Addr : HandleEvent(a) \/ Abort(a) \/ WriteDone(a)
        \/ \E r \in Rpc : \/ \E m \in CallApi : Arrive(r, m)
                          \/ \E a \in Addr : Match(r, a)
                          \/ Die(r)
                          \/ Forget(r)
        \/ Aborted

\* The operations of the object that serves call r.
EventFor(r) == \E a \in Live : heap[a].call = r /\ (HandleEvent(a) \/ Abort(a))
WriteFor(r) == \E a \in Live : heap[a].call = r /\ WriteDone(a)

\* The server's thread is scheduled and its queue hands out every event
\* sometime (each event belongs to one call); gRPC ends the writes it started
\* and matches a waiting call when acceptors of its method keep coming.
Fairness == /\ WF_vars(Register)
            /\ \A r \in Rpc : /\ SF_vars(EventFor(r))
                              /\ WF_vars(WriteFor(r))
                              /\ SF_vars(\E a \in Addr : Match(r, a))

Spec == Init /\ [][Next]_vars /\ Fairness

-----------------------------------------------------------------------------
\* Type correctness; no object is ever left in the status CREATE.
TypeOK ==
  /\ heap \in [Addr -> CallData \cup {NULL}]
  /\ tags \in Seq([tag : Served, obj : Addr])
  /\ op \in [Addr -> OpState]
  /\ call \in [Rpc -> [state : CallState, method : CallApi \cup {NULL}]]
  /\ thread \in [pc : {"register", "poll", "aborted", "down"},
                 registered : 0 .. Len(Registrations)]

\* The list holds exactly the live objects, each once and with the tag of its
\* class, although it is searched by an address that is reused: tag_pop finds
\* every address of the queue and every static_cast is to the right class.
TagListExact ==
  /\ UniqueObj(tags)
  /\ Entries(tags) = {[tag |-> heap[a].method, obj |-> a] : a \in Live}

\* A registered method has exactly one object that waits for its next call or
\* was just matched with it: no method stops being served, none is served by
\* a growing number of acceptors.
OneAcceptorPerMethod ==
  \A m \in Served :
    Cardinality({a \in Live : heap[a].method = m /\ heap[a].status = "PROCESS"})
      = IF m \in Registered THEN 1 ELSE 0

\* Every live object has exactly one operation under way, of the kind its
\* status expects next, and no operation refers to a deleted object: Proceed
\* never takes the wrong branch, no object is lost, none is used after delete.
OneOperationPerObject ==
  \A a \in Addr :
    IF a \in Live
    THEN op[a] \in IF heap[a].status = "PROCESS" THEN {"requested", "matched"}
                   ELSE {"writing", "written", "failed"}
    ELSE op[a] = "none"

\* The calls in service and the objects serving them correspond one to one
\* and agree on the method: no call is answered by two objects or by an
\* object of another method.
OneObjectPerCall ==
  \A r \in Rpc :
    LET serving == {a \in Live : heap[a].call = r} IN
    /\ Cardinality(serving) <= 1
    /\ call[r].state = "serving" => serving # {}
    /\ \A a \in serving : heap[a].method = call[r].method

\* Every call of a served method is answered, calls that compete for one
\* acceptor included, unless the call dies first or the server is aborted.
EveryCallAnswered ==
  \A r \in Rpc : call[r].state = "waiting" ~>
                   call[r].state \in {"replied", "dead"} \/ ~Running

\* GPR_ASSERT(ok) never fires.
AssertOkHolds == thread.pc # "aborted"
==============================================================================
