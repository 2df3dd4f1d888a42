---------------------------- MODULE SessionClient ----------------------------
(***************************************************************************)
(* CloudeinSessionClient: the asynchronous gRPC client of the session API. *)
(*                                                                         *)
(* The main thread runs the menu.  Every Do... function allocates a call   *)
(* struct, sets its deadline, lists the pair (tag, address) under the      *)
(* mutex, and starts the rpc with the address as the completion queue tag. *)
(* A second thread, the reaper (StartAsyncCompleteRpc), takes addresses    *)
(* from the queue, pops the tag the address was listed with, and through   *)
(* it chooses the struct to cast the address to, read and delete.  On 0    *)
(* the main thread shuts the queue down and joins the reaper, which drains *)
(* the queue and then sweeps what is left in the list, without the mutex.  *)
(*                                                                         *)
(* Addresses are reused as soon as they are deleted.  gRPC is external: it *)
(* answers a watched call at any time, and fails it when it has a deadline *)
(* and that passes.  Its queue promises no order between completions.      *)
(***************************************************************************)
EXTENDS TagList

CONSTANTS Addr,        \* heap cells a call struct can occupy
          UserApi,     \* the APIs the user calls
          NULL         \* a free heap cell, and the null pointer

\* The ten methods, also the ten enumerators of CLOUDEIN_GRPC_TAG.
Api == {"DoAllocate", "DoPrepare", "DoConnect", "DoRelease", "DoDisconnect",
        "DoTimeout", "DoPrepareFail", "DoConnectFail", "DoRebootFail",
        "DoAuthFail"}

\* AsyncClientCall_Do...: the api tells the ten struct types apart.
CallStruct == [api : Api, deadline : BOOLEAN,
               status : {"unset", "OK", "FAILED"}]

ASSUME ConstantsAssumption == /\ UserApi \subseteq Api
                              /\ NULL \notin Addr
                              /\ NULL \notin CallStruct

VARIABLES heap,        \* [Addr -> CallStruct or NULL]
          tags,        \* list_tag_idx_
          rpc,         \* gRPC's view of an address used as a queue tag
          shutdown,    \* cq_.Shutdown() was called
          main,        \* main thread: pc, and the call it is issuing
          reaper       \* reaper thread: pc, got_tag, grpc_tag

vars == <<heap, tags, rpc, shutdown, main, reaper>>

RpcState == {"none", "started", "watched", "queued"}
MainPc   == {"menu", "push", "start", "finish", "join", "exited"}
ReaperPc == {"next", "pop", "dispatch", "cleanup", "done"}

Live == {a \in Addr : heap[a] # NULL}
Drained == \A a \in Addr : rpc[a] \notin {"watched", "queued"}

Init == /\ heap = [a \in Addr |-> NULL]
        /\ tags = <<>>
        /\ rpc = [a \in Addr |-> "none"]
        /\ shutdown = FALSE
        /\ main = [pc |-> "menu", call |-> NULL]
        /\ reaper = [pc |-> "next", got |-> NULL, tag |-> NULL]

-----------------------------------------------------------------------------
(* The main thread. *)

\* Faulty variant: the deadline is forgotten.
NewCall_NoDeadline(api) ==
  [api |-> api, deadline |-> FALSE, status |-> "unset"]

\* new AsyncClientCall_Do..., with its deadline five seconds ahead.
NewCall(api) == [api |-> api, deadline |-> TRUE, status |-> "unset"]

Request(api) ==
  /\ main.pc = "menu"
  /\ \E a \in Addr \ Live :
       /\ heap' = [heap EXCEPT ![a] = NewCall(api)]
       /\ main' = [pc |-> "push", call |-> a]
  /\ UNCHANGED <<tags, rpc, shutdown, reaper>>

\* Faulty variant: the tag is not one of the enumerators.
PushedTag_Unset(api) == "Unset"

\* The enumerator each Do... function passes to tag_push.  DoConnectFail,
\* DoRebootFail and DoAuthFail pass DoPrepareFail_API.
PushedTag(api) ==
  IF api \in {"DoConnectFail", "DoRebootFail", "DoAuthFail"}
  THEN "DoPrepareFail"
  ELSE api

\* Faulty variant: a Do... function without its tag_push.
tag_push_Forgotten ==
  /\ main.pc = "push"
  /\ main' = [main EXCEPT !.pc = "start"]
  /\ UNCHANGED <<heap, tags, rpc, shutdown, reaper>>

tag_push ==
  /\ main.pc = "push"
  /\ tags' = TagPush(tags, PushedTag(heap[main.call].api), main.call)
  /\ main' = [main EXCEPT !.pc = "start"]
  /\ UNCHANGED <<heap, rpc, shutdown, reaper>>

StartCall ==
  /\ main.pc = "start"
  /\ rpc' = [rpc EXCEPT ![main.call] = "started"]
  /\ main' = [main EXCEPT !.pc = "finish"]
  /\ UNCHANGED <<heap, tags, shutdown, reaper>>

\* response_reader->Finish(&resp, &status, call): from here the completion of
\* the rpc is an event of the queue, and the main thread lets go of the call.
FinishCall ==
  /\ main.pc = "finish"
  /\ rpc' = [rpc EXCEPT ![main.call] = "watched"]
  /\ main' = [pc |-> "menu", call |-> NULL]
  /\ UNCHANGED <<heap, tags, shutdown, reaper>>

StopAsyncCompleteRpc ==
  /\ main.pc = "menu"
  /\ shutdown' = TRUE
  /\ main' = [main EXCEPT !.pc = "join"]
  /\ UNCHANGED <<heap, tags, rpc, reaper>>

\* t_TS_gRPC_process.join()
Join ==
  /\ main.pc = "join"
  /\ reaper.pc = "done"
  /\ main' = [main EXCEPT !.pc = "exited"]
  /\ UNCHANGED <<heap, tags, rpc, shutdown, reaper>>

-----------------------------------------------------------------------------
(* gRPC: the end of a watched rpc. *)

Complete(a, status) ==
  /\ rpc[a] = "watched"
  /\ rpc' = [rpc EXCEPT ![a] = "queued"]
  /\ heap' = [heap EXCEPT ![a].status = status]
  /\ UNCHANGED <<tags, shutdown, main, reaper>>

\* The peer answered, or the channel failed.
Answer(a) == \E status \in {"OK", "FAILED"} : Complete(a, status)

\* The deadline of the call passed: DEADLINE_EXCEEDED.
Expire(a) == heap[a] # NULL /\ heap[a].deadline /\ Complete(a, "FAILED")

-----------------------------------------------------------------------------
(* The reaper thread. *)

\* cq_.Next returns true.
NextEvent(a) ==
  /\ reaper.pc = "next"
  /\ rpc[a] = "queued"
  /\ rpc' = [rpc EXCEPT ![a] = "none"]
  /\ reaper' = [pc |-> "pop", got |-> a, tag |-> NULL]
  /\ UNCHANGED <<heap, tags, shutdown, main>>

\* Faulty variant: the loop ends at shutdown, whatever is pending.
NextEnd_Undrained ==
  /\ reaper.pc = "next"
  /\ shutdown
  /\ reaper' = [reaper EXCEPT !.pc = "cleanup"]
  /\ UNCHANGED <<heap, tags, rpc, shutdown, main>>

\* cq_.Next returns false: shut down, and nothing more will come.
NextEnd ==
  /\ reaper.pc = "next"
  /\ shutdown
  /\ Drained
  /\ reaper' = [reaper EXCEPT !.pc = "cleanup"]
  /\ UNCHANGED <<heap, tags, rpc, shutdown, main>>

\* Faulty variant: the pair is read and not erased.
tag_pop_Keeps ==
  /\ reaper.pc = "pop"
  /\ reaper' = [reaper EXCEPT !.pc = "dispatch",
                              !.tag = TagOf(tags, reaper.got)]
  /\ UNCHANGED <<heap, tags, rpc, shutdown, main>>

\* An address that is not listed would make it->first read end(): undefined.
\* PopFindsEntry shows that this step is never taken then.
tag_pop ==
  /\ reaper.pc = "pop"
  /\ reaper' = [reaper EXCEPT !.pc = "dispatch",
                              !.tag = TagOf(tags, reaper.got)]
  /\ tags' = TagErase(tags, reaper.got)
  /\ UNCHANGED <<heap, rpc, shutdown, main>>

\* Faulty variant: the switch has no case for one enumerator.
Handled_OneMissing == Api \ {"DoPrepareFail"}

\* The cases of the switch; each casts, reads the status and deletes.
\* "default: break" would leave the struct allocated.
Handled == Api

Dispatch ==
  /\ reaper.pc = "dispatch"
  /\ heap' = [heap EXCEPT ![reaper.got] =
                IF reaper.tag \in Handled THEN NULL ELSE @]
  /\ reaper' = [pc |-> "next", got |-> NULL, tag |-> NULL]
  /\ UNCHANGED <<tags, rpc, shutdown, main>>

\* The sweep after the loop: delete what is still listed, clear the list.
Cleanup ==
  /\ reaper.pc = "cleanup"
  /\ heap' = [a \in Addr |-> IF a \in Listed(tags) THEN NULL ELSE heap[a]]
  /\ tags' = <<>>
  /\ reaper' = [reaper EXCEPT !.pc = "done"]
  /\ UNCHANGED <<rpc, shutdown, main>>

-----------------------------------------------------------------------------
Exited == main.pc = "exited" /\ UNCHANGED vars

IssueStep == tag_push \/ StartCall \/ FinishCall
ReapStep == tag_pop \/ Dispatch \/ Cleanup

Next == \/ \E api \in UserApi : Request(api)
        \/ IssueStep
        \/ StopAsyncCompleteRpc
        \/ Join
        \/ \E a \in Addr : Answer(a) \/ Expire(a) \/ NextEvent(a)
        \/ NextEnd
        \/ ReapStep
        \/ Exited

\* The two threads are scheduled; gRPC ends a call whose deadline passed and
\* its queue hands out every event sometime.  The user may stop typing, and
\* the peer may never answer.
Fairness == /\ WF_vars(IssueStep)
            /\ WF_vars(Join)
            /\ WF_vars(ReapStep)
            /\ WF_vars(NextEnd)
            /\ \A a \in Addr : WF_vars(Expire(a)) /\ SF_vars(NextEvent(a))

Spec == Init /\ [][Next]_vars /\ Fairness

-----------------------------------------------------------------------------
\* Type correctness: the list, the heap, gRPC's view and both threads.
TypeOK ==
  /\ heap \in [Addr -> CallStruct \cup {NULL}]
  /\ tags \in Seq([tag : Api, obj : Addr])
  /\ rpc \in [Addr -> RpcState]
  /\ shutdown \in BOOLEAN
  /\ main \in [pc : MainPc, call : Addr \cup {NULL}]
  /\ reaper \in [pc : ReaperPc, got : Addr \cup {NULL}, tag : Api \cup {NULL}]

\* The calls that have been listed by tag_push and not yet popped.
Outstanding == {a \in Live : /\ ~(main.pc = "push" /\ main.call = a)
                             /\ ~(reaper.pc = "dispatch" /\ reaper.got = a)}

\* The list holds exactly the outstanding calls, each once and with the tag it
\* was pushed with, although two threads change it and addresses are reused.
\* A stale or doubled pair would give a later call at that address the wrong
\* cast (tag_push, tag_pop, delete call).
TagListExact ==
  /\ UniqueObj(tags)
  /\ Entries(tags) = {[tag |-> PushedTag(heap[a].api), obj |-> a]
                        : a \in Outstanding}

\* tag_pop always finds the address the queue handed out, so that it->first
\* never reads through end(): tag_push comes before the rpc can complete.
PopFindsEntry == reaper.pc = "pop" => reaper.got \in Listed(tags)

\* No thread, no rpc and no queued event refers to a deleted call struct: the
\* reaper's delete is the last use of the address.
NoDanglingCall ==
  /\ \A a \in Addr : rpc[a] # "none" => a \in Live
  /\ main.pc \in {"push", "start", "finish"} => main.call \in Live
  /\ reaper.pc \in {"pop", "dispatch"} => reaper.got \in Live

\* The sweep after the loop, which takes no mutex and deletes through void*,
\* never has anything to delete, and runs only while the main thread waits.
NothingLeftToSweep ==
  reaper.pc = "cleanup" => tags = <<>> /\ main.pc = "join"

\* When the program ends every call struct was deleted.
NoLeak == main.pc = "exited" => Live = {}

-----------------------------------------------------------------------------
(* The abstract ledger: a struct in the heap is an issued call, answered   *)
(* once gRPC has written its status, and reaped when it is deleted.        *)
LedgerState == [a \in Addr |-> IF heap[a] = NULL THEN "idle"
                               ELSE IF heap[a].status = "unset" THEN "issued"
                               ELSE "answered"]
LedgerPhase == CASE main.pc = "exited" -> "closed"
                 [] main.pc = "join"   -> "closing"
                 [] OTHER              -> "open"

Ledger == INSTANCE CallLedger WITH
  Call  <- Addr,
  state <- LedgerState,
  phase <- LedgerPhase

\* The client keeps the promise of CallLedger, fairness included: every call is
\* answered, by the deadline its Do... function sets if by nothing else, and
\* reaped once, and StopAsyncCompleteRpc and the join return, with calls
\* outstanding or not.
ImplementsLedger == Ledger!Spec
==============================================================================
