------------------------ MODULE SessionClient_proofs ------------------------
(***************************************************************************)
(* The safety invariants of SessionClient for every set of addresses and   *)
(* every set of APIs the user calls.  None of them is inductive alone: the *)
(* list is exact because the two threads never hold the same call and      *)
(* every live call is in the hands of exactly one of main thread, gRPC and *)
(* reaper.  IInv says so.                                                  *)
(***************************************************************************)
EXTENDS SessionClient, TagList_proofs

\* The main thread holds a live call exactly while it issues one.
MainHolds ==
  /\ main.pc \in {"push", "start", "finish"} <=> main.call # NULL
  /\ main.call # NULL => main.call \in Live

\* The reaper holds a live call, never the main thread's, exactly between
\* taking it from the queue and deleting it.
ReaperHolds ==
  /\ reaper.pc \in {"pop", "dispatch"} <=> reaper.got # NULL
  /\ reaper.got # NULL => reaper.got \in Live /\ reaper.got # main.call
  /\ reaper.pc = "dispatch" => reaper.tag \in Api

\* gRPC holds every other live call.
GrpcHolds ==
  \A a \in Addr :
    /\ a \notin Live => rpc[a] = "none"
    /\ a \in Live =>
         /\ rpc[a] = "none" <=> \/ main.call = a /\ main.pc \in {"push", "start"}
                                \/ reaper.got = a
         /\ rpc[a] = "started" <=> main.call = a /\ main.pc = "finish"

\* After the reaper's loop there is no call left.
DownInOrder ==
  /\ shutdown <=> main.pc \in {"join", "exited"}
  /\ reaper.pc \in {"cleanup", "done"} => shutdown /\ Live = {}
  /\ main.pc = "exited" => reaper.pc = "done"

IInv == /\ TypeOK
        /\ MainHolds
        /\ ReaperHolds
        /\ GrpcHolds
        /\ DownInOrder
        /\ TagListExact

ControlInv == MainHolds /\ ReaperHolds /\ GrpcHolds /\ DownInOrder

Pair == [tag : Api, obj : Addr]

-----------------------------------------------------------------------------
\* An empty list is exact for no outstanding call.
LEMMA EmptyList == /\ <<>> \in Seq(Pair)
                   /\ UniqueObj(<<>>)
                   /\ Entries(<<>>) = {}
BY DEF UniqueObj, Entries, ToSet

\* The initial state satisfies the inductive invariant.
LEMMA InitIInv == Init => IInv
<1> SUFFICES ASSUME Init PROVE IInv
  OBVIOUS
<1> USE ConstantsAssumption DEF Init
<1>1. TypeOK
  BY EmptyList DEF TypeOK, RpcState, MainPc, ReaperPc, Pair
<1>2. Live = {}
  BY DEF Live
<1>3. ControlInv
  BY <1>2 DEF ControlInv, MainHolds, ReaperHolds, GrpcHolds, DownInOrder
<1>4. TagListExact
  BY <1>2, EmptyList DEF TagListExact, Outstanding
<1> QED
  BY <1>1, <1>3, <1>4 DEF IInv, ControlInv

\* A listed address is a live call in nobody's hands but gRPC's, or the
\* main thread's or the reaper's on the listed part of its path.
LEMMA ListedOutstanding ==
  ASSUME IInv
  PROVE  Listed(tags) = Outstanding
<1> DEFINE pair(a) == [tag |-> PushedTag(heap[a].api), obj |-> a]
<1>1. ToSet(tags) = {pair(a) : a \in Outstanding}
  BY DEF IInv, TagListExact, Entries
<1>2. Listed(tags) = {e.obj : e \in {pair(a) : a \in Outstanding}}
  BY <1>1 DEF Listed
<1>3. \A a \in Outstanding : pair(a).obj = a
  OBVIOUS
<1> HIDE DEF pair
<1> QED
  BY <1>2, <1>3

\* An address held by neither thread in its unlisted steps keeps the list
\* exact: the list depends only on the outstanding calls and their api.
LEMMA ListUntouched ==
  ASSUME TagListExact, tags' = tags, Outstanding' = Outstanding,
         \A a \in Outstanding : heap'[a].api = heap[a].api
  PROVE  TagListExact'
<1>1. {[tag |-> PushedTag(heap'[a].api), obj |-> a] : a \in Outstanding'}
        = {[tag |-> PushedTag(heap[a].api), obj |-> a] : a \in Outstanding}
  OBVIOUS
<1> QED
  BY <1>1 DEF TagListExact

\* Every step of every thread and of gRPC preserves the inductive invariant.
LEMMA NextIInv == IInv /\ [Next]_vars => IInv'
<1> SUFFICES ASSUME IInv, [Next]_vars PROVE IInv'
  OBVIOUS
<1> USE ConstantsAssumption
<1>t. TypeOK /\ TagListExact /\ ControlInv
  BY DEF IInv, ControlInv
<1>1. ASSUME NEW api \in UserApi, Request(api) PROVE IInv'
  <2>1. PICK a \in Addr \ Live :
          /\ heap' = [heap EXCEPT ![a] = NewCall(api)]
          /\ main' = [pc |-> "push", call |-> a]
    BY <1>1 DEF Request
  <2>2. NewCall(api) \in CallStruct
    BY DEF NewCall, CallStruct
  <2>3. main.pc = "menu" /\ UNCHANGED <<tags, rpc, shutdown, reaper>>
    BY <1>1 DEF Request
  <2>4. TypeOK'
    BY <1>t, <2>1, <2>2, <2>3 DEF TypeOK, MainPc
  <2>5. Live' = Live \cup {a}
    BY <1>t, <2>1, <2>2 DEF TypeOK, Live
  <2>6. ControlInv'
    BY <1>t, <2>1, <2>3, <2>5
       DEF TypeOK, ControlInv, MainHolds, ReaperHolds, GrpcHolds, DownInOrder
  <2>7. Outstanding' = Outstanding
    BY <1>t, <2>1, <2>3, <2>5
       DEF TypeOK, ControlInv, MainHolds, ReaperHolds, Outstanding
  <2>8. \A b \in Outstanding : heap'[b].api = heap[b].api
    BY <1>t, <2>1 DEF TypeOK, Outstanding, Live
  <2> QED
    BY <1>t, <2>3, <2>4, <2>6, <2>7, <2>8, ListUntouched DEF IInv, ControlInv
<1>2. CASE tag_push
  <2> USE <1>2 DEF tag_push
  <2> DEFINE c == main.call
             t == PushedTag(heap[c].api)
  <2>1. c \in Addr /\ c \in Live /\ heap[c] \in CallStruct
    BY <1>t DEF TypeOK, ControlInv, MainHolds, Live
  <2>2. [tag |-> t, obj |-> c] \in Pair
    BY <2>1 DEF Pair, PushedTag, CallStruct, Api
  <2>3. c \notin Listed(tags)
    BY ListedOutstanding DEF Outstanding
  <2>4. /\ tags' \in Seq(Pair)
        /\ UniqueObj(tags')
        /\ Entries(tags') = Entries(tags) \cup {[tag |-> t, obj |-> c]}
    <3>1. tags \in Seq(Pair) /\ UniqueObj(tags)
      BY <1>t DEF TypeOK, Pair, TagListExact
    <3> QED
      BY <2>2, <2>3, <3>1, TagPushEntries
  <2>5. TypeOK'
    BY <1>t, <2>4 DEF TypeOK, Pair, MainPc
  <2>6. Live' = Live
    BY DEF Live
  <2>7. ControlInv'
    BY <1>t, <2>1, <2>6
       DEF TypeOK, ControlInv, MainHolds, ReaperHolds, GrpcHolds, DownInOrder
  <2>8. Outstanding' = Outstanding \cup {c}
    BY <1>t, <2>1, <2>6
       DEF TypeOK, ControlInv, MainHolds, ReaperHolds, Outstanding
  <2>9. TagListExact'
    <3>1. {[tag |-> PushedTag(heap'[a].api), obj |-> a] : a \in Outstanding'}
            = {[tag |-> PushedTag(heap[a].api), obj |-> a] : a \in Outstanding}
                \cup {[tag |-> t, obj |-> c]}
      BY <2>8
    <3> QED
      BY <1>t, <2>4, <3>1 DEF TagListExact
  <2> QED
    BY <2>5, <2>7, <2>9 DEF IInv, ControlInv
<1>3. CASE StartCall
  <2> USE <1>3 DEF StartCall
  <2>1. TypeOK'
    BY <1>t DEF TypeOK, RpcState, MainPc
  <2>2. Live' = Live
    BY DEF Live
  <2>3. ControlInv'
    BY <1>t, <2>2
       DEF TypeOK, ControlInv, MainHolds, ReaperHolds, GrpcHolds, DownInOrder
  <2>4. Outstanding' = Outstanding
    BY <1>t, <2>2 DEF TypeOK, Outstanding
  <2> QED
    BY <1>t, <2>1, <2>3, <2>4, ListUntouched DEF IInv, ControlInv
<1>4. CASE FinishCall
  <2> USE <1>4 DEF FinishCall
  <2>1. TypeOK'
    BY <1>t DEF TypeOK, RpcState, MainPc
  <2>2. Live' = Live
    BY DEF Live
  <2>3. ControlInv'
    BY <1>t, <2>2
       DEF TypeOK, ControlInv, MainHolds, ReaperHolds, GrpcHolds, DownInOrder
  <2>4. Outstanding' = Outstanding
    BY <1>t, <2>2 DEF TypeOK, Outstanding
  <2> QED
    BY <1>t, <2>1, <2>3, <2>4, ListUntouched DEF IInv, ControlInv
<1>5. CASE StopAsyncCompleteRpc
  <2> USE <1>5 DEF StopAsyncCompleteRpc
  <2>1. TypeOK'
    BY <1>t DEF TypeOK, MainPc
  <2>2. Live' = Live
    BY DEF Live
  <2>3. ControlInv'
    BY <1>t, <2>2
       DEF TypeOK, ControlInv, MainHolds, ReaperHolds, GrpcHolds, DownInOrder
  <2>4. Outstanding' = Outstanding
    BY <1>t, <2>2 DEF TypeOK, Outstanding
  <2> QED
    BY <1>t, <2>1, <2>3, <2>4, ListUntouched DEF IInv, ControlInv
<1>6. CASE Join
  <2> USE <1>6 DEF Join
  <2>1. TypeOK'
    BY <1>t DEF TypeOK, MainPc
  <2>2. Live' = Live
    BY DEF Live
  <2>3. ControlInv'
    BY <1>t, <2>2
       DEF TypeOK, ControlInv, MainHolds, ReaperHolds, GrpcHolds, DownInOrder
  <2>4. Outstanding' = Outstanding
    BY <1>t, <2>2 DEF TypeOK, Outstanding
  <2> QED
    BY <1>t, <2>1, <2>3, <2>4, ListUntouched DEF IInv, ControlInv
<1>7. ASSUME NEW a \in Addr, Answer(a) \/ Expire(a) PROVE IInv'
  <2>1. PICK status \in {"OK", "FAILED"} : Complete(a, status)
    BY <1>7 DEF Answer, Expire
  <2> USE <2>1 DEF Complete
  <2>2. a \in Live /\ heap[a] \in CallStruct
    BY <1>t DEF TypeOK, ControlInv, GrpcHolds, Live
  <2>3. heap' = [heap EXCEPT ![a] = [heap[a] EXCEPT !.status = status]]
    OBVIOUS
  <2>4. /\ [heap[a] EXCEPT !.status = status] \in CallStruct
        /\ [heap[a] EXCEPT !.status = status].api = heap[a].api
    BY <2>2 DEF CallStruct
  <2>5. TypeOK'
    BY <1>t, <2>3, <2>4 DEF TypeOK, RpcState
  <2>6. Live' = Live
    BY <1>t, <2>2, <2>3, <2>4 DEF TypeOK, Live
  <2>7. ControlInv'
    BY <1>t, <2>2, <2>6
       DEF TypeOK, ControlInv, MainHolds, ReaperHolds, GrpcHolds, DownInOrder
  <2>8. Outstanding' = Outstanding
    BY <2>6 DEF Outstanding
  <2>9. \A b \in Outstanding : heap'[b].api = heap[b].api
    BY <1>t, <2>3, <2>4 DEF TypeOK, Outstanding, Live
  <2> QED
    BY <1>t, <2>5, <2>7, <2>8, <2>9, ListUntouched DEF IInv, ControlInv
<1>8. ASSUME NEW a \in Addr, NextEvent(a) PROVE IInv'
  <2> USE <1>8 DEF NextEvent
  <2>1. TypeOK'
    BY <1>t DEF TypeOK, RpcState, ReaperPc
  <2>2. Live' = Live
    BY DEF Live
  <2>3. a \in Live /\ a # main.call /\ a # NULL
    BY <1>t DEF TypeOK, ControlInv, MainHolds, GrpcHolds
  <2>4. ControlInv'
    BY <1>t, <2>2, <2>3
       DEF TypeOK, ControlInv, MainHolds, ReaperHolds, GrpcHolds, DownInOrder
  <2>5. Outstanding' = Outstanding
    BY <1>t, <2>2 DEF TypeOK, Outstanding
  <2> QED
    BY <1>t, <2>1, <2>4, <2>5, ListUntouched DEF IInv, ControlInv
<1>9. CASE NextEnd
  <2> USE <1>9 DEF NextEnd
  <2>1. TypeOK'
    BY <1>t DEF TypeOK, ReaperPc
  <2>2. Live' = Live
    BY DEF Live
  <2>3. Live = {}
    <3> SUFFICES ASSUME NEW a \in Live PROVE FALSE
      OBVIOUS
    <3>1. a \in Addr /\ rpc[a] \in {"none", "started"}
      BY <1>t DEF TypeOK, RpcState, Drained, Live
    <3>2. main.call = NULL /\ reaper.got = NULL
      BY <1>t DEF ControlInv, DownInOrder, MainHolds, ReaperHolds
    <3> QED
      BY <1>t, <3>1, <3>2 DEF ControlInv, GrpcHolds
  <2>4. ControlInv'
    BY <1>t, <2>2, <2>3
       DEF TypeOK, ControlInv, MainHolds, ReaperHolds, GrpcHolds, DownInOrder
  <2>5. Outstanding' = Outstanding
    BY <1>t, <2>2 DEF TypeOK, Outstanding
  <2> QED
    BY <1>t, <2>1, <2>4, <2>5, ListUntouched DEF IInv, ControlInv
<1>10. CASE tag_pop
  <2> USE <1>10 DEF tag_pop
  <2> DEFINE g == reaper.got
             e == [tag |-> PushedTag(heap[g].api), obj |-> g]
  <2>1. g \in Outstanding
    BY <1>t DEF TypeOK, ControlInv, ReaperHolds, Outstanding, Live
  <2>2. e \in Entries(tags) /\ e.obj = g /\ e.tag \in Api
    BY <1>t, <2>1
       DEF TypeOK, TagListExact, PushedTag, Api, CallStruct, Outstanding, Live
  <2>3. tags \in Seq(Pair) /\ UniqueObj(tags)
    BY <1>t DEF TypeOK, Pair, TagListExact
  <2>4. /\ TagErase(tags, e.obj) \in Seq(Pair)
        /\ UniqueObj(TagErase(tags, e.obj))
        /\ Entries(TagErase(tags, e.obj)) = Entries(tags) \ {e}
    BY <2>2, <2>3, TagEraseEntries
  <2>5. TagOf(tags, e.obj) = e.tag
    BY <2>2, <2>3, TagOfEntry
  <2>6. /\ tags' \in Seq(Pair)
        /\ UniqueObj(tags')
        /\ Entries(tags') = Entries(tags) \ {e}
        /\ reaper' = [reaper EXCEPT !.pc = "dispatch", !.tag = e.tag]
    BY <2>2, <2>4, <2>5
  <2>7. TypeOK'
    <3>1. tags' \in Seq([tag : Api, obj : Addr])
      BY <2>6 DEF Pair
    <3>2. reaper' \in [pc : ReaperPc, got : Addr \cup {NULL},
                       tag : Api \cup {NULL}]
      <4>1. reaper \in [pc : ReaperPc, got : Addr \cup {NULL},
                        tag : Api \cup {NULL}]
        BY <1>t DEF TypeOK
      <4>2. "dispatch" \in ReaperPc
        BY DEF ReaperPc
      <4> HIDE DEF e
      <4> QED
        BY ONLY <2>2, <2>6, <4>1, <4>2
    <3>3. UNCHANGED <<heap, rpc, shutdown, main>>
      OBVIOUS
    <3> QED
      BY ONLY <1>t, <3>1, <3>2, <3>3 DEF TypeOK
  <2>8. Live' = Live
    BY DEF Live
  <2>9. ControlInv'
    <3>1. /\ reaper.pc = "pop" /\ reaper'.pc = "dispatch"
          /\ reaper'.got = reaper.got /\ reaper'.tag \in Api
      BY <1>t, <2>2, <2>6 DEF TypeOK
    <3>2. UNCHANGED <<heap, rpc, shutdown, main>>
      OBVIOUS
    <3> HIDE <1>10
    <3>3. MainHolds' /\ ReaperHolds'
      BY <1>t, <2>8, <3>1, <3>2 DEF ControlInv, MainHolds, ReaperHolds
    <3>4. GrpcHolds' /\ DownInOrder'
      BY <1>t, <2>8, <3>1, <3>2 DEF ControlInv, GrpcHolds, DownInOrder
    <3> QED
      BY <3>3, <3>4 DEF ControlInv
  <2>10. Outstanding' = Outstanding \ {g}
    BY <1>t, <2>1, <2>6, <2>8
       DEF TypeOK, ControlInv, ReaperHolds, Outstanding
  <2>11. TagListExact'
    <3>1. {[tag |-> PushedTag(heap'[a].api), obj |-> a] : a \in Outstanding'}
            = {[tag |-> PushedTag(heap[a].api), obj |-> a] : a \in Outstanding}
                \ {e}
      BY <2>10
    <3> QED
      BY <1>t, <2>6, <3>1 DEF TagListExact
  <2> QED
    BY <2>7, <2>9, <2>11 DEF IInv, ControlInv
<1>11. CASE Dispatch
  <2> USE <1>11 DEF Dispatch
  <2> DEFINE g == reaper.got
  <2>1. g \in Addr /\ reaper.tag \in Handled
    BY <1>t DEF TypeOK, ControlInv, ReaperHolds, Handled
  <2>2. heap' = [heap EXCEPT ![g] = NULL]
    BY <2>1
  <2>3. TypeOK'
    BY <1>t, <2>2 DEF TypeOK, ReaperPc
  <2>4. Live' = Live \ {g}
    BY <1>t, <2>1, <2>2 DEF TypeOK, Live
  <2>5. ControlInv'
    BY <1>t, <2>1, <2>4
       DEF TypeOK, ControlInv, MainHolds, ReaperHolds, GrpcHolds, DownInOrder
  <2>6. Outstanding' = Outstanding
    BY <1>t, <2>1, <2>4
       DEF TypeOK, ControlInv, ReaperHolds, Outstanding
  <2>7. \A b \in Outstanding : heap'[b].api = heap[b].api
    BY <1>t, <2>2 DEF TypeOK, Outstanding
  <2> QED
    BY <1>t, <2>3, <2>5, <2>6, <2>7, ListUntouched DEF IInv, ControlInv
<1>12. CASE Cleanup
  <2> USE <1>12 DEF Cleanup
  <2>1. Live = {} /\ shutdown
    BY <1>t DEF ControlInv, DownInOrder
  <2>2. heap' = [a \in Addr |-> NULL]
    BY <1>t, <2>1 DEF TypeOK, Live
  <2>3. Live' = {}
    BY <2>2 DEF Live
  <2>4. TypeOK'
    BY <1>t, <2>2, EmptyList DEF TypeOK, Pair, ReaperPc
  <2>5. ControlInv'
    BY <1>t, <2>1, <2>3
       DEF TypeOK, ControlInv, MainHolds, ReaperHolds, GrpcHolds, DownInOrder
  <2>6. TagListExact'
    BY <2>3, EmptyList DEF TagListExact, Outstanding
  <2> QED
    BY <2>4, <2>5, <2>6 DEF IInv, ControlInv
<1>13. CASE UNCHANGED vars
  <2> USE <1>13 DEF vars
  <2>1. TypeOK'
    BY <1>t DEF TypeOK
  <2>2. Live' = Live
    BY DEF Live
  <2>3. ControlInv'
    BY <1>t, <2>2
       DEF ControlInv, MainHolds, ReaperHolds, GrpcHolds, DownInOrder
  <2>4. Outstanding' = Outstanding
    BY <2>2 DEF Outstanding
  <2> QED
    BY <1>t, <2>1, <2>3, <2>4, ListUntouched DEF IInv, ControlInv
<1> QED
  BY <1>1, <1>2, <1>3, <1>4, <1>5, <1>6, <1>7, <1>8, <1>9, <1>10, <1>11,
     <1>12, <1>13 DEF Next, IssueStep, ReapStep, Exited

-----------------------------------------------------------------------------
\* The inductive invariant holds in every reachable state of the client.
THEOREM ClientInductive == Spec => []IInv
BY InitIInv, NextIInv, PTL DEF Spec

\* Type correctness, for every set of addresses and user APIs.
THEOREM ClientTypeCorrect == Spec => []TypeOK
<1>1. IInv => TypeOK
  BY DEF IInv
<1> QED
  BY <1>1, ClientInductive, PTL

\* The tag list is exact in every reachable state: tag_push and tag_pop of the
\* two threads never leave a stale, doubled or missing pair.
THEOREM ClientTagListExact == Spec => []TagListExact
<1>1. IInv => TagListExact
  BY DEF IInv
<1> QED
  BY <1>1, ClientInductive, PTL

\* tag_pop never reads through end().
THEOREM ClientPopFindsEntry == Spec => []PopFindsEntry
<1>1. IInv => PopFindsEntry
  <2> SUFFICES ASSUME IInv, reaper.pc = "pop"
               PROVE  reaper.got \in Listed(tags)
    BY DEF PopFindsEntry
  <2>1. reaper.got \in Outstanding
    BY ConstantsAssumption
       DEF IInv, TypeOK, ReaperHolds, Outstanding, Live
  <2> QED
    BY <2>1, ListedOutstanding
<1> QED
  BY <1>1, ClientInductive, PTL

\* No thread, rpc or queued event refers to a deleted call struct.
THEOREM ClientNoDanglingCall == Spec => []NoDanglingCall
<1>1. IInv => NoDanglingCall
  BY DEF IInv, MainHolds, ReaperHolds, GrpcHolds, NoDanglingCall
<1> QED
  BY <1>1, ClientInductive, PTL

\* The unlocked sweep after the reaper's loop finds an empty list.
THEOREM ClientNothingLeftToSweep == Spec => []NothingLeftToSweep
<1>1. IInv => NothingLeftToSweep
  <2> SUFFICES ASSUME IInv, reaper.pc = "cleanup"
               PROVE  tags = <<>> /\ main.pc = "join"
    BY DEF NothingLeftToSweep
  <2>1. Live = {} /\ main.pc = "join"
    BY DEF IInv, DownInOrder
  <2>2. Entries(tags) = {}
    BY <2>1 DEF IInv, TagListExact, Outstanding
  <2>3. tags \in Seq([tag : Api, obj : Addr])
    BY DEF IInv, TypeOK
  <2>4. Len(tags) = 0
    <3>1. /\ DOMAIN tags = 1 .. Len(tags)
          /\ Len(tags) \in Nat
      BY <2>3, LenProperties
    <3>2. ~(1 \in DOMAIN tags)
      BY <2>2 DEF Entries, ToSet
    <3> QED
      BY <3>1, <3>2
  <2> QED
    BY <2>1, <2>3, <2>4, EmptySeq
<1> QED
  BY <1>1, ClientInductive, PTL

\* The program ends with every call struct deleted.
THEOREM ClientNoLeak == Spec => []NoLeak
<1>1. IInv => NoLeak
  BY DEF IInv, DownInOrder, NoLeak
<1> QED
  BY <1>1, ClientInductive, PTL

-----------------------------------------------------------------------------
(* The client implements CallLedger: the safety part of ImplementsLedger.    *)

\* gRPC writes a status exactly once, between Finish and the event: a live
\* call has none as long as the main thread issues it or gRPC watches it.
StatusInv ==
  \A a \in Live :
    heap[a].status = "unset" <=> main.call = a \/ rpc[a] = "watched"

LedgerInv == IInv /\ StatusInv

\* Every step keeps the status in step with the rpc.
LEMMA NextStatus ==
  ASSUME LedgerInv, [Next]_vars
  PROVE  StatusInv'
<1> USE ConstantsAssumption
<1>t. /\ TypeOK /\ StatusInv
      /\ MainHolds /\ ReaperHolds /\ GrpcHolds /\ DownInOrder
  BY DEF LedgerInv, IInv
<1>1. ASSUME NEW api \in UserApi, Request(api) PROVE StatusInv'
  <2>1. PICK a \in Addr \ Live :
          /\ heap' = [heap EXCEPT ![a] = NewCall(api)]
          /\ main' = [pc |-> "push", call |-> a]
    BY <1>1 DEF Request
  <2>2. main.call = NULL /\ rpc' = rpc
    BY <1>t, <1>1 DEF Request, MainHolds
  <2>3. /\ heap'[a].status = "unset"
        /\ \A b \in Addr \ {a} : heap'[b] = heap[b]
    BY <1>t, <2>1 DEF TypeOK, NewCall
  <2> QED
    BY <1>t, <2>1, <2>2, <2>3 DEF StatusInv, Live
<1>2. CASE tag_push \/ StartCall
  <2>1. heap' = heap /\ main'.call = main.call
    BY <1>t, <1>2 DEF tag_push, StartCall, TypeOK
  <2>2. \A a \in Live : rpc'[a] = "watched" <=> rpc[a] = "watched"
    <3>1. CASE tag_push
      BY <3>1 DEF tag_push
    <3>2. CASE StartCall
      <4>1. /\ main.call \in Live /\ rpc[main.call] = "none"
            /\ rpc' = [rpc EXCEPT ![main.call] = "started"]
        BY <1>t, <3>2 DEF StartCall, MainHolds, GrpcHolds, Live
      <4> QED
        BY <1>t, <4>1 DEF TypeOK, Live
    <3> QED
      BY <1>2, <3>1, <3>2
  <2> QED
    BY <1>t, <2>1, <2>2 DEF StatusInv, Live
<1>3. CASE FinishCall
  <2>1. /\ heap' = heap
        /\ main.call \in Live
        /\ rpc' = [rpc EXCEPT ![main.call] = "watched"]
        /\ main'.call = NULL
    BY <1>t, <1>3 DEF FinishCall, MainHolds
  <2> QED
    BY <1>t, <2>1 DEF TypeOK, StatusInv, Live
<1>4. ASSUME NEW a \in Addr, Answer(a) \/ Expire(a) PROVE StatusInv'
  <2>1. PICK status \in {"OK", "FAILED"} : Complete(a, status)
    BY <1>4 DEF Answer, Expire
  <2>2. /\ a \in Live /\ heap[a] \in CallStruct
        /\ main.call # a
        /\ main' = main
        /\ rpc' = [rpc EXCEPT ![a] = "queued"]
        /\ heap' = [heap EXCEPT ![a] = [heap[a] EXCEPT !.status = status]]
    BY <1>t, <2>1 DEF Complete, TypeOK, GrpcHolds, MainHolds, Live
  <2>3. [heap[a] EXCEPT !.status = status].status # "unset"
    BY <2>2 DEF CallStruct
  <2>4. /\ heap'[a].status # "unset" /\ rpc'[a] = "queued"
        /\ \A b \in Addr \ {a} : heap'[b] = heap[b] /\ rpc'[b] = rpc[b]
    BY <1>t, <2>2, <2>3 DEF TypeOK
  <2> QED
    BY <1>t, <2>2, <2>4 DEF StatusInv, Live
<1>5. ASSUME NEW a \in Addr, NextEvent(a) PROVE StatusInv'
  BY <1>t, <1>5 DEF NextEvent, TypeOK, StatusInv, Live
<1>6. CASE Dispatch
  <2>1. /\ main' = main /\ rpc' = rpc
        /\ \A b \in Addr : b \in Live' => b \in Live /\ heap'[b] = heap[b]
    BY <1>t, <1>6 DEF Dispatch, TypeOK, ReaperHolds, Handled, Live
  <2> QED
    BY <1>t, <2>1 DEF StatusInv, Live
<1>7. CASE Cleanup
  <2>1. Live = {}
    BY <1>t, <1>7 DEF Cleanup, DownInOrder
  <2>2. Live' = {}
    BY <1>7, <2>1 DEF Cleanup, Live
  <2> QED
    BY <2>2 DEF StatusInv
<1>8. CASE \/ StopAsyncCompleteRpc \/ Join \/ NextEnd \/ tag_pop
           \/ UNCHANGED vars
  <2>1. heap' = heap /\ rpc' = rpc /\ main'.call = main.call
    BY <1>t, <1>8 DEF StopAsyncCompleteRpc, Join, NextEnd, tag_pop, vars, TypeOK
  <2> QED
    BY <1>t, <2>1 DEF StatusInv, Live
<1> QED
  BY <1>1, <1>2, <1>3, <1>4, <1>5, <1>6, <1>7, <1>8
     DEF Next, IssueStep, ReapStep, Exited

\* The client starts with an open and empty ledger.
LEMMA InitLedger == Init => Ledger!Init
<1> SUFFICES ASSUME Init PROVE Ledger!Init
  OBVIOUS
<1>1. LedgerPhase = "open"
  BY DEF Init, LedgerPhase
<1>2. LedgerState = [a \in Addr |-> "idle"]
  BY DEF Init, LedgerState
<1> QED
  BY <1>1, <1>2 DEF Ledger!Init

\* The phase of the ledger, by the step of the main thread.
LEMMA PhaseOf ==
  /\ LedgerPhase = "open" <=> main.pc \notin {"join", "exited"}
  /\ LedgerPhase = "closing" <=> main.pc = "join"
  /\ LedgerPhase = "closed" <=> main.pc = "exited"
BY DEF LedgerPhase

\* Every step of threads and gRPC is a step of the ledger, or none.
LEMMA NextLedger ==
  ASSUME LedgerInv, [Next]_vars
  PROVE  [Ledger!Next]_(Ledger!vars)
<1> USE ConstantsAssumption
<1>t. /\ TypeOK /\ StatusInv
      /\ MainHolds /\ ReaperHolds /\ GrpcHolds /\ DownInOrder
  BY DEF LedgerInv, IInv
<1>v. ASSUME heap' = heap, main' = main
      PROVE  UNCHANGED Ledger!vars
  BY <1>v DEF Ledger!vars, LedgerState, LedgerPhase
<1>1. ASSUME NEW api \in UserApi, Request(api) PROVE Ledger!Next
  <2>1. PICK a \in Addr \ Live :
          /\ heap' = [heap EXCEPT ![a] = NewCall(api)]
          /\ main' = [pc |-> "push", call |-> a]
    BY <1>1 DEF Request
  <2>2. NewCall(api) # NULL /\ NewCall(api).status = "unset"
    <3>1. NewCall(api) \in CallStruct
      BY DEF NewCall, CallStruct
    <3> QED
      BY <3>1 DEF NewCall
  <2>3. LedgerPhase = "open" /\ LedgerPhase' = "open"
    BY <1>1, <2>1 DEF Request, LedgerPhase
  <2>4. LedgerState[a] = "idle"
    BY <2>1 DEF LedgerState, Live
  <2>5. LedgerState' = [LedgerState EXCEPT ![a] = "issued"]
    BY <1>t, <2>1, <2>2 DEF TypeOK, LedgerState
  <2> QED
    BY <2>3, <2>4, <2>5 DEF Ledger!Next, Ledger!Issue
<1>2. CASE tag_push \/ StartCall \/ FinishCall
  <2>1. heap' = heap
    BY <1>2 DEF tag_push, StartCall, FinishCall
  <2>2. LedgerPhase = "open" /\ LedgerPhase' = "open"
    BY <1>t, <1>2 DEF tag_push, StartCall, FinishCall, LedgerPhase, TypeOK
  <2> QED
    BY <2>1, <2>2 DEF Ledger!vars, LedgerState
<1>3. CASE StopAsyncCompleteRpc
  <2>1. heap' = heap
    BY <1>3 DEF StopAsyncCompleteRpc
  <2>2. LedgerPhase = "open" /\ LedgerPhase' = "closing"
    BY <1>t, <1>3 DEF StopAsyncCompleteRpc, LedgerPhase, TypeOK
  <2> QED
    BY <2>1, <2>2 DEF Ledger!Next, Ledger!Close, LedgerState
<1>4. CASE Join
  <2>1. heap' = heap /\ \A a \in Addr : heap[a] = NULL
    BY <1>t, <1>4 DEF Join, DownInOrder, Live
  <2>2. LedgerPhase = "closing" /\ LedgerPhase' = "closed"
    BY <1>t, <1>4 DEF Join, LedgerPhase, TypeOK
  <2>3. \A a \in Addr : LedgerState[a] = "idle"
    BY <2>1 DEF LedgerState
  <2> QED
    BY <2>1, <2>2, <2>3 DEF Ledger!Next, Ledger!Finish, LedgerState
<1>5. ASSUME NEW a \in Addr, Answer(a) \/ Expire(a) PROVE Ledger!Next
  <2>1. PICK status \in {"OK", "FAILED"} : Complete(a, status)
    BY <1>5 DEF Answer, Expire
  <2>2. /\ a \in Live /\ heap[a] \in CallStruct
        /\ heap[a].status = "unset"
        /\ main' = main
        /\ heap' = [heap EXCEPT ![a] = [heap[a] EXCEPT !.status = status]]
    BY <1>t, <2>1 DEF Complete, TypeOK, GrpcHolds, StatusInv, Live
  <2> DEFINE new == [heap[a] EXCEPT !.status = status]
  <2>3. new # NULL /\ new.status # "unset"
    BY <2>2 DEF CallStruct
  <2>4. LedgerState[a] = "issued"
    BY <2>2 DEF LedgerState, Live
  <2>5. LedgerState' = [LedgerState EXCEPT ![a] = "answered"]
    <3> HIDE DEF new
    <3>1. heap' = [heap EXCEPT ![a] = new]
      BY <2>2 DEF new
    <3> QED
      BY <1>t, <2>3, <3>1 DEF TypeOK, LedgerState
  <2>6. LedgerPhase' = LedgerPhase
    BY <2>2 DEF LedgerPhase
  <2> QED
    BY <2>4, <2>5, <2>6 DEF Ledger!Next, Ledger!Answer
<1>6. CASE Dispatch
  <2> DEFINE g == reaper.got
  <2>1. /\ g \in Live
        /\ heap' = [heap EXCEPT ![g] = NULL]
        /\ main' = main
    BY <1>t, <1>6 DEF Dispatch, ReaperHolds, Handled
  <2>2. heap[g].status # "unset"
    BY <1>t, <1>6, <2>1
       DEF Dispatch, ReaperHolds, MainHolds, GrpcHolds, StatusInv, Live
  <2>3. LedgerState[g] = "answered"
    BY <2>1, <2>2 DEF LedgerState, Live
  <2>4. LedgerState' = [LedgerState EXCEPT ![g] = "idle"]
    BY <1>t, <2>1 DEF TypeOK, LedgerState
  <2>5. LedgerPhase' = LedgerPhase
    BY <2>1 DEF LedgerPhase
  <2> QED
    BY <2>1, <2>3, <2>4, <2>5 DEF Ledger!Next, Ledger!Reap, Live
<1>7. CASE Cleanup
  <2>1. \A a \in Addr : heap[a] = NULL
    BY <1>t, <1>7 DEF Cleanup, DownInOrder, Live
  <2>2. heap' = heap /\ main' = main
    BY <1>t, <1>7, <2>1 DEF Cleanup, TypeOK
  <2> QED
    BY <1>v, <2>2
<1>8. ASSUME NEW a \in Addr, NextEvent(a) PROVE UNCHANGED Ledger!vars
  BY <1>v, <1>8 DEF NextEvent
<1>9. CASE NextEnd \/ tag_pop \/ UNCHANGED vars
  BY <1>v, <1>9 DEF NextEnd, tag_pop, vars
<1> QED
  BY <1>1, <1>2, <1>3, <1>4, <1>5, <1>6, <1>7, <1>8, <1>9
     DEF Next, IssueStep, ReapStep, Exited

\* The invariant of the ledger holds in every reachable state.
THEOREM LedgerInductive == Spec => []LedgerInv
<1>1. Init => StatusInv
  BY DEF Init, StatusInv, Live
<1>2. IInv /\ StatusInv /\ [Next]_vars => StatusInv'
  BY NextStatus DEF LedgerInv
<1>3. LedgerInv <=> IInv /\ StatusInv
  BY DEF LedgerInv
<1> QED
  BY <1>1, <1>2, <1>3, ClientInductive, PTL DEF Spec

\* Threads, queue, list and reused addresses together implement CallLedger: a
\* call is issued while the ledger is open, answered once, reaped once after
\* that, and the ledger closes with no call in it.
THEOREM ClientImplementsLedger ==
  Spec => Ledger!Init /\ [][Ledger!Next]_(Ledger!vars)
<1>1. LedgerInv /\ [Next]_vars => [Ledger!Next]_(Ledger!vars)
  BY NextLedger
<1> QED
  BY <1>1, InitLedger, LedgerInductive, PTL DEF Spec
=============================================================================
