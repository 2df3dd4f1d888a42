------------------------- MODULE SessionContext_proofs -------------------------
(***************************************************************************)
(* The client program contains SessionClient: menu, teardown and operation *)
(* server put an order on the client's steps and add none, for any number  *)
(* of addresses, APIs, operations and any input.  What SessionClient_proofs *)
(* shows of the client (here the instance P) therefore holds inside the    *)
(* program, and with it the order of the teardown.                         *)
(***************************************************************************)
EXTENDS SessionContext, TLAPS

P == INSTANCE SessionClient_proofs

-----------------------------------------------------------------------------
(* The steps of the program, as the client sees them. *)

\* What the thread ST, its server and the end of the program leave alone.
LEMMA OtherSteps ==
  ASSUME Build \/ Wait \/ OperationArrives \/ OperationReturns \/ Ended
  PROVE  UNCHANGED clientVars
BY DEF Build, Wait, OperationArrives, OperationReturns, Ended, vars

\* unsetGRPC stops and joins the client, and does nothing else to it.
LEMMA UnsetStep == ASSUME Unset PROVE [Client!Next]_clientVars
BY DEF Unset, StopSyncSingleRPC, ShutdownReturns, JoinST, StopAsyncCompleteRpc,
   JoinTS, Client!Next

\* A turn of the menu issues a call of the user's, or nothing.
LEMMA MenuStep == ASSUME MenuTurn PROVE [Client!Next]_clientVars
BY DEF MenuTurn, Switch, Client!Next

\* The client's threads and gRPC take the client's steps.
LEMMA ClientStep ==
  ASSUME \/ ClientIssues \/ ClientReaps \/ ClientQueueEnds
         \/ \E a \in Addr : Grpc(a) \/ ClientNext(a)
  PROVE  Client!Next
BY DEF ClientIssues, ClientReaps, ClientQueueEnds, Grpc, ClientNext,
   Client!Next

\* A step of the program is a step of the client, or none for it.
LEMMA ProgramStep == [Next]_vars => [Client!Next]_clientVars
<1>1. ASSUME UNCHANGED vars PROVE UNCHANGED clientVars
  BY <1>1 DEF vars
<1>2. ASSUME Next PROVE [Client!Next]_clientVars
  BY <1>2, OtherSteps, UnsetStep, MenuStep, ClientStep DEF Next
<1> QED
  BY <1>1, <1>2

\* The program implements SessionClient, whatever the user types and whenever
\* the two shutdowns come.
THEOREM ProgramKeepsClient == Spec => ClientUnchanged
<1>1. Init => Client!Init
  BY DEF Init
<1>2. [Next]_vars => [Client!Next]_clientVars
  BY ProgramStep
<1> QED
  BY <1>1, <1>2, PTL DEF Spec, ClientUnchanged

-----------------------------------------------------------------------------
(* The client of the program is the client of SessionClient_proofs. *)

\* The assumptions on the client's constants are those of the program.
LEMMA SameConstants == P!ConstantsAssumption
BY ContextAssumption DEF ContextAssumption, Client!ConstantsAssumption,
   P!ConstantsAssumption, Client!CallStruct, P!CallStruct, Client!Api, P!Api

\* Both instances start alike.
LEMMA SameInit == Client!Init => P!Init
BY DEF Client!Init, P!Init

\* Both instances take the same steps.
LEMMA SameNext == [Client!Next]_clientVars => [P!Next]_P!vars
<1> USE DEF Client!vars, P!vars, clientVars, Client!Live, P!Live
<1>1. \A api : Client!Request(api) => P!Request(api)
  BY DEF Client!Request, P!Request, Client!NewCall, P!NewCall
<1>2. Client!tag_push => P!tag_push
  BY DEF Client!tag_push, P!tag_push, Client!PushedTag, P!PushedTag,
     Client!TagPush, P!TagPush
<1>3. Client!StartCall \/ Client!FinishCall => P!StartCall \/ P!FinishCall
  BY DEF Client!StartCall, P!StartCall, Client!FinishCall, P!FinishCall
<1>4. Client!tag_pop => P!tag_pop
  BY DEF Client!tag_pop, P!tag_pop, Client!TagErase, P!TagErase, Client!TagOf,
     P!TagOf, Client!TagFind, P!TagFind, Client!RemoveAt, P!RemoveAt,
     Client!SelectInSeq, P!SelectInSeq, Client!Min, P!Min
<1>5. Client!Cleanup => P!Cleanup
  BY DEF Client!Cleanup, P!Cleanup, Client!Listed, P!Listed, Client!ToSet,
     P!ToSet
<1>6. Client!Dispatch => P!Dispatch
  BY DEF Client!Dispatch, P!Dispatch, Client!Handled, P!Handled, Client!Api,
     P!Api
<1>7. \/ Client!StopAsyncCompleteRpc \/ Client!Join
      \/ Client!NextEnd \/ Client!Exited
      => P!StopAsyncCompleteRpc \/ P!Join \/ P!NextEnd \/ P!Exited
  BY DEF Client!StopAsyncCompleteRpc, P!StopAsyncCompleteRpc, Client!Join,
     P!Join, Client!NextEnd, P!NextEnd, Client!Exited, P!Exited,
     Client!Drained, P!Drained
<1>8. \A a : Client!Answer(a) \/ Client!Expire(a) \/ Client!NextEvent(a)
             => P!Answer(a) \/ P!Expire(a) \/ P!NextEvent(a)
  BY DEF Client!Answer, P!Answer, Client!Expire, P!Expire, Client!NextEvent,
     P!NextEvent, Client!Complete, P!Complete
<1> QED
  BY <1>1, <1>2, <1>3, <1>4, <1>5, <1>6, <1>7, <1>8
     DEF Client!Next, P!Next, Client!IssueStep, P!IssueStep, Client!ReapStep,
         P!ReapStep

\* The client's inductive invariant holds throughout the program.
THEOREM ProgramClientInductive == Spec => []P!IInv
<1>1. Init => P!IInv
  BY SameConstants, SameInit, P!InitIInv DEF Init
<1>2. P!IInv /\ [Next]_vars => P!IInv'
  BY SameConstants, ProgramStep, SameNext, P!NextIInv
<1> QED
  BY <1>1, <1>2, PTL DEF Spec

\* In the whole program, menu and unsetGRPC included, the client keeps the
\* promise of CallLedger: a call is answered once, reaped once, and the ledger
\* closes with no call in it.
THEOREM ProgramKeepsLedger ==
  Spec => P!Ledger!Init /\ [][P!Ledger!Next]_(P!Ledger!vars)
<1>1. Init => P!Init
  BY SameInit DEF Init
<1>2. P!Init => P!Ledger!Init
  BY SameConstants, P!InitLedger
<1>3. P!Init => P!StatusInv
  BY DEF P!Init, P!StatusInv, P!Live
<1>4. P!IInv /\ P!StatusInv /\ [Next]_vars => P!StatusInv'
  BY SameConstants, ProgramStep, SameNext, P!NextStatus DEF P!LedgerInv
<1>5. P!IInv /\ P!StatusInv /\ [Next]_vars => [P!Ledger!Next]_(P!Ledger!vars)
  BY SameConstants, ProgramStep, SameNext, P!NextLedger DEF P!LedgerInv
<1> QED
  BY <1>1, <1>2, <1>3, <1>4, <1>5, ProgramClientInductive, PTL DEF Spec

-----------------------------------------------------------------------------
(* The order of the teardown. *)

\* What main has behind it: the server is down before JoinST, its thread has
\* ended before the client is stopped.
StageInOrder ==
  /\ ops \in Nat
  /\ server = "shutdown" => ops = 0
  /\ stage = "shuttingST" => server = "stopping"
  /\ stage \in {"joinST", "stopTS", "joinTS"} => server = "shutdown"
  /\ stage \in {"stopTS", "joinTS"} => st = "ended"
  /\ st = "ended" => server = "shutdown"
  /\ server # "unset" => st # "build"
  /\ main.pc \in {"join", "exited"} => stage = "joinTS"

\* Every step of the program keeps the stages in order.
LEMMA StageStep ==
  P!IInv /\ StageInOrder /\ [Next]_vars => StageInOrder'
<1> SUFFICES ASSUME P!IInv, StageInOrder, [Next]_vars PROVE StageInOrder'
  OBVIOUS
<1>m. main \in [pc : P!MainPc, call : Addr \cup {NULL}]
  BY DEF P!IInv, P!TypeOK
<1>1. CASE UNCHANGED vars \/ Ended
  BY <1>1 DEF Ended, vars, ctxVars, clientVars, StageInOrder
<1>2. CASE MenuTurn
  <2>1. main'.pc \notin {"join", "exited"}
    BY <1>2 DEF MenuTurn, Switch, clientVars, Client!Request
  <2> QED
    BY <1>2, <2>1 DEF MenuTurn, Switch, StageInOrder
<1>3. CASE StopSyncSingleRPC \/ ShutdownReturns \/ JoinST
  <2>1. UNCHANGED <<main, ops, st>> /\ stage # "joinTS"
    BY <1>3 DEF StopSyncSingleRPC, ShutdownReturns, JoinST, clientVars
  <2>2. CASE StopSyncSingleRPC
    BY <2>1, <2>2 DEF StopSyncSingleRPC, StageInOrder
  <2>3. CASE ShutdownReturns
    BY <2>1, <2>3 DEF ShutdownReturns, StageInOrder
  <2>4. CASE JoinST
    BY <2>1, <2>4 DEF JoinST, StageInOrder
  <2> QED
    BY <1>3, <2>2, <2>3, <2>4
<1>4. CASE StopAsyncCompleteRpc
  BY <1>4 DEF StopAsyncCompleteRpc, StageInOrder
<1>5. CASE JoinTS
  BY <1>5 DEF JoinTS, ctxVars, StageInOrder
<1>6. CASE ClientIssues
  <2>1. main'.pc \notin {"join", "exited"}
    BY <1>6, <1>m DEF ClientIssues, Client!IssueStep, Client!tag_push,
       Client!StartCall, Client!FinishCall
  <2> QED
    BY <1>6, <2>1 DEF ClientIssues, ctxVars, StageInOrder
<1>7. CASE \/ ClientReaps \/ ClientQueueEnds
           \/ \E a \in Addr : Grpc(a) \/ ClientNext(a)
  <2>1. UNCHANGED <<main, ctxVars>>
    BY <1>7 DEF ClientReaps, ClientQueueEnds, Grpc, ClientNext,
       Client!ReapStep, Client!tag_pop, Client!Dispatch, Client!Cleanup,
       Client!NextEnd, Client!Answer, Client!Expire, Client!Complete,
       Client!NextEvent
  <2> QED
    BY <2>1 DEF ctxVars, StageInOrder
<1>8. CASE Build
  BY <1>8 DEF Build, clientVars, StageInOrder
<1>9. CASE Wait
  BY <1>9 DEF Wait, clientVars, StageInOrder
<1>10. CASE OperationArrives \/ OperationReturns
  BY <1>10 DEF OperationArrives, OperationReturns, clientVars, StageInOrder
<1> QED
  BY <1>1, <1>2, <1>3, <1>4, <1>5, <1>6, <1>7, <1>8, <1>9, <1>10
     DEF Next, Unset

\* The client is not torn down before the operation server, and the program
\* does not end before its threads and its calls.
THEOREM ProgramTeardownInOrder == Spec => []TeardownInOrder
<1>1. Init => StageInOrder
  BY DEF Init, Client!Init, StageInOrder
<1>2. P!IInv /\ StageInOrder => TeardownInOrder
  BY DEF P!IInv, P!DownInOrder, P!Live, Client!Live, StageInOrder,
     TeardownInOrder
<1>3. P!IInv /\ StageInOrder /\ [Next]_vars => StageInOrder'
  BY StageStep
<1> QED
  BY <1>1, <1>2, <1>3, ProgramClientInductive, PTL DEF Spec

-----------------------------------------------------------------------------
(* Type correctness. *)

\* The types of the variables the program adds to the client.
ContextTypeOK == /\ num \in Number \cup {"unset"}
                 /\ entry \in Inputs \cup {"none"}
                 /\ stage \in Stage
                 /\ server \in {"unset", "null", "running", "stopping",
                                "shutdown"}
                 /\ st \in {"build", "wait", "ended"}
                 /\ ops \in 0 .. MaxOps

\* Every step of the program keeps them.
LEMMA ContextTypes == ContextTypeOK /\ [Next]_vars => ContextTypeOK'
<1> SUFFICES ASSUME ContextTypeOK, [Next]_vars PROVE ContextTypeOK'
  OBVIOUS
<1> USE DEF ContextTypeOK
<1>1. CASE UNCHANGED vars \/ Ended
  BY <1>1 DEF Ended, vars, ctxVars, menuVars
<1>2. CASE MenuTurn
  <2>1. num' \in Number \cup {"unset"} /\ entry' \in Inputs \cup {"none"}
    BY <1>2, ContextAssumption
       DEF MenuTurn, ReadNum, Store, menuVars, ContextAssumption, Inputs,
           Number
  <2> QED
    BY <1>2, <2>1 DEF MenuTurn, Switch, Stage
<1>3. CASE Unset
  BY <1>3 DEF Unset, StopSyncSingleRPC, ShutdownReturns, JoinST,
     StopAsyncCompleteRpc, JoinTS, ctxVars, menuVars, Stage
<1>4. CASE \/ ClientIssues \/ ClientReaps \/ ClientQueueEnds
           \/ \E a \in Addr : Grpc(a) \/ ClientNext(a)
  BY <1>4 DEF ClientIssues, ClientReaps, ClientQueueEnds, Grpc, ClientNext,
     ctxVars, menuVars
<1>5. CASE Build \/ Wait
  BY <1>5 DEF Build, Wait, menuVars, Stage
<1>6. CASE OperationArrives \/ OperationReturns
  BY <1>6, ContextAssumption
     DEF OperationArrives, OperationReturns, menuVars, ContextAssumption
<1> QED
  BY <1>1, <1>2, <1>3, <1>4, <1>5, <1>6 DEF Next

\* Type correctness of the whole program.
THEOREM ProgramTypeCorrect == Spec => []TypeOK
<1>1. Init => ContextTypeOK
  BY ContextAssumption
     DEF Init, ContextTypeOK, Stage, Inputs, ContextAssumption
<1>2. P!IInv => Client!TypeOK
  BY DEF P!IInv, P!TypeOK, Client!TypeOK, Client!CallStruct, P!CallStruct,
     Client!Api, P!Api, Client!RpcState, P!RpcState, Client!MainPc, P!MainPc,
     Client!ReaperPc, P!ReaperPc
<1>3. Client!TypeOK /\ ContextTypeOK => TypeOK
  BY DEF ContextTypeOK, TypeOK
<1>4. ContextTypeOK /\ [Next]_vars => ContextTypeOK'
  BY ContextTypes
<1> QED
  BY <1>1, <1>2, <1>3, <1>4, ProgramClientInductive, PTL DEF Spec

-----------------------------------------------------------------------------
(* What the user has entered. *)

\* num has no value only before the first number was read, and is 0 in the
\* menu only within the turn that leaves it.
MenuInv == /\ num = "unset" => entry \in {"none", "end"}
           /\ stage = "menu" => num # "zero"
           /\ ShutdownIsAsked

\* What one read leaves in num and entry.
LEMMA ReadNumStep ==
  ASSUME MenuInv, stage = "menu", ReadNum
  PROVE  /\ num' = "unset" => entry' \in {"none", "end"}
         /\ num' = "zero" => entry' \in {"number", "junk"}
<1>1. "unset" \notin Number
  BY ContextAssumption
     DEF ContextAssumption, Client!ConstantsAssumption, Client!Api, Number
<1>2. num # "zero" /\ (num = "unset" => entry \in {"none", "end"})
  BY DEF MenuInv
<1>3. CASE InputFailed
  BY <1>2, <1>3 DEF ReadNum, menuVars
<1>4. ASSUME NEW input \in Entry, entry' = input, Store(input)
      PROVE  /\ num' = "unset" => entry' \in {"none", "end"}
             /\ num' = "zero" => entry' \in {"number", "junk"}
  <2>1. input \in {"number", "junk", "overflow", "end"}
    BY ContextAssumption DEF ContextAssumption, Inputs
  <2>2. \/ input = "number" /\ num' \in Number
        \/ input = "junk" /\ num' = "zero"
        \/ input = "overflow" /\ num' = "other"
        \/ input = "end" /\ num' = num
    BY <1>4, <2>1 DEF Store
  <2> QED
    BY <1>1, <1>2, <1>4, <2>2
<1> QED
  BY <1>3, <1>4 DEF ReadNum

\* Every step of the program keeps the menu and what was entered together.
LEMMA MenuInvStep == MenuInv /\ [Next]_vars => MenuInv'
<1> SUFFICES ASSUME MenuInv, [Next]_vars PROVE MenuInv'
  OBVIOUS
<1>1. CASE MenuTurn
  <2>1. /\ stage = "menu"
        /\ num' = "unset" => entry' \in {"none", "end"}
        /\ num' = "zero" => entry' \in {"number", "junk"}
    BY <1>1, ReadNumStep DEF MenuTurn
  <2>2. PICK n \in Number : num' \in {n, "unset"} /\ Switch(n)
    BY <1>1 DEF MenuTurn
  <2>3. CASE n = "zero"
    <3>1. stage' = "stopST"
      <4>1. "zero" \notin UserApi
        BY ContextAssumption
           DEF ContextAssumption, Client!ConstantsAssumption, Client!Api
      <4> QED
        BY <2>2, <2>3, <4>1 DEF Switch
    <3>2. num' = "unset" => entry' = "end"
      <4>1. CASE InputFailed
        BY <1>1, <2>1, <4>1 DEF MenuTurn, ReadNum, menuVars, InputFailed, Inputs
      <4>2. ASSUME NEW input \in Entry, entry' = input
            PROVE  num' = "unset" => entry' = "end"
        BY <2>1, <4>2, ContextAssumption DEF ContextAssumption, Inputs
      <4> QED
        BY <1>1, <4>1, <4>2 DEF MenuTurn, ReadNum
    <3> QED
      BY <2>1, <2>2, <2>3, <3>1, <3>2 DEF MenuInv, ShutdownIsAsked
  <2>4. CASE n # "zero"
    <3>1. stage' = "menu"
      BY <2>1, <2>2, <2>4 DEF Switch
    <3> QED
      BY <2>1, <2>2, <2>4, <3>1 DEF MenuInv, ShutdownIsAsked
  <2> QED
    BY <2>3, <2>4
<1>2. ASSUME UNCHANGED menuVars,
             \/ stage' = stage
             \/ stage' = "crashed"
             \/ stage # "menu" /\ stage # "crashed" /\ stage' # "menu"
      PROVE  MenuInv'
  BY <1>2 DEF menuVars, MenuInv, ShutdownIsAsked
<1>3. CASE Unset
  BY <1>2, <1>3 DEF Unset, StopSyncSingleRPC, ShutdownReturns, JoinST,
     StopAsyncCompleteRpc, JoinTS, ctxVars, menuVars
<1>4. CASE \/ ClientIssues \/ ClientReaps \/ ClientQueueEnds
           \/ \E a \in Addr : Grpc(a) \/ ClientNext(a)
           \/ Ended \/ UNCHANGED vars
  BY <1>2, <1>4 DEF ClientIssues, ClientReaps, ClientQueueEnds, Grpc,
     ClientNext, Ended, vars, ctxVars
<1>5. CASE Build \/ Wait \/ OperationArrives \/ OperationReturns
  BY <1>2, <1>5 DEF Build, Wait, OperationArrives, OperationReturns
<1> QED
  BY <1>1, <1>3, <1>4, <1>5 DEF Next

\* The program shuts down only when the user asked for it, whatever is typed,
\* mistyped or ended in whatever order.
THEOREM ProgramShutdownIsAsked == Spec => []ShutdownIsAsked
<1>1. Init => MenuInv
  BY DEF Init, MenuInv, ShutdownIsAsked
<1>2. MenuInv => ShutdownIsAsked
  BY DEF MenuInv
<1> QED
  BY <1>1, <1>2, MenuInvStep, PTL DEF Spec
==============================================================================
