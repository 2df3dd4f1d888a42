---------------------------- MODULE SessionContext ----------------------------
(***************************************************************************)
(* CloudeinSessionContext: the life of the client program.  It owns the    *)
(* asynchronous client of SessionClient, whose main and reaper (TS) threads*)
(* run here unchanged, and the synchronous operation server, which a       *)
(* second thread (ST) builds, publishes through the pointer server, and    *)
(* waits for.  The menu reads a number and acts on it, whether or not the  *)
(* read succeeded.  When the number is 0, unsetGRPC shuts the operation    *)
(* server down, joins ST, and only then stops the client and joins TS.     *)
(* Nothing orders the publication of server before its use by unsetGRPC.   *)
(***************************************************************************)
EXTENDS Naturals

CONSTANTS Addr, UserApi, NULL,  \* as in SessionClient
          PortMayBeTaken,       \* whether BuildAndStart may fail
          Entry,                \* what the user may type, see Inputs
          MaxOps                \* operations the server handles at once

\* A number of the menu or not, something that is no number, a number that is
\* too great for an int, the end of the input.
Inputs == {"number", "junk", "overflow", "end"}

VARIABLES heap, tags, rpc, shutdown, main, reaper,  \* as in SessionClient
          num,         \* the menu's variable of that name
          entry,       \* what was last read from std::cin
          stage,       \* where the main thread is in the program
          server,      \* the member server, and the state of its object
          st,          \* the ST thread
          ops          \* DoOperation calls being handled

clientVars == <<heap, tags, rpc, shutdown, main, reaper>>
menuVars == <<num, entry>>
ctxVars == <<menuVars, stage, server, st, ops>>
vars == <<clientVars, ctxVars>>

Client == INSTANCE SessionClient

ASSUME ContextAssumption == /\ Client!ConstantsAssumption
                            /\ PortMayBeTaken \in BOOLEAN
                            /\ Entry \subseteq Inputs
                            /\ MaxOps \in Nat

Stage == {"menu", "stopST", "shuttingST", "joinST", "stopTS", "joinTS",
          "crashed"}

Init == /\ Client!Init
        /\ num = "unset"
        /\ entry = "none"
        /\ stage = "menu"
        /\ server = "unset"
        /\ st = "build"
        /\ ops = 0

Alive == stage # "crashed"

-----------------------------------------------------------------------------
(* The main thread: menu, then unsetGRPC. *)

\* The numbers the menu tells apart: 0, those of the calls, all others.
Number == UserApi \cup {"zero", "other"}

\* std::cin failed, and nothing clears it: every later read does nothing.
InputFailed == entry \in Inputs \ {"number"}

\* Faulty variant: a read that fails leaves its variable alone.
Store_Nothing(input) ==
  IF input = "number" THEN num' \in Number ELSE num' = num

\* std::cin >> num stores 0 when it meets something that is no number and the
\* greatest int when it overflows; at the end of the input it stores nothing.
Store(input) == CASE input = "number"   -> num' \in Number
                  [] input = "junk"     -> num' = "zero"
                  [] input = "overflow" -> num' = "other"
                  [] input = "end"      -> num' = num

ReadNum == IF InputFailed THEN UNCHANGED menuVars
           ELSE \E input \in Entry : entry' = input /\ Store(input)

\* The switch; num without a value is any number.
Switch(n) == \/ n = "zero" /\ stage' = "stopST" /\ UNCHANGED clientVars
             \/ n \in UserApi /\ Client!Request(n) /\ UNCHANGED stage
             \/ n = "other" /\ UNCHANGED <<clientVars, stage>>

\* One turn of the menu: read, setState and request, or leave the loop.
MenuTurn == /\ stage = "menu"
            /\ main.pc = "menu"
            /\ ReadNum
            /\ \E n \in Number : num' \in {n, "unset"} /\ Switch(n)
            /\ UNCHANGED <<server, st, ops>>

\* Faulty variant: the operation server is not shut down.
StopSyncSingleRPC_NoShutdown ==
  /\ stage = "stopST"
  /\ stage' = "joinST"
  /\ UNCHANGED <<clientVars, menuVars, server, st, ops>>

\* server->Shutdown() through a pointer that ST may not have set, or that
\* BuildAndStart set to null.
StopSyncSingleRPC ==
  /\ stage = "stopST"
  /\ IF server = "running"
     THEN server' = "stopping" /\ stage' = "shuttingST"
     ELSE stage' = "crashed" /\ UNCHANGED server
  /\ UNCHANGED <<clientVars, menuVars, st, ops>>

\* Faulty variant: Shutdown does not wait for the operations.
ShutdownReturns_AtOnce == /\ stage = "shuttingST"
                          /\ server' = "shutdown"
                          /\ stage' = "joinST"
                          /\ UNCHANGED <<clientVars, menuVars, st, ops>>

\* Shutdown has no deadline: it returns when the last operation has.
ShutdownReturns == /\ stage = "shuttingST"
                   /\ ops = 0
                   /\ server' = "shutdown"
                   /\ stage' = "joinST"
                   /\ UNCHANGED <<clientVars, menuVars, st, ops>>

JoinST == /\ stage = "joinST"
          /\ st = "ended"
          /\ stage' = "stopTS"
          /\ UNCHANGED <<clientVars, menuVars, server, st, ops>>

StopAsyncCompleteRpc == /\ stage = "stopTS"
                        /\ Client!StopAsyncCompleteRpc
                        /\ stage' = "joinTS"
                        /\ UNCHANGED <<menuVars, server, st, ops>>

JoinTS == /\ stage = "joinTS"
          /\ Client!Join
          /\ UNCHANGED ctxVars

\* The steps of the client that unsetGRPC does not order.
ClientIssues == Alive /\ Client!IssueStep /\ UNCHANGED ctxVars
ClientReaps == Alive /\ Client!ReapStep /\ UNCHANGED ctxVars
ClientQueueEnds == Alive /\ Client!NextEnd /\ UNCHANGED ctxVars
Grpc(a) == Alive /\ (Client!Answer(a) \/ Client!Expire(a)) /\ UNCHANGED ctxVars
ClientNext(a) == Alive /\ Client!NextEvent(a) /\ UNCHANGED ctxVars

-----------------------------------------------------------------------------
(* The ST thread: StartSyncSingleRPC. *)

Build == /\ Alive
         /\ st = "build"
         /\ server' \in {"running"} \cup (IF PortMayBeTaken THEN {"null"} ELSE {})
         /\ st' = "wait"
         /\ UNCHANGED <<clientVars, menuVars, stage, ops>>

\* server->Wait()
Wait == /\ Alive
        /\ st = "wait"
        /\ \/ server = "null" /\ stage' = "crashed" /\ UNCHANGED st
           \/ server = "shutdown" /\ st' = "ended" /\ UNCHANGED stage
        /\ UNCHANGED <<clientVars, menuVars, server, ops>>

\* DoOperation, on a thread of the server.
OperationArrives == /\ Alive
                    /\ server = "running"
                    /\ ops < MaxOps
                    /\ ops' = ops + 1
                    /\ UNCHANGED <<clientVars, menuVars, stage, server, st>>

OperationReturns == /\ Alive
                    /\ ops > 0
                    /\ ops' = ops - 1
                    /\ UNCHANGED <<clientVars, menuVars, stage, server, st>>

-----------------------------------------------------------------------------
Ended == (stage = "crashed" \/ main.pc = "exited") /\ UNCHANGED vars

Unset == \/ StopSyncSingleRPC \/ ShutdownReturns \/ JoinST
         \/ StopAsyncCompleteRpc \/ JoinTS

Next == \/ MenuTurn
        \/ Unset
        \/ ClientIssues
        \/ ClientReaps
        \/ ClientQueueEnds
        \/ \E a \in Addr : Grpc(a) \/ ClientNext(a)
        \/ Build
        \/ Wait
        \/ OperationArrives
        \/ OperationReturns
        \/ Ended

\* As in SessionClient; the operation server's thread and handlers, which do
\* not block, are scheduled too.
Fairness == /\ WF_vars(Unset)
            /\ WF_vars(ClientIssues)
            /\ WF_vars(ClientReaps)
            /\ WF_vars(ClientQueueEnds)
            /\ \A a \in Addr : /\ WF_vars(Alive /\ Client!Expire(a)
                                          /\ UNCHANGED ctxVars)
                               /\ SF_vars(ClientNext(a))
            /\ WF_vars(Build)
            /\ WF_vars(Wait)
            /\ WF_vars(OperationReturns)

Spec == Init /\ [][Next]_vars /\ Fairness

-----------------------------------------------------------------------------
\* Type correctness of the client program around the client.
TypeOK == /\ Client!TypeOK
          /\ num \in Number \cup {"unset"}
          /\ entry \in Inputs \cup {"none"}
          /\ stage \in Stage
          /\ server \in {"unset", "null", "running", "stopping", "shutdown"}
          /\ st \in {"build", "wait", "ended"}
          /\ ops \in 0 .. MaxOps

\* The client's completion queue is shut down only when the operation server
\* has answered its last operation and its thread is gone; the program exits
\* only when both threads have ended and no call is left.
TeardownInOrder ==
  /\ shutdown => server = "shutdown" /\ st = "ended" /\ ops = 0
  /\ main.pc = "exited" => reaper.pc = "done" /\ Client!Live = {}

\* The program shuts down only when the user entered 0 or something that is no
\* number, or when its first read met the end of the input and num happened to
\* be 0: a later end of the input, and a number too great for an int, never
\* end it, and the menu repeats the last number (std::cin >> num, main).
ShutdownIsAsked ==
  stage \notin {"menu", "crashed"} =>
    \/ num = "zero" /\ entry \in {"number", "junk"}
    \/ num = "unset" /\ entry = "end"

\* Inside the program the client takes only the steps SessionClient allows:
\* unsetGRPC adds an order to them and nothing else.
ClientUnchanged == Client!Init /\ [][Client!Next]_clientVars

\* Entering 0, or anything taken for it, ends the program, whatever calls and
\* operations are under way; how it ends is another matter.
ZeroEndsProgram == num = "zero" ~> stage = "crashed" \/ main.pc = "exited"

\* The program does not crash when the port is free.
ShutdownNeverCrashes == stage # "crashed"
==============================================================================
