----------------------------- MODULE SessionSystem -----------------------------
(***************************************************************************)
(* The session API's client and asynchronous server, over one channel.     *)
(*                                                                         *)
(* The server is SessionServer, whose variables and steps this module has; *)
(* the client is an instance of SessionClient.  link says which call of    *)
(* the server carries a call of the client: from Finish, which puts the    *)
(* request on the wire, until the client's gRPC ends the call, be it with  *)
(* the server's answer, at the deadline, or since the channel broke.  The  *)
(* server learns of the end of a call later, or never.  Other peers call   *)
(* the server as well.                                                     *)
(***************************************************************************)
EXTENDS SessionServer

CONSTANTS CAddr,       \* heap cells of the client
          UserApi,     \* the APIs the client's user calls
          OtherApi     \* the methods other peers call

VARIABLES cHeap, cTags, cRpc, cShutdown, cMain, cReaper,  \* of the client
          link         \* [CAddr -> the server's call for it, or NULL]

clientVars == <<cHeap, cTags, cRpc, cShutdown, cMain, cReaper>>
serverVars == vars
systemVars == <<clientVars, serverVars, link>>

Client == INSTANCE SessionClient WITH
  Addr <- CAddr, heap <- cHeap, tags <- cTags, rpc <- cRpc,
  shutdown <- cShutdown, main <- cMain, reaper <- cReaper

ASSUME SystemAssumption == /\ Client!ConstantsAssumption
                           /\ OtherApi \cup UserApi \subseteq CallApi

SystemInit == /\ Init
              /\ Client!Init
              /\ link = [a \in CAddr |-> NULL]

Linked == {link[a] : a \in CAddr} \ {NULL}

-----------------------------------------------------------------------------
(* The client's own steps, and the server's. *)

ClientSteps ==
  /\ \/ \E api \in UserApi : Client!Request(api)
     \/ Client!tag_push
     \/ Client!StartCall
     \/ Client!StopAsyncCompleteRpc
     \/ Client!Join
     \/ \E a \in CAddr : Client!NextEvent(a)
     \/ Client!NextEnd
     \/ Client!ReapStep
  /\ UNCHANGED <<serverVars, link>>

ServerSteps ==
  /\ \/ Register
     \/ \E a \in Addr : HandleEvent(a) \/ Abort(a) \/ WriteDone(a)
     \/ \E r \in Rpc, a \in Addr : Match(r, a)
  /\ UNCHANGED <<clientVars, link>>

-----------------------------------------------------------------------------
(* The channel (gRPC). *)

\* Finish puts the request on the wire ...
Send(r) ==
  /\ Client!FinishCall
  /\ Arrive(r, cHeap[cMain.call].api)
  /\ link' = [link EXCEPT ![cMain.call] = r]

\* ... or the server cannot be reached.
SendLost ==
  /\ Client!FinishCall
  /\ UNCHANGED <<serverVars, link>>

Unlink(a) == link' = [link EXCEPT ![a] = NULL]

\* Faulty variant: whatever comes from the server is taken for a reply.
Answered_Any(a) ==
  /\ link[a] # NULL
  /\ call[link[a]].state \in {"replied", "rejected"}
  /\ Client!Complete(a, "OK")

\* The server's reply, or UNIMPLEMENTED, reaches the client.
Answered(a) ==
  /\ link[a] # NULL
  /\ \/ call[link[a]].state = "replied" /\ Client!Complete(a, "OK")
     \/ call[link[a]].state = "rejected" /\ Client!Complete(a, "FAILED")

\* The channel fails: UNAVAILABLE.
Broken(a) == Client!Complete(a, "FAILED")

ClientSideEnds(a) ==
  /\ Answered(a) \/ Broken(a) \/ Client!Expire(a)
  /\ Unlink(a)
  /\ UNCHANGED serverVars

\* A call of another peer.
OtherCalls(r) == /\ \E m \in OtherApi : Arrive(r, m)
                 /\ UNCHANGED <<clientVars, link>>

\* The server's gRPC sees the deadline of a call pass, a cancellation, or the
\* end of the connection.
ServerSideEnds(r) == Die(r) /\ UNCHANGED <<clientVars, link>>

\* The server's gRPC drops an ended call.
Forgotten(r) == /\ r \notin Linked
                /\ Forget(r)
                /\ UNCHANGED <<clientVars, link>>

-----------------------------------------------------------------------------
\* The server runs for ever, or has aborted, or never ran, when the client is
\* gone.
ClientGone == cMain.pc = "exited" /\ UNCHANGED systemVars

SystemNext == \/ ClientSteps
              \/ ServerSteps
              \/ \E r \in Rpc : \/ Send(r) \/ OtherCalls(r)
                                \/ ServerSideEnds(r) \/ Forgotten(r)
              \/ SendLost
              \/ \E a \in CAddr : ClientSideEnds(a)
              \/ ClientGone

SystemSpec == SystemInit /\ [][SystemNext]_systemVars

-----------------------------------------------------------------------------
\* A call in the hands of the channel has one server side of its own, of its
\* own method, and the struct its reply is written to: no reply ever reaches
\* another call or freed memory, though the client reuses addresses, the server
\* objects, and the client may leave with calls on the wire.
LinkExact ==
  /\ \A a, b \in CAddr : link[a] = link[b] /\ link[a] # NULL => a = b
  /\ \A a \in CAddr : link[a] # NULL =>
       /\ cRpc[a] = "watched"
       /\ cHeap[a] # NULL
       /\ call[link[a]].state # "absent"
       /\ call[link[a]].method = cHeap[a].api

\* A completion that reports OK was served: the six methods of the menu that
\* HandleRpcs does not register always fail.
UnservedNeverOk ==
  \A a \in CAddr : cHeap[a] # NULL /\ cHeap[a].status = "OK" =>
                     cHeap[a].api \in Served

\* The assertion that ends the server fires only at a reply to a call that
\* died, never through the client's shutdown or a call that was answered.
AbortOnlyAfterDeath ==
  thread.pc = "aborted" =>
              \E a \in Live : /\ op[a] = "failed"
                              /\ call[heap[a].call].state = "dead"

\* Each program takes, inside the system, only the steps its own module has,
\* whatever the other one does: what those modules show carries over.
PartsUnchanged == /\ Client!Init /\ [][Client!Next]_clientVars
                  /\ Init /\ [][Next]_serverVars
==============================================================================
