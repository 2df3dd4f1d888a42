------------------------------ MODULE RouteChat ------------------------------
(***************************************************************************)
(* RouteGuide's bidirectional stream RouteChat, with several clients.      *)
(*                                                                         *)
(* Each client has a thread that writes its notes and then WritesDone, and *)
(* a main thread that reads until the stream ends.  The server runs one    *)
(* handler per stream: for every note it reads it takes mu_, writes back   *)
(* all earlier notes (of every client) at the same location, appends the   *)
(* note to received_notes_, and lets mu_ go.  It writes while it holds     *)
(* mu_, and a write blocks while the stream's window is full.              *)
(*                                                                         *)
(* A client may vanish: its process ends, or its connection breaks for     *)
(* good.  The handler's Read then returns false, and its Write, whose      *)
(* result nobody looks at, returns false at once.                          *)
(***************************************************************************)
EXTENDS Naturals, SequencesExt

CONSTANTS Chat,        \* streams, each with its client and its handler
          Location,
          Script,      \* [Chat -> Seq(Location)]: the notes a client writes
          Window,      \* messages a direction of a stream holds unread
          NULL

ASSUME ConstantsAssumption == /\ \A c \in Chat : Script[c] \in Seq(Location)
                              /\ Window \in Nat \ {0}
                              /\ NULL \notin Chat

VARIABLES received,    \* received_notes_: what the server has taken, in order
          mu,          \* the holder of mu_, or NULL
          handler,     \* the server's side of each stream
          client,      \* the client's side of each stream
          up, down,    \* the messages under way, per stream
          gone         \* the streams whose client has vanished

vars == <<received, mu, handler, client, up, down, gone>>

\* A note: its location, and its author and place in the author's script in
\* place of the message.
NoteOf(c, n) == [by |-> c, n |-> n, loc |-> Script[c][n]]
Note == UNION {{NoteOf(c, n) : n \in DOMAIN Script[c]} : c \in Chat}

Init == /\ received = <<>>
        /\ mu = NULL
        /\ handler = [c \in Chat |-> [pc |-> "none", note |-> NULL, i |-> 0]]
        /\ client = [c \in Chat |-> [sent |-> 0, writesDone |-> FALSE,
                                     got |-> <<>>, ended |-> FALSE]]
        /\ up = [c \in Chat |-> <<>>]
        /\ down = [c \in Chat |-> <<>>]
        /\ gone = {}

-----------------------------------------------------------------------------
(* The client: the writer thread, and the main thread that reads. *)

Goto(c, pc) == handler' = [handler EXCEPT ![c].pc = pc]

\* stub_->RouteChat(&context): the server starts a handler for the stream.
StartChat(c) ==
  /\ handler[c].pc = "none"
  /\ c \notin gone
  /\ Goto(c, "read")
  /\ UNCHANGED <<received, mu, client, up, down, gone>>

Talking(c) == handler[c].pc # "none" /\ c \notin gone

WriteNote(c) ==
  /\ Talking(c)
  /\ client[c].sent < Len(Script[c])
  /\ Len(up[c]) < Window
  /\ up' = [up EXCEPT ![c] = Append(@, NoteOf(c, client[c].sent + 1))]
  /\ client' = [client EXCEPT ![c].sent = @ + 1]
  /\ UNCHANGED <<received, mu, handler, down, gone>>

WritesDone(c) ==
  /\ Talking(c)
  /\ client[c].sent = Len(Script[c])
  /\ ~client[c].writesDone
  /\ client' = [client EXCEPT ![c].writesDone = TRUE]
  /\ UNCHANGED <<received, mu, handler, up, down, gone>>

\* Faulty variant: the notes are written before the first read, by one thread.
ReadNote_AfterWrites(c) ==
  /\ client[c].writesDone
  /\ down[c] # <<>>
  /\ client' = [client EXCEPT ![c].got = Append(@, Head(down[c]))]
  /\ down' = [down EXCEPT ![c] = Tail(@)]
  /\ UNCHANGED <<received, mu, handler, up, gone>>

ReadNote(c) ==
  /\ down[c] # <<>>
  /\ client' = [client EXCEPT ![c].got = Append(@, Head(down[c]))]
  /\ down' = [down EXCEPT ![c] = Tail(@)]
  /\ UNCHANGED <<received, mu, handler, up, gone>>

\* Read returns false, the writer is joined, and Finish gets the status.
FinishChat(c) ==
  /\ c \notin gone
  /\ handler[c].pc = "returned"
  /\ down[c] = <<>>
  /\ client[c].writesDone
  /\ ~client[c].ended
  /\ client' = [client EXCEPT ![c].ended = TRUE]
  /\ UNCHANGED <<received, mu, handler, up, down, gone>>

Vanish(c) ==
  /\ c \notin gone
  /\ ~client[c].ended
  /\ gone' = gone \cup {c}
  /\ down' = [down EXCEPT ![c] = <<>>]
  /\ UNCHANGED <<received, mu, handler, client, up>>

-----------------------------------------------------------------------------
(* The server: RouteGuideImpl::RouteChat. *)

\* stream->Read(&note) returns true ...
ServerRead(c) ==
  /\ handler[c].pc = "read"
  /\ up[c] # <<>>
  /\ handler' = [handler EXCEPT ![c].pc = "lock", ![c].note = Head(up[c])]
  /\ up' = [up EXCEPT ![c] = Tail(@)]
  /\ UNCHANGED <<received, mu, client, down, gone>>

\* ... or false, and the handler returns OK.
ServerReturn(c) ==
  /\ handler[c].pc = "read"
  /\ (up[c] = <<>> /\ client[c].writesDone) \/ c \in gone
  /\ Goto(c, "returned")
  /\ UNCHANGED <<received, mu, client, up, down, gone>>

\* Faulty variant: the notes are walked without mu_.
Lock_Forgotten(c) ==
  /\ handler[c].pc = "lock"
  /\ handler' = [handler EXCEPT ![c].pc = "scan", ![c].i = 1]
  /\ UNCHANGED <<received, mu, client, up, down, gone>>

Lock(c) ==
  /\ handler[c].pc = "lock"
  /\ mu = NULL
  /\ mu' = c
  /\ handler' = [handler EXCEPT ![c].pc = "scan", ![c].i = 1]
  /\ UNCHANGED <<received, client, up, down, gone>>

\* Faulty variant: the iterator is advanced twice a turn.
ScanNote_Skips(c) ==
  /\ handler[c].pc = "scan"
  /\ handler[c].i <= Len(received)
  /\ handler' = [handler EXCEPT ![c].i = @ + 2]
  /\ UNCHANGED <<received, mu, client, up, down, gone>>

\* One turn of the loop over received_notes_; Write blocks on a full window.
ScanNote(c) ==
  /\ handler[c].pc = "scan"
  /\ handler[c].i <= Len(received)
  /\ LET n == received[handler[c].i]
     IN IF n.loc = handler[c].note.loc /\ c \notin gone
        THEN Len(down[c]) < Window /\ down' = [down EXCEPT ![c] = Append(@, n)]
        ELSE UNCHANGED down
  /\ handler' = [handler EXCEPT ![c].i = @ + 1]
  /\ UNCHANGED <<received, mu, client, up, gone>>

\* Faulty variant: the scope of the lock ends with the loop.
ScanEnd_Unlocks(c) ==
  /\ handler[c].pc = "scan"
  /\ handler[c].i > Len(received)
  /\ mu' = NULL
  /\ Goto(c, "push")
  /\ UNCHANGED <<received, client, up, down, gone>>

ScanEnd(c) ==
  /\ handler[c].pc = "scan"
  /\ handler[c].i > Len(received)
  /\ Goto(c, "push")
  /\ UNCHANGED <<received, mu, client, up, down, gone>>

\* Faulty variant: the note is put in front.
PushBack_Front(c) ==
  /\ handler[c].pc = "push"
  /\ received' = <<handler[c].note>> \o received
  /\ mu' = NULL
  /\ handler' = [handler EXCEPT ![c] = [pc |-> "read", note |-> NULL, i |-> 0]]
  /\ UNCHANGED <<client, up, down, gone>>

\* received_notes_.push_back(note); the lock ends with the turn of the loop.
PushBack(c) ==
  /\ handler[c].pc = "push"
  /\ received' = Append(received, handler[c].note)
  /\ mu' = NULL
  /\ handler' = [handler EXCEPT ![c] = [pc |-> "read", note |-> NULL, i |-> 0]]
  /\ UNCHANGED <<client, up, down, gone>>

-----------------------------------------------------------------------------
ServerStep(c) == \/ ServerRead(c) \/ ServerReturn(c) \/ ScanNote(c)
                 \/ ScanEnd(c) \/ PushBack(c)

Next == \E c \in Chat : \/ StartChat(c) \/ WriteNote(c) \/ WritesDone(c)
                        \/ ReadNote(c) \/ FinishChat(c) \/ Vanish(c)
                        \/ ServerStep(c) \/ Lock(c)

\* All threads are scheduled, and a thread that waits for mu_ gets it sometime.
\* No client need vanish.
Fairness == \A c \in Chat : /\ WF_vars(StartChat(c))
                            /\ WF_vars(WriteNote(c) \/ WritesDone(c))
                            /\ WF_vars(ReadNote(c) \/ FinishChat(c))
                            /\ WF_vars(ServerStep(c))
                            /\ SF_vars(Lock(c))

Spec == Init /\ [][Next]_vars /\ Fairness

-----------------------------------------------------------------------------
\* The parts of TypeOK.
Notes == Seq(Note)
HandlerPc == {"none", "read", "lock", "scan", "push", "returned"}

Shapes ==
  /\ received \in Notes
  /\ mu \in Chat \cup {NULL}
  /\ handler \in [Chat -> [pc : HandlerPc, note : Note \cup {NULL}, i : Nat]]
  /\ client \in [Chat -> [sent : Nat, writesDone : BOOLEAN, got : Notes,
                          ended : BOOLEAN]]
  /\ up \in [Chat -> Notes]
  /\ down \in [Chat -> Notes]
  /\ gone \subseteq Chat

\* Iterators stay within received_notes_, writers within their scripts, and
\* each direction of a stream within its window.
Bounds == \A c \in Chat : /\ handler[c].i <= Len(received) + 1
                          /\ client[c].sent <= Len(Script[c])
                          /\ Len(up[c]) <= Window
                          /\ Len(down[c]) <= Window

\* Type correctness: the shapes of the state, and the bounds that iterators,
\* writers and streams keep.
TypeOK == Shapes /\ Bounds

\* What client c is to be sent: for each of its notes, at place p[1] of
\* received_notes_, the earlier notes at its location, in order.
Due(c) == {p \in (DOMAIN received) \X (DOMAIN received) :
             /\ received[p[1]].by = c
             /\ p[2] < p[1]
             /\ received[p[2]].loc = received[p[1]].loc}
Earlier(p, q) == p[1] < q[1] \/ (p[1] = q[1] /\ p[2] < q[2])
Place(p, S) == Cardinality({q \in S : Earlier(q, p)}) + 1

\* Between two notes, a client has been sent exactly the answers to its notes:
\* for each, all notes of all clients taken before it at its location, in
\* order, none missed because two handlers ran at once or because another
\* client vanished, and none twice.
AnswersExact ==
  \A c \in Chat \ gone : handler[c].pc \in {"read", "lock", "returned"} =>
    LET sent == client[c].got \o down[c]
    IN /\ Len(sent) = Cardinality(Due(c))
       /\ \A p \in Due(c) : sent[Place(p, Due(c))] = received[p[2]]

\* The server takes the notes of a client in the order they were written, each
\* once: a note of received_notes_ is as many notes into its author's script
\* as there are notes of that author up to it.
NotesInOrder ==
  \A i \in DOMAIN received :
    LET c == received[i].by
    IN received[i] = NoteOf(c, Cardinality({j \in 1 .. i : received[j].by = c}))

\* received_notes_ never changes while a handler iterates over it: a push_back
\* would invalidate its iterators.
IterationStable ==
  [][\A c \in Chat : handler[c].pc = "scan" /\ handler'[c].pc = "scan"
       => received' = received]_vars
==============================================================================
