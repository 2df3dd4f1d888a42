--------------------------- MODULE RouteChat_proofs ---------------------------
(***************************************************************************)
(* RouteChat for any number of chats, any scripts and any window: types    *)
(* and bounds, mutual exclusion by mu_, that nobody changes                *)
(* received_notes_ while a handler iterates over it, that the server takes *)
(* the notes of a client in order, and that every client is sent exactly   *)
(* the answers to its notes.                                               *)
(***************************************************************************)
EXTENDS RouteChat, FiniteSetTheorems, SequenceTheorems, TLAPS

\* A handler that has read a note keeps it until it has pushed it, and its
\* iterator starts at the first note.
HasNote ==
  \A c \in Chat :
    /\ handler[c].pc \in {"lock", "scan", "push"} => handler[c].note \in Note
    /\ handler[c].pc = "scan" => handler[c].i >= 1

\* mu_ is held by exactly the handler between its lock and its push_back, so
\* that no two handlers walk or change received_notes_ at once.
MutexExact == \A c \in Chat : handler[c].pc \in {"scan", "push"} <=> mu = c

ClientState == [sent : Nat, writesDone : BOOLEAN, got : Notes,
                ended : BOOLEAN]
HandlerState == [pc : HandlerPc, note : Note \cup {NULL}, i : Nat]

IInv == Shapes /\ Bounds /\ HasNote /\ MutexExact

-----------------------------------------------------------------------------
\* What Append, Head and Tail do to a stream or to received_notes_.
LEMMA AppendNote ==
  ASSUME NEW s \in Notes, NEW n \in Note
  PROVE  /\ Append(s, n) \in Notes
         /\ Len(Append(s, n)) = Len(s) + 1
BY DEF Notes

LEMMA TakeNote ==
  ASSUME NEW s \in Notes, s # <<>>
  PROVE  /\ Head(s) \in Note
         /\ Tail(s) \in Notes
         /\ Len(Tail(s)) = Len(s) - 1
BY DEF Notes

\* Lengths are numbers.
LEMMA Lengths ==
  ASSUME IInv, NEW c \in Chat
  PROVE  /\ Len(received) \in Nat /\ Len(Script[c]) \in Nat
         /\ Len(up[c]) \in Nat /\ Len(down[c]) \in Nat
         /\ Window \in Nat \ {0}
BY ConstantsAssumption DEF IInv, Shapes, Notes

\* The initial state satisfies the inductive invariant.
LEMMA InitIInv == Init => IInv
<1> SUFFICES ASSUME Init PROVE IInv
  OBVIOUS
<1> USE ConstantsAssumption DEF Init
<1>1. Shapes
  <2>1. <<>> \in Notes
    BY DEF Notes
  <2> QED
    BY <2>1 DEF Shapes, HandlerPc
<1>2. HasNote /\ MutexExact
  BY DEF HasNote, MutexExact
<1>3. Bounds
  <2> SUFFICES ASSUME NEW c \in Chat
               PROVE  /\ handler[c].i <= Len(received) + 1
                      /\ client[c].sent <= Len(Script[c])
                      /\ Len(up[c]) <= Window
                      /\ Len(down[c]) <= Window
    BY DEF Bounds
  <2>1. Len(Script[c]) \in Nat
    OBVIOUS
  <2> QED
    BY <2>1
<1> QED
  BY <1>1, <1>2, <1>3 DEF IInv

-----------------------------------------------------------------------------
\* The client writes a note, unless the window is full.
LEMMA WriteNoteIInv == ASSUME IInv, NEW c \in Chat, WriteNote(c) PROVE IInv'
<1> DEFINE n == NoteOf(c, client[c].sent + 1)
<1>1. n \in Note
  <2>1. client[c].sent + 1 \in DOMAIN Script[c]
    BY Lengths, ConstantsAssumption DEF IInv, Shapes, WriteNote
  <2> QED
    BY <2>1 DEF Note
<1> HIDE DEF n
<1>2. /\ up' = [up EXCEPT ![c] = Append(up[c], n)]
      /\ client' = [client EXCEPT ![c].sent = client[c].sent + 1]
      /\ client[c].sent < Len(Script[c]) /\ Len(up[c]) < Window
      /\ UNCHANGED <<received, mu, handler, down, gone>>
  BY DEF WriteNote, n
<1>3. /\ Append(up[c], n) \in Notes
      /\ Len(Append(up[c], n)) = Len(up[c]) + 1
  BY <1>1, AppendNote DEF IInv, Shapes
<1>4. Shapes'
  <2>1. /\ client \in [Chat -> ClientState]
        /\ up \in [Chat -> Notes]
    BY DEF IInv, Shapes, ClientState
  <2>2. client' \in [Chat -> ClientState]
    BY <1>2, <2>1 DEF ClientState
  <2>3. up' \in [Chat -> Notes]
    BY <1>2, <1>3, <2>1
  <2> QED
    BY <1>2, <2>2, <2>3 DEF IInv, Shapes, ClientState
<1>5. Bounds'
  <2> SUFFICES ASSUME NEW d \in Chat
               PROVE  client'[d].sent <= Len(Script[d]) /\ Len(up'[d]) <= Window
    BY <1>2 DEF IInv, Bounds
  <2>1. client \in [Chat -> ClientState] /\ up \in [Chat -> Notes]
    BY DEF IInv, Shapes, ClientState
  <2>2. client[d].sent <= Len(Script[d]) /\ Len(up[d]) <= Window
    BY DEF IInv, Bounds
  <2>3. CASE d = c
    <3>1. client'[c].sent = client[c].sent + 1 /\ client[c].sent \in Nat
      BY <1>2, <2>1 DEF ClientState
    <3>2. up'[c] = Append(up[c], n)
      BY <1>2, <2>1
    <3> QED
      BY <1>2, <1>3, <2>3, <3>1, <3>2, Lengths
  <2>4. CASE d # c
    <3>1. client'[d].sent = client[d].sent /\ up'[d] = up[d]
      BY <1>2, <2>1, <2>4 DEF ClientState
    <3> QED
      BY <2>2, <3>1
  <2> QED
    BY <2>3, <2>4
<1> QED
  BY <1>2, <1>4, <1>5 DEF IInv, HasNote, MutexExact

\* The client reads a note.
LEMMA ReadNoteIInv == ASSUME IInv, NEW c \in Chat, ReadNote(c) PROVE IInv'
<1>1. /\ client' = [client EXCEPT ![c].got = Append(client[c].got, Head(down[c]))]
      /\ down' = [down EXCEPT ![c] = Tail(down[c])]
      /\ down[c] # <<>>
      /\ UNCHANGED <<received, mu, handler, up, gone>>
  BY DEF ReadNote
<1>2. /\ Head(down[c]) \in Note
      /\ Tail(down[c]) \in Notes
      /\ Len(Tail(down[c])) = Len(down[c]) - 1
  BY <1>1, TakeNote DEF IInv, Shapes
<1>3. Append(client[c].got, Head(down[c])) \in Notes
  BY <1>2, AppendNote DEF IInv, Shapes
<1>4. Shapes'
  BY <1>1, <1>2, <1>3 DEF IInv, Shapes
<1>5. Bounds'
  <2> SUFFICES ASSUME NEW d \in Chat
               PROVE  /\ client'[d].sent <= Len(Script[d])
                      /\ Len(down'[d]) <= Window
    BY <1>1 DEF IInv, Bounds
  <2>1. client'[d].sent = client[d].sent
    BY <1>1 DEF IInv, Shapes
  <2>2. down'[d] = IF d = c THEN Tail(down[c]) ELSE down[d]
    BY <1>1 DEF IInv, Shapes
  <2>3. /\ client[d].sent <= Len(Script[d])
        /\ Len(down[d]) <= Window
    BY DEF IInv, Bounds
  <2> QED
    BY <1>2, <2>1, <2>2, <2>3, Lengths
<1> QED
  BY <1>1, <1>4, <1>5 DEF IInv, HasNote, MutexExact

\* The client's steps at the end of its writing and of the stream.
LEMMA EndIInv ==
  ASSUME IInv, NEW c \in Chat, WritesDone(c) \/ FinishChat(c) PROVE IInv'
<1>1. /\ \/ client' = [client EXCEPT ![c].writesDone = TRUE]
         \/ client' = [client EXCEPT ![c].ended = TRUE]
      /\ UNCHANGED <<received, mu, handler, up, down, gone>>
  BY DEF WritesDone, FinishChat
<1>2. Shapes'
  <2>1. client \in [Chat -> ClientState]
    BY DEF IInv, Shapes, ClientState
  <2>2. client' \in [Chat -> ClientState]
    BY <1>1, <2>1 DEF ClientState
  <2> QED
    BY <1>1, <2>2 DEF IInv, Shapes, ClientState
<1>3. Bounds'
  <2>1. client \in [Chat -> ClientState]
    BY DEF IInv, Shapes, ClientState
  <2>2. \A d \in Chat : client'[d].sent = client[d].sent
    BY <1>1, <2>1 DEF ClientState
  <2>3. /\ UNCHANGED <<received, handler, up, down>>
        /\ Bounds
    BY <1>1 DEF IInv
  <2> QED
    BY <2>2, <2>3 DEF Bounds
<1> QED
  BY <1>1, <1>2, <1>3 DEF IInv, HasNote, MutexExact

\* The client vanishes, and what was sent to it with it.
LEMMA VanishIInv == ASSUME IInv, NEW c \in Chat, Vanish(c) PROVE IInv'
<1>1. /\ gone' = gone \cup {c}
      /\ down' = [down EXCEPT ![c] = <<>>]
      /\ UNCHANGED <<received, mu, handler, client, up>>
  BY DEF Vanish
<1>2. <<>> \in Notes /\ Len(<<>>) = 0
  BY DEF Notes
<1>3. Shapes'
  BY <1>1, <1>2 DEF IInv, Shapes
<1>4. Bounds'
  BY <1>1, <1>2, Lengths DEF IInv, Shapes, Bounds
<1> QED
  BY <1>1, <1>3, <1>4 DEF IInv, HasNote, MutexExact

-----------------------------------------------------------------------------
\* A handler reads a note.
LEMMA ServerReadIInv == ASSUME IInv, NEW c \in Chat, ServerRead(c) PROVE IInv'
<1> USE DEF IInv, ServerRead
<1>1. /\ Head(up[c]) \in Note
      /\ Tail(up[c]) \in Notes
      /\ Len(Tail(up[c])) = Len(up[c]) - 1
  BY TakeNote DEF Shapes
<1>2. Shapes'
  <2>1. /\ handler \in [Chat -> HandlerState]
        /\ up \in [Chat -> Notes]
    BY DEF Shapes, HandlerState
  <2>2. handler' \in [Chat -> HandlerState]
    <3>1. handler' = [handler EXCEPT ![c].pc = "lock", ![c].note = Head(up[c])]
      OBVIOUS
    <3> QED
      BY ONLY <1>1, <2>1, <3>1 DEF HandlerState, HandlerPc
  <2>3. up' \in [Chat -> Notes]
    BY <1>1, <2>1
  <2>4. UNCHANGED <<received, mu, client, down, gone>>
    OBVIOUS
  <2> QED
    BY <2>2, <2>3, <2>4 DEF Shapes, HandlerState
<1>3. Bounds'
  <2> SUFFICES ASSUME NEW d \in Chat
               PROVE  handler'[d].i <= Len(received) + 1 /\ Len(up'[d]) <= Window
    BY DEF Bounds
  <2>1. handler'[d].i = handler[d].i
    BY DEF Shapes
  <2>2. up'[d] = IF d = c THEN Tail(up[c]) ELSE up[d]
    BY DEF Shapes
  <2>3. handler[d].i <= Len(received) + 1 /\ Len(up[d]) <= Window
    BY DEF Bounds
  <2> QED
    BY <1>1, <2>1, <2>2, <2>3, Lengths
<1>4. HasNote' /\ MutexExact'
  BY <1>1 DEF Shapes, HasNote, MutexExact
<1> QED
  BY <1>2, <1>3, <1>4

\* A handler is started, returns, or has walked all notes.
LEMMA PcIInv ==
  ASSUME IInv, NEW c \in Chat, StartChat(c) \/ ServerReturn(c) \/ ScanEnd(c)
  PROVE  IInv'
<1>0. handler \in [Chat -> HandlerState]
  BY DEF IInv, Shapes, HandlerState
<1>1. PICK pc \in {"read", "returned", "push"} :
        /\ handler' = [handler EXCEPT ![c].pc = pc]
        /\ pc = "push" => handler[c].pc = "scan"
        /\ pc # "push" => handler[c].pc \in {"none", "read"}
        /\ UNCHANGED <<received, mu, client, up, down, gone>>
  BY DEF StartChat, ServerReturn, ScanEnd, Goto
<1>2. Shapes'
  <2>1. handler' \in [Chat -> HandlerState]
    BY <1>0, <1>1 DEF HandlerState, HandlerPc
  <2> QED
    BY <1>1, <2>1 DEF IInv, Shapes, HandlerState
<1>3. Bounds'
  BY <1>1 DEF IInv, Shapes, Bounds
<1>4. HasNote' /\ MutexExact'
  BY <1>1 DEF IInv, Shapes, HasNote, MutexExact
<1> QED
  BY <1>2, <1>3, <1>4 DEF IInv

\* A handler takes mu_ and starts its walk.
LEMMA LockIInv == ASSUME IInv, NEW c \in Chat, Lock(c) PROVE IInv'
<1>1. /\ handler' = [handler EXCEPT ![c].pc = "scan", ![c].i = 1]
      /\ handler[c].pc = "lock" /\ mu = NULL /\ mu' = c
      /\ UNCHANGED <<received, client, up, down, gone>>
  BY DEF Lock
<1>2. Shapes'
  <2>1. handler \in [Chat -> HandlerState]
    BY DEF IInv, Shapes, HandlerState
  <2>2. handler' \in [Chat -> HandlerState]
    BY <1>1, <2>1 DEF HandlerState, HandlerPc
  <2> QED
    BY <1>1, <2>2 DEF IInv, Shapes, HandlerState
<1>3. Bounds'
  BY <1>1, Lengths DEF IInv, Shapes, Bounds
<1>4. HasNote'
  BY <1>1 DEF IInv, Shapes, HasNote
<1>5. MutexExact'
  BY <1>1, ConstantsAssumption DEF IInv, Shapes, MutexExact
<1> QED
  BY <1>2, <1>3, <1>4, <1>5 DEF IInv

\* A handler looks at one note, and answers with it if the places agree.
LEMMA ScanNoteIInv == ASSUME IInv, NEW c \in Chat, ScanNote(c) PROVE IInv'
<1> DEFINE n == received[handler[c].i]
<1>1. handler[c].i \in 1 .. Len(received)
  BY Lengths DEF IInv, Shapes, HasNote, ScanNote
<1>2. n \in Note
  BY <1>1 DEF IInv, Shapes, Notes
<1> HIDE DEF n
<1>3. /\ Append(down[c], n) \in Notes
      /\ Len(Append(down[c], n)) = Len(down[c]) + 1
  BY <1>2, AppendNote DEF IInv, Shapes
<1>4. /\ \/ UNCHANGED down
         \/ /\ Len(down[c]) < Window
            /\ down' = [down EXCEPT ![c] = Append(down[c], n)]
      /\ handler[c].pc = "scan"
      /\ handler' = [handler EXCEPT ![c].i = handler[c].i + 1]
      /\ UNCHANGED <<received, mu, client, up, gone>>
  BY DEF ScanNote, n
<1>5. Shapes'
  <2>1. /\ handler \in [Chat -> HandlerState]
        /\ down \in [Chat -> Notes]
    BY DEF IInv, Shapes, HandlerState
  <2>2. handler' \in [Chat -> HandlerState]
    BY <1>1, <1>4, <2>1 DEF HandlerState
  <2>3. down' \in [Chat -> Notes]
    BY <1>3, <1>4, <2>1
  <2> QED
    BY <1>4, <2>2, <2>3 DEF IInv, Shapes, HandlerState
<1>6. Bounds'
  <2> SUFFICES ASSUME NEW d \in Chat
               PROVE  /\ handler'[d].i <= Len(received) + 1
                      /\ Len(down'[d]) <= Window
    BY <1>4 DEF IInv, Bounds
  <2>1. handler'[d].i <= Len(received) + 1
    <3>1. /\ handler \in [Chat -> HandlerState]
          /\ handler[d].i <= Len(received) + 1
          /\ Len(received) \in Nat
      BY Lengths DEF IInv, Shapes, Bounds, HandlerState
    <3>2. handler'[d].i = IF d = c THEN handler[c].i + 1 ELSE handler[d].i
      BY <1>4, <3>1 DEF HandlerState
    <3> QED
      BY <1>1, <3>1, <3>2
  <2>2. Len(down'[d]) <= Window
    <3>1. /\ Len(down[c]) \in Nat /\ Window \in Nat
          /\ Len(down[d]) <= Window
          /\ down \in [Chat -> Notes]
      BY Lengths DEF IInv, Shapes, Bounds
    <3>2. CASE UNCHANGED down
      BY <3>1, <3>2
    <3>3. CASE /\ Len(down[c]) < Window
               /\ down' = [down EXCEPT ![c] = Append(down[c], n)]
      <4>1. down'[d] = IF d = c THEN Append(down[c], n) ELSE down[d]
        BY <3>1, <3>3
      <4> QED
        BY <1>3, <3>1, <3>3, <4>1
    <3> QED
      BY <1>4, <3>2, <3>3
  <2> QED
    BY <2>1, <2>2
<1>7. HasNote' /\ MutexExact'
  BY <1>1, <1>4 DEF IInv, Shapes, HasNote, MutexExact
<1> QED
  BY <1>5, <1>6, <1>7 DEF IInv

\* A handler appends its note and lets mu_ go.
LEMMA PushBackIInv == ASSUME IInv, NEW c \in Chat, PushBack(c) PROVE IInv'
<1>1. /\ handler' = [handler EXCEPT ![c] =
                       [pc |-> "read", note |-> NULL, i |-> 0]]
      /\ handler[c].pc = "push" /\ mu' = NULL
      /\ UNCHANGED <<client, up, down, gone>>
  BY DEF PushBack
<1>2. /\ received' \in Notes
      /\ Len(received') = Len(received) + 1
  BY AppendNote DEF IInv, Shapes, HasNote, PushBack
<1>3. Shapes'
  BY <1>1, <1>2 DEF IInv, Shapes, HandlerPc
<1>4. Bounds'
  <2> SUFFICES ASSUME NEW d \in Chat
               PROVE  handler'[d].i <= Len(received') + 1
    BY <1>1 DEF IInv, Bounds
  <2>1. Len(received) \in Nat
    BY Lengths
  <2>2. handler'[d].i <= Len(received) + 1
    BY <1>1, <2>1 DEF IInv, Shapes, Bounds
  <2>3. handler'[d].i \in Nat
    BY <1>3 DEF Shapes
  <2> QED
    BY <1>2, <2>1, <2>2, <2>3
<1>5. HasNote'
  BY <1>1 DEF IInv, Shapes, HasNote
<1>6. MutexExact'
  BY <1>1, ConstantsAssumption DEF IInv, Shapes, MutexExact
<1> QED
  BY <1>3, <1>4, <1>5, <1>6 DEF IInv

-----------------------------------------------------------------------------
\* Every step of RouteChat preserves the inductive invariant.
LEMMA NextIInv == IInv /\ [Next]_vars => IInv'
<1> SUFFICES ASSUME IInv, [Next]_vars PROVE IInv'
  OBVIOUS
<1>1. CASE UNCHANGED vars
  BY <1>1 DEF vars, IInv, Shapes, Bounds, HasNote, MutexExact
<1>2. CASE Next
  <2>1. PICK c \in Chat : \/ StartChat(c) \/ WriteNote(c) \/ WritesDone(c)
                          \/ ReadNote(c) \/ FinishChat(c) \/ Vanish(c)
                          \/ ServerStep(c) \/ Lock(c)
    BY <1>2 DEF Next
  <2> QED
    BY <2>1, WriteNoteIInv, ReadNoteIInv, EndIInv, VanishIInv, ServerReadIInv,
       PcIInv, LockIInv, ScanNoteIInv, PushBackIInv DEF ServerStep
<1> QED
  BY <1>1, <1>2

\* RouteChat keeps the inductive invariant: types, bounds, and the mutual
\* exclusion of the handlers by mu_.
THEOREM ChatInductive == Spec => []IInv
<1>1. Init => IInv
  BY InitIInv
<1>2. IInv /\ [Next]_vars => IInv'
  BY NextIInv
<1> QED
  BY <1>1, <1>2, PTL DEF Spec

\* Type correctness of RouteChat, with iterators within received_notes_ and
\* streams within their windows, for any number of chats.
THEOREM ChatTypeCorrect == Spec => []TypeOK
<1>1. IInv => TypeOK
  BY DEF IInv, TypeOK
<1> QED
  BY <1>1, ChatInductive, PTL

\* A step during which a handler goes on with its walk leaves received_notes_.
WalkStep == \A c \in Chat : handler[c].pc = "scan" /\ handler'[c].pc = "scan"
                              => received' = received

\* Every step of RouteChat is such a step: two handlers are never both between
\* their lock and their push_back.
LEMMA NextWalks == IInv /\ [Next]_vars => [WalkStep]_vars
<1> SUFFICES ASSUME IInv, Next, NEW c \in Chat, handler[c].pc = "scan",
                    handler'[c].pc = "scan"
             PROVE  received' = received
  BY DEF WalkStep
<1>1. PICK d \in Chat : \/ StartChat(d) \/ WriteNote(d) \/ WritesDone(d)
                        \/ ReadNote(d) \/ FinishChat(d) \/ Vanish(d)
                        \/ ServerStep(d) \/ Lock(d)
  BY DEF Next
<1>2. ~PushBack(d)
  <2> SUFFICES ASSUME PushBack(d) PROVE FALSE
    OBVIOUS
  <2>1. mu = c /\ mu = d
    BY DEF IInv, MutexExact, PushBack
  <2> QED
    BY <2>1 DEF PushBack
<1> QED
  BY <1>1, <1>2 DEF StartChat, Vanish, WriteNote, WritesDone, ReadNote,
     FinishChat, ServerStep, ServerRead, ServerReturn, ScanNote, ScanEnd, Lock

\* No push_back invalidates the iterator of another handler, for any number of
\* chats.
THEOREM ChatIterationStable == Spec => IterationStable
<1>1. IInv /\ [Next]_vars => [WalkStep]_vars
  BY NextWalks
<1> QED
  BY <1>1, ChatInductive, PTL DEF Spec, IterationStable, WalkStep

-----------------------------------------------------------------------------
(* The notes of one client on their way to received_notes_. *)

\* The places of c's notes in received_notes_, and whether its handler holds
\* one that is still to be put there.
Taken(c) == {j \in DOMAIN received : received[j].by = c}
Holds(c) == handler[c].pc \in {"lock", "scan", "push"}
Read(c) == Cardinality(Taken(c)) + (IF Holds(c) THEN 1 ELSE 0)

\* Of the notes c has written, the first are in received_notes_, the next one
\* is perhaps with the handler, and the rest are under way, in order.
PipeInv ==
  \A c \in Chat :
    /\ client[c].sent = Read(c) + Len(up[c])
    /\ \A m \in 1 .. Len(up[c]) : up[c][m] = NoteOf(c, Read(c) + m)
    /\ Holds(c) => handler[c].note = NoteOf(c, Read(c))

\* Places are numbers of received_notes_, and how many they are is a number.
LEMMA TakenFacts ==
  ASSUME IInv, NEW c \in Chat
  PROVE  /\ DOMAIN received = 1 .. Len(received)
         /\ Len(received) \in Nat
         /\ Taken(c) \subseteq 1 .. Len(received)
         /\ IsFiniteSet(Taken(c))
         /\ Cardinality(Taken(c)) \in Nat
         /\ Read(c) \in Nat
<1>1. received \in Seq(Note)
  BY DEF IInv, Shapes, Notes
<1>2. DOMAIN received = 1 .. Len(received) /\ Len(received) \in Nat
  BY <1>1, LenProperties
<1>3. Taken(c) \subseteq 1 .. Len(received)
  BY <1>2 DEF Taken
<1>4. IsFiniteSet(1 .. Len(received))
  BY <1>2, FS_Interval
<1>5. IsFiniteSet(Taken(c))
  BY <1>3, <1>4, FS_Subset
<1>6. Cardinality(Taken(c)) \in Nat
  BY <1>5, FS_CardinalityType
<1> QED
  BY <1>2, <1>3, <1>5, <1>6 DEF Read

\* Nothing is taken or written at first.
LEMMA InitPipe == Init => PipeInv /\ NotesInOrder
<1> SUFFICES ASSUME Init PROVE PipeInv /\ NotesInOrder
  OBVIOUS
<1>1. received = <<>> /\ DOMAIN received = {}
  BY DEF Init
<1>2. ASSUME NEW c \in Chat
      PROVE  /\ client[c].sent = 0 /\ Len(up[c]) = 0 /\ ~Holds(c)
             /\ Read(c) = 0
  <2>1. Taken(c) = {}
    BY <1>1 DEF Taken
  <2>2. Cardinality(Taken(c)) = 0
    BY <2>1, FS_EmptySet
  <2>3. client[c].sent = 0 /\ up[c] = <<>> /\ ~Holds(c)
    BY DEF Init, Holds
  <2> QED
    BY <2>2, <2>3 DEF Read
<1>3. PipeInv
  BY <1>2 DEF PipeInv
<1>4. NotesInOrder
  BY <1>1 DEF NotesInOrder
<1> QED
  BY <1>3, <1>4

\* What a step leaves of a chat when received_notes_ stays.
LEMMA PipeFrame ==
  ASSUME NEW d \in Chat, PipeInv, received' = received,
         client'[d].sent = client[d].sent, up'[d] = up[d],
         Holds(d)' <=> Holds(d),
         Holds(d) => handler'[d].note = handler[d].note
  PROVE  /\ client'[d].sent = Read(d)' + Len(up'[d])
         /\ \A m \in 1 .. Len(up'[d]) : up'[d][m] = NoteOf(d, Read(d)' + m)
         /\ Holds(d)' => handler'[d].note = NoteOf(d, Read(d)')
<1>1. Taken(d)' = Taken(d)
  BY DEF Taken
<1>2. Read(d)' = Read(d)
  BY <1>1 DEF Read
<1> QED
  BY <1>2 DEF PipeInv

\* The client writes its next note behind the others.
LEMMA WriteNotePipe ==
  ASSUME IInv, PipeInv, NEW c \in Chat, WriteNote(c)
  PROVE  PipeInv'
<1> DEFINE n == NoteOf(c, client[c].sent + 1)
<1>1. /\ up' = [up EXCEPT ![c] = Append(up[c], n)]
      /\ client' = [client EXCEPT ![c].sent = client[c].sent + 1]
      /\ UNCHANGED <<received, handler>>
  BY DEF WriteNote
<1>2. /\ up \in [Chat -> Notes] /\ client \in [Chat -> ClientState]
      /\ client[c].sent \in Nat
  BY DEF IInv, Shapes, ClientState
<1>3. SUFFICES ASSUME NEW d \in Chat
      PROVE  /\ client'[d].sent = Read(d)' + Len(up'[d])
             /\ \A m \in 1 .. Len(up'[d]) : up'[d][m] = NoteOf(d, Read(d)' + m)
             /\ Holds(d)' => handler'[d].note = NoteOf(d, Read(d)')
  BY DEF PipeInv
<1>4. CASE d # c
  <2>1. client'[d].sent = client[d].sent /\ up'[d] = up[d]
    BY <1>1, <1>2, <1>4 DEF ClientState
  <2> QED
    BY <1>1, <2>1, PipeFrame DEF Holds
<1>5. CASE d = c
  <2>1. Read(c)' = Read(c) /\ (Holds(c)' <=> Holds(c))
    BY <1>1 DEF Read, Taken, Holds
  <2>2. /\ client[c].sent = Read(c) + Len(up[c])
        /\ \A m \in 1 .. Len(up[c]) : up[c][m] = NoteOf(c, Read(c) + m)
        /\ Holds(c) => handler[c].note = NoteOf(c, Read(c))
    BY DEF PipeInv
  <2>3. client'[c].sent = client[c].sent + 1
    BY <1>1, <1>2 DEF ClientState
  <2>4. up'[c] = Append(up[c], n)
    BY <1>1, <1>2
  <2>5. up[c] \in Seq(Note) /\ Len(up[c]) \in Nat /\ Read(c) \in Nat
    BY <1>2, Lengths, TakenFacts DEF Notes
  <2>6. n = NoteOf(c, Read(c) + (Len(up[c]) + 1))
    BY <2>2, <2>5
  <2> HIDE DEF n
  <2>7. /\ Len(up'[c]) = Len(up[c]) + 1
        /\ \A m \in 1 .. Len(up[c]) : up'[c][m] = up[c][m]
        /\ up'[c][Len(up[c]) + 1] = n
    BY <2>4, <2>5
  <2>8. ASSUME NEW m \in 1 .. Len(up'[c])
        PROVE  up'[c][m] = NoteOf(c, Read(c) + m)
    <3>1. CASE m = Len(up[c]) + 1
      BY <2>6, <2>7, <3>1
    <3>2. CASE m \in 1 .. Len(up[c])
      BY <2>2, <2>7, <3>2
    <3> QED
      BY <2>5, <2>7, <3>1, <3>2
  <2> QED
    BY <1>1, <1>5, <2>1, <2>2, <2>3, <2>5, <2>7, <2>8
<1> QED
  BY <1>4, <1>5

\* The handler takes the first note that is under way.
LEMMA ServerReadPipe ==
  ASSUME IInv, PipeInv, NEW c \in Chat, ServerRead(c)
  PROVE  PipeInv'
<1>1. /\ handler[c].pc = "read" /\ up[c] # <<>>
      /\ handler' = [handler EXCEPT ![c].pc = "lock", ![c].note = Head(up[c])]
      /\ up' = [up EXCEPT ![c] = Tail(up[c])]
      /\ UNCHANGED <<received, client>>
  BY DEF ServerRead
<1>2. up \in [Chat -> Notes] /\ handler \in [Chat -> HandlerState]
  BY DEF IInv, Shapes, HandlerState
<1>3. /\ handler'[c].pc = "lock" /\ handler'[c].note = Head(up[c])
      /\ \A d \in Chat \ {c} : handler'[d] = handler[d]
  BY <1>1, <1>2 DEF HandlerState
<1>4. SUFFICES ASSUME NEW d \in Chat
      PROVE  /\ client'[d].sent = Read(d)' + Len(up'[d])
             /\ \A m \in 1 .. Len(up'[d]) : up'[d][m] = NoteOf(d, Read(d)' + m)
             /\ Holds(d)' => handler'[d].note = NoteOf(d, Read(d)')
  BY DEF PipeInv
<1>5. CASE d # c
  <2>1. up'[d] = up[d] /\ handler'[d] = handler[d]
    BY <1>1, <1>2, <1>3, <1>5
  <2> QED
    BY <1>1, <2>1, PipeFrame DEF Holds
<1>6. CASE d = c
  <2>1. ~Holds(c) /\ Holds(c)' /\ Taken(c)' = Taken(c)
    BY <1>1, <1>3 DEF Holds, Taken
  <2>2. /\ up[c] \in Seq(Note) /\ Len(up[c]) \in Nat
        /\ Read(c) \in Nat /\ Cardinality(Taken(c)) \in Nat
    BY <1>2, Lengths, TakenFacts DEF Notes
  <2>3. Read(c)' = Read(c) + 1
    BY <2>1, <2>2 DEF Read
  <2>4. /\ client[c].sent = Read(c) + Len(up[c])
        /\ \A m \in 1 .. Len(up[c]) : up[c][m] = NoteOf(c, Read(c) + m)
    BY DEF PipeInv
  <2>5. up'[c] = Tail(up[c])
    BY <1>1, <1>2
  <2>6. /\ Len(up'[c]) = Len(up[c]) - 1
        /\ \A m \in 1 .. Len(up'[c]) : up'[c][m] = up[c][m + 1]
        /\ Len(up'[c]) \in Nat
    <3>1. /\ Tail(up[c]) \in Seq(Note)
          /\ Len(Tail(up[c])) = Len(up[c]) - 1
          /\ \A m \in 1 .. Len(Tail(up[c])) : Tail(up[c])[m] = up[c][m + 1]
      BY <1>1, <2>2, HeadTailProperties
    <3>2. Len(Tail(up[c])) \in Nat
      BY <3>1, LenProperties
    <3> QED
      BY <2>5, <3>1, <3>2
  <2>7. Head(up[c]) = NoteOf(c, Read(c) + 1)
    BY <1>1, <2>2, <2>4, HeadTailProperties
  <2>8. ASSUME NEW m \in 1 .. Len(up'[c])
        PROVE  up'[c][m] = NoteOf(c, Read(c)' + m)
    <3>1. /\ m + 1 \in 1 .. Len(up[c])
          /\ Read(c) + 1 + m = Read(c) + (m + 1)
      <4>1. m \in Nat /\ m >= 1 /\ m <= Len(up[c]) - 1
        BY <2>2, <2>6
      <4> QED
        BY <2>2, <4>1
    <3> QED
      BY <2>3, <2>4, <2>6, <3>1
  <2> QED
    BY <1>1, <1>3, <1>6, <2>2, <2>3, <2>4, <2>6, <2>7, <2>8
<1> QED
  BY <1>5, <1>6

\* The other steps that leave received_notes_ move no note.
LEMMA QuietPipe ==
  ASSUME IInv, PipeInv, NEW c \in Chat,
         \/ StartChat(c) \/ WritesDone(c) \/ ReadNote(c) \/ FinishChat(c)
         \/ Vanish(c) \/ ServerReturn(c) \/ Lock(c) \/ ScanNote(c) \/ ScanEnd(c)
  PROVE  PipeInv'
<1>1. received' = received /\ up' = up
  BY DEF StartChat, WritesDone, ReadNote, FinishChat, Vanish, ServerReturn,
     Lock, ScanNote, ScanEnd
<1>2. ASSUME NEW d \in Chat PROVE client'[d].sent = client[d].sent
  <2>1. client \in [Chat -> ClientState]
    BY DEF IInv, Shapes, ClientState
  <2>2. CASE client' = client
    BY <2>2
  <2>3. CASE ReadNote(c)
    BY <2>1, <2>3 DEF ReadNote, ClientState
  <2>4. CASE WritesDone(c)
    BY <2>1, <2>4 DEF WritesDone, ClientState
  <2>5. CASE FinishChat(c)
    BY <2>1, <2>5 DEF FinishChat, ClientState
  <2> QED
    BY <2>2, <2>3, <2>4, <2>5 DEF StartChat, Vanish, ServerReturn, Lock,
       ScanNote, ScanEnd
<1>3. ASSUME NEW d \in Chat
      PROVE  /\ Holds(d)' <=> Holds(d)
             /\ handler'[d].note = handler[d].note
  <2>1. handler \in [Chat -> HandlerState]
    BY DEF IInv, Shapes, HandlerState
  <2>2. CASE handler' = handler
    BY <2>2 DEF Holds
  <2>3. CASE StartChat(c) \/ ServerReturn(c) \/ ScanEnd(c)
    BY <2>1, <2>3 DEF StartChat, ServerReturn, ScanEnd, Goto, Holds,
       HandlerState
  <2>4. CASE Lock(c)
    BY <2>1, <2>4 DEF Lock, Holds, HandlerState
  <2>5. CASE ScanNote(c)
    BY <2>1, <2>5 DEF ScanNote, Holds, HandlerState
  <2> QED
    BY <2>2, <2>3, <2>4, <2>5 DEF WritesDone, ReadNote, FinishChat, Vanish
<1> QED
  BY <1>1, <1>2, <1>3, PipeFrame DEF PipeInv

\* How many notes of d are in received_notes_ once c's note is there.
LEMMA TakenAfterPush ==
  ASSUME IInv, PipeInv, NEW c \in Chat, PushBack(c)
  PROVE  /\ Len(received') = Len(received) + 1
         /\ DOMAIN received' = 1 .. Len(received) + 1
         /\ \A j \in 1 .. Len(received) : received'[j] = received[j]
         /\ received'[Len(received) + 1] = handler[c].note
         /\ handler[c].note = NoteOf(c, Read(c)) /\ handler[c].note.by = c
         /\ Cardinality(Taken(c)) + 1 = Read(c)
         /\ Taken(c)' = Taken(c) \cup {Len(received) + 1}
         /\ Cardinality(Taken(c)') = Read(c)
         /\ \A d \in Chat \ {c} : Taken(d)' = Taken(d)
<1> DEFINE n == handler[c].note
<1>1. /\ received' = Append(received, n)
      /\ received \in Seq(Note) /\ n \in Note
      /\ Holds(c) /\ Len(received) \in Nat
      /\ DOMAIN received = 1 .. Len(received)
  BY TakenFacts DEF PushBack, IInv, Shapes, Notes, HasNote, Holds
<1>2. n = NoteOf(c, Read(c))
  BY <1>1 DEF PipeInv
<1>3. n.by = c
  BY <1>2 DEF NoteOf
<1> HIDE DEF n
<1>4. /\ Len(received') = Len(received) + 1
      /\ DOMAIN received' = 1 .. Len(received) + 1
      /\ \A j \in 1 .. Len(received) : received'[j] = received[j]
      /\ received'[Len(received) + 1] = n
  BY <1>1, AppendProperties
<1>5. Taken(c)' = Taken(c) \cup {Len(received) + 1}
  BY <1>1, <1>3, <1>4 DEF Taken
<1>6. \A d \in Chat \ {c} : Taken(d)' = Taken(d)
  BY <1>1, <1>3, <1>4 DEF Taken
<1>7. /\ IsFiniteSet(Taken(c)) /\ Taken(c) \subseteq 1 .. Len(received)
      /\ Cardinality(Taken(c)) \in Nat
  BY TakenFacts
<1>8. Len(received) + 1 \notin Taken(c)
  BY <1>1, <1>7
<1>9. Cardinality(Taken(c) \cup {Len(received) + 1}) = Cardinality(Taken(c)) + 1
  BY <1>7, <1>8, FS_AddElement
<1>10. Read(c) = Cardinality(Taken(c)) + 1
  BY <1>1 DEF Read
<1> QED
  BY <1>2, <1>3, <1>4, <1>5, <1>6, <1>9, <1>10 DEF n

\* Once the note is in received_notes_, the handler holds none.
LEMMA PushBackPipe ==
  ASSUME IInv, PipeInv, NEW c \in Chat, PushBack(c)
  PROVE  PipeInv'
<1>1. /\ up' = up /\ client' = client
      /\ handler \in [Chat -> HandlerState]
      /\ handler' = [handler EXCEPT ![c] =
                       [pc |-> "read", note |-> NULL, i |-> 0]]
  BY DEF PushBack, IInv, Shapes, HandlerState
<1>2. /\ handler'[c].pc = "read"
      /\ \A d \in Chat \ {c} : handler'[d] = handler[d]
  BY <1>1
<1>3. ASSUME NEW d \in Chat
      PROVE  Read(d)' = Read(d) /\ (Holds(d)' => handler'[d] = handler[d] /\ Holds(d))
  <2>1. CASE d = c
    <3>1. /\ Cardinality(Taken(c)') = Read(c) /\ ~Holds(c)'
          /\ Read(c) \in Nat
      BY <1>2, TakenAfterPush, TakenFacts DEF Holds
    <3> QED
      BY <2>1, <3>1 DEF Read
  <2>2. CASE d # c
    BY <1>2, <2>2, TakenAfterPush DEF Read, Holds
  <2> QED
    BY <2>1, <2>2
<1> QED
  BY <1>1, <1>3 DEF PipeInv

\* The notes that are taken stay as they are.
LEMMA StillInOrder ==
  NotesInOrder /\ received' = received => NotesInOrder'
BY DEF NotesInOrder

\* The note that is taken is the next one of its author.
LEMMA PushBackInOrder ==
  ASSUME IInv, PipeInv, NotesInOrder, NEW c \in Chat, PushBack(c)
  PROVE  NotesInOrder'
<1> DEFINE L == Len(received)
<1>1. /\ L \in Nat
      /\ DOMAIN received = 1 .. L
      /\ DOMAIN received' = 1 .. L + 1
      /\ \A j \in 1 .. L : received'[j] = received[j]
      /\ received'[L + 1] = NoteOf(c, Read(c)) /\ received'[L + 1].by = c
      /\ Cardinality(Taken(c)') = Read(c)
  BY TakenAfterPush, TakenFacts
<1> HIDE DEF L
<1>2. SUFFICES ASSUME NEW i \in 1 .. L + 1
      PROVE  received'[i] = NoteOf(received'[i].by,
               Cardinality({j \in 1 .. i : received'[j].by = received'[i].by}))
  BY <1>1 DEF NotesInOrder
<1>3. CASE i = L + 1
  <2>1. {j \in 1 .. i : received'[j].by = c} = Taken(c)'
    BY <1>1, <1>3 DEF Taken
  <2> QED
    BY <1>1, <1>3, <2>1
<1>4. CASE i \in 1 .. L
  <2>1. received[i] = NoteOf(received[i].by,
          Cardinality({j \in 1 .. i : received[j].by = received[i].by}))
    BY <1>1, <1>4 DEF NotesInOrder
  <2>2. \A j \in 1 .. i : received'[j] = received[j]
    BY <1>1, <1>4
  <2>3. {j \in 1 .. i : received'[j].by = received'[i].by}
          = {j \in 1 .. i : received[j].by = received[i].by}
    BY <1>1, <1>4, <2>2
  <2> QED
    BY <1>1, <1>4, <2>1, <2>3
<1>5. i = L + 1 \/ i \in 1 .. L
  <2>1. L \in Nat
    BY <1>1
  <2> QED
    BY <2>1
<1> QED
  BY <1>3, <1>4, <1>5

\* Every step keeps the notes of every client in order on their whole way.
LEMMA NextPipe ==
  IInv /\ PipeInv /\ NotesInOrder /\ [Next]_vars => PipeInv' /\ NotesInOrder'
<1> SUFFICES ASSUME IInv, PipeInv, NotesInOrder, [Next]_vars
             PROVE  PipeInv' /\ NotesInOrder'
  OBVIOUS
<1>1. CASE UNCHANGED vars
  <2>1. \A c \in Chat : Read(c)' = Read(c) /\ (Holds(c)' <=> Holds(c))
    BY <1>1 DEF vars, Read, Taken, Holds
  <2> QED
    BY <1>1, <2>1, StillInOrder DEF vars, PipeInv
<1>2. CASE Next
  <2>1. PICK c \in Chat : \/ StartChat(c) \/ WriteNote(c) \/ WritesDone(c)
                          \/ ReadNote(c) \/ FinishChat(c) \/ Vanish(c)
                          \/ ServerStep(c) \/ Lock(c)
    BY <1>2 DEF Next
  <2>2. PipeInv'
    BY <2>1, WriteNotePipe, ServerReadPipe, QuietPipe, PushBackPipe
       DEF ServerStep
  <2>3. PushBack(c) \/ received' = received
    BY <2>1 DEF StartChat, WriteNote, WritesDone, ReadNote, FinishChat, Vanish,
       ServerStep, ServerRead, ServerReturn, ScanNote, ScanEnd, Lock
  <2> QED
    BY <2>2, <2>3, StillInOrder, PushBackInOrder
<1> QED
  BY <1>1, <1>2

\* From the writer's script to received_notes_, no note of a client is lost,
\* doubled or overtaken, with any number of clients and any windows.
THEOREM ChatPipeInductive == Spec => [](IInv /\ PipeInv /\ NotesInOrder)
<1>1. Init => IInv /\ PipeInv /\ NotesInOrder
  BY InitIInv, InitPipe
<1>2. IInv /\ PipeInv /\ NotesInOrder /\ [Next]_vars
        => (IInv /\ PipeInv /\ NotesInOrder)'
  BY NextIInv, NextPipe
<1> QED
  BY <1>1, <1>2, PTL DEF Spec

\* The server takes the notes of each client in the order they were written,
\* each once, for any number of clients.
THEOREM ChatNotesInOrder == Spec => []NotesInOrder
BY ChatPipeInductive, PTL

-----------------------------------------------------------------------------
(* The answers a client is sent. *)

Pairs == Nat \X Nat
Before(p, S) == {q \in S : Earlier(q, p)}

\* The answers s are those that the pairs of S name, in the order of the pairs.
Ranked(s, f, S) == /\ Len(s) = Cardinality(S)
                   /\ \A p \in S : s[Place(p, S)] = f[p[2]]
AllEarlier(S, x) == \A p \in S : Earlier(p, x)

\* An answer that belongs behind all others may be appended to them: the
\* others keep their places, and it gets the last one.
LEMMA RankAppend ==
  ASSUME NEW A, NEW s \in Seq(A), NEW e \in A, NEW f,
         NEW S, S \subseteq Pairs, IsFiniteSet(S),
         NEW x \in Pairs, AllEarlier(S, x), Ranked(s, f, S), e = f[x[2]]
  PROVE  Ranked(Append(s, e), f, S \cup {x})
<1> USE DEF AllEarlier, Ranked
<1>1. \A p, q \in Pairs : Earlier(p, q) => ~Earlier(q, p)
  BY DEF Pairs, Earlier
<1>2. x \notin S
  BY <1>1
<1>3. Len(s) \in Nat /\ Cardinality(S) \in Nat
  BY FS_CardinalityType
<1>4. IsFiniteSet(S \cup {x}) /\ Cardinality(S \cup {x}) = Cardinality(S) + 1
  BY <1>2, FS_AddElement
<1>5. /\ Len(Append(s, e)) = Len(s) + 1
      /\ \A i \in 1 .. Len(s) : Append(s, e)[i] = s[i]
      /\ Append(s, e)[Len(s) + 1] = e
  BY AppendProperties
<1>6. ASSUME NEW p \in S
      PROVE  Append(s, e)[Place(p, S \cup {x})] = f[p[2]]
  <2>1. Before(p, S \cup {x}) = Before(p, S)
    BY <1>1 DEF Before
  <2>2. Before(p, S) \subseteq S \ {p}
    BY <1>1 DEF Before
  <2>3. IsFiniteSet(S \ {p}) /\ Cardinality(S \ {p}) = Cardinality(S) - 1
    BY FS_RemoveElement
  <2>4. /\ IsFiniteSet(Before(p, S))
        /\ Cardinality(Before(p, S)) <= Cardinality(S) - 1
    BY <2>2, <2>3, FS_Subset
  <2>5. Cardinality(Before(p, S)) \in Nat
    BY <2>4, FS_CardinalityType
  <2>6. /\ Place(p, S) = Cardinality(Before(p, S)) + 1
        /\ Place(p, S \cup {x}) = Place(p, S)
    BY <2>1 DEF Place, Before
  <2>7. Place(p, S) \in 1 .. Len(s)
    BY <1>3, <2>4, <2>5, <2>6
  <2> QED
    BY <1>5, <2>6, <2>7
<1>7. Append(s, e)[Place(x, S \cup {x})] = f[x[2]]
  <2>1. Before(x, S \cup {x}) = S
    BY <1>1 DEF Before
  <2>2. Place(x, S \cup {x}) = Len(s) + 1
    BY <2>1 DEF Place, Before
  <2> QED
    BY <1>5, <2>2
<1> QED
  BY <1>4, <1>5, <1>6, <1>7

\* An element appended to the second of two sequences is appended to both.
LEMMA AppendBehind ==
  ASSUME NEW A, NEW s \in Seq(A), NEW t \in Seq(A), NEW e \in A
  PROVE  s \o Append(t, e) = Append(s \o t, e)
<1>1. <<e>> \in Seq(A)
  OBVIOUS
<1>2. Append(t, e) = t \o <<e>>
  BY AppendIsConcat
<1>3. s \o t \in Seq(A)
  BY ConcatProperties
<1>4. Append(s \o t, e) = (s \o t) \o <<e>>
  BY <1>3, AppendIsConcat
<1>5. (s \o t) \o <<e>> = s \o (t \o <<e>>)
  BY <1>1, ConcatAssociative
<1> QED
  BY <1>2, <1>4, <1>5

\* A message that moves from a stream to what was got of it moves in the two
\* together from nowhere.
LEMMA HandOver ==
  ASSUME NEW A, NEW got \in Seq(A), NEW d \in Seq(A), d # <<>>
  PROVE  Append(got, Head(d)) \o Tail(d) = got \o d
<1>1. /\ Head(d) \in A /\ Tail(d) \in Seq(A)
      /\ Len(Tail(d)) = Len(d) - 1
      /\ \A i \in 1 .. Len(Tail(d)) : Tail(d)[i] = d[i + 1]
      /\ Head(d) = d[1]
      /\ Len(got) \in Nat /\ Len(d) \in Nat
  BY HeadTailProperties, LenProperties
<1>2. /\ Append(got, Head(d)) \in Seq(A)
      /\ Len(Append(got, Head(d))) = Len(got) + 1
      /\ \A i \in 1 .. Len(got) : Append(got, Head(d))[i] = got[i]
      /\ Append(got, Head(d))[Len(got) + 1] = Head(d)
  BY <1>1, AppendProperties
<1> DEFINE s == Append(got, Head(d)) \o Tail(d)
           t == got \o d
<1>3. /\ s \in Seq(A)
      /\ Len(s) = Len(got) + Len(d)
      /\ \A i \in 1 .. Len(got) + Len(d) :
           s[i] = IF i <= Len(got) + 1 THEN Append(got, Head(d))[i]
                  ELSE Tail(d)[i - (Len(got) + 1)]
  <2>1. /\ s \in Seq(A)
        /\ Len(s) = Len(Append(got, Head(d))) + Len(Tail(d))
        /\ \A i \in 1 .. Len(Append(got, Head(d))) + Len(Tail(d)) :
             s[i] = IF i <= Len(Append(got, Head(d)))
                    THEN Append(got, Head(d))[i]
                    ELSE Tail(d)[i - Len(Append(got, Head(d)))]
    BY <1>1, <1>2, ConcatProperties
  <2> QED
    BY <1>1, <1>2, <2>1
<1>4. /\ t \in Seq(A)
      /\ Len(t) = Len(got) + Len(d)
      /\ \A i \in 1 .. Len(got) + Len(d) :
           t[i] = IF i <= Len(got) THEN got[i] ELSE d[i - Len(got)]
  BY ConcatProperties
<1> HIDE DEF s, t
<1>5. ASSUME NEW i \in 1 .. Len(s) PROVE s[i] = t[i]
  <2>1. CASE i <= Len(got)
    BY <1>1, <1>2, <1>3, <1>4, <2>1
  <2>2. CASE i = Len(got) + 1
    BY <1>1, <1>2, <1>3, <1>4, <2>2
  <2>3. CASE i > Len(got) + 1
    <3>1. /\ i - (Len(got) + 1) \in 1 .. Len(Tail(d))
          /\ (i - (Len(got) + 1)) + 1 = i - Len(got)
      BY <1>1, <1>3, <2>3
    <3>2. /\ s[i] = Tail(d)[i - (Len(got) + 1)]
          /\ t[i] = d[i - Len(got)]
      BY <1>1, <1>3, <1>4, <2>3
    <3> QED
      BY <1>1, <3>1, <3>2
  <2> QED
    BY <1>1, <1>3, <2>1, <2>2, <2>3
<1>6. s = t
  BY <1>3, <1>4, <1>5, SeqEqual
<1> QED
  BY <1>6 DEF s, t

\* What is due to c once its handler has put its note into received_notes_, as
\* far as the handler has walked.
Walking(c) == handler[c].pc \in {"scan", "push"}
Walked(c) == {<<Len(received) + 1, j>> :
                j \in {k \in 1 .. handler[c].i - 1 :
                         received[k].loc = handler[c].note.loc}}
Owed(c) == Due(c) \cup (IF Walking(c) THEN Walked(c) ELSE {})

\* What c has been sent.
Sent(c) == client[c].got \o down[c]

\* What has been sent to c is what is owed to it, each answer in its place.
Answered(c) == Ranked(Sent(c), received, Owed(c))

\* A handler has walked all notes when it comes to its push_back; and on the
\* way to that, too, its client has been sent exactly what it is owed.
AnswerInv ==
  /\ \A c \in Chat : handler[c].pc = "push" => handler[c].i = Len(received) + 1
  /\ \A c \in Chat \ gone : Answered(c)

\* A handler that does not walk owes what is due.
LEMMA AnswersFollow == AnswerInv => AnswersExact
BY DEF AnswerInv, Answered, Ranked, Owed, Walking, Sent, AnswersExact

\* Due and owed answers are finitely many pairs of places of received_notes_.
LEMMA OwedFacts ==
  ASSUME IInv, NEW c \in Chat
  PROVE  /\ Len(received) \in Nat /\ DOMAIN received = 1 .. Len(received)
         /\ handler[c].i \in Nat /\ handler[c].i <= Len(received) + 1
         /\ Due(c) \subseteq (1 .. Len(received)) \X (1 .. Len(received))
         /\ Owed(c) \subseteq (1 .. Len(received) + 1) \X (1 .. Len(received))
         /\ Owed(c) \subseteq Pairs
         /\ IsFiniteSet(Owed(c))
         /\ Sent(c) \in Seq(Note)
<1>1. Len(received) \in Nat /\ DOMAIN received = 1 .. Len(received)
  BY TakenFacts
<1>2. handler[c].i \in Nat /\ handler[c].i <= Len(received) + 1
  BY DEF IInv, Shapes, Bounds
<1>3. Due(c) \subseteq (1 .. Len(received)) \X (1 .. Len(received))
  BY <1>1 DEF Due
<1>4. Walked(c) \subseteq (1 .. Len(received) + 1) \X (1 .. Len(received))
  BY <1>1, <1>2 DEF Walked
<1>5. Owed(c) \subseteq (1 .. Len(received) + 1) \X (1 .. Len(received))
  BY <1>1, <1>3, <1>4 DEF Owed
<1>6. IsFiniteSet((1 .. Len(received) + 1) \X (1 .. Len(received)))
  <2>1. IsFiniteSet(1 .. Len(received) + 1) /\ IsFiniteSet(1 .. Len(received))
    BY <1>1, FS_Interval
  <2> QED
    BY <2>1, FS_Product
<1>7. IsFiniteSet(Owed(c))
  BY <1>5, <1>6, FS_Subset
<1>8. Sent(c) \in Seq(Note)
  <2>1. client[c].got \in Seq(Note) /\ down[c] \in Seq(Note)
    BY DEF IInv, Shapes, Notes
  <2> QED
    BY <2>1, ConcatProperties DEF Sent
<1> QED
  BY <1>1, <1>2, <1>3, <1>5, <1>7, <1>8 DEF Pairs

\* Nothing is due or sent at first.
LEMMA InitAnswers == Init => AnswerInv
<1> SUFFICES ASSUME Init, NEW c \in Chat PROVE Answered(c) /\ handler[c].pc = "none"
  BY DEF AnswerInv
<1>1. handler[c].pc = "none" /\ received = <<>> /\ DOMAIN received = {}
  BY DEF Init
<1>2. Owed(c) = {}
  BY <1>1 DEF Owed, Due, Walking
<1>3. Sent(c) = <<>>
  BY DEF Init, Sent
<1>4. Cardinality(Owed(c)) = 0 /\ Len(Sent(c)) = 0
  BY <1>2, <1>3, FS_EmptySet
<1> QED
  BY <1>1, <1>2, <1>4 DEF Answered, Ranked

\* What is owed and sent to a chat stays as long as nobody walks for it and
\* received_notes_ stays.
LEMMA AnswerFrame ==
  ASSUME NEW d, Answered(d), received' = received, Sent(d)' = Sent(d),
         Walking(d)' <=> Walking(d), Walking(d) => Walked(d)' = Walked(d)
  PROVE  Answered(d)'
<1>1. Due(d)' = Due(d)
  BY DEF Due
<1>2. Owed(d)' = Owed(d)
  BY <1>1 DEF Owed
<1> QED
  BY <1>2 DEF Answered

\* No step of one client and its handler but push_back touches what another
\* one is owed or sent.
LEMMA OthersAnswered ==
  ASSUME IInv, AnswerInv, NEW c \in Chat, NEW d \in Chat \ gone, d # c,
         \/ StartChat(c) \/ WriteNote(c) \/ WritesDone(c) \/ ReadNote(c)
         \/ FinishChat(c) \/ Vanish(c) \/ Lock(c) \/ ServerRead(c)
         \/ ServerReturn(c) \/ ScanNote(c) \/ ScanEnd(c)
  PROVE  Answered(d)' /\ handler'[d] = handler[d]
<1>1. /\ handler \in [Chat -> HandlerState] /\ client \in [Chat -> ClientState]
      /\ down \in [Chat -> Notes]
  BY DEF IInv, Shapes, HandlerState, ClientState
<1>2. received' = received
  BY DEF StartChat, WriteNote, WritesDone, ReadNote, FinishChat, Vanish, Lock,
     ServerRead, ServerReturn, ScanNote, ScanEnd
<1>3. handler'[d] = handler[d]
  BY <1>1 DEF StartChat, WriteNote, WritesDone, ReadNote, FinishChat, Vanish,
     Lock, ServerRead, ServerReturn, ScanNote, ScanEnd, Goto
<1>4. client'[d] = client[d]
  BY <1>1 DEF StartChat, WriteNote, WritesDone, ReadNote, FinishChat, Vanish,
     Lock, ServerRead, ServerReturn, ScanNote, ScanEnd
<1>5. down'[d] = down[d]
  BY <1>1 DEF StartChat, WriteNote, WritesDone, ReadNote, FinishChat, Vanish,
     Lock, ServerRead, ServerReturn, ScanNote, ScanEnd
<1>6. Sent(d)' = Sent(d)
  BY <1>4, <1>5 DEF Sent
<1>7. (Walking(d)' <=> Walking(d)) /\ Walked(d)' = Walked(d)
  BY <1>2, <1>3 DEF Walking, Walked
<1> QED
  BY <1>2, <1>3, <1>6, <1>7, AnswerFrame DEF AnswerInv

\* Before a handler walks, its steps and its client's move no answer and owe
\* none; neither do the client's steps at any time.
LEMMA QuietAnswered ==
  ASSUME IInv, AnswerInv, NEW c \in Chat \ gone,
         \/ StartChat(c) \/ WriteNote(c) \/ WritesDone(c) \/ FinishChat(c)
         \/ ServerRead(c) \/ ServerReturn(c)
  PROVE  Answered(c)'
<1>1. /\ handler \in [Chat -> HandlerState] /\ client \in [Chat -> ClientState]
  BY DEF IInv, Shapes, HandlerState, ClientState
<1>2. received' = received /\ down' = down
  BY DEF StartChat, WriteNote, WritesDone, FinishChat, ServerRead, ServerReturn
<1>3. client'[c].got = client[c].got
  BY <1>1 DEF StartChat, WriteNote, WritesDone, FinishChat, ServerRead,
     ServerReturn, ClientState
<1>4. Sent(c)' = Sent(c)
  BY <1>2, <1>3 DEF Sent
<1>5. \/ handler' = handler
      \/ ~Walking(c) /\ ~Walking(c)'
  BY <1>1 DEF StartChat, WriteNote, WritesDone, FinishChat, ServerRead,
     ServerReturn, Goto, Walking, HandlerState
<1>6. /\ Walking(c)' <=> Walking(c)
      /\ Walking(c) => Walked(c)' = Walked(c)
  BY <1>2, <1>5 DEF Walking, Walked
<1> QED
  BY <1>2, <1>4, <1>6, AnswerFrame DEF AnswerInv

\* An answer that the client reads moves from the stream to the client.
LEMMA ReadNoteAnswered ==
  ASSUME IInv, AnswerInv, NEW c \in Chat \ gone, ReadNote(c)
  PROVE  Answered(c)'
<1> DEFINE got == client[c].got
           d == down[c]
<1>1. /\ client \in [Chat -> ClientState] /\ down \in [Chat -> Notes]
      /\ d # <<>>
      /\ client' = [client EXCEPT ![c].got = Append(got, Head(d))]
      /\ down' = [down EXCEPT ![c] = Tail(d)]
      /\ UNCHANGED <<received, handler>>
  BY DEF ReadNote, IInv, Shapes, ClientState
<1>2. got \in Seq(Note) /\ d \in Seq(Note)
  BY DEF IInv, Shapes, Notes
<1>3. client'[c].got = Append(got, Head(d)) /\ down'[c] = Tail(d)
  BY <1>1 DEF ClientState
<1>4. Sent(c)' = Append(got, Head(d)) \o Tail(d) /\ Sent(c) = got \o d
  BY <1>3 DEF Sent
<1> HIDE DEF got, d
<1>5. Append(got, Head(d)) \o Tail(d) = got \o d
  BY <1>1, <1>2, HandOver
<1>6. Sent(c)' = Sent(c)
  BY <1>4, <1>5
<1>7. (Walking(c)' <=> Walking(c)) /\ Walked(c)' = Walked(c)
  BY <1>1 DEF Walking, Walked
<1> QED
  BY <1>1, <1>6, <1>7, AnswerFrame DEF AnswerInv

\* A handler that starts or has ended its walk owes no more by that.
LEMMA WalkEndsAnswered ==
  ASSUME IInv, AnswerInv, NEW c \in Chat \ gone, Lock(c) \/ ScanEnd(c)
  PROVE  Answered(c)'
<1>1. /\ handler \in [Chat -> HandlerState]
      /\ UNCHANGED <<received, client, down>>
  BY DEF IInv, Shapes, HandlerState, Lock, ScanEnd
<1>2. Due(c)' = Due(c) /\ Sent(c)' = Sent(c)
  BY <1>1 DEF Due, Sent
<1>3. Owed(c)' = Owed(c)
  <2>1. CASE Lock(c)
    <3>1. handler'[c].pc = "scan" /\ handler'[c].i = 1 /\ ~Walking(c)
      BY <1>1, <2>1 DEF Lock, HandlerState, Walking
    <3>2. 1 .. handler'[c].i - 1 = {}
      BY <3>1
    <3>3. Walked(c)' = {}
      BY <3>2 DEF Walked
    <3> QED
      BY <1>2, <3>1, <3>3 DEF Owed
  <2>2. CASE ScanEnd(c)
    <3>1. /\ handler'[c].i = handler[c].i /\ handler'[c].note = handler[c].note
          /\ Walking(c) /\ Walking(c)'
      BY <1>1, <2>2 DEF ScanEnd, Goto, HandlerState, Walking
    <3>2. Walked(c)' = Walked(c)
      BY <1>1, <3>1 DEF Walked
    <3> QED
      BY <1>2, <3>1, <3>2 DEF Owed
  <2> QED
    BY <2>1, <2>2
<1> QED
  BY <1>1, <1>2, <1>3 DEF AnswerInv, Answered

\* The handler owes one more answer if the note it looks at is at the place of
\* its own, and sends it.
LEMMA ScanNoteAnswered ==
  ASSUME IInv, AnswerInv, NEW c \in Chat \ gone, ScanNote(c)
  PROVE  Answered(c)'
<1> DEFINE i == handler[c].i
           L == Len(received)
           x == <<L + 1, i>>
<1>1. /\ handler \in [Chat -> HandlerState] /\ down \in [Chat -> Notes]
      /\ UNCHANGED <<received, client>>
      /\ handler[c].pc = "scan"
      /\ handler' = [handler EXCEPT ![c].i = i + 1]
      /\ i \in 1 .. L /\ L \in Nat
  BY Lengths DEF IInv, Shapes, HasNote, HandlerState, ScanNote
<1>2. handler'[c].i = i + 1 /\ handler'[c].pc = "scan"
      /\ handler'[c].note = handler[c].note
  BY <1>1 DEF HandlerState
<1>3. Due(c)' = Due(c)
  BY <1>1 DEF Due
<1> DEFINE at == received[i].loc = handler[c].note.loc
<1>4. Walked(c)' = IF at THEN Walked(c) \cup {x} ELSE Walked(c)
  <2>1. 1 .. (i + 1) - 1 = (1 .. i - 1) \cup {i}
    BY <1>1
  <2>2. {k \in 1 .. (i + 1) - 1 : received[k].loc = handler[c].note.loc}
          = {k \in 1 .. i - 1 : received[k].loc = handler[c].note.loc}
              \cup (IF at THEN {i} ELSE {})
    BY <2>1
  <2> QED
    BY <1>1, <1>2, <2>2 DEF Walked
<1>5. Owed(c)' = IF at THEN Owed(c) \cup {x} ELSE Owed(c)
  BY <1>1, <1>2, <1>3, <1>4 DEF Owed, Walking
<1>6. CASE at
  <2>1. down' = [down EXCEPT ![c] = Append(down[c], received[i])]
    BY <1>6 DEF ScanNote
  <2>2. down'[c] = Append(down[c], received[i]) /\ client'[c] = client[c]
    BY <1>1, <2>1
  <2>3. received[i] \in Note
    BY <1>1 DEF IInv, Shapes, Notes
  <2>4. Sent(c)' = Append(Sent(c), received[i])
    <3>1. client[c].got \in Seq(Note) /\ down[c] \in Seq(Note)
      BY DEF IInv, Shapes, Notes
    <3>2. Sent(c)' = client[c].got \o Append(down[c], received[i])
      BY <2>2 DEF Sent
    <3> DEFINE g == client[c].got
               d == down[c]
               e == received[i]
    <3>3. g \in Seq(Note) /\ d \in Seq(Note) /\ e \in Note
      BY <2>3, <3>1
    <3> HIDE DEF g, d, e
    <3>4. g \o Append(d, e) = Append(g \o d, e)
      BY <3>3, AppendBehind
    <3> QED
      BY <3>2, <3>4 DEF Sent, g, d, e
  <2>5. \A p \in Owed(c) : Earlier(p, x)
    <3>1. \A p \in Due(c) : Earlier(p, x)
      BY <1>1, OwedFacts DEF Earlier
    <3>2. \A p \in Walked(c) : Earlier(p, x)
      BY <1>1 DEF Walked, Earlier
    <3> QED
      BY <3>1, <3>2 DEF Owed
  <2>6. /\ Sent(c) \in Seq(Note) /\ Owed(c) \subseteq Pairs
        /\ IsFiniteSet(Owed(c)) /\ x \in Pairs /\ x[2] = i
        /\ Ranked(Sent(c), received, Owed(c))
    BY <1>1, OwedFacts DEF AnswerInv, Answered, Pairs
  <2> DEFINE S == Owed(c)
             s == Sent(c)
             f == received
             e == received[i]
  <2>7. /\ s \in Seq(Note) /\ S \subseteq Pairs /\ IsFiniteSet(S)
        /\ x \in Pairs /\ e \in Note /\ e = f[x[2]]
        /\ AllEarlier(S, x) /\ Ranked(s, f, S)
    BY <2>3, <2>5, <2>6 DEF AllEarlier
  <2> HIDE DEF S, s, e, f, x
  <2>8. Ranked(Append(s, e), f, S \cup {x})
    BY <2>7, RankAppend
  <2>9. /\ Sent(c)' = Append(s, e) /\ Owed(c)' = S \cup {x}
        /\ received' = received
    BY <1>1, <1>5, <1>6, <2>4 DEF S, s, e, x
  <2> QED
    BY <2>8, <2>9 DEF Answered, f
<1>7. CASE ~at
  <2>1. down' = down
    BY <1>7 DEF ScanNote
  <2>2. Sent(c)' = Sent(c) /\ Owed(c)' = Owed(c) /\ received' = received
    BY <1>1, <1>5, <1>7, <2>1 DEF Sent
  <2> QED
    BY <2>2 DEF AnswerInv, Answered
<1> QED
  BY <1>6, <1>7

\* Once the note is in received_notes_, what its handler owed for it is due,
\* and what is due to the others is the same as before.
LEMMA PushBackAnswered ==
  ASSUME IInv, PipeInv, AnswerInv, NEW c \in Chat, PushBack(c),
         NEW d \in Chat \ gone
  PROVE  Answered(d)'
<1> DEFINE L == Len(received)
<1>1. /\ handler \in [Chat -> HandlerState]
      /\ handler' = [handler EXCEPT ![c] =
                       [pc |-> "read", note |-> NULL, i |-> 0]]
      /\ handler[c].pc = "push" /\ handler[c].i = L + 1
      /\ UNCHANGED <<client, down>>
  BY DEF PushBack, IInv, Shapes, HandlerState, AnswerInv
<1>2. /\ L \in Nat /\ DOMAIN received = 1 .. L
      /\ DOMAIN received' = 1 .. L + 1
      /\ \A j \in 1 .. L : received'[j] = received[j]
      /\ received'[L + 1] = handler[c].note /\ handler[c].note.by = c
  BY TakenAfterPush, TakenFacts
<1>3. Sent(d)' = Sent(d)
  BY <1>1 DEF Sent
<1>4. ~Walking(d)'
  <2>1. CASE d = c
    BY <1>1, <2>1 DEF Walking
  <2>2. CASE d # c
    <3>1. mu = c
      BY <1>1 DEF IInv, MutexExact
    <3>2. ~Walking(d)
      BY <2>2, <3>1 DEF IInv, MutexExact, Walking
    <3> QED
      BY <1>1, <2>2, <3>2 DEF Walking
  <2> QED
    BY <2>1, <2>2
<1>5. Owed(d)' = Due(d)'
  BY <1>4 DEF Owed
<1>6. Due(d)' = Owed(d)
  <2> DEFINE New == {p \in (1 .. L + 1) \X (1 .. L + 1) :
                       /\ received'[p[1]].by = d
                       /\ p[2] < p[1]
                       /\ received'[p[2]].loc = received'[p[1]].loc}
             Old == {p \in (1 .. L) \X (1 .. L) :
                       /\ received[p[1]].by = d
                       /\ p[2] < p[1]
                       /\ received[p[2]].loc = received[p[1]].loc}
             Added == {<<L + 1, j>> : j \in {k \in 1 .. L :
                         received[k].loc = handler[c].note.loc}}
  <2>1. Due(d)' = New /\ Due(d) = Old
    BY <1>2 DEF Due
  <2>2. Old \subseteq New
    BY <1>2
  <2>3. CASE d # c
    <3>1. New \subseteq Old
      BY <1>2, <2>3
    <3>2. Owed(d) = Due(d)
      BY <1>1, <2>3 DEF Owed, IInv, MutexExact, Walking
    <3> QED
      BY <2>1, <2>2, <3>1, <3>2
  <2>4. CASE d = c
    <3>1. (L + 1) - 1 = L
      BY <1>2
    <3>2. Owed(c) = Due(c) \cup Added
      BY <1>1, <3>1 DEF Owed, Walking, Walked
    <3>3. Added \subseteq New
      <4> SUFFICES ASSUME NEW j \in 1 .. L,
                          received[j].loc = handler[c].note.loc
                   PROVE  <<L + 1, j>> \in New
        OBVIOUS
      <4>1. L + 1 \in 1 .. L + 1 /\ j \in 1 .. L + 1 /\ j < L + 1
        BY <1>2
      <4>2. received'[j].loc = received'[L + 1].loc
        BY <1>2
      <4> QED
        BY <1>2, <2>4, <4>1, <4>2
    <3>4. ASSUME NEW p \in New PROVE p \in Old \cup Added
      <4>1. PICK a \in 1 .. L + 1, b \in 1 .. L + 1 : p = <<a, b>>
        OBVIOUS
      <4>2. b < a /\ received'[a].by = d /\ received'[b].loc = received'[a].loc
        BY <4>1
      <4>3. b \in 1 .. L
        BY <1>2, <4>1, <4>2
      <4>4. CASE a = L + 1
        <5>1. received[b].loc = handler[c].note.loc
          BY <1>2, <4>2, <4>3, <4>4
        <5> QED
          BY <4>1, <4>3, <4>4, <5>1
      <4>5. CASE a \in 1 .. L
        <5>1. received[a].by = d /\ received[b].loc = received[a].loc
          BY <1>2, <4>2, <4>3, <4>5
        <5> QED
          BY <4>1, <4>2, <4>3, <4>5, <5>1
      <4> QED
        BY <1>2, <4>4, <4>5
    <3> QED
      BY <2>1, <2>2, <2>4, <3>2, <3>3, <3>4
  <2> QED
    BY <2>3, <2>4
<1>7. \A p \in Owed(d) : received'[p[2]] = received[p[2]]
  BY <1>2, OwedFacts
<1> QED
  BY <1>3, <1>5, <1>6, <1>7 DEF AnswerInv, Answered, Ranked

\* A handler comes to its push_back only when it has walked all notes, and
\* there are no more of them until it has done so.
LEMMA PushEnd ==
  ASSUME IInv, AnswerInv, [Next]_vars, NEW d \in Chat, handler'[d].pc = "push"
  PROVE  handler'[d].i = Len(received') + 1
<1>1. handler \in [Chat -> HandlerState]
  BY DEF IInv, Shapes, HandlerState
<1>2. handler[d].pc = "push" => handler[d].i = Len(received) + 1
  BY DEF AnswerInv
<1>3. CASE UNCHANGED vars
  BY <1>2, <1>3 DEF vars
<1>4. CASE Next
  <2>1. PICK c \in Chat : \/ StartChat(c) \/ WriteNote(c) \/ WritesDone(c)
                          \/ ReadNote(c) \/ FinishChat(c) \/ Vanish(c)
                          \/ ServerStep(c) \/ Lock(c)
    BY <1>4 DEF Next
  <2>2. CASE ScanEnd(c)
    <3>1. received' = received /\ handler[c].i > Len(received)
      BY <2>2 DEF ScanEnd
    <3>2. handler'[d].i = handler[d].i
      BY <1>1, <2>2 DEF ScanEnd, Goto, HandlerState
    <3>3. CASE d = c
      BY <3>1, <3>2, <3>3, OwedFacts
    <3>4. CASE d # c
      BY <1>1, <1>2, <2>2, <3>1, <3>2, <3>4 DEF ScanEnd, Goto
    <3> QED
      BY <3>3, <3>4
  <2>3. CASE PushBack(c)
    <3>1. d # c /\ handler[d].pc = "push"
      BY <1>1, <2>3 DEF PushBack
    <3> QED
      BY <2>3, <3>1 DEF IInv, MutexExact, PushBack
  <2>4. CASE \/ StartChat(c) \/ ServerRead(c) \/ ServerReturn(c) \/ Lock(c)
             \/ ScanNote(c)
    <3>1. /\ handler'[d] = handler[d] \/ handler'[d].pc # "push"
          /\ received' = received
      BY <1>1, <2>4 DEF StartChat, ServerRead, ServerReturn, Lock, ScanNote,
         Goto, HandlerState
    <3> QED
      BY <1>2, <3>1
  <2>5. CASE \/ WriteNote(c) \/ WritesDone(c) \/ ReadNote(c) \/ FinishChat(c)
             \/ Vanish(c)
    BY <1>2, <2>5 DEF WriteNote, WritesDone, ReadNote, FinishChat, Vanish
  <2> QED
    BY <2>1, <2>2, <2>3, <2>4, <2>5 DEF ServerStep
<1> QED
  BY <1>3, <1>4

\* Every step keeps what clients have been sent equal to what they are owed.
LEMMA NextAnswers ==
  IInv /\ PipeInv /\ AnswerInv /\ [Next]_vars => AnswerInv'
<1> SUFFICES ASSUME IInv, PipeInv, AnswerInv, [Next]_vars PROVE AnswerInv'
  OBVIOUS
<1>1. CASE UNCHANGED vars
  <2>1. \A d \in Chat : Answered(d)' <=> Answered(d)
    BY <1>1 DEF vars, Answered, Sent, Owed, Due, Walking, Walked
  <2> QED
    BY <1>1, <2>1 DEF vars, AnswerInv
<1>2. CASE Next
  <2>1. PICK c \in Chat : \/ StartChat(c) \/ WriteNote(c) \/ WritesDone(c)
                          \/ ReadNote(c) \/ FinishChat(c) \/ Vanish(c)
                          \/ ServerStep(c) \/ Lock(c)
    BY <1>2 DEF Next
  <2>2. ASSUME NEW d \in Chat \ gone' PROVE Answered(d)'
    <3>1. d \in Chat \ gone /\ (Vanish(c) => d # c)
      BY <2>1 DEF StartChat, WriteNote, WritesDone, ReadNote, FinishChat,
         Vanish, ServerStep, ServerRead, ServerReturn, ScanNote, ScanEnd,
         PushBack, Lock
    <3>2. CASE PushBack(c)
      BY <3>1, <3>2, PushBackAnswered
    <3>3. CASE d # c /\ ~PushBack(c)
      BY <2>1, <3>1, <3>3, OthersAnswered DEF ServerStep
    <3>4. CASE d = c /\ ~PushBack(c)
      BY <2>1, <3>1, <3>4, QuietAnswered, ReadNoteAnswered, WalkEndsAnswered,
         ScanNoteAnswered DEF ServerStep
    <3> QED
      BY <3>2, <3>3, <3>4
  <2> QED
    BY <2>2, PushEnd DEF AnswerInv
<1> QED
  BY <1>1, <1>2

\* At every point of every walk, what a client was sent is what it is owed, for
\* any number of clients that talk at once or vanish.
THEOREM ChatAnswersInductive == Spec => [](IInv /\ PipeInv /\ AnswerInv)
<1>1. Init => IInv /\ PipeInv /\ AnswerInv /\ NotesInOrder
  BY InitIInv, InitPipe, InitAnswers
<1>2. IInv /\ PipeInv /\ AnswerInv /\ NotesInOrder /\ [Next]_vars
        => (IInv /\ PipeInv /\ AnswerInv /\ NotesInOrder)'
  BY NextIInv, NextPipe, NextAnswers
<1> QED
  BY <1>1, <1>2, PTL DEF Spec

\* Each client is sent, for each of its notes, exactly the earlier notes at its
\* location, of whichever client, in order and each once, for any number of
\* clients, any scripts and any windows.
THEOREM ChatAnswersExact == Spec => []AnswersExact
BY ChatAnswersInductive, AnswersFollow, PTL
==============================================================================
