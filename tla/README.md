# A verification project for CMake_GRPC

TLA+ models of the programs of this repository, the TLC runs that check them,
and TLAPS proofs about each of them. The repository collects several small client and server programs around one product
idea, a "session API" between a storage or transmitter device and its manager,
next to the gRPC examples they grew from. Of some 280000 lines all but about
3100 are vendored (protobuf, plog) or generated by protoc; the 3100 are what is
described here.

Paths below are relative to `src/`.

## 1. Inventory

### 1.1 Components

| # | Component | Source | State it keeps | Operations |
|---|-----------|--------|----------------|------------|
| 1 | Session client: asynchronous rpcs | `Cloudein_API_Client/Cloudein_Session_gRPC_Client.{h,cpp}` | `list_tag_idx_` with its mutex, the completion queue `cq_`, the call structs on the heap | ten `Do...` functions, `tag_push`, `tag_pop`, `StartAsyncCompleteRpc` (reaper), `StopAsyncCompleteRpc` |
| 2 | Session client: context and menu | `Cloudein_Session.{h,cpp}`, `Cloudein_API_Client.cpp`, `Cloudein_Session_Common.h` | two `std::thread`s, the state object, the two members above and below; `num` and the state of `std::cin` | `set_TS_gRPC`, `set_ST_gRPC`, `unsetGRPC`, the menu loop |
| 3 | Session client: operation server | `Cloudein_Session_gRPC_Server_Operation.{h,cpp}` | the pointer `server` | `StartSyncSingleRPC`, `StopSyncSingleRPC`, `DoOperation` |
| 4 | Session server (asynchronous) | `Cloudein_API_Server/Cloudein_API_Server.cpp` | `list_tag_idx_`, one `...Data` object per acceptor or call in service | `Run`, `HandleRpcs`, `Proceed` of four classes |
| 5 | REST session manager: registry | `Cpprest_API/server.cpp`, `stat_observer.cpp`, `g_config.h` | globals `tx_info_list`, its mutex, `tx_received`, `rm_ip`, `rm_port` | `configuration_handle`, `state_checker_loop`, `operation_handle` (never reached) |
| 6 | REST session manager: process, outgoing requests | `Cpprest_API/Cpprest_API.cpp`, `rest_req.cpp` | `g_stop_server`, `fd_log` | thread start, `session_connection` |
| 7 | RouteGuide `RouteChat` | `rg_callback_server/route_guide_server.cc`, `rg_callback_client/route_guide_client.cc` | `received_notes_` with `mu_` | the handler of one stream; the client's writer thread and reader |
| 8 | RouteGuide one-directional methods | the same files | the read-only feature list | `GetFeature`, `ListFeatures`, `RecordRoute` |
| 9 | RouteGuide database parser | `rg_callback_{server,client}/helper.cc` | `current_` in the text, `failed_`, the feature list | `Parser::TryParseOne`, `ParseDb` |
| 10 | Greeter client and server | `grpc_keepalive_{client,server}` | none | `SayHello` |
| 11 | Download client | `cpprest_client` | none | one HTTP GET |
| 12 | Vendored and generated code | `util_win`, `3rdParty`, `Cpprest_API/3rdParty`, `*.pb.*` | – | – |

### 1.2 How they interact

* 1, 2 and 3 are one process with three threads. The main thread runs the menu
  and issues calls; the TS thread is the reaper of 1; the ST thread builds 3 and
  waits in it. Main and TS share `list_tag_idx_` (under a mutex) and the heap
  addresses that pass through the completion queue. Main and ST share the
  pointer `server` with nothing to order the write and the read.
* 4 is another process with one thread. It uses the same trick as 1: the queue's
  tag is an address, and a list of pairs says which class the address has. It
  serves four of the ten methods that 1 calls; gRPC answers UNIMPLEMENTED to the
  other six.
* 5 and 6 are one process: a pool of listener threads runs the handlers, one
  thread runs the state checker, `main` spins.
* 7 and 8 are one server and any number of client programs. The server runs one
  handler thread per stream; the handlers of 7 share `received_notes_`, all
  handlers read the feature list. A client calls the four methods one after the
  other. Server and client each load their own list with 9, before anything else.

### 1.3 What is hard, and what makes each part correct

* **Client (1).** A completion carries an untyped address. The tag popped from
  the list decides the cast and the delete, addresses are reused at once, and
  two threads change the list. Correct: the list holds exactly the calls in
  flight, the pop always finds its pair, nothing refers to a deleted struct,
  every call ends although the peer may be silent, shutdown drains.
* **Context (2, 3).** Two servers' worth of shutdown and two joins in one order.
  Correct: nothing is torn down under a thread that uses it, and `0` ends the
  program.
* **Session server (4).** Objects register their successor, reply, and delete
  themselves, driven by completions in any order. Correct: each method always
  has exactly one acceptor, each object exactly one operation of the kind its
  status expects, each call is answered once by the right object.
* **Client and server together (1, 4).** Each side ends a call on its own: at its
  deadline, at a broken channel, at a reply. Both reuse addresses, and other
  peers call as well. Correct: a reply reaches the call it was made for or none.
* **Registry (5).** One global request buffer, written without the lock by every
  handler. Correct for requests one at a time: the list is a map of fresh
  transmitters. For concurrent requests only the list itself is protected.
* **RouteChat (7).** The handler writes to the stream while it holds the mutex.
  Correct: each note is answered with exactly the earlier notes at its place,
  iterators stay valid, no chat is stuck, not even by a client that is gone.
* **The other methods (8).** Two lists that may differ, corners in any order, a
  list that is empty. Correct: the client is listed exactly what is inside the
  rectangle, and its summary counts its own points.
* **Parser (9).** Index arithmetic that runs past the end, a number that does not
  fit, a file that was cut. Correct: no read outside the text, a whole file is
  loaded whole, a damaged one never makes up features.

`PROJECT.json` lists every hazard with its line and the properties about it.

## 2. Modules

| Module | Models | Proofs |
|--------|--------|--------|
| `TagList` | the list of pairs (tag, address) of 1 and 4: `TagPush`, `TagOf`, `TagErase` | `TagList_proofs` |
| `CallLedger` | abstract: what the client promises its user | |
| `SessionClient` | component 1 | `SessionClient_proofs` |
| `SessionContext` | components 2 and 3 around an instance of `SessionClient` | `SessionContext_proofs` |
| `SessionServer` | component 4 | `SessionSystem_proofs` |
| `SessionSystem` | 1 and 4 over one channel | `SessionSystem_proofs` |
| `TxTable` | abstract: what the registry promises a resource manager | |
| `TxRegistry` | components 5 and 6 | `TxRegistry_proofs` |
| `RouteChat` | component 7 | `RouteChat_proofs` |
| `RouteGuide` | components 7 and 8, the whole client program | `RouteGuide_proofs` |
| `DbParser` | component 9 | `DbParser_proofs` |
| `MC...` | the instances TLC checks | |

Definitions named `X_Something` under a comment "Faulty variant" are not part of
a specification. Each is a plausible bug in the definition `X` that follows it,
kept to confirm that a property notices that bug.

### 2.1 SessionClient

| Code | Model |
|------|-------|
| `new AsyncClientCall_Do...` with its deadline | `Request`, `NewCall`; `heap[a]` is the struct at address `a` |
| `tag_push(X_API, call)` under the mutex | `tag_push`, with `PushedTag` giving the enumerator the function really passes |
| `StartCall`; `Finish(..., call)` | `StartCall`, `FinishCall`; `rpc[a]` goes to "started", "watched" |
| `cq_.Shutdown()`, `join` | `StopAsyncCompleteRpc`, `Join` |
| `cq_.Next` true / false | `NextEvent` / `NextEnd` |
| `tag_pop` under the mutex | `tag_pop` |
| the `switch`: cast, print, `delete` | `Dispatch` |
| the sweep after the loop | `Cleanup` |
| the peer answers, the channel fails, the deadline passes | `Answer`, `Expire` (external) |

A section under the mutex is one step. Between any two steps of one thread the
other may run. gRPC promises no order between the completions of different
calls, so any queued event may be next. A heap cell is free again as soon as it
is deleted and may be the next one `new` returns: the number of cells bounds the
calls in flight and nothing else.

`CallLedger` is the promise without threads, queue or list: an issued call is
answered, an answered one is reaped once, nothing is issued once closing began,
and the ledger closes empty. `ImplementsLedger` maps a struct with status unset
to "issued", one that gRPC has written to "answered", and the main thread's
position to the phase.

### 2.2 SessionContext

`Client == INSTANCE SessionClient` runs unchanged; `stage` is where the main
thread is in menu and `unsetGRPC`, `server` is the member of that name and the
state of its object, `st` the ST thread, `ops` the number of `DoOperation`
handlers running. A call through the null pointer is the stage "crashed". When
`PortMayBeTaken`, `BuildAndStart` may return null and `server->Wait()` crashes.

`MenuTurn` is one turn of the menu: `std::cin >> num`, which is not tested, and
the `switch`. What the user gives is a number, something that is no number, a
number too great for an `int`, or the end of the input; `entry` keeps it. After
the last three the stream has failed for good and `num` no longer changes: junk
has stored 0, which is the shutdown; a number too great has stored the greatest
`int`; the end of the input has stored nothing, and the last call is repeated
for ever. Before any number `num` is uninitialised and may be any.

### 2.3 SessionServer

`heap[a]` is the object at `a` with method, status and the call its context was
matched with. `op[a]` is the gRPC operation with `a` as tag: `requested`
(`Request...API`), `matched` (its event is queued), `writing`
(`responder_.Finish`), `written` or `failed` (its event, with ok true or false).
The constructor runs `Proceed` in CREATE, so an object starts in PROCESS.
`BuildAndStart` returns null when the port is taken; `Run` goes on regardless and
the process is down from the start (`thread.pc` "down").
`Process` and `FinishAndDelete` are the two branches of `Proceed`; the single
thread makes each turn of the loop one step with respect to the other turns, and
gRPC's steps are only visible to it through the queue. Peers call served and
unserved methods and may give up at any time (`Die`).

### 2.4 SessionSystem

The module has the variables of `SessionServer` and an instance of
`SessionClient` with variables of its own, and `link`, which says which call at
the server carries a call of the client. `Send` joins `FinishCall` of the one to
`Arrive` of the other; `ClientSideEnds` joins the client's completion (a reply,
UNIMPLEMENTED, UNAVAILABLE, or the deadline) to the end of the link. The server
learns of the end of a call later (`ServerSideEnds`) or never, and goes on to
serve it. Other peers call too (`OtherCalls`). After the server aborted, every
call of the client fails or reaches its deadline.

### 2.5 TxRegistry

One action per step of `configuration_handle` between which another thread can
be seen: the test of `rm_ip`/`rm_port`, the copy into the one and the assignment
to the other (two handlers may both pass the test, and the second copy may leave
a mixture), the copy into
`tx_received` (start and end), lock, search, push, marking, unlock, the outgoing
request. Both searches take one step for each entry (`at` is the next), because
`tx_received.tx_ip` is read again at every comparison and may change between two.
Of two torn values `strcmp` may say either. The copy of `tx_ip` is not atomic: from `CopyStart` to `CopyEnd` other
threads read the value `Torn`, and copies that overlap may leave any address or
`Torn`. All torn values are one. Requests may carry a Port header that is no
number (`stoi` throws after `rm_ip` was set), a body that is no JSON, or one that
lacks a later field (throws after `tx_ip` was copied).

The state checker's pass is one step under the lock. An entry keeps its age in
place of `init_time`; ages are counted up to `AgeCap`. `Limit` has the limits the
code applies, of which the one for INIT is the literal 10 of `stat_observer.cpp:33`
and not the 300 of `g_config.h`; `DocumentedInitTimeout` is that one. `SetBack` sets the
clock to before every `init_time`; smaller jumps back only make ages smaller and
are left out. `fd_log` is never opened, so the warning about such a clock ends
the process.

`TxTable` is the promise without threads, lock and list: a transmitter is
configured, grows older, and leaves the table after the limit the code applies, not
earlier, and sometime. (That this limit is not the documented one is the finding
`registry_early_eviction`.) `ImplementsTable` takes the first entry of an address that is marked
INIT for its place in the table, so that the `push_back` is invisible and the
marking is the configuration. It holds for requests that come one at a time.

### 2.6 RouteChat

Each stream has two directions that hold at most `Window` messages, which stands
for gRPC's flow control. A note is named by author and place in the author's
script, so that a missing, doubled or reordered answer is visible. `ScanNote` is
one turn of the handler's loop and blocks, with `mu_` held, while the window is
full. A client may vanish at any point (`Vanish`): what was sent to it is lost,
`Read` returns false once, and `Write`, whose result the handler ignores, returns
at once. Messages the client sent before may still be read.

### 2.7 RouteGuide

The module extends `RouteChat`. `stage` is the method a client is in; `listing`
and `route` hold the handler, the wire and the client's side of `ListFeatures`
and `RecordRoute`; `features` and `own` are the lists of the server and of each
client. `GetFeature` is one step, since its two calls read the server's list and
change nothing. `ListFeature` is one turn of the server's loop and blocks on a
full window; `VisitPoint` and `ServerReadPoint` are the two ends of
`RecordRoute`. The client draws a feature of its own list at random. Of an empty
list it draws through a null pointer (`VisitNowhere`) and dies, and its stream
breaks. `atNamed` counts, as the points are written, what the summary should say.
A client that dies or is cut off for good takes no further step (`ClientVanishes`).
One whose stream of `ListFeatures` or `RecordRoute` breaks goes on to the next
method (`BreakList`, `BreakRoute`); the handler of the broken stream, which shares
nothing with others, comes to its end in the same step. A call of `GetFeature` that
fails is like one that does not, and after a broken `RouteChat` the program ends,
which is a client that is gone.

### 2.8 DbParser

The text is a sequence of characters, a key word being one. One action per piece
of the code that reads: `Match` (which moves `current_` on whether or not it
matches), the loops of `ReadLong` and of the name, `stol`, the test of `},` and
`]`. `Digit` gives the digit characters and their values; `LongMax` and `IntMax`
are the limits of a `long` and of the message's `int32` fields, small in the run,
so that numbers that throw and numbers that wrap around have two digits. `Char`
is the alphabet and `Typo` what a damaged file may hold in a wrong place. `Init`
takes every text that is a database in the file format, or such a text cut short,
or changed at one place; the history variables `db` and `damage` remember which.
A feature of a database keeps its coordinates as they are written, each one that
`stol` reads to an `int32`, with an optional sign, `+` or `-`; a name may hold
anything but a quote.

What the parser and the file format do to a text (`Strip`, `Value`, `Written`) are
recursive functions over the places of the text, not folds, so that their
equations can be used in proofs.

## 3. Runs

All runs are exhaustive.

| Run | Shows | Bounds and why they are enough |
|-----|-------|--------------------------------|
| `client` | list and heap are consistent; the ledger is implemented: every call is reaped, shutdown ends | three addresses: one call being issued, one in gRPC, one being reaped, each of which can be the reused cell of another; two APIs, one pushing its own tag and one pushing another's |
| `context_lifecycle` | teardown order; nothing but the user's input shuts down; `0` ends the program | two calls and two operations in flight, every kind of input, port free or taken |
| `context_early_zero` | finding | port free, numbers only |
| `server` | objects, operations, list and calls agree; every live call is answered | two methods, two calls: competing for one acceptor or not; one unserved method; a cell per acceptor and call, which is the most the server can use; the port free or taken |
| `server_assert` | finding | four methods, one call |
| `session` | a reply reaches its call or none; unserved methods never succeed; only a dead call aborts the server | two calls of the client and two at the server, so that an abandoned call and its successor at the same address are both there; a served, an unserved and another peer's method; symmetric in addresses and calls |
| `registry_serial` | the list is a table of entries that implements `TxTable`; requests end | one handler thread, two addresses, two peers, every kind of request; ages 0, 10 and 11, both sides of the limit |
| `registry_concurrent` | what the lock does protect, and that the choice of the resource manager is final, with two handlers and a clock set back | two handlers, two addresses, two peers, good and bad ports, lists to three entries; symmetric in all three |
| `registry_duplicate` | finding | as above, clock never back |
| `registry_early_eviction` | finding | one handler, ages to 301, both sides of either limit |
| `route_guide` | lists, summaries and answers are exact, iteration is safe, every client and handler ends, although clients vanish and streams break | two clients, five notes at two places, two points each, windows of one message so that every write can block; lists empty or of three features: named, unnamed, outside the rectangle |
| `db_parser` | the parser stays in bounds, loads whole files whole, makes nothing up, ends | databases to two features with coordinates on both sides of the widths; every cut and every one-character edit |

Deadlock is checked everywhere but in `route_guide`, where every client ends and
the model really stops. The other programs end in an explicit stuttering step
(`Exited`, `Ended`, `Aborted`, `Crashed`), so that a deadlock is a thread that
waits for ever.

### Properties worth knowing

* `TagListExact` (client and server): the list is exactly the live, outstanding
  objects, each with the tag it was pushed with. Everything else about casts
  follows from it.
* `NothingLeftToSweep`: the sweep takes no mutex and deletes through `void*`; it
  is right only because it never has anything to do.
* `ImplementsLedger`: with the fairness of the ledger it says that every call is
  answered and reaped, by its deadline if by nothing else, and that shutdown ends.
* `ShutdownIsAsked`: which inputs lead to a shutdown that nobody typed, since the
  stream is not tested.
* `LinkExact`: although a call may end at one side and go on at the other, and
  addresses are reused at both, a reply never reaches another call, nor a struct
that is deleted. It is what
  makes `UnservedNeverOk` and the absence of mixed-up replies hold.
* `AbortOnlyAfterDeath`: the converse of the finding `server_assert`. The
  assertion fires for a call that died and for nothing else, a client that shuts
  down in good order included.
* `OneOperationPerObject`, `OneObjectPerCall`: completions in any order never run
  the wrong branch of `Proceed`, and a reply goes to the call it belongs to.
* `NoDuplicateTx`, `EveryEntryTimed`, `AcceptedIsListed` hold
  for one request at a time. With two handlers they fail, which
  `registry_duplicate` shows for one of them.
* `RmIsFinal`: with any number of racing or failing first requests, once they are
  through with the choice no request makes it again. It also means that a first
  request with a bad port leaves the program without a resource manager for ever.
* `ImplementsTable`: configured and evicted one by one, each after the limit the
  code applies; with the fairness of the table, no transmitter stays whose configuration stopped coming.
* `AnswersExact`: at every moment between two notes a client has been sent
  exactly what the order of `received_notes_` says, clients that vanished in
  between notwithstanding.
* `SummaryExact`: the summary counts the client's points, judged by the server's
  list.
* `IndexInRange`: `current_` may pass the end of the text, yet never at a place
  where the text is read.
* `DamageIsLocal`: a file that was cut loads nothing or its first features; one
  changed at one place loads nothing or as many features, all but one unharmed.
  A file cut exactly behind a feature is thus loaded in part and without an
  error, and the character before a closing `]` is looked at by nobody.

### Fairness

* Every thread with work is scheduled (weak fairness of its steps). The user and
  the peers owe nothing: no fairness for `MenuTurn`, `Request`,
  `Answer`, `Arrive`, `Die`, `Receive`, `Vanish`.
* A deadline that is set passes (`Expire`). A call without one may stay for ever,
  and the fault variant without it breaks `ImplementsLedger`.
* A completion queue hands out each queued event sometime, whatever else arrives
  (strong fairness of `NextEvent`, and of the event of each call in the server).
  gRPC matches a waiting call when acceptors of its method keep coming.
* A thread that asks for a mutex again and again gets it (strong fairness of
  `Lock` and of the checker's pass). pthreads and `std::mutex` do not promise
  this. Without it nothing ends in the registry: the checker takes the mutex in a
  loop without a pause.
* `session` is a run of safety only and states no fairness; what the client and
  the server promise in time is checked in their own runs, where the other side
  may do anything or nothing.
* The parser is one thread that nothing blocks.

## 4. Findings

| Run | What |
|-----|------|
| `context_early_zero` | `0` entered before the ST thread has assigned `server` calls through a null pointer |
| `server_assert` | one call that dies before its reply is written aborts the server through `GPR_ASSERT(ok)` |
| `registry_duplicate` | two concurrent requests list a transmitter twice |
| `registry_early_eviction` | the checker erases an entry in INIT after eleven seconds, where `g_config.h:20` says "5 minutes for storage boot"; the test against that constant is commented out (`stat_observer.cpp:32`) |

Two more disagreements are in the models and have no run of their own, because each
step of them shows it.

* `DoConnectFail`, `DoRebootFail` and `DoAuthFail` list their call with the tag of
  `DoPrepareFail` (`Cloudein_Session_gRPC_Client.cpp:138`, 155, 172), although
  `Cloudein_Session_Common.h:64` has an enumerator for each and the `switch` of the
  reaper a case. `PushedTag` has the tags that are passed: each completion of the
  three is cast to, reported as and deleted as `AsyncClientCall_DoPrepareFail`.
  `TagListExact` does not say that this is right; it says that the reaper pops the
  tag its call was listed with, this one included.
* A clock set back behind `init_time` is to be logged as a warning, but `fd_log` is
  never opened and the process dies (`stat_observer.cpp:14`): the step `Scan` with
  `Backward`.

## 5. Proofs

The theorems hold for every value of the constants that satisfies the assumption
of its module (the null value is none of the others, ages are counted to beyond
the limit, streams hold at least one message, coordinates are integers, and the
like). The inductive invariants also hold in TLC, on the instances of section 3.
What is listed here are these invariants and why each is needed; `PROJECT.json`
lists the theorems one by one.

### Lists

`TagList_proofs` has what push, search and erase do to the set of pairs, for
every list: a push of an unlisted address adds exactly its pair; an erase of a
listed one removes exactly its pair; a search finds the pair of a listed
address; all keep addresses distinct. `MinIsLeast` and `RemoveAtProperties` say
what `find_if` and `erase` amount to and serve the registry and `ListFeatures`
too.

### The session client

`SessionClient_proofs` proves `TypeOK`, `TagListExact`, `PopFindsEntry`,
`NoDanglingCall`, `NothingLeftToSweep` and `NoLeak` for every set of addresses and
of user APIs. None of the last five is inductive. `IInv` adds who owns each live
call:

* `MainHolds`: the main thread has a live call exactly while it issues one;
* `ReaperHolds`: the reaper has one exactly between queue and delete, and never
  the main thread's;
* `GrpcHolds`: gRPC has every other live call, and no dead one;
* `DownInOrder`: after the reaper's loop no call is left, and the queue is shut
  down exactly when the main thread is past the menu.

With it, `PopFindsEntry` follows since a call in the queue is outstanding and the
list is exact, and `NothingLeftToSweep` since a drained queue and a main thread
past its menu leave no owner.

`ClientImplementsLedger` is the safety part of `ImplementsLedger`: `Init` maps to
`CallLedger`'s, and each step to one of its steps or to a stutter. The mapping is
`LedgerState` (a call's place in the ledger) and `LedgerPhase`. It needs
`StatusInv` besides `IInv`: a live call is without a status exactly while the main
thread issues it or gRPC watches it, so that the ledger's answer happens once.

### The client program

`SessionContext_proofs` proves that menu, teardown and operation server order the
client's steps and add none (`ProgramKeepsClient`), for any input, any number of
operations and a port that is free or taken. `IInv` therefore holds inside the
program (`ProgramClientInductive`). Together with `StageInOrder`, which says what
the main thread has behind it at each stage of `unsetGRPC`, it gives
`TeardownInOrder` and the types of the whole program. `TeardownInOrder` needs
both: that the queue is shut down only past the menu and that no call is left
come from the client, that the operation server is down by then from the stages.
`ShutdownIsAsked` needs `MenuInv`: that `num` is not zero as long as the menu goes
on, and that a `num` nothing was stored in has seen at most an input that ended.
`ProgramKeepsLedger` carries the refinement over: the whole program, with its menu
and its teardown, takes only steps of `CallLedger`.

### The session server

`SessionSystem_proofs` proves `TypeOK`, `TagListExact`, `OneOperationPerObject`,
`OneAcceptorPerMethod` and `OneObjectPerCall` for every sequence of registrations,
any number of addresses and any number of calls. An object is what its status,
its operation and its call say together, and `ServerIInv` relates the three:

* `LoopInv`: the loop of `HandleRpcs` begins when all methods are registered;
* `ObjectInv`: an object has a call from the moment gRPC matched one, of its own
  method, and how far its operation is agrees with how far the call is;
* `DistinctCalls`, `HeldCalls`: no call has two objects, a call in service has one;
* `AcceptorInv`: a registered method has an acceptor, and one only. It is kept
  because `Process` makes the next acceptor in the step in which it stops being
  one itself.

### Client and server over one channel

`SessionSystem_proofs` proves that inside the system client and server take only
the steps of their own modules (`SystemKeepsParts`), so that both invariants hold
there (`SystemClientInductive`, `SystemServerInductive`), for any number of
addresses on both sides, of calls and of other peers. What `LinkExact` needs from
`IInv` is that the address of a call gRPC watches is neither freed nor reused
until the call ends at the client, which cuts the link. What `UnservedNeverOk`
needs besides is `OnlyServedReplied` (only calls of registered methods get as far
as a reply) and that a call and its server side agree on the method, which is
`LinkExact`. `AbortOnlyAfterDeath` follows from `ObjectInv`: a reply fails only
when its call is dead, and a call that an object refers to is not forgotten.
`SystemKeepsLedger`: a client whose calls go over the channel, to this server and
next to other peers, still implements the safety part of `CallLedger`.

`SessionContext_proofs` and `SessionSystem_proofs` take the facts of
`SessionClient_proofs` from an instance `P` of it; the lemmas `Same...` say that
its definitions are those of the instance `Client` in the specification.

### The registry

`TxRegistry_proofs` has two parts. For any number of handlers and any clock, `IInv`
says who holds the lock (`LockExact`: exactly the handler between its lock and its
unlock) and that a handler past its copy has found something in `tx_received`.
That gives the types, `CriticalSectionStable` and `RmIsFinal`; it is all the lock
does guarantee.

The rest is proved under `OneAtATime`, that there is at most one handler, which
is what `registry_serial` checks. The hypothesis is needed: the run
`registry_duplicate` shows `NoDuplicateTx` violated with two. `SerialInv` says
that `tx_received` is the handler's own request from the copy on, that the entries
its search has passed have other addresses (`PassedDiffer`) and still have at the
push and at the marking, and that no entry but the one about to be marked is
unmarked. `NoDuplicateTx`, `EveryEntryTimed` and
`AcceptedIsListed` follow. `SerialImplementsTable` is the safety part of
`ImplementsTable`, for a clock that is not set back: `TableAge`, the age of the
first marked entry of an address, takes only steps of `TxTable`.

### RouteGuide

`RouteChat_proofs` proves four properties for any number of chats, any scripts and
any window. For `TypeOK` and `IterationStable` the invariant is that a handler that
has read a note keeps it (`HasNote`) and that `mu_` is held by exactly the handler
between its lock and its `push_back` (`MutexExact`): a push by one handler while
another iterates would give `mu_` two holders. A client that vanishes changes
neither.

`NotesInOrder` needs `PipeInv`, which follows a client's notes on their way: of
those it has written the first are in `received_notes_`, the next one is perhaps
with the handler, the others are under way, all in order. `AnswersExact` needs
`AnswerInv`: what a client got and what is under way to it are the answers owed
(`Owed`), which between two notes are those of the property, and in the middle of
a walk those plus what the iterator has passed. That a handler answers under the
lock it walks under is what makes the answers to its earlier notes final.

`AnswersExact`, `NotesInOrder` and `ListExact` are stated by counting (`Place` and
`Rank`: an answer's place is the number of answers due before it) and not by
filtering a sequence. Filters and folds are recursive, and the provers know
nothing of them; a number of elements they know to grow by one.

`RouteGuide_proofs` proves that the whole RouteGuide program, for any lists,
rectangle and number of points, takes only steps of `RouteChat` on its variables
(`GuideImplementsChat`). The four properties then hold of it as well
(`GuideTypeCorrect`, `GuideIterationStable`, `GuideNotesInOrder`,
`GuideAnswersExact`), and these are the theorems the run `route_guide` is an
instance of. `GuideInv` adds the two streams. `ListInv`: a client was sent the
features inside the rectangle that the loop has passed, each in its place, where
`InsideIsInRect` shows that the handler's test, which takes the corners in any
order, is the property's. `RouteInv`: the points counted and those under way make
up those written, and so do the named ones. `GetFeatureName` returns the first
match, so the lemmas about it are again `MinIsLeast`.

### The parser

`DbParser_proofs` proves about every database, every text and every width of the
numbers:

* `ParserTypeCorrect`, `ParserIndexInRange`: for any text, damaged or not, the
  types hold, a coordinate in the list fits the message, and `current_` is within
  the text wherever the text is read. `TextInv` adds to them which literal of
  which group is being matched at each place, that a feature being filled is in
  the list, and where the number or the name began.
* `ParserLoadsWholeFile` (`WholeFileLoads`) and `ParserLoadsPrefix`
  (`CutLoadsPrefix`, the half of `DamageIsLocal` about files that were cut): `ParserInv` says of a text that is
  the beginning of a file (`IsFront`) how far the parser is. At the head of the
  loop it is at the place of a feature and the features before are loaded
  (`HasRead`); inside a feature it is at a literal, within a number or within a
  name, at the place `Spelled` gives for it, and what is already read of this
  feature is right (`Reading`); in a text that was cut, a `Match` may have moved
  `current_` past the end (`CutShort`). From a whole file the end is reached in no
  other way than with the list complete.
* `ParserDamageIsLocal` (`DamageIsLocal`, both halves): a file that lost a
  character, got one more or has a wrong one. `EditedFile` shows that the stripped
  text is the clean file changed at one place too (`ChangedAt`: the same up to
  place `a`, and behind it the file moved by `Shift`, -1, 0 or 1 places), also when
  the edit was to a space. `EditInv` says that the parser is then, at each of its
  steps, in one of three situations (`InDamaged`): in step with the file before the
  change (`InStep` with `j = 0`), in step behind the change, which fell in feature
  `j`, so that every other feature is loaded as it was (`HasReadBut`); or it will
  give up, because a literal it must find next is not there (`~Match`,
  `KeyFails`, `LonFails`). The third needs the change to lie where a piece ends. A
  number or a name that the change cuts in two (`Split`), or whose end it takes
  away so that it runs on (`Joins`), leaves the parser out of step, and the lemmas
  show case by case that it does not recover: behind a latitude no comma comes, or
  one that another comma follows where the key of the longitude should be
  (`LatitudeEnd`); a longitude is not followed by brace and comma
  (`LongitudeEnd`); a name that is cut in two is followed by no `},`, or by one
  with no key of a feature behind it (`NameSplit`), and a name that runs on ends
  within the key of the next feature or with the text (`NameJoins`).

These are inductions over data in two places, the length of a text and the number
of features of a file, which the installed provers cannot do with the library's
theorems. `UpTo` is a substitute that needs no operator parameter: a set of
naturals that has 0 and with each place below `n` the next one has all places up
to `n`. With it `RecursionExists` gives, for a step function, a function over
`0 .. n` that satisfies the recursive equation, from which follow the equations of
`Kept`, `Value` and `Written` (a function that is defined by a `CHOOSE` satisfies
its equation only if some function does). The lemmas about them are

* `StripConcat`: stripping two pieces strips their concatenation; `StripClean`: it
  leaves a text without spaces alone;
* `StripRender`: the file of a database, stripped, is the file of the database
  with its names stripped, so that what the constructor leaves is again in the
  file format;
* `FileSpelled`: where in a file each feature is, and that it is `Spelled` there:
  each literal, coordinate and name at its distance from the feature's place.

### Model-checked only

* All liveness properties (`ZeroEndsProgram`, `EveryCallAnswered`, the ends of
  requests, clients and parses), and with them the fairness parts of
  `ImplementsLedger` and `ImplementsTable`: liveness under fairness is out of the
  prover's reach.

The properties of section 4 are false.

## 6. Not modelled

* The state objects of the context: each only calls its `Do...` function, and
  what `response()` returns is printed before there is a reply.
* Contents of requests and replies, printed text, logging.
* `operation_handle` (its listener is never opened), the destructor of
  `ServerImpl` (`main` never leaves `Run`), a shutdown of the REST manager (it
  has none).
* A client of `RouteChat` that stays and stops reading: it blocks every other chat
  through `mu_`, by design of the code; the one client in the repository reads.
* A Port header that is missing: `it->second` of the end iterator is undefined
  and ends the process or the request like a bad one.
* The distance and the duration in the summary of `RecordRoute` (floating point,
  wall clock); the arguments of `GetDbFileContent` and the reading of the file.
* Greeter, download client, `util_Plog.cpp` (in no build target): no state is kept
  between calls, or the code is not built.
* Vendored and generated code. It is more than nine tenths of the lines of the
  repository and not this repository's work: protobuf's descriptors and code
  generators, plog, `*.pb.*`. A share of the lines counted over all of it stays
  small whatever is modelled; of the repository's own programs every file with
  state is mapped.

## 7. Plan

Done, in the order of their weight, with proofs where section 2 names them:
`TagList`, `CallLedger`, `SessionClient`, `SessionContext`, `SessionServer`,
`SessionSystem`, `TxTable`, `TxRegistry`, `RouteChat`, `RouteGuide`, `DbParser`.
Every safety property that a run checks and finds true is proved.

What would come next: `TxRegistry` with any number of handlers, where only the
runs and theorems of section 5 that do not need requests one at a time apply. No
simple bound on what goes wrong suggests itself. "An address is listed at most
once for each handler" is false: the search and the `push_back` read
`tx_received.tx_ip` separately, so that a copy in between can add a listed address
again each time, and only the first entry of an address is ever marked.
