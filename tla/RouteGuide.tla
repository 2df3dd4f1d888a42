------------------------------ MODULE RouteGuide ------------------------------
(***************************************************************************)
(* The RouteGuide programs: clients that call GetFeature, ListFeatures,    *)
(* RecordRoute and RouteChat of one server, in this order.  RouteChat is   *)
(* the module of that name, whose steps are steps of the last stage here.  *)
(*                                                                         *)
(* Server and clients have each loaded a feature_list_ of their own, which *)
(* is empty when the file was missing or could not be parsed.  It never    *)
(* changes, and handlers read it without a lock.  ListFeatures streams to  *)
(* the client, RecordRoute from it, each over a window of its own.         *)
(***************************************************************************)
EXTENDS Integers, RouteChat

CONSTANTS Database,    \* the feature lists a program may have loaded
          Rect,        \* the rectangle the client asks for, by two corners
          Points       \* kPoints: how many points the client visits

\* A point, and a feature of a list: its location and its name.
Spot == [lat : Int, lon : Int]
Feature == [loc : Spot, name : STRING]

ASSUME GuideAssumption == /\ Points \in Nat
                          /\ Location \subseteq Spot
                          /\ Rect.lo \in Spot /\ Rect.hi \in Spot
                          /\ Database \subseteq Seq(Feature)

VARIABLES features,    \* the server's feature_list_
          own,         \* the clients' feature_list_
          stage,       \* the method whose function a client is in
          listing,     \* ListFeatures: handler, wire, what the client got
          route        \* RecordRoute: handler, wire, points written, and of
                       \* them those where a feature with a name is

guideVars == <<features, own, stage, listing, route>>
allVars == <<vars, guideVars>>

NoListing == [pc |-> "none", i |-> 1, wire |-> <<>>, got |-> <<>>]
NoRoute == [pc |-> "none", wire |-> <<>>, written |-> 0, atNamed |-> 0,
            points |-> 0, named |-> 0]

GuideInit ==
  /\ Init
  /\ features \in Database
  /\ own \in [Chat -> Database]
  /\ stage = [c \in Chat |-> "get"]
  /\ listing = [c \in Chat |-> NoListing]
  /\ route = [c \in Chat |-> NoRoute]

In(c, method) == stage[c] = method /\ c \notin gone

\* A client's process ends, or its connection breaks for good: what was under
\* way and what the client held are lost.
ClientVanishes(c) ==
  /\ Vanish(c)
  /\ listing' = [listing EXCEPT ![c].wire = <<>>, ![c].got = <<>>]
  /\ route' = [route EXCEPT ![c].wire = <<>>]
  /\ UNCHANGED <<features, own, stage>>

-----------------------------------------------------------------------------
(* GetFeature: two unary calls, whose answers are printed. *)

\* The name of the first feature at the point.
GetFeatureName(p) ==
  LET i == SelectInSeq(features, LAMBDA f : f.loc = p)
  IN IF i = 0 THEN "" ELSE features[i].name

GetFeature(c) ==
  /\ In(c, "get")
  /\ stage' = [stage EXCEPT ![c] = "list"]
  /\ listing' = [listing EXCEPT ![c].pc = "serving"]
  /\ UNCHANGED <<vars, features, own, route>>

-----------------------------------------------------------------------------
(* ListFeatures *)

\* Faulty variant: the corners are taken in the order they are given.
Between_Ordered(x, a, b) == a <= x /\ x <= b

\* (std::min) and (std::max): the corners may come in any order.
Between(x, a, b) == (a <= x /\ x <= b) \/ (b <= x /\ x <= a)
InRect(p) == /\ Between(p.lon, Rect.lo.lon, Rect.hi.lon)
             /\ Between(p.lat, Rect.lo.lat, Rect.hi.lat)

\* One turn of the handler's loop.
ListFeature(c) ==
  /\ listing[c].pc = "serving"
  /\ listing[c].i <= Len(features)
  /\ LET f == features[listing[c].i]
     IN IF InRect(f.loc) /\ c \notin gone
        THEN /\ Len(listing[c].wire) < Window
             /\ listing' = [listing EXCEPT ![c].i = @ + 1,
                                           ![c].wire = Append(@, f)]
        ELSE listing' = [listing EXCEPT ![c].i = @ + 1]
  /\ UNCHANGED <<vars, features, own, stage, route>>

ListReturn(c) ==
  /\ listing[c].pc = "serving"
  /\ listing[c].i > Len(features)
  /\ listing' = [listing EXCEPT ![c].pc = "returned"]
  /\ UNCHANGED <<vars, features, own, stage, route>>

ReadFeature(c) ==
  /\ In(c, "list")
  /\ listing[c].wire # <<>>
  /\ listing' = [listing EXCEPT ![c].got = Append(@, Head(listing[c].wire)),
                                ![c].wire = Tail(@)]
  /\ UNCHANGED <<vars, features, own, stage, route>>

\* Read returns false; the client goes on to RecordRoute.
FinishList(c) ==
  /\ In(c, "list")
  /\ listing[c].pc = "returned"
  /\ listing[c].wire = <<>>
  /\ stage' = [stage EXCEPT ![c] = "record"]
  /\ route' = [route EXCEPT ![c].pc = "serving"]
  /\ listing' = [listing EXCEPT ![c] = NoListing]
  /\ UNCHANGED <<vars, features, own>>

\* The stream breaks: Read returns false, Finish reports it, and the client
\* goes on as well.  The handler comes to its end: whatever it still writes
\* reaches nobody, and it touches nothing that is shared.
BreakList(c) ==
  /\ In(c, "list")
  /\ stage' = [stage EXCEPT ![c] = "record"]
  /\ route' = [route EXCEPT ![c].pc = "serving"]
  /\ listing' = [listing EXCEPT ![c] = NoListing]
  /\ UNCHANGED <<vars, features, own>>

-----------------------------------------------------------------------------
(* RecordRoute *)

AllVisited(c) == route[c].written = Points

\* What the summary should say of a point: the first feature at it has a name.
NamedAt(p) == \E i \in DOMAIN features :
                /\ features[i].loc = p /\ features[i].name # ""
                /\ \A j \in 1 .. i - 1 : features[j].loc # p

\* A feature of the client's list, drawn at random, is written.
VisitPoint(c) ==
  /\ In(c, "record")
  /\ ~AllVisited(c)
  /\ Len(route[c].wire) < Window
  /\ \E f \in Range(own[c]) :
       route' = [route EXCEPT ![c].wire = Append(@, f.loc),
                              ![c].written = @ + 1,
                              ![c].atNamed = IF NamedAt(f.loc) THEN @ + 1
                                             ELSE @]
  /\ UNCHANGED <<vars, features, own, stage, listing>>

\* There is no feature to draw: the program reads feature_list_[...] of an empty
\* vector, through a null pointer, and dies.
VisitNowhere(c) ==
  /\ In(c, "record")
  /\ ~AllVisited(c)
  /\ own[c] = <<>>
  /\ ClientVanishes(c)

\* Faulty variant: the handler counts the client's features, not its points.
ServerReadPoint_Named(c) ==
  /\ route[c].pc = "serving"
  /\ route[c].wire # <<>>
  /\ LET p == Head(route[c].wire)
         n == IF GetFeatureName(p) # "" THEN 1 ELSE 0
     IN route' = [route EXCEPT ![c].wire = Tail(@), ![c].points = @ + n,
                               ![c].named = @ + n]
  /\ UNCHANGED <<vars, features, own, stage, listing>>

\* One turn of the handler's loop: a point, and whether a feature with a name
\* is there.
ServerReadPoint(c) ==
  /\ route[c].pc = "serving"
  /\ route[c].wire # <<>>
  /\ LET p == Head(route[c].wire)
     IN route' = [route EXCEPT ![c].wire = Tail(@), ![c].points = @ + 1,
                               ![c].named = IF GetFeatureName(p) # ""
                                            THEN @ + 1 ELSE @]
  /\ UNCHANGED <<vars, features, own, stage, listing>>

\* Read returns false after WritesDone, or since the client is gone.
RecordReturn(c) ==
  /\ route[c].pc = "serving"
  /\ (route[c].wire = <<>> /\ AllVisited(c)) \/ c \in gone
  /\ route' = [route EXCEPT ![c].pc = "returned"]
  /\ UNCHANGED <<vars, features, own, stage, listing>>

\* Finish hands the client its summary; it goes on to RouteChat.
FinishRoute(c) ==
  /\ In(c, "record")
  /\ route[c].pc = "returned"
  /\ stage' = [stage EXCEPT ![c] = "chat"]
  /\ route' = [route EXCEPT ![c] = NoRoute]
  /\ UNCHANGED <<vars, features, own, listing>>

\* The stream breaks: Write returns false, which ends the loop, or Finish
\* reports it; the client goes on to RouteChat without a summary.  The
\* handler's Read returns false, and what it counted is lost.
BreakRoute(c) ==
  /\ In(c, "record")
  /\ stage' = [stage EXCEPT ![c] = "chat"]
  /\ route' = [route EXCEPT ![c] = NoRoute]
  /\ UNCHANGED <<vars, features, own, listing>>

-----------------------------------------------------------------------------
(* RouteChat, and the programs. *)

ChatClient(c) == /\ stage[c] = "chat"
                 /\ \/ StartChat(c) \/ WriteNote(c) \/ WritesDone(c)
                    \/ ReadNote(c) \/ FinishChat(c)
                 /\ UNCHANGED guideVars
ChatServer(c) == (ServerStep(c) \/ Lock(c)) /\ UNCHANGED guideVars

StreamClient(c) == \/ GetFeature(c) \/ ReadFeature(c) \/ FinishList(c)
                   \/ VisitPoint(c) \/ VisitNowhere(c) \/ FinishRoute(c)
StreamServer(c) == \/ ListFeature(c) \/ ListReturn(c)
                   \/ ServerReadPoint(c) \/ RecordReturn(c)
StreamBreaks(c) == BreakList(c) \/ BreakRoute(c)

GuideNext == \E c \in Chat : \/ StreamClient(c) \/ StreamServer(c)
                             \/ ChatClient(c) \/ ChatServer(c)
                             \/ StreamBreaks(c) \/ ClientVanishes(c)

\* As in RouteChat: all threads are scheduled.
GuideFairness ==
  \A c \in Chat :
    /\ WF_allVars(StreamClient(c))
    /\ WF_allVars(StreamServer(c))
    /\ WF_allVars((WriteNote(c) \/ WritesDone(c)) /\ UNCHANGED guideVars)
    /\ WF_allVars(/\ stage[c] = "chat"
                  /\ StartChat(c) \/ ReadNote(c) \/ FinishChat(c)
                  /\ UNCHANGED guideVars)
    /\ WF_allVars(ServerStep(c) /\ UNCHANGED guideVars)
    /\ SF_allVars(Lock(c) /\ UNCHANGED guideVars)

GuideSpec == GuideInit /\ [][GuideNext]_allVars /\ GuideFairness

-----------------------------------------------------------------------------
\* The positions of the server's features inside the rectangle, whichever its
\* corners are, and how far down among them one comes.
Inside == {i \in DOMAIN features :
             LET p == features[i].loc
             IN /\ p.lon >= Min({Rect.lo.lon, Rect.hi.lon})
                /\ p.lon <= Max({Rect.lo.lon, Rect.hi.lon})
                /\ p.lat >= Min({Rect.lo.lat, Rect.hi.lat})
                /\ p.lat <= Max({Rect.lo.lat, Rect.hi.lat})}
Rank(i) == Cardinality({j \in Inside : j <= i})

\* A client of ListFeatures gets the server's features inside the rectangle,
\* whichever its corners are, each once and in order, and all of them by the
\* end of its stream.
ListExact ==
  \A c \in Chat \ gone :
    LET l == listing[c]
        sent == l.got \o l.wire
    IN /\ Len(sent) <= Cardinality(Inside)
       /\ l.pc = "returned" => Len(sent) = Cardinality(Inside)
       /\ \A i \in Inside : Rank(i) <= Len(sent) => sent[Rank(i)] = features[i]

\* The summary a client gets counts its own points, all of them, and those of
\* them at which the server's list has a feature whose first name is not
\* empty, although the lists of client and server may differ, other routes are
\* recorded at the same time and other streams break.
SummaryExact ==
  \A c \in Chat \ gone : route[c].pc = "returned" =>
    route[c].points = Points /\ route[c].named = route[c].atNamed

\* Every client comes to the end of its program or is gone, and no handler of
\* the server outlives its stream, although RouteChat writes under mu_ into
\* windows that may be full: a client reads while its writer thread is still
\* writing, and one that vanishes takes neither mu_ nor a handler with it.
EveryClientEnds ==
  \A c \in Chat : <>[](/\ client[c].ended \/ c \in gone
                       /\ handler[c].pc \in {"none", "returned"}
                       /\ listing[c].pc # "serving"
                       /\ route[c].pc # "serving")
==============================================================================
