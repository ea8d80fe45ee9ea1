-------------------------- MODULE ConnectionManager --------------------------
(***************************************************************************)
(* The WebSocket updates of a chama: the ConnectionManager, the endpoint   *)
(* that serves a connection, and broadcasts (backend/routers/websockets.py)*)
(*                                                                         *)
(* Everything is a coroutine of one event loop, so code between two awaits *)
(* is not interrupted.  A broadcast is at an await only while it sends to  *)
(* one connection; then endpoints and other broadcasts change the list it  *)
(* is iterating over, and its iterator, an index into that list, does not  *)
(* know.  Steps a broadcast takes with control of the loop are marked by   *)
(* the phases "looping" and "cleanup": nothing else runs meanwhile.        *)
(***************************************************************************)
EXTENDS Integers, FiniteSets, SequencesExt

CONSTANTS
  Sockets, Chamas,
  Broadcasts,  \* the coroutines that broadcast
  Messages,
  Unserialisable,  \* messages json.dumps refuses: those that hold a datetime
  NoChama, NoMessage, NoSocket

ASSUME ManagerAssumption ==
  /\ NoChama \notin Chamas
  /\ NoSocket \notin Sockets
  /\ NoMessage \notin Messages
  /\ Unserialisable \subseteq Messages
  /\ IsFiniteSet(Sockets)

VARIABLES
  active,       \* the keys of active_connections
  connections,  \* its lists, empty for an absent key
  home,         \* the chama each endpoint serves
  pc,           \* where each endpoint is
  alive,        \* is the peer still there?
  cast,         \* each broadcast's locals
  history,      \* each broadcast's past, for the properties only
  spoiled       \* history: chamas a message that does not serialise was sent to

registry == <<active, connections>>
vars == <<registry, home, pc, alive, cast, history, spoiled>>

NoCast == [phase |-> "idle", chama |-> NoChama, message |-> NoMessage, index |-> 0,
           connection |-> NoSocket, live |-> FALSE, failed |-> {}]

\* owed: listed at the start, still listed, not sent to yet.  seen: already
\* sent to.  departures: removals from the list meanwhile.
NoHistory == [owed |-> {}, seen |-> {}, departures |-> 0]

Init ==
  /\ active = {}
  /\ connections = [c \in Chamas |-> <<>>]
  /\ home = [s \in Sockets |-> NoChama]
  /\ pc = [s \in Sockets |-> "new"]
  /\ alive = [s \in Sockets |-> TRUE]
  /\ cast = [b \in Broadcasts |-> NoCast]
  /\ history = [b \in Broadcasts |-> NoHistory]
  /\ spoiled = {}

LoopIsFree == \A b \in Broadcasts : cast[b].phase \notin {"looping", "cleanup"}

Listed(s, c) == \E i \in 1..Len(connections[c]) : connections[c][i] = s

-----------------------------------------------------------------------------
(* ConnectionManager.disconnect *)

\* Mutant: the last connection goes instead of the one that left.
UnlistLast(s, c, i) ==
  LET rest == Front(connections[c])
      hit(b) == cast[b].chama = c /\ cast[b].live IN
  /\ connections' = [connections EXCEPT ![c] = rest]
  /\ active' = IF rest = <<>> THEN active \ {c} ELSE active
  /\ history' = [b \in Broadcasts |->
       IF hit(b) THEN [history[b] EXCEPT !.owed = @ \ {s}, !.departures = @ + 1]
                 ELSE history[b]]

\* Mutant: the key goes although the list still has connections.
UnlistAll(s, c, i) ==
  /\ connections' = [connections EXCEPT ![c] = <<>>]
  /\ active' = active \ {c}
  /\ UNCHANGED history

\* Deleting the key leaves a broadcast with the old, empty list.
Unlist(s, c, i) ==
  LET rest == RemoveAt(connections[c], i)
      hit(b) == cast[b].chama = c /\ cast[b].live IN
  /\ connections' = [connections EXCEPT ![c] = rest]
  /\ active' = IF rest = <<>> THEN active \ {c} ELSE active
  /\ history' = [b \in Broadcasts |->
       IF hit(b) THEN [history[b] EXCEPT !.owed = @ \ {s}, !.departures = @ + 1]
                 ELSE history[b]]

\* What each broadcast's locals become when s is removed from c's list.
Orphan(c, casts) ==
  [b \in Broadcasts |->
     IF casts[b].chama = c /\ Len(connections[c]) = 1
     THEN [casts[b] EXCEPT !.live = FALSE] ELSE casts[b]]

\* Removing an absent socket raises ValueError, which is ignored.
Disconnect(s, c, casts) ==
  IF c \in active /\ Listed(s, c)
  THEN /\ \E i \in 1..Len(connections[c]) :
            connections[c][i] = s /\ Unlist(s, c, i)
       /\ cast' = Orphan(c, casts)
  ELSE /\ cast' = casts
       /\ UNCHANGED <<registry, history>>

-----------------------------------------------------------------------------
(* chama_updates_websocket *)

\* The endpoint up to the return of accept shares nothing with the others:
\* it ends there (a token that is not a member's, a peer already gone), or
\* goes on to the rest of ConnectionManager.connect.
Reject(s) ==
  /\ LoopIsFree /\ pc[s] = "new"
  /\ pc' = [pc EXCEPT ![s] = "closed"]
  /\ alive' = [alive EXCEPT ![s] = FALSE]
  /\ UNCHANGED <<registry, home, cast, history, spoiled>>

\* Mutant: the newest connection comes first.
ConnectFirst(s, c) ==
  /\ LoopIsFree /\ pc[s] = "new"
  /\ active' = active \cup {c}
  /\ connections' = [connections EXCEPT ![c] = <<s>> \o @]
  /\ home' = [home EXCEPT ![s] = c]
  /\ pc' = [pc EXCEPT ![s] = "receiving"]
  /\ UNCHANGED <<alive, cast, history, spoiled>>

Connect(s, c) ==
  /\ LoopIsFree /\ pc[s] = "new"
  /\ active' = active \cup {c}
  /\ connections' = [connections EXCEPT ![c] = Append(@, s)]
  /\ home' = [home EXCEPT ![s] = c]
  /\ pc' = [pc EXCEPT ![s] = "receiving"]
  /\ UNCHANGED <<alive, cast, history, spoiled>>

\* Mutant: the endpoint ends without disconnect.
EndpointEndsSilently(s) ==
  /\ LoopIsFree /\ pc[s] = "receiving"
  /\ pc' = [pc EXCEPT ![s] = "closed"]
  /\ alive' = [alive EXCEPT ![s] = FALSE]
  /\ home' = [home EXCEPT ![s] = NoChama]
  /\ UNCHANGED <<registry, cast, history, spoiled>>

\* The receive loop ends: the peer has gone, or the server gives the
\* connection up.  Both handlers call disconnect.
EndpointEnds(s) ==
  /\ LoopIsFree /\ pc[s] = "receiving"
  /\ Disconnect(s, home[s], cast)
  /\ pc' = [pc EXCEPT ![s] = "closed"]
  /\ alive' = [alive EXCEPT ![s] = FALSE]
  /\ home' = [home EXCEPT ![s] = NoChama]
  /\ UNCHANGED spoiled

\* (A peer that goes while the accept is pending might as well go after.)
PeerGoes(s) ==
  /\ pc[s] = "receiving" /\ alive[s]
  /\ alive' = [alive EXCEPT ![s] = FALSE]
  /\ UNCHANGED <<registry, home, pc, cast, history, spoiled>>

-----------------------------------------------------------------------------
(* ConnectionManager.broadcast *)

StartBroadcast(b, c, m) ==
  /\ LoopIsFree /\ cast[b].phase = "idle" /\ c \in active
  /\ cast' = [cast EXCEPT ![b] =
       [NoCast EXCEPT !.phase = "looping", !.chama = c, !.message = m, !.live = TRUE]]
  /\ history' = [history EXCEPT ![b] =
       [NoHistory EXCEPT !.owed = {s \in Sockets : Listed(s, c)}]]
  /\ spoiled' = IF m \in Unserialisable THEN spoiled \cup {c} ELSE spoiled
  /\ UNCHANGED <<registry, home, pc, alive>>

\* A chama nobody listens to is left alone.
BroadcastToNobody(b, c) ==
  /\ LoopIsFree /\ cast[b].phase = "idle" /\ c \notin active
  /\ UNCHANGED vars

HasNext(b) == cast[b].live /\ cast[b].index < Len(connections[cast[b].chama])
Following(b) == connections[cast[b].chama][cast[b].index + 1]

\* A message that does not serialise raises before anything is awaited.
NextConnection(b) ==
  /\ cast[b].phase = "looping" /\ HasNext(b)
  /\ cast' =
       IF cast[b].message \in Unserialisable
       THEN [cast EXCEPT ![b].index = @ + 1, ![b].failed = @ \cup {Following(b)}]
       ELSE [cast EXCEPT ![b].index = @ + 1, ![b].connection = Following(b),
                         ![b].phase = "sending"]
  /\ history' = [history EXCEPT ![b].owed = @ \ {Following(b)},
                               ![b].seen = @ \cup {Following(b)}]
  /\ UNCHANGED <<registry, home, pc, alive, spoiled>>

Sent(b) ==
  /\ LoopIsFree /\ cast[b].phase = "sending"
  /\ cast' = [cast EXCEPT ![b].phase = "looping", ![b].connection = NoSocket]
  /\ UNCHANGED <<registry, home, pc, alive, history, spoiled>>

\* Mutant: the connection is forgotten before it is noted as failed.
SendFailsForgets(b) ==
  /\ LoopIsFree /\ cast[b].phase = "sending" /\ ~alive[cast[b].connection]
  /\ cast' = [cast EXCEPT ![b].phase = "looping", ![b].connection = NoSocket,
                         ![b].failed = @ \cup {NoSocket}]
  /\ UNCHANGED <<registry, home, pc, alive, history, spoiled>>

\* Mutant: a failed send ends the loop.
SendFailsBreaks(b) ==
  /\ LoopIsFree /\ cast[b].phase = "sending" /\ ~alive[cast[b].connection]
  /\ cast' = [cast EXCEPT ![b].phase = "cleanup", ![b].connection = NoSocket,
                         ![b].failed = @ \cup {cast[b].connection}]
  /\ UNCHANGED <<registry, home, pc, alive, history, spoiled>>

SendFails(b) ==
  /\ LoopIsFree /\ cast[b].phase = "sending" /\ ~alive[cast[b].connection]
  /\ cast' = [cast EXCEPT ![b].phase = "looping", ![b].connection = NoSocket,
                         ![b].failed = @ \cup {cast[b].connection}]
  /\ UNCHANGED <<registry, home, pc, alive, history, spoiled>>

StartCleanup(b) ==
  /\ cast[b].phase = "looping" /\ ~HasNext(b)
  /\ cast' = [cast EXCEPT ![b].phase = "cleanup"]
  /\ UNCHANGED <<registry, home, pc, alive, history, spoiled>>

CleanUp(b, s) ==
  /\ cast[b].phase = "cleanup" /\ s \in cast[b].failed
  /\ Disconnect(s, cast[b].chama, [cast EXCEPT ![b].failed = @ \ {s}])
  /\ UNCHANGED <<home, pc, alive, spoiled>>

EndBroadcast(b) ==
  /\ cast[b].phase = "cleanup" /\ cast[b].failed = {}
  /\ cast' = [cast EXCEPT ![b] = NoCast]
  /\ history' = [history EXCEPT ![b] = NoHistory]
  /\ UNCHANGED <<registry, home, pc, alive, spoiled>>

-----------------------------------------------------------------------------
Endpoint(s) ==
  \/ Reject(s) \/ EndpointEnds(s)
  \/ \E c \in Chamas : Connect(s, c)

\* The steps of a broadcast that do not wait for a peer.
BroadcastRuns(b) ==
  \/ NextConnection(b) \/ StartCleanup(b) \/ EndBroadcast(b)
  \/ \E s \in Sockets : CleanUp(b, s)

Next ==
  \/ \E s \in Sockets : Endpoint(s) \/ PeerGoes(s)
  \/ \E b \in Broadcasts :
       \/ \E c \in Chamas, m \in Messages : StartBroadcast(b, c, m)
       \/ \E c \in Chamas : BroadcastToNobody(b, c)
       \/ BroadcastRuns(b) \/ Sent(b) \/ SendFails(b)

Spec == Init /\ [][Next]_vars

\* The event loop runs the coroutine that has control, and resumes, first
\* come first served, every endpoint whose peer has gone.  A send to a slow
\* peer may wait for ever.
FairSpec ==
  /\ Spec
  /\ \A b \in Broadcasts : WF_vars(BroadcastRuns(b))
  /\ \A s \in Sockets : SF_vars(~alive[s] /\ EndpointEnds(s))

-----------------------------------------------------------------------------
(* Properties *)

TypeOK ==
  /\ active \subseteq Chamas
  /\ connections \in [Chamas -> Seq(Sockets)]
  /\ home \in [Sockets -> Chamas \cup {NoChama}]
  /\ pc \in [Sockets -> {"new", "receiving", "closed"}]
  /\ alive \in [Sockets -> BOOLEAN]
  /\ cast \in [Broadcasts ->
       [phase : {"idle", "looping", "sending", "cleanup"},
        chama : Chamas \cup {NoChama}, message : Messages \cup {NoMessage},
        index : Nat, connection : Sockets \cup {NoSocket}, live : BOOLEAN,
        failed : SUBSET Sockets]]
  /\ history \in [Broadcasts ->
       [owed : SUBSET Sockets, seen : SUBSET Sockets, departures : Nat]]
  /\ spoiled \subseteq Chamas

NoLeak ==
  /\ \A c \in Chamas : c \in active <=> connections[c] # <<>>
  /\ \A c \in Chamas : \A i, j \in 1..Len(connections[c]) :
       /\ pc[connections[c][i]] = "receiving" /\ home[connections[c][i]] = c
       /\ connections[c][i] = connections[c][j] => i = j

LiveStaysListed ==
  \A s \in Sockets :
    pc[s] = "receiving" /\ alive[s] /\ home[s] \notin spoiled => Listed(s, home[s])

\* The registry leaks nothing: a listed socket is one whose endpoint is still
\* receiving, on the list of its own chama, once, and the dictionary has a key
\* exactly for the lists that are not empty.  And it loses nothing: as long as
\* what is broadcast serialises, a client that is there and whose endpoint is
\* receiving is on its list.  Two parties remove sockets, the endpoint and any
\* broadcast whose send failed, maybe from a list made anew meanwhile.
ListsAreExact == NoLeak /\ LiveStaysListed

\* "Broadcast message to all connections for a specific chama": a broadcast
\* misses at most one of the connections it found and that have stayed, for
\* each removal from the list while it was sending; with none, it misses none.
MissedAtMostDepartures ==
  \A b \in Broadcasts : cast[b].phase = "cleanup" =>
    Cardinality(history[b].owed) <= history[b].departures

\* However the list shifts under it, a broadcast never sends its message to
\* the same connection twice.
NoRepeatedSend ==
  [][\A b \in Broadcasts :
       cast[b].phase = "looping" /\ cast'[b].phase = "sending"
       => cast'[b].connection \notin history[b].seen]_vars

\* A list that holds connections whose peer has gone is eventually free of
\* them, even while a broadcast waits for some other client.
GoneAreUnlisted ==
  \A c \in Chamas :
    (\E s \in Sockets : Listed(s, c) /\ ~alive[s])
    ~> (\A s \in Sockets : Listed(s, c) => alive[s])

-----------------------------------------------------------------------------
(* The registry this implements *)

Registry ==
  INSTANCE SocketRegistry WITH
    members <- [c \in Chamas |-> {s \in Sockets : Listed(s, c)}],
    spent <- {s \in Sockets : pc[s] \in {"receiving", "closed"}}

\* Through the dictionary of lists, its deletions and the clean-ups, each
\* socket joins once, one chama, and leaves for good.
ImplementsRegistry == Registry!Spec
=============================================================================
