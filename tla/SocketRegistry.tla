--------------------------- MODULE SocketRegistry ---------------------------
(***************************************************************************)
(* What the registry of live connections promises: a WebSocket is a member *)
(* of at most one chama's updates, becomes one at most once, and when it   *)
(* stops being one stays out.  ConnectionManager implements it with a      *)
(* dictionary of lists that several coroutines change and iterate over.    *)
(***************************************************************************)
CONSTANTS Sockets, Chamas

VARIABLES
  members,  \* the sockets that get a chama's updates
  spent     \* the sockets that have been admitted, or turned away

vars == <<members, spent>>

Init ==
  /\ members = [c \in Chamas |-> {}]
  /\ spent = {}

Admit(s, c) ==
  /\ s \notin spent
  /\ members' = [members EXCEPT ![c] = @ \cup {s}]
  /\ spent' = spent \cup {s}

TurnAway(s) ==
  /\ s \notin spent
  /\ spent' = spent \cup {s}
  /\ UNCHANGED members

Leave(s, c) ==
  /\ s \in members[c]
  /\ members' = [members EXCEPT ![c] = @ \ {s}]
  /\ UNCHANGED spent

Next ==
  \E s \in Sockets :
    \/ TurnAway(s)
    \/ \E c \in Chamas : Admit(s, c) \/ Leave(s, c)

Spec == Init /\ [][Next]_vars
=============================================================================
