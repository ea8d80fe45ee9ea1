----------------------- MODULE ConnectionManager_proofs -----------------------
(***************************************************************************)
(* Theorems about ConnectionManager, for any sockets, chamas, broadcasts   *)
(* and messages.                                                           *)
(***************************************************************************)
EXTENDS ConnectionManager, SequenceTheorems, FiniteSetTheorems, TLAPS

\* list.remove: what RemoveAt leaves of a list.
LEMMA RemoveAtProperties ==
  ASSUME NEW S, NEW q \in Seq(S), NEW i \in 1..Len(q)
  PROVE  /\ RemoveAt(q, i) \in Seq(S)
         /\ Len(RemoveAt(q, i)) = Len(q) - 1
         /\ \A j \in 1..(Len(q) - 1) :
              RemoveAt(q, i)[j] = IF j < i THEN q[j] ELSE q[j + 1]
<1> DEFINE a == SubSeq(q, 1, i - 1)
           z == SubSeq(q, i + 1, Len(q))
<1>1. /\ a \in Seq(S) /\ Len(a) = i - 1
      /\ \A j \in 1..(i - 1) : a[j] = q[j]
  OBVIOUS
<1>2. /\ z \in Seq(S) /\ Len(z) = Len(q) - i
      /\ \A j \in 1..(Len(q) - i) : z[j] = q[j + i]
  OBVIOUS
<1>3. RemoveAt(q, i) = a \o z
  BY DEF RemoveAt
<1>4. Len(q) \in Nat /\ i \in Nat
  OBVIOUS
<1> HIDE DEF a, z
<1>5. /\ a \o z \in Seq(S) /\ Len(a \o z) = Len(q) - 1
      /\ \A j \in 1..(Len(q) - 1) :
           (a \o z)[j] = IF j <= i - 1 THEN a[j] ELSE z[j - (i - 1)]
  <2>1. /\ a \o z \in Seq(S) /\ Len(a \o z) = Len(a) + Len(z)
        /\ \A j \in 1..Len(a) + Len(z) :
             (a \o z)[j] = IF j <= Len(a) THEN a[j] ELSE z[j - Len(a)]
    BY <1>1, <1>2, ConcatProperties, Zenon
  <2>2. Len(a) = i - 1 /\ Len(a) + Len(z) = Len(q) - 1
    BY <1>1, <1>2, <1>4
  <2>3. QED
    BY <2>1, <2>2
<1>6. ASSUME NEW j \in 1..(Len(q) - 1)
      PROVE  (a \o z)[j] = IF j < i THEN q[j] ELSE q[j + 1]
  <2>1. CASE j < i
    BY <1>1, <1>4, <1>5, <2>1
  <2>2. CASE ~(j < i)
    <3>1. j - (i - 1) \in 1..(Len(q) - i) /\ (j - (i - 1)) + i = j + 1
      BY <1>4, <2>2
    <3>2. z[j - (i - 1)] = q[(j - (i - 1)) + i]
      BY <1>2, <3>1
    <3>3. QED
      BY <1>4, <1>5, <2>2, <3>1, <3>2
  <2>3. QED
    BY <2>1, <2>2
<1>7. QED
  BY <1>3, <1>5, <1>6

-----------------------------------------------------------------------------
(* The registry and the endpoints *)

RegistryTyped ==
  /\ active \subseteq Chamas
  /\ connections \in [Chamas -> Seq(Sockets)]
  /\ home \in [Sockets -> Chamas \cup {NoChama}]
  /\ pc \in [Sockets -> {"new", "receiving", "closed"}]

RegistryInv == RegistryTyped /\ NoLeak

\* What disconnect does to the registry when it finds the socket.
LEMMA UnlistRemoves ==
  ASSUME RegistryInv, NEW s, NEW c \in Chamas, NEW i \in 1..Len(connections[c]),
         connections[c][i] = s, Unlist(s, c, i)
  PROVE  /\ active' \subseteq Chamas /\ connections' \in [Chamas -> Seq(Sockets)]
         /\ \A d \in Chamas : d \in active' <=> connections'[d] # <<>>
         /\ \A d \in Chamas : \A t : Listed(t, d)' <=> Listed(t, d) /\ ~(d = c /\ t = s)
         /\ \A d \in Chamas : \A j, k \in 1..Len(connections'[d]) :
              connections'[d][j] = connections'[d][k] => j = k
<1> DEFINE q == connections[c]
           rest == RemoveAt(q, i)
<1>1. q \in Seq(Sockets) /\ i \in 1..Len(q) /\ Len(q) \in Nat /\ i \in Nat /\ q[i] = s
  BY DEF RegistryInv, RegistryTyped
<1>2. /\ connections' = [connections EXCEPT ![c] = rest]
      /\ active' = IF rest = <<>> THEN active \ {c} ELSE active
  BY DEF Unlist
<1>3. /\ rest \in Seq(Sockets) /\ Len(rest) = Len(q) - 1
      /\ \A j \in 1..(Len(q) - 1) : rest[j] = IF j < i THEN q[j] ELSE q[j + 1]
  BY <1>1, RemoveAtProperties
<1>4. /\ \A j, k \in 1..Len(q) : q[j] = q[k] => j = k
      /\ c \in active <=> q # <<>>
      /\ \A d \in Chamas : d \in active <=> connections[d] # <<>>
  BY DEF RegistryInv, NoLeak
<1>5. connections \in [Chamas -> Seq(Sockets)] /\ active \subseteq Chamas
  BY DEF RegistryInv, RegistryTyped
<1>6. connections' \in [Chamas -> Seq(Sockets)] /\ connections'[c] = rest
  BY <1>2, <1>3, <1>5
<1>7. c \in active
  BY <1>1, <1>4
<1>8. \A d \in Chamas : d \in active' <=> connections'[d] # <<>>
  BY <1>2, <1>4, <1>5, <1>6, <1>7
<1>9. \A j, k \in 1..Len(rest) : rest[j] = rest[k] => j = k
  BY <1>1, <1>3, <1>4
<1>10. \A t : (\E j \in 1..Len(rest) : rest[j] = t)
              <=> (\E j \in 1..Len(q) : q[j] = t) /\ t # s
  <2>1. ASSUME NEW j \in 1..Len(rest) PROVE (\E k \in 1..Len(q) : q[k] = rest[j]) /\ rest[j] # s
    <3>1. CASE j < i
      BY <1>1, <1>3, <1>4, <3>1
    <3>2. CASE ~(j < i)
      <4>1. rest[j] = q[j + 1] /\ j + 1 \in 1..Len(q) /\ j + 1 # i
        BY <1>1, <1>3, <3>2
      <4>2. QED
        BY <1>1, <1>4, <4>1
    <3>3. QED
      BY <3>1, <3>2
  <2>2. ASSUME NEW k \in 1..Len(q), q[k] # s PROVE \E j \in 1..Len(rest) : rest[j] = q[k]
    <3>1. CASE k < i
      <4>1. k \in 1..Len(rest) /\ rest[k] = q[k]
        BY <1>1, <1>3, <3>1
      <4>2. QED
        BY <4>1
    <3>2. CASE k > i
      <4>1. k - 1 \in 1..Len(rest) /\ ~(k - 1 < i) /\ (k - 1) + 1 = k
        BY <1>1, <1>3, <3>2
      <4>2. rest[k - 1] = q[k]
        BY <1>3, <4>1
      <4>3. QED
        BY <4>1, <4>2
    <3>3. QED
      BY <1>1, <2>2, <3>1, <3>2
  <2>3. QED
    BY <2>1, <2>2
<1>11. \A t : Listed(t, c)' <=> Listed(t, c) /\ t # s
  BY <1>6, <1>10 DEF Listed
<1>12. \A d \in Chamas \ {c} : connections'[d] = connections[d]
  BY <1>2, <1>5
<1>13. \A d \in Chamas : \A t : Listed(t, d)' <=> Listed(t, d) /\ ~(d = c /\ t = s)
  BY <1>11, <1>12 DEF Listed
<1>14. \A d \in Chamas : \A j, k \in 1..Len(connections'[d]) :
         connections'[d][j] = connections'[d][k] => j = k
  BY <1>6, <1>9, <1>12 DEF RegistryInv, NoLeak
<1>15. QED
  BY <1>2, <1>5, <1>6, <1>8, <1>13, <1>14

LEMMA InitRegistryInv == Init => RegistryInv
  BY DEF Init, RegistryInv, RegistryTyped, NoLeak

\* Appending a socket that is on no list.
LEMMA AppendAdds ==
  ASSUME RegistryInv, NEW s \in Sockets, NEW c \in Chamas, pc[s] # "receiving",
         connections' = [connections EXCEPT ![c] = Append(@, s)],
         active' = active \cup {c}
  PROVE  /\ active' \subseteq Chamas /\ connections' \in [Chamas -> Seq(Sockets)]
         /\ \A d \in Chamas : d \in active' <=> connections'[d] # <<>>
         /\ \A d \in Chamas : \A t : Listed(t, d)' <=> Listed(t, d) \/ (d = c /\ t = s)
         /\ \A d \in Chamas : \A j, k \in 1..Len(connections'[d]) :
              connections'[d][j] = connections'[d][k] => j = k
<1> DEFINE q == connections[c]
           more == Append(q, s)
<1>1. q \in Seq(Sockets) /\ Len(q) \in Nat
  BY DEF RegistryInv, RegistryTyped
<1>2. /\ more \in Seq(Sockets) /\ more # <<>> /\ Len(more) = Len(q) + 1
      /\ \A i \in 1..Len(q) : more[i] = q[i]
      /\ more[Len(q) + 1] = s
  BY <1>1, AppendProperties
<1>3. /\ connections \in [Chamas -> Seq(Sockets)] /\ active \subseteq Chamas
      /\ connections' = [connections EXCEPT ![c] = more]
  BY DEF RegistryInv, RegistryTyped
<1>4. /\ \A i \in 1..Len(q) : q[i] # s
      /\ \A j, k \in 1..Len(q) : q[j] = q[k] => j = k
      /\ \A d \in Chamas : d \in active <=> connections[d] # <<>>
  BY DEF RegistryInv, NoLeak
<1> HIDE DEF more
<1>5. connections'[c] = more /\ \A d \in Chamas \ {c} : connections'[d] = connections[d]
  BY <1>3
<1>6. \A j, k \in 1..Len(more) : more[j] = more[k] => j = k
  BY <1>1, <1>2, <1>4
<1>7. \A t : (\E j \in 1..Len(more) : more[j] = t)
             <=> (\E j \in 1..Len(q) : q[j] = t) \/ t = s
  <2>1. Len(q) + 1 \in 1..Len(more) /\ \A j \in 1..Len(q) : j \in 1..Len(more)
    BY <1>1, <1>2
  <2>2. ASSUME NEW j \in 1..Len(more) PROVE j \in 1..Len(q) \/ j = Len(q) + 1
    BY <1>1, <1>2
  <2>3. QED
    BY <1>2, <2>1, <2>2
<1>8. \A d \in Chamas : \A t : Listed(t, d)' <=> Listed(t, d) \/ (d = c /\ t = s)
  BY <1>5, <1>7 DEF Listed
<1>9. \A d \in Chamas : \A j, k \in 1..Len(connections'[d]) :
        connections'[d][j] = connections'[d][k] => j = k
  BY <1>5, <1>6 DEF RegistryInv, NoLeak
<1>10. QED
  BY <1>2, <1>3, <1>4, <1>5, <1>8, <1>9

\* Each way the registry changes keeps RegistryInv.
LEMMA StepRegistryInv == RegistryInv /\ [Next]_vars => RegistryInv'
<1> SUFFICES ASSUME RegistryInv, [Next]_vars PROVE RegistryInv'
  OBVIOUS
<1>0. NoChama \notin Chamas
  BY ManagerAssumption
<1>a. \A c \in Chamas : \A t : Listed(t, c) => pc[t] = "receiving" /\ home[t] = c
  BY DEF RegistryInv, NoLeak, Listed
\* What is to be shown, by socket instead of by place on a list.
<1>b. ASSUME /\ active' \subseteq Chamas /\ connections' \in [Chamas -> Seq(Sockets)]
             /\ home' \in [Sockets -> Chamas \cup {NoChama}]
             /\ pc' \in [Sockets -> {"new", "receiving", "closed"}],
             \A c \in Chamas : c \in active' <=> connections'[c] # <<>>,
             \A c \in Chamas : \A t : Listed(t, c)' => pc'[t] = "receiving" /\ home'[t] = c,
             \A c \in Chamas : \A i, j \in 1..Len(connections'[c]) :
               connections'[c][i] = connections'[c][j] => i = j
      PROVE  RegistryInv'
  BY <1>b DEF RegistryInv, RegistryTyped, NoLeak, Listed
<1>c. ASSUME UNCHANGED <<registry, home, pc>> PROVE RegistryInv'
  BY <1>c DEF registry, RegistryInv, RegistryTyped, NoLeak
<1>1. ASSUME NEW s \in Sockets, Reject(s) PROVE RegistryInv'
  BY <1>1 DEF Reject, registry, RegistryInv, RegistryTyped, NoLeak
<1>2. ASSUME NEW s \in Sockets, NEW c \in Chamas, Connect(s, c) PROVE RegistryInv'
  <2>1. /\ pc[s] = "new" /\ pc' = [pc EXCEPT ![s] = "receiving"]
        /\ home' = [home EXCEPT ![s] = c]
        /\ connections' = [connections EXCEPT ![c] = Append(@, s)]
        /\ active' = active \cup {c}
    BY <1>2 DEF Connect
  <2>2. /\ active' \subseteq Chamas /\ connections' \in [Chamas -> Seq(Sockets)]
        /\ \A d \in Chamas : d \in active' <=> connections'[d] # <<>>
        /\ \A d \in Chamas : \A t : Listed(t, d)' <=> Listed(t, d) \/ (d = c /\ t = s)
        /\ \A d \in Chamas : \A j, k \in 1..Len(connections'[d]) :
             connections'[d][j] = connections'[d][k] => j = k
    <3>1. pc[s] # "receiving"
      BY <2>1
    <3>2. QED
      BY <2>1, <3>1, AppendAdds
  <2>3. home' \in [Sockets -> Chamas \cup {NoChama}]
        /\ pc' \in [Sockets -> {"new", "receiving", "closed"}]
    BY <2>1 DEF RegistryInv, RegistryTyped
  <2>4. pc'[s] = "receiving" /\ home'[s] = c
    BY <2>1 DEF RegistryInv, RegistryTyped
  <2>5. ASSUME NEW d \in Chamas, NEW t, Listed(t, d)
        PROVE  pc'[t] = "receiving" /\ home'[t] = d
    <3>1. pc[t] = "receiving" /\ home[t] = d /\ t # s
      BY <1>a, <2>1, <2>5
    <3>2. QED
      BY <2>1, <3>1
  <2>6. QED
    BY <1>b, <2>2, <2>3, <2>4, <2>5
<1>3. ASSUME NEW s \in Sockets, EndpointEnds(s) PROVE RegistryInv'
  <2>1. /\ pc' = [pc EXCEPT ![s] = "closed"] /\ home' = [home EXCEPT ![s] = NoChama]
        /\ Disconnect(s, home[s], cast)
    BY <1>3 DEF EndpointEnds
  <2>2. CASE home[s] \in active /\ Listed(s, home[s])
    <3>1. PICK i \in 1..Len(connections[home[s]]) :
            connections[home[s]][i] = s /\ Unlist(s, home[s], i)
      BY <2>1, <2>2 DEF Disconnect
    <3>2. home[s] \in Chamas
      BY <2>2 DEF RegistryInv, RegistryTyped
    <3>3. PICK c \in Chamas : c = home[s]
      BY <3>2
    <3>4. i \in 1..Len(connections[c]) /\ connections[c][i] = s /\ Unlist(s, c, i)
      BY <3>1, <3>3 DEF Unlist
    <3>5. /\ \A d \in Chamas : \A t : Listed(t, d)' <=> Listed(t, d) /\ ~(d = c /\ t = s)
          /\ active' \subseteq Chamas /\ connections' \in [Chamas -> Seq(Sockets)]
          /\ \A d \in Chamas : d \in active' <=> connections'[d] # <<>>
          /\ \A d \in Chamas : \A j, k \in 1..Len(connections'[d]) :
               connections'[d][j] = connections'[d][k] => j = k
      BY <3>4, UnlistRemoves
    <3>6. ASSUME NEW d \in Chamas, NEW t, Listed(t, d)'
          PROVE  pc'[t] = "receiving" /\ home'[t] = d
      <4>1. Listed(t, d) /\ ~(d = c /\ t = s)
        BY <3>5, <3>6
      <4>2. pc[t] = "receiving" /\ home[t] = d
        BY <1>a, <4>1
      <4>3. t # s
        BY <3>3, <4>1, <4>2
      <4>4. QED
        BY <2>1, <4>2, <4>3 DEF RegistryInv, RegistryTyped
    <3>7. home' \in [Sockets -> Chamas \cup {NoChama}]
          /\ pc' \in [Sockets -> {"new", "receiving", "closed"}]
      BY <2>1 DEF RegistryInv, RegistryTyped
    <3>8. QED
      BY <1>b, <3>5, <3>6, <3>7
  <2>3. CASE ~(home[s] \in active /\ Listed(s, home[s]))
    <3>1. UNCHANGED registry
      BY <2>1, <2>3 DEF Disconnect
    <3>2. \A c \in Chamas : ~Listed(s, c)
      BY <1>a, <2>3 DEF RegistryInv, NoLeak, Listed
    <3>3. QED
      BY <1>a, <1>b, <2>1, <3>1, <3>2 DEF registry, RegistryInv, RegistryTyped, NoLeak, Listed
  <2>4. QED
    BY <2>2, <2>3
<1>4. ASSUME NEW b \in Broadcasts, NEW s \in Sockets, CleanUp(b, s) PROVE RegistryInv'
  <2>1. /\ UNCHANGED <<home, pc>>
        /\ Disconnect(s, cast[b].chama, [cast EXCEPT ![b].failed = @ \ {s}])
    BY <1>4 DEF CleanUp
  <2>2. CASE cast[b].chama \in active /\ Listed(s, cast[b].chama)
    <3>1. PICK i \in 1..Len(connections[cast[b].chama]) :
            connections[cast[b].chama][i] = s /\ Unlist(s, cast[b].chama, i)
      BY <2>1, <2>2 DEF Disconnect
    <3>2. PICK c \in Chamas : c = cast[b].chama
      BY <2>2 DEF RegistryInv, RegistryTyped
    <3>3. i \in 1..Len(connections[c]) /\ connections[c][i] = s /\ Unlist(s, c, i)
      BY <3>1, <3>2 DEF Unlist
    <3>4. /\ \A d \in Chamas : \A t : Listed(t, d)' => Listed(t, d)
          /\ active' \subseteq Chamas /\ connections' \in [Chamas -> Seq(Sockets)]
          /\ \A d \in Chamas : d \in active' <=> connections'[d] # <<>>
          /\ \A d \in Chamas : \A j, k \in 1..Len(connections'[d]) :
               connections'[d][j] = connections'[d][k] => j = k
      BY <3>3, UnlistRemoves
    <3>5. QED
      BY <1>a, <1>b, <2>1, <3>4 DEF RegistryInv, RegistryTyped
  <2>3. CASE ~(cast[b].chama \in active /\ Listed(s, cast[b].chama))
    BY <1>c, <2>1, <2>3 DEF Disconnect
  <2>4. QED
    BY <2>2, <2>3
<1>5. ASSUME NEW b \in Broadcasts, NEW c \in Chamas, NEW m \in Messages,
             StartBroadcast(b, c, m)
      PROVE  RegistryInv'
  BY <1>5, <1>c DEF StartBroadcast
<1>6. ASSUME NEW b \in Broadcasts,
             NextConnection(b) \/ Sent(b) \/ SendFails(b) \/ StartCleanup(b)
             \/ EndBroadcast(b)
      PROVE  RegistryInv'
  BY <1>6, <1>c DEF NextConnection, Sent, SendFails, StartCleanup, EndBroadcast
<1>7. ASSUME NEW s \in Sockets, PeerGoes(s) PROVE RegistryInv'
  BY <1>7, <1>c DEF PeerGoes
<1>8. CASE UNCHANGED vars
  BY <1>8, <1>c DEF vars
<1>9. QED
  BY <1>1, <1>2, <1>3, <1>4, <1>5, <1>6, <1>7, <1>8
     DEF Next, Endpoint, BroadcastRuns, BroadcastToNobody

-----------------------------------------------------------------------------
(* The locals of broadcasts *)

Casts ==
  [phase : {"idle", "looping", "sending", "cleanup"},
   chama : Chamas \cup {NoChama}, message : Messages \cup {NoMessage},
   index : Nat, connection : Sockets \cup {NoSocket}, live : BOOLEAN,
   failed : SUBSET Sockets]

Histories == [owed : SUBSET Sockets, seen : SUBSET Sockets, departures : Nat]

\* A broadcast that shares a list has its chama's; one that sends has a socket.
CastTyped ==
  /\ alive \in [Sockets -> BOOLEAN]
  /\ cast \in [Broadcasts -> Casts]
  /\ history \in [Broadcasts -> Histories]
  /\ spoiled \subseteq Chamas
  /\ \A b \in Broadcasts :
       /\ cast[b].live => cast[b].chama \in Chamas
       /\ cast[b].phase = "sending" => cast[b].connection \in Sockets

Typed == RegistryInv /\ CastTyped

LEMMA InitTyped == Init => Typed
  BY InitRegistryInv DEF Init, Typed, CastTyped, Casts, Histories, NoCast, NoHistory

\* The connection a broadcast sends to next.
LEMMA FollowingListed ==
  ASSUME Typed, NEW b \in Broadcasts, HasNext(b)
  PROVE  /\ cast[b].chama \in Chamas /\ Following(b) \in Sockets
         /\ cast[b].index + 1 \in 1..Len(connections[cast[b].chama])
<1>1. cast[b].live /\ cast[b].index \in Nat /\ cast[b].chama \in Chamas
  BY DEF Typed, CastTyped, Casts, HasNext
<1>2. connections[cast[b].chama] \in Seq(Sockets)
  BY <1>1 DEF Typed, RegistryInv, RegistryTyped
<1>3. QED
  BY <1>1, <1>2 DEF HasNext, Following

\* The fields of a broadcast's locals that a step changes.
LEMMA CastUpdates ==
  ASSUME NEW x \in Casts
  PROVE  /\ \A f \in SUBSET Sockets : [x EXCEPT !.failed = f] \in Casts
         /\ [x EXCEPT !.live = FALSE] \in Casts
         /\ [x EXCEPT !.phase = "cleanup"] \in Casts
         /\ [x EXCEPT !.phase = "looping", !.connection = NoSocket] \in Casts
  BY DEF Casts

\* disconnect: either the socket is not on the list, or it is taken off it and
\* the broadcasts that share the list are told.
LEMMA DisconnectEffect ==
  ASSUME RegistryInv, NEW s, NEW c, NEW casts \in [Broadcasts -> Casts],
         Disconnect(s, c, casts)
  PROVE  \/ cast' = casts /\ UNCHANGED <<registry, history>> /\ ~(c \in active /\ Listed(s, c))
         \/ /\ c \in Chamas
            /\ \E i \in 1..Len(connections[c]) : connections[c][i] = s /\ Unlist(s, c, i)
            /\ cast' = Orphan(c, casts)
  BY DEF Disconnect, RegistryInv, RegistryTyped

LEMMA DisconnectTyped ==
  ASSUME Typed, NEW s \in Sockets, NEW c, NEW casts \in [Broadcasts -> Casts],
         \A b \in Broadcasts :
           /\ casts[b].live => casts[b].chama \in Chamas
           /\ casts[b].phase = "sending" => casts[b].connection \in Sockets,
         Disconnect(s, c, casts)
  PROVE  /\ cast' \in [Broadcasts -> Casts] /\ history' \in [Broadcasts -> Histories]
         /\ \A b \in Broadcasts :
              /\ cast'[b].live => cast'[b].chama \in Chamas
              /\ cast'[b].phase = "sending" => cast'[b].connection \in Sockets
<1>1. CASE cast' = casts /\ UNCHANGED history
  BY <1>1 DEF Typed, CastTyped
<1>2. CASE cast' = Orphan(c, casts) /\ \E i : Unlist(s, c, i)
  <2>1. history' = [b \in Broadcasts |->
          IF cast[b].chama = c /\ cast[b].live
          THEN [history[b] EXCEPT !.owed = @ \ {s}, !.departures = @ + 1]
          ELSE history[b]]
    BY <1>2 DEF Unlist
  <2>2. \A b \in Broadcasts : history[b] \in Histories
    BY DEF Typed, CastTyped
  <2>3. ASSUME NEW h \in Histories
        PROVE  [h EXCEPT !.owed = @ \ {s}, !.departures = @ + 1] \in Histories
    <3>1. h.owed \ {s} \in SUBSET Sockets /\ h.departures + 1 \in Nat
      BY DEF Histories
    <3>2. \A o \in SUBSET Sockets, d \in Nat :
            [h EXCEPT !.owed = o, !.departures = d] \in Histories
      BY DEF Histories
    <3>3. QED
      BY <3>1, <3>2
  <2>4. history' \in [Broadcasts -> Histories]
    BY <2>1, <2>2, <2>3
  <2>5. \A b \in Broadcasts : cast'[b] \in {casts[b], [casts[b] EXCEPT !.live = FALSE]}
    BY <1>2 DEF Orphan
  <2>6. \A b \in Broadcasts : casts[b] \in Casts
    OBVIOUS
  <2>7. cast' \in [Broadcasts -> Casts]
    BY <1>2, <2>6, CastUpdates DEF Orphan
  <2>8. ASSUME NEW b \in Broadcasts
        PROVE  /\ cast'[b].live => cast'[b].chama \in Chamas
               /\ cast'[b].phase = "sending" => cast'[b].connection \in Sockets
    <3>1. CASE cast'[b] = casts[b]
      BY <3>1
    <3>2. CASE cast'[b] = [casts[b] EXCEPT !.live = FALSE]
      BY <2>6, <3>2 DEF Casts
    <3>3. QED
      BY <2>5, <3>1, <3>2
  <2>9. QED
    BY <2>4, <2>7, <2>8
<1>3. QED
  BY <1>1, <1>2, DisconnectEffect DEF Typed

LEMMA StepTyped == Typed /\ [Next]_vars => Typed'
<1> SUFFICES ASSUME Typed, [Next]_vars PROVE CastTyped'
  BY StepRegistryInv DEF Typed
<1>0. /\ alive \in [Sockets -> BOOLEAN] /\ cast \in [Broadcasts -> Casts]
      /\ history \in [Broadcasts -> Histories] /\ spoiled \subseteq Chamas
      /\ \A b \in Broadcasts :
           /\ cast[b].live => cast[b].chama \in Chamas
           /\ cast[b].phase = "sending" => cast[b].connection \in Sockets
  BY DEF Typed, CastTyped
<1>1. ASSUME NEW s \in Sockets, Reject(s) \/ PeerGoes(s) \/ \E c \in Chamas : Connect(s, c)
      PROVE  CastTyped'
  <2>1. UNCHANGED <<cast, history, spoiled>> /\ alive' \in [Sockets -> BOOLEAN]
    BY <1>0, <1>1 DEF Reject, PeerGoes, Connect
  <2>2. QED
    BY <1>0, <2>1 DEF CastTyped
<1>2. ASSUME NEW s \in Sockets, EndpointEnds(s) PROVE CastTyped'
  <2>1. Disconnect(s, home[s], cast) /\ UNCHANGED spoiled /\ alive' \in [Sockets -> BOOLEAN]
    BY <1>0, <1>2 DEF EndpointEnds
  <2>2. QED
    BY <1>0, <2>1, DisconnectTyped DEF CastTyped
<1>3. ASSUME NEW b \in Broadcasts, NEW s \in Sockets, CleanUp(b, s) PROVE CastTyped'
  <2> DEFINE casts == [cast EXCEPT ![b].failed = @ \ {s}]
  <2>1. casts = [cast EXCEPT ![b] = [cast[b] EXCEPT !.failed = cast[b].failed \ {s}]]
    BY <1>0
  <2>2. [cast[b] EXCEPT !.failed = cast[b].failed \ {s}] \in Casts
    <3>1. cast[b] \in Casts
      BY <1>0
    <3>2. cast[b].failed \ {s} \in SUBSET Sockets
      BY <3>1 DEF Casts
    <3>3. QED
      BY <3>1, <3>2, CastUpdates
  <2>3. casts \in [Broadcasts -> Casts]
    BY <1>0, <2>1, <2>2
  <2>4. \A d \in Broadcasts : casts[d].live = cast[d].live /\ casts[d].chama = cast[d].chama
          /\ casts[d].phase = cast[d].phase /\ casts[d].connection = cast[d].connection
    BY <1>0 DEF Casts
  <2>5. Disconnect(s, cast[b].chama, casts) /\ UNCHANGED <<alive, spoiled>>
    BY <1>3 DEF CleanUp
  <2> HIDE DEF casts
  <2>6. QED
    BY <1>0, <2>3, <2>4, <2>5, DisconnectTyped DEF CastTyped
\* The other steps of a broadcast change its own locals and past.
<1>b. ASSUME NEW b \in Broadcasts, NEW x \in Casts, NEW h \in Histories,
             cast' = [cast EXCEPT ![b] = x], history' = [history EXCEPT ![b] = h],
             alive' = alive, spoiled' \subseteq Chamas,
             x.live => x.chama \in Chamas,
             x.phase = "sending" => x.connection \in Sockets
      PROVE  CastTyped'
  BY <1>0, <1>b DEF CastTyped
<1>h. \A b \in Broadcasts : history = [history EXCEPT ![b] = history[b]] /\ history[b] \in Histories
  BY <1>0
<1>4. ASSUME NEW b \in Broadcasts, NEW c \in Chamas, NEW m \in Messages,
             StartBroadcast(b, c, m)
      PROVE  CastTyped'
  <2> DEFINE x == [NoCast EXCEPT !.phase = "looping", !.chama = c, !.message = m, !.live = TRUE]
             h == [NoHistory EXCEPT !.owed = {s \in Sockets : Listed(s, c)}]
  <2>1. x \in Casts /\ x.chama = c /\ x.phase = "looping"
    BY DEF NoCast, Casts
  <2>2. h \in Histories
    BY DEF NoHistory, Histories
  <2>3. /\ cast' = [cast EXCEPT ![b] = x] /\ history' = [history EXCEPT ![b] = h]
        /\ alive' = alive /\ spoiled' \subseteq Chamas
    BY <1>0, <1>4 DEF StartBroadcast
  <2> HIDE DEF x, h
  <2>4. QED
    BY <1>b, <2>1, <2>2, <2>3
<1>5. ASSUME NEW b \in Broadcasts, NextConnection(b) PROVE CastTyped'
  <2> DEFINE y == cast[b]
             x == IF y.message \in Unserialisable
                  THEN [y EXCEPT !.index = y.index + 1,
                                 !.failed = y.failed \cup {Following(b)}]
                  ELSE [y EXCEPT !.index = y.index + 1, !.connection = Following(b),
                                 !.phase = "sending"]
             h == [history[b] EXCEPT !.owed = @ \ {Following(b)},
                                     !.seen = @ \cup {Following(b)}]
  <2>1. HasNext(b) /\ UNCHANGED <<alive, spoiled>>
        /\ cast' = [cast EXCEPT ![b] = x] /\ history' = [history EXCEPT ![b] = h]
    BY <1>0, <1>5 DEF NextConnection
  <2>2. Following(b) \in Sockets /\ y \in Casts /\ history[b] \in Histories
        /\ (y.live => y.chama \in Chamas)
        /\ (y.phase = "sending" => y.connection \in Sockets)
    BY <1>0, <2>1, FollowingListed
  <2> HIDE DEF y
  <2>3. x \in Casts /\ x.live = y.live /\ x.chama = y.chama
    <3>1. y.index + 1 \in Nat /\ y.failed \cup {Following(b)} \in SUBSET Sockets
      BY <2>2 DEF Casts
    <3>2. QED
      BY <2>2, <3>1 DEF Casts
  <2>4. x.phase = "sending" => x.connection \in Sockets
    BY <2>2 DEF Casts
  <2>5. h \in Histories
    BY <2>2 DEF Histories
  <2> HIDE DEF x, h
  <2>6. QED
    BY <1>0, <1>b, <2>1, <2>2, <2>3, <2>4, <2>5
<1>6. ASSUME NEW b \in Broadcasts, Sent(b) PROVE CastTyped'
  <2> DEFINE y == cast[b]
             x == [y EXCEPT !.phase = "looping", !.connection = NoSocket]
  <2>1. cast' = [cast EXCEPT ![b] = x] /\ UNCHANGED <<alive, history, spoiled>>
    BY <1>0, <1>6 DEF Sent
  <2>2. y \in Casts /\ (y.live => y.chama \in Chamas)
    BY <1>0
  <2> HIDE DEF y
  <2>3. x \in Casts /\ x.live = y.live /\ x.chama = y.chama /\ x.phase = "looping"
    BY <2>2 DEF Casts
  <2> HIDE DEF x
  <2>4. QED
    BY <1>0, <1>b, <1>h, <2>1, <2>2, <2>3
<1>7. ASSUME NEW b \in Broadcasts, SendFails(b) PROVE CastTyped'
  <2> DEFINE y == cast[b]
             x == [y EXCEPT !.phase = "looping", !.connection = NoSocket,
                            !.failed = @ \cup {y.connection}]
  <2>1. cast' = [cast EXCEPT ![b] = x] /\ UNCHANGED <<alive, history, spoiled>>
        /\ y.phase = "sending"
    BY <1>0, <1>7 DEF SendFails
  <2>2. y \in Casts /\ (y.live => y.chama \in Chamas) /\ y.connection \in Sockets
    BY <1>0, <2>1
  <2> HIDE DEF y
  <2>3. x \in Casts /\ x.live = y.live /\ x.chama = y.chama /\ x.phase = "looping"
    BY <2>2 DEF Casts
  <2> HIDE DEF x
  <2>4. QED
    BY <1>0, <1>b, <1>h, <2>1, <2>2, <2>3
<1>8. ASSUME NEW b \in Broadcasts, StartCleanup(b) PROVE CastTyped'
  <2> DEFINE y == cast[b]
             x == [y EXCEPT !.phase = "cleanup"]
  <2>1. cast' = [cast EXCEPT ![b] = x] /\ UNCHANGED <<alive, history, spoiled>>
    BY <1>0, <1>8 DEF StartCleanup
  <2>2. y \in Casts /\ (y.live => y.chama \in Chamas)
    BY <1>0
  <2> HIDE DEF y
  <2>3. x \in Casts /\ x.live = y.live /\ x.chama = y.chama /\ x.phase = "cleanup"
    BY <2>2 DEF Casts
  <2> HIDE DEF x
  <2>4. QED
    BY <1>0, <1>b, <1>h, <2>1, <2>2, <2>3
<1>9. ASSUME NEW b \in Broadcasts, EndBroadcast(b) PROVE CastTyped'
  <2>1. NoCast \in Casts /\ ~NoCast.live /\ NoCast.phase = "idle" /\ NoHistory \in Histories
    BY DEF NoCast, Casts, NoHistory, Histories
  <2>2. QED
    BY <1>0, <1>9, <1>b, <2>1 DEF EndBroadcast
<1>10. CASE UNCHANGED vars
  BY <1>0, <1>10 DEF vars, CastTyped
<1>11. QED
  BY <1>1, <1>2, <1>3, <1>4, <1>5, <1>6, <1>7, <1>8, <1>9, <1>10
     DEF Next, Endpoint, BroadcastRuns, BroadcastToNobody

LEMMA AlwaysTyped == Spec => []Typed
  BY InitTyped, StepTyped, PTL DEF Spec

\* Every reachable state of the registry, the endpoints and the broadcasts is
\* well typed.
THEOREM TypeCorrect == Spec => []TypeOK
<1>1. Typed => TypeOK
  BY DEF Typed, RegistryInv, RegistryTyped, CastTyped, Casts, Histories, TypeOK
<1>2. QED
  BY <1>1, AlwaysTyped, PTL

-----------------------------------------------------------------------------
(* Who is taken off a list.  A broadcast gives up connections whose peer has *)
(* gone, and any connection once its chama is spoiled.                       *)

Justified ==
  \A b \in Broadcasts :
    /\ cast[b].phase # "idle" /\ cast[b].message \in Unserialisable =>
         cast[b].chama \in spoiled
    /\ \A s \in cast[b].failed : ~alive[s] \/ cast[b].chama \in spoiled

AtHome == \A s \in Sockets : pc[s] = "receiving" => home[s] \in Chamas

FaithInv == Typed /\ Justified /\ AtHome /\ LiveStaysListed

LEMMA InitFaith == Init => FaithInv
  BY InitTyped DEF Init, FaithInv, Justified, AtHome, LiveStaysListed, NoCast

\* disconnect takes its socket off its list, and nobody else off any.
LEMMA DisconnectLists ==
  ASSUME RegistryInv, NEW s, NEW c, NEW casts \in [Broadcasts -> Casts],
         Disconnect(s, c, casts)
  PROVE  \A d \in Chamas : \A t : Listed(t, d)' <=> Listed(t, d) /\ ~(d = c /\ t = s)
<1>1. CASE UNCHANGED registry /\ ~(c \in active /\ Listed(s, c))
  <2>1. c \in Chamas /\ Listed(s, c) => c \in active
    BY DEF RegistryInv, NoLeak, RegistryTyped, Listed
  <2>2. \A d \in Chamas : \A t : Listed(t, d)' <=> Listed(t, d)
    BY <1>1 DEF registry, Listed
  <2>3. QED
    BY <1>1, <2>1, <2>2
<1>2. ASSUME c \in Chamas, NEW i \in 1..Len(connections[c]),
             connections[c][i] = s, Unlist(s, c, i)
      PROVE  \A d \in Chamas : \A t : Listed(t, d)' <=> Listed(t, d) /\ ~(d = c /\ t = s)
  BY <1>2, UnlistRemoves
<1>3. QED
  BY <1>1, <1>2, DisconnectEffect

\* What a removal leaves of the locals of every broadcast.
LEMMA DisconnectCasts ==
  ASSUME RegistryInv, NEW s, NEW c, NEW casts \in [Broadcasts -> Casts],
         Disconnect(s, c, casts)
  PROVE  \A b \in Broadcasts :
           /\ cast'[b].phase = casts[b].phase /\ cast'[b].chama = casts[b].chama
           /\ cast'[b].message = casts[b].message /\ cast'[b].failed = casts[b].failed
           /\ cast'[b].index = casts[b].index /\ cast'[b].connection = casts[b].connection
<1> TAKE b \in Broadcasts
<1>1. CASE cast' = casts
  BY <1>1
<1>2. CASE cast' = Orphan(c, casts)
  <2>1. casts[b] \in Casts /\ cast'[b] \in {casts[b], [casts[b] EXCEPT !.live = FALSE]}
    BY <1>2 DEF Orphan
  <2> DEFINE x == casts[b]
  <2>2. x \in Casts
    BY <2>1
  <2> HIDE DEF x
  <2>3. LET y == [x EXCEPT !.live = FALSE] IN
        /\ y.phase = x.phase /\ y.chama = x.chama /\ y.message = x.message
        /\ y.failed = x.failed /\ y.index = x.index /\ y.connection = x.connection
    BY <2>2 DEF Casts
  <2>4. QED
    BY <2>1, <2>3 DEF x
<1>3. QED
  BY <1>1, <1>2, DisconnectEffect

LEMMA StepFaith == FaithInv /\ [Next]_vars => FaithInv'
<1> SUFFICES ASSUME FaithInv, [Next]_vars PROVE Justified' /\ AtHome' /\ LiveStaysListed'
  BY StepTyped DEF FaithInv
<1>0. /\ RegistryInv /\ Typed
      /\ pc \in [Sockets -> {"new", "receiving", "closed"}]
      /\ home \in [Sockets -> Chamas \cup {NoChama}]
      /\ alive \in [Sockets -> BOOLEAN] /\ cast \in [Broadcasts -> Casts]
      /\ \A b \in Broadcasts :
           /\ cast[b].phase # "idle" /\ cast[b].message \in Unserialisable =>
                cast[b].chama \in spoiled
           /\ \A s \in cast[b].failed : ~alive[s] \/ cast[b].chama \in spoiled
      /\ \A b \in Broadcasts : cast[b].failed \subseteq Sockets
  BY DEF FaithInv, Typed, RegistryInv, RegistryTyped, CastTyped, Casts, Justified
<1>k. \A s \in Sockets : pc[s] = "receiving" =>
        home[s] \in Chamas /\ (alive[s] /\ home[s] \notin spoiled => Listed(s, home[s]))
  BY DEF FaithInv, LiveStaysListed, AtHome
<1>l. \A c \in Chamas : \A t : Listed(t, c) => pc[t] = "receiving" /\ home[t] = c
  BY <1>0 DEF RegistryInv, NoLeak, Listed
\* Nobody comes back.
<1>a. ASSUME UNCHANGED <<cast, spoiled>>, \A s \in Sockets : alive'[s] => alive[s]
       PROVE  Justified'
  BY <1>0, <1>a DEF Justified
<1>b. ASSUME UNCHANGED <<registry, home, pc>>,
             \A s \in Sockets : alive'[s] => alive[s], spoiled \subseteq spoiled'
      PROVE  AtHome' /\ LiveStaysListed'
  BY <1>k, <1>b DEF AtHome, LiveStaysListed, registry, Listed
<1>c. ASSUME \A s \in Sockets : pc'[s] = "receiving" =>
               home'[s] \in Chamas /\ (alive'[s] /\ home'[s] \notin spoiled' => Listed(s, home[s])')
      PROVE  AtHome' /\ LiveStaysListed'
  BY <1>c DEF AtHome, LiveStaysListed, Listed
<1>1. ASSUME NEW s \in Sockets, Reject(s) \/ PeerGoes(s)
      PROVE Justified' /\ AtHome' /\ LiveStaysListed'
  <2>1. UNCHANGED <<registry, home, cast, spoiled>> /\ (\A t \in Sockets : alive'[t] => alive[t])
        /\ \A t \in Sockets : pc'[t] = "receiving" => pc[t] = "receiving"
    BY <1>0, <1>1 DEF Reject, PeerGoes
  <2>2. AtHome' /\ LiveStaysListed'
    BY <1>k, <2>1 DEF AtHome, LiveStaysListed, registry, Listed
  <2>3. QED
    BY <1>a, <2>1, <2>2
<1>2. ASSUME NEW s \in Sockets, NEW c \in Chamas, Connect(s, c)
      PROVE  Justified' /\ AtHome' /\ LiveStaysListed'
  <2>1. /\ pc[s] # "receiving" /\ pc' = [pc EXCEPT ![s] = "receiving"]
        /\ home' = [home EXCEPT ![s] = c]
        /\ connections' = [connections EXCEPT ![c] = Append(@, s)]
        /\ active' = active \cup {c} /\ UNCHANGED <<cast, alive, spoiled>>
    BY <1>2 DEF Connect
  <2>2. \A d \in Chamas : \A t : Listed(t, d)' <=> Listed(t, d) \/ (d = c /\ t = s)
    BY <1>0, <2>1, AppendAdds
  <2>3. ASSUME NEW t \in Sockets, pc'[t] = "receiving"
        PROVE  home'[t] \in Chamas /\ (alive'[t] /\ home'[t] \notin spoiled' => Listed(t, home[t])')
    <3>1. CASE t = s
      <4>1. home'[t] = c
        BY <1>0, <2>1, <3>1
      <4>2. Listed(t, c)'
        BY <2>2, <3>1
      <4>3. QED
        BY <4>1, <4>2 DEF Listed
    <3>2. CASE t # s
      <4>1. home'[t] = home[t] /\ pc[t] = "receiving"
        BY <1>0, <2>1, <2>3, <3>2
      <4>2. PICK d \in Chamas : d = home[t]
        BY <1>k, <4>1
      <4>3. alive'[t] /\ d \notin spoiled' => Listed(t, d)'
        BY <1>k, <2>1, <2>2, <4>1, <4>2
      <4>4. QED
        BY <4>1, <4>2, <4>3 DEF Listed
    <3>3. QED
      BY <3>1, <3>2
  <2>4. QED
    BY <1>a, <1>c, <2>1, <2>3
<1>3. ASSUME NEW s \in Sockets, EndpointEnds(s)
      PROVE  Justified' /\ AtHome' /\ LiveStaysListed'
  <2>1. /\ Disconnect(s, home[s], cast) /\ UNCHANGED spoiled
        /\ pc' = [pc EXCEPT ![s] = "closed"] /\ home' = [home EXCEPT ![s] = NoChama]
        /\ alive' = [alive EXCEPT ![s] = FALSE]
    BY <1>3 DEF EndpointEnds
  <2>2. \A d \in Chamas : \A t : Listed(t, d) /\ t # s => Listed(t, d)'
    BY <1>0, <2>1, DisconnectLists
  <2>3. Justified'
    <3>1. \A b \in Broadcasts : /\ cast'[b].phase = cast[b].phase /\ cast'[b].chama = cast[b].chama
                                /\ cast'[b].message = cast[b].message
                                /\ cast'[b].failed = cast[b].failed
      BY <1>0, <2>1, DisconnectCasts
    <3>2. QED
      BY <1>0, <2>1, <3>1 DEF Justified
  <2>4. ASSUME NEW t \in Sockets, pc'[t] = "receiving"
        PROVE  home'[t] \in Chamas /\ (alive'[t] /\ home'[t] \notin spoiled' => Listed(t, home[t])')
    <3>1. t # s /\ home'[t] = home[t] /\ pc[t] = "receiving" /\ (alive'[t] => alive[t])
      BY <1>0, <2>1, <2>4
    <3>2. PICK d \in Chamas : d = home[t]
      BY <1>k, <3>1
    <3>3. alive'[t] /\ d \notin spoiled' => Listed(t, d)'
      BY <1>k, <2>1, <2>2, <3>1, <3>2
    <3>4. QED
      BY <3>1, <3>2, <3>3 DEF Listed
  <2>5. QED
    BY <1>c, <2>3, <2>4
<1>4. ASSUME NEW b \in Broadcasts, NEW s \in Sockets, CleanUp(b, s)
      PROVE  Justified' /\ AtHome' /\ LiveStaysListed'
  <2> DEFINE casts == [cast EXCEPT ![b].failed = @ \ {s}]
  <2>1. /\ Disconnect(s, cast[b].chama, casts)
        /\ s \in cast[b].failed /\ UNCHANGED <<home, pc, alive, spoiled>>
    BY <1>4 DEF CleanUp
  <2>2. /\ casts \in [Broadcasts -> Casts]
        /\ \A d \in Broadcasts :
             /\ casts[d].phase = cast[d].phase /\ casts[d].chama = cast[d].chama
             /\ casts[d].message = cast[d].message /\ casts[d].failed \subseteq cast[d].failed
    <3> DEFINE x == cast[b]
               y == [x EXCEPT !.failed = x.failed \ {s}]
    <3>1. x \in Casts
      BY <1>0
    <3>2. casts = [cast EXCEPT ![b] = y]
      BY <1>0
    <3> HIDE DEF x
    <3>3. x.failed \ {s} \in SUBSET Sockets
      BY <3>1 DEF Casts
    <3>4. y \in Casts
      BY <3>1, <3>3, CastUpdates
    <3>5. y.phase = x.phase /\ y.chama = x.chama /\ y.message = x.message
          /\ y.failed = x.failed \ {s}
      BY <3>1 DEF Casts
    <3> HIDE DEF y
    <3>6. QED
      BY <1>0, <3>2, <3>4, <3>5 DEF x
  <2> HIDE DEF casts
  <2>3. \A d \in Chamas : \A t : Listed(t, d)' <=> Listed(t, d) /\ ~(d = cast[b].chama /\ t = s)
    BY <1>0, <2>1, <2>2, DisconnectLists
  <2>4. Justified'
    <3>1. \A d \in Broadcasts : /\ cast'[d].phase = cast[d].phase /\ cast'[d].chama = cast[d].chama
                                /\ cast'[d].message = cast[d].message
                                /\ cast'[d].failed \subseteq cast[d].failed
      BY <1>0, <2>1, <2>2, DisconnectCasts
    <3>2. QED
      BY <1>0, <2>1, <3>1 DEF Justified
  <2>5. ASSUME NEW t \in Sockets, pc'[t] = "receiving"
        PROVE  home'[t] \in Chamas /\ (alive'[t] /\ home'[t] \notin spoiled' => Listed(t, home[t])')
    <3>1. pc[t] = "receiving" /\ home'[t] = home[t] /\ alive'[t] = alive[t]
      BY <2>1, <2>5
    <3>2. PICK d \in Chamas : d = home[t]
      BY <1>k, <3>1
    <3>3. alive[t] /\ d \notin spoiled => ~(d = cast[b].chama /\ t = s)
      BY <1>0, <2>1
    <3>4. alive[t] /\ d \notin spoiled => Listed(t, d)'
      BY <1>k, <2>3, <3>1, <3>2, <3>3
    <3>5. QED
      BY <2>1, <3>1, <3>2, <3>4 DEF Listed
  <2>6. QED
    BY <1>c, <2>4, <2>5
\* The other steps of a broadcast change its own locals only.
<1>d. ASSUME NEW b \in Broadcasts, NEW x, cast' = [cast EXCEPT ![b] = x],
             x.phase # "idle" /\ x.message \in Unserialisable => x.chama \in spoiled',
             \A s \in x.failed : ~alive[s] \/ x.chama \in spoiled',
             alive' = alive, spoiled \subseteq spoiled'
      PROVE  Justified'
  BY <1>0, <1>d DEF Justified
<1>5. ASSUME NEW b \in Broadcasts, NEW c \in Chamas, NEW m \in Messages,
             StartBroadcast(b, c, m)
      PROVE  Justified' /\ AtHome' /\ LiveStaysListed'
  <2> DEFINE x == [NoCast EXCEPT !.phase = "looping", !.chama = c, !.message = m, !.live = TRUE]
  <2>1. x.failed = {} /\ x.message = m /\ x.chama = c
    BY DEF NoCast
  <2>2. /\ cast' = [cast EXCEPT ![b] = x] /\ UNCHANGED <<registry, home, pc, alive>>
        /\ spoiled' = IF m \in Unserialisable THEN spoiled \cup {c} ELSE spoiled
    BY <1>5 DEF StartBroadcast
  <2> HIDE DEF x
  <2>3. QED
    BY <1>b, <1>d, <2>1, <2>2
<1>6. ASSUME NEW b \in Broadcasts, NextConnection(b)
      PROVE  Justified' /\ AtHome' /\ LiveStaysListed'
  <2> DEFINE y == cast[b]
             x == IF y.message \in Unserialisable
                  THEN [y EXCEPT !.index = y.index + 1,
                                 !.failed = y.failed \cup {Following(b)}]
                  ELSE [y EXCEPT !.index = y.index + 1, !.connection = Following(b),
                                 !.phase = "sending"]
  <2>1. /\ cast' = [cast EXCEPT ![b] = x] /\ UNCHANGED <<registry, home, pc, alive, spoiled>>
        /\ y.phase = "looping"
    BY <1>0, <1>6 DEF NextConnection
  <2>2. /\ y \in Casts /\ (y.message \in Unserialisable => y.chama \in spoiled)
        /\ \A s \in y.failed : ~alive[s] \/ y.chama \in spoiled
    BY <1>0, <2>1
  <2> HIDE DEF y
  <2>3. /\ x.message = y.message /\ x.chama = y.chama
        /\ x.failed = IF y.message \in Unserialisable THEN y.failed \cup {Following(b)}
                      ELSE y.failed
    BY <2>2 DEF Casts
  <2> HIDE DEF x
  <2>4. QED
    BY <1>b, <1>d, <2>1, <2>2, <2>3
<1>7. ASSUME NEW b \in Broadcasts, Sent(b) \/ StartCleanup(b)
      PROVE  Justified' /\ AtHome' /\ LiveStaysListed'
  <2> DEFINE y == cast[b]
             z == [y EXCEPT !.phase = "looping", !.connection = NoSocket]
             x == [y EXCEPT !.phase = "cleanup"]
  <2>1. /\ cast' = [cast EXCEPT ![b] = z] \/ cast' = [cast EXCEPT ![b] = x]
        /\ UNCHANGED <<registry, home, pc, alive, spoiled>>
        /\ y.phase # "idle"
    BY <1>0, <1>7 DEF Sent, StartCleanup
  <2>2. /\ y \in Casts /\ (y.message \in Unserialisable => y.chama \in spoiled)
        /\ \A s \in y.failed : ~alive[s] \/ y.chama \in spoiled
    BY <1>0, <2>1
  <2> HIDE DEF y
  <2>3. /\ x.message = y.message /\ x.chama = y.chama /\ x.failed = y.failed
        /\ z.message = y.message /\ z.chama = y.chama /\ z.failed = y.failed
    BY <2>2 DEF Casts
  <2> HIDE DEF x, z
  <2>4. QED
    BY <1>b, <1>d, <2>1, <2>2, <2>3
<1>8. ASSUME NEW b \in Broadcasts, SendFails(b)
      PROVE  Justified' /\ AtHome' /\ LiveStaysListed'
  <2> DEFINE y == cast[b]
             x == [y EXCEPT !.phase = "looping", !.connection = NoSocket,
                            !.failed = @ \cup {y.connection}]
  <2>1. /\ cast' = [cast EXCEPT ![b] = x] /\ UNCHANGED <<registry, home, pc, alive, spoiled>>
        /\ y.phase # "idle" /\ ~alive[y.connection]
    BY <1>0, <1>8 DEF SendFails
  <2>2. /\ y \in Casts /\ (y.message \in Unserialisable => y.chama \in spoiled)
        /\ \A s \in y.failed : ~alive[s] \/ y.chama \in spoiled
    BY <1>0, <2>1
  <2> HIDE DEF y
  <2>3. /\ x.message = y.message /\ x.chama = y.chama
        /\ x.failed = y.failed \cup {y.connection}
    BY <2>2 DEF Casts
  <2> HIDE DEF x
  <2>4. QED
    BY <1>b, <1>d, <2>1, <2>2, <2>3
<1>9. ASSUME NEW b \in Broadcasts, EndBroadcast(b)
      PROVE  Justified' /\ AtHome' /\ LiveStaysListed'
  <2>1. NoCast.phase = "idle" /\ NoCast.failed = {}
    BY DEF NoCast
  <2>2. QED
    BY <1>9, <1>b, <1>d, <2>1 DEF EndBroadcast
<1>10. CASE UNCHANGED vars
  BY <1>10, <1>a, <1>b DEF vars
<1>11. QED
  BY <1>1, <1>2, <1>3, <1>4, <1>5, <1>6, <1>7, <1>8, <1>9, <1>10
     DEF Next, Endpoint, BroadcastRuns, BroadcastToNobody

\* However endpoints and broadcasts interleave, the lists hold no socket that
\* has left, and, of chamas all of whose messages serialise, every one that is
\* there.
THEOREM RegistryExact == Spec => []ListsAreExact
<1>1. Spec => []FaithInv
  BY InitFaith, StepFaith, PTL DEF Spec
<1>2. FaithInv => ListsAreExact
  BY DEF FaithInv, Typed, RegistryInv, ListsAreExact
<1>3. QED
  BY <1>1, <1>2, PTL

-----------------------------------------------------------------------------
(* The registry that is implemented *)

MembersOf == [c \in Chamas |-> {s \in Sockets : Listed(s, c)}]
Spent == {s \in Sockets : pc[s] \in {"receiving", "closed"}}

\* disconnect is a socket leaving, or nothing.
LEMMA DisconnectLeaves ==
  ASSUME RegistryInv, NEW s \in Sockets, NEW c, NEW casts \in [Broadcasts -> Casts],
         Disconnect(s, c, casts), Spent' = Spent
  PROVE  (\E d \in Chamas : Registry!Leave(s, d)) \/ UNCHANGED <<MembersOf, Spent>>
<1>1. \A d \in Chamas : \A t : Listed(t, d)' <=> Listed(t, d) /\ ~(d = c /\ t = s)
  BY DisconnectLists
<1>2. CASE c \in Chamas /\ Listed(s, c)
  <2>1. MembersOf' = [MembersOf EXCEPT ![c] = @ \ {s}]
    <3>1. \A d \in Chamas : MembersOf'[d] = IF d = c THEN MembersOf[d] \ {s} ELSE MembersOf[d]
      BY <1>1 DEF MembersOf
    <3>2. QED
      BY <3>1 DEF MembersOf
  <2>2. s \in MembersOf[c]
    BY <1>2 DEF MembersOf
  <2>3. Registry!Leave(s, c)
    BY <2>1, <2>2 DEF Registry!Leave, MembersOf, Spent
  <2>4. QED
    BY <1>2, <2>3
<1>3. CASE ~(c \in Chamas /\ Listed(s, c))
  <2>1. \A d \in Chamas : \A t : Listed(t, d)' <=> Listed(t, d)
    BY <1>1, <1>3
  <2>2. MembersOf' = MembersOf
    BY <2>1 DEF MembersOf
  <2>3. QED
    BY <2>2
<1>4. QED
  BY <1>2, <1>3

LEMMA StepRegistry == Typed /\ [Next]_vars => [Registry!Next]_(Registry!vars)
<1> SUFFICES ASSUME Typed, [Next]_vars
             PROVE  Registry!Next \/ UNCHANGED <<MembersOf, Spent>>
  BY DEF Registry!vars, MembersOf, Spent
<1>0. /\ RegistryInv /\ cast \in [Broadcasts -> Casts]
      /\ pc \in [Sockets -> {"new", "receiving", "closed"}]
  BY DEF Typed, RegistryInv, RegistryTyped, CastTyped
<1>a. ASSUME UNCHANGED <<connections, pc>> PROVE UNCHANGED <<MembersOf, Spent>>
  BY <1>a DEF MembersOf, Spent, Listed
<1>1. ASSUME NEW s \in Sockets, Reject(s) PROVE Registry!Next
  <2>1. UNCHANGED connections /\ pc[s] = "new" /\ pc' = [pc EXCEPT ![s] = "closed"]
    BY <1>1 DEF Reject, registry
  <2>2. MembersOf' = MembersOf
    BY <2>1 DEF MembersOf, Listed
  <2>3. Spent' = Spent \cup {s} /\ s \notin Spent
    BY <1>0, <2>1 DEF Spent
  <2>4. Registry!TurnAway(s)
    BY <2>2, <2>3 DEF Registry!TurnAway, MembersOf, Spent
  <2>5. QED
    BY <2>4 DEF Registry!Next
<1>2. ASSUME NEW s \in Sockets, NEW c \in Chamas, Connect(s, c) PROVE Registry!Next
  <2>1. /\ pc[s] = "new" /\ pc' = [pc EXCEPT ![s] = "receiving"]
        /\ connections' = [connections EXCEPT ![c] = Append(@, s)]
        /\ active' = active \cup {c}
    BY <1>2 DEF Connect
  <2>2. \A d \in Chamas : \A t : Listed(t, d)' <=> Listed(t, d) \/ (d = c /\ t = s)
    BY <1>0, <2>1, AppendAdds
  <2>3. MembersOf' = [MembersOf EXCEPT ![c] = @ \cup {s}]
    <3>1. \A d \in Chamas : MembersOf'[d] = IF d = c THEN MembersOf[d] \cup {s} ELSE MembersOf[d]
      BY <2>2 DEF MembersOf
    <3>2. QED
      BY <3>1 DEF MembersOf
  <2>4. Spent' = Spent \cup {s} /\ s \notin Spent
    BY <1>0, <2>1 DEF Spent
  <2>5. Registry!Admit(s, c)
    BY <2>3, <2>4 DEF Registry!Admit, MembersOf, Spent
  <2>6. QED
    BY <2>5 DEF Registry!Next
<1>3. ASSUME NEW s \in Sockets, EndpointEnds(s)
      PROVE  Registry!Next \/ UNCHANGED <<MembersOf, Spent>>
  <2>1. /\ Disconnect(s, home[s], cast)
        /\ pc[s] = "receiving" /\ pc' = [pc EXCEPT ![s] = "closed"]
    BY <1>3 DEF EndpointEnds
  <2>2. Spent' = Spent
    BY <1>0, <2>1 DEF Spent
  <2>3. QED
    BY <1>0, <2>1, <2>2, DisconnectLeaves DEF Registry!Next
<1>4. ASSUME NEW b \in Broadcasts, NEW s \in Sockets, CleanUp(b, s)
      PROVE  Registry!Next \/ UNCHANGED <<MembersOf, Spent>>
  <2> DEFINE casts == [cast EXCEPT ![b].failed = @ \ {s}]
  <2>1. Disconnect(s, cast[b].chama, casts) /\ UNCHANGED pc
    BY <1>4 DEF CleanUp
  <2>2. casts \in [Broadcasts -> Casts]
    <3>1. cast[b] \in Casts /\ casts = [cast EXCEPT ![b] = [cast[b] EXCEPT !.failed = cast[b].failed \ {s}]]
      BY <1>0
    <3>2. cast[b].failed \ {s} \in SUBSET Sockets
      BY <3>1 DEF Casts
    <3>3. QED
      BY <1>0, <3>1, <3>2, CastUpdates
  <2>3. Spent' = Spent
    BY <2>1 DEF Spent
  <2> HIDE DEF casts
  <2>4. QED
    BY <1>0, <2>1, <2>2, <2>3, DisconnectLeaves DEF Registry!Next
<1>5. ASSUME NEW b \in Broadcasts,
             \/ \E c \in Chamas, m \in Messages : StartBroadcast(b, c, m)
             \/ NextConnection(b) \/ Sent(b) \/ SendFails(b) \/ StartCleanup(b) \/ EndBroadcast(b)
      PROVE  UNCHANGED <<MembersOf, Spent>>
  BY <1>5, <1>a DEF StartBroadcast, NextConnection, Sent, SendFails, StartCleanup,
     EndBroadcast, registry
<1>6. CASE (\E s \in Sockets : PeerGoes(s)) \/ UNCHANGED vars
  BY <1>6, <1>a DEF PeerGoes, vars, registry
<1>7. QED
  BY <1>1, <1>2, <1>3, <1>4, <1>5, <1>6
     DEF Next, Endpoint, BroadcastRuns, BroadcastToNobody

\* The dictionary of lists, its deletions and its clean-ups implement the
\* registry: a socket joins once, one chama, and leaves for good.
THEOREM RegistryImplemented == Spec => ImplementsRegistry
<1>1. Init => Registry!Init
  BY DEF Init, Registry!Init, Listed
<1>2. QED
  BY <1>1, AlwaysTyped, StepRegistry, PTL DEF Spec, ImplementsRegistry, Registry!Spec

-----------------------------------------------------------------------------
(* Where an iterator is.  A removal in front of it shifts at most one        *)
(* connection past it, which is one it owes; what it has sent to never comes *)
(* to be ahead of it.                                                        *)

Passed(q, k) == {t \in Sockets : \E i \in 1..Len(q) : q[i] = t /\ i <= k}

\* A broadcast's course along the list q it shares, at index k, with past h.
OnCourse(q, k, h) ==
  /\ \A t \in h.owed : \E i \in 1..Len(q) : q[i] = t
  /\ Cardinality(h.owed \cap Passed(q, k)) <= h.departures
  /\ \A i \in 1..Len(q) : q[i] \in h.seen => i <= k

LEMMA FinitePassed ==
  ASSUME NEW q, NEW k, NEW o \in SUBSET Sockets
  PROVE  /\ IsFiniteSet(o) /\ Cardinality(o) \in Nat
         /\ IsFiniteSet(o \cap Passed(q, k)) /\ Cardinality(o \cap Passed(q, k)) \in Nat
         /\ Cardinality(o \cap Passed(q, k)) <= Cardinality(o)
<1>1. IsFiniteSet(o) /\ IsFiniteSet(o \cap Passed(q, k))
  BY ManagerAssumption, FS_Subset
<1>2. QED
  BY <1>1, FS_CardinalityType, FS_Subset

LEMMA OneMore ==
  ASSUME NEW S, NEW x, IsFiniteSet(S)
  PROVE  /\ IsFiniteSet(S \cup {x}) /\ Cardinality(S \cup {x}) \in Nat
         /\ Cardinality(S \cup {x}) <= Cardinality(S) + 1
<1>1. IsFiniteSet(S \cup {x}) /\ Cardinality(S) \in Nat
  BY FS_AddElement, FS_CardinalityType
<1>2. Cardinality(S \cup {x}) = IF x \in S THEN Cardinality(S) ELSE Cardinality(S) + 1
  BY FS_AddElement
<1>3. QED
  BY <1>1, <1>2, FS_CardinalityType

\* The connection at place j of what is left was at place j or j + 1.
LEMMA RemovalShifts ==
  ASSUME NEW q \in Seq(Sockets), NEW i \in 1..Len(q), NEW j \in 1..Len(RemoveAt(q, i))
  PROVE  \E m \in 1..Len(q) : m \in {j, j + 1} /\ q[m] = RemoveAt(q, i)[j]
<1>1. /\ Len(RemoveAt(q, i)) = Len(q) - 1 /\ Len(q) \in Nat /\ j \in 1..(Len(q) - 1)
      /\ RemoveAt(q, i)[j] = IF j < i THEN q[j] ELSE q[j + 1]
  BY RemoveAtProperties
<1>2. j \in 1..Len(q) /\ j + 1 \in 1..Len(q)
  BY <1>1
<1>3. QED
  BY <1>1, <1>2

\* Who is passed after a removal was passed before or is next.
LEMMA PassedShifts ==
  ASSUME NEW q \in Seq(Sockets), NEW i \in 1..Len(q), NEW k \in Nat
  PROVE  Passed(RemoveAt(q, i), k) \subseteq Passed(q, k) \cup {q[k + 1]}
<1> SUFFICES ASSUME NEW t \in Passed(RemoveAt(q, i), k), t # q[k + 1]
             PROVE  t \in Passed(q, k)
  OBVIOUS
<1>1. PICK j \in 1..Len(RemoveAt(q, i)) : RemoveAt(q, i)[j] = t /\ j <= k
  BY DEF Passed
<1>2. PICK m \in 1..Len(q) : m \in {j, j + 1} /\ q[m] = t
  BY <1>1, RemovalShifts
<1>3. Len(RemoveAt(q, i)) \in Nat /\ Len(q) \in Nat
  BY RemoveAtProperties
<1>4. m <= k
  BY <1>1, <1>2, <1>3
<1>5. QED
  BY <1>2, <1>4 DEF Passed

LEMMA CourseAfterRemoval ==
  ASSUME NEW q \in Seq(Sockets), NEW i \in 1..Len(q), NEW k \in Nat, NEW h \in Histories,
         \A j, m \in 1..Len(q) : q[j] = q[m] => j = m,
         OnCourse(q, k, h)
  PROVE  OnCourse(RemoveAt(q, i), k,
                  [h EXCEPT !.owed = @ \ {q[i]}, !.departures = @ + 1])
<1> DEFINE p == RemoveAt(q, i)
           n == [h EXCEPT !.owed = @ \ {q[i]}, !.departures = @ + 1]
           o == h.owed \cap Passed(q, k)
           w == n.owed \cap Passed(p, k)
<1>1. /\ n.owed = h.owed \ {q[i]} /\ n.departures = h.departures + 1 /\ n.seen = h.seen
      /\ h.owed \in SUBSET Sockets /\ h.departures \in Nat
  BY DEF Histories
<1>2. /\ Len(p) = Len(q) - 1 /\ Len(q) \in Nat /\ p \in Seq(Sockets)
      /\ \A j \in 1..(Len(q) - 1) : p[j] = IF j < i THEN q[j] ELSE q[j + 1]
  BY RemoveAtProperties
<1>3. ASSUME NEW t \in n.owed PROVE \E j \in 1..Len(p) : p[j] = t
  <2>1. PICK m \in 1..Len(q) : q[m] = t /\ t # q[i]
    BY <1>1, <1>3 DEF OnCourse
  <2>2. CASE m < i
    BY <1>2, <2>1, <2>2
  <2>3. CASE m > i
    <3>1. m - 1 \in 1..(Len(q) - 1) /\ ~(m - 1 < i) /\ (m - 1) + 1 = m
      BY <1>2, <2>3
    <3>2. p[m - 1] = q[m]
      BY <1>2, <3>1
    <3>3. QED
      BY <1>2, <2>1, <3>1, <3>2
  <2>4. QED
    BY <1>2, <2>1, <2>2, <2>3
<1>4. Cardinality(w) <= h.departures + 1
  <2>1. w \subseteq o \cup {q[k + 1]}
    BY <1>1, PassedShifts
  <2>2. /\ IsFiniteSet(o) /\ Cardinality(o) \in Nat /\ Cardinality(o) <= h.departures
    BY <1>1, FinitePassed DEF OnCourse
  <2>3. /\ IsFiniteSet(o \cup {q[k + 1]}) /\ Cardinality(o \cup {q[k + 1]}) \in Nat
        /\ Cardinality(o \cup {q[k + 1]}) <= Cardinality(o) + 1
    <3> HIDE DEF o
    <3>1. QED
      BY <2>2, OneMore
  <2>4. Cardinality(w) \in Nat /\ Cardinality(w) <= Cardinality(o \cup {q[k + 1]})
    <3> HIDE DEF w, o
    <3>1. QED
      BY <2>1, <2>3, FS_Subset, FS_CardinalityType
  <2> HIDE DEF w, o
  <2>5. QED
    BY <1>1, <2>2, <2>3, <2>4
<1>5. ASSUME NEW j \in 1..Len(p), p[j] \in n.seen PROVE j <= k
  <2>1. PICK m \in 1..Len(q) : m \in {j, j + 1} /\ q[m] = p[j]
    BY RemovalShifts
  <2>2. m <= k
    BY <1>1, <1>5, <2>1 DEF OnCourse
  <2>3. QED
    BY <1>2, <2>1, <2>2
<1>6. QED
  BY <1>1, <1>3, <1>4, <1>5 DEF OnCourse

\* A connection that is appended has not been sent to, and is not owed.
LEMMA CourseAfterAppend ==
  ASSUME NEW q \in Seq(Sockets), NEW s \in Sockets, NEW k \in Nat, NEW h \in Histories,
         OnCourse(q, k, h), s \notin h.seen, s \notin h.owed
  PROVE  OnCourse(Append(q, s), k, h)
<1> DEFINE p == Append(q, s)
<1>1. /\ Len(q) \in Nat /\ Len(p) = Len(q) + 1
      /\ \A i \in 1..Len(q) : p[i] = q[i]
      /\ p[Len(q) + 1] = s
  BY AppendProperties
<1> HIDE DEF p
<1>2. \A i \in 1..Len(p) : i \in 1..Len(q) \/ i = Len(q) + 1
  BY <1>1
<1>3. \A i \in 1..Len(q) : i \in 1..Len(p)
  BY <1>1
<1>4. h.owed \cap Passed(p, k) = h.owed \cap Passed(q, k)
  BY <1>1, <1>2, <1>3 DEF Passed
<1>5. \A t \in h.owed : \E i \in 1..Len(p) : p[i] = t
  BY <1>1, <1>3 DEF OnCourse
<1>6. \A i \in 1..Len(p) : p[i] \in h.seen => i <= k
  BY <1>1, <1>2 DEF OnCourse
<1>7. QED
  BY <1>4, <1>5, <1>6 DEF OnCourse, p

\* The iterator moves to the next connection.
LEMMA CourseAfterNext ==
  ASSUME NEW q \in Seq(Sockets), NEW k \in Nat, NEW h \in Histories, k + 1 \in 1..Len(q),
         \A j, m \in 1..Len(q) : q[j] = q[m] => j = m,
         OnCourse(q, k, h)
  PROVE  OnCourse(q, k + 1, [h EXCEPT !.owed = @ \ {q[k + 1]}, !.seen = @ \cup {q[k + 1]}])
<1> DEFINE n == [h EXCEPT !.owed = @ \ {q[k + 1]}, !.seen = @ \cup {q[k + 1]}]
           o == h.owed \cap Passed(q, k)
           w == n.owed \cap Passed(q, k + 1)
<1>1. /\ n.owed = h.owed \ {q[k + 1]} /\ n.departures = h.departures
      /\ n.seen = h.seen \cup {q[k + 1]}
      /\ h.owed \in SUBSET Sockets /\ h.departures \in Nat /\ Len(q) \in Nat
  BY DEF Histories
<1>2. w \subseteq o
  <2>1. ASSUME NEW i \in 1..Len(q), i <= k + 1, q[i] # q[k + 1] PROVE i <= k
    <3>1. i # k + 1
      BY <2>1
    <3>2. QED
      BY <1>1, <2>1, <3>1
  <2>2. QED
    BY <1>1, <2>1 DEF Passed
<1>3. Cardinality(w) <= n.departures
  <2>1. IsFiniteSet(o) /\ Cardinality(o) \in Nat /\ Cardinality(o) <= h.departures
    BY <1>1, FinitePassed DEF OnCourse
  <2> HIDE DEF w, o
  <2>2. Cardinality(w) \in Nat /\ Cardinality(w) <= Cardinality(o)
    BY <1>2, <2>1, FS_Subset, FS_CardinalityType
  <2>3. QED
    BY <1>1, <2>1, <2>2
<1>4. \A i \in 1..Len(q) : q[i] \in n.seen => i <= k + 1
  BY <1>1 DEF OnCourse
<1>5. QED
  BY <1>1, <1>3, <1>4 DEF OnCourse

Shared(b) == connections[cast[b].chama]

\* What holds of every broadcast: while it shares its chama's list it is on
\* course, and a list that was deleted owes it nothing; what it has missed when
\* its loop is over is bounded by the removals.
OnTrack ==
  \A b \in Broadcasts :
    /\ cast[b].live => OnCourse(Shared(b), cast[b].index, history[b])
    /\ ~cast[b].live => history[b].owed = {}
    /\ cast[b].phase = "cleanup" => Cardinality(history[b].owed) <= history[b].departures
    /\ \A s \in history[b].seen : pc[s] # "new"

TrackInv == Typed /\ OnTrack

LEMMA InitTrack == Init => TrackInv
  BY InitTyped DEF Init, TrackInv, OnTrack, NoCast, NoHistory

\* disconnect keeps every broadcast on track.
LEMMA DisconnectTrack ==
  ASSUME TrackInv, NEW s \in Sockets, NEW c, NEW casts \in [Broadcasts -> Casts],
         \A b \in Broadcasts :
           /\ casts[b].live = cast[b].live /\ casts[b].chama = cast[b].chama
           /\ casts[b].index = cast[b].index /\ casts[b].phase = cast[b].phase,
         \A t \in Sockets : pc[t] # "new" => pc'[t] # "new",
         Disconnect(s, c, casts)
  PROVE  OnTrack'
<1>0. /\ Typed /\ RegistryInv /\ cast \in [Broadcasts -> Casts]
      /\ history \in [Broadcasts -> Histories]
      /\ connections \in [Chamas -> Seq(Sockets)]
  BY DEF TrackInv, Typed, RegistryInv, RegistryTyped, CastTyped
<1>1. CASE cast' = casts /\ UNCHANGED <<registry, history>>
  <2>1. ASSUME NEW b \in Broadcasts
        PROVE  /\ cast'[b].live => OnCourse(Shared(b)', cast'[b].index, history'[b])
               /\ ~cast'[b].live => history'[b].owed = {}
               /\ cast'[b].phase = "cleanup" =>
                    Cardinality(history'[b].owed) <= history'[b].departures
               /\ \A t \in history'[b].seen : pc'[t] # "new"
    <3>1. history[b].seen \subseteq Sockets
      BY <1>0 DEF Histories
    <3>2. Shared(b)' = Shared(b) /\ history'[b] = history[b]
      BY <1>1 DEF registry, Shared
    <3>3. QED
      BY <1>1, <3>1, <3>2 DEF TrackInv, OnTrack
  <2>2. QED
    BY <2>1 DEF OnTrack
<1>2. ASSUME c \in Chamas, NEW i \in 1..Len(connections[c]),
             connections[c][i] = s, Unlist(s, c, i), cast' = Orphan(c, casts)
      PROVE  OnTrack'
  <2> DEFINE q == connections[c]
             hit(b) == cast[b].chama = c /\ cast[b].live
             told(b) == [history[b] EXCEPT !.owed = @ \ {s}, !.departures = @ + 1]
  <2>1. /\ connections' = [connections EXCEPT ![c] = RemoveAt(q, i)]
        /\ history' = [b \in Broadcasts |-> IF hit(b) THEN told(b) ELSE history[b]]
    BY <1>2 DEF Unlist
  <2>2. q \in Seq(Sockets) /\ q[i] = s /\ \A j, m \in 1..Len(q) : q[j] = q[m] => j = m
    BY <1>0, <1>2 DEF RegistryInv, NoLeak
  <2>3. connections'[c] = RemoveAt(q, i) /\ \A d \in Chamas \ {c} : connections'[d] = connections[d]
    BY <1>0, <1>2, <2>1
  <2>4. ASSUME NEW b \in Broadcasts
        PROVE  /\ cast'[b].live => OnCourse(Shared(b)', cast'[b].index, history'[b])
               /\ ~cast'[b].live => history'[b].owed = {}
               /\ cast'[b].phase = "cleanup" =>
                    Cardinality(history'[b].owed) <= history'[b].departures
               /\ \A t \in history'[b].seen : pc'[t] # "new"
    <3>0. /\ history[b] \in Histories /\ casts[b] \in Casts
          /\ cast[b].live => cast[b].chama \in Chamas
          /\ cast[b].live \in BOOLEAN /\ cast[b].index \in Nat
          /\ cast[b].live => OnCourse(Shared(b), cast[b].index, history[b])
          /\ ~cast[b].live => history[b].owed = {}
          /\ cast[b].phase = "cleanup" => Cardinality(history[b].owed) <= history[b].departures
          /\ \A t \in history[b].seen : t \in Sockets /\ pc[t] # "new"
      BY <1>0 DEF TrackInv, OnTrack, Typed, CastTyped, Casts, Histories
    <3>1. /\ told(b).owed = history[b].owed \ {s} /\ told(b).seen = history[b].seen
          /\ told(b).departures = history[b].departures + 1
          /\ history[b].departures \in Nat /\ history[b].owed \in SUBSET Sockets
      BY <3>0 DEF Histories
    <3>2. /\ cast'[b].phase = cast[b].phase /\ cast'[b].chama = cast[b].chama
          /\ cast'[b].index = cast[b].index
      BY <1>0, <1>2, DisconnectCasts, DisconnectEffect
    <3>3. /\ cast'[b].live => cast[b].live
          /\ cast[b].live /\ ~cast'[b].live => cast[b].chama = c /\ Len(q) = 1
      <4> DEFINE x == casts[b]
      <4>1. cast'[b] = IF x.chama = c /\ Len(q) = 1 THEN [x EXCEPT !.live = FALSE] ELSE x
        BY <1>2 DEF Orphan
      <4>2. x \in Casts /\ x.live = cast[b].live /\ x.chama = cast[b].chama
        BY <3>0
      <4> HIDE DEF x
      <4>3. [x EXCEPT !.live = FALSE].live = FALSE
        BY <4>2 DEF Casts
      <4>4. CASE x.chama = c /\ Len(q) = 1
        BY <4>1, <4>2, <4>3, <4>4
      <4>5. CASE ~(x.chama = c /\ Len(q) = 1)
        BY <4>1, <4>2, <4>5
      <4>6. QED
        BY <4>4, <4>5
    <3> HIDE DEF q, told
    <3>4. CASE hit(b)
      <4>1. history'[b] = told(b) /\ Shared(b) = q /\ Shared(b)' = RemoveAt(q, i)
        BY <2>1, <2>3, <3>2, <3>4 DEF Shared, q
      <4>2. cast'[b].live => OnCourse(Shared(b)', cast'[b].index, history'[b])
        <5>1. i \in 1..Len(q) /\ OnCourse(q, cast[b].index, history[b])
          BY <1>2, <3>0, <3>4, <4>1 DEF q
        <5>2. OnCourse(RemoveAt(q, i), cast[b].index,
                       [history[b] EXCEPT !.owed = @ \ {q[i]}, !.departures = @ + 1])
          BY <2>2, <3>0, <5>1, CourseAfterRemoval
        <5>3. told(b) = [history[b] EXCEPT !.owed = @ \ {q[i]}, !.departures = @ + 1]
          BY <2>2 DEF told
        <5>4. QED
          BY <3>2, <4>1, <5>2, <5>3
      <4>3. ~cast'[b].live => history'[b].owed = {}
        <5> SUFFICES ASSUME ~cast'[b].live, NEW t \in history'[b].owed PROVE FALSE
          OBVIOUS
        <5>1. Len(q) = 1 /\ t \in history[b].owed /\ t # s
          BY <3>1, <3>3, <3>4, <4>1
        <5>2. \E j \in 1..Len(q) : q[j] = t
          BY <3>0, <3>4, <4>1, <5>1 DEF OnCourse
        <5>3. i = 1
          BY <1>2, <5>1 DEF q
        <5>4. QED
          BY <2>2, <5>1, <5>2, <5>3
      <4>4. cast'[b].phase = "cleanup" =>
              Cardinality(history'[b].owed) <= history'[b].departures
        <5>1. Cardinality(history[b].owed \ {s}) <= Cardinality(history[b].owed)
              /\ Cardinality(history[b].owed \ {s}) \in Nat
              /\ Cardinality(history[b].owed) \in Nat
          <6>1. IsFiniteSet(history[b].owed)
            BY <3>1, FinitePassed
          <6>2. QED
            BY <6>1, FS_Subset, FS_CardinalityType
        <5>2. history'[b].owed = history[b].owed \ {s}
              /\ history'[b].departures = history[b].departures + 1
          BY <3>1, <4>1
        <5>3. QED
          BY <3>0, <3>1, <3>2, <5>1, <5>2
      <4>5. \A t \in history'[b].seen : pc'[t] # "new"
        BY <3>0, <3>1, <4>1
      <4>6. QED
        BY <4>2, <4>3, <4>4, <4>5
    <3>5. CASE ~hit(b)
      <4>1. history'[b] = history[b]
        BY <2>1, <3>5
      <4>2. cast[b].live => Shared(b)' = Shared(b) /\ cast'[b].live
        BY <2>3, <3>0, <3>2, <3>3, <3>5 DEF Shared
      <4>3. QED
        BY <3>0, <3>2, <3>3, <4>1, <4>2
    <3>6. QED
      BY <3>4, <3>5
  <2>5. QED
    BY <2>4 DEF OnTrack
<1>3. QED
  BY <1>0, <1>1, <1>2, DisconnectEffect

LEMMA StepTrack == TrackInv /\ [Next]_vars => TrackInv'
<1> SUFFICES ASSUME TrackInv, [Next]_vars PROVE OnTrack'
  BY StepTyped DEF TrackInv
<1>0. /\ Typed /\ RegistryInv /\ cast \in [Broadcasts -> Casts]
      /\ history \in [Broadcasts -> Histories]
      /\ connections \in [Chamas -> Seq(Sockets)]
      /\ pc \in [Sockets -> {"new", "receiving", "closed"}]
  BY DEF TrackInv, Typed, RegistryInv, RegistryTyped, CastTyped
<1>k. \A b \in Broadcasts :
        /\ cast[b].live => OnCourse(Shared(b), cast[b].index, history[b])
        /\ ~cast[b].live => history[b].owed = {}
        /\ cast[b].phase = "cleanup" => Cardinality(history[b].owed) <= history[b].departures
        /\ \A t \in history[b].seen : t \in Sockets /\ pc[t] # "new"
  <2>1. \A b \in Broadcasts : history[b].seen \subseteq Sockets
    BY <1>0 DEF Histories
  <2>2. QED
    BY <2>1 DEF TrackInv, OnTrack
<1>1. ASSUME NEW s \in Sockets, Reject(s) \/ PeerGoes(s) PROVE OnTrack'
  <2>1. UNCHANGED <<connections, cast, history>> /\ \A t \in Sockets : pc[t] # "new" => pc'[t] # "new"
    BY <1>0, <1>1 DEF Reject, PeerGoes, registry
  <2>2. QED
    BY <1>k, <2>1 DEF OnTrack, Shared
<1>2. ASSUME NEW s \in Sockets, NEW c \in Chamas, Connect(s, c) PROVE OnTrack'
  <2>1. /\ connections' = [connections EXCEPT ![c] = Append(@, s)]
        /\ UNCHANGED <<cast, history>> /\ pc[s] = "new"
        /\ \A t \in Sockets : pc[t] # "new" => pc'[t] # "new"
    BY <1>0, <1>2 DEF Connect
  <2>2. ASSUME NEW b \in Broadcasts, cast[b].live
        PROVE  OnCourse(Shared(b)', cast[b].index, history[b])
    <3>1. /\ cast[b].chama \in Chamas /\ cast[b].index \in Nat /\ history[b] \in Histories
      BY <1>0, <2>2 DEF Typed, CastTyped, Casts
    <3>2. CASE cast[b].chama = c
      <4>1. Shared(b)' = Append(Shared(b), s) /\ Shared(b) \in Seq(Sockets)
        BY <1>0, <2>1, <3>1, <3>2 DEF Shared
      <4>2. s \notin history[b].seen
        BY <1>k, <2>1
      <4>3. s \notin history[b].owed
        <5>1. \A i \in 1..Len(Shared(b)) : pc[Shared(b)[i]] = "receiving"
          BY <1>0, <3>1 DEF RegistryInv, NoLeak, Shared
        <5>2. QED
          BY <1>k, <2>1, <2>2, <5>1 DEF OnCourse
      <4>4. QED
        BY <1>k, <2>2, <3>1, <4>1, <4>2, <4>3, CourseAfterAppend
    <3>3. CASE cast[b].chama # c
      BY <1>0, <1>k, <2>1, <2>2, <3>1, <3>3 DEF Shared
    <3>4. QED
      BY <3>2, <3>3
  <2>3. QED
    BY <1>k, <2>1, <2>2 DEF OnTrack, Shared
<1>3. ASSUME NEW s \in Sockets, EndpointEnds(s) PROVE OnTrack'
  <2>1. /\ Disconnect(s, home[s], cast)
        /\ \A t \in Sockets : pc[t] # "new" => pc'[t] # "new"
    BY <1>0, <1>3 DEF EndpointEnds
  <2>2. QED
    BY <1>0, <2>1, DisconnectTrack
<1>4. ASSUME NEW b \in Broadcasts, NEW s \in Sockets, CleanUp(b, s) PROVE OnTrack'
  <2> DEFINE casts == [cast EXCEPT ![b].failed = @ \ {s}]
  <2>1. Disconnect(s, cast[b].chama, casts) /\ UNCHANGED pc
    BY <1>4 DEF CleanUp
  <2>2. /\ casts \in [Broadcasts -> Casts]
        /\ \A d \in Broadcasts :
             /\ casts[d].live = cast[d].live /\ casts[d].chama = cast[d].chama
             /\ casts[d].index = cast[d].index /\ casts[d].phase = cast[d].phase
    <3> DEFINE x == cast[b]
               y == [x EXCEPT !.failed = x.failed \ {s}]
    <3>1. x \in Casts /\ casts = [cast EXCEPT ![b] = y]
      BY <1>0
    <3> HIDE DEF x
    <3>2. x.failed \ {s} \in SUBSET Sockets
      BY <3>1 DEF Casts
    <3>3. y \in Casts
      BY <3>1, <3>2, CastUpdates
    <3>4. y.phase = x.phase /\ y.chama = x.chama /\ y.live = x.live /\ y.index = x.index
      BY <3>1 DEF Casts
    <3> HIDE DEF y
    <3>5. QED
      BY <1>0, <3>1, <3>3, <3>4 DEF x
  <2> HIDE DEF casts
  <2>3. QED
    BY <2>1, <2>2, DisconnectTrack
\* The other steps change the locals and the past of one broadcast.
<1>b. ASSUME NEW b \in Broadcasts, NEW x, NEW h,
             cast' = [cast EXCEPT ![b] = x], history' = [history EXCEPT ![b] = h],
             UNCHANGED <<connections, pc>>,
             x.live => OnCourse(connections[x.chama], x.index, h),
             ~x.live => h.owed = {},
             x.phase = "cleanup" => Cardinality(h.owed) <= h.departures,
             \A t \in h.seen : pc[t] # "new"
      PROVE  OnTrack'
  <2>1. cast'[b] = x /\ history'[b] = h
    BY <1>0, <1>b
  <2>2. \A d \in Broadcasts \ {b} : cast'[d] = cast[d] /\ history'[d] = history[d]
    BY <1>0, <1>b
  <2>3. QED
    BY <1>k, <1>b, <2>1, <2>2 DEF OnTrack, Shared
<1>h. \A b \in Broadcasts : history = [history EXCEPT ![b] = history[b]] /\ history[b] \in Histories
  BY <1>0
<1>5. ASSUME NEW b \in Broadcasts, NEW c \in Chamas, NEW m \in Messages,
             StartBroadcast(b, c, m)
      PROVE  OnTrack'
  <2> DEFINE x == [NoCast EXCEPT !.phase = "looping", !.chama = c, !.message = m, !.live = TRUE]
             h == [NoHistory EXCEPT !.owed = {s \in Sockets : Listed(s, c)}]
  <2>1. x.live = TRUE /\ x.chama = c /\ x.phase = "looping" /\ x.index = 0
    BY DEF NoCast
  <2>2. h.owed = {s \in Sockets : Listed(s, c)} /\ h.seen = {} /\ h.departures = 0
    BY DEF NoHistory
  <2>3. /\ cast' = [cast EXCEPT ![b] = x] /\ history' = [history EXCEPT ![b] = h]
        /\ UNCHANGED <<connections, pc>>
    BY <1>5 DEF StartBroadcast, registry
  <2> HIDE DEF x, h
  <2>4. OnCourse(connections[c], 0, h)
    <3>1. h.owed \cap Passed(connections[c], 0) = {}
      BY <1>0 DEF Passed
    <3>2. Cardinality(h.owed \cap Passed(connections[c], 0)) <= h.departures
      BY <2>2, <3>1, FS_EmptySet
    <3>3. \A t \in h.owed : \E i \in 1..Len(connections[c]) : connections[c][i] = t
      BY <2>2 DEF Listed
    <3>4. QED
      BY <2>2, <3>2, <3>3 DEF OnCourse
  <2>5. QED
    BY <1>b, <2>1, <2>2, <2>3, <2>4
<1>6. ASSUME NEW b \in Broadcasts, NextConnection(b) PROVE OnTrack'
  <2> DEFINE y == cast[b]
             f == Following(b)
             x == IF y.message \in Unserialisable
                  THEN [y EXCEPT !.index = y.index + 1, !.failed = y.failed \cup {f}]
                  ELSE [y EXCEPT !.index = y.index + 1, !.connection = f, !.phase = "sending"]
             h == [history[b] EXCEPT !.owed = @ \ {f}, !.seen = @ \cup {f}]
  <2>1. /\ cast' = [cast EXCEPT ![b] = x] /\ history' = [history EXCEPT ![b] = h]
        /\ UNCHANGED <<connections, pc>> /\ y.phase = "looping" /\ HasNext(b)
    BY <1>0, <1>6 DEF NextConnection, registry
  <2>2. /\ y.live /\ y.index \in Nat /\ y \in Casts /\ history[b] \in Histories
        /\ y.chama \in Chamas /\ y.index + 1 \in 1..Len(Shared(b)) /\ f = Shared(b)[y.index + 1]
        /\ Shared(b) \in Seq(Sockets)
    BY <1>0, <2>1, FollowingListed DEF HasNext, Following, Shared, Casts
  <2>3. /\ \A j, m \in 1..Len(Shared(b)) : Shared(b)[j] = Shared(b)[m] => j = m
        /\ pc[f] = "receiving"
    BY <1>0, <2>2 DEF RegistryInv, NoLeak, Shared
  <2>4. OnCourse(Shared(b), y.index, history[b]) /\ \A t \in history[b].seen : pc[t] # "new"
    BY <1>k, <2>2
  <2>5. OnCourse(Shared(b), y.index + 1, h)
    BY <2>2, <2>3, <2>4, CourseAfterNext
  <2>6. \A t \in h.seen : pc[t] # "new"
    BY <2>2, <2>3, <2>4 DEF Histories
  <2>7. connections[y.chama] = Shared(b)
    BY DEF Shared
  <2> HIDE DEF y, f, h
  <2>8. x.live = y.live /\ x.chama = y.chama /\ x.index = y.index + 1 /\ x.phase # "cleanup"
    BY <2>1, <2>2 DEF Casts
  <2> HIDE DEF x
  <2>9. QED
    BY <1>b, <2>1, <2>2, <2>5, <2>6, <2>7, <2>8
<1>7. ASSUME NEW b \in Broadcasts, Sent(b) \/ SendFails(b) PROVE OnTrack'
  <2> DEFINE y == cast[b]
             u == [y EXCEPT !.phase = "looping", !.connection = NoSocket]
             v == [y EXCEPT !.phase = "looping", !.connection = NoSocket,
                            !.failed = @ \cup {y.connection}]
  <2>1. /\ cast' = [cast EXCEPT ![b] = u] \/ cast' = [cast EXCEPT ![b] = v]
        /\ history' = [history EXCEPT ![b] = history[b]] /\ UNCHANGED <<connections, pc>>
    BY <1>0, <1>7, <1>h DEF Sent, SendFails, registry
  <2>2. /\ y \in Casts
        /\ y.live => OnCourse(connections[y.chama], y.index, history[b])
        /\ ~y.live => history[b].owed = {}
        /\ \A t \in history[b].seen : pc[t] # "new"
    BY <1>0, <1>k DEF Shared
  <2> HIDE DEF y
  <2>3. /\ u.live = y.live /\ u.chama = y.chama /\ u.index = y.index /\ u.phase # "cleanup"
        /\ v.live = y.live /\ v.chama = y.chama /\ v.index = y.index /\ v.phase # "cleanup"
    BY <2>2 DEF Casts
  <2> HIDE DEF u, v
  <2>4. QED
    BY <1>b, <2>1, <2>2, <2>3
<1>8. ASSUME NEW b \in Broadcasts, StartCleanup(b) PROVE OnTrack'
  <2> DEFINE y == cast[b]
             x == [y EXCEPT !.phase = "cleanup"]
  <2>1. /\ cast' = [cast EXCEPT ![b] = x] /\ ~HasNext(b)
        /\ history' = [history EXCEPT ![b] = history[b]] /\ UNCHANGED <<connections, pc>>
    BY <1>0, <1>8, <1>h DEF StartCleanup, registry
  <2>2. /\ y \in Casts /\ history[b] \in Histories
        /\ y.live => OnCourse(Shared(b), y.index, history[b])
        /\ ~y.live => history[b].owed = {}
        /\ \A t \in history[b].seen : pc[t] # "new"
        /\ y.live => y.chama \in Chamas
    BY <1>0, <1>k DEF Typed, CastTyped
  \* The iterator is at the end: whatever it owes, it has passed.
  <2>3. ASSUME y.live PROVE Cardinality(history[b].owed) <= history[b].departures
    <3>1. Shared(b) \in Seq(Sockets) /\ y.index \in Nat /\ ~(y.index < Len(Shared(b)))
      BY <1>0, <2>1, <2>2, <2>3 DEF HasNext, Shared, Casts
    <3>2. history[b].owed \subseteq Sockets
      BY <2>2 DEF Histories
    <3>3. history[b].owed \cap Passed(Shared(b), y.index) = history[b].owed
      BY <2>2, <2>3, <3>1, <3>2 DEF OnCourse, Passed
    <3>4. QED
      BY <2>2, <2>3, <3>3 DEF OnCourse
  <2>4. ~y.live => Cardinality(history[b].owed) <= history[b].departures
    BY <2>2, FS_EmptySet DEF Histories
  <2>5. Cardinality(history[b].owed) <= history[b].departures
    <3>1. y.live \in BOOLEAN
      BY <2>2 DEF Casts
    <3>2. QED
      BY <2>3, <2>4, <3>1
  <2>6. connections[y.chama] = Shared(b)
    BY DEF Shared
  <2> HIDE DEF y
  <2>7. x.live = y.live /\ x.chama = y.chama /\ x.index = y.index
    BY <2>2 DEF Casts
  <2> HIDE DEF x
  <2>8. QED
    BY <1>b, <2>1, <2>2, <2>5, <2>6, <2>7
<1>9. ASSUME NEW b \in Broadcasts, EndBroadcast(b) PROVE OnTrack'
  <2>1. NoCast.live = FALSE /\ NoCast.phase = "idle" /\ NoHistory.owed = {} /\ NoHistory.seen = {}
    BY DEF NoCast, NoHistory
  <2>2. /\ cast' = [cast EXCEPT ![b] = NoCast] /\ history' = [history EXCEPT ![b] = NoHistory]
        /\ UNCHANGED <<connections, pc>>
    BY <1>9 DEF EndBroadcast, registry
  <2>3. QED
    BY <1>b, <2>1, <2>2
<1>10. CASE UNCHANGED vars
  BY <1>10, <1>k DEF vars, registry, OnTrack, Shared
<1>11. QED
  BY <1>1, <1>2, <1>3, <1>4, <1>5, <1>6, <1>7, <1>8, <1>9, <1>10
     DEF Next, Endpoint, BroadcastRuns, BroadcastToNobody

LEMMA AlwaysOnTrack == Spec => []TrackInv
  BY InitTrack, StepTrack, PTL DEF Spec

\* A broadcast misses at most one connection for each removal from the list
\* while it was sending, for lists of any length and any number of broadcasts.
THEOREM MissesBounded == Spec => []MissedAtMostDepartures
<1>1. TrackInv => MissedAtMostDepartures
  BY DEF TrackInv, OnTrack, MissedAtMostDepartures
<1>2. QED
  BY <1>1, AlwaysOnTrack, PTL

\* No broadcast sends its message to the same connection twice.
THEOREM NeverSentTwice == Spec => NoRepeatedSend
<1>1. ASSUME TrackInv, [Next]_vars, NEW b \in Broadcasts,
             cast[b].phase = "looping", cast'[b].phase = "sending"
      PROVE  cast'[b].connection \notin history[b].seen
  <2>0. /\ Typed /\ RegistryInv /\ cast \in [Broadcasts -> Casts]
    BY <1>1 DEF TrackInv, Typed, CastTyped
  <2>1. NextConnection(b)
    <3>1. ASSUME NEW s \in Sockets, NEW c, NEW casts \in [Broadcasts -> Casts],
                 Disconnect(s, c, casts), casts[b].phase = cast[b].phase
          PROVE  FALSE
      BY <1>1, <2>0, <3>1, DisconnectCasts
    <3>2. ASSUME NEW s \in Sockets, EndpointEnds(s) PROVE FALSE
      BY <2>0, <3>1, <3>2 DEF EndpointEnds
    <3>3. ASSUME NEW d \in Broadcasts, NEW s \in Sockets, CleanUp(d, s) PROVE FALSE
      <4> DEFINE casts == [cast EXCEPT ![d].failed = @ \ {s}]
      <4>1. cast[d] \in Casts /\ cast[d].failed \ {s} \in SUBSET Sockets
        BY <2>0 DEF Casts
      <4>2. casts = [cast EXCEPT ![d] = [cast[d] EXCEPT !.failed = cast[d].failed \ {s}]]
        BY <2>0
      <4>3. casts \in [Broadcasts -> Casts]
        BY <2>0, <4>1, <4>2, CastUpdates
      <4>4. casts[b].phase = cast[b].phase
        BY <2>0, <4>1 DEF Casts
      <4>5. Disconnect(s, cast[d].chama, casts)
        BY <3>3 DEF CleanUp
      <4> HIDE DEF casts
      <4>6. QED
        BY <3>1, <4>3, <4>4, <4>5
    <3>4. ASSUME NEW d \in Broadcasts, NEW c \in Chamas, NEW m \in Messages,
                 StartBroadcast(d, c, m)
          PROVE  FALSE
      BY <1>1, <2>0, <3>4 DEF StartBroadcast, NoCast
    <3>5. ASSUME NEW d \in Broadcasts,
                 Sent(d) \/ SendFails(d) \/ StartCleanup(d) \/ EndBroadcast(d)
          PROVE  FALSE
      BY <1>1, <2>0, <3>5 DEF Sent, SendFails, StartCleanup, EndBroadcast, NoCast, Casts
    <3>6. ASSUME NEW d \in Broadcasts, NextConnection(d) PROVE d = b
      BY <1>1, <2>0, <3>6 DEF NextConnection
    <3>7. ~(\E s \in Sockets : Reject(s) \/ PeerGoes(s) \/ \E c \in Chamas : Connect(s, c))
          /\ ~UNCHANGED vars
      BY <1>1 DEF Reject, PeerGoes, Connect, vars
    <3>8. QED
      BY <1>1, <3>2, <3>3, <3>4, <3>5, <3>6, <3>7
         DEF Next, Endpoint, BroadcastRuns, BroadcastToNobody
  <2>2. HasNext(b) /\ cast[b].live
    BY <2>1 DEF NextConnection, HasNext
  <2>3. cast'[b].connection = Following(b)
    <3>1. cast[b] \in Casts
      BY <2>0
    <3>2. CASE cast[b].message \in Unserialisable
      BY <1>1, <2>0, <2>1, <3>1, <3>2 DEF NextConnection, Casts
    <3>3. CASE cast[b].message \notin Unserialisable
      BY <2>0, <2>1, <3>1, <3>3 DEF NextConnection, Casts
    <3>4. QED
      BY <3>2, <3>3
  <2>4. OnCourse(Shared(b), cast[b].index, history[b]) /\ cast[b].index \in Nat
    BY <1>1, <2>0, <2>2 DEF TrackInv, OnTrack, Casts
  <2>5. cast[b].index + 1 \in 1..Len(Shared(b)) /\ Following(b) = Shared(b)[cast[b].index + 1]
    BY <2>0, <2>2, FollowingListed DEF Following, Shared
  <2>6. QED
    BY <2>3, <2>4, <2>5 DEF OnCourse
<1>2. TrackInv /\ [Next]_vars =>
        [\A b \in Broadcasts : cast[b].phase = "looping" /\ cast'[b].phase = "sending"
           => cast'[b].connection \notin history[b].seen]_vars
  BY <1>1
<1>3. QED
  BY <1>2, AlwaysOnTrack, PTL DEF Spec, NoRepeatedSend

\* The counterpart of what the code does not do: a broadcast whose list nobody
\* left while it was sending has sent to every connection it found.
THEOREM BroadcastComplete ==
  Spec => [](\A b \in Broadcasts :
               cast[b].phase = "cleanup" /\ history[b].departures = 0 => history[b].owed = {})
<1>1. ASSUME TrackInv, NEW b \in Broadcasts,
             cast[b].phase = "cleanup", history[b].departures = 0
      PROVE  history[b].owed = {}
  <2>1. history[b].owed \in SUBSET Sockets
    BY <1>1 DEF TrackInv, Typed, CastTyped, Histories
  <2>2. IsFiniteSet(history[b].owed)
    BY <2>1, ManagerAssumption, FS_Subset
  <2>3. Cardinality(history[b].owed) = 0
    <3>1. Cardinality(history[b].owed) \in Nat
      BY <2>2, FS_CardinalityType
    <3>2. QED
      BY <1>1, <3>1 DEF TrackInv, OnTrack
  <2>4. QED
    BY <2>2, <2>3, FS_EmptySet
<1>2. TrackInv =>
        \A b \in Broadcasts :
          cast[b].phase = "cleanup" /\ history[b].departures = 0 => history[b].owed = {}
  BY <1>1
<1>3. QED
  BY <1>2, AlwaysOnTrack, PTL

-----------------------------------------------------------------------------
(* Who has control of the event loop                                         *)

InControl(b) == cast[b].phase \in {"looping", "cleanup"}

OneInControl == \A b, d \in Broadcasts : InControl(b) /\ InControl(d) => b = d

\* What a broadcast that has control may still do before it gives it up:
\* a turn of its loop may add a connection to clean up.
Ahead(b) == IF HasNext(b) THEN Len(connections[cast[b].chama]) - cast[b].index ELSE 0

Work(b) ==
  IF cast[b].phase = "looping" THEN 2 * Ahead(b) + Cardinality(cast[b].failed) + 2
  ELSE IF cast[b].phase = "cleanup" THEN Cardinality(cast[b].failed) + 1
  ELSE 0

\* While a broadcast has control of the loop nothing happens but that a peer
\* goes, and each step it takes leaves it less to do.
ControlReturns ==
  [][\A b \in Broadcasts : InControl(b) =>
       Work(b)' < Work(b) \/ \E s \in Sockets : PeerGoes(s)]_vars

LEMMA InitOneInControl == Init => OneInControl
  BY DEF Init, OneInControl, InControl, NoCast

\* What a clean-up leaves of the locals of every broadcast: one connection less
\* to clean up for its own.
LEMMA CleanUpCasts ==
  ASSUME Typed, NEW b \in Broadcasts, NEW s \in Sockets, CleanUp(b, s)
  PROVE  /\ \A d \in Broadcasts : cast'[d].phase = cast[d].phase
         /\ cast'[b].failed = cast[b].failed \ {s}
<1> DEFINE casts == [cast EXCEPT ![b].failed = @ \ {s}]
<1>0. RegistryInv /\ cast \in [Broadcasts -> Casts]
  BY DEF Typed, CastTyped
<1>1. cast[b] \in Casts /\ cast[b].failed \ {s} \in SUBSET Sockets
  BY <1>0 DEF Casts
<1>2. casts = [cast EXCEPT ![b] = [cast[b] EXCEPT !.failed = cast[b].failed \ {s}]]
  BY <1>0
<1>3. casts \in [Broadcasts -> Casts]
  BY <1>0, <1>1, <1>2, CastUpdates
<1>4. /\ \A d \in Broadcasts : casts[d].phase = cast[d].phase
      /\ casts[b].failed = cast[b].failed \ {s}
  BY <1>0, <1>1 DEF Casts
<1>5. Disconnect(s, cast[b].chama, casts)
  BY DEF CleanUp
<1> HIDE DEF casts
<1>6. QED
  BY <1>0, <1>3, <1>4, <1>5, DisconnectCasts

\* A broadcast takes control only of a free loop.
LEMMA StepControl ==
  ASSUME Typed, [Next]_vars
  PROVE  \/ \A d \in Broadcasts : InControl(d)' => InControl(d)
         \/ LoopIsFree /\ \E b \in Broadcasts : \A d \in Broadcasts : InControl(d)' => d = b
<1>0. RegistryInv /\ cast \in [Broadcasts -> Casts]
  BY DEF Typed, CastTyped
<1>1. CASE UNCHANGED cast
  BY <1>1 DEF InControl
<1>2. ASSUME NEW s \in Sockets, EndpointEnds(s)
      PROVE  \A d \in Broadcasts : InControl(d)' => InControl(d)
  BY <1>0, <1>2, DisconnectCasts DEF EndpointEnds, InControl
<1>3. ASSUME NEW b \in Broadcasts, NEW c \in Chamas, NEW m \in Messages,
             StartBroadcast(b, c, m)
      PROVE  LoopIsFree /\ \A d \in Broadcasts : InControl(d)' => d = b
  BY <1>0, <1>3 DEF StartBroadcast, LoopIsFree, InControl
<1>4. ASSUME NEW b \in Broadcasts, Sent(b) \/ SendFails(b)
      PROVE  LoopIsFree /\ \A d \in Broadcasts : InControl(d)' => d = b
  BY <1>0, <1>4 DEF Sent, SendFails, LoopIsFree, InControl
<1>5. ASSUME NEW b \in Broadcasts, NextConnection(b) \/ StartCleanup(b) \/ EndBroadcast(b)
      PROVE  \A d \in Broadcasts : InControl(d)' => InControl(d)
  <2>1. InControl(b) /\ \A d \in Broadcasts \ {b} : cast'[d] = cast[d]
    BY <1>0, <1>5 DEF NextConnection, StartCleanup, EndBroadcast, InControl
  <2>2. QED
    BY <2>1 DEF InControl
<1>6. ASSUME NEW b \in Broadcasts, NEW s \in Sockets, CleanUp(b, s)
      PROVE  \A d \in Broadcasts : InControl(d)' => InControl(d)
  BY <1>6, CleanUpCasts DEF InControl
<1>7. (\E s \in Sockets : Reject(s) \/ PeerGoes(s) \/ \E c \in Chamas : Connect(s, c))
        => UNCHANGED cast
  BY DEF Reject, PeerGoes, Connect
<1>8. QED
  BY <1>1, <1>2, <1>3, <1>4, <1>5, <1>6, <1>7
     DEF Next, Endpoint, BroadcastRuns, BroadcastToNobody, vars

LEMMA StepOneInControl == Typed /\ OneInControl /\ [Next]_vars => OneInControl'
<1> SUFFICES ASSUME Typed, OneInControl, [Next]_vars PROVE OneInControl'
  OBVIOUS
<1>1. CASE \A d \in Broadcasts : InControl(d)' => InControl(d)
  BY <1>1 DEF OneInControl
<1>2. CASE \E b \in Broadcasts : \A d \in Broadcasts : InControl(d)' => d = b
  BY <1>2 DEF OneInControl
<1>3. QED
  BY <1>1, <1>2, StepControl

LEMMA FailedFinite ==
  ASSUME NEW f \in SUBSET Sockets
  PROVE  IsFiniteSet(f) /\ Cardinality(f) \in Nat
  BY ManagerAssumption, FS_Subset, FS_CardinalityType

\* A turn of the loop: one connection less ahead, at most one more to clean up.
LEMMA TurnWork ==
  ASSUME Typed, NEW b \in Broadcasts, NextConnection(b)
  PROVE  Work(b)' < Work(b)
<1> DEFINE y == cast[b]
           f == Following(b)
           n == Len(connections[y.chama])
<1>0. cast \in [Broadcasts -> Casts] /\ y \in Casts
  BY DEF Typed, CastTyped
<1>1. /\ y.phase = "looping" /\ HasNext(b) /\ y.live /\ y.index \in Nat /\ n \in Nat
      /\ y.index < n /\ f \in Sockets /\ y.failed \in SUBSET Sockets
  BY <1>0, FollowingListed DEF NextConnection, HasNext, Casts
<1>2. Cardinality(y.failed) \in Nat /\ Work(b) = 2 * (n - y.index) + Cardinality(y.failed) + 2
  BY <1>1, FailedFinite DEF Work, Ahead
<1>3. CASE y.message \in Unserialisable
  <2> DEFINE x == [y EXCEPT !.index = y.index + 1, !.failed = y.failed \cup {f}]
  <2>1. cast'[b] = x /\ connections' = connections
    BY <1>0, <1>3 DEF NextConnection, registry
  <2> HIDE DEF f
  <2>2. /\ x.phase = "looping" /\ x.live /\ x.chama = y.chama /\ x.index = y.index + 1
        /\ x.failed = y.failed \cup {f}
    BY <1>0, <1>1 DEF Casts
  <2>3. /\ Cardinality(x.failed) \in Nat
        /\ Cardinality(x.failed) <= Cardinality(y.failed) + 1
    BY <1>1, <2>2, FailedFinite, OneMore
  <2> HIDE DEF x
  <2>4. Ahead(b)' = n - (y.index + 1)
    <3>1. HasNext(b)' <=> y.index + 1 < n
      BY <2>1, <2>2 DEF HasNext
    <3>2. QED
      BY <1>1, <2>1, <2>2, <3>1 DEF Ahead
  <2>5. Work(b)' = 2 * (n - (y.index + 1)) + Cardinality(x.failed) + 2
    BY <2>1, <2>2, <2>4 DEF Work
  <2> HIDE DEF n, y
  <2>6. QED
    BY <1>1, <1>2, <2>3, <2>5
<1>4. CASE y.message \notin Unserialisable
  <2>1. cast'[b].phase = "sending"
    BY <1>0, <1>4 DEF NextConnection, Casts
  <2>2. Work(b)' = 0
    BY <2>1 DEF Work
  <2> HIDE DEF n, y
  <2>3. QED
    BY <1>1, <1>2, <2>2
<1>5. QED
  BY <1>3, <1>4

\* Whatever the lists hold and however many connections fail, a broadcast that
\* has control of the event loop is the only one that runs, and it gives control
\* up after at most as many steps as its work: none blocks the loop for good.
THEOREM LoopNeverHeld == Spec => ControlReturns
<1>1. ASSUME Typed, OneInControl, [Next]_vars, NEW b \in Broadcasts, InControl(b),
             ~UNCHANGED vars, ~(\E s \in Sockets : PeerGoes(s))
      PROVE  Work(b)' < Work(b)
  <2>0. /\ cast \in [Broadcasts -> Casts] /\ cast[b] \in Casts
        /\ IsFiniteSet(cast[b].failed) /\ Cardinality(cast[b].failed) \in Nat
    <3>1. cast \in [Broadcasts -> Casts] /\ cast[b] \in Casts
      BY <1>1 DEF Typed, CastTyped
    <3>2. cast[b].failed \in SUBSET Sockets
      BY <3>1 DEF Casts
    <3>3. QED
      BY <3>1, <3>2, FailedFinite
  <2>1. ~LoopIsFree
    BY <1>1 DEF LoopIsFree, InControl
  <2>2. PICK d \in Broadcasts : BroadcastRuns(d)
    BY <1>1, <2>1 DEF Next, Endpoint, Reject, EndpointEnds, Connect, StartBroadcast,
                      BroadcastToNobody, Sent, SendFails
  <2>3. d = b
    <3>1. InControl(d)
      BY <2>2 DEF BroadcastRuns, NextConnection, StartCleanup, CleanUp, EndBroadcast, InControl
    <3>2. QED
      BY <1>1, <3>1 DEF OneInControl
  <2>4. CASE NextConnection(b)
    BY <1>1, <2>4, TurnWork
  <2>5. CASE StartCleanup(b)
    <3>1. Work(b) = Cardinality(cast[b].failed) + 2
      BY <2>0, <2>5 DEF StartCleanup, Work, Ahead
    <3>2. cast'[b].phase = "cleanup" /\ cast'[b].failed = cast[b].failed
      BY <2>0, <2>5 DEF StartCleanup, Casts
    <3>3. QED
      BY <2>0, <3>1, <3>2 DEF Work
  <2>6. ASSUME NEW s \in Sockets, CleanUp(b, s) PROVE Work(b)' < Work(b)
    <3>1. /\ cast[b].phase = "cleanup" /\ s \in cast[b].failed
          /\ cast'[b].phase = "cleanup" /\ cast'[b].failed = cast[b].failed \ {s}
      BY <1>1, <2>6, CleanUpCasts DEF CleanUp
    <3>2. Cardinality(cast[b].failed \ {s}) = Cardinality(cast[b].failed) - 1
      BY <2>0, <3>1, FS_RemoveElement
    <3>3. QED
      BY <2>0, <3>1, <3>2 DEF Work
  <2>7. CASE EndBroadcast(b)
    <3>1. cast[b].phase = "cleanup" /\ cast'[b].phase = "idle"
      BY <2>0, <2>7 DEF EndBroadcast, NoCast
    <3>2. QED
      BY <2>0, <3>1 DEF Work
  <2>8. QED
    BY <2>2, <2>3, <2>4, <2>5, <2>6, <2>7 DEF BroadcastRuns
<1>2. Typed /\ OneInControl /\ [Next]_vars =>
        [\A b \in Broadcasts : InControl(b) =>
           Work(b)' < Work(b) \/ \E s \in Sockets : PeerGoes(s)]_vars
  BY <1>1
<1>3. Spec => []OneInControl
  BY InitOneInControl, AlwaysTyped, StepOneInControl, PTL DEF Spec
<1>4. QED
  BY <1>2, <1>3, AlwaysTyped, PTL DEF Spec, ControlReturns

-----------------------------------------------------------------------------
(* Who has gone is taken off its list.  (That all of those who have gone are  *)
(* off it at once would take an induction over the sockets in temporal logic, *)
(* and that the loop becomes free again, one over the work of a broadcast.)   *)

LoopComesFree == []<>LoopIsFree

\* Strong fairness of the end of s's endpoint once its peer has gone, with its
\* guard for ENABLED.
IsNoticed(s) ==
  \/ <>[]~(LoopIsFree /\ pc[s] = "receiving" /\ ~alive[s])
  \/ []<><<~alive[s] /\ EndpointEnds(s)>>_vars

Gone(s) == pc[s] = "receiving" /\ ~alive[s]

LEMMA PeersStayGone ==
  ASSUME Typed, NEW s \in Sockets, [Next]_vars
  PROVE  /\ Gone(s) => Gone(s)' \/ pc'[s] = "closed"
         /\ pc[s] = "closed" => pc'[s] = "closed"
<1>0. /\ pc \in [Sockets -> {"new", "receiving", "closed"}]
      /\ alive \in [Sockets -> BOOLEAN]
  BY DEF Typed, RegistryInv, RegistryTyped, CastTyped
<1>1. ASSUME NEW t \in Sockets, Reject(t) \/ EndpointEnds(t) \/ PeerGoes(t)
      PROVE  /\ Gone(s) => Gone(s)' \/ pc'[s] = "closed"
             /\ pc[s] = "closed" => pc'[s] = "closed"
  BY <1>0, <1>1 DEF Reject, EndpointEnds, PeerGoes, Gone
<1>2. ASSUME NEW t \in Sockets, NEW c \in Chamas, Connect(t, c)
      PROVE  /\ Gone(s) => Gone(s)'
             /\ pc[s] = "closed" => pc'[s] = "closed"
  BY <1>0, <1>2 DEF Connect, Gone
<1>3. (\E b \in Broadcasts :
         \/ \E c \in Chamas, m \in Messages : StartBroadcast(b, c, m)
         \/ \E c \in Chamas : BroadcastToNobody(b, c)
         \/ BroadcastRuns(b) \/ Sent(b) \/ SendFails(b)) => UNCHANGED <<pc, alive>>
  BY DEF StartBroadcast, BroadcastToNobody, BroadcastRuns, NextConnection, StartCleanup,
         EndBroadcast, CleanUp, Sent, SendFails, vars
<1>4. CASE UNCHANGED <<pc, alive>>
  BY <1>4 DEF Gone
<1>5. QED
  BY <1>1, <1>2, <1>3, <1>4 DEF Next, Endpoint, vars

\* A connection whose peer has gone is on no list for good, from some point
\* on, whatever broadcasts and other endpoints do to the lists.
THEOREM GoneForGood ==
  Spec /\ LoopComesFree /\ (\A s \in Sockets : IsNoticed(s)) =>
    \A s \in Sockets, c \in Chamas : <>[](Listed(s, c) => alive[s])
<1>1. ASSUME NEW s \in Sockets, NEW c \in Chamas
      PROVE  Spec /\ LoopComesFree /\ IsNoticed(s) => <>[](Listed(s, c) => alive[s])
  <2>1. Typed /\ [Next]_vars =>
          /\ Gone(s) => Gone(s)' \/ (pc[s] = "closed")'
          /\ pc[s] = "closed" => (pc[s] = "closed")'
    BY PeersStayGone
  <2>2. Typed /\ <<~alive[s] /\ EndpointEnds(s)>>_vars => (pc[s] = "closed")'
    BY DEF Typed, RegistryInv, RegistryTyped, EndpointEnds
  <2>3. Typed /\ ~(Listed(s, c) => alive[s]) => Gone(s)
    BY DEF Typed, RegistryInv, NoLeak, Listed, Gone
  <2>4. Gone(s) <=> pc[s] = "receiving" /\ ~alive[s]
    BY DEF Gone
  <2>5. pc[s] = "closed" => ~Gone(s)
    BY DEF Gone
  <2>6. QED
    BY <2>1, <2>2, <2>3, <2>4, <2>5, AlwaysTyped, PTL DEF Spec, LoopComesFree, IsNoticed
<1>2. ASSUME NEW s \in Sockets, NEW c \in Chamas
      PROVE  Spec /\ LoopComesFree /\ (\A t \in Sockets : IsNoticed(t)) =>
               <>[](Listed(s, c) => alive[s])
  BY <1>1
<1>3. QED
  BY <1>2, Zenon
=============================================================================
