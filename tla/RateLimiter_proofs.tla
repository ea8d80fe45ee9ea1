------------------------- MODULE RateLimiter_proofs -------------------------
(***************************************************************************)
(* Theorems about RateLimiter, for any requests, keys, limits and clock.   *)
(***************************************************************************)
EXTENDS RateLimiter, FiniteSetTheorems, SequenceTheorems, TLAPS

\* TypeOK, what a verdict is made of apart.
Typed ==
  /\ clock \in 0..MaxTime
  /\ times \in [Keys -> Seq(0..MaxTime)]
  /\ \A k \in Keys : Len(times[k]) <= MaxLen
  /\ remaining \in [Requests -> 0..MaxLen \cup {NoHeader}]
  /\ log \in [Keys -> Seq(0..MaxTime)]
  /\ due \in [Keys -> [at : Nat, header : Nat, limit : 1..(MaxLen + 1)]]

Verdicts == verdict \in [Requests -> Ideal!Verdict \cup {NoVerdict}]

Times == Seq(0..MaxTime)

\* The deque q is the end of the log l, and the d times that have left it are
\* outside of the window for good; the log is in order.
EndsLog(q, l, d, now) ==
  /\ Len(l) = d + Len(q)
  /\ \A i \in 1..Len(q) : q[i] = l[d + i]
  /\ \A i \in 1..d : l[i] < now - Window
  /\ \A i, j \in 1..Len(l) : i <= j => l[i] <= l[j]
  /\ \A i \in 1..Len(l) : l[i] <= now

\* Where l has the times the window holds.
Within(l, now) == {i \in 1..Len(l) : l[i] >= now - Window}

DequeEndsLog ==
  \A k \in Keys : \E d \in Nat : EndsLog(times[k], log[k], d, clock)

\* Since a key was told when to come back, nothing more was let through, and
\* what it was told is when the first of its times leaves the window, which the
\* header anticipates by less than a second.
DueIsFirst ==
  \A k \in Keys :
    /\ due[k].at < due[k].header + Second
    /\ due[k].limit <= MaxLen =>
         /\ Len(times[k]) <= due[k].limit
         /\ Len(times[k]) = due[k].limit => due[k].at = times[k][1] + Window

-----------------------------------------------------------------------------
(* What is_allowed does to a deque *)

\* The popleft loop leaves a deque without its first n times.
LEMMA FreshProperties ==
  ASSUME NEW S, NEW q \in Seq(S), NEW n \in 0..Len(q)
  PROVE  LET fresh == SubSeq(q, n + 1, Len(q)) IN
         /\ fresh \in Seq(S)
         /\ Len(fresh) = Len(q) - n
         /\ \A i \in 1..(Len(q) - n) : fresh[i] = q[n + i]
<1>1. /\ n + 1 \in Int /\ Len(q) \in Int
      /\ \A i \in (n + 1)..Len(q) : q[i] \in S
  OBVIOUS
<1>2. /\ SubSeq(q, n + 1, Len(q)) \in Seq(S)
      /\ Len(SubSeq(q, n + 1, Len(q))) = IF n + 1 <= Len(q) THEN Len(q) - (n + 1) + 1 ELSE 0
      /\ \A i \in 1..(Len(q) - (n + 1) + 1) :
           SubSeq(q, n + 1, Len(q))[i] = q[n + 1 + i - 1]
  BY <1>1, SubSeqProperties
<1>3. QED
  BY <1>2

\* A deque below its limit is not full, and loses nothing to a new time.
LEMMA PushProperties ==
  ASSUME NEW S, NEW q \in Seq(S), NEW t \in S, Len(q) < MaxLen
  PROVE  /\ Push(q, t) \in Seq(S)
         /\ Len(Push(q, t)) = Len(q) + 1
         /\ \A i \in 1..Len(q) : Push(q, t)[i] = q[i]
         /\ Push(q, t)[Len(q) + 1] = t
BY DEF Push

\* A time cut off to whole units is short by less than one.
LEMMA Truncated ==
  ASSUME NEW t \in Nat, NEW unit \in Nat \ {0}
  PROVE  (t \div unit) * unit \in Nat /\ t < (t \div unit) * unit + unit
<1>1. t \div unit \in Nat /\ t % unit \in Nat /\ t % unit < unit
  BY SMT
<1>2. t = unit * (t \div unit) + (t % unit)
  BY SMT
<1>3. QED
  BY <1>1, <1>2, SMT

-----------------------------------------------------------------------------
(* Types *)

LEMMA InitTyped == Init => Typed /\ Verdicts
<1>1. Init => Typed
  BY LimiterAssumption DEF Init, Typed, NotTold
<1>2. Init => Verdicts
  BY Zenon DEF Init, Verdicts
<1>3. QED
  BY <1>1, <1>2

LEMMA StepTyped == Typed /\ Verdicts /\ [Next]_vars => Typed'
<1> SUFFICES ASSUME Typed, Verdicts, [Next]_vars PROVE Typed'
  OBVIOUS
<1> USE LimiterAssumption
<1>1. CASE Tick
  BY <1>1 DEF Tick, Typed
<1>2. ASSUME NEW r \in Requests, Respond(r) PROVE Typed'
  <2> DEFINE left == verdict[r].limit - Len(times[verdict[r].key])
  <2>1. verdict[r].limit \in 1..MaxLen /\ verdict[r].key \in Keys
    BY <1>2 DEF Respond, Verdicts, Ideal!Verdict
  <2>2. left \in Int /\ left <= MaxLen
    BY <2>1 DEF Typed
  <2>3. remaining' = [remaining EXCEPT ![r] = IF left > 0 THEN left ELSE 0]
    BY <1>2 DEF Respond
  <2> HIDE DEF left
  <2>4. remaining' \in [Requests -> 0..MaxLen \cup {NoHeader}]
    BY <2>2, <2>3 DEF Typed
  <2>5. QED
    BY <1>2, <2>4 DEF Respond, Typed
<1>3. ASSUME NEW r \in Requests, NEW k \in Keys, NEW limit \in Limits,
             Dispatch(r, k, limit)
      PROVE  Typed'
  <2>1. PICK n \in 0..Len(times[k]) :
          LET fresh == SubSeq(times[k], n + 1, Len(times[k])) IN
          /\ Expired(times[k], n)
          /\ IF Len(fresh) < limit
             THEN Allow(r, k, limit, fresh) ELSE Refuse(r, k, limit, fresh)
    BY <1>3 DEF Dispatch
  <2> DEFINE fresh == SubSeq(times[k], n + 1, Len(times[k]))
  <2>2. /\ fresh \in Seq(0..MaxTime) /\ Len(fresh) \in Nat
        /\ Len(fresh) <= Len(times[k]) /\ Len(fresh) <= MaxLen
    BY FreshProperties DEF Typed
  <2>3. limit \in 1..MaxLen /\ UNCHANGED <<clock, remaining>>
    BY <1>3 DEF Dispatch
  <2>6. Len(fresh) > 0 => ~Outside(fresh[1])
    <3>1. Len(fresh) = Len(times[k]) - n /\ (Len(fresh) > 0 => fresh[1] = times[k][n + 1])
      BY FreshProperties DEF Typed
    <3>2. QED
      BY <2>1, <3>1 DEF Expired, Typed
  <2>4. CASE Len(fresh) < limit
    <3>1. Allow(r, k, limit, fresh)
      BY <2>1, <2>4
    <3> HIDE DEF fresh
    <3>2. Push(fresh, clock) \in Seq(0..MaxTime) /\ Len(Push(fresh, clock)) <= MaxLen
      <4>1. clock \in 0..MaxTime /\ Len(fresh) < MaxLen
        BY <2>2, <2>3, <2>4 DEF Typed
      <4>2. /\ Push(fresh, clock) \in Seq(0..MaxTime)
            /\ Len(Push(fresh, clock)) = Len(fresh) + 1
        BY <2>2, <4>1, PushProperties
      <4>3. QED
        BY <2>2, <4>1, <4>2
    <3>3. NotTold \in [at : Nat, header : Nat, limit : 1..(MaxLen + 1)]
      BY DEF NotTold
    <3>4. /\ times' \in [Keys -> Seq(0..MaxTime)]
          /\ \A j \in Keys : Len(times'[j]) <= MaxLen
      BY <3>1, <3>2 DEF Allow, Typed
    <3>5. /\ log' \in [Keys -> Seq(0..MaxTime)]
          /\ due' \in [Keys -> [at : Nat, header : Nat, limit : 1..(MaxLen + 1)]]
      BY <3>1, <3>3 DEF Allow, Typed
    <3>6. QED
      BY <2>3, <3>1, <3>4, <3>5 DEF Allow, Typed
  <2>5. CASE ~(Len(fresh) < limit)
    <3>1. Refuse(r, k, limit, fresh)
      BY <2>1, <2>5
    <3> HIDE DEF fresh
    <3>2. clock + RetryAfter(fresh) \in Nat /\ clock + Header(fresh) \in Nat
      <4>1. fresh[1] \in 0..MaxTime /\ ~Outside(fresh[1])
        BY <2>2, <2>3, <2>5, <2>6
      <4>2. clock \in Nat /\ RetryAfter(fresh) \in Nat
        BY <4>1 DEF RetryAfter, Outside, Typed
      <4>3. Header(fresh) \in Nat
        BY <4>2, Truncated DEF Header
      <4>4. QED
        BY <4>2, <4>3
    <3>3. due' \in [Keys -> [at : Nat, header : Nat, limit : 1..(MaxLen + 1)]]
      BY <2>3, <3>1, <3>2 DEF Refuse, Typed
    <3>4. QED
      BY <2>2, <2>3, <3>1, <3>3 DEF Refuse, Typed
  <2>7. QED
    BY <2>4, <2>5
<1>4. CASE UNCHANGED vars
  BY <1>4 DEF vars, Typed
<1>5. QED
  BY <1>1, <1>2, <1>3, <1>4 DEF Next

LEMMA StepVerdicts == Verdicts /\ [Next]_vars => Verdicts'
<1> SUFFICES ASSUME Verdicts, [Next]_vars PROVE Verdicts'
  OBVIOUS
<1>1. CASE UNCHANGED verdict
  BY <1>1, Zenon DEF Verdicts, Ideal!Verdict
<1>2. ASSUME NEW r \in Requests, NEW k \in Keys, NEW limit \in Limits,
             Dispatch(r, k, limit)
      PROVE  Verdicts'
  <2>1. PICK b \in BOOLEAN :
          verdict' = [verdict EXCEPT ![r] = [key |-> k, limit |-> limit, allowed |-> b]]
    BY <1>2, Zenon DEF Dispatch, Allow, Refuse
  <2>2. [key |-> k, limit |-> limit, allowed |-> b] \in Ideal!Verdict
    BY Zenon DEF Ideal!Verdict
  <2>3. QED
    BY <2>1, <2>2, Zenon DEF Verdicts, Ideal!Verdict
<1>3. QED
  BY <1>1, <1>2, Zenon DEF Next, Tick, Respond, vars

\* Every reachable state is well typed.
THEOREM TypeCorrect == Spec => []TypeOK
<1>1. Typed /\ Verdicts => TypeOK
  BY Zenon DEF Typed, Verdicts, TypeOK, Ideal!Verdict
<1>2. QED
  BY <1>1, InitTyped, StepTyped, StepVerdicts, PTL DEF Spec

-----------------------------------------------------------------------------
(* The deque and the log *)

\* The loop takes times outside of the window from the deque.
LEMMA PopKeepsEnd ==
  ASSUME NEW q \in Times, NEW l \in Times, NEW d \in Nat, NEW now \in Nat,
         EndsLog(q, l, d, now),
         NEW n \in 0..Len(q), \A i \in 1..n : q[i] < now - Window,
         NEW f \in Times, Len(f) = Len(q) - n,
         \A i \in 1..(Len(q) - n) : f[i] = q[n + i]
  PROVE  EndsLog(f, l, d + n, now)
<1>1. Len(q) \in Nat /\ n \in Nat /\ Len(l) = d + n + Len(f)
  BY DEF EndsLog, Times
<1>2. ASSUME NEW i \in 1..Len(f) PROVE f[i] = l[d + n + i]
  <2>1. n + i \in 1..Len(q) /\ d + (n + i) = d + n + i
    BY <1>1
  <2>2. f[i] = q[n + i] /\ q[n + i] = l[d + (n + i)]
    BY <1>1, <2>1 DEF EndsLog
  <2>3. QED
    BY <2>1, <2>2
<1>3. ASSUME NEW i \in 1..(d + n) PROVE l[i] < now - Window
  <2>1. CASE i <= d
    BY <1>1, <2>1 DEF EndsLog
  <2>2. CASE ~(i <= d)
    <3>1. i - d \in 1..n /\ i - d \in 1..Len(q) /\ d + (i - d) = i
      BY <1>1, <2>2
    <3>2. q[i - d] = l[d + (i - d)]
      BY <3>1 DEF EndsLog
    <3>3. QED
      BY <3>1, <3>2
  <2>3. QED
    BY <2>1, <2>2
<1>4. QED
  BY <1>1, <1>2, <1>3 DEF EndsLog

\* A request that is let through ends both.
LEMMA PushKeepsEnd ==
  ASSUME NEW q \in Times, NEW l \in Times, NEW d \in Nat, NEW now \in 0..MaxTime,
         EndsLog(q, l, d, now), Len(q) < MaxLen
  PROVE  EndsLog(Push(q, now), Append(l, now), d, now)
<1> DEFINE p == Push(q, now)
           m == Append(l, now)
<1> USE LimiterAssumption
<1>1. /\ Len(p) = Len(q) + 1 /\ p[Len(q) + 1] = now
      /\ \A i \in 1..Len(q) : p[i] = q[i]
  <2>1. q \in Seq(0..MaxTime)
    BY DEF Times
  <2>2. QED
    BY <2>1 DEF Push
<1>2. /\ Len(m) = Len(l) + 1 /\ m[Len(l) + 1] = now
      /\ \A i \in 1..Len(l) : m[i] = l[i]
  BY DEF Times
<1>3. /\ Len(q) \in Nat /\ Len(l) \in Nat /\ Len(l) = d + Len(q)
      /\ now \in Nat
  BY DEF EndsLog, Times
<1> HIDE DEF p, m
<1>4. ASSUME NEW i \in 1..Len(p) PROVE p[i] = m[d + i]
  <2>1. CASE i = Len(q) + 1
    <3>1. d + i = Len(l) + 1
      BY <1>3, <2>1
    <3>2. QED
      BY <1>1, <1>2, <2>1, <3>1
  <2>2. CASE i # Len(q) + 1
    <3>1. i \in 1..Len(q) /\ d + i \in 1..Len(l)
      BY <1>1, <1>3, <2>2
    <3>2. QED
      BY <1>1, <1>2, <3>1 DEF EndsLog
  <2>3. QED
    BY <2>1, <2>2
<1>5. ASSUME NEW i \in 1..d PROVE m[i] < now - Window
  <2>1. i \in 1..Len(l)
    BY <1>3
  <2>2. QED
    BY <1>2, <2>1 DEF EndsLog
<1>6. ASSUME NEW i \in 1..Len(m) PROVE m[i] <= now
  <2>1. CASE i = Len(l) + 1
    BY <1>2, <1>3, <2>1
  <2>2. CASE i # Len(l) + 1
    <3>1. i \in 1..Len(l)
      BY <1>2, <1>3, <2>2
    <3>2. QED
      BY <1>2, <3>1 DEF EndsLog
  <2>3. QED
    BY <2>1, <2>2
<1>7. ASSUME NEW i \in 1..Len(m), NEW j \in 1..Len(m), i <= j PROVE m[i] <= m[j]
  <2>1. CASE j = Len(l) + 1
    BY <1>2, <1>6, <2>1
  <2>2. CASE j # Len(l) + 1
    <3>1. i \in 1..Len(l) /\ j \in 1..Len(l)
      BY <1>2, <1>3, <1>7, <2>2
    <3>2. QED
      BY <1>2, <1>7, <3>1 DEF EndsLog
  <2>3. QED
    BY <2>1, <2>2
<1>8. Len(m) = d + Len(p)
  BY <1>1, <1>2, <1>3
<1>9. EndsLog(p, m, d, now)
  BY <1>4, <1>5, <1>6, <1>7, <1>8 DEF EndsLog
<1>10. QED
  BY <1>9 DEF p, m

\* What is outside of the window stays outside.
LEMMA TickKeepsEnd ==
  ASSUME NEW q \in Times, NEW l \in Times, NEW d \in Nat, NEW now \in Nat,
         EndsLog(q, l, d, now)
  PROVE  EndsLog(q, l, d, now + 1)
<1>1. /\ Len(q) \in Nat /\ Len(l) = d + Len(q) /\ Window \in Nat
      /\ \A i \in 1..Len(l) : l[i] \in Int
  BY LimiterAssumption DEF EndsLog, Times
<1>2. \A i \in 1..d : i \in 1..Len(l)
  BY <1>1
<1>3. QED
  BY <1>1, <1>2 DEF EndsLog

\* How many times the loop leaves is how many the window holds.
LEMMA FreshIsRecent ==
  ASSUME NEW q \in Times, NEW l \in Times, NEW d \in Nat, NEW now \in Nat,
         EndsLog(q, l, d, now), Len(q) > 0 => ~(q[1] < now - Window)
  PROVE  Cardinality(Within(l, now)) = Len(q)
<1>1. /\ Len(q) \in Nat /\ Len(l) = d + Len(q) /\ Window \in Nat
      /\ \A i \in 1..Len(l) : l[i] \in Int
  BY LimiterAssumption DEF EndsLog, Times
<1>2. ASSUME NEW i \in 1..Len(l) PROVE l[i] >= now - Window <=> i > d
  <2>1. CASE i <= d
    <3>1. l[i] < now - Window
      BY <1>1, <2>1 DEF EndsLog
    <3>2. QED
      BY <1>1, <2>1, <3>1
  <2>2. CASE i > d
    <3>1. Len(q) > 0 /\ 1 \in 1..Len(q) /\ d + 1 \in 1..Len(l) /\ d + 1 <= i
      BY <1>1, <2>2
    <3>2. q[1] = l[d + 1] /\ l[d + 1] <= l[i]
      BY <3>1 DEF EndsLog
    <3>3. QED
      BY <1>1, <2>2, <3>1, <3>2
  <2>3. QED
    BY <1>1, <2>1, <2>2
<1>3. Within(l, now) = (d + 1)..Len(l)
  BY <1>1, <1>2 DEF Within
<1>4. Cardinality((d + 1)..Len(l)) =
        IF d + 1 > Len(l) THEN 0 ELSE Len(l) - (d + 1) + 1
  <2>1. d + 1 \in Int /\ Len(l) \in Int
    BY <1>1
  <2>2. QED
    BY <2>1, FS_Interval
<1>5. (IF d + 1 > Len(l) THEN 0 ELSE Len(l) - (d + 1) + 1) = Len(q)
  BY <1>1
<1>6. QED
  BY <1>3, <1>4, <1>5, Zenon

\* What Dispatch does to the deque and the log of its key.
LEMMA DispatchEndsLog ==
  ASSUME Typed, DequeEndsLog,
         NEW r \in Requests, NEW k \in Keys, NEW limit \in Limits,
         NEW n \in 0..Len(times[k]), Expired(times[k], n)
  PROVE  LET fresh == SubSeq(times[k], n + 1, Len(times[k])) IN
         /\ fresh \in Times
         /\ Len(fresh) = Len(times[k]) - n
         /\ Len(fresh) > 0 => ~Outside(fresh[1])
         /\ Cardinality(Ideal!Recent(k)) = Len(fresh)
         /\ \E d \in Nat : EndsLog(fresh, log[k], d, clock)
<1> DEFINE fresh == SubSeq(times[k], n + 1, Len(times[k]))
<1>1. /\ times[k] \in Times /\ log[k] \in Times /\ clock \in Nat
      /\ Len(times[k]) \in Nat
  BY LimiterAssumption DEF Typed, Times
<1>2. /\ fresh \in Times /\ Len(fresh) = Len(times[k]) - n
      /\ \A i \in 1..(Len(times[k]) - n) : fresh[i] = times[k][n + i]
  BY <1>1, FreshProperties DEF Times
<1> HIDE DEF fresh
<1>3. PICK d \in Nat : EndsLog(times[k], log[k], d, clock)
  BY DEF DequeEndsLog
<1>4. \A i \in 1..n : times[k][i] < clock - Window
  BY DEF Expired, Outside
<1>5. EndsLog(fresh, log[k], d + n, clock)
  BY <1>1, <1>2, <1>3, <1>4, PopKeepsEnd
<1>6. Len(fresh) > 0 => ~Outside(fresh[1])
  <2>1. SUFFICES ASSUME Len(fresh) > 0 PROVE ~Outside(fresh[1])
    OBVIOUS
  <2>2. n < Len(times[k]) /\ fresh[1] = times[k][n + 1]
    BY <1>1, <1>2, <2>1
  <2>3. QED
    BY <2>2 DEF Expired
<1>7. d + n \in Nat
  BY <1>1
<1>8. Cardinality(Ideal!Recent(k)) = Len(fresh)
  <2>1. Len(fresh) > 0 => ~(fresh[1] < clock - Window)
    BY <1>6 DEF Outside
  <2>2. Cardinality(Within(log[k], clock)) = Len(fresh)
    BY <1>1, <1>2, <1>5, <1>7, <2>1, FreshIsRecent
  <2>3. QED
    BY <2>2, Zenon DEF Ideal!Recent, Within
<1>9. QED
  BY <1>2, <1>5, <1>6, <1>7, <1>8 DEF fresh

LEMMA InitDequeEndsLog == Init => DequeEndsLog
<1> SUFFICES ASSUME Init, NEW k \in Keys
             PROVE  EndsLog(times[k], log[k], 0, clock)
  BY DEF DequeEndsLog
<1>1. times[k] = <<>> /\ log[k] = <<>>
  BY DEF Init
<1>2. QED
  BY <1>1 DEF EndsLog

LEMMA StepDequeEndsLog == Typed /\ DequeEndsLog /\ [Next]_vars => DequeEndsLog'
<1> SUFFICES ASSUME Typed, DequeEndsLog, [Next]_vars PROVE DequeEndsLog'
  OBVIOUS
<1>1. CASE Tick
  <2>1. clock' = clock + 1 /\ times' = times /\ log' = log
    BY <1>1 DEF Tick
  <2>2. SUFFICES ASSUME NEW k \in Keys
                 PROVE  \E d \in Nat : EndsLog(times[k], log[k], d, clock + 1)
    BY <2>1 DEF DequeEndsLog, EndsLog
  <2>3. times[k] \in Times /\ log[k] \in Times /\ clock \in Nat
    BY LimiterAssumption DEF Typed, Times
  <2>4. QED
    BY <2>3, TickKeepsEnd DEF DequeEndsLog
<1>2. CASE UNCHANGED <<clock, times, log>>
  BY <1>2 DEF DequeEndsLog, EndsLog
<1>3. ASSUME NEW r \in Requests, NEW k \in Keys, NEW limit \in Limits,
             Dispatch(r, k, limit)
      PROVE  DequeEndsLog'
  <2>1. PICK n \in 0..Len(times[k]) :
          LET fresh == SubSeq(times[k], n + 1, Len(times[k])) IN
          /\ Expired(times[k], n)
          /\ IF Len(fresh) < limit
             THEN Allow(r, k, limit, fresh) ELSE Refuse(r, k, limit, fresh)
    BY <1>3 DEF Dispatch
  <2> DEFINE fresh == SubSeq(times[k], n + 1, Len(times[k]))
  <2>2. fresh \in Times /\ \E d \in Nat : EndsLog(fresh, log[k], d, clock)
    BY <2>1, DispatchEndsLog
  <2>3. \/ Len(fresh) < limit /\ Allow(r, k, limit, fresh)
        \/ Refuse(r, k, limit, fresh)
    BY <2>1
  <2> HIDE DEF fresh
  <2>4. PICK d \in Nat : EndsLog(fresh, log[k], d, clock)
    BY <2>2
  <2>5. clock' = clock /\ clock \in 0..MaxTime /\ log[k] \in Times
    BY <1>3 DEF Dispatch, Typed, Times
  <2>6. \A j \in Keys : j # k => times'[j] = times[j] /\ log'[j] = log[j]
    BY <2>3 DEF Allow, Refuse, Typed
  <2>7. EndsLog(times'[k], log'[k], d, clock)
    <3>1. CASE Len(fresh) < limit /\ Allow(r, k, limit, fresh)
      <4>1. Len(fresh) < MaxLen
        BY <2>2, <3>1, LimiterAssumption DEF Times
      <4>2. times'[k] = Push(fresh, clock) /\ log'[k] = Append(log[k], clock)
        BY <3>1 DEF Allow, Typed
      <4>3. QED
        BY <2>2, <2>4, <2>5, <4>1, <4>2, PushKeepsEnd
    <3>2. CASE Refuse(r, k, limit, fresh)
      <4>1. times'[k] = fresh /\ log'[k] = log[k]
        BY <3>2 DEF Refuse, Typed
      <4>2. QED
        BY <2>4, <4>1
    <3>3. QED
      BY <2>3, <3>1, <3>2
  <2>8. ASSUME NEW j \in Keys
        PROVE  \E e \in Nat : EndsLog(times'[j], log'[j], e, clock')
    BY <2>5, <2>6, <2>7, Zenon DEF DequeEndsLog
  <2>9. QED
    BY <2>8, Zenon DEF DequeEndsLog, EndsLog
<1>4. QED
  BY <1>1, <1>2, <1>3 DEF Next, Respond, vars

-----------------------------------------------------------------------------
(* The promises *)

LEMMA StepWindow ==
  Typed /\ DequeEndsLog /\ [Next]_vars => [Ideal!Next]_(Ideal!vars)
<1> SUFFICES ASSUME Typed, DequeEndsLog, [Next]_vars
             PROVE  Ideal!Next \/ UNCHANGED Ideal!vars
  OBVIOUS
<1>1. CASE Tick
  <2>1. clock' > clock /\ UNCHANGED <<log, verdict>>
    BY <1>1, LimiterAssumption DEF Tick, Typed
  <2>2. QED
    BY <2>1 DEF Ideal!Next, Ideal!Tick
<1>2. ASSUME NEW r \in Requests, NEW k \in Keys, NEW limit \in Limits,
             Dispatch(r, k, limit)
      PROVE  Ideal!Next
  <2>1. PICK n \in 0..Len(times[k]) :
          LET fresh == SubSeq(times[k], n + 1, Len(times[k])) IN
          /\ Expired(times[k], n)
          /\ IF Len(fresh) < limit
             THEN Allow(r, k, limit, fresh) ELSE Refuse(r, k, limit, fresh)
    BY <1>2 DEF Dispatch
  <2> DEFINE fresh == SubSeq(times[k], n + 1, Len(times[k]))
             allowed == Cardinality(Ideal!Recent(k)) < limit
  <2>2. Cardinality(Ideal!Recent(k)) = Len(fresh)
    BY <2>1, DispatchEndsLog
  <2>3. \/ Len(fresh) < limit /\ Allow(r, k, limit, fresh)
        \/ ~(Len(fresh) < limit) /\ Refuse(r, k, limit, fresh)
    BY <2>1
  <2> HIDE DEF fresh
  <2>4. verdict[r] = NoVerdict /\ UNCHANGED clock
    BY <1>2 DEF Dispatch
  <2>5. /\ verdict' = [verdict EXCEPT ![r] =
                         [key |-> k, limit |-> limit, allowed |-> allowed]]
        /\ log' = IF allowed THEN [log EXCEPT ![k] = Append(@, clock)] ELSE log
    <3>1. CASE Len(fresh) < limit /\ Allow(r, k, limit, fresh)
      <4>1. allowed = TRUE
        BY <2>2, <3>1, Zenon
      <4>2. QED
        BY <3>1, <4>1, Zenon DEF Allow
    <3>2. CASE ~(Len(fresh) < limit) /\ Refuse(r, k, limit, fresh)
      <4>1. allowed = FALSE
        BY <2>2, <3>2
      <4>2. QED
        BY <3>2, <4>1, Zenon DEF Refuse
    <3>3. QED
      BY <2>3, <3>1, <3>2
  <2>6. Ideal!Decide(r, k, limit)
    <3>1. verdict' = [verdict EXCEPT ![r] =
                        [key |-> k, limit |-> limit,
                         allowed |-> Cardinality(Ideal!Recent(k)) < limit]]
      BY <2>5
    <3>2. log' = IF Cardinality(Ideal!Recent(k)) < limit
                 THEN [log EXCEPT ![k] = Append(@, clock)] ELSE log
      BY <2>5
    <3>3. Ideal!Cardinality(Ideal!Recent(k)) = Cardinality(Ideal!Recent(k))
      BY DEF Cardinality, Ideal!Cardinality
    <3>4. QED
      BY <2>4, <3>1, <3>2, <3>3 DEF Ideal!Decide
  <2>7. QED
    BY <2>6 DEF Ideal!Next
<1>3. CASE UNCHANGED <<clock, log, verdict>>
  BY <1>3 DEF Ideal!vars
<1>4. QED
  BY <1>1, <1>2, <1>3 DEF Next, Respond, vars

\* RateLimiter implements SlidingWindow: the deque decides each request as
\* the complete log would.
THEOREM WindowImplemented == Spec => ImplementsWindow
<1>1. Init => Ideal!Init
  BY DEF Init, Ideal!Init
<1>2. Spec => [](Typed /\ DequeEndsLog)
  BY InitTyped, StepTyped, StepVerdicts, InitDequeEndsLog, StepDequeEndsLog, PTL
     DEF Spec
<1>3. QED
  BY <1>1, <1>2, StepWindow, PTL DEF Spec, ImplementsWindow, Ideal!Spec

LEMMA StepHeader ==
  Typed /\ Verdicts /\ DequeEndsLog /\ [Next]_vars =>
    \A r \in Requests :
       remaining[r] = NoHeader /\ remaining'[r] \notin {NoHeader, 0} =>
         remaining'[r] <=
           verdict[r].limit - Cardinality(Ideal!Recent(verdict[r].key))
<1> SUFFICES ASSUME Typed, Verdicts, DequeEndsLog, [Next]_vars,
                    NEW r \in Requests,
                    remaining[r] = NoHeader, remaining'[r] \notin {NoHeader, 0}
             PROVE  remaining'[r] <=
                      verdict[r].limit - Cardinality(Ideal!Recent(verdict[r].key))
  OBVIOUS
<1> DEFINE k == verdict[r].key
           left == verdict[r].limit - Len(times[k])
<1>1. Respond(r)
  BY DEF Typed, Next, Tick, Dispatch, Respond, vars
<1>2. k \in Keys /\ verdict[r].limit \in Int
  <2>1. verdict[r] # NoVerdict
    BY <1>1 DEF Respond
  <2>2. verdict[r].limit \in 1..MaxLen /\ verdict[r].key \in Keys
    BY <2>1, LimiterAssumption DEF Verdicts, Ideal!Verdict
  <2>3. QED
    BY <2>2
<1>3. remaining'[r] = IF left > 0 THEN left ELSE 0
  BY <1>1 DEF Respond, Typed
<1>4. Cardinality(Ideal!Recent(k)) <= Len(times[k]) /\ Cardinality(Ideal!Recent(k)) \in Int
  <2> HIDE DEF k
  <2>1. /\ times[k] \in Times /\ log[k] \in Times /\ clock \in Nat
        /\ Window \in Nat /\ MaxTime \in Nat
    BY <1>2, LimiterAssumption DEF Typed, Times
  <2>2. PICK d \in Nat : EndsLog(times[k], log[k], d, clock)
    BY <1>2 DEF DequeEndsLog
  <2>3. /\ Len(times[k]) \in Nat /\ Len(log[k]) = d + Len(times[k])
        /\ \A i \in 1..Len(log[k]) : log[k][i] \in Int
        /\ \A i \in 1..d : log[k][i] < clock - Window
    BY <2>1, <2>2 DEF EndsLog, Times
  <2>4. Ideal!Recent(k) \subseteq (d + 1)..Len(log[k])
    BY <2>1, <2>3 DEF Ideal!Recent
  <2>5. /\ IsFiniteSet((d + 1)..Len(log[k]))
        /\ Cardinality((d + 1)..Len(log[k])) = Len(times[k])
    <3>1. d + 1 \in Int /\ Len(log[k]) \in Int
      BY <2>3
    <3>2. /\ IsFiniteSet((d + 1)..Len(log[k]))
          /\ Cardinality((d + 1)..Len(log[k])) =
               IF d + 1 > Len(log[k]) THEN 0 ELSE Len(log[k]) - (d + 1) + 1
      BY <3>1, FS_Interval
    <3>3. QED
      BY <2>3, <3>2
  <2>6. /\ IsFiniteSet(Ideal!Recent(k))
        /\ Cardinality(Ideal!Recent(k)) <= Len(times[k])
    BY <2>4, <2>5, FS_Subset
  <2>7. QED
    BY <2>6, FS_CardinalityType
<1>5. Len(times[k]) \in Nat
  BY <1>2 DEF Typed
<1>6. QED
  <2>1. left > 0 /\ remaining'[r] = left
    BY <1>3
  <2> HIDE DEF k
  <2>2. left <= verdict[r].limit - Cardinality(Ideal!Recent(k))
    BY <1>2, <1>4, <1>5
  <2>3. QED
    BY <2>1, <2>2 DEF k

\* However long the response was awaited, its header never promises more than
\* the window has left.
THEOREM HeaderNeverPromisesMore == Spec => HeaderIsSafe
<1>1. Typed /\ Verdicts /\ DequeEndsLog /\ [Next]_vars =>
        [\A r \in Requests :
           remaining[r] = NoHeader /\ remaining'[r] \notin {NoHeader, 0} =>
             remaining'[r] <=
               verdict[r].limit - Cardinality(Ideal!Recent(verdict[r].key))]_vars
  BY StepHeader
<1>2. Spec => [](Typed /\ Verdicts /\ DequeEndsLog)
  BY InitTyped, StepTyped, StepVerdicts, InitDequeEndsLog, StepDequeEndsLog, PTL
     DEF Spec
<1>3. QED
  BY <1>1, <1>2, PTL DEF Spec, HeaderIsSafe

LEMMA InitDueIsFirst == Init => DueIsFirst
BY LimiterAssumption DEF Init, DueIsFirst, NotTold

LEMMA StepDueIsFirst == Typed /\ DequeEndsLog /\ DueIsFirst /\ [Next]_vars => DueIsFirst'
<1> SUFFICES ASSUME Typed, DequeEndsLog, DueIsFirst, [Next]_vars PROVE DueIsFirst'
  OBVIOUS
<1>1. ASSUME NEW r \in Requests, NEW k \in Keys, NEW limit \in Limits,
             Dispatch(r, k, limit)
      PROVE  DueIsFirst'
  <2>1. PICK n \in 0..Len(times[k]) :
          LET fresh == SubSeq(times[k], n + 1, Len(times[k])) IN
          /\ Expired(times[k], n)
          /\ IF Len(fresh) < limit
             THEN Allow(r, k, limit, fresh) ELSE Refuse(r, k, limit, fresh)
    BY <1>1 DEF Dispatch
  <2> DEFINE fresh == SubSeq(times[k], n + 1, Len(times[k]))
  <2>2. /\ fresh \in Times /\ Len(fresh) = Len(times[k]) - n
        /\ Len(times[k]) \in Nat /\ Len(fresh) \in Nat
    <3>1. fresh \in Times /\ Len(fresh) = Len(times[k]) - n
      BY <2>1, DispatchEndsLog
    <3>2. QED
      BY <3>1 DEF Typed
  <2>3. n = 0 => fresh = times[k]
    BY SubSeqFull DEF Typed
  <2>4. Allow(r, k, limit, fresh) \/ Refuse(r, k, limit, fresh)
    BY <2>1
  <2>8. Len(fresh) > 0 => ~Outside(fresh[1])
    BY <2>1, DispatchEndsLog
  <2> HIDE DEF fresh
  <2>5. \A j \in Keys : j # k => times'[j] = times[j] /\ due'[j] = due[j]
    BY <2>4 DEF Allow, Refuse, Typed
  <2>6. /\ due'[k].at < due'[k].header + Second
        /\ due'[k].limit <= MaxLen =>
             /\ Len(times'[k]) <= due'[k].limit
             /\ Len(times'[k]) = due'[k].limit => due'[k].at = times'[k][1] + Window
    <3>1. CASE Allow(r, k, limit, fresh)
      <4>1. due'[k] = NotTold
        BY <3>1 DEF Allow, Typed
      <4>2. QED
        BY <4>1, LimiterAssumption DEF NotTold
    <3>2. CASE Refuse(r, k, limit, fresh)
      <4>1. times'[k] = fresh
        BY <3>2 DEF Refuse, Typed
      <4>2. CASE Len(fresh) = limit
        <5>1. due'[k] = [at |-> clock + RetryAfter(fresh),
                         header |-> clock + Header(fresh), limit |-> limit]
          BY <3>2, <4>2 DEF Refuse, Typed
        <5>2. fresh[1] \in Int /\ ~Outside(fresh[1])
          BY <1>1, <2>2, <2>8, <4>2, LimiterAssumption DEF Times
        <5>3. clock + RetryAfter(fresh) = fresh[1] + Window /\ RetryAfter(fresh) \in Nat
          BY <5>2, LimiterAssumption DEF RetryAfter, Outside, Typed
        <5>4. Header(fresh) \in Nat /\ RetryAfter(fresh) < Header(fresh) + Second
          BY <5>3, Truncated, LimiterAssumption DEF Header
        <5>5. due'[k].at < due'[k].header + Second
          BY <5>1, <5>3, <5>4, LimiterAssumption DEF Typed
        <5>6. QED
          BY <2>2, <4>1, <4>2, <5>1, <5>3, <5>5
      <4>3. CASE Len(fresh) # limit
        <5>1. due'[k] = due[k]
          BY <3>2, <4>3 DEF Refuse, Typed
        <5>2. due[k].limit \in Nat
          BY LimiterAssumption DEF Typed
        <5>3. due[k].limit <= MaxLen /\ Len(fresh) = due[k].limit => n = 0
          BY <2>2, <5>2 DEF DueIsFirst
        <5>4. QED
          BY <2>2, <2>3, <4>1, <5>1, <5>2, <5>3 DEF DueIsFirst
      <4>4. QED
        BY <4>2, <4>3
    <3>3. QED
      BY <2>4, <3>1, <3>2
  <2>7. QED
    BY <2>5, <2>6 DEF DueIsFirst
<1>2. CASE UNCHANGED <<times, due>>
  BY <1>2 DEF DueIsFirst
<1>3. QED
  BY <1>1, <1>2 DEF Next, Tick, Respond, vars

LEMMA StepRetry ==
  Typed /\ Verdicts /\ DequeEndsLog /\ DueIsFirst /\ [Next]_vars =>
    \A r \in Requests :
       verdict[r] = NoVerdict /\ verdict'[r] # NoVerdict /\ ~verdict'[r].allowed =>
         \/ /\ clock <= due[verdict'[r].key].at
            /\ clock < due[verdict'[r].key].header + Second
         \/ verdict'[r].limit < due[verdict'[r].key].limit
<1> SUFFICES ASSUME Typed, Verdicts, DequeEndsLog, DueIsFirst, [Next]_vars,
                    NEW r \in Requests,
                    verdict[r] = NoVerdict, verdict'[r] # NoVerdict,
                    ~verdict'[r].allowed
             PROVE  \/ /\ clock <= due[verdict'[r].key].at
                       /\ clock < due[verdict'[r].key].header + Second
                    \/ verdict'[r].limit < due[verdict'[r].key].limit
  OBVIOUS
<1>1. PICK k \in Keys, limit \in Limits : Dispatch(r, k, limit)
  <2>1. ~UNCHANGED verdict
    OBVIOUS
  <2>2. PICK s \in Requests, k \in Keys, limit \in Limits : Dispatch(s, k, limit)
    BY <2>1 DEF Next, Tick, Respond, vars
  <2>3. s = r
    BY <2>2, Zenon DEF Dispatch, Allow, Refuse, Verdicts
  <2>4. QED
    BY <2>2, <2>3
<1>2. PICK n \in 0..Len(times[k]) :
        LET fresh == SubSeq(times[k], n + 1, Len(times[k])) IN
        /\ Expired(times[k], n)
        /\ IF Len(fresh) < limit
           THEN Allow(r, k, limit, fresh) ELSE Refuse(r, k, limit, fresh)
  BY <1>1 DEF Dispatch
<1> DEFINE fresh == SubSeq(times[k], n + 1, Len(times[k]))
<1>3. /\ fresh \in Times /\ Len(fresh) = Len(times[k]) - n
      /\ Len(times[k]) \in Nat /\ Len(fresh) \in Nat
      /\ Len(fresh) > 0 => ~Outside(fresh[1])
  <2>1. /\ fresh \in Times /\ Len(fresh) = Len(times[k]) - n
        /\ Len(fresh) > 0 => ~Outside(fresh[1])
    BY <1>2, DispatchEndsLog
  <2>2. QED
    BY <2>1 DEF Typed
<1>4. n = 0 => fresh = times[k]
  BY SubSeqFull DEF Typed
<1>5. \/ Allow(r, k, limit, fresh)
      \/ ~(Len(fresh) < limit) /\ Refuse(r, k, limit, fresh)
  BY <1>2
<1> HIDE DEF fresh
<1>6. ~(Len(fresh) < limit) /\ verdict'[r].key = k /\ verdict'[r].limit = limit
  <2>1. ~Allow(r, k, limit, fresh)
    <3>1. SUFFICES ASSUME Allow(r, k, limit, fresh) PROVE verdict'[r].allowed = TRUE
      BY Zenon
    <3>2. verdict'[r] = [key |-> k, limit |-> limit, allowed |-> TRUE]
      BY <3>1, Zenon DEF Allow, Verdicts
    <3>3. QED
      BY <3>2, SMT
  <2>2. verdict'[r] = [key |-> k, limit |-> limit, allowed |-> FALSE]
    BY <1>5, <2>1, Zenon DEF Refuse, Verdicts
  <2>3. QED
    BY <1>5, <2>1, <2>2
<1>7. SUFFICES ASSUME ~(clock <= due[k].at), ~(limit < due[k].limit) PROVE FALSE
  <2>1. due[k].at < due[k].header + Second
    BY DEF DueIsFirst
  <2>2. clock <= due[k].at => clock < due[k].header + Second
    BY <2>1, LimiterAssumption DEF Typed
  <2>3. QED
    BY <1>6, <2>2
<1>8. /\ limit \in 1..MaxLen /\ due[k].limit \in Nat /\ due[k].at \in Nat
      /\ due[k].limit <= MaxLen /\ due[k].limit >= 1
  BY <1>7, LimiterAssumption DEF Typed
<1>9. n = 0 /\ Len(times[k]) = due[k].limit
  BY <1>3, <1>6, <1>7, <1>8 DEF DueIsFirst
<1>10. due[k].at = times[k][1] + Window /\ ~Outside(times[k][1])
  BY <1>3, <1>4, <1>8, <1>9 DEF DueIsFirst
<1>11. times[k][1] \in Int /\ clock \in Int /\ Window \in Int
  BY <1>8, <1>9, LimiterAssumption DEF Typed
<1>12. QED
  BY <1>7, <1>8, <1>10, <1>11 DEF Outside

\* Who waits for as long as it was told, or a second longer than the header
\* says, is let through, unless another request took its place or its limit
\* is lower.
THEOREM RetryAfterSuffices == Spec => RetrySuffices
<1>1. Typed /\ Verdicts /\ DequeEndsLog /\ DueIsFirst /\ [Next]_vars =>
        [\A r \in Requests :
           verdict[r] = NoVerdict /\ verdict'[r] # NoVerdict /\ ~verdict'[r].allowed =>
             \/ /\ clock <= due[verdict'[r].key].at
                /\ clock < due[verdict'[r].key].header + Second
             \/ verdict'[r].limit < due[verdict'[r].key].limit]_vars
  BY StepRetry
<1>2. Spec => [](Typed /\ Verdicts /\ DequeEndsLog /\ DueIsFirst)
  BY InitTyped, StepTyped, StepVerdicts, InitDequeEndsLog, StepDequeEndsLog,
     InitDueIsFirst, StepDueIsFirst, PTL DEF Spec
<1>3. QED
  BY <1>1, <1>2, PTL DEF Spec, RetrySuffices

-----------------------------------------------------------------------------
(* What a limit is for *)

\* Of any L + 1 requests of a key that were let through, the last came more
\* than a window after the first.
AtMost(L) ==
  \A k \in Keys : \A i \in 1..Len(log[k]) :
    i + L <= Len(log[k]) => log[k][i + L] > log[k][i] + Window

\* The next request of a log is let through if fewer than L are within the
\* window: the L-th before it has left the window then.
LEMMA AppendSpaced ==
  ASSUME NEW L \in Nat, NEW q \in Times, NEW l \in Times, NEW d \in Nat,
         NEW now \in 0..MaxTime, EndsLog(q, l, d, now), Len(q) < L,
         \A i \in 1..Len(l) : i + L <= Len(l) => l[i + L] > l[i] + Window,
         NEW i \in 1..Len(Append(l, now)), i + L <= Len(Append(l, now))
  PROVE  Append(l, now)[i + L] > Append(l, now)[i] + Window
<1> DEFINE m == Append(l, now)
<1>1. /\ Len(m) = Len(l) + 1 /\ m[Len(l) + 1] = now
      /\ \A j \in 1..Len(l) : m[j] = l[j]
  BY DEF Times
<1>2. /\ Len(q) \in Nat /\ Len(l) \in Nat /\ Len(l) = d + Len(q)
      /\ now \in Nat /\ Window \in Nat
  BY LimiterAssumption DEF EndsLog, Times
<1>7. \A j \in 1..Len(l) : l[j] \in Int
  <2>1. MaxTime \in Nat /\ l \in Seq(0..MaxTime)
    BY LimiterAssumption DEF Times
  <2>2. QED
    BY <2>1
<1>8. i \in 1..Len(m) /\ i + L <= Len(m)
  OBVIOUS
<1> HIDE DEF m
<1>3. /\ i \in 1..Len(l) /\ i + L \in Nat /\ L > 0
      /\ (i + L <= Len(l) \/ i + L = Len(l) + 1)
  BY <1>1, <1>2, <1>8
<1>4. CASE i + L <= Len(l)
  <2>1. i + L \in 1..Len(l)
    BY <1>2, <1>3, <1>4
  <2>2. QED
    BY <1>1, <1>3, <1>4, <2>1 DEF m
<1>5. CASE i + L = Len(l) + 1
  <2>1. i \in 1..d
    BY <1>2, <1>3, <1>5
  <2>2. l[i] < now - Window
    BY <2>1 DEF EndsLog
  <2>3. m[i + L] = now /\ m[i] = l[i] /\ l[i] \in Int
    BY <1>1, <1>3, <1>5, <1>7
  <2>4. now > l[i] + Window
    BY <1>2, <2>2, <2>3
  <2>5. QED
    BY <2>3, <2>4 DEF m
<1>6. QED
  BY <1>3, <1>4, <1>5

LEMMA StepAtMost ==
  ASSUME NEW L \in Nat, \A limit \in Limits : limit <= L
  PROVE  Typed /\ DequeEndsLog /\ AtMost(L) /\ [Next]_vars => AtMost(L)'
<1> SUFFICES ASSUME Typed, DequeEndsLog, AtMost(L), [Next]_vars PROVE AtMost(L)'
  OBVIOUS
<1>1. CASE UNCHANGED log
  BY <1>1 DEF AtMost
<1>2. ASSUME NEW r \in Requests, NEW k \in Keys, NEW limit \in Limits,
             Dispatch(r, k, limit)
      PROVE  AtMost(L)'
  <2>1. PICK n \in 0..Len(times[k]) :
          LET fresh == SubSeq(times[k], n + 1, Len(times[k])) IN
          /\ Expired(times[k], n)
          /\ IF Len(fresh) < limit
             THEN Allow(r, k, limit, fresh) ELSE Refuse(r, k, limit, fresh)
    BY <1>2 DEF Dispatch
  <2> DEFINE fresh == SubSeq(times[k], n + 1, Len(times[k]))
  <2>2. fresh \in Times /\ \E d \in Nat : EndsLog(fresh, log[k], d, clock)
    BY <2>1, DispatchEndsLog
  <2>3. \/ Len(fresh) < limit /\ Allow(r, k, limit, fresh)
        \/ Refuse(r, k, limit, fresh)
    BY <2>1
  <2> HIDE DEF fresh
  <2>4. CASE Refuse(r, k, limit, fresh)
    BY <2>4, <1>1 DEF Refuse
  <2>5. CASE Len(fresh) < limit /\ Allow(r, k, limit, fresh)
    <3>1. PICK d \in Nat : EndsLog(fresh, log[k], d, clock)
      BY <2>2
    <3>2. Len(fresh) < L
      BY <2>2, <2>5, LimiterAssumption DEF Times
    <3>3. log' = [log EXCEPT ![k] = Append(log[k], clock)] /\ log[k] \in Times
      BY <2>5 DEF Allow, Typed, Times
    <3>4. \A i \in 1..Len(log[k]) :
            i + L <= Len(log[k]) => log[k][i + L] > log[k][i] + Window
      BY DEF AtMost
    <3>5. clock \in 0..MaxTime
      BY DEF Typed
    <3> DEFINE m == Append(log[k], clock)
    <3>6. \A i \in 1..Len(m) : i + L <= Len(m) => m[i + L] > m[i] + Window
      BY <2>2, <3>1, <3>2, <3>3, <3>4, <3>5, AppendSpaced
    <3>7. log'[k] = m /\ \A j \in Keys : j # k => log'[j] = log[j]
      BY <3>3 DEF Typed
    <3> HIDE DEF m
    <3>8. QED
      BY <3>6, <3>7 DEF AtMost
  <2>6. QED
    BY <2>3, <2>4, <2>5
<1>3. QED
  BY <1>1, <1>2 DEF Next, Tick, Respond, vars

\* What the limiter is there for: whatever is cleaned up when, and whichever
\* limits share a key, no stretch of time as long as the window ever holds more
\* requests of a key than the highest of the limits.
THEOREM NeverOverLimit ==
  ASSUME NEW L \in Nat, \A limit \in Limits : limit <= L
  PROVE  Spec => []AtMost(L)
<1>1. Init => AtMost(L)
  BY DEF Init, AtMost
<1>2. Typed /\ DequeEndsLog /\ AtMost(L) /\ [Next]_vars => AtMost(L)'
  BY StepAtMost
<1>3. Spec => [](Typed /\ DequeEndsLog)
  BY InitTyped, StepTyped, StepVerdicts, InitDequeEndsLog, StepDequeEndsLog, PTL
     DEF Spec
<1>4. QED
  BY <1>1, <1>2, <1>3, PTL DEF Spec
=============================================================================
