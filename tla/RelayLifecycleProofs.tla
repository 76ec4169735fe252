-------------------------- MODULE RelayLifecycleProofs --------------------------
(***************************************************************************)
(* Theorems about RelayObservers and RelayLifecycle, for every set of      *)
(* observers, topics, keys and messages, and any number of starts.         *)
(***************************************************************************)
EXTENDS RelayLifecycle, FiniteSetTheorems, FunctionTheorems, SequenceTheorems,
        WellFoundedInduction, TLAPS

-----------------------------------------------------------------------------
(* The heartbeat timer *)

Timer == [timeout : Nat, interval : Nat \cup {None}]

(* A router has a timer while it is started, and only then. *)
TimerOfStarted ==
    /\ started \in BOOLEAN /\ listeners \in Nat
    /\ timer \in Timer \cup {None}
    /\ started <=> timer # None

(* Sound, without counting: no timer, or one of the two that stop clears.   *)
OneHeld ==
    IF started THEN \E x \in Cancelled(Now) : armed = {x} ELSE armed = {}

LEMMA SoundMeans == TimerOfStarted => (Sound <=> OneHeld)
  <1> SUFFICES ASSUME TimerOfStarted PROVE Sound <=> OneHeld
    OBVIOUS
  <1>1. CASE started
    <2>1. Held = Cancelled(Now)
      BY <1>1 DEF Held, TimerOfStarted
    <2>2. IsFiniteSet(Cancelled(Now))
      <3>1. Cancelled(Now) = {Timeout(timer.timeout)} \cup {Interval(timer.interval)}
        BY DEF Cancelled, Now
      <3>2. IsFiniteSet({Timeout(timer.timeout)}) /\ IsFiniteSet({Interval(timer.interval)})
        BY FS_Singleton
      <3> QED
        BY <3>1, <3>2, FS_Union
    <2>3. ASSUME Sound PROVE OneHeld
      <3>1. IsFiniteSet(armed)
        BY <2>1, <2>2, <2>3, FS_Subset DEF Sound
      <3>2. PICK x : armed = {x}
        BY <1>1, <2>3, <3>1, FS_Singleton DEF Sound
      <3> QED
        BY <1>1, <2>1, <2>3, <3>2 DEF Sound, OneHeld
    <2>4. ASSUME OneHeld PROVE Sound
      BY <1>1, <2>1, <2>4, FS_Singleton DEF Sound, OneHeld
    <2> QED
      BY <2>3, <2>4
  <1>2. CASE ~started
    <2>1. Held = {}
      BY <1>2 DEF Held, TimerOfStarted
    <2> QED
      BY <1>2, <2>1, FS_EmptySet DEF Sound, OneHeld
  <1> QED
    BY <1>1, <1>2

(* Every step of the router and of the callbacks keeps this.                *)
LEMMA StepTimerOfStarted == TimerOfStarted /\ [LifecycleNext]_lifecycle => TimerOfStarted'
  <1> SUFFICES ASSUME TimerOfStarted, [LifecycleNext]_lifecycle
               PROVE  TimerOfStarted'
    OBVIOUS
  <1> USE ObserversAssumption, TimerAssumption DEF TimerOfStarted
  <1> DEFINE Fit(t, on) == t.timer \in Timer \cup {None} /\ (on <=> t.timer # None)
  <1>1. ASSUME NEW t, NEW n \in Nat, t.timer \in Timer \cup {None}
        PROVE  /\ Fit(Started(t, n), TRUE) /\ Fit(Stopped(t), FALSE)
               /\ Fit(Periodic(t, n), t.timer # None)
    BY <1>1 DEF Started, Stopped, Periodic, Timer
  <1>2. CASE StartRelay
    BY <1>1, <1>2 DEF StartRelay, Start, TimerStart, Becomes, Now
  <1>3. CASE StopRelay
    BY <1>1, <1>3 DEF StopRelay, Stop, TimerStop, Becomes, Now
  <1>4. ASSUME NEW n \in 1 .. MaxListeners, NEW reaction \in Reactions, Beat(n, reaction)
        PROVE  TimerOfStarted'
    <2>1. /\ started' \in BOOLEAN /\ listeners' \in Nat
          /\ reaction = "stops" => ~started'
          /\ reaction \in {"starts", "restarts"} => started'
          /\ reaction \in {"returns", "throws"} => started' = started
      <3>1. React(reaction)
        BY <1>4 DEF Beat
      <3>2. CASE reaction = "stops"
        BY <3>1, <3>2 DEF React, Stop
      <3>3. CASE reaction \in {"starts", "restarts"}
        <4>1. Start
          BY <3>1, <3>3 DEF React
        <4>2. started' = TRUE /\ listeners' = listeners + 1
          BY <4>1 DEF Start
        <4>3. listeners' \in Nat
          BY <4>2
        <4>4. reaction # "stops" /\ reaction \notin {"returns", "throws"}
          BY <3>3
        <4> QED
          BY <4>2, <4>3, <4>4, Zenon
      <3>4. CASE reaction \notin {"stops", "starts", "restarts"}
        BY <3>1, <3>4 DEF React, vars
      <3> QED
        BY <3>2, <3>3, <3>4
    <2>2. ASSUME NEW t, t.timer = timer
          PROVE  Fit(Beaten(t, reaction, listeners'), started')
      <3>1. CASE reaction = "restarts"
        <4> DEFINE s == Stopped(t)
        <4>1. s.timer \in Timer \cup {None}
          BY <2>2, <1>1
        <4> HIDE DEF s
        <4>2. Fit(Started(s, listeners'), TRUE)
          BY <4>1, <1>1, <2>1
        <4> QED
          BY <3>1, <4>2, <2>1 DEF Beaten, s
      <3>2. CASE reaction # "restarts"
        BY <2>1, <2>2, <1>1, <3>2 DEF Beaten
      <3> QED
        BY <3>1, <3>2
    <2>3. CASE FirstBeat(n, reaction, listeners')
      <3> DEFINE fired == [Now EXCEPT !.armed = @ \ {Timeout(n)}]
                 beaten == Beaten(fired, reaction, listeners')
      <3>1. fired.timer = timer
        BY DEF Now
      <3>2. Fit(beaten, started')
        BY <2>2, <3>1
      <3>3. Fit(Periodic(beaten, n), started')
        BY <3>2, <1>1
      <3>4. Fit(FirstBeaten(Now, n, reaction, listeners'), started')
        BY <2>1, <3>1, <3>3 DEF FirstBeaten
      <3> QED
        BY <2>1, <2>3, <3>4 DEF FirstBeat, Becomes
    <2>4. CASE NextBeat(n, reaction, listeners')
      <3>1. Fit(Beaten(Now, reaction, listeners'), started')
        BY <2>2 DEF Now
      <3> QED
        BY <2>1, <2>4, <3>1 DEF NextBeat, Becomes
    <2> QED
      BY <1>4, <2>3, <2>4 DEF Beat
  <1>5. CASE Delivery /\ UNCHANGED timerVars
    <2>1. UNCHANGED <<started, timer>> /\ listeners' \in {listeners, listeners + 1}
      BY <1>5 DEF Delivery, Subscribe, AddObserver, DeleteObserver, AddDecryptionKey,
                  DeleteDecryptionKey, Receive, Resolve, timerVars
    <2> QED
      BY <2>1
  <1>6. CASE UNCHANGED lifecycle
    BY <1>6 DEF lifecycle, vars, timerVars
  <1> QED
    BY <1>2, <1>3, <1>4, <1>5, <1>6 DEF LifecycleNext

(* The two steps after which there may be another number of timers.         *)
Excepted ==
    \E n \in 1 .. MaxListeners, reaction \in {"throws", "restarts"} :
        Timeout(n) \in armed /\ Beat(n, reaction)

(* What a start, a stop and the interval do to the one timer there is, in   *)
(* terms of a pair of _heartbeatTimer and the timers that will fire.        *)
One(t, on) ==
    IF on THEN \E x \in Cancelled(t) : t.armed = {x} ELSE t.armed = {}

LEMMA StartedIsOne ==
    ASSUME NEW t, NEW n, NEW on \in BOOLEAN, on <=> t.timer # None, One(t, on)
    PROVE  One(Started(t, n), TRUE)
  <1>1. CASE t.timer = None
    <2>1. /\ Started(t, n).timer.timeout = n
          /\ Started(t, n).armed = {Timeout(n)}
      BY <1>1 DEF Started, One
    <2> QED
      BY <2>1 DEF One, Cancelled
  <1>2. CASE t.timer # None
    <2>1. Started(t, n) = t /\ on = TRUE
      BY <1>2 DEF Started
    <2> QED
      BY <2>1
  <1> QED
    BY <1>1, <1>2

LEMMA StoppedIsNone ==
    ASSUME NEW t, t.timer # None, One(t, TRUE)
    PROVE  Stopped(t).timer = None /\ One(Stopped(t), FALSE)
  BY DEF Stopped, One

(* Unless it is excepted, a step keeps the one timer.                       *)
LEMMA StepOneHeld ==
    TimerOfStarted /\ TimerOfStarted' /\ OneHeld /\ [LifecycleNext]_lifecycle => OneHeld' \/ Excepted
  <1> SUFFICES ASSUME TimerOfStarted, TimerOfStarted', OneHeld, [LifecycleNext]_lifecycle, ~Excepted
               PROVE  OneHeld'
    OBVIOUS
  <1> USE ObserversAssumption, TimerAssumption
  <1>1. One(Now, started)
    BY DEF OneHeld, One, Now
  <1>2. ASSUME NEW t, Becomes(t), One(t, started')
        PROVE  OneHeld'
    BY <1>2 DEF Becomes, OneHeld, One, Now, Cancelled, Timeout, Interval
  <1>3. CASE StartRelay
    <2>1. started \in BOOLEAN /\ started' = TRUE /\ (started <=> Now.timer # None)
      BY <1>3 DEF StartRelay, Start, TimerOfStarted, Now
    <2> QED
      BY <1>1, <1>2, <1>3, <2>1, StartedIsOne DEF StartRelay, TimerStart
  <1>4. CASE StopRelay
    <2>1. Now.timer # None /\ started = TRUE /\ started' = FALSE
      BY <1>4 DEF StopRelay, Stop, TimerOfStarted, Now
    <2> QED
      BY <1>1, <1>2, <1>4, <2>1, StoppedIsNone DEF StopRelay, TimerStop
  <1>5. ASSUME NEW n \in 1 .. MaxListeners, NEW reaction \in Reactions, Beat(n, reaction)
        PROVE  OneHeld'
    <2>1. Timeout(n) \in armed \/ Interval(n) \in armed
      BY <1>5 DEF Beat, FirstBeat, NextBeat
    <2>2. started /\ Now.timer # None /\ timer \in Timer
      BY <2>1 DEF OneHeld, TimerOfStarted, Now
    <2>3. One(Stopped(Now), FALSE) /\ Stopped(Now).timer = None
      BY <1>1, <2>2, StoppedIsNone
    <2>4. CASE FirstBeat(n, reaction, listeners')
      <3> DEFINE fired == [Now EXCEPT !.armed = @ \ {Timeout(n)}]
      <3>1. Timeout(n) \in armed /\ reaction \in {"returns", "stops", "starts"}
        BY <1>5, <2>4 DEF FirstBeat, Excepted
      <3>2. fired.timer = timer /\ fired.armed = {}
        BY <3>1, <2>2 DEF OneHeld, Now
      <3>3. timer.timeout = n
        BY <3>1, <2>2 DEF OneHeld, Now, Cancelled, Timeout, Interval
      <3>4. CASE reaction \in {"returns", "starts"}
        <4>0. Started(fired, listeners') = fired
          BY <2>2, <3>2 DEF Started, Now
        <4>1. FirstBeaten(Now, n, reaction, listeners') = Periodic(fired, n)
          BY <3>4, <4>0 DEF FirstBeaten, Beaten
        <4>2. One(Periodic(fired, n), TRUE)
          <5>1. /\ Periodic(fired, n).timer.interval = n
                /\ Periodic(fired, n).armed = {Interval(n)}
            BY <2>2, <3>2 DEF Periodic, Timer, Now
          <5> QED
            BY <5>1 DEF One, Cancelled
        <4>3. started'
          BY <1>5, <3>4, <2>2 DEF Beat, React, Start, vars
        <4> QED
          BY <1>2, <2>4, <4>1, <4>2, <4>3 DEF FirstBeat
      <3>5. CASE reaction = "stops"
        <4>1. Beaten(fired, reaction, listeners') = Stopped(fired)
          BY <3>5 DEF Beaten
        <4>2. Stopped(fired).timer = None /\ Stopped(fired).armed = {}
          BY <2>2, <3>2 DEF Stopped, Now
        <4>3. FirstBeaten(Now, n, reaction, listeners') = Stopped(fired)
          BY <3>5, <4>1, <4>2 DEF FirstBeaten, Periodic
        <4>4. ~started'
          BY <1>5, <3>5 DEF Beat, React, Stop
        <4> QED
          BY <1>2, <2>4, <4>2, <4>3, <4>4 DEF FirstBeat, One
      <3> QED
        BY <3>1, <3>4, <3>5
    <2>5. CASE NextBeat(n, reaction, listeners')
      <3>1. CASE reaction = "stops"
        <4>1. started' = FALSE
          BY <1>5, <3>1 DEF Beat, React, Stop
        <4> QED
          BY <1>2, <2>3, <2>5, <3>1, <4>1 DEF NextBeat, Beaten
      <3>2. CASE reaction \in {"starts", "restarts"}
        <4>1. started' = TRUE
          BY <1>5, <3>2 DEF Beat, React, Start
        <4>2. One(Started(Stopped(Now), listeners'), TRUE)
          BY <2>3, StartedIsOne
        <4>3. One(Started(Now, listeners'), TRUE)
          BY <1>1, <2>2, StartedIsOne
        <4> QED
          BY <1>2, <2>5, <3>2, <4>1, <4>2, <4>3 DEF NextBeat, Beaten
      <3>3. CASE reaction \notin {"stops", "starts", "restarts"}
        <4>1. started' = started
          BY <1>5, <3>3 DEF Beat, React, vars
        <4> QED
          BY <1>1, <1>2, <2>5, <3>3, <4>1 DEF NextBeat, Beaten
      <3> QED
        BY <3>1, <3>2, <3>3
    <2> QED
      BY <1>5, <2>4, <2>5 DEF Beat
  <1>6. CASE (Delivery /\ UNCHANGED timerVars) \/ UNCHANGED lifecycle
    <2>1. UNCHANGED <<started, timer, armed>>
      BY <1>6 DEF Delivery, Subscribe, AddObserver, DeleteObserver, AddDecryptionKey, DeleteDecryptionKey,
                  Receive, Resolve, timerVars, lifecycle, vars
    <2> QED
      BY <1>1, <1>2, <2>1 DEF Becomes, Now
  <1> QED
    BY <1>3, <1>4, <1>5, <1>6 DEF LifecycleNext

(* The one timer of a router that runs survives every step but the two in   *)
(* which the callback of the timeout outlives what it was started for       *)
(* (relay_heartbeat.ts, start and stop), however often it is started.       *)
THEOREM TimersStaySound == LifecycleSpec => OneTimer
  <1>1. LifecycleInit => TimerOfStarted
    <2> SUFFICES ASSUME LifecycleInit PROVE TimerOfStarted
      OBVIOUS
    <2>1. started = FALSE /\ listeners = 0 /\ timer = None
      BY DEF LifecycleInit, Init, TimerInit
    <2> QED
      BY <2>1 DEF TimerOfStarted
  <1>2. LifecycleSpec => []TimerOfStarted
    BY <1>1, StepTimerOfStarted, PTL DEF LifecycleSpec
  <1>3. TimerOfStarted /\ TimerOfStarted' /\ [LifecycleNext]_lifecycle
            => [Sound => Sound' \/ Excepted]_lifecycle
    <2>1. TimerOfStarted' => (Sound' <=> OneHeld')
      BY SoundMeans, PTL
    <2> QED
      BY <2>1, SoundMeans, StepOneHeld
  <1>4. OneTimer <=> [][Sound => Sound' \/ Excepted]_lifecycle
    BY PTL DEF OneTimer, Excepted
  <1> QED
    BY <1>2, <1>3, <1>4, PTL DEF LifecycleSpec

-----------------------------------------------------------------------------
(* How often something is in a sequence *)

LEMMA TimesFinite ==
    ASSUME NEW S, NEW s \in Seq(S), NEW x
    PROVE  IsFiniteSet({n \in DOMAIN s : s[n] = x}) /\ Times(s, x) \in Nat
  <1>1. DOMAIN s = 1 .. Len(s) /\ Len(s) \in Nat
    BY LenProperties
  <1>2. IsFiniteSet(DOMAIN s)
    BY <1>1, FS_Interval
  <1>3. IsFiniteSet({n \in DOMAIN s : s[n] = x})
    BY <1>2, FS_Subset
  <1> QED
    BY <1>3, FS_CardinalityType DEF Times

(* The places in a second sequence are moved by the length of the first.    *)
LEMMA TimesConcat ==
    ASSUME NEW S, NEW s \in Seq(S), NEW t \in Seq(S), NEW x
    PROVE  Times(s \o t, x) = Times(s, x) + Times(t, x)
  <1> DEFINE A == {n \in DOMAIN s : s[n] = x}
             T == {n \in DOMAIN t : t[n] = x}
             B == {n + Len(s) : n \in T}
  <1>1. /\ DOMAIN s = 1 .. Len(s) /\ DOMAIN t = 1 .. Len(t)
        /\ Len(s) \in Nat /\ Len(t) \in Nat
    BY LenProperties
  <1>2. /\ s \o t \in Seq(S) /\ Len(s \o t) = Len(s) + Len(t)
        /\ \A i \in 1 .. Len(s) + Len(t) :
              (s \o t)[i] = IF i <= Len(s) THEN s[i] ELSE t[i - Len(s)]
    BY ConcatProperties, Zenon
  <1>3. {n \in DOMAIN (s \o t) : (s \o t)[n] = x} = A \cup B
    <2>1. DOMAIN (s \o t) = 1 .. Len(s) + Len(t)
      BY <1>2, LenProperties
    <2>2. ASSUME NEW n \in 1 .. Len(s) + Len(t)
          PROVE  (s \o t)[n] = x <=> n \in A \cup B
      <3>1. CASE n <= Len(s)
        <4>1. n \notin B
          BY <1>1, <3>1
        <4> QED
          BY <1>1, <1>2, <3>1, <4>1
      <3>2. CASE n > Len(s)
        <4>1. n - Len(s) \in DOMAIN t /\ n = (n - Len(s)) + Len(s) /\ n \notin DOMAIN s
          BY <1>1, <3>2
        <4>2. n \in B <=> t[n - Len(s)] = x
          <5>1. ASSUME n \in B PROVE t[n - Len(s)] = x
            <6>1. PICK m \in T : n = m + Len(s)
              BY <5>1
            <6>2. m = n - Len(s)
              BY <1>1, <6>1
            <6> QED
              BY <6>1, <6>2
          <5> QED
            BY <4>1, <5>1
        <4> QED
          BY <1>1, <1>2, <3>2, <4>1, <4>2
      <3> QED
        BY <1>1, <3>1, <3>2
    <2>3. A \cup B \subseteq 1 .. Len(s) + Len(t)
      BY <1>1
    <2> QED
      BY <2>1, <2>2, <2>3
  <1>4. IsFiniteSet(A) /\ IsFiniteSet(T) /\ Cardinality(A) \in Nat /\ Cardinality(T) \in Nat
    BY TimesFinite DEF Times
  <1>5. IsFiniteSet(B) /\ Cardinality(B) = Cardinality(T)
    <2> DEFINE f == [n \in T |-> n + Len(s)]
    <2>1. f \in [T -> B] /\ (\A a, b \in T : f[a] = f[b] => a = b) /\ \A m \in B : \E n \in T : f[n] = m
      BY <1>1
    <2>2. f \in Bijection(T, B)
      BY <2>1, Fun_IsBij
    <2>3. ExistsBijection(T, B)
      BY <2>2 DEF ExistsBijection
    <2> QED
      BY <1>4, <2>3, FS_Bijection
  <1>6. A \cap B = {}
    BY <1>1
  <1>7. Cardinality(A \cup B) = Cardinality(A) + Cardinality(T)
    <2>1. Cardinality(A \cup B) = Cardinality(A) + Cardinality(B) - Cardinality(A \cap B)
      BY <1>4, <1>5, FS_Union
    <2>2. Cardinality(A \cap B) = 0
      BY <1>6, FS_EmptySet
    <2> QED
      BY <1>4, <1>5, <2>1, <2>2
  <1> QED
    BY <1>3, <1>7 DEF Times

LEMMA TimesInjective ==
    ASSUME NEW S, NEW s \in Seq(S), IsInjective(s), NEW x
    PROVE  Times(s, x) \in {0, 1}
  <1> DEFINE A == {n \in DOMAIN s : s[n] = x}
  <1>1. IsFiniteSet(A)
    BY TimesFinite
  <1>2. CASE A = {}
    BY <1>2, FS_EmptySet DEF Times
  <1>3. CASE A # {}
    <2>1. \E n : A = {n}
      BY <1>3 DEF IsInjective
    <2> QED
      BY <1>1, <2>1, FS_Singleton DEF Times
  <1> QED
    BY <1>2, <1>3

(* The first elements hold nothing more often than all of them.             *)
LEMMA TimesPrefix ==
    ASSUME NEW S, NEW s \in Seq(S), NEW n \in 0 .. Len(s), NEW x
    PROVE  SubSeq(s, 1, n) \in Seq(S) /\ Times(SubSeq(s, 1, n), x) <= Times(s, x)
  <1>1. DOMAIN s = 1 .. Len(s) /\ Len(s) \in Nat /\ \A i \in 1 .. Len(s) : s[i] \in S
    BY LenProperties, ElementOfSeq
  <1>2. /\ SubSeq(s, 1, n) \in Seq(S) /\ Len(SubSeq(s, 1, n)) = n
        /\ \A i \in 1 .. n : SubSeq(s, 1, n)[i] = s[i]
    <2>1. n \in Int /\ 1 \in Int /\ \A i \in 1 .. n : s[i] \in S
      BY <1>1
    <2>2. /\ SubSeq(s, 1, n) \in Seq(S)
          /\ Len(SubSeq(s, 1, n)) = IF 1 <= n THEN n - 1 + 1 ELSE 0
          /\ \A i \in 1 .. n - 1 + 1 : SubSeq(s, 1, n)[i] = s[1 + i - 1]
      BY <2>1, SubSeqProperties, SMT
    <2> QED
      BY <1>1, <2>2
  <1>3. DOMAIN SubSeq(s, 1, n) = 1 .. n
    BY <1>2, LenProperties
  <1>4. {i \in DOMAIN SubSeq(s, 1, n) : SubSeq(s, 1, n)[i] = x} \subseteq {i \in DOMAIN s : s[i] = x}
    BY <1>1, <1>2, <1>3
  <1>5. IsFiniteSet({i \in DOMAIN s : s[i] = x})
    BY TimesFinite
  <1>6. Times(SubSeq(s, 1, n), x) <= Times(s, x)
    BY <1>4, <1>5, FS_Subset DEF Times
  <1> QED
    BY <1>2, <1>6

LEMMA TimesConstant ==
    ASSUME NEW S, NEW s \in Seq(S), NEW i, \A n \in 1 .. Len(s) : s[n] = i, NEW x
    PROVE  (x = i => Times(s, x) = Len(s)) /\ (x # i => Times(s, x) = 0)
  <1>1. DOMAIN s = 1 .. Len(s) /\ Len(s) \in Nat
    BY LenProperties
  <1>2. CASE x = i
    <2>1. {n \in DOMAIN s : s[n] = x} = 1 .. Len(s)
      BY <1>1, <1>2
    <2>2. Cardinality(1 .. Len(s)) = Len(s)
      BY <1>1, FS_Interval
    <2> QED
      BY <1>2, <2>1, <2>2 DEF Times
  <1>3. CASE x # i
    <2>1. {n \in DOMAIN s : s[n] = x} = {}
      BY <1>1, <1>3
    <2> QED
      BY <1>3, <2>1, FS_EmptySet DEF Times
  <1> QED
    BY <1>2, <1>3

-----------------------------------------------------------------------------
(* The sets of observers, and whom a message reaches *)

LEMMA AddKeepsSet ==
    ASSUME NEW S, NEW s \in Seq(S), IsInjective(s), NEW x \in S
    PROVE  Add(s, x) \in Seq(S) /\ IsInjective(Add(s, x))
  <1>1. CASE x \in ToSet(s)
    BY <1>1 DEF Add
  <1>2. CASE x \notin ToSet(s)
    <2>1. /\ Add(s, x) \in Seq(S) /\ DOMAIN Add(s, x) = 1 .. Len(s) + 1
          /\ \A i \in 1 .. Len(s) : Add(s, x)[i] = s[i]
          /\ Add(s, x)[Len(s) + 1] = x
      BY <1>2, AppendProperties DEF Add
    <2>2. DOMAIN s = 1 .. Len(s) /\ Len(s) \in Nat /\ \A i \in 1 .. Len(s) : s[i] # x
      BY <1>2, LenProperties DEF ToSet
    <2> QED
      BY <2>1, <2>2 DEF IsInjective
  <1> QED
    BY <1>1, <1>2

LEMMA DeleteKeepsSet ==
    ASSUME NEW S, NEW s \in Seq(S), IsInjective(s), NEW x
    PROVE  Delete(s, x) \in Seq(S) /\ IsInjective(Delete(s, x))
  <1>1. CASE x \notin ToSet(s)
    BY <1>1 DEF Delete
  <1>2. CASE x \in ToSet(s)
    <2> DEFINE k == CHOOSE n \in DOMAIN s : s[n] = x
               front == SubSeq(s, 1, k - 1)
               back == SubSeq(s, k + 1, Len(s))
    <2>1. DOMAIN s = 1 .. Len(s) /\ Len(s) \in Nat /\ \A i \in 1 .. Len(s) : s[i] \in S
      BY LenProperties, ElementOfSeq
    <2>2. k \in 1 .. Len(s)
      BY <1>2, <2>1 DEF ToSet
    <2>3. Delete(s, x) = front \o back
      BY <1>2 DEF Delete, RemoveAt
    <2> HIDE DEF k
    <2>4. /\ front \in Seq(S) /\ Len(front) = k - 1 /\ \A i \in 1 .. k - 1 : front[i] = s[i]
          /\ back \in Seq(S) /\ Len(back) = Len(s) - k
          /\ \A i \in 1 .. Len(s) - k : back[i] = s[k + i]
      <3>1. /\ k - 1 \in Int /\ k + 1 \in Int /\ Len(s) \in Int /\ 1 \in Int
            /\ \A i \in 1 .. k - 1 : s[i] \in S
            /\ \A i \in k + 1 .. Len(s) : s[i] \in S
        BY <2>1, <2>2
      <3>2. /\ front \in Seq(S) /\ Len(front) = IF 1 <= k - 1 THEN (k - 1) - 1 + 1 ELSE 0
            /\ \A i \in 1 .. (k - 1) - 1 + 1 : front[i] = s[1 + i - 1]
        BY <3>1, SubSeqProperties, SMT
      <3>3. /\ back \in Seq(S)
            /\ Len(back) = IF k + 1 <= Len(s) THEN Len(s) - (k + 1) + 1 ELSE 0
            /\ \A i \in 1 .. Len(s) - (k + 1) + 1 : back[i] = s[(k + 1) + i - 1]
        BY <3>1, SubSeqProperties, SMT
      <3> HIDE DEF front, back
      <3>4. Len(front) = k - 1 /\ Len(back) = Len(s) - k
        <4>1. Len(front) = IF 1 <= k - 1 THEN (k - 1) - 1 + 1 ELSE 0
          BY <3>2
        <4>2. Len(back) = IF k + 1 <= Len(s) THEN Len(s) - (k + 1) + 1 ELSE 0
          BY <3>3
        <4>3. k \in 1 .. Len(s) /\ Len(s) \in Nat
          BY <2>1, <2>2
        <4> QED
          BY <4>1, <4>2, <4>3
      <3>5. ASSUME NEW i \in 1 .. k - 1 PROVE front[i] = s[i]
        <4>1. i \in 1 .. (k - 1) - 1 + 1 /\ 1 + i - 1 = i
          BY <2>2
        <4>2. front[i] = s[1 + i - 1]
          BY <4>1, <3>2
        <4> QED
          BY <4>1, <4>2
      <3>6. ASSUME NEW i \in 1 .. Len(s) - k PROVE back[i] = s[k + i]
        <4>1. i \in 1 .. Len(s) - (k + 1) + 1 /\ (k + 1) + i - 1 = k + i
          BY <2>1, <2>2
        <4>2. back[i] = s[(k + 1) + i - 1]
          BY <4>1, <3>3
        <4> QED
          BY <4>1, <4>2
      <3> QED
        BY <3>2, <3>3, <3>4, <3>5, <3>6
    <2> HIDE DEF front, back
    <2>5. /\ front \o back \in Seq(S) /\ Len(front \o back) = Len(s) - 1
          /\ \A i \in 1 .. Len(s) - 1 : (front \o back)[i] = IF i < k THEN s[i] ELSE s[i + 1]
      <3>1. /\ front \o back \in Seq(S) /\ Len(front \o back) = Len(front) + Len(back)
            /\ \A i \in 1 .. Len(front) + Len(back) : (front \o back)[i] =
                   IF i <= Len(front) THEN front[i] ELSE back[i - Len(front)]
        BY <2>4, ConcatProperties, Zenon
      <3>2. Len(front) + Len(back) = Len(s) - 1
        BY <2>1, <2>2, <2>4
      <3>3. ASSUME NEW i \in 1 .. Len(s) - 1
            PROVE  (front \o back)[i] = IF i < k THEN s[i] ELSE s[i + 1]
        <4>1. CASE i < k
          <5>1. i \in 1 .. k - 1 /\ i <= Len(front)
            BY <2>2, <2>4, <4>1
          <5>2. (front \o back)[i] = front[i]
            BY <3>1, <3>2, <5>1
          <5> QED
            BY <2>4, <4>1, <5>1, <5>2
        <4>2. CASE i >= k
          <5>1. /\ i - Len(front) \in 1 .. Len(s) - k /\ ~(i <= Len(front))
                /\ k + (i - Len(front)) = i + 1 /\ ~(i < k)
            BY <2>1, <2>2, <2>4, <4>2
          <5>2. (front \o back)[i] = back[i - Len(front)]
            BY <3>1, <3>2, <5>1
          <5>3. back[i - Len(front)] = s[k + (i - Len(front))]
            BY <2>4, <5>1
          <5>4. (front \o back)[i] = s[i + 1]
            BY <5>1, <5>2, <5>3, Zenon
          <5> QED
            BY <5>1, <5>4
        <4>3. i < k \/ i >= k
          BY <2>1, <2>2
        <4> QED
          BY <4>1, <4>2, <4>3, Zenon
      <3> QED
        BY <3>1, <3>2, <3>3
    <2>6. DOMAIN (front \o back) = 1 .. Len(s) - 1
      BY <2>5, LenProperties
    <2>7. IsInjective(front \o back)
      <3> DEFINE At(i) == IF i < k THEN i ELSE i + 1
      <3>1. \A i \in 1 .. Len(s) - 1 : At(i) \in 1 .. Len(s) /\ (front \o back)[i] = s[At(i)]
        BY <2>1, <2>2, <2>5
      <3>2. \A i, j \in 1 .. Len(s) - 1 : At(i) = At(j) => i = j
        BY <2>1, <2>2
      <3> HIDE DEF At
      <3> QED
        BY <2>1, <2>6, <3>1, <3>2 DEF IsInjective
    <2> QED
      BY <2>3, <2>5, <2>7
  <1> QED
    BY <1>1, <1>2

(* A set of numbers that is not empty has a least one.                      *)
LEMMA LeastOfNaturals ==
    ASSUME NEW A \in SUBSET Nat, A # {}
    PROVE  \E n \in A : \A m \in A : n <= m
  <1>1. \E n \in A : \A m \in A : <<m, n>> \notin OpToRel(<, Nat)
    BY NatLessThanWellFounded, WFMin
  <1>2. PICK n \in A : \A m \in A : <<m, n>> \notin OpToRel(<, Nat)
    BY <1>1
  <1>3. \A m \in A : ~(m < n)
    BY <1>2 DEF OpToRel
  <1> QED
    BY <1>3

(* An observer that throws only shortens the list.                          *)
LEMMA UntilThrowPrefix ==
    ASSUME NEW S, NEW cbs \in Seq(S), NEW x
    PROVE  UntilThrow(cbs) \in Seq(S) /\ Times(UntilThrow(cbs), x) <= Times(cbs, x)
  <1>1. CASE \E n \in DOMAIN cbs : cbs[n] \in Throwing
    <2> DEFINE First(n) == cbs[n] \in Throwing /\ \A m \in 1 .. n - 1 : cbs[m] \notin Throwing
               k == CHOOSE n \in DOMAIN cbs : First(n)
    <2>1. DOMAIN cbs = 1 .. Len(cbs) /\ Len(cbs) \in Nat
      BY LenProperties
    <2>2. \E n \in DOMAIN cbs : First(n)
      <3> DEFINE At == {n \in 1 .. Len(cbs) : cbs[n] \in Throwing}
      <3>1. At \subseteq Nat /\ At # {}
        BY <1>1, <2>1
      <3>2. PICK n \in At : \A m \in At : n <= m
        BY <3>1, LeastOfNaturals
      <3>3. First(n)
        BY <2>1, <3>2
      <3> QED
        BY <2>1, <3>3
    <2>3. k \in 0 .. Len(cbs)
      BY <2>1, <2>2
    <2>4. UntilThrow(cbs) = SubSeq(cbs, 1, k)
      BY <1>1 DEF UntilThrow
    <2> QED
      BY <2>3, <2>4, TimesPrefix
  <1>2. CASE ~\E n \in DOMAIN cbs : cbs[n] \in Throwing
    <2>1. UntilThrow(cbs) = cbs
      BY <1>2 DEF UntilThrow
    <2>2. Times(cbs, x) \in Nat
      BY TimesFinite
    <2> QED
      BY <2>1, <2>2
  <1> QED
    BY <1>1, <1>2

-----------------------------------------------------------------------------
(* The steps of the router, as to what they do to a delivery *)

Received == [topic : ContentTopic \cup {NoTopic}, lock : Key \cup {Clear}, keys : SUBSET Key]

ObserversFit(obs) ==
    obs \in [Slot -> Seq(Callback)] /\ \A s \in Slot : IsInjective(obs[s])

Shape ==
    /\ started \in BOOLEAN /\ listeners \in 0 .. MaxListeners
    /\ ObserversFit(observers)
    /\ keys \subseteq Key
    /\ received \in Seq(Received) /\ Len(received) <= MaxMessages
    /\ \A i \in DOMAIN received : [topic |-> received[i].topic, lock |-> received[i].lock] \in Sent
    /\ jobs \subseteq (1 .. Len(received)) \X (1 .. listeners)
    /\ calls \in [Callback -> Seq(1 .. Len(received))]

(* A start, by whom ever, or a subscribe on its own. *)
Registers ==
    /\ listeners < MaxListeners /\ listeners' = listeners + 1
    /\ started' \in BOOLEAN
    /\ UNCHANGED <<observers, keys, received, jobs, calls>>

(* Nothing is received or delivered. *)
Quiet ==
    /\ started' \in BOOLEAN /\ keys' \subseteq Key /\ ObserversFit(observers')
    /\ UNCHANGED <<listeners, received, jobs, calls>>

DeliveryStep ==
    \/ Registers \/ Quiet
    \/ \E m \in Sent : Receive(m)
    \/ \E job \in jobs : Resolve(job)

LEMMA ObserversStayFit ==
    ASSUME Shape, NEW cb \in Callback, NEW slots,
           AddObserver(cb, slots) \/ DeleteObserver(cb, slots)
    PROVE  Quiet
  <1>1. \A s \in Slot : observers[s] \in Seq(Callback) /\ IsInjective(observers[s])
    BY DEF Shape, ObserversFit
  <1>2. CASE AddObserver(cb, slots)
    <2>1. \A s \in Slot : Add(observers[s], cb) \in Seq(Callback) /\ IsInjective(Add(observers[s], cb))
      BY <1>1, AddKeepsSet
    <2>2. ObserversFit(observers')
      BY <1>1, <1>2, <2>1 DEF AddObserver, ObserversFit
    <2> QED
      BY <1>2, <2>2 DEF AddObserver, Shape, Quiet
  <1>3. CASE DeleteObserver(cb, slots)
    <2>1. \A s \in Slot :
             Delete(observers[s], cb) \in Seq(Callback) /\ IsInjective(Delete(observers[s], cb))
      BY <1>1, DeleteKeepsSet
    <2>2. ObserversFit(observers')
      BY <1>1, <1>3, <2>1 DEF DeleteObserver, ObserversFit
    <2> QED
      BY <1>3, <2>2 DEF DeleteObserver, Shape, Quiet
  <1> QED
    BY <1>2, <1>3

LEMMA DeliveryActions == Shape /\ Delivery => DeliveryStep
  <1> SUFFICES ASSUME Shape, Delivery PROVE DeliveryStep
    OBVIOUS
  <1>1. ASSUME NEW cb \in Callback, NEW slots \in (SUBSET Slot) \ {{}},
               AddObserver(cb, slots) \/ DeleteObserver(cb, slots)
        PROVE  DeliveryStep
    BY <1>1, ObserversStayFit DEF DeliveryStep
  <1>2. ASSUME NEW k \in Key, AddDecryptionKey(k) \/ DeleteDecryptionKey(k)
        PROVE  DeliveryStep
    BY <1>2 DEF AddDecryptionKey, DeleteDecryptionKey, Shape, Quiet, DeliveryStep
  <1>3. CASE Subscribe
    BY <1>3 DEF Subscribe, Shape, Registers, DeliveryStep
  <1> QED
    BY <1>1, <1>2, <1>3 DEF Delivery, DeliveryStep

LEMMA ObserverSteps == Shape /\ [Next]_vars => DeliveryStep
  <1> SUFFICES ASSUME Shape, [Next]_vars PROVE DeliveryStep
    OBVIOUS
  <1>1. CASE Start
    BY <1>1 DEF Start, Registers, DeliveryStep
  <1>2. CASE Stop \/ UNCHANGED vars
    BY <1>2 DEF Stop, vars, Shape, Quiet, DeliveryStep
  <1> QED
    BY <1>1, <1>2, DeliveryActions DEF Next, Delivery

LEMMA LifecycleSteps == Shape /\ [LifecycleNext]_lifecycle => DeliveryStep
  <1> SUFFICES ASSUME Shape, [LifecycleNext]_lifecycle PROVE DeliveryStep
    OBVIOUS
  <1>1. CASE Start \/ Stop \/ UNCHANGED vars
    BY <1>1, ObserverSteps DEF Next
  <1>2. ASSUME NEW reaction \in Reactions, React(reaction)
        PROVE  DeliveryStep
    <2>1. Start \/ Stop \/ UNCHANGED vars
      BY <1>2 DEF React
    <2> QED
      BY <1>1, <2>1
  <1> QED
    BY <1>1, <1>2, DeliveryActions DEF LifecycleNext, StartRelay, StopRelay, Beat, lifecycle

(* Where a decode that resolves leaves the calls of an observer: a number   *)
(* of times the same message, two at most, at the end.                      *)
LEMMA ResolveEffect ==
    ASSUME Shape, NEW job \in jobs, Resolve(job), NEW cb \in Callback
    PROVE  \E k \in 0 .. 2 :
              /\ k > 0 => Opens(job[1])
              /\ calls'[cb] \in Seq(1 .. Len(received))
              /\ Len(calls'[cb]) = Len(calls[cb]) + k
              /\ \A n \in 1 .. Len(calls'[cb]) :
                    calls'[cb][n] = IF n <= Len(calls[cb]) THEN calls[cb][n] ELSE job[1]
              /\ \A x : Times(calls'[cb], x) = Times(calls[cb], x) + IF x = job[1] THEN k ELSE 0
  <1> DEFINE N == 1 .. Len(received)
  <1>0. PICK i : i = job[1]
    OBVIOUS
  <1>1. i \in N /\ calls[cb] \in Seq(N)
    BY <1>0 DEF Shape
  <1>2. ASSUME NEW k \in 0 .. 2, NEW more, more = [n \in 1 .. k |-> i],
               k > 0 => Opens(i), calls'[cb] = calls[cb] \o more
        PROVE  /\ calls'[cb] \in Seq(N) /\ Len(calls'[cb]) = Len(calls[cb]) + k
               /\ \A n \in 1 .. Len(calls'[cb]) :
                     calls'[cb][n] = IF n <= Len(calls[cb]) THEN calls[cb][n] ELSE i
               /\ \A x : Times(calls'[cb], x) = Times(calls[cb], x) + IF x = i THEN k ELSE 0
    <2>1. more \in Seq(N) /\ Len(more) = k /\ \A n \in 1 .. k : more[n] = i
      BY <1>1, <1>2
    <2>2. /\ calls[cb] \o more \in Seq(N) /\ Len(calls[cb] \o more) = Len(calls[cb]) + Len(more)
          /\ \A n \in 1 .. Len(calls[cb]) + Len(more) : (calls[cb] \o more)[n] =
                 IF n <= Len(calls[cb]) THEN calls[cb][n] ELSE more[n - Len(calls[cb])]
      BY <1>1, <2>1, ConcatProperties, Zenon
    <2>3. ASSUME NEW x
          PROVE  Times(calls'[cb], x) = Times(calls[cb], x) + IF x = i THEN k ELSE 0
      <3>1. Times(calls[cb] \o more, x) = Times(calls[cb], x) + Times(more, x)
        BY <1>1, <2>1, TimesConcat, Zenon
      <3>3. (x = i => Times(more, x) = k) /\ (x # i => Times(more, x) = 0)
        BY <2>1, TimesConstant, Zenon
      <3> QED
        BY <1>2, <3>1, <3>3
    <2>5. Len(calls[cb]) \in Nat
      <3>1. DOMAIN calls[cb] = 1 .. Len(calls[cb]) /\ Len(calls[cb]) \in Nat
        BY <1>1, LenProperties
      <3> QED
        BY <3>1
    <2>6. ASSUME NEW n \in 1 .. Len(calls'[cb])
          PROVE  calls'[cb][n] = IF n <= Len(calls[cb]) THEN calls[cb][n] ELSE i
      BY <1>2, <2>1, <2>2, <2>5
    <2> QED
      BY <1>2, <2>1, <2>2, <2>3, <2>6
  <1>3. CASE ~Opens(i)
    <2> DEFINE more == [n \in 1 .. 0 |-> i]
    <2>1. calls'[cb] = calls[cb] \o more
      <3>1. more = <<>>
        OBVIOUS
      <3>2. calls'[cb] = calls[cb]
        BY <1>0, <1>3 DEF Resolve
      <3> QED
        BY <1>1, <3>1, <3>2, ConcatEmptySeq
    <2>2. more = [n \in 1 .. 0 |-> i] /\ 0 \in 0 .. 2 /\ ~(0 > 0)
      OBVIOUS
    <2> HIDE DEF more
    <2> WITNESS 0 \in 0 .. 2
    <2> QED
      BY <1>0, <1>2, <2>1, <2>2
  <1>4. CASE Opens(i)
    <2> DEFINE called == UntilThrow(CalledFor(i))
               k == Times(called, cb)
               more == [n \in 1 .. k |-> i]
               second == IF received[i].topic = NoTopic THEN <<>> ELSE observers[received[i].topic]
    <2>1. observers[All] \in Seq(Callback) /\ Times(observers[All], cb) \in {0, 1}
      BY TimesInjective DEF Shape, ObserversFit, Slot
    <2>2. second \in Seq(Callback) /\ Times(second, cb) \in {0, 1}
      <3>1. CASE received[i].topic = NoTopic
        <4>1. second = <<>> /\ second \in Seq(Callback) /\ IsInjective(second)
          BY <3>1 DEF IsInjective
        <4> QED
          BY <4>1, TimesInjective
      <3>2. CASE received[i].topic # NoTopic
        <4>1. received[i] \in Received
          BY <1>1, ElementOfSeq DEF Shape
        <4>2. received[i].topic \in Slot
          BY <3>2, <4>1 DEF Received, Slot
        <4> QED
          BY <3>2, <4>2, TimesInjective DEF Shape, ObserversFit
      <3> QED
        BY <3>1, <3>2
    <2>3. CalledFor(i) = observers[All] \o second
      BY DEF CalledFor
    <2> HIDE DEF second
    <2>4. CalledFor(i) \in Seq(Callback) /\ Times(CalledFor(i), cb) \in 0 .. 2
      <3>1. Times(CalledFor(i), cb) = Times(observers[All], cb) + Times(second, cb)
        <4>1. Times(observers[All] \o second, cb) = Times(observers[All], cb) + Times(second, cb)
          BY <2>1, <2>2, TimesConcat, Zenon
        <4> QED
          BY <2>3, <4>1
      <3>2. CalledFor(i) \in Seq(Callback)
        BY <2>1, <2>2, <2>3, ConcatProperties
      <3> QED
        BY <2>1, <2>2, <3>1, <3>2
    <2>5. called \in Seq(Callback) /\ k <= Times(CalledFor(i), cb)
      BY <2>4, UntilThrowPrefix
    <2>6. k \in 0 .. 2
      <3>1. k \in Nat
        BY <2>5, TimesFinite, Zenon
      <3> HIDE DEF k
      <3> QED
        BY <2>4, <2>5, <3>1
    <2>7. calls'[cb] = calls[cb] \o more
      BY <1>0, <1>4 DEF Resolve
    <2>8. more = [n \in 1 .. k |-> i]
      OBVIOUS
    <2> HIDE DEF more, k
    <2> QED
      BY <1>0, <1>2, <1>4, <2>6, <2>7, <2>8
  <1> QED
    BY <1>3, <1>4

-----------------------------------------------------------------------------
(* The inductive invariant of the delivery *)

(* What an observer saw unencrypted is no later than what is still decoded. *)
ClearBeforePending ==
    \A cb \in Callback : \A n \in 1 .. Len(calls[cb]) : \A j \in jobs :
        received[calls[cb][n]].lock = Clear /\ received[j[1]].lock = Clear => calls[cb][n] <= j[1]

DeliveryInv == Shape /\ KeysAtReceipt /\ ClearBeforePending /\ ClearInOrder /\ CallsBounded

LEMMA ShapeFacts ==
    ASSUME Shape
    PROVE  /\ DOMAIN received = 1 .. Len(received) /\ Len(received) \in Nat /\ listeners \in Nat
           /\ \A cb \in Callback :
                 /\ calls[cb] \in Seq(1 .. Len(received)) /\ Len(calls[cb]) \in Nat
                 /\ DOMAIN calls[cb] = 1 .. Len(calls[cb])
                 /\ \A n \in 1 .. Len(calls[cb]) : calls[cb][n] \in 1 .. Len(received)
           /\ \A j \in jobs : j[1] \in 1 .. Len(received)
  <1>1. received \in Seq(Received) /\ listeners \in Nat
    BY ObserversAssumption DEF Shape
  <1>2. DOMAIN received = 1 .. Len(received) /\ Len(received) \in Nat
    BY <1>1, LenProperties
  <1>3. ASSUME NEW cb \in Callback
        PROVE  /\ calls[cb] \in Seq(1 .. Len(received)) /\ Len(calls[cb]) \in Nat
               /\ DOMAIN calls[cb] = 1 .. Len(calls[cb])
               /\ \A n \in 1 .. Len(calls[cb]) : calls[cb][n] \in 1 .. Len(received)
    <2>1. calls[cb] \in Seq(1 .. Len(received))
      BY DEF Shape
    <2> QED
      BY <2>1, LenProperties, ElementOfSeq
  <1>4. \A j \in jobs : j[1] \in 1 .. Len(received)
    BY DEF Shape
  <1> QED
    BY <1>1, <1>2, <1>3, <1>4

(* What the event of a message does to the record of the messages. *)
LEMMA ReceiveEffect ==
    ASSUME Shape, NEW m \in Sent, Receive(m)
    PROVE  /\ Len(received') = Len(received) + 1 /\ received' \in Seq(Received)
           /\ DOMAIN received' = 1 .. Len(received) + 1
           /\ \A i \in 1 .. Len(received) : received'[i] = received[i]
           /\ received'[Len(received) + 1] = [topic |-> m.topic, lock |-> m.lock, keys |-> keys]
  <1> DEFINE new == [topic |-> m.topic, lock |-> m.lock, keys |-> keys]
  <1>1. m \in [topic : ContentTopic \cup {NoTopic}, lock : Key \cup {Clear}]
    BY ObserversAssumption
  <1>2. new \in Received /\ received \in Seq(Received)
    BY <1>1 DEF Shape, Received
  <1>3. received' = Append(received, new)
    BY DEF Receive
  <1> HIDE DEF new
  <1> QED
    BY <1>2, <1>3, AppendProperties, ShapeFacts DEF new

LEMMA StepShape == Shape /\ DeliveryStep => Shape'
  <1> SUFFICES ASSUME Shape, DeliveryStep PROVE Shape'
    OBVIOUS
  <1>1. CASE Registers
    BY <1>1, ObserversAssumption DEF Registers, Shape
  <1>2. CASE Quiet
    BY <1>2 DEF Quiet, Shape
  <1>3. ASSUME NEW m \in Sent, Receive(m)
        PROVE  Shape'
    <2>1. \A i \in DOMAIN received' :
             [topic |-> received'[i].topic, lock |-> received'[i].lock] \in Sent
      <3>1. [topic |-> m.topic, lock |-> m.lock] = m
        BY ObserversAssumption
      <3>2. Len(received) \in Nat /\ DOMAIN received = 1 .. Len(received)
        BY ShapeFacts
      <3>3. /\ DOMAIN received' = 1 .. Len(received) + 1
            /\ \A i \in 1 .. Len(received) : received'[i] = received[i]
            /\ received'[Len(received) + 1] = [topic |-> m.topic, lock |-> m.lock, keys |-> keys]
        BY <1>3, ReceiveEffect
      <3>4. /\ received'[Len(received) + 1].topic = m.topic
            /\ received'[Len(received) + 1].lock = m.lock
        BY <3>3
      <3>5. \A i \in 1 .. Len(received) + 1 : i \in 1 .. Len(received) \/ i = Len(received) + 1
        BY <3>2
      <3> QED
        BY <3>1, <3>2, <3>3, <3>4, <3>5 DEF Shape
    <2>2. jobs' \subseteq (1 .. Len(received')) \X (1 .. listeners')
      BY <1>3, ReceiveEffect, ShapeFacts DEF Receive, Shape
    <2>3. calls' \in [Callback -> Seq(1 .. Len(received'))]
      <3>1. 1 .. Len(received) \subseteq 1 .. Len(received')
        <4>1. Len(received') = Len(received) + 1 /\ Len(received) \in Nat
          BY <1>3, ReceiveEffect, ShapeFacts
        <4> QED
          BY <4>1
      <3>2. Seq(1 .. Len(received)) \subseteq Seq(1 .. Len(received'))
        BY <3>1, SeqMonotonic
      <3> QED
        BY <1>3, <3>2 DEF Receive, Shape
    <2>4. Len(received') <= MaxMessages
      BY <1>3, ReceiveEffect, ShapeFacts, ObserversAssumption DEF Receive
    <2> QED
      BY <1>3, <2>1, <2>2, <2>3, <2>4, ReceiveEffect DEF Receive, Shape
  <1>4. ASSUME NEW job \in jobs, Resolve(job)
        PROVE  Shape'
    <2>1. \A cb \in Callback : calls'[cb] \in Seq(1 .. Len(received))
      BY <1>4, ResolveEffect
    <2>2. DOMAIN calls' = Callback /\ calls' = [cb \in Callback |-> calls'[cb]]
      BY <1>4 DEF Resolve, Shape
    <2>3. calls' \in [Callback -> Seq(1 .. Len(received))]
      BY <2>1, <2>2
    <2> QED
      BY <1>4, <2>3 DEF Resolve, Shape
  <1> QED
    BY <1>1, <1>2, <1>3, <1>4 DEF DeliveryStep

(* What an observer was called with was received.                           *)
LEMMA CallsOfReceived ==
    ASSUME Shape, NEW cb \in Callback
    PROVE  /\ ToSet(calls[cb]) \subseteq 1 .. Len(received)
           /\ \A n \in 1 .. Len(calls[cb]) : calls[cb][n] \in ToSet(calls[cb])
  <1>1. /\ DOMAIN calls[cb] = 1 .. Len(calls[cb])
        /\ \A n \in 1 .. Len(calls[cb]) : calls[cb][n] \in 1 .. Len(received)
    BY ShapeFacts
  <1> QED
    BY <1>1 DEF ToSet

LEMMA StepKeys == Shape /\ KeysAtReceipt /\ DeliveryStep => KeysAtReceipt'
  <1> SUFFICES ASSUME Shape, KeysAtReceipt, DeliveryStep,
                      NEW cb \in Callback, NEW i \in ToSet(calls'[cb]), received'[i].lock # Clear
               PROVE  received'[i].lock \in received'[i].keys
    BY DEF KeysAtReceipt
  <1>1. CASE Registers \/ Quiet
    BY <1>1 DEF Registers, Quiet, KeysAtReceipt
  <1>2. ASSUME NEW m \in Sent, Receive(m)
        PROVE  received'[i].lock \in received'[i].keys
    <2>1. calls' = calls
      BY <1>2 DEF Receive
    <2>2. i \in ToSet(calls[cb]) /\ i \in 1 .. Len(received)
      <3>1. i \in ToSet(calls[cb])
        BY <2>1
      <3> QED
        BY <3>1, CallsOfReceived
    <2>3. received'[i] = received[i]
      BY <1>2, <2>2, ReceiveEffect
    <2> QED
      BY <2>2, <2>3 DEF KeysAtReceipt
  <1>3. ASSUME NEW job \in jobs, Resolve(job)
        PROVE  received'[i].lock \in received'[i].keys
    <2>1. received' = received
      BY <1>3 DEF Resolve
    <2>2. PICK k \in 0 .. 2 :
              /\ k > 0 => Opens(job[1])
              /\ calls'[cb] \in Seq(1 .. Len(received))
              /\ Len(calls'[cb]) = Len(calls[cb]) + k
              /\ \A n \in 1 .. Len(calls'[cb]) :
                    calls'[cb][n] = IF n <= Len(calls[cb]) THEN calls[cb][n] ELSE job[1]
      BY <1>3, ResolveEffect
    <2>3. PICK n \in 1 .. Len(calls'[cb]) : i = calls'[cb][n]
      BY <2>2, LenProperties DEF ToSet
    <2>4. CASE n <= Len(calls[cb])
      <3>1. i \in ToSet(calls[cb])
        <4>1. Len(calls[cb]) \in Nat
          BY ShapeFacts
        <4>2. n \in 1 .. Len(calls[cb]) /\ i = calls[cb][n]
          BY <2>2, <2>3, <2>4, <4>1
        <4> QED
          BY <4>2, CallsOfReceived
      <3> QED
        BY <2>1, <3>1 DEF KeysAtReceipt
    <2>5. CASE ~(n <= Len(calls[cb]))
      <3>1. i = job[1] /\ k > 0
        BY <2>2, <2>3, <2>5, ShapeFacts
      <3> QED
        BY <2>1, <2>2, <3>1 DEF Opens, KeysFor
    <2> QED
      BY <2>4, <2>5
  <1> QED
    BY <1>1, <1>2, <1>3 DEF DeliveryStep

LEMMA StepClear ==
    Shape /\ ClearBeforePending /\ ClearInOrder /\ DeliveryStep => ClearBeforePending' /\ ClearInOrder'
  <1> SUFFICES ASSUME Shape, ClearBeforePending, ClearInOrder, DeliveryStep
               PROVE  ClearBeforePending' /\ ClearInOrder'
    OBVIOUS
  <1>1. CASE Registers \/ Quiet
    BY <1>1 DEF Registers, Quiet, ClearBeforePending, ClearInOrder
  <1>2. ASSUME NEW m \in Sent, Receive(m)
        PROVE  ClearBeforePending' /\ ClearInOrder'
    <2>1. /\ calls' = calls /\ \A i \in 1 .. Len(received) : received'[i] = received[i]
          /\ \A j \in jobs' : j \in jobs \/ j[1] = Len(received) + 1
      BY <1>2, ReceiveEffect DEF Receive
    <2>2. ClearInOrder'
      <3> SUFFICES ASSUME NEW cb \in Callback, NEW l \in DOMAIN calls[cb], NEW n \in DOMAIN calls[cb], l < n,
                          received'[calls[cb][l]].lock = Clear, received'[calls[cb][n]].lock = Clear
                   PROVE  calls[cb][l] <= calls[cb][n]
        BY <2>1 DEF ClearInOrder
      <3>1. calls[cb][l] \in 1 .. Len(received) /\ calls[cb][n] \in 1 .. Len(received)
        BY ShapeFacts
      <3> QED
        BY <2>1, <3>1 DEF ClearInOrder
    <2>3. ClearBeforePending'
      <3> SUFFICES ASSUME NEW cb \in Callback, NEW n \in 1 .. Len(calls[cb]), NEW j \in jobs',
                          received'[calls[cb][n]].lock = Clear, received'[j[1]].lock = Clear
                   PROVE  calls[cb][n] <= j[1]
        BY <2>1 DEF ClearBeforePending
      <3>1. calls[cb][n] \in 1 .. Len(received) /\ Len(received) \in Nat
        BY ShapeFacts
      <3>2. CASE j \in jobs
        BY <2>1, <3>1, <3>2, ShapeFacts DEF ClearBeforePending
      <3>3. CASE j[1] = Len(received) + 1
        BY <3>1, <3>3
      <3> QED
        BY <2>1, <3>2, <3>3
    <2> QED
      BY <2>2, <2>3
  <1>3. ASSUME NEW job \in jobs, Resolve(job)
        PROVE  ClearBeforePending' /\ ClearInOrder'
    <2>1. received' = received /\ jobs' \subseteq jobs
      BY <1>3 DEF Resolve
    <2>2. ASSUME NEW cb \in Callback, NEW n \in 1 .. Len(calls'[cb])
          PROVE  \/ n \in 1 .. Len(calls[cb]) /\ calls'[cb][n] = calls[cb][n]
                 \/ n > Len(calls[cb]) /\ calls'[cb][n] = job[1]
      BY <1>3, ResolveEffect, ShapeFacts
    <2>3. \A j \in jobs : received[j[1]].lock = Clear => job[1] <= j[1]
      BY <1>3, ShapeFacts DEF Resolve, MayResolve
    <2>4. ClearBeforePending'
      BY <2>1, <2>2, <2>3 DEF ClearBeforePending
    <2>5. ClearInOrder'
      <3> SUFFICES ASSUME NEW cb \in Callback, NEW l \in 1 .. Len(calls'[cb]), NEW n \in 1 .. Len(calls'[cb]),
                          l < n,
                          received[calls'[cb][l]].lock = Clear, received[calls'[cb][n]].lock = Clear
                   PROVE  calls'[cb][l] <= calls'[cb][n]
        <4>1. \A cb \in Callback : DOMAIN calls'[cb] = 1 .. Len(calls'[cb])
          BY <1>3, ResolveEffect, LenProperties
        <4> QED
          BY <2>1, <4>1 DEF ClearInOrder
      <3>1. CASE n \in 1 .. Len(calls[cb]) /\ calls'[cb][n] = calls[cb][n]
        <4>1. l \in 1 .. Len(calls[cb]) /\ calls'[cb][l] = calls[cb][l]
          BY <2>2, <3>1, ShapeFacts
        <4> QED
          BY <3>1, <4>1, ShapeFacts DEF ClearInOrder
      <3>2. CASE n > Len(calls[cb]) /\ calls'[cb][n] = job[1]
        <4>1. CASE l \in 1 .. Len(calls[cb]) /\ calls'[cb][l] = calls[cb][l]
          BY <3>2, <4>1 DEF ClearBeforePending
        <4>2. CASE calls'[cb][l] = job[1]
          BY <3>2, <4>2, ShapeFacts
        <4> QED
          BY <2>2, <4>1, <4>2
      <3> QED
        BY <2>2, <3>1, <3>2
    <2> QED
      BY <2>4, <2>5
  <1> QED
    BY <1>1, <1>2, <1>3 DEF DeliveryStep

(* The decodes of a message that have not resolved. *)
Pending(i) == {j \in jobs : j[1] = i}

LEMMA PendingFinite ==
    ASSUME Shape, NEW i
    PROVE  IsFiniteSet(Pending(i)) /\ Cardinality(Pending(i)) \in Nat
  <1>1. IsFiniteSet(1 .. Len(received)) /\ IsFiniteSet(1 .. listeners)
    BY ShapeFacts, FS_Interval
  <1>2. IsFiniteSet((1 .. Len(received)) \X (1 .. listeners))
    BY <1>1, FS_Product
  <1>3. Pending(i) \subseteq (1 .. Len(received)) \X (1 .. listeners)
    BY DEF Pending, Shape
  <1>4. IsFiniteSet(Pending(i))
    BY <1>2, <1>3, FS_Subset
  <1> QED
    BY <1>4, FS_CardinalityType

(* Every listener starts one decode. *)
LEMMA OneDecodeEach ==
    ASSUME NEW i, NEW n \in Nat
    PROVE  /\ IsFiniteSet({<<i, l>> : l \in 1 .. n})
           /\ Cardinality({<<i, l>> : l \in 1 .. n}) <= n
  <1> DEFINE D == {<<i, l>> : l \in 1 .. n}
             f == [l \in 1 .. n |-> <<i, l>>]
  <1>1. f \in [1 .. n -> D] /\ \A d \in D : \E l \in 1 .. n : f[l] = d
    OBVIOUS
  <1>2. f \in Surjection(1 .. n, D)
    BY <1>1, Fun_IsSurj
  <1>3. IsFiniteSet(1 .. n) /\ Cardinality(1 .. n) = n
    BY FS_Interval
  <1> HIDE DEF D, f
  <1>4. IsFiniteSet(D) /\ Cardinality(D) <= n
    BY <1>2, <1>3, FS_Surjection
  <1> QED
    BY <1>4 DEF D

LEMMA StepBounded == Shape /\ CallsBounded /\ DeliveryStep => CallsBounded'
  <1> SUFFICES ASSUME Shape, CallsBounded, DeliveryStep,
                      NEW cb \in Callback, NEW i \in DOMAIN received'
               PROVE  Times(calls'[cb], i) <= 2 * (listeners' - Cardinality(Pending(i)'))
    BY DEF CallsBounded, Pending
  <1>1. /\ \A k \in DOMAIN received :
              /\ Times(calls[cb], k) <= 2 * (listeners - Cardinality(Pending(k)))
              /\ Cardinality(Pending(k)) \in Nat
        /\ \A k : Times(calls[cb], k) \in Nat
        /\ listeners \in Nat /\ DOMAIN received = 1 .. Len(received) /\ Len(received) \in Nat
    <2>1. \A k : Times(calls[cb], k) \in Nat
      BY ShapeFacts, TimesFinite
    <2>2. \A k : Cardinality(Pending(k)) \in Nat
      BY PendingFinite
    <2> QED
      BY <2>1, <2>2, ShapeFacts DEF CallsBounded, Pending
  <1>2. CASE Registers
    <2>1. /\ Pending(i)' = Pending(i) /\ calls' = calls /\ listeners' = listeners + 1
          /\ i \in DOMAIN received
      BY <1>2 DEF Registers, Pending
    <2> QED
      BY <1>1, <2>1
  <1>3. CASE Quiet
    <2>1. Pending(i)' = Pending(i) /\ calls' = calls /\ listeners' = listeners /\ i \in DOMAIN received
      BY <1>3 DEF Quiet, Pending
    <2> QED
      BY <1>1, <2>1
  <1>4. ASSUME NEW m \in Sent, Receive(m)
        PROVE  Times(calls'[cb], i) <= 2 * (listeners' - Cardinality(Pending(i)'))
    <2>1. calls' = calls /\ listeners' = listeners
      BY <1>4 DEF Receive
    <2>2. jobs' = jobs \cup {<<Len(received) + 1, l>> : l \in 1 .. listeners}
      BY <1>4 DEF Receive
    <2>3. i \in 1 .. Len(received) + 1
      BY <1>4, ReceiveEffect
    <2>4. CASE i \in 1 .. Len(received)
      <3>1. i # Len(received) + 1
        BY <1>1, <2>4
      <3>2. Pending(i)' = Pending(i)
        BY <2>2, <3>1 DEF Pending
      <3> QED
        BY <1>1, <2>1, <2>4, <3>2
    <2>5. CASE i = Len(received) + 1
      <3>1. Pending(i)' = {<<i, l>> : l \in 1 .. listeners}
        <4>1. \A j \in jobs : j[1] # i
          BY <1>1, <2>5, ShapeFacts
        <4> QED
          BY <2>2, <2>5, <4>1 DEF Pending
      <3>2. Cardinality(Pending(i)') <= listeners /\ Cardinality(Pending(i)') \in Nat
        <4>1. /\ IsFiniteSet({<<i, l>> : l \in 1 .. listeners})
              /\ Cardinality({<<i, l>> : l \in 1 .. listeners}) <= listeners
          BY <1>1, OneDecodeEach
        <4> QED
          BY <3>1, <4>1, FS_CardinalityType
      <3>3. Times(calls[cb], i) = 0
        <4>1. {n \in DOMAIN calls[cb] : calls[cb][n] = i} = {}
          BY <1>1, <2>5, ShapeFacts
        <4> QED
          BY <4>1, FS_EmptySet DEF Times
      <3> QED
        BY <1>1, <2>1, <3>2, <3>3
    <2> QED
      BY <1>1, <2>3, <2>4, <2>5
  <1>5. ASSUME NEW job \in jobs, Resolve(job)
        PROVE  Times(calls'[cb], i) <= 2 * (listeners' - Cardinality(Pending(i)'))
    <2>1. listeners' = listeners /\ i \in DOMAIN received /\ jobs' = jobs \ {job}
      BY <1>5 DEF Resolve
    <2>2. PICK k \in 0 .. 2 : Times(calls'[cb], i) = Times(calls[cb], i) + IF i = job[1] THEN k ELSE 0
      BY <1>5, ResolveEffect
    <2>3. CASE i = job[1]
      <3>1. Pending(i)' = Pending(i) \ {job} /\ job \in Pending(i)
        BY <2>1, <2>3 DEF Pending
      <3>2. Cardinality(Pending(i)') = Cardinality(Pending(i)) - 1
        BY <3>1, PendingFinite, FS_RemoveElement
      <3> QED
        BY <1>1, <2>1, <2>2, <2>3, <3>2
    <2>4. CASE i # job[1]
      <3>1. Pending(i)' = Pending(i)
        BY <2>1, <2>4 DEF Pending
      <3> QED
        BY <1>1, <2>1, <2>2, <2>4, <3>1
    <2> QED
      BY <2>3, <2>4
  <1> QED
    BY <1>2, <1>3, <1>4, <1>5 DEF DeliveryStep

LEMMA InitDelivery == Init => DeliveryInv
  <1> SUFFICES ASSUME Init PROVE DeliveryInv
    OBVIOUS
  <1>1. <<>> \in Seq(Received) /\ Len(<<>>) = 0 /\ <<>> \in Seq(Callback) /\ <<>> \in Seq({})
    BY EmptySeq
  <1>2. Len(received) = 0 /\ jobs = {} /\ \A cb \in Callback : calls[cb] = <<>>
    BY DEF Init
  <1>3. Shape
    <2>1. \A s \in Slot : observers[s] = <<>>
      BY DEF Init
    <2>2. ObserversFit(observers)
      BY <1>1, <2>1 DEF Init, ObserversFit, IsInjective
    <2>3. received \in Seq(Received) /\ Len(received) <= MaxMessages /\ DOMAIN received = {}
      BY <1>1, ObserversAssumption DEF Init
    <2>4. calls \in [Callback -> Seq(1 .. Len(received))]
      BY <1>1, <1>2 DEF Init
    <2>5. /\ started \in BOOLEAN /\ listeners \in 0 .. MaxListeners /\ keys \subseteq Key
          /\ jobs \subseteq (1 .. Len(received)) \X (1 .. listeners)
      <3>1. started = FALSE /\ listeners = 0 /\ keys = {} /\ jobs = {}
        BY DEF Init
      <3>2. started \in BOOLEAN
        BY <3>1, Zenon
      <3>3. listeners \in 0 .. MaxListeners
        BY <3>1, ObserversAssumption
      <3> QED
        BY <3>1, <3>2, <3>3
    <2> QED
      BY <2>2, <2>3, <2>4, <2>5 DEF Shape
  <1>4. KeysAtReceipt /\ ClearBeforePending /\ ClearInOrder /\ CallsBounded
    BY <1>2 DEF Init, KeysAtReceipt, ClearBeforePending, ClearInOrder, CallsBounded, ToSet
  <1> QED
    BY <1>3, <1>4 DEF DeliveryInv

LEMMA StepDelivery == DeliveryInv /\ DeliveryStep => DeliveryInv'
  BY StepShape, StepKeys, StepClear, StepBounded DEF DeliveryInv

LEMMA AlwaysDelivery == Spec => []DeliveryInv
  <1>1. DeliveryInv /\ [Next]_vars => DeliveryInv'
    BY ObserverSteps, StepDelivery DEF DeliveryInv
  <1> QED
    BY <1>1, InitDelivery, PTL DEF Spec

LEMMA ShapeIsTypeOK == DeliveryInv => TypeOK
  <1> SUFFICES ASSUME Shape PROVE TypeOK
    BY DEF DeliveryInv
  <1>1. \A s \in Slot : ToSet(observers[s]) \subseteq Callback /\ IsInjective(observers[s])
    <2> TAKE s \in Slot
    <2>1. observers[s] \in Seq(Callback)
      BY DEF Shape, ObserversFit
    <2>2. ToSet(observers[s]) \subseteq Callback
      BY <2>1, LenProperties, ElementOfSeq DEF ToSet
    <2> QED
      BY <2>2 DEF Shape, ObserversFit
  <1> QED
    BY <1>1, ShapeFacts, CallsOfReceived DEF Shape, TypeOK

(* An observer is registered once per topic, and a decode belongs to a      *)
(* message and a listener there is (index.ts, addObserver and subscribe).   *)
THEOREM DeliveryTypeCorrect == Spec => []TypeOK
  BY AlwaysDelivery, ShapeIsTypeOK, PTL

(* Whatever happens to the keys while it is decoded, a message opens with   *)
(* those of its receipt only (index.ts, subscribe).                         *)
THEOREM KeysOfReceipt == Spec => []KeysAtReceipt
  BY AlwaysDelivery, PTL DEF DeliveryInv

(* However decodes overlap, an observer sees unencrypted messages in the    *)
(* order in which they came (index.ts, subscribe, and decodeProto).         *)
THEOREM ClearStaysInOrder == Spec => []ClearInOrder
  BY AlwaysDelivery, PTL DEF DeliveryInv

(* Two calls for a message and listener at most, however often the router   *)
(* is started, stopped or restarted from within a heartbeat.                *)
THEOREM CallsStayBounded == LifecycleSpec => []CallsBounded
  <1>1. LifecycleInit => DeliveryInv
    BY InitDelivery DEF LifecycleInit
  <1>2. DeliveryInv /\ [LifecycleNext]_lifecycle => DeliveryInv'
    BY LifecycleSteps, StepDelivery DEF DeliveryInv
  <1>3. LifecycleSpec => []DeliveryInv
    BY <1>1, <1>2, PTL DEF LifecycleSpec
  <1> QED
    BY <1>3, PTL DEF DeliveryInv

=============================================================================
