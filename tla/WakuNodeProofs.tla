----------------------------- MODULE WakuNodeProofs -----------------------------
(***************************************************************************)
(* Theorems about WakuNode, for any peers, messages, periods and any bound *)
(* on connections: the keep-alive timers and the outcome of a light push.  *)
(***************************************************************************)
EXTENDS WakuNode, Integers, TLAPS

(* The shape of the state, as far as the proofs need it.  The bounds of     *)
(* TypeOK are not among it: that no interval leaks is what is to be shown.  *)
Shape ==
    /\ timers \in [Timer -> SUBSET Peer]
    /\ live \in [Timer -> [Peer -> Int]]
    /\ conns \in [Peer -> Nat]
    /\ early \subseteq Connected
    /\ push \in [Message -> {"none", "opening", "sent"} \cup Ended]
    /\ verdict \in [Message -> Verdict \cup {"none"}]

(* KeptAlive, for the timers that the code takes for enabled.               *)
TimersExact ==
    \A k \in Timer :
        timers[k] = IF k \in Enabled /\ Listening THEN Connected \ early ELSE {}

(* Where a call stands whose message a peer has seen, and what the peer did *)
(* with it when the call has a response.                                    *)
HandledSent ==
    \A m \in Message : verdict[m] # "none" => push[m] \in {"sent", "null"} \cup Verdict
AnsweredHandled == \A m \in Message : push[m] \in Verdict => verdict[m] = push[m]

IInv == Shape /\ NoLeakedInterval /\ TimersExact /\ HandledSent /\ AnsweredHandled

-----------------------------------------------------------------------------
(* The two handlers of the keep-alive. *)

(* stopKeepAlive takes the peer out of both maps and clears its intervals.  *)
LEMMA StopEffect ==
    ASSUME Shape, NoLeakedInterval, NEW p \in Peer, StopKeepAlive(p)
    PROVE  /\ timers' = [k \in Timer |-> timers[k] \ {p}]
           /\ timers' \in [Timer -> SUBSET Peer]
           /\ live' \in [Timer -> [Peer -> Int]]
           /\ NoLeakedInterval'
<1>1. timers' = [k \in Timer |-> timers[k] \ {p}] /\ timers' \in [Timer -> SUBSET Peer]
  BY DEF Shape, StopKeepAlive
<1>2. /\ live' = [k \in Timer |-> [live[k] EXCEPT ![p] = IF p \in timers[k] THEN @ - 1 ELSE @]]
      /\ live' \in [Timer -> [Peer -> Int]]
  BY DEF Shape, StopKeepAlive, Stopped
<1>3. ASSUME NEW k \in Timer, NEW q \in Peer
      PROVE  live'[k][q] = IF q \in timers'[k] THEN 1 ELSE 0
  BY <1>1, <1>2, <1>3 DEF Shape, NoLeakedInterval
<1>. QED
  BY <1>1, <1>2, <1>3 DEF NoLeakedInterval

(* startKeepAlive leaves exactly one interval of each enabled kind.         *)
LEMMA StartEffect ==
    ASSUME Shape, NoLeakedInterval, NEW p \in Peer, StartKeepAlive(p)
    PROVE  /\ timers' = [k \in Timer |->
                            IF k \in Enabled THEN timers[k] \cup {p} ELSE timers[k] \ {p}]
           /\ timers' \in [Timer -> SUBSET Peer]
           /\ live' \in [Timer -> [Peer -> Int]]
           /\ NoLeakedInterval'
<1>. DEFINE cleared(k) == [live[k] EXCEPT ![p] = IF p \in timers[k] THEN @ - 1 ELSE @]
<1>1. /\ timers' = [k \in Timer |->
                       IF k \in Enabled THEN timers[k] \cup {p} ELSE timers[k] \ {p}]
      /\ timers' \in [Timer -> SUBSET Peer]
  BY DEF Shape, StartKeepAlive
<1>2. /\ live' = [k \in Timer |-> IF k \in Enabled THEN [cleared(k) EXCEPT ![p] = @ + 1]
                                 ELSE cleared(k)]
      /\ live' \in [Timer -> [Peer -> Int]]
  BY DEF Shape, StartKeepAlive, Restarted, Stopped
<1>3. ASSUME NEW k \in Timer
      PROVE  cleared(k) \in [Peer -> Int] /\ cleared(k)[p] = 0
  BY <1>3 DEF Shape, NoLeakedInterval
<1>4. ASSUME NEW k \in Timer, NEW q \in Peer
      PROVE  live'[k][q] = IF q \in timers'[k] THEN 1 ELSE 0
  BY <1>1, <1>2, <1>3, <1>4 DEF Shape, NoLeakedInterval
<1>. QED
  BY <1>1, <1>2, <1>4 DEF NoLeakedInterval

-----------------------------------------------------------------------------
(* The inductive invariant *)

LEMMA InitIInv == Init => IInv
<1>. SUFFICES ASSUME Init PROVE IInv
  OBVIOUS
<1>1. Shape
  BY DEF Init, KeepAliveInit, LightPushInit, Shape, Connected
<1>2. NoLeakedInterval /\ TimersExact
  BY DEF Init, KeepAliveInit, NoLeakedInterval, TimersExact, Listening
<1>3. HandledSent /\ AnsweredHandled
  BY DEF Init, LightPushInit, HandledSent, AnsweredHandled, Verdict
<1>. QED
  BY <1>1, <1>2, <1>3 DEF IInv

(* A connection that opens adds its peer to those connected, and takes it   *)
(* from those that are older than the listeners.                            *)
LEMMA ConnectIInv ==
    ASSUME IInv, NEW p \in Peer, Connect(p)
    PROVE  IInv'
<1>1. Connected' = Connected \cup {p} /\ early' = early \ {p} /\ conns' \in [Peer -> Nat]
  BY DEF IInv, Shape, Connect, Connected
<1>2. Listening' <=> Listening
  BY DEF Connect, Listening
<1>3. /\ timers' \in [Timer -> SUBSET Peer] /\ live' \in [Timer -> [Peer -> Int]]
      /\ NoLeakedInterval' /\ TimersExact'
  <2>1. CASE Listening
    <3>1. StartKeepAlive(p)
      BY <2>1 DEF Connect
    <3>2. /\ timers' = [k \in Timer |->
                           IF k \in Enabled THEN timers[k] \cup {p} ELSE timers[k] \ {p}]
          /\ timers' \in [Timer -> SUBSET Peer] /\ live' \in [Timer -> [Peer -> Int]]
          /\ NoLeakedInterval'
      BY <3>1, StartEffect DEF IInv
    <3>3. Enabled' = Enabled
      BY DEF Enabled, Period
    <3>4. TimersExact'
      BY <1>1, <1>2, <2>1, <3>2, <3>3 DEF IInv, TimersExact, Shape
    <3>. QED
      BY <3>2, <3>4
  <2>2. CASE ~Listening
    <3>1. UNCHANGED keepAliveVars
      BY <2>2 DEF Connect
    <3>2. Enabled' = Enabled
      BY DEF Enabled, Period
    <3>. QED
      BY <1>2, <2>2, <3>1, <3>2 DEF IInv, Shape, keepAliveVars, NoLeakedInterval, TimersExact
  <2>. QED
    BY <2>1, <2>2
<1>4. Shape'
  BY <1>1, <1>3 DEF IInv, Shape, Connect, lightPushVars
<1>5. HandledSent' /\ AnsweredHandled'
  BY DEF IInv, Connect, lightPushVars, HandledSent, AnsweredHandled
<1>. QED
  BY <1>3, <1>4, <1>5 DEF IInv

(* A connection that closes is noticed only if it is the last.              *)
LEMMA DisconnectIInv ==
    ASSUME IInv, NEW p \in Peer, Disconnect(p)
    PROVE  IInv'
<1>1. conns' \in [Peer -> Nat] /\ conns[p] \in Nat \ {0}
  BY DEF IInv, Shape, Disconnect
<1>2. Connected' = IF conns[p] = 1 THEN Connected \ {p} ELSE Connected
  BY <1>1 DEF IInv, Shape, Disconnect, Connected
<1>3. early' = IF conns[p] = 1 THEN early \ {p} ELSE early
  BY DEF Disconnect
<1>4. (Listening' <=> Listening) /\ Enabled' = Enabled
  BY DEF Disconnect, Listening, Enabled, Period
<1>5. /\ timers' \in [Timer -> SUBSET Peer] /\ live' \in [Timer -> [Peer -> Int]]
      /\ NoLeakedInterval' /\ TimersExact'
  <2>1. CASE conns[p] = 1 /\ Listening
    <3>1. StopKeepAlive(p)
      BY <2>1 DEF Disconnect
    <3>2. /\ timers' = [k \in Timer |-> timers[k] \ {p}]
          /\ timers' \in [Timer -> SUBSET Peer] /\ live' \in [Timer -> [Peer -> Int]]
          /\ NoLeakedInterval'
      BY <3>1, StopEffect DEF IInv
    <3>3. TimersExact'
      BY <1>2, <1>3, <1>4, <2>1, <3>2 DEF IInv, TimersExact, Shape
    <3>. QED
      BY <3>2, <3>3
  <2>2. CASE ~(conns[p] = 1 /\ Listening)
    <3>1. UNCHANGED keepAliveVars
      BY <2>2 DEF Disconnect
    <3>. QED
      BY <1>2, <1>3, <1>4, <2>2, <3>1
      DEF IInv, Shape, keepAliveVars, NoLeakedInterval, TimersExact
  <2>. QED
    BY <2>1, <2>2
<1>6. Shape'
  BY <1>1, <1>2, <1>3, <1>5 DEF IInv, Shape, Disconnect
<1>7. HandledSent' /\ AnsweredHandled'
  BY DEF IInv, Disconnect, HandledSent, AnsweredHandled
<1>. QED
  BY <1>5, <1>6, <1>7 DEF IInv

(* A step of a push moves the call forward and nothing else.                *)
LEMMA PushIInv ==
    ASSUME IInv, NEW m \in Message, PushStep(m)
    PROVE  IInv'
<1>1. UNCHANGED <<keepAliveVars, phase, conns, early>>
  BY DEF PushStep
<1>2. Connected' = Connected /\ (Listening' <=> Listening) /\ Enabled' = Enabled
  BY <1>1 DEF Connected, Listening, Enabled, Period
<1>3. NoLeakedInterval' /\ TimersExact'
  BY <1>1, <1>2 DEF IInv, keepAliveVars, NoLeakedInterval, TimersExact
<1>4. /\ push' \in [Message -> {"none", "opening", "sent"} \cup Ended]
      /\ verdict' \in [Message -> Verdict \cup {"none"}]
      /\ HandledSent' /\ AnsweredHandled'
  <2>1. CASE \E target \in Peer \cup {AnyPeer} : Push(m, target, Connected)
    BY <2>1 DEF IInv, Shape, Ended, Verdict, Push, HandledSent, AnsweredHandled
  <2>2. CASE OpenFails(m) \/ Opens(m) \/ PushFails(m)
    BY <2>2 DEF IInv, Shape, Ended, Verdict, OpenFails, Opens, PushFails, OnFailure, HandledSent, AnsweredHandled
  <2>3. CASE Answered(m) \/ Handle(m)
    BY <2>3 DEF IInv, Shape, Ended, Verdict, Answered, Handle, HandledSent, AnsweredHandled
  <2>. QED
    BY <2>1, <2>2, <2>3 DEF PushStep
<1>5. Shape'
  BY <1>1, <1>2, <1>4 DEF IInv, Shape, keepAliveVars
<1>. QED
  BY <1>3, <1>4, <1>5 DEF IInv

LEMMA NextIInv == IInv /\ [Next]_vars => IInv'
<1>. SUFFICES ASSUME IInv, [Next]_vars PROVE IInv'
  OBVIOUS
<1>1. CASE Bootstrap \/ StartFails \/ Stop \/ \E p \in Peer : Identify(p)
  <2>1. UNCHANGED <<keepAliveVars, lightPushVars, conns, early>> /\ (Listening' <=> Listening)
    BY <1>1 DEF Bootstrap, StartFails, Stop, Identify, Listening
  <2>2. Connected' = Connected /\ Enabled' = Enabled
    BY <2>1 DEF Connected, Enabled, Period
  <2>. QED
    BY <2>1, <2>2 DEF IInv, Shape, keepAliveVars, lightPushVars, NoLeakedInterval, TimersExact,
       HandledSent, AnsweredHandled
<1>2. CASE Construct
  <2>1. UNCHANGED <<keepAliveVars, lightPushVars, conns>> /\ early' = Connected
    BY <1>2 DEF Construct
  <2>2. Connected' = Connected /\ ~Listening
    BY <1>2, <2>1 DEF Construct, Connected, Listening
  <2>3. TimersExact'
    BY <2>1, <2>2 DEF IInv, keepAliveVars, TimersExact
  <2>. QED
    BY <2>1, <2>2, <2>3 DEF IInv, Shape, keepAliveVars, lightPushVars, NoLeakedInterval,
       HandledSent, AnsweredHandled
<1>3. CASE \E p \in Peer : Connect(p)
  BY <1>3, ConnectIInv
<1>4. CASE \E p \in Peer : Disconnect(p)
  BY <1>4, DisconnectIInv
<1>5. CASE \E m \in Message : PushStep(m)
  BY <1>5, PushIInv
<1>6. CASE UNCHANGED vars
  <2>1. Connected' = Connected /\ (Listening' <=> Listening) /\ Enabled' = Enabled
    BY <1>6 DEF vars, Connected, Listening, Enabled, Period
  <2>. QED
    BY <1>6, <2>1 DEF vars, IInv, Shape, keepAliveVars, lightPushVars, NoLeakedInterval,
       TimersExact, HandledSent, AnsweredHandled
<1>. QED
  BY <1>1, <1>2, <1>3, <1>4, <1>5, <1>6 DEF Next

(* The inductive invariant holds in every reachable state of the node.      *)
THEOREM NodeInvariance == Spec => []IInv
BY InitIInv, NextIInv, PTL DEF Spec

-----------------------------------------------------------------------------

(* startKeepAlive and stopKeepAlive never lose an interval: however often a *)
(* peer connects, the one that fires is the one the map knows.              *)
THEOREM NoIntervalLeaks == Spec => []NoLeakedInterval
<1>1. IInv => NoLeakedInterval
  BY DEF IInv
<1>. QED
  BY <1>1, NodeInvariance, PTL

(* Zero is given only where it is the default as well: the constructor      *)
(* takes a zero for no option.                                              *)
ZeroAsDefault == \A k \in Timer : Option(k) = 0 => Default(k) = 0

(* With options for which that holds, the timers are those the options ask  *)
(* for: the peers kept alive are the connected ones, but for those that     *)
(* connected before the constructor attached its listeners.                 *)
THEOREM KeepsAlive == ASSUME ZeroAsDefault PROVE Spec => []KeptAlive
<1>1. ASSUME NEW k \in Timer PROVE k \in Enabled <=> k \in Wanted
  BY <1>1, ZeroAsDefault, PeriodAssumption DEF ZeroAsDefault, Enabled, Wanted, Period
<1>2. IInv => KeptAlive
  BY <1>1 DEF IInv, TimersExact, KeptAlive
<1>. QED
  BY <1>2, NodeInvariance, PTL

(* A push that throws was seen by no peer, one that has a response tells    *)
(* what its peer did with the message, a refusal included.                  *)
THEOREM PushesHonest == Spec => []PushOutcome
<1>1. IInv => PushOutcome
  BY DEF IInv, HandledSent, AnsweredHandled, PushOutcome, Verdict
<1>. QED
  BY <1>1, NodeInvariance, PTL

-----------------------------------------------------------------------------
(* Type correctness.  It rests on IInv for the timers, and needs besides    *)
(* that a call under way uses a connected peer or is marked as broken.      *)

OpenStreams ==
    \A m \in Message : push[m] \in {"opening", "sent"} => server[m] \in Connected \/ m \in broken

Typed ==
    /\ registered \subseteq Peer
    /\ server \in [Message -> Peer \cup {NoPeer}]
    /\ broken \subseteq Message
    /\ phase \in {"bootstrapping", "starting", "running", "stopping", "failed"}
    /\ conns \in [Peer -> 0 .. MaxConns]
    /\ topic \in [Protocol -> Topic]

TInv == IInv /\ Typed /\ OpenStreams

LEMMA InitTInv == Init => TInv
<1>. SUFFICES ASSUME Init PROVE TInv
  OBVIOUS
<1>1. Typed
  <2>1. 0 \in 0 .. MaxConns
    BY NodeAssumption
  <2>. QED
    BY <2>1, NodeAssumption DEF Init, KeepAliveInit, LightPushInit, Typed
<1>2. OpenStreams
  BY DEF Init, LightPushInit, OpenStreams
<1>. QED
  BY <1>1, <1>2, InitIInv DEF TInv

LEMMA ConnectTyped ==
    ASSUME TInv, NEW p \in Peer, Connect(p)
    PROVE  Typed' /\ OpenStreams'
<1>1. UNCHANGED <<registered, push, server, broken, verdict, phase, topic>>
  BY DEF Connect, lightPushVars
<1>2. conns' \in [Peer -> 0 .. MaxConns]
  <2>1. conns[p] \in 0 .. MaxConns /\ conns[p] < MaxConns
    BY DEF Connect, TInv, Typed
  <2>2. conns[p] + 1 \in 0 .. MaxConns
    BY <2>1, NodeAssumption
  <2>. QED
    BY <2>2 DEF Connect, TInv, Typed
<1>3. Connected \subseteq Connected'
  BY DEF Connect, TInv, Typed, Connected
<1>. QED
  BY <1>1, <1>2, <1>3 DEF TInv, Typed, OpenStreams

(* A call whose last connection closes is marked as broken.                 *)
LEMMA DisconnectTyped ==
    ASSUME TInv, NEW p \in Peer, Disconnect(p)
    PROVE  Typed' /\ OpenStreams'
<1>1. UNCHANGED <<registered, push, server, verdict, phase, topic>>
  BY DEF Disconnect
<1>2. conns[p] \in 0 .. MaxConns /\ conns[p] > 0
  BY DEF Disconnect, TInv, Typed
<1>3. conns' \in [Peer -> 0 .. MaxConns]
  <2>1. conns[p] - 1 \in 0 .. MaxConns
    BY <1>2, NodeAssumption
  <2>. QED
    BY <2>1 DEF Disconnect, TInv, Typed
<1>4. broken \subseteq broken' /\ broken' \subseteq Message
  BY DEF Disconnect, StreamsLost, TInv, Typed
<1>5. OpenStreams'
  <2>. SUFFICES ASSUME NEW m \in Message, push[m] \in {"opening", "sent"}
                PROVE  server[m] \in Connected' \/ m \in broken'
    BY <1>1 DEF OpenStreams
  <2>1. CASE m \in broken
    BY <1>4, <2>1
  <2>2. CASE m \notin broken
    <3>1. server[m] \in Peer /\ conns[server[m]] > 0
      BY <2>2 DEF TInv, OpenStreams, Connected
    <3>2. CASE server[m] # p
      BY <3>1, <3>2 DEF Disconnect, TInv, Typed, Connected
    <3>3. CASE server[m] = p /\ conns[p] = 1
      BY <3>3 DEF Disconnect
    <3>4. CASE server[m] = p /\ conns[p] # 1
      <4>1. conns[p] - 1 > 0
        BY <1>2, <3>4, NodeAssumption
      <4>2. conns'[p] = conns[p] - 1
        BY DEF Disconnect, TInv, Typed
      <4>. QED
        BY <3>4, <4>1, <4>2 DEF Connected
    <3>. QED
      BY <3>2, <3>3, <3>4
  <2>. QED
    BY <2>1, <2>2
<1>. QED
  BY <1>1, <1>3, <1>4, <1>5 DEF TInv, Typed

LEMMA PushTyped ==
    ASSUME TInv, NEW m \in Message, PushStep(m)
    PROVE  Typed' /\ OpenStreams'
<1>1. UNCHANGED <<phase, conns, topic>> /\ Connected' = Connected
  BY DEF PushStep, Connected
<1>. USE DEF TInv, IInv, Shape, Typed, OpenStreams
<1>2. CASE \E target \in Peer \cup {AnyPeer} : Push(m, target, Connected)
  <2>1. PICK target \in Peer \cup {AnyPeer} : Push(m, target, Connected)
    BY <1>2
  <2>2. UNCHANGED <<registered, broken, verdict>> /\ Candidates(target) \subseteq Peer
    BY <2>1 DEF Push, Candidates
  <2>3. CASE push' = [push EXCEPT ![m] = "thrown"] /\ UNCHANGED server
    BY <1>1, <2>2, <2>3
  <2>4. CASE \E p \in Candidates(target) :
                /\ push' = [push EXCEPT ![m] = IF p \in Connected THEN "opening" ELSE "thrown"]
                /\ server' = [server EXCEPT ![m] = p]
    BY <1>1, <2>2, <2>4
  <2>. QED
    BY <2>1, <2>3, <2>4 DEF Push
<1>3. CASE OpenFails(m) \/ Opens(m) \/ PushFails(m)
  BY <1>1, <1>3 DEF OpenFails, Opens, PushFails, OnFailure
<1>4. CASE Answered(m) \/ Handle(m)
  BY <1>1, <1>4 DEF Answered, Handle
<1>. QED
  BY <1>2, <1>3, <1>4 DEF PushStep

LEMMA NextTInv == TInv /\ [Next]_vars => TInv'
<1>. SUFFICES ASSUME TInv, [Next]_vars PROVE TInv'
  OBVIOUS
<1>1. IInv'
  BY NextIInv DEF TInv
<1>2. CASE Bootstrap \/ StartFails \/ Construct \/ Stop
  <2>1. UNCHANGED <<registered, lightPushVars, conns>> /\ Connected' = Connected
    BY <1>2 DEF Bootstrap, StartFails, Construct, Stop, Connected
  <2>2. phase' \in {"bootstrapping", "starting", "running", "stopping", "failed"}
    BY <1>2 DEF Bootstrap, StartFails, Construct, Stop
  <2>3. GivenTopic \in Topic
    BY NodeAssumption DEF GivenTopic
  <2>4. topic' \in [Protocol -> Topic]
    BY <1>2, <2>3 DEF Bootstrap, StartFails, Construct, Stop, TInv, Typed
  <2>. QED
    BY <1>1, <2>1, <2>2, <2>4 DEF TInv, Typed, OpenStreams, lightPushVars
<1>3. CASE \E p \in Peer : Connect(p)
  BY <1>1, <1>3, ConnectTyped DEF TInv
<1>4. CASE \E p \in Peer : Disconnect(p)
  BY <1>1, <1>4, DisconnectTyped DEF TInv
<1>5. CASE \E p \in Peer : Identify(p)
  <2>1. UNCHANGED <<lightPushVars, phase, conns, topic>> /\ Connected' = Connected
        /\ registered' \subseteq Peer
    BY <1>5 DEF Identify, Connected, TInv, Typed
  <2>. QED
    BY <1>1, <2>1 DEF TInv, Typed, OpenStreams, lightPushVars
<1>6. CASE \E m \in Message : PushStep(m)
  BY <1>1, <1>6, PushTyped DEF TInv
<1>7. CASE UNCHANGED vars
  <2>1. Connected' = Connected
    BY <1>7 DEF vars, Connected
  <2>. QED
    BY <1>1, <1>7, <2>1 DEF vars, lightPushVars, TInv, Typed, OpenStreams
<1>. QED
  BY <1>2, <1>3, <1>4, <1>5, <1>6, <1>7 DEF Next

(* The state keeps its types: no interval is counted twice, the connections *)
(* stay within the bound, and a push under way has a connection or has lost *)
(* it for good.                                                             *)
THEOREM NodeTypeCorrect == Spec => []TypeOK
<1>1. Spec => []TInv
  BY InitTInv, NextTInv, PTL DEF Spec
<1>2. TInv => TypeOK
  <2>. SUFFICES ASSUME TInv PROVE TypeOK
    OBVIOUS
  <2>1. KeepAliveTypeOK
    BY DEF TInv, IInv, Shape, NoLeakedInterval, KeepAliveTypeOK
  <2>. QED
    BY <2>1 DEF TInv, IInv, Shape, Typed, OpenStreams, TypeOK
<1>. QED
  BY <1>1, <1>2, PTL

=============================================================================
