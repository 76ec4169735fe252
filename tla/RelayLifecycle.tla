----------------------------- MODULE RelayLifecycle -----------------------------
(***************************************************************************)
(* WakuRelay started and stopped, possibly by what a heartbeat calls: the  *)
(* observers of RelayObservers together with the timer of HeartbeatTimer.  *)
(***************************************************************************)
EXTENDS RelayObservers, HeartbeatTimer

lifecycle == <<vars, timerVars>>

LifecycleInit == Init /\ TimerInit

(* start and stop of the router start and stop the heartbeat; a router that *)
(* runs may be started once more.                                           *)
StartRelay == Start /\ TimerStart(listeners')
StopRelay == Stop /\ TimerStop

(* What a reaction to the heartbeat does to the router. *)
React(reaction) ==
    CASE reaction = "stops"                 -> Stop
      [] reaction \in {"starts", "restarts"} -> Start
      [] OTHER                              -> UNCHANGED vars

Beat(n, reaction) ==
    /\ React(reaction)
    /\ FirstBeat(n, reaction, listeners') \/ NextBeat(n, reaction, listeners')

Delivery ==
    \/ Subscribe
    \/ \E cb \in Callback, slots \in (SUBSET Slot) \ {{}} :
          AddObserver(cb, slots) \/ DeleteObserver(cb, slots)
    \/ \E k \in Key : AddDecryptionKey(k) \/ DeleteDecryptionKey(k)
    \/ \E m \in Sent : Receive(m)
    \/ \E job \in jobs : Resolve(job)

LifecycleNext ==
    \/ StartRelay \/ StopRelay
    \/ \E n \in 1 .. MaxListeners, reaction \in Reactions : Beat(n, reaction)
    \/ Delivery /\ UNCHANGED timerVars

LifecycleSpec == LifecycleInit /\ [][LifecycleNext]_lifecycle

-----------------------------------------------------------------------------
(* What start and stop promise *)

(* What a stop would clear. *)
Held == IF timer = None THEN {} ELSE Cancelled(Now)

(* A router that runs has exactly one timer, a timeout or an interval, which *)
(* a stop would clear, and one that is stopped has none, except in two       *)
(* cases: the first heartbeat throws, and then there is never another; or it *)
(* restarts the router, and then the old callback starts the interval of the *)
(* new timer, which starts one more of its own.                              *)
Sound ==
    /\ Cardinality(armed) = IF started THEN 1 ELSE 0
    /\ armed \subseteq Held
OneTimer ==
    [][Sound => Sound' \/ \E n \in 1 .. MaxListeners, reaction \in {"throws", "restarts"} :
                              Timeout(n) \in armed /\ Beat(n, reaction)]_lifecycle

=============================================================================
