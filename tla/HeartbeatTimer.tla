----------------------------- MODULE HeartbeatTimer -----------------------------
(***************************************************************************)
(* The timer of RelayHeartbeat (src/lib/waku_relay/relay_heartbeat.ts): a  *)
(* first heartbeat after a short timeout, whose callback then starts the   *)
(* interval for the others.                                                *)
(*                                                                         *)
(* The closures of start look the timer up in _heartbeatTimer when they    *)
(* run, and it may be another one by then: a heartbeat emits               *)
(* 'gossipsub:heartbeat', and what listens to that runs in the middle of   *)
(* the callback.                                                           *)
(***************************************************************************)
EXTENDS Naturals, FiniteSets

CONSTANTS
    None,      \* no timer, no interval
    Reactions  \* how a heartbeat ends: it returns, a listener stops the
               \* router, starts it once more or restarts it, or something throws

ASSUME TimerAssumption ==
    /\ None \notin Nat /\ None \notin [timeout : Nat, interval : Nat \cup {None}]
    /\ Reactions \subseteq {"returns", "stops", "starts", "restarts", "throws"}

VARIABLES
    timer,  \* _heartbeatTimer: the timeout and the interval that cancel clears
    armed   \* the timeouts and intervals that will fire, by the start they stem from

timerVars == <<timer, armed>>

Timeout(n) == <<"timeout", n>>
Interval(n) == <<"interval", n>>

TimerInit == timer = None /\ armed = {}

-----------------------------------------------------------------------------
(* What each method does to a pair of _heartbeatTimer and the live timers. *)

(* Mutant of Started: the timer is not looked at first. *)
StartedAnyway(t, n) ==
    [timer |-> [timeout |-> n, interval |-> None], armed |-> t.armed \cup {Timeout(n)}]

(* A call of start, numbered n. *)
Started(t, n) ==
    IF t.timer # None THEN t
    ELSE [timer |-> [timeout |-> n, interval |-> None], armed |-> t.armed \cup {Timeout(n)}]

(* cancel clears the timeout of its own start and the interval of now. *)
Cancelled(t) == {Timeout(t.timer.timeout), Interval(t.timer.interval)}

Stopped(t) ==
    IF t.timer = None THEN t
    ELSE [timer |-> None, armed |-> t.armed \ Cancelled(t)]

(* _heartbeatTimer?.runPeriodically, called by the timeout of start n. *)
Periodic(t, n) ==
    IF t.timer = None THEN t
    ELSE [timer |-> [t.timer EXCEPT !.interval = n], armed |-> t.armed \cup {Interval(n)}]

(* What a heartbeat leaves; `next' numbers the start of a restart. *)
Beaten(t, reaction, next) ==
    CASE reaction = "stops"    -> Stopped(t)
      [] reaction = "starts"   -> Started(t, next)
      [] reaction = "restarts" -> Started(Stopped(t), next)
      [] OTHER                 -> t

(* The callback of the timeout: the heartbeat, then the interval, which is  *)
(* never reached when the heartbeat throws.                                 *)
FirstBeaten(t, n, reaction, next) ==
    LET fired == [t EXCEPT !.armed = @ \ {Timeout(n)}]
    IN  IF reaction = "throws" THEN fired
        ELSE Periodic(Beaten(fired, reaction, next), n)

-----------------------------------------------------------------------------

Now == [timer |-> timer, armed |-> armed]
Becomes(t) == timer' = t.timer /\ armed' = t.armed

TimerStart(n) == Becomes(Started(Now, n))
TimerStop == Becomes(Stopped(Now))

FirstBeat(n, reaction, next) ==
    /\ Timeout(n) \in armed
    /\ Becomes(FirstBeaten(Now, n, reaction, next))

(* The callback of the interval, which fires again whatever happens. *)
NextBeat(n, reaction, next) ==
    /\ Interval(n) \in armed
    /\ Becomes(Beaten(Now, reaction, next))

=============================================================================
