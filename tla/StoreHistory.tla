------------------------------ MODULE StoreHistory ------------------------------
(***************************************************************************)
(* What queryHistory (src/lib/waku_store/index.ts) promises its caller     *)
(* while the store of the peer it asks grows at one end and is pruned at   *)
(* the other.                                                              *)
(*                                                                         *)
(* The answer is collected in steps.  Each step moves a frontier through   *)
(* the stored messages in the direction of the query and adds what can be  *)
(* read of the messages passed; and a query returns only when it has       *)
(* passed every message that was stored when it began, unless the peer cut *)
(* an answer short or has pruned the message.                              *)
(***************************************************************************)
EXTENDS Naturals, Sequences

CONSTANTS
    Kind,      \* kinds of stored messages, as to how they decode
    Readable,  \* those that the caller can read
    Dir,       \* directions of a query
    Forward    \* from the oldest message on; the other directions go backward

VARIABLES
    log,       \* kinds of the messages ever stored, in order of time
    oldest,    \* the first one that is still stored
    state,     \* "idle", "open", "returned" or "thrown"
    dir,       \* direction of the query
    asked,     \* length of log when the query began
    frontier,  \* the last message passed, 0 at first
    got,       \* the messages handed to the caller
    cut        \* the peer answered with less than what was asked for

vars == <<log, oldest, state, dir, asked, frontier, got, cut>>

Init ==
    /\ log = <<>> /\ oldest = 1
    /\ state = "idle" /\ dir \in Dir /\ asked = 0
    /\ frontier = 0 /\ got = {} /\ cut = FALSE

(* i comes after c when the log is read in direction d. *)
Beyond(d, c, i) == c = 0 \/ IF d = Forward THEN i > c ELSE i < c

Passed(f) ==
    {i \in DOMAIN log : log[i] \in Readable /\ Beyond(dir, frontier, i) /\ ~Beyond(dir, f, i)}

(* The messages that may not be missing: stored when the query began, and   *)
(* still stored.                                                            *)
Owed == {i \in DOMAIN log : i >= oldest /\ i <= asked /\ log[i] \in Readable}

StoreMessage(k) ==
    /\ log' = Append(log, k)
    /\ UNCHANGED <<oldest, state, dir, asked, frontier, got, cut>>

Prune ==
    /\ oldest <= Len(log)
    /\ oldest' = oldest + 1
    /\ UNCHANGED <<log, state, dir, asked, frontier, got, cut>>

(* The call, which may find no peer to ask. *)
Query ==
    /\ state = "idle"
    /\ state' \in {"open", "thrown"}
    /\ dir' \in Dir /\ asked' = Len(log)
    /\ UNCHANGED <<log, oldest, frontier, got, cut>>

(* One page, possibly the last. *)
Page ==
    /\ state = "open"
    /\ \E f \in DOMAIN log :
          /\ Beyond(dir, frontier, f)
          /\ Passed(f) \cap Owed \subseteq got'
          /\ got \subseteq got' /\ got' \ got \subseteq Passed(f)
          /\ frontier' \in IF state' = "open" THEN {f} ELSE {0, frontier}
    /\ state' \in {"open", "returned", "thrown"}
    /\ state' = "returned" => cut \/ Owed \subseteq got'
    /\ UNCHANGED <<log, oldest, dir, asked, cut>>

(* The peer's next page will be short. *)
CutShort ==
    /\ state = "open"
    /\ cut' = TRUE
    /\ UNCHANGED <<log, oldest, state, dir, asked, frontier, got>>

(* There was nothing beyond the frontier. *)
Return ==
    /\ state = "open" /\ Owed \subseteq got
    /\ state' = "returned"
    /\ UNCHANGED <<log, oldest, dir, asked, frontier, got, cut>>

Throw ==
    /\ state = "open"
    /\ state' = "thrown"
    /\ UNCHANGED <<log, oldest, dir, asked, frontier, got, cut>>

Next ==
    \/ \E k \in Kind : StoreMessage(k)
    \/ Prune \/ Query \/ Page \/ CutShort \/ Return \/ Throw

Spec == Init /\ [][Next]_vars
=============================================================================
