------------------------------ MODULE SingleUse ------------------------------
(***************************************************************************)
(* What a host relies on when it gives its verifier a replay cache, with   *)
(* no cache, no eviction and no sampled time in it: a use of an identifier *)
(* happens at one instant, no identifier is used again while its last use  *)
(* is live, and at most Capacity uses are live at any time.                *)
(***************************************************************************)
EXTENDS Integers, FiniteSets, Sequences

CONSTANTS
    Uses,     \* the uses one can ask for: [id, until]
    Capacity  \* uses that may be live at a time

VARIABLES
    time,
    log       \* the uses granted so far

Live == {log[i].id : i \in {k \in DOMAIN log : log[k].until > time}}

Init == time = 0 /\ log = <<>>

Pass == time' > time /\ log' = log

\* A use that is granted late, after its own expiry, is never live.
Grant(use) ==
    /\ use.id \notin Live
    /\ Cardinality(Live) < Capacity
    /\ log' = Append(log, use)
    /\ time' = time

Next == Pass \/ \E use \in Uses : Grant(use)

Spec == Init /\ [][Next]_<<time, log>>
=============================================================================
