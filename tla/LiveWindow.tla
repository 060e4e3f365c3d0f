----------------------------- MODULE LiveWindow -----------------------------
(* What the shared time axis promises its user, with no word on how the edge *)
(* of the window is computed.  Samples arrive; a window of the session is on *)
(* screen.  It is live (its right edge is the newest sample) or paused (it   *)
(* shows a whole span of the past), and only the user changes which.         *)
EXTENDS Integers

CONSTANT Spans      \* the lengths a window may have

VARIABLES newest,   \* time of the newest sample, 0 before the first
          right,    \* right edge of the window, 0 before the first sample
          span,     \* length of the window
          mode      \* "live" or "paused"

vars == <<newest, right, span, mode>>

Live   == mode = "live" /\ right = newest
Paused == mode = "paused" /\ span <= right /\ right < newest

Init ==
    /\ newest = 0
    /\ span \in Spans
    /\ Live

\* A sample: a live window follows it, a paused one does not move.
Arrive ==
    /\ newest' \in Nat
    /\ newest' > newest
    /\ right' = IF mode = "live" THEN newest' ELSE right
    /\ UNCHANGED <<span, mode>>

\* The user pans, zooms or resets: any live or paused window may result.
Look ==
    /\ span' \in Spans
    /\ right' \in Nat
    /\ mode' \in {"live", "paused"}
    /\ Live' \/ Paused'
    /\ UNCHANGED newest

\* The user clears the history: the session starts over, live.
StartOver ==
    /\ newest' = 0
    /\ span' \in Spans
    /\ Live'

Next == Arrive \/ Look \/ StartOver

Spec == Init /\ [][Next]_vars
=============================================================================
