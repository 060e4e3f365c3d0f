------------------------------ MODULE TimeView ------------------------------
(* The shared time axis of every chart (src/src/time_view.hpp) together with *)
(* the handlers that move it: the sampling timer, the mouse drag and wheel,  *)
(* "Reset View" of the menu and of the context menu, and "Clear History".    *)
(*                                                                           *)
(* One unit of time stands for some number of milliseconds; a sample may     *)
(* arrive any number of units after the previous one (the timer is late).    *)
EXTENDS Integers

CONSTANTS
    MinSpan,        \* min_span_ms
    MaxSpan,        \* max_span_ms
    DefaultSpan,    \* the initialiser of view_span
    Windows,        \* the -w values the program may be started with
    PlotWidth,      \* pixels between the first and the last column of a plot
    PanDeltas,      \* amounts a drag event can ask to pan by
    MaxTime         \* BOUND: the latest sample time

ASSUME SpanAssumption ==
    /\ MinSpan \in Nat \ {0}
    /\ MaxSpan \in Nat
    /\ DefaultSpan \in MinSpan..MaxSpan
ASSUME InputAssumption ==
    /\ Windows \subseteq Nat \ {0}
    /\ PlotWidth \in Nat \ {0}
    /\ PanDeltas \subseteq Int
    /\ MaxTime \in Nat

VARIABLES
    window_ms,      \* opt_.window_ms, fixed for the whole run
    session_t_max,  \* latest sample time
    view_end,       \* right edge of the visible window
    view_span,      \* visible duration
    follow_live     \* whether the right edge follows the samples

vars == <<window_ms, session_t_max, view_end, view_span, follow_live>>

-----------------------------------------------------------------------------
(* The struct as a value: the methods below map one view to the next.        *)

View == [session : Nat, end : Int, span : Nat, live : BOOLEAN]

view == [session |-> session_t_max, end |-> view_end,
         span |-> view_span, live |-> follow_live]

Between(x, lo, hi) == IF x < lo THEN lo ELSE IF x > hi THEN hi ELSE x

view_start(v) == IF v.end > v.span THEN v.end - v.span ELSE 0

\* Fault: the span is not held to its limits.
clamp_no_limits(v) ==
    LET end == IF v.end < v.span THEN v.span ELSE v.end
    IN  [v EXCEPT !.end = IF v.session > 0 /\ end > v.session
                          THEN v.session ELSE end]

\* The window is at least one span long from zero, but never past the session.
clamp(v) ==
    LET span == Between(v.span, MinSpan, MaxSpan)
        end  == IF v.end < span THEN span ELSE v.end
    IN  [v EXCEPT !.span = span,
                  !.end  = IF v.session > 0 /\ end > v.session
                           THEN v.session ELSE end]

\* Fault: following resumes only past the edge, which clamp has just cut off.
reengage_past_edge(v) ==
    IF v.end > v.session
    THEN [v EXCEPT !.end = v.session, !.live = TRUE]
    ELSE v

\* Reaching the live edge re-engages following (pan_ms and zoom_at end so).
reengage(v) ==
    IF v.end >= v.session
    THEN [v EXCEPT !.end = v.session, !.live = TRUE]
    ELSE v

follow(v) == IF v.live THEN [v EXCEPT !.end = v.session] ELSE v

set_capture_window(v, w) ==
    clamp(follow([v EXCEPT !.span = IF w < MinSpan THEN MinSpan ELSE w]))

\* Fault: the edge is moved whether or not the view follows.
on_sample_always(v, t) ==
    clamp([v EXCEPT !.session = IF t > v.session THEN t ELSE v.session,
                    !.end     = IF t > v.session THEN t ELSE v.session])

\* Fault: the edge is moved before the sample is counted.
on_sample_late(v, t) ==
    clamp([follow(v) EXCEPT !.session = IF t > v.session THEN t ELSE v.session])

on_sample(v, t) ==
    clamp(follow([v EXCEPT !.session = IF t > v.session THEN t ELSE v.session]))

pan_ms(v, delta) ==
    reengage(clamp([v EXCEPT !.live = FALSE, !.end = @ + delta]))

reset_live(v) == clamp([v EXCEPT !.live = TRUE, !.end = v.session])

-----------------------------------------------------------------------------
(* Zoom.  The code computes in doubles and truncates.  A quotient that is    *)
(* not a whole number truncates to its integer part; one that is whole may   *)
(* come out a rounding error below and truncate to one less.                 *)

Truncations(n, d) ==
    {n \div d} \cup (IF n > 0 /\ n % d = 0 THEN {(n \div d) - 1} ELSE {})

\* The factors of OnMouseWheel, 1.2 and 1.0 / 1.2.  The second is a double just
\* above 5/6, so adding 0.5 and truncating rounds halves up.
Factors == {[num |-> 6, den |-> 5], [num |-> 5, den |-> 6]}

zoomed_span(span, f) ==
    Between((2 * span * f.num + f.den) \div (2 * f.den), MinSpan, MaxSpan)

\* Fault: the share to the left of the anchor is put to its right.
LeftOfAnchor(v, anchor, new) ==
    LET a == Between(anchor - view_start(v), 0, v.span)
    IN  Truncations(a * new, v.span)

\* (1 - rel) * new span, where rel is the anchor's share of the old window.
RightOfAnchor(v, anchor, new) ==
    LET a == Between(anchor - view_start(v), 0, v.span)
    IN  CASE a = 0      -> {new}
          [] a = v.span -> {0}
          [] OTHER      -> Truncations((v.span - a) * new, v.span)

\* The outcomes of zoom_at(anchor, factor).
zoom_at(v, anchor, f) ==
    LET new == zoomed_span(v.span, f)
    IN  {reengage(clamp([v EXCEPT !.live = FALSE, !.span = new,
                                  !.end  = anchor + right]))
            : right \in RightOfAnchor(v, anchor, new)}

\* The times a pointer x pixels into the plot can be taken for.
time_at_x(v, x) ==
    {view_start(v) + m : m \in IF x = 0 THEN {0}
                               ELSE Truncations(2 * x * v.span + PlotWidth,
                                                2 * PlotWidth)}

-----------------------------------------------------------------------------
(* The main frame and its charts. *)

FreshView == [session |-> 0, end |-> 0, span |-> DefaultSpan, live |-> TRUE]

Show(v) ==
    /\ session_t_max' = v.session
    /\ view_end'      = v.end
    /\ view_span'     = v.span
    /\ follow_live'   = v.live
    /\ UNCHANGED window_ms

Init ==
    /\ window_ms \in Windows
    /\ LET v == set_capture_window(FreshView, window_ms)
       IN  /\ session_t_max = v.session
           /\ view_end      = v.end
           /\ view_span     = v.span
           /\ follow_live   = v.live

\* OnTimer: steady_clock gives a time no earlier than the previous sample's.
Sample ==
    \E t \in session_t_max..MaxTime : Show(on_sample(view, t))

\* OnMotion while panning: any whole number of milliseconds, either way.
Drag ==
    \E delta \in PanDeltas : Show(pan_ms(view, delta))

\* OnMouseWheel over column x of a plot.
Wheel ==
    \E x \in 0..PlotWidth, f \in Factors :
        \E anchor \in time_at_x(view, x) :
            \E v \in zoom_at(view, anchor, f) : Show(v)

\* View -> Reset View
OnResetView == Show(reset_live(set_capture_window(view, window_ms)))

\* Context menu -> Reset View
ContextResetView == Show(reset_live(view))

\* View -> Clear History
OnClearHistory == Show(set_capture_window(FreshView, window_ms))

Next ==
    \/ Sample
    \/ Drag
    \/ Wheel
    \/ OnResetView
    \/ ContextResetView
    \/ OnClearHistory

Spec == Init /\ [][Next]_vars

-----------------------------------------------------------------------------
(* Properties. *)

\* Every field stays in its C++ range; the span never leaves its limits.
TypeOK ==
    /\ window_ms \in Windows
    /\ session_t_max \in Nat
    /\ view_end \in Nat
    /\ view_span \in MinSpan..MaxSpan
    /\ follow_live \in BOOLEAN

\* A live view that has samples shows the newest of them at its right edge:
\* no sequence of pans, zooms and resets leaves it "live" but behind.
LiveShowsNewest == follow_live /\ session_t_max > 0 => view_end = session_t_max

\* A paused view is strictly behind the newest sample (otherwise pan_ms and
\* zoom_at would have re-engaged following), and shows a whole window of the
\* past: its left edge is never cut off at zero.
PausedIsFullAndBehind ==
    ~follow_live => view_span <= view_end /\ view_end < session_t_max

\* A step that brings a sample leaves a paused view exactly where the user put
\* it, and never pauses or resumes one: only a gesture does.
SampleKeepsView ==
    [][session_t_max' > session_t_max =>
          /\ follow_live' = follow_live
          /\ view_span' = view_span
          /\ ~follow_live => view_end' = view_end]_vars

\* time_view.hpp:59, "Zoom keeping anchor_t fixed in the view": wherever the
\* wheel turns, if the result is neither at the live edge nor pushed back to
\* zero, the anchor's distance to the right edge is the same share of the new
\* window as of the old one, to within one unit of rounding.
ZoomKeepsAnchor ==
    \A x \in 0..PlotWidth, f \in Factors :
        \A anchor \in time_at_x(view, x) :
            \A v \in zoom_at(view, anchor, f) :
                ~v.live /\ v.end > v.span =>
                    LET old_right == view_start(view) + view_span - anchor
                        new_right == v.end - anchor
                    IN  (old_right * v.span - new_right * view_span)
                            \in 0..view_span

\* What the user is promised: see LiveWindow.  Before the first sample the code
\* shows one empty span from zero, which stands for the abstract edge 0.
Promise ==
    INSTANCE LiveWindow WITH
        Spans  <- MinSpan..MaxSpan,
        newest <- session_t_max,
        right  <- IF session_t_max = 0 THEN 0 ELSE view_end,
        span   <- view_span,
        mode   <- IF follow_live THEN "live" ELSE "paused"

ImplementsLiveWindow == Promise!Spec

=============================================================================
