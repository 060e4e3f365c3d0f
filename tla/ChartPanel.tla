----------------------------- MODULE ChartPanel ------------------------------
(* One chart panel (src/src/chart_panel.cpp) in the hands of the user: panning *)
(* with the mouse captured, the fading legends, the switches of series and   *)
(* processes behind the legend rows, the context menu.  The frame            *)
(* (src/src/main_frame.cpp) deletes the panel and makes a new one whenever   *)
(* the charts change, whatever the user is doing; a timer tick does so even  *)
(* inside the nested event loop of the context menu.                         *)
(*                                                                           *)
(* What the window toolkit does with the mouse is external: it delivers      *)
(* events, keeps a stack of the windows that captured the mouse, and takes   *)
(* the capture away when a menu opens.                                       *)
EXTENDS Integers, FiniteSets

CONSTANTS
    Types,          \* types of the chart, among those of ChartTypes
    KindsOf,        \* the kinds of series that charts of each type have
    Pids,           \* processes that may be tracked
    Columns,        \* columns of the panel, as numbers
    Widths,         \* widths that the plot may be painted with
    Span,           \* view_span, in ms: the wheel, which changes it, is TimeView's
    Idle, Hover,    \* kLegendIdle, kLegendHover, in hundredths
    Fresh, Step,    \* legend_alpha_ of a new panel, step of OnFadeTimer
    MaxPieces,      \* BOUND: motions of a drag while the plot keeps its width
    MaxChanges      \* BOUND: changes of charts, processes and switches

ChartTypes == {"sys-mem", "proc-cpu", "proc-io", "threads"}
None == 0

ASSUME ChartAssumption ==
    /\ Types \subseteq ChartTypes
    /\ \A type \in Types : "process" \notin KindsOf[type]
    /\ Pids \subseteq Nat \ {0}
    /\ Columns \subseteq Nat \ {0}
    /\ Widths \subseteq Nat
    /\ Span \in Nat
    /\ MaxPieces \in Nat
    /\ MaxChanges \in Nat
ASSUME FadeAssumption ==
    /\ Idle \in Nat /\ Hover \in Nat /\ Fresh \in Nat /\ Step \in Nat \ {0}
    /\ Idle < Fresh /\ Fresh < Hover

VARIABLES
    type,       \* spec_.type
    tracked,    \* the collector's tracked processes
    spec,       \* spec_.series, keys of series; no panel where there are none
    series_off, \* enabled_series_: the keys that are switched off
    procs_off,  \* enabled_procs_: the processes that are switched off
    width,      \* plot_rect_.width, 0 where it is none or the panel was not painted
    hits,       \* legend_hits_: the rows as they were painted last
    panning,    \* panning_
    pan_last,   \* pan_last_, its column
    hover,      \* hover_
    alpha,      \* legend_alpha_, in hundredths
    fading,     \* fade_timer_ is running
    captured,   \* the panel is the window that has captured the mouse
    dangling,   \* a deleted panel is on the toolkit's stack of captures
    menu,       \* the context menu: "none", "open", or "orphan", of a deleted panel
    inside,     \* the pointer is in the panel
    x,          \* ... at this column
    held,       \* the left button is down
    sane,       \* no handler of a deleted panel has run: after one, anything may
    grip,       \* HISTORY: the column at which the drag under way began, or None
    from,       \* HISTORY: pan_last_ at the press, or where the plot last got another width
    pieces,     \* HISTORY: by how many motions the view was panned since
    asked,      \* HISTORY: how far it was panned since, in ms, to the past below zero
    missed,     \* HISTORY: the last motion of the drag found the plot too narrow to pan
    lost,       \* HISTORY: the capture was taken away while panning
    changes     \* how many changes there were

switches == <<series_off, procs_off>>
way      == <<from, pieces, asked, missed>>
drag     == <<panning, pan_last, captured, dangling, grip, way, lost>>
fade     == <<hover, alpha, fading>>
chart    == <<type, tracked, spec>>
pointer  == <<inside, x, held>>
vars == <<chart, switches, width, hits, drag, fade, menu, pointer, sane,
          changes>>

-----------------------------------------------------------------------------
(* What a panel shows. *)

Key(kind, pid) == [kind |-> kind, pid |-> pid]
ProcessRow(p)  == Key("process", p)

is_process_chart(t) == t # "sys-mem"

\* Charts whose legend has one row for each kind, of all processes.
ByKind(t) == t \in {"proc-io", "threads"}

\* The series of a chart: per process, of the system where it is not a process
\* chart, and of the system for thread counts of no process.
SeriesOf(t, tr) ==
    LET owners == IF is_process_chart(t) /\ ~(t = "threads" /\ tr = {})
                  THEN tr ELSE {0}
    IN  {Key(kind, p) : kind \in KindsOf[t], p \in owners}

Present == spec # {}

SameKind(kind) == {k \in spec : k.kind = kind}

\* Metric rows: one for each series, or for the first one of each kind.
MetricRows ==
    IF is_process_chart(type) /\ ~ByKind(type) THEN {}
    ELSE {k \in spec : ByKind(type) => \A j \in SameKind(k.kind) : k.pid <= j.pid}

ProcessRows == IF is_process_chart(type) THEN {ProcessRow(p) : p \in tracked} ELSE {}

Change == changes < MaxChanges /\ changes' = changes + 1

-----------------------------------------------------------------------------
(* The toolkit. *)

\* The events of the mouse reach the panel.
Reached == sane /\ Present /\ inside /\ menu = "none"

\* ReleaseMouse where the panel has the capture, or the loss of it.  The window
\* below on the stack gets the capture, or is told of the loss: a deleted one
\* cannot be.
DropCapture ==
    /\ captured' = FALSE
    /\ sane' = ~(captured /\ dangling)

\* The history of how far a drag came begins, or there is none.
Measure(column) == from' = column /\ pieces' = 0 /\ asked' = 0

-----------------------------------------------------------------------------
(* The handlers of the panel. *)

\* A new panel: the initial values of its fields.
NewPanel(t, tr) ==
    /\ spec' = SeriesOf(t, tr)
    /\ series_off' = {} /\ procs_off' = {}
    /\ width' = 0 /\ hits' = {}
    /\ panning' = FALSE /\ pan_last' = None
    /\ hover' = FALSE /\ alpha' = Fresh /\ fading' = FALSE

Init ==
    /\ type \in Types
    /\ tracked \in SUBSET Pids
    /\ spec = SeriesOf(type, tracked)
    /\ series_off = {} /\ procs_off = {}
    /\ width = 0 /\ hits = {}
    /\ panning = FALSE /\ pan_last = None
    /\ hover = FALSE /\ alpha = Fresh /\ fading = FALSE
    /\ captured = FALSE /\ dangling = FALSE
    /\ menu = "none"
    /\ inside = FALSE /\ x \in Columns /\ held = FALSE
    /\ sane = TRUE
    /\ grip = None /\ from = None /\ pieces = 0 /\ asked = 0 /\ missed = FALSE
    /\ lost = FALSE
    /\ changes = 0

\* OnPaint: where the plot is, and the rows of the legends, none of them where the
\* panel is too small or shows no legends (the View menu and the context menu say
\* whether it does).
OnPaint ==
    /\ sane /\ Present
    /\ width' \in Widths
    /\ hits' \in {{}} \cup {MetricRows \cup ProcessRows : w \in {width'} \ {0, 1}}
    /\ IF panning /\ width' # width THEN Measure(pan_last)
       ELSE UNCHANGED <<from, pieces, asked>>
    /\ UNCHANGED missed
    /\ UNCHANGED <<chart, switches, panning, pan_last, captured, dangling, grip,
                   lost, fade, menu, pointer, sane, changes>>

\* Fault: the timer is started once, for the first fade.
StartFadeFirst == fading' = (fading \/ alpha = Fresh)

\* fade_timer_.Start, where it does not run.
StartFade == fading' = TRUE

\* What the quotient n / d of doubles may be truncated to: one that is whole may
\* come out a rounding error below.
Truncations(n, d) == {q \in 0..n : n - q * d \in 0..d}

Distance(a, b) == IF a < b THEN b - a ELSE a - b

\* What a motion to a column asks of the view, in whole milliseconds: what is less
\* than one is dropped.  "Drag right -> look earlier".
Ask(column) ==
    \E ms \in Truncations(Distance(column, pan_last) * Span, width) :
        asked' = IF column > pan_last THEN asked - ms ELSE asked + ms

\* Fault: where the last motion was is forgotten.
PanFromPress(column) ==
    /\ missed' = FALSE
    /\ IF column # pan_last /\ width > 1
       THEN Ask(column) /\ pieces' = pieces + 1
       ELSE UNCHANGED <<asked, pieces>>
    /\ UNCHANGED <<pan_last, from>>

\* The view is panned by what the pointer moved since the last motion that panned;
\* a plot that is too narrow does not pan, and does not forget.
PanTo(column) ==
    /\ IF width <= 1
       THEN missed' = TRUE /\ UNCHANGED <<pan_last, pieces, asked>>
       ELSE /\ missed' = FALSE
            /\ IF column # pan_last
               THEN Ask(column) /\ pan_last' = column /\ pieces' = pieces + 1
               ELSE UNCHANGED <<pan_last, pieces, asked>>
    /\ UNCHANGED from

\* OnMotion: a drag pans the view by what the pointer moved (TimeView says what
\* becomes of it), any other motion lights the legends.
OnMotion ==
    /\ Reached
    /\ x' \in Columns
    /\ IF panning /\ held
       THEN pieces < MaxPieces /\ PanTo(x') /\ UNCHANGED fade
       ELSE /\ IF hover THEN UNCHANGED fading ELSE StartFade
            /\ hover' = TRUE
            /\ UNCHANGED <<pan_last, way, alpha>>
    /\ UNCHANGED <<chart, switches, width, hits, panning, captured,
                   dangling, grip, lost, menu, inside, held, sane, changes>>

\* Fault: a drag ends and keeps the mouse.
StopPanningKeepMouse == panning' = FALSE /\ UNCHANGED <<captured, sane>>

\* The end of a drag: ReleaseMouse where HasCapture.
StopPanning ==
    /\ panning' = FALSE
    /\ IF panning THEN DropCapture ELSE UNCHANGED <<captured, sane>>

\* OnLeave: leaving ends a drag and dims the legends.
OnLeave ==
    /\ Reached
    /\ inside' = FALSE
    /\ StopPanning
    /\ hover' = FALSE
    /\ StartFade
    /\ grip' = None /\ lost' = FALSE
    /\ Measure(None) /\ missed' = FALSE
    /\ UNCHANGED <<chart, switches, width, hits, pan_last, dangling,
                   alpha, menu, x, held, changes>>

Target(over) == IF over THEN Hover ELSE Idle

\* Fault: the fading ends at the target only, which the steps pass by.
NearExactly(far) == far = 0

\* A distance at which OnFadeTimer may take the target.  At exactly one step the
\* rounding decides whether it does so now or at the next event.
Near(far) == far <= Step

\* OnFadeTimer
OnFadeTimer ==
    LET target == Target(hover)
        far    == Distance(alpha, target)
    IN  /\ sane /\ Present /\ fading
        /\ \/ /\ Near(far)
              /\ alpha' = target
              /\ fading' = FALSE
           \/ /\ far = Step \/ ~Near(far)
              /\ alpha' = IF alpha < target THEN alpha + Step ELSE alpha - Step
              /\ UNCHANGED fading
        /\ UNCHANGED <<chart, switches, width, hits, drag, hover, menu,
                       pointer, sane, changes>>

\* What is in one of two sets only; a set with some members switched over.
Flipped(old, new) == (old \ new) \cup (new \ old)

\* Fault: a metric row switches the series it was painted for.
ToggleRowAlone(row) ==
    IF row.kind = "process"
    THEN procs_off' = Flipped(procs_off, {row.pid}) /\ UNCHANGED series_off
    ELSE series_off' = Flipped(series_off, {row}) /\ UNCHANGED procs_off

\* Fault: a process row switches the process that is in its place by now.
ToggleRowInPlace(row) ==
    IF row.kind = "process"
    THEN /\ \E p \in IF row.pid \in tracked THEN {row.pid} ELSE tracked :
               procs_off' = Flipped(procs_off, {p})
         /\ UNCHANGED series_off
    ELSE series_off' = Flipped(series_off, {row}) /\ UNCHANGED procs_off

\* OnLeftDown, a legend row: a process's switch, that of a kind across all
\* processes (off where any of it is on), or that of one series.
ToggleRow(row) ==
    LET same == IF ByKind(type) THEN SameKind(row.kind) ELSE {row}
    IN  IF row.kind = "process"
        THEN procs_off' = Flipped(procs_off, {row.pid}) /\ UNCHANGED series_off
        ELSE /\ series_off' = IF same \subseteq series_off THEN series_off \ same
                              ELSE series_off \cup same
             /\ UNCHANGED procs_off

PressRow ==
    /\ Reached /\ ~held
    /\ Change
    /\ held' = TRUE
    /\ \E row \in hits : ToggleRow(row)
    /\ grip' = None
    /\ UNCHANGED <<chart, width, hits, panning, pan_last, captured,
                   dangling, way, lost, fade, menu, inside, x, sane>>

\* OnLeftDown, the plot: the drag begins and the mouse is captured.
PressPlot ==
    /\ Reached /\ ~held
    /\ width > 0
    /\ held' = TRUE
    /\ panning' = TRUE
    /\ pan_last' = x
    /\ captured' = TRUE
    /\ grip' = x /\ lost' = FALSE
    /\ Measure(x) /\ missed' = FALSE
    /\ UNCHANGED <<chart, switches, width, hits, dangling, fade, menu,
                   inside, x, sane, changes>>

\* OnLeftDown, anywhere else
PressElsewhere ==
    /\ sane /\ ~held
    /\ menu = "none"
    /\ held' = TRUE
    /\ grip' = None
    /\ UNCHANGED <<chart, switches, width, hits, panning, pan_last,
                   captured, dangling, way, lost, fade, menu, inside, x, sane,
                   changes>>

\* OnLeftUp
OnLeftUp ==
    /\ Reached /\ held
    /\ held' = FALSE
    /\ StopPanning
    /\ grip' = None /\ lost' = FALSE
    /\ Measure(None) /\ missed' = FALSE
    /\ UNCHANGED <<chart, switches, width, hits, pan_last, dangling,
                   fade, menu, inside, x, changes>>

\* The button is released where the panel is not told: outside it, over a menu.
ReleaseElsewhere ==
    /\ sane /\ held /\ ~Reached
    /\ held' = FALSE
    /\ grip' = None
    /\ UNCHANGED <<chart, switches, width, hits, panning, pan_last,
                   captured, dangling, way, lost, fade, menu, inside, x, sane,
                   changes>>

\* The pointer comes in; the panel has no handler for that.
Enter ==
    /\ sane /\ ~inside /\ menu = "none"
    /\ inside' = TRUE
    /\ x' \in Columns
    /\ UNCHANGED <<chart, switches, width, hits, drag, fade, menu, held,
                   sane, changes>>

\* OnRightDown opens the menu, whose loop runs inside the handler.  The menu takes
\* the capture; nothing handles wxEVT_MOUSE_CAPTURE_LOST, so panning_ stays.
OnRightDown ==
    /\ Reached
    /\ menu' = "open"
    /\ DropCapture
    /\ lost' = (lost \/ panning)
    /\ grip' = None
    /\ UNCHANGED <<chart, switches, width, hits, panning, pan_last,
                   dangling, way, fade, pointer, changes>>

\* The menu closes; what its commands change is ViewState's, TimeView's and
\* Session's.  The pointer may be anywhere by now.  A deleted panel's handler goes
\* on where the loop was.
CloseMenu ==
    /\ sane /\ menu # "none"
    /\ menu' = "none"
    /\ inside' \in BOOLEAN /\ x' \in Columns
    /\ sane' = (menu = "open")
    /\ UNCHANGED <<chart, switches, width, hits, drag, fade, held, changes>>

-----------------------------------------------------------------------------
(* The frame. *)

\* RebuildPanes, after a tick or a command that changed the charts: the panel is
\* deleted, with the mouse captured and the menu open or not, and a new one made.
RebuildPanes ==
    /\ sane
    /\ Change
    /\ tracked' \in SUBSET Pids
    /\ NewPanel(type, tracked')
    /\ captured' = FALSE
    /\ dangling' = (dangling \/ captured)
    /\ menu' = IF menu = "open" THEN "orphan" ELSE menu
    /\ lost' = FALSE
    /\ Measure(None) /\ missed' = FALSE
    /\ UNCHANGED <<type, grip, pointer, sane>>

\* The two ticks whose result is dropped and the addition of a known NAME: the
\* collector tracks other processes, the panel stays.
Retrack ==
    /\ sane
    /\ Change
    /\ tracked' \in SUBSET Pids \ {tracked}
    /\ UNCHANGED <<type, spec, switches, width, hits, drag, fade, menu,
                   pointer, sane>>

Next ==
    \/ OnPaint
    \/ OnMotion
    \/ OnLeave
    \/ OnFadeTimer
    \/ PressRow
    \/ PressPlot
    \/ PressElsewhere
    \/ OnLeftUp
    \/ ReleaseElsewhere
    \/ Enter
    \/ OnRightDown
    \/ CloseMenu
    \/ RebuildPanes
    \/ Retrack

\* The event loop runs timers, also under the menu.  The user owes nothing.
Spec == Init /\ [][Next]_vars /\ WF_vars(OnFadeTimer)

-----------------------------------------------------------------------------
(* Properties. *)

Keys == {Key(kind, p) : kind \in UNION {KindsOf[t] : t \in Types},
                        p \in Pids \cup {0}}
Rows == Keys \cup {ProcessRow(p) : p \in Pids}

\* Every variable in its range; the legends never leave the two intensities.
TypeOK ==
    /\ type \in Types
    /\ tracked \subseteq Pids
    /\ spec \subseteq Keys
    /\ series_off \subseteq Keys /\ procs_off \subseteq Pids
    /\ hits \subseteq Rows
    /\ pan_last \in Columns \cup {None} /\ grip \in Columns \cup {None}
    /\ x \in Columns
    /\ from \in Columns \cup {None}
    /\ width \in Widths \cup {0}
    /\ pieces \in Nat /\ asked \in Int /\ missed \in BOOLEAN
    /\ alpha \in Idle..Hover
    /\ menu \in {"none", "open", "orphan"}
    /\ changes \in 0..MaxChanges
    /\ panning \in BOOLEAN /\ captured \in BOOLEAN /\ dangling \in BOOLEAN
    /\ hover \in BOOLEAN /\ fading \in BOOLEAN
    /\ inside \in BOOLEAN /\ held \in BOOLEAN
    /\ sane \in BOOLEAN /\ lost \in BOOLEAN

\* The mouse is captured exactly while the panel pans, unless the capture was
\* taken away: no other window is ever kept from the mouse.
CaptureWhilePanning ==
    sane => /\ captured => panning /\ held /\ inside
            /\ panning /\ ~lost => captured

\* While a drag lasts, the button is down and the view has been panned by as much
\* as the pointer moved, less at most a millisecond for each motion; only a plot
\* that has become too narrow for it keeps the view where it is.
DragFollowsPointer ==
    sane /\ panning /\ ~lost =>
        /\ held /\ grip # None
        /\ pan_last = x \/ missed
        /\ Distance(width * asked, Span * (from - pan_last)) <= width * pieces

\* The series of one kind are on or off together, so that a row that is painted
\* for the first of them tells the truth of all.
KindsSwitchTogether ==
    ByKind(type) =>
        \A j, k \in spec : j.kind = k.kind => (j \in series_off <=> k \in series_off)

\* A panel whose legends are not as the pointer wants them is fading.
FadePending ==
    ~fading => alpha = Target(hover) \/ (alpha = Fresh /\ ~hover)

\* As long as a panel lives, its switches move by a click on one of the rows it
\* painted, and that moves what the row was painted for and nothing else, even
\* where the processes have changed since: one process, or the series of a kind.
OneRowAtATime ==
    [][width' # 0 /\ switches' # switches =>
          \E row \in hits :
              LET same == IF ByKind(type) THEN SameKind(row.kind) ELSE {row}
              IN  IF row.kind = "process"
                  THEN /\ Flipped(procs_off, procs_off') = {row.pid}
                       /\ series_off' = series_off
                  ELSE /\ Flipped(series_off, series_off') = same
                       /\ procs_off' = procs_off]_vars

\* When the pointer stays in or out, the fading comes to its end.
Faded == ~fading /\ (alpha = Target(hover) \/ alpha = Fresh)
FadeEnds ==
    \A over \in BOOLEAN :
        <>[](sane /\ Present /\ hover = over) => []<>Faded

\* README.md:37, "Drag on a chart to pan the shared time view": until the button
\* is released, the pointer leaves or a menu opens, the drag goes on.
DragLasts == sane /\ grip # None => panning

=============================================================================
