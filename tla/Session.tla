------------------------------- MODULE Session -------------------------------
(* The main frame (src/src/main_frame.cpp) over the collector's choice of    *)
(* what to chart (src/src/collector.cpp): menu commands change the           *)
(* collector's options, the timer re-scans the process NAMEs, both rebuild   *)
(* the collector's chart list, and the frame rebuilds its panes from it when *)
(* it is told to.  Charts are data of the collector; panes are copies of     *)
(* chart specifications that the frame keeps.                                *)
(*                                                                           *)
(* Everything runs on one event loop, so a handler is one step.  Between the *)
(* steps processes start and exit and events wait in the queue.              *)
(* One unit of time is one second.                                           *)
EXTENDS Integers, Sequences, SequencesExt

CONSTANTS
    Pids,           \* processes that may match a NAME, as numbers
    Names,          \* NAME arguments: numbers, programs, paths, titles, globs
    Matches,        \* the processes each NAME selects when they are alive, in
                    \* the order of resolve_name (see ProcessMatch)
    Toggles,        \* charts with an on/off switch of their own
    Devices, Addrs, \* what "Add..." may be given
    Ifaces,         \* network interfaces of the machine
    Intervals,      \* the refresh intervals of the menu
    InitialOptions, \* option records the program may start with
    RescanPeriod,   \* the 2000 ms between two scans of the NAMEs
    MaxSession,     \* BOUND: clearing a longer session is like clearing this one
    MaxGestures     \* BOUND: how many things the user does

NoChart == "no chart"

Least(a, b) == IF a < b THEN a ELSE b
Most(a, b)  == IF a < b THEN b ELSE a

ASSUME TimeAssumption ==
    /\ Intervals \subseteq Nat \ {0}
    /\ RescanPeriod \in Nat \ {0}
    /\ MaxSession \in Nat /\ MaxSession >= RescanPeriod
    /\ \A ms \in Intervals : ms <= MaxSession
    /\ MaxGestures \in Nat
ASSUME ToggleAssumption ==
    Toggles \subseteq {"sys-cpu", "sys-mem", "threads", "numfd", "connections"}
ASSUME MatchAssumption ==
    /\ Pids \subseteq Nat
    /\ Matches \in [Names -> Seq(Pids)]

Options == [show     : SUBSET Toggles,
            devices  : SUBSET Devices,
            addrs    : SUBSET Addrs,
            monitor  : BOOLEAN,         \* monitor_network
            all      : BOOLEAN,         \* iface_all
            ifaces   : SUBSET Ifaces,
            names    : Seq(Names),
            interval : Intervals]

\* Interfaces are listed only where not all of them are monitored: -i keeps to
\* this, and what a session saves.
ASSUME OptionAssumption ==
    /\ InitialOptions \subseteq Options
    /\ \A o \in InitialOptions : o.ifaces # {} => o.monitor /\ ~o.all

VARIABLES
    opt,        \* the collector's options
    tracked,    \* tracked_: the matched processes in style order
    charts,     \* charts_
    now,        \* now_ms() - start_ms_, counted up to MaxSession
    wait,       \* time since timer_ was started or fired
    last,       \* last_resolve_ms, negative before the first scan
    panels,     \* the specifications the panes were built from
    active,     \* active_chart_id_
    pending,    \* queued ID_RemoveCapture events, by the chart they are for
    running,    \* the constructor has taken its first sample
    alive,      \* processes that exist and show what the NAMEs match
    unscanned,  \* HISTORY: time since the NAMEs were last resolved, if there are any,
                \* without what restarts of the timer have put off
    seen,       \* HISTORY: what was alive then
    cleared,    \* HISTORY: time was restarted since a tick last resolved them
    gestures    \* how many things the user did, time and timer left alone

frame == <<panels, active, pending>>
clock == <<now, wait, last>>
scan  == <<unscanned, seen, cleared>>
vars  == <<opt, tracked, charts, frame, clock, scan, running, alive, gestures>>

-----------------------------------------------------------------------------
(* The collector: NAMEs to processes, options and processes to charts. *)

Pid(tr) == {tr[i].pid : i \in DOMAIN tr}

\* Fault: a process is taken under every NAME that matches it.
take_again(tr, name, p) ==
    IF p \in alive THEN Append(tr, [pid |-> p, name |-> name]) ELSE tr

\* A match of a NAME is taken if no NAME before has taken it.
take(tr, name, p) ==
    IF p \in alive \ Pid(tr) THEN Append(tr, [pid |-> p, name |-> name]) ELSE tr

\* The matches of one NAME, in the order of resolve_name.
take_matches(tr, name) ==
    LET found == Matches[name]
        taken[i \in 0..Len(found)] ==
            IF i = 0 THEN tr ELSE take(taken[i - 1], name, found[i])
    IN  taken[Len(found)]

\* resolve_names: NAMEs in order, each process under the first that matches it.
\* Its place is its line style.
resolve_names(names) ==
    LET taken[i \in 0..Len(names)] ==
            IF i = 0 THEN <<>> ELSE take_matches(taken[i - 1], names[i])
    IN  taken[Len(names)]

\* Fault: as many processes are taken for the same ones.
same_number(tr) == Len(tr) = Len(tracked)

\* sync_tracked: whether a scan has found what is tracked already.
same(tr) == tr = tracked

\* A chart specification: what of the machine, or which processes, it shows.
When(cond, id, things, procs) ==
    IF cond THEN <<[id |-> id, things |-> things, procs |-> procs]>> ELSE <<>>

resolve_ifaces(o) ==
    IF ~o.monitor THEN {} ELSE IF o.all THEN Ifaces ELSE o.ifaces

\* rebuild_charts: the chart list is a function of the options and processes.
ChartsFor(o, tr) ==
       When("sys-cpu" \in o.show, "sys-cpu", {}, <<>>)
    \o When("sys-mem" \in o.show, "sys-mem", {}, <<>>)
    \o When(o.devices # {}, "device", o.devices, <<>>)
    \o When(o.monitor /\ (o.all \/ o.ifaces # {}), "network",
            resolve_ifaces(o), <<>>)
    \o When(o.addrs # {}, "address", o.addrs, <<>>)
    \o When(tr # <<>>, "proc-cpu", {}, tr)
    \o When(tr # <<>>, "proc-io", {}, tr)
    \o When("threads" \in o.show, "threads", {}, tr)
    \o When("numfd" \in o.show /\ tr # <<>>, "numfd", {}, tr)
    \o When("connections" \in o.show, "connections", {}, tr)

Ids(list) == {list[i].id : i \in DOMAIN list}

\* A setter of the collector: new options (and processes), charts rebuilt.
Rebuild(o, tr) ==
    /\ opt' = o
    /\ tracked' = tr
    /\ charts' = ChartsFor(o, tr)

-----------------------------------------------------------------------------
(* The frame. *)

\* Fault: the active chart is kept although its pane may be gone.
RebuildPanesKeepActive ==
    /\ panels' = charts'
    /\ active' = active

\* Fault: the panes are built before the charts.
RebuildPanesEarly ==
    /\ panels' = charts
    /\ active' = IF charts = <<>> THEN NoChart ELSE charts[1].id

\* RebuildPanes: new panes from the collector's charts, the first one active.
RebuildPanes ==
    /\ panels' = charts'
    /\ active' = IF charts' = <<>> THEN NoChart ELSE charts'[1].id

KeepPanes == UNCHANGED <<panels, active>>

\* The user is slower than the idle handler that delivers a queued event.
UserFree == running /\ pending = <<>>

UserTurn ==
    /\ UserFree
    /\ gestures < MaxGestures
    /\ gestures' = gestures + 1

Init ==
    /\ alive \in SUBSET Pids
    /\ opt \in InitialOptions
    /\ tracked = resolve_names(opt.names)
    /\ charts = ChartsFor(opt, tracked)
    /\ panels = charts
    /\ active = IF charts = <<>> THEN NoChart ELSE charts[1].id
    /\ pending = <<>>
    /\ running = FALSE
    /\ now = 0 /\ wait = 0 /\ last = -1
    /\ unscanned = 0 /\ seen = alive /\ cleared = FALSE
    /\ gestures = 0

\* Fault: one moment too late.
RescanDueLate(t) == opt.names # <<>> /\ (t - last > RescanPeriod \/ last < 0)

\* Fault: the NAMEs are scanned once.
RescanDueOnce(t) == opt.names # <<>> /\ last < 0

\* The NAMEs are scanned again at t when the last scan by a tick is old enough, or
\* there was none.
RescanDue(t) == opt.names # <<>> /\ (t - last >= RescanPeriod \/ last < 0)

\* tick(t), its choice of charts.
tick(t) ==
    LET due == RescanDue(t)
        tr  == resolve_names(opt.names)
    IN  /\ now' = t
        /\ last' = IF due THEN t ELSE last
        /\ unscanned' = IF due THEN 0 ELSE unscanned
        /\ seen' = IF due THEN alive ELSE seen
        /\ cleared' = IF due THEN FALSE ELSE (cleared \/ t # now)
        /\ IF due /\ ~same(tr)
           THEN Rebuild(opt, tr)
           ELSE UNCHANGED <<opt, tracked, charts>>

\* The constructor's last step: the result of tick(0) is dropped, the timer starts.
FirstTick ==
    /\ ~running
    /\ running' = TRUE
    /\ tick(0)
    /\ wait' = 0
    /\ UNCHANGED <<frame, alive, gestures>>

\* A second passes.  The time line of a session longer than MaxSession is shifted.
Pass ==
    /\ running
    /\ wait < opt.interval
    /\ wait' = wait + 1
    /\ now' = Least(now + 1, MaxSession)
    /\ last' = IF now = MaxSession /\ last > 0 THEN last - 1 ELSE last
    /\ IF opt.names = <<>> THEN unscanned' = 0 /\ seen' = {}
       ELSE /\ unscanned' = Least(unscanned + 1, RescanPeriod + MaxSession)
            /\ UNCHANGED seen
    /\ UNCHANGED <<opt, tracked, charts, frame, cleared, running, alive, gestures>>

\* OnTimer, once the interval is over: the charts' part of it (TimeView has the
\* time axis, Sampling the recorder).
OnTimer ==
    /\ running
    /\ wait = opt.interval
    /\ wait' = 0
    /\ tick(now)
    /\ IF tracked' # tracked THEN RebuildPanes ELSE KeepPanes
    /\ UNCHANGED <<pending, running, alive, gestures>>

\* OnClearHistory: time restarts at zero, the stamp of the last scan does not, nor
\* does the timer.  Here too the result of tick(0) is dropped.
OnClearHistory ==
    /\ UserFree
    /\ tick(0)
    /\ UNCHANGED <<frame, wait, running, alive, gestures>>

\* The timer is started anew, and its time up to now is lost.
RestartTimer ==
    /\ wait' = 0
    /\ unscanned' = Most(unscanned - wait, 0)

\* Fault: an interval of nothing is taken.
SetAnyInterval ==
    /\ UserFree
    /\ \E ms \in Intervals \cup {0} : opt' = [opt EXCEPT !.interval = ms]
    /\ RestartTimer
    /\ UNCHANGED <<tracked, charts, frame, now, last, seen, cleared, running, alive,
                   gestures>>

\* OnInterval, SetIntervalMs: the one in force may be chosen again.
SetInterval ==
    /\ UserFree
    /\ \E ms \in Intervals : opt' = [opt EXCEPT !.interval = ms]
    /\ RestartTimer
    /\ UNCHANGED <<tracked, charts, frame, now, last, seen, cleared, running, alive,
                   gestures>>

\* OnToggleCpu, OnToggleMemory, OnToggleThreads, ...: the menu item mirrors the
\* collector's switch, so a click asks for the opposite.
OnToggle ==
    /\ UserTurn
    /\ \E id \in Toggles :
          LET on == id \notin opt.show
          IN  Rebuild([opt EXCEPT !.show = IF on THEN @ \cup {id} ELSE @ \ {id}],
                      tracked)
    /\ RebuildPanes
    /\ UNCHANGED <<pending, clock, scan, running, alive>>

\* OnToggleNetwork: all interfaces or none.
OnToggleNetwork ==
    LET on == ~opt.monitor
    IN  /\ UserTurn
        /\ Rebuild([opt EXCEPT !.monitor = on, !.all = on, !.ifaces = {}], tracked)
        /\ RebuildPanes
        /\ UNCHANGED <<pending, clock, scan, running, alive>>

\* OnAddCapture, a device or an address: what is charted already is refused.
AddDevice ==
    /\ UserTurn
    /\ \E d \in Devices \ opt.devices :
          Rebuild([opt EXCEPT !.devices = @ \cup {d}], tracked)
    /\ RebuildPanes
    /\ UNCHANGED <<pending, clock, scan, running, alive>>

AddAddr ==
    /\ UserTurn
    /\ \E a \in Addrs \ opt.addrs :
          Rebuild([opt EXCEPT !.addrs = @ \cup {a}], tracked)
    /\ RebuildPanes
    /\ UNCHANGED <<pending, clock, scan, running, alive>>

\* OnAddCapture, an interface.  One that is listed already rebuilds the charts
\* but reports no change.
AddIface ==
    /\ UserTurn
    /\ \/ /\ Rebuild([opt EXCEPT !.monitor = TRUE, !.all = TRUE, !.ifaces = {}],
                     tracked)
          /\ RebuildPanes
       \/ \E i \in Ifaces :
             /\ Rebuild([opt EXCEPT !.monitor = TRUE, !.all = FALSE,
                                    !.ifaces = @ \cup {i}], tracked)
             /\ IF i \in opt.ifaces THEN KeepPanes ELSE RebuildPanes
    /\ UNCHANGED <<pending, clock, scan, running, alive>>

\* OnOpenPid, OnAddCapture (one NAME) and OnOpenProcess (several): every call of
\* add_name resolves the NAMEs and rebuilds the charts, but only a new NAME is
\* reported as a change.
AddNames ==
    /\ UserTurn
    /\ \E a, b \in Names :
          LET known == ToSet(opt.names)
              new   == (IF a \in known THEN <<>> ELSE <<a>>)
                       \o (IF b \in known \cup {a} THEN <<>> ELSE <<b>>)
              names == opt.names \o new
          IN  /\ Rebuild([opt EXCEPT !.names = names], resolve_names(names))
              /\ IF new # <<>> THEN RebuildPanes ELSE KeepPanes
    /\ unscanned' = 0 /\ seen' = alive
    /\ UNCHANGED <<pending, clock, cleared, running, alive>>

\* Fault: every chart is taken for one with a switch.
WithoutSwitch(id) == [opt EXCEPT !.show = @ \ {id}]

\* remove_chart: the options without a chart.
Without(id) ==
    CASE id = "network" -> [opt EXCEPT !.monitor = FALSE, !.all = FALSE,
                                       !.ifaces = {}]
      [] id = "device"  -> [opt EXCEPT !.devices = {}]
      [] id = "address" -> [opt EXCEPT !.addrs = {}]
      [] id \in {"proc-cpu", "proc-io"} -> [opt EXCEPT !.names = <<>>]
      [] OTHER          -> [opt EXCEPT !.show = @ \ {id}]

\* OnRemoveCapture: the active chart.  A switch that is off already changes
\* nothing; every other kind always reports a change.
RemoveActive ==
    IF active = NoChart \/ active \in Toggles \ opt.show
    THEN UNCHANGED <<opt, tracked, charts, panels, active>>
    ELSE /\ Rebuild(Without(active),
                    IF active \in {"proc-cpu", "proc-io"} THEN <<>> ELSE tracked)
         /\ RebuildPanes

\* View -> Remove, or Delete
OnRemoveCapture ==
    /\ UserTurn
    /\ RemoveActive
    /\ UNCHANGED <<pending, clock, scan, running, alive>>

\* A click on a pane makes its chart the active one.
OnLeftDown ==
    /\ UserTurn
    /\ active' \in Ids(panels)
    /\ UNCHANGED <<opt, tracked, charts, panels, pending, clock, scan, running,
                   alive>>

\* Context menu -> Remove Chart: the pane makes itself the active chart and
\* queues the event of the menu command.
ContextRemove ==
    /\ UserTurn
    /\ \E id \in Ids(panels) :
          /\ active' = id
          /\ pending' = <<id>>
    /\ UNCHANGED <<opt, tracked, charts, panels, clock, scan, running, alive>>

\* The idle handler delivers the queued event.
DeliverRemove ==
    /\ pending # <<>>
    /\ pending' = Tail(pending)
    /\ RemoveActive
    /\ UNCHANGED <<clock, scan, running, alive, gestures>>

\* Processes come and go (or show and lose a window title) at any time.
Start(p) ==
    /\ p \notin alive
    /\ alive' = alive \cup {p}
    /\ UNCHANGED <<opt, tracked, charts, frame, clock, scan, running, gestures>>

Exit(p) ==
    /\ p \in alive
    /\ alive' = alive \ {p}
    /\ UNCHANGED <<opt, tracked, charts, frame, clock, scan, running, gestures>>

Gesture ==
    \/ OnClearHistory
    \/ SetInterval
    \/ OnToggle
    \/ OnToggleNetwork
    \/ AddDevice
    \/ AddAddr
    \/ AddIface
    \/ AddNames
    \/ OnRemoveCapture
    \/ OnLeftDown
    \/ ContextRemove

Next ==
    \/ FirstTick
    \/ Pass
    \/ OnTimer
    \/ DeliverRemove
    \/ Gesture
    \/ \E p \in Pids : Start(p) \/ Exit(p)

\* The event loop keeps running: the constructor returns, time passes and the timer
\* fires.  Nothing is asked of the user, of the processes or of queued events.
Fairness == WF_vars(FirstTick \/ Pass \/ OnTimer)

Spec == Init /\ [][Next]_vars /\ Fairness

-----------------------------------------------------------------------------
(* Properties. *)

Processes == Seq([pid : Pids, name : Names])
ChartIds == {"sys-cpu", "sys-mem", "device", "network", "address", "proc-cpu",
             "proc-io", "threads", "numfd", "connections"}
ChartSpecs == [id : ChartIds, procs : Processes,
               things : SUBSET (Devices \cup Addrs \cup Ifaces)]

\* Every variable in its range; at most one remove event is queued.
TypeOK ==
    /\ opt \in Options
    /\ tracked \in Processes
    /\ charts \in Seq(ChartSpecs)
    /\ panels \in Seq(ChartSpecs)
    /\ active \in ChartIds \cup {NoChart}
    /\ pending \in Seq(ChartIds) /\ Len(pending) <= 1
    /\ now \in 0..MaxSession
    /\ wait \in 0..opt.interval
    /\ last \in -1..MaxSession
    /\ unscanned \in 0..(RescanPeriod + MaxSession)
    /\ running \in BOOLEAN
    /\ alive \subseteq Pids
    /\ seen \subseteq Pids
    /\ cleared \in BOOLEAN
    /\ gestures \in 0..MaxGestures

\* A process is tracked once, under a NAME the session still has; with no NAME
\* left nothing is tracked, or the process charts could not be got rid of.
TrackedOnceByName ==
    /\ \A i, j \in DOMAIN tracked : tracked[i].pid = tracked[j].pid => i = j
    /\ \A i \in DOMAIN tracked : tracked[i].name \in ToSet(opt.names)

\* The active chart always has a pane, and there is one whenever there are
\* panes, so Remove and the keyboard never act on a chart that is gone.
ActiveHasPane ==
    IF panels = <<>> THEN active = NoChart ELSE active \in Ids(panels)

\* No scan of the NAMEs is ever older than the period that the code asks for and
\* the interval of the timer, also between two ticks and for any change of the
\* interval: a restart of the timer puts a scan off by what it had counted, no more.
\* After the history is cleared, this begins again with the next scan by a tick.
RescanInTime ==
    running /\ opt.names # <<>> /\ ~cleared => unscanned < RescanPeriod + opt.interval

\* The panes follow the charts whenever a setting or the timer changes them.
\* (Adding a known NAME and the two calls of tick(0) are the exceptions.)
PanesFollowCharts ==
    [][charts' # charts =>
          \/ panels' = charts'
          \/ opt' = opt /\ (~running \/ wait' = wait)]_vars

\* Removing the active chart removes that chart and nothing else, except that
\* the two process charts go together and take the per-process chart along.
RemoveTakesOnlyItsOwn ==
    [][pending # <<>> /\ pending' = <<>> =>
          LET gone == Ids(charts) \ Ids(charts')
          IN  /\ active \notin Ids(charts')
              /\ gone \subseteq IF active \in {"proc-cpu", "proc-io"}
                                THEN {"proc-cpu", "proc-io", "numfd"}
                                ELSE {active}]_vars

\* A process that some NAME of the session selects, and one that none selects
\* any more.
Selected(p) == \E name \in ToSet(opt.names) : p \in ToSet(Matches[name]) \cap alive

\* A scan of the NAMEs leaves nothing out and nothing behind, and nothing but a scan
\* or a removal touches its result: what is tracked is what was alive at the last
\* scan and what the NAMEs of the session select.
TracksSelected ==
    \A p \in Pids : p \in Pid(tracked) <=>
        p \in seen /\ \E name \in ToSet(opt.names) : p \in ToSet(Matches[name])

\* Newly started processes appear, and those that are gone disappear: if the user
\* leaves history and interval alone from some time on, no process is out of step for
\* ever, tracked where no NAME selects it or missing where one does, whatever starts
\* and exits.
TrackingCatchesUp ==
    <>[][~OnClearHistory /\ ~SetInterval]_vars =>
        \A p \in Pids : []<>(running /\ (Selected(p) <=> p \in Pid(tracked)))

\* collector.cpp:592, "Re-scan NAMEs periodically so newly started processes
\* appear": no session, one that begins where the history is cleared included, lasts
\* five of the periods and an interval without a scan.
RescanAlwaysInTime ==
    LET long == 5 * RescanPeriod + opt.interval
    IN  running /\ opt.names # <<>> /\ now >= long => unscanned < long

\* collector.hpp:105, "Returns true if chart membership changed (caller should
\* rebuild panes)": while it runs, the frame shows the charts there are.
PanesShowCharts == running => Ids(panels) = Ids(charts)

\* main_frame.cpp:133, "Remove the focused chart capture": the chart a queued
\* remove event is for is still the active one when it is delivered.
RemoveHitsItsChart == pending # <<>> => active = pending[1]

=============================================================================
