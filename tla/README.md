# A verification of pidload in TLA+

pidload charts the load of processes, devices and network interfaces. It is one
process with one event loop: a timer samples counters of `/proc`, the samples
become points of series, charts draw them on a shared time axis, a recorder
writes them to logs, and menus change what is charted. This directory models
the parts of it that keep state, checks them with TLC and proves some of the
results with TLAPS. Paths below are relative to the repository (`src/...`).

## Inventory

| Part | State | Operations | What makes it correct |
|---|---|---|---|
| Time axis `src/time_view.hpp` | newest sample, right edge, span, live flag | `on_sample`, `pan_ms`, `zoom_at`, `reset_live`, `set_capture_window`, `clamp` | live at the newest sample or paused on a full span behind it; only gestures change which; zoom keeps the time under the pointer |
| Main frame `src/main_frame.cpp` | panels, active chart, timer, start time, options, layout | timer, clear, toggles, add, remove, open process, reset, close | panes show the collector's charts; the active chart has a pane; a removal takes what it was asked to take |
| Collector, choice of charts `src/collector.cpp` | options, tracked processes, chart list, stamp of the last scan | `set_show_*`, `set_monitor_network`, `add_*`, `remove_chart`, the scan in `tick` | a process is tracked once; processes that start appear in time, those that exit disappear |
| Collector, counters `src/collector.cpp` | previous readings, series, map of addresses | `sample_devices`, `sample_ifaces`, `sample_addrs`, `push_point`, `clear_history` | nothing counted twice, nothing lost; points in time order; a bounded series |
| Collector, processes `src/collector.cpp` | previous jiffies and I/O, sets of seen threads and sockets | `sample_pids`, `sample_threads`, `sample_connections` | nothing counted twice or lost, shares bounded by what the machine did, totals bounded by what the session had |
| Collector, CPU and memory `src/collector.cpp` | previous readings of the cores | `sample_cpu`, `sample_memory` | not modelled: one formula over two readings, or one |
| Recorder `src/recorder.cpp` | open files | `open_log`, `write_sample` | the log tells what the chart tells; one line per interval; a log that cannot be opened disturbs no other |
| Process matching `src/process_match.cpp` | none | `resolve_name`, `resolve_names` | a NAME selects what the manual says, the best kinds of match first; no process twice |
| Options and view state `src/options.cpp`, `src/view_state.cpp` | options, state file | parse, load, apply, capture, save | a run starts with what it is told and otherwise with what the last run left; restarting is not a change; a cut file does no harm |
| Chart panel `src/chart_panel.cpp` | panning and capture, hover, legend switches, fade | pointer handlers, fade timer, context menu, paint | the mouse is captured while the panel pans, the view follows the pointer, a legend row switches what it was painted for, fades end |
| Dialogs, start-up, packaging | - | - | not modelled |

They interact by calls on one thread. The frame's `OnTimer` calls the
collector's `tick`, then the time axis, then the recorder, and rebuilds the
panes when `tick` says that the charts changed. Menu handlers call a setter of
the collector, which rebuilds the charts, and then rebuild the panes. Panels
hold a copy of their chart's specification and pointers to the collector and
the time axis; they call back into the frame to redraw, and to remove
themselves by a *queued* event.

What is hard here is therefore not parallel threads but order: timer ticks
between a click and the event it queued, processes that start between two
steps, counters that restart between two readings, time that restarts at Clear
History, and state (stamps, previous readings, maps, copies) that outlives what
it was about. `PROJECT.json` lists each hazard at its line with the properties
aimed at it.

## Modules

| Module | What it is |
|---|---|
| `LiveWindow` | The promise of the time axis: a window of a growing session is live or paused, and only the user changes which. |
| `TimeView` | `src/time_view.hpp` and every handler that calls it. Its methods are operators from views to views; `zoom_at` and `time_at_x` return the *set* of results that double arithmetic can give. |
| `TimeViewProofs` | The theorems about `TimeView`. |
| `Session` | The frame over the collector's choice of charts. |
| `SessionProofs` | The theorems about `Session`. |
| `ProcessMatch` | Which processes a NAME selects: an algorithm without a state. |
| `SessionMatch` | `Session` with its NAMEs resolved by `ProcessMatch`; the run of `Session` checks it. |
| `ProcessMatchProofs` | The theorems about `ProcessMatch` and `SessionMatch`. |
| `Sampling` | The counters of devices, interfaces and addresses, the series and the logs. |
| `SamplingProofs` | The theorems about `Sampling`. |
| `ProcSampling` | The counters, threads and sockets of processes, read one process after the other. |
| `ProcSamplingProofs` | The theorems about `ProcSampling`. |
| `ChartPanel` | One chart panel under the pointer, deleted and made again by the frame. |
| `ChartPanelProofs` | The theorems about `ChartPanel`. |
| `ViewState` | The command line, the state file and the frame that starts from both and saves on close, in several instances. |
| `ViewStateProofs` | The theorems about `ViewState`. |
| `Recursion` | Induction over numbers, and what it says of the recursive functions of this project; the proof modules use it. |
| `MC*` | Each with the constants for TLC. |

**TimeView.** The five variables are the fields that change and the window
option. `Sample`, `Drag`, `Wheel`, `OnResetView`, `ContextResetView` and
`OnClearHistory` are `OnTimer`, `OnMotion`, `OnMouseWheel`, the two resets and
the clear. `ImplementsLiveWindow` maps the code's edge to the abstract one;
before the first sample the code shows an empty span from zero, which stands
for edge 0. The rounding allowed is exact for the spans of an ordinary session;
at spans near the limit of 24 hours a double may be off by one millisecond
more.

**Session.** `opt`, `tracked`, `charts`, `last` are the collector's,
`panels`, `active`, `pending` (the queue of remove events) the frame's,
`alive` the machine's. Each menu command is an action with everything it calls:
setter, chart rebuild, pane rebuild where the code does it and only there
(`FirstTick` and `OnClearHistory` drop the result of `tick`). `Start` and `Exit`
may come between any two. Time passes in steps of one second (`Pass`), and `OnTimer` comes when the interval
has passed, before the next second does; so what is true between two ticks is seen,
and a timer event is never late by as much as a second. `Pass` is external, the rest of the
timer is the code's: choosing an interval starts it anew (`RestartTimer`), Clear
History does not. The code's time of milliseconds is counted in seconds, the
period of two seconds kept as it is; a session longer than `MaxSession` is
shifted, with its stamp, so that the model runs forever. `unscanned`, `seen` and
`cleared` are history: how long ago the NAMEs were last resolved, what was alive
then, and whether time was restarted since a tick did it. What the timer had
counted when it was started anew is not in `unscanned`: choosing an interval
again and again puts a scan off for as long as one likes, and that is what the
user asked for. A chart is its identifier and the things and processes it
shows. A `NAME` is any relation to processes. `resolve_names` is two nested
recursive functions, as the code is two nested loops: over the NAMEs, and over
the matches of each, where `take` adds a process that is not yet in the list.

`TracksSelected` says that what is tracked is, in every state, what was alive at the
last scan and what the NAMEs of the session select, whatever was toggled, added,
removed or cleared since. `RescanInTime` bounds `unscanned` by the period and the
interval, in every state and through changes of the interval, but not after a clear,
which is finding 1.

**ProcessMatch.** `resolve_name` tries one kind of match after the other: `Tries`
are the processes that each finds, and a recursive function appends to the list
those that were not in it (`add`), in the order of `/proc` (`ByPid`). A text is an
atom that comes with what the algorithm asks of it: its `Pieces` (words and the
characters between them, so that `bin vi` is not found in `/bin/vi`), its last
component, the globs it fits. The window titles, which the code asks the X server
for, are given. A NAME of digits is only looked for as the name of an entry of
`/proc`: `PidText` is that name, so `007` finds nothing, and an entry that is not
listed, a thread's, is found. `FindsAsDocumented` and `FindsBestFirst` compare the
result with what the README and the manual say a NAME may be (`Selects`: any of
pid, executable name, path, title, glob or words of a title, for every NAME), and
with the `Rank` of a match. An empty text is one that could not be read, and a glob
such as `*` does not match it.

**SessionMatch.** The processes that start and exit in a session are those of a
`Machine`, and `MatchesAsResolved`, which TLC evaluates, says that the relation of
NAMEs to processes that `Session` is given is what `resolve_name` finds there.
`SelectsAsDocumented` and `BestMatchFirst` are about the look-up of the
constructor, for every NAME of `Texts` and for the processes `Running` of every
set in `Universes`. They depend on nothing but `alive`, which takes all its values
before the first tick, so nothing is lost by not asking them again later.
`SelectsAsDocumented` leaves out NAMEs of digits, for which it is false: see the
findings. `TracksDocumented` is what a user sees of both modules: in every state,
what is tracked is what was alive at the last scan and what the documentation says
the NAMEs select.
Here a process keeps its texts while it is there: a title that comes or goes is, as
in `Session`, one of the reasons for a process to start or exit.

**Sampling.** `watch`, `ifaces`, `addr_to_iface`, `prev`, `series`, `points`
are the collector's; `kernel` and `place` are the machine's counters and
addresses, which grow, vanish, return at zero, lose what ended connections
carried, and move. One counter stands for the several of one thing, which the
code treats alike. A tick samples every list entry (a repeated name twice),
after a scan that may rebuild the charts, and writes the logs: `files` are those
that are open, `unwritable` those that cannot be opened, which the recorder
remembers and does not try again. A log directory that cannot be made is the
case that no log can be opened. Each name has a file of its own: that
`safe_filename` may make one of two names is left out. `grown`, `charted`,
`logged`, `odd`, `steady`, `mark` and `moved` are history that the properties
compare.

**ProcSampling.** A tick is not one step here: `OnTimer` scans and reads the
machine's jiffies, `ReadPid` reads one process, `EndTick` takes the other
samples, and the machine (`Work`, `Transfer`, `Open`, `Exit`, `Start`,
`Retitle`, ...) moves in between, while the user's commands wait for the event
loop. Processes are read in any order (the code has a fixed one), the jiffies and
the I/O of one in a single step (the code reads two files, one after the other;
nothing compares the two). What a process
holds stands for its threads and its sockets; for the whole machine they
differ, a high-water mark and a set. When a scan is due is `Session`'s matter:
here it may be at any tick. `done`, `charted`, `share`, `since`, `whole`, `mark`
and `opened` are history. The code keeps what it has seen of threads and sockets by
PID, also when the PID is used again, and so does `opened`: `TotalWithinSession` is
about all processes that had the PID in the session.

**ChartPanel.** One panel stands for all, since panels share only the time axis
(`TimeView`) and the capture of the mouse. The toolkit is external: it delivers
events to the panel while the pointer is in it, keeps a stack of captures, and
takes the capture away when a menu opens. The frame's `RebuildPanes` may come at
any time, with other processes, also in the middle of a drag, where it leaves a
deleted panel on the stack, and inside the menu's event loop, where the panel
that runs it is deleted. What a handler of a
deleted panel does is undefined: `sane` becomes false and the model says
nothing of what follows. The intensity of the legends is a number of hundredths
in the code; TLC takes few, so that a step overshoots, the proofs take any.
A motion of a drag asks the time axis for a whole number of milliseconds: what the
columns come to in doubles is truncated, at every motion (`Truncations`), so that
a drag in many pieces pans less than the same drag in one; and a plot of at most one
pixel does not pan at all, nor does it forget where the pointer was.
`DragFollowsPointer` counts the motions (`pieces`) and what was asked (`asked`), and
bounds what is lost by one millisecond for each of them. The count begins anew where
the plot is painted with another width, because a column is worth something else from
there on. The span of the view does not change during a drag here: turning the wheel
with the button down is left to `TimeView`.
Appearance, which the context menu changes too, is in `ViewState`.

**ViewState.** An instance is `Off`, up, or saving, between `OnClose`, which fixes
what is saved and truncates the file, and `Write`, which writes all of it or
what the disk has room for; `Kill` may come at any time. A file is the record
that `load_view_state` makes of it, `NoState` where that is nothing; `CutStates`
are the records of a file that ends early, in the order in which
`save_view_state` writes its lines. The look stands for legends, Y-log, show-as
and curve style: a setting of the frame, copied to new panes, changed in one
pane by the context menu, and saved from the pane that a hash map has first, any of them here. Geometry, layout and
the unit of network charts are left out; so is the key of a list of NAMEs: each
list has a file of its own. Process charts are left out too, since neither
their presence nor the lists of devices and addresses are saved.

## Runs

| Run | Bounds | What it shows |
|---|---|---|
| `TimeView` | spans 2..9 (default 5), windows 1, 4, 6, 12, times to 14, five drags, five pointer columns | the four invariants, that a sample never moves a paused view, and refinement of `LiveWindow` |
| `Session` | two processes, two NAMEs that share one, two command lines, a toggle, a device, an address, an interface, intervals of 1 and 2 s, sessions to 2 s, two gestures, and any number of clears and changes of the interval; for the match, pairs of all processes with three names, two executables and five titles, pairs with a process called "2" and with a thread, and eleven NAMEs with the empty text | tracking, once, exactly, in time and in the end, active pane, panes follow charts, exact removal; what a NAME selects |
| `SessionRescan` | an interval of 1 s, one gesture, sessions to 12 s | **violated**: after Clear History the scan stops for as long as the old session lasted |
| `SessionPanes` | as `Session`, three gestures | **violated**: a process that starts during start-up has charts without panes |
| `SessionRemove` | as `Session`, three gestures | **violated**: Remove Chart takes another chart when a tick rebuilds the panes first |
| `Sampling` | one device, interface and address, series of two points, three ticks a session, two gestures, two events of the machine, three starting lists, all logs or only that of the device writable | no traffic twice, none lost, time order, log agrees with chart, one line an interval |
| `ProcSampling` | two PIDs, two thread IDs and inodes, three ticks, one gesture, three events of the machine | nothing counted twice or lost, shares and totals bounded |
| `ChartPanel` | a chart of the system and one of threads with two processes, two columns, plots of 1 and 2 pixels under a span of 2 ms, two motions while a plot keeps its width, fading from 2 to 1 or 4 by 2, two changes | capture, drags, switches of series and processes, fading and its end |
| `ChartPanelDrag` | as `ChartPanel` | **violated**: a process that starts or exits ends a drag |
| `ViewState` | two instances, two lists of NAMEs, four command lines, three starts, one change of a setting | a run starts as asked, within the window, with interfaces listed only where they are monitored; restarting changes nothing |
| `ViewStateFlags` | as `ViewState` | **violated**: an option given for one run rules later ones |
| `ViewStateEmpty` | as `ViewState` | **violated**: a session without a NAME starts with nothing to monitor |

The bounds are those at which the cases happen: windows below, at and above the
limits and longer than the session; a NAME with two processes and a process
with two NAMEs; a gesture that prepares, one that queues and one that
interferes; a series that overflows at the third point; an event before and one
after a clear, or a counter that goes and comes back. In `Session` clears and changes of the interval are not counted, so that they come as
often and at whatever moment they can; two of the other gestures suffice: one that
lists a NAME and one that removes it, or a removal that is queued and one that comes
first. With the period of 2 s an interval of 1 s has a scan at every second tick, one
of 2 s at every tick, as one of 5 s would; the theorems are about any. Sessions of
2 s reach the period, and longer ones only repeat: `SessionRescan`, where a stamp must
be far ahead of the clock, has sessions to 12 s. In `ChartPanel` a plot of one pixel
does not pan, one of two does by a whole millisecond or, by the rounding of doubles,
by one less; two motions lose two milliseconds. The charts of threads have
rows for kinds and for processes and those of the system rows for series, which
are all the rows there are; two changes take a process away and bring it back
within a drag, or one row's switch and the processes. Three
ticks give a process a first reading, a failed or missing one and one after it;
three events suffice for an exit, a start under the same PID and work of the
new process. Three starts are a run that saves, one that is told otherwise, and
one that finds what both left, or two at a time. The four command lines hold
`-i all -i eth0` and `-i eth0 -i all`, an interval longer than another one's
window, and nothing at all. Instances, PIDs, thread IDs and inodes are
symmetric; all properties of those runs are safety.

`Sampling`, `ProcSampling`, `ChartPanel` and `ViewState` turn deadlock checking
off because their ticks, changes, starts, gestures and events are bounded, so that the model stops
where the program would go on. The other models never stop and are checked for deadlock.

**Fairness.** `Session` assumes weak fairness of the clock, `FirstTick \/ Pass \/
OnTimer`: the constructor returns, time passes, and a repeating timer on a running
event loop fires. The user, the processes and the queue owe nothing. But the user can
keep the scan from ever coming: clears that follow one another before the new session
is as old as the stamp of the last scan, or an interval that is chosen again before the
timer fires. So `TrackingCatchesUp` has this as a premise: from some time on the user
leaves the history and the interval alone, and does anything else at will. It is a
premise of the property, not a bound of the run. `ChartPanel` assumes weak fairness of
`OnFadeTimer`, a repeating timer as well, and nothing of the pointer: `FadeEnds`
says that the fading ends when the pointer stays in or stays out. The other
modules state safety only.

Every property of a passing run has a mutant in `PROJECT.json`: an operator
marked `Fault:` just before the definition it replaces, under which TLC finds
the property violated.

## Findings

1. **No scan after Clear History** (`src/collector.cpp:594`). The stamp of the
   last scan is a static of `tick` and is not reset with the clock: processes
   started after the clear appear only when the new session is as old as the
   cleared one was. Once the user leaves the history alone the scan is late, not lost
   (`TrackingCatchesUp`); clears that come soon enough put it off for ever.
2. **Charts without panes** (`src/main_frame.cpp:76`, `:560`). The result of
   `tick(0)` is dropped.
3. **Remove takes another chart** (`src/main_frame.cpp:281`). The queued event
   means "the active chart", which a tick may change before it is delivered.
4. **A scan ends a drag** (`src/main_frame.cpp:264`). A tick that finds that a
   process has started or exited destroys every panel, also the one in which the
   user is dragging; the new one does not pan, with the button still down.
5. **Options outlive their run** (`src/main_frame.cpp:480`). What is saved on
   close are the options in force, those of the command line included, although
   the README says they override the saved values "for that run".
6. **Nothing to monitor after all** (`src/main_frame.cpp:47`). The saved state is
   applied after the command line was checked and replaces the default of a
   plain `pidload`: once the network was switched off and the window closed,
   `pidload` starts without a chart, which the command line refuses to do.

Met on the way. Three disagree with a document, and no property states what the
document says:

- A NAME of digits is a PID and nothing else (`src/process_match.cpp:223-242`): a
  program that is called `2` is not found by its name, an ID of a thread, which
  `/proc` has but does not list, is accepted, and `007` finds nothing, with process 7
  there. `README.md:14` says "Each `NAME` matches processes as: pid, executable name,
  path, window title, or globs", and `man/pidload.adoc:39` "Matching is tried as: pid,
  executable name, executable path, window title, then with glob characters".
  `SelectsAsDocumented` and `TracksDocumented` are stated for the other NAMEs; for
  these TLC finds the first one violated by a process that is called `2`.
- A series keeps between 10000 and 200000 points, by the window and the interval, and
  then drops its oldest (`src/collector.cpp:114`, `:384`): with the default window and
  interval that is after ten hours. `man/pidload.adoc:116` says "Full session history is
  retained in memory", `src/options.cpp:52` "session history stays in memory" and
  `README.md:34` "session history is kept in memory". `Sampling` has the limit of the
  code, and `NothingLostSinceClear` is about series that have not reached it.
- A drag falls behind the pointer, by up to a millisecond of the time axis at every
  motion, and many small motions pan less than one large one
  (`src/chart_panel.cpp:309-313`). `README.md:37` says "Drag on a chart to pan the
  shared time view"; how far, it does not say. Over a plot of at most one pixel nothing
  is panned until it is wide again.

The others are without a document that the code plainly contradicts:

- A process whose title stops matching and matches again is compared with its
  reading of long ago over the machine's jiffies of one interval, and shows a
  share far above 100 % (`src/collector.cpp:1057`). `ShareBounded` states the
  bound for all the others.
- A tick inside the event loop of a panel's context menu deletes the panel whose
  handler runs (`src/chart_panel.cpp:218`); the handler then uses its fields.
  A panel deleted while it has the mouse stays on the toolkit's stack of captures.
- The command line does not refuse a repeated name as the menu does
  (`src/options.cpp:98`): it is sampled twice, has two points of one time, the
  second of zero, and two lines an interval in its log.
- A device or an interface that is unplugged has no line in the intervals in
  which it is gone, and the lines carry no time. A log that cannot be opened once
  is not tried again (`src/recorder.cpp:44`), and no log is closed before the end.
- CPU charts that are switched on log a line of zeros first. The cores of two
  readings are compared by position whenever there are as many
  (`src/collector.cpp:911`), whichever they are.
- An address is looked for in the connection tracker's lines by a prefix:
  `src=10.0.0.1` is also found in `src=10.0.0.12` (`src/collector.cpp:775`).
- The threads and sockets of a process are counted as seen by its PID
  (`src/collector.cpp:1274`): the total of a process goes on from that of the one that
  had its PID before.
- The index by which a process gets its style is numbered anew at each scan
  (`src/process_match.hpp:31`).

## Proofs

`TimeViewProofs` proves, for every span limit, window, plot width, drag
distance and session length (the assumptions are `SpanAssumption` and
`InputAssumption`), all properties of the `TimeView` run.

The four invariants are not inductive one by one: that a paused view is behind
the newest sample depends on the live view being at it, and both on the span
being in its limits. `IInv` is their conjunction as a predicate `Good` of a view.
The argument goes through values: `ClampFields` says what `clamp` returns for
*any* integers, `GestureGood` that a gesture ending in `clamp` and the
re-engagement of the live edge gives a good view wherever it asked to go, and
`LiveGood` the same for a view put at the edge. So the drag and the zoom need
no fact about where they land, only that it is an integer. `StepGood` adds
which kind of step it was: a sample keeps mode and span, a gesture keeps the
session, a clear restarts it; `SampleKeeps` and the refinement `KeepsPromise`
follow from that. `ZoomCorrect` does need where a zoom lands: `TruncationError`
bounds what is lost when a double is truncated (at most one unit, never gained),
`TimeAtXInWindow` says that a pointer in the plot is a time of the window,
`RightOfAnchorShare` that the right part of the new window is the old share of it
within one unit, and `GestureUncut` that a window that ends neither at the live
edge nor at zero is the one that was asked for.

Several results are about what a loop of the code computes, which takes induction.
The library states it for an operator, which the provers cannot instantiate;
`Recursion` states it for a set of numbers, from the well-foundedness of `<`:
`LeastNumber`, `Induction`, and of a function `f[i]` made from `f[i - 1]` by steps
that stay in a set, that there is one (`RecursionExists`), that any two agree
(`RecursionUnique`) and what its values share (`RecursionStays`). A model's
recursive function is a `CHOOSE` of one that satisfies its equation; existence is
what makes the equation true of it.

`SessionProofs` proves, for every relation of NAMEs and processes, every set of
things to chart, any intervals and sessions (`TimeAssumption`,
`MatchAssumption`, `ToggleAssumption`, `OptionAssumption`), all properties of the
`Session` run that are about `Session` but for the liveness `TrackingCatchesUp`.

- `ActiveHasPane` is inductive once it is known that a chart list that is not
  empty has a first item. `ChartList` says so, and says which charts a list
  holds, by taking the list apart at its ten conditions.
- The others need `OptionsStayGood`: the options stay in range, and interfaces
  are listed only while some of them, and not all, are monitored. Without it
  adding an interface twice could change the charts without a change of the
  options, and the panes would not follow.
- `RescanInTime` is not inductive: it says nothing of the stamp and of the timer.
  `ScanInv` adds that until a clear the stamp is not in the future, that the time since
  the scan is at most the time since the stamp, and that at the last event of the timer
  it was less than the period: `unscanned` is below the period and what the timer has
  counted. So the tick at the end of the interval scans or finds it still so, and a
  restart of the timer, which takes off what it had counted, keeps the bound. Shifting
  the time line of a long session moves clock and stamp together.
- `RemoveTakesOnlyItsOwn` needs `ChartsCurrent`: the chart list is always that of
  the present options and processes, whoever changed them last.
- `ResolveNames` says what a scan returns for every list of NAMEs: the living
  processes that one of them selects, each once and under a NAME of the list. It
  is two inductions, over the matches of a NAME (`TakeMatchesOnce`) and over the
  NAMEs (`ResolveUpto`), whose step is `TakeOnce`: a match that is alive and new
  is added, and nothing else changes.
- `TrackedOnceByName` and `TracksSelected` (in terms of the given relation what
  `TracksDocumented` says) follow from it once it is known which
  steps scan and which leave NAMEs and processes alone (`StepTracked`): removing
  the chart of the processes drops both. `TracksSelected` is inductive, with `seen` for
  what was alive: `ScanSelects` establishes it at a scan, `StepTracksSelected` keeps it.
  The comparison of the new list with the old one matters here: taking lists of one
  length for the same breaks `TracksDocumented`, as its mutant shows.
- `TypeOK` needs that the chart list has only charts that there can be, with the
  processes that are tracked; `SessionInv` puts all this together.

`SamplingProofs` proves, for any names, lists, faults and limit of a series
(`NameAssumption`, `BoundAssumption`, `WatchAssumption`), `TypeOK`,
`NoTrafficCountedTwice`, `NothingLostSinceClear`, `TimesInOrder`,
`LogAgreesWithChart` and `OneLineAnInterval`: all properties of its run. That no more is charted than has grown is not inductive:
nothing would keep the next sample from exceeding what is left. `Covered` adds
what the previous reading *owes*, the growth that the next sample would find;
every event of the machine raises what is owed by at most what has grown, and a
sample moves it to the chart. `TimesInOrder` needs that no point is later than
the last sample (`InTime`), and with a list that repeats a name that the second
point is zero: the lemma `GrowthsFacts` says so of the growths of one sample, and
`PushGood` that a series keeps its order when such points are pushed and its
oldest are dropped. `LogsGood` says that a log that is not open has no lines,
and `ListsGood` that what is listed has a series and that a list of all
interfaces names none twice, which makes one line an interval.
`NothingLostSinceClear` is an equality and a sum over a series. `TotalSums` says
that `Total` is the last of any sums one point after the other, and `TotalPush`
that pushing points of one sample, of which at most the first is not zero, adds
their growth while no point is dropped. `WholeGood` strengthens the equality: the
previous reading of a steady counter is a number and not above its reading.

`ProcSamplingProofs` proves, for any PIDs, threads and sockets
(`AbsentAssumption`, `IdleAssumption`, `BoundAssumption`), all properties of its
run. The invariant is of the same
kind, for each process (`Sound`): `Covered` for CPU and I/O with what is owed,
`IoKept` for the equality that holds of I/O while there is a reading, and
`InStep`, that the machine has worked since its previous reading at least as
long as each process read with it has, also in the middle of a tick, where some
are read and some are not. `TotalWithinSession` adds to what was *seen* what is
*held* (`Within`): a thread that is there was there when the session began or was
opened since, by whichever process had the PID, so that whatever the next reading sees
is accounted for; that the
machine's high-water mark is no more than their number is a fact about
cardinalities of finite sets.

`ChartPanelProofs` proves, for every chart, process, width of the plot, span, number of
motions, intensity and step
(`ChartAssumption`, `FadeAssumption`), all properties of the `ChartPanel` run but
`FadeEnds`. `CaptureWhilePanning` and `DragFollowsPointer` rest on one another
and on where the button and the pointer are: `Hand` is what both need, and
`HandStep` that every step keeps it. `InStep` adds how far the view has come: what was
asked times the width of the plot differs from what the columns are worth by at most
the width for each motion. `MotionPans` says that one motion adds at most one such
width, from the bounds of the quotient alone, on either side of where the pointer
was; a new width begins the sum anew. `KindsSwitchTogether` is inductive once types are known, and
`OneRowAtATime` follows from it: a row painted for the first series of a kind
switches all of them only because they were alike.

`ViewStateProofs` proves, for any command lines, lists of NAMEs, instances,
kills and cut files (`SessionAssumption`, `NumberAssumption`), all properties of
the `ViewState` run. In `IInv` every file, every run and every last save is
`Good`: in range, with interfaces listed only where some are monitored. The
lemmas say that of what makes settings: `ParseGood` of a command line,
`ApplyGood` of a saved state over one (the network is taken from one of the two
as a whole), `CutGood` of a file that ends early (the list of interfaces comes
after what it belongs to), and one for each menu command. `Faithful` carries
settings from one run to the next: a file counts as whole only while it is what
was in force (`Kept`), what is about to be saved is what is in force (`Saves`),
and a run that was not touched has what it started with (`Untouched`).

`ProcessMatchProofs` proves, for any texts, globs and processes
(`TextAssumption`: what cannot be read has no pieces, and `FNM_PATHNAME` only
refuses more; `UniverseAssumption`: a PID is a number and its digits name one process),
both properties of the match: that a NAME finds what is documented for every NAME that
is not of digits, for which it is false, and the order for all of them, where digits
find one process at most (`OnePid`). They hold of any processes (`Documented`,
`BestFirst`), so of those that run in any state; the inductions are over data.
`ByPidLists` says that finite sets of processes can be listed by PID and that such
a list has each of them once. `ListUpto` is what the list is after some kinds of
match: all that they find, and of any two the one that an earlier kind finds
first, or the one of the smaller PID where the same kind is the first for both;
`AddLists` is the step. `RankUpto` says that the rank of a process tells which kind
is the first to find it, and `FoundIsSelected` that some kind does exactly when the
documentation says that the NAME selects it. A glob that fits the empty text
showed, while this was proved, that an earlier `Rank` counted texts that could not
be read; the code does not, and the model no longer does. `TracksDocumented`
composes this with what `SessionProofs` says of a scan: given `MachineAssumption`
and `MatchesAsResolved`, the PIDs that a NAME stands for are those of the processes
that it is documented to select (`MatchesDocumented`).

Only model-checked: the liveness properties `TrackingCatchesUp` and `FadeEnds`,
which are out of the prover's reach. Every other property of a passing run is a
theorem. That the six violations are found is TLC's to show, too.

## Plan

Done, in this order: `TimeView` with `LiveWindow`, `Session`, `Sampling`,
`ProcSampling`, `ViewState`, `ChartPanel`, `ProcessMatch`, `SessionMatch`, the recorder in `Sampling`, each
with its runs, and the proofs about all of them. Left:

1. Window titles that change while the process stays: texts as a part of the state.
2. Pure algorithms against reference definitions: `parse_duration_ms`,
   `safe_filename`, the key of a list of NAMEs.
3. The series of the cores of `sample_cpu` against hotplug.

## Not modelled

Painting, curve interpolation and labels, but for where the rows of a legend are
and which time is at which column; the layout of panes; the parsing of `/proc`
lines and the requests for window titles (a reading is what they return); CPU
and memory samples, one formula over two readings and over one; the logs of
processes and of the system, which are written as the modelled ones are; the
formats of logs and state files; dialogs; start-up, translations and packaging.
Nothing in them keeps state that another part relies on. `PROJECT.json` gives the
reason for each.
