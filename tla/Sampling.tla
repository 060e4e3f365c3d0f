------------------------------ MODULE Sampling ------------------------------
(* How the collector (src/src/collector.cpp) turns the kernel's counters of  *)
(* block devices, network interfaces and addresses into points of a chart,   *)
(* and the recorder (src/src/recorder.cpp) into lines of a log.              *)
(*                                                                           *)
(* The counters only grow until what they count goes away; a sample is the   *)
(* growth of a counter since its previous reading.  One counter stands for   *)
(* all those of a device, an interface or an address, which the code treats  *)
(* alike.  A handler is one step: everything runs on one event loop.         *)
EXTENDS Integers, Sequences, SequencesExt, FiniteSets

CONSTANTS
    Devices, Ifaces, Addrs, \* what can be watched: three sets of names
    InitialWatch,           \* the lists the program may be started with
    SessionMax,             \* session_max_points_
    FaultyLogs,             \* which logs may be impossible to open: sets of names
    MaxTicks,               \* BOUND: samples between two clears
    MaxGestures,            \* BOUND: changes the user makes
    MaxEvents               \* BOUND: things that happen in the kernel

Sources == Devices \cup Ifaces \cup Addrs
None    == -1               \* no counter: absent, unreadable, not read yet
Remote  == "remote"         \* the place of an address of another machine

ASSUME NameAssumption ==
    /\ Devices \cap Ifaces = {} /\ Devices \cap Addrs = {} /\ Ifaces \cap Addrs = {}
    /\ Remote \notin Ifaces
    /\ IsFiniteSet(Sources)
ASSUME BoundAssumption ==
    /\ SessionMax \in Nat \ {0} /\ FaultyLogs \subseteq SUBSET Sources
    /\ MaxTicks \in Nat /\ MaxGestures \in Nat /\ MaxEvents \in Nat

Watch == [devices : Seq(Devices), addrs : Seq(Addrs),
          monitor : BOOLEAN, all : BOOLEAN, ifaces : Seq(Ifaces)]

ASSUME WatchAssumption == InitialWatch \subseteq Watch

VARIABLES
    watch,          \* opt_: what is watched, in lists that may repeat a name
    ifaces,         \* ifaces_: the interfaces of the last rebuild
    addr_to_iface,  \* the place of each address when the map was last built
    prev,           \* prev_dev_, prev_iface_, prev_addr_
    have_prev,
    have_deltas,
    series,         \* names that have a series
    points,         \* the points of each series
    now,            \* time of the last sample, None before the first
    files,          \* files_: names whose log is open
    kernel,         \* the counters: external
    place,          \* where each address is: external
    unwritable      \* names whose log cannot be opened: external

\* HISTORY: what the properties compare.
VARIABLES
    grown,          \* growth of each counter since the program was started
    charted,        \* sum of all points ever pushed
    logged,         \* sum of all lines ever written
    odd,            \* names that had not just one line in some interval
    steady,         \* names whose series is whole since the last clear
    mark,           \* what had grown at that time
    moved,          \* addresses that were read at two places
    gestures,
    events

lists   == <<watch, ifaces, addr_to_iface, series>>
samples == <<prev, have_prev, have_deltas, points, now>>
machine == <<kernel, place, unwritable, grown>>
logs    == <<files, logged, odd>>
vars    == <<lists, samples, machine, logs, charted, steady, mark, moved, gestures,
             events>>

-----------------------------------------------------------------------------
(* The lists: what is watched and what has a series. *)

\* How often a list names something: the command line may repeat a name.
Times(list, name) == Cardinality({i \in DOMAIN list : list[i] = name})

NetworkOn(w) == w.monitor /\ (w.all \/ w.ifaces # <<>>)

\* list_net_ifaces: what the machine has now.
list_net_ifaces == SetToSeq({i \in Ifaces : kernel[i] # None})

resolve_ifaces(w) ==
    IF ~w.monitor THEN <<>> ELSE IF w.all THEN list_net_ifaces ELSE w.ifaces

\* rebuild_charts: everything listed gets a series, none is ever dropped.
ensure_series(w, list) ==
    series \cup ToSet(w.devices) \cup ToSet(w.addrs)
           \cup (IF NetworkOn(w) THEN ToSet(list) ELSE {})

\* The lists after a change, charts rebuilt.
Rebuild(w) ==
    /\ watch' = w
    /\ ifaces' = resolve_ifaces(w)
    /\ series' = ensure_series(w, resolve_ifaces(w))

\* refresh_addr_map.  An address read elsewhere from now on is not comparable.
refresh_addr_map ==
    LET elsewhere == {a \in Addrs : place[a] # addr_to_iface[a]}
    IN  /\ addr_to_iface' = place
        /\ moved' = moved \cup {a \in elsewhere : prev[a] # None}
        /\ steady' = steady \ elsewhere

KeepMap == UNCHANGED <<addr_to_iface, moved, steady>>

-----------------------------------------------------------------------------
(* A sample. *)

\* Fault: a counter that restarted has grown by less than nothing.
delta_signed(new, old) == new - old

\* Fault: the plain unsigned difference, 16 bits wide.
delta_wrapped(new, old) == (new - old) % 2^16

\* The kernel's counters are 64 bits wide and restart at zero.
delta_u64(new, old) == IF new >= old THEN new - old ELSE 0

\* A local address is read at its interface, as the map has it; any other one
\* from the connection tracker.
ReadAt(name) ==
    IF name \in Addrs /\ addr_to_iface[name] # Remote
    THEN addr_to_iface[name] ELSE name

Reading(name) == kernel[ReadAt(name)]
Grown(name)   == grown[ReadAt(name)]

\* How often a tick samples a name when list holds the interfaces.
Occurrences(name, list) ==
    CASE name \in Devices -> Times(watch.devices, name)
      [] name \in Ifaces  -> IF NetworkOn(watch) THEN Times(list, name) ELSE 0
      [] name \in Addrs   -> Times(watch.addrs, name)

\* The points of a name from n samples of it: its growth if there is a previous
\* reading, and nothing more at each repetition.
Growths(name, n) ==
    LET fresh == IF prev[name] = None THEN 0 ELSE 1
    IN  IF Reading(name) = None \/ n = 0 THEN <<>>
        ELSE [k \in 1..(n - 1 + fresh) |->
                 IF k = 1 /\ fresh = 1 THEN delta_u64(Reading(name), prev[name])
                 ELSE 0]

\* What growths of one tick add up to: all but the first are zero.
Added(growths) == IF growths = <<>> THEN 0 ELSE growths[1]

\* push_point: at the end of the series, the oldest dropped beyond the limit.
push_point(old, t, values) ==
    LET all  == old \o [k \in DOMAIN values |-> [t |-> t, v |-> values[k]]]
        over == Len(all) - SessionMax
    IN  IF over > 0 THEN SubSeq(all, over + 1, Len(all)) ELSE all

\* Fault: nothing is written of an address that could not be read.
Lines_readable(name, n) == IF Reading(name) = None THEN 0 ELSE n

\* What write_sample writes of n samples of a name: a line for each; an address
\* that cannot be read has one too, of zeros.
Lines(name, n) == IF name \notin Addrs /\ Reading(name) = None THEN 0 ELSE n

\* Fault: a log is opened again for each line.
open_log_again(name, n) == n > 0

\* open_log: a log is opened, and emptied, for its first line.  (One that cannot be
\* opened is not tried again.)
open_log(name, n) == n > 0 /\ name \notin files

\* What the user asked for, once, and the machine has: of the interfaces, if all are
\* monitored, those that were there when they were looked up.
Asked(name) ==
    CASE name \in Devices -> Times(watch.devices, name) = 1 /\ kernel[name] # None
      [] name \in Addrs   -> Times(watch.addrs, name) = 1
      [] name \in Ifaces  ->
            /\ watch.monitor /\ kernel[name] # None
            /\ IF watch.all THEN name \in ToSet(ifaces') ELSE Times(watch.ifaces, name) = 1

\* write_sample: some lines for each name, which add up to what was added.
write_sample(lines, added) ==
    /\ files' = files \cup {name \in Sources \ unwritable : open_log(name, lines[name])}
    /\ logged' = [name \in Sources |->
                     IF name \notin files' THEN logged[name]
                     ELSE (IF open_log(name, lines[name]) THEN 0 ELSE logged[name])
                              + added[name]]
    /\ odd' = odd \cup {name \in Sources \ unwritable : Asked(name) /\ lines[name] # 1}

\* sample_devices, sample_ifaces and sample_addrs at time t.  In "from" are the
\* points, interfaces and series they find, and whether there is a sample to
\* compare with.  A list of all interfaces that is empty is resolved again, but
\* gets no series: what is sampled without one is not charted.
Sample(t, from) ==
    LET list == IF NetworkOn(watch) /\ watch.all /\ from.ifaces = <<>>
                THEN resolve_ifaces(watch) ELSE from.ifaces
        n       == [name \in Sources |-> Occurrences(name, list)]
        growths == [name \in Sources |->
                       IF from.emit THEN Growths(name, n[name]) ELSE <<>>]
        shown   == [name \in Sources |->
                       IF name \in from.series THEN growths[name] ELSE <<>>]
        whole(name) == Len(from.points[name]) + Len(shown[name]) <= SessionMax
    IN  /\ now' = t
        /\ ifaces' = list
        /\ series' = from.series
        /\ points' = [name \in Sources |->
                         push_point(from.points[name], t, shown[name])]
        /\ prev' = [name \in Sources |->
                       IF n[name] > 0 /\ Reading(name) # None
                       THEN Reading(name) ELSE prev[name]]
        /\ have_prev' = TRUE
        /\ have_deltas' = (from.have_deltas \/ from.emit)
        /\ charted' = [name \in Sources |-> charted[name] + Added(shown[name])]
        /\ steady' = {name \in from.steady :
                         /\ name \in from.series
                         /\ whole(name)
                         /\ t = 0 => n[name] > 0 /\ Reading(name) # None}
        /\ mark' = [name \in Sources |-> IF t = 0 THEN Grown(name) ELSE mark[name]]
        \* after a timer tick only
        /\ IF t > 0 /\ have_deltas'
           THEN write_sample([name \in Sources |-> Lines(name, n[name])],
                             [name \in Sources |-> Added(growths[name])])
           ELSE UNCHANGED logs

\* tick: the scan of the NAMEs (see Session) may rebuild the charts first.
tick(t, from) ==
    \E rescan \in BOOLEAN :
        IF rescan
        THEN LET list == resolve_ifaces(watch)
             IN  Sample(t, [from EXCEPT !.ifaces = list,
                                        !.series = ensure_series(watch, list)])
        ELSE Sample(t, from)

Now(emit) == [emit |-> emit, have_deltas |-> have_deltas, points |-> points,
              ifaces |-> ifaces, series |-> series, steady |-> steady]

\* Fault: the readings before the clear are compared with those after it.
clear_keeps_readings ==
    [Now(have_prev) EXCEPT !.have_deltas = FALSE, !.steady = Sources,
                           !.points = [name \in Sources |-> <<>>]]

\* Fault: the points stay.
clear_keeps_points == [Now(FALSE) EXCEPT !.have_deltas = FALSE, !.steady = {}]

\* What clear_history leaves: no points, and nothing to compare with.
clear_history ==
    [Now(FALSE) EXCEPT !.have_deltas = FALSE, !.steady = Sources,
                       !.points = [name \in Sources |-> <<>>]]

-----------------------------------------------------------------------------
(* The handlers. *)

\* The collector is constructed; the addresses have just been looked up.
Init ==
    /\ kernel \in [Sources -> {None, 1}]
    /\ place \in [Addrs -> Ifaces \cup {Remote}]
    /\ watch \in InitialWatch
    /\ ifaces = resolve_ifaces(watch)
    /\ series = ToSet(watch.devices) \cup ToSet(watch.addrs)
                 \cup (IF NetworkOn(watch) THEN ToSet(ifaces) ELSE {})
    /\ addr_to_iface = place
    /\ prev = [name \in Sources |-> None]
    /\ have_prev = FALSE
    /\ have_deltas = FALSE
    /\ points = [name \in Sources |-> <<>>]
    /\ now = None
    /\ files = {} /\ unwritable \in FaultyLogs
    /\ odd = {}
    /\ grown = [name \in Sources |-> 0]
    /\ charted = grown /\ logged = grown /\ mark = grown
    /\ steady = {} /\ moved = {}
    /\ gestures = 0 /\ events = 0

\* The constructor of the frame takes the first sample.
FirstTick ==
    /\ now = None
    /\ tick(0, [Now(have_prev) EXCEPT !.steady = Sources])
    /\ UNCHANGED <<watch, addr_to_iface, machine, moved, gestures, events>>

OnTimer ==
    /\ now # None /\ now < MaxTicks
    /\ tick(now + 1, Now(have_prev))
    /\ UNCHANGED <<watch, addr_to_iface, machine, moved, gestures, events>>

UserTurn ==
    /\ now # None
    /\ gestures < MaxGestures
    /\ gestures' = gestures + 1

\* OnClearHistory: time starts again, with a sample that is not recorded.
OnClearHistory ==
    /\ UserTurn
    /\ tick(0, clear_history)
    /\ UNCHANGED <<watch, addr_to_iface, machine, moved, events>>

\* A change of the lists, charts rebuilt.
Relist(w) ==
    /\ UserTurn
    /\ Rebuild(w)
    /\ UNCHANGED <<samples, machine, logs, charted, mark, events>>

\* add_device, add_addr: what is listed already is refused.
add_device ==
    /\ \E d \in Devices \ ToSet(watch.devices) :
          Relist([watch EXCEPT !.devices = Append(@, d)])
    /\ KeepMap

add_addr ==
    /\ \E a \in Addrs \ ToSet(watch.addrs) :
          Relist([watch EXCEPT !.addrs = Append(@, a)])
    /\ refresh_addr_map

\* add_iface: all interfaces, or one more by name.
add_iface ==
    /\ \/ Relist([watch EXCEPT !.monitor = TRUE, !.all = TRUE, !.ifaces = <<>>])
       \/ \E i \in Ifaces :
             Relist([watch EXCEPT !.monitor = TRUE, !.all = FALSE, !.ifaces =
                                  IF i \in ToSet(@) THEN @ ELSE Append(@, i)])
    /\ KeepMap

\* set_monitor_network, as the menu calls it, is add_iface of all interfaces or
\* remove_chart of the network.
remove_chart ==
    /\ \/ Relist([watch EXCEPT !.monitor = FALSE, !.all = FALSE, !.ifaces = <<>>])
       \/ Relist([watch EXCEPT !.devices = <<>>])
       \/ Relist([watch EXCEPT !.addrs = <<>>])
    /\ KeepMap

\* Any setting of another chart rebuilds this one too.
OtherSetting == Relist(watch) /\ KeepMap

-----------------------------------------------------------------------------
(* The machine. *)

Event ==
    /\ events < MaxEvents
    /\ events' = events + 1
    /\ UNCHANGED <<lists, samples, logs, unwritable, charted, mark, moved, gestures>>

\* What is read at a place is not whole once its counter has gone back.
Broken(at) == steady \ {name \in Sources : ReadAt(name) = at}

Grow(name) ==
    /\ Event
    /\ kernel[name] # None
    /\ kernel' = [kernel EXCEPT ![name] = @ + 1]
    /\ grown' = [grown EXCEPT ![name] = @ + 1]
    /\ UNCHANGED <<place, steady>>

\* A device is unplugged, an interface removed or the connection tracker
\* unloaded; what comes back starts at zero.
Vanish(name) ==
    /\ Event
    /\ kernel[name] # None
    /\ kernel' = [kernel EXCEPT ![name] = None]
    /\ steady' = Broken(name)
    /\ UNCHANGED <<place, grown>>

Return(name) ==
    /\ Event
    /\ kernel[name] = None
    /\ kernel' = [kernel EXCEPT ![name] = 0]
    /\ steady' = Broken(name)
    /\ UNCHANGED <<place, grown>>

\* Connections of an address end: the tracker forgets what they carried.
Expire(a) ==
    /\ Event
    /\ \E n \in 0..(kernel[a] - 1) : kernel' = [kernel EXCEPT ![a] = n]
    /\ steady' = Broken(a)
    /\ UNCHANGED <<place, grown>>

\* An address moves to another interface, away from the machine or to it.
Move(a) ==
    /\ Event
    /\ \E to \in (Ifaces \cup {Remote}) \ {place[a]} :
          place' = [place EXCEPT ![a] = to]
    /\ UNCHANGED <<kernel, grown, steady>>

Next ==
    \/ FirstTick
    \/ OnTimer
    \/ OnClearHistory
    \/ add_device
    \/ add_addr
    \/ add_iface
    \/ remove_chart
    \/ OtherSetting
    \/ \E name \in Sources : Grow(name) \/ Vanish(name) \/ Return(name)
    \/ \E a \in Addrs : Expire(a) \/ Move(a)

Spec == Init /\ [][Next]_vars

-----------------------------------------------------------------------------
(* Properties. *)

\* Every variable in its range; above all, no point is below zero, although the
\* counters restart.
TypeOK ==
    /\ watch \in Watch
    /\ ifaces \in Seq(Ifaces)
    /\ addr_to_iface \in [Addrs -> Ifaces \cup {Remote}]
    /\ prev \in [Sources -> Nat \cup {None}]
    /\ have_prev \in BOOLEAN /\ have_deltas \in BOOLEAN
    /\ series \subseteq Sources
    /\ points \in [Sources -> Seq([t : 0..MaxTicks, v : Nat])]
    /\ now \in 0..MaxTicks \cup {None}
    /\ files \subseteq Sources \ unwritable

\* No byte is charted twice, and nothing that passed before the program was
\* started or while a counter was away: the points of a name never add up to
\* more than its counter has grown, through removals, clears and unplugging.
\* (An address that is read at two places is the exception.)
NoTrafficCountedTwice ==
    \A name \in Sources \ moved : charted[name] <= Grown(name)

\* What points add up to.
Total(p) ==
    LET sum[i \in 0..Len(p)] == IF i = 0 THEN 0 ELSE sum[i - 1] + p[i].v
    IN  sum[Len(p)]

\* Where the counter has not gone back and no point was dropped, nothing is lost
\* either: the points since the last clear, and what the next sample will add,
\* are the growth since then, even if the name was not watched in between.
NothingLostSinceClear ==
    \A name \in steady :
        Total(points[name]) + (Reading(name) - prev[name]) = Grown(name) - mark[name]

\* The points of a series are in the order of their times, none later than the
\* last sample, through clears that start the time again.  Only a name that is
\* listed twice has two points of one time.
TimesInOrder ==
    \A name \in Sources :
        LET p == points[name]
        IN  /\ \A i \in DOMAIN p : 0 < p[i].t /\ p[i].t <= now
            /\ \A i, j \in DOMAIN p : i < j =>
                  p[i].t < p[j].t \/ (p[i].t = p[j].t /\ p[j].v = 0)

\* The log and the chart tell the same, whichever other logs could be opened: what
\* was logged of a device or address was charted, and no interface has more in its
\* chart than in its log.
LogAgreesWithChart ==
    \A name \in Sources \ unwritable :
        IF name \in Ifaces THEN charted[name] <= logged[name]
        ELSE charted[name] = logged[name]

\* src/man/pidload.adoc:51, "one line per interval": a log has one line for every tick of
\* the timer at which its name was asked for and there, whatever was removed, added
\* again, cleared or unreadable before.  (A name given twice has two.)
OneLineAnInterval == odd = {}

=============================================================================
