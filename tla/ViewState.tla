----------------------------- MODULE ViewState -----------------------------
(* The state a session leaves for the next one: command line                 *)
(* (src/src/options.cpp), saved state (src/src/view_state.cpp) and the frame *)
(* that starts from both and saves on close (src/src/main_frame.cpp).        *)
(*                                                                           *)
(* Several instances of the program share one file per list of NAMEs.  A     *)
(* file is what load_view_state makes of it: a record of settings, or        *)
(* NoState where there is no file or nothing in it.  One setting, the look,  *)
(* stands for legends, Y-log, show-as and curve style, which are treated     *)
(* alike.  One unit of time is 100 ms.                                       *)
EXTENDS Integers, Sequences, SequencesExt, FiniteSets

CONSTANTS
    Off,            \* an instance that does not run
    Instances,      \* processes that may run the program
    Sessions,       \* lists of NAMEs, each with a state file
    Unnamed,        \* the list without a NAME, one of them
    CommandLines,   \* the options the program may be given
    Toggled,        \* switches the user may use, a subset of Switches
    Ifaces,         \* interfaces of the machine
    Looks,          \* how charts may be drawn
    DefaultLook,
    MenuIntervals,
    DefaultInterval,
    MaxStarts,      \* BOUND: how often the program is started
    MaxGestures     \* BOUND: how many settings the user changes

All      == "all"           \* of the interfaces
CutName  == "a cut name"    \* what is left of an interface's name
NoChange == 0               \* no -t given
NoState  == <<>>            \* no file, or nothing in it: no settings

Switches == {"show_cpu", "show_memory", "show_threads", "show_numfd",
             "show_connections"}
Network  == {"monitor_network", "iface_all", "ifaces"}

\* The order of the lines of a file.
Lines == <<"show_cpu", "show_memory", "monitor_network", "iface_all", "ifaces",
           "show_threads", "show_numfd", "show_connections", "look", "interval_ms">>
Settings == ToSet(Lines)

\* A command line: -c, -m, -T, -F and -C, each -i in order, whether there is a
\* -d, -t and -w.  -a is treated like -d, also where charts come and go.
CommandLine == [show : SUBSET Switches, ifaces : Seq(Ifaces \cup {All}),
                devices : BOOLEAN, interval : Nat, window : Nat \ {0}]

ASSUME SessionAssumption ==
    /\ Unnamed \in Sessions
    /\ CommandLines \subseteq CommandLine
    /\ Toggled \subseteq Switches
    /\ All \notin Ifaces /\ CutName \notin Ifaces
    /\ DefaultLook \in Looks
ASSUME NumberAssumption ==
    /\ MenuIntervals \subseteq Nat \ {0}
    /\ DefaultInterval \in Nat \ {0}
    /\ MaxStarts \in Nat /\ MaxGestures \in Nat

VARIABLES
    file,       \* the state file of each session
    run,        \* what each instance is doing
    starts, gestures,
    left,       \* HISTORY: the settings in force at the last completed save
    whole       \* HISTORY: sessions whose file is what that save wrote

vars == <<file, run, starts, gestures, left, whole>>

-----------------------------------------------------------------------------
(* Settings. *)

\* ViewState, its initial values: what a missing line stands for.
DefaultState ==
    [f \in Settings |-> CASE f = "look"        -> DefaultLook
                          [] f = "interval_ms" -> DefaultInterval
                          [] f = "ifaces"      -> {}
                          [] OTHER             -> FALSE]

\* Fault: "all" given before a name of an interface still holds.
net_options_all_sticks(args) ==
    [all    |-> All \in ToSet(args.ifaces),
     ifaces |-> ToSet(args.ifaces) \ {All}]

\* The -i options: a name ends "all", "all" drops the names before it.
net_options(args) ==
    LET list     == args.ifaces
        Ended(i) == \E j \in i..Len(list) : list[j] = All
    IN  [all    |-> list # <<>> /\ list[Len(list)] = All,
         ifaces |-> {list[i] : i \in {i \in DOMAIN list : ~Ended(i)}}]

\* parse_options.  A program that is told nothing monitors the network.
parse_options(session, args) ==
    LET nothing == /\ session = Unnamed /\ ~args.devices
                   /\ args.show = {} /\ args.ifaces = <<>>
        net     == net_options(args)
    IN  [f \in Settings |->
            CASE f \in Switches        -> f \in args.show
              [] f = "monitor_network" -> nothing \/ args.ifaces # <<>>
              [] f = "iface_all"       -> nothing \/ net.all
              [] f = "ifaces"          -> net.ifaces
              [] f = "interval_ms"     -> IF args.interval = NoChange
                                          THEN DefaultInterval ELSE args.interval
              [] f = "look"            -> DefaultLook]

\* The settings a command line gives explicitly: cli_cpu, cli_iface, ...
Explicit(args) ==
    args.show \cup (IF args.ifaces = <<>> THEN {} ELSE Network)
              \cup (IF args.interval = NoChange THEN {} ELSE {"interval_ms"})

\* Fault: the saved interval is taken as it is.
apply_any_interval(opt, st, args) ==
    [f \in Settings |-> IF f \in Explicit(args) THEN opt[f] ELSE st[f]]

\* Fault: the interfaces are restored in spite of -i.
apply_over_iface(opt, st, args) ==
    [f \in Settings |->
        IF \/ f \in Explicit(args) \ Network
           \/ f = "interval_ms" /\ st[f] > args.window
        THEN opt[f] ELSE st[f]]

\* apply_view_state: what is saved, where the command line does not say otherwise
\* and the interval fits the window.
apply_view_state(opt, st, args) ==
    [f \in Settings |->
        IF f \in Explicit(args) \/ (f = "interval_ms" /\ st[f] > args.window)
        THEN opt[f] ELSE st[f]]

\* What the frame starts with.
StartingOptions(session, args) ==
    LET opt == parse_options(session, args)
    IN  IF file[session] = NoState THEN opt
        ELSE apply_view_state(opt, file[session], args)

-----------------------------------------------------------------------------
(* Panes: all a pane has of its own here is its look. *)

\* The charts that do not need a process.
Charts(opt, devices) ==
    {f \in Switches \ {"show_numfd"} : opt[f]}
        \cup (IF opt.monitor_network /\ (opt.iface_all \/ opt.ifaces # {})
              THEN {"network"} ELSE {})
        \cup (IF devices THEN {"device"} ELSE {})

\* RebuildPanes: every pane gets the frame's look.
NewPanes(opt, devices) == [c \in Charts(opt, devices) |-> opt.look]

\* Fault: the frame's options are saved, which no setter of the collector changes.
captures_at_start(r) == {[r.opt EXCEPT !["show_cpu"] = "show_cpu" \in r.args.show]}

\* capture_view_state_from_options, then what PersistViewState prefers: the look
\* of the pane that the hash map panels_ has first, which may be any.
captures(r) ==
    IF DOMAIN r.looks = {} THEN {r.opt}
    ELSE {[r.opt EXCEPT !.look = look] : look \in Range(r.looks)}

-----------------------------------------------------------------------------
(* The file. *)

\* Fault: a number cut down to nothing is taken.
CutStates_zero(st) == {[st EXCEPT !.interval_ms = @ \div 100]}

\* What it makes of a file that ends after some lines.
FirstLines(st, n) ==
    [f \in Settings |-> IF \E i \in 1..n : Lines[i] = f THEN st[f] ELSE DefaultState[f]]

\* And what of one that ends in the list of interfaces, of which some are left.
FirstIfaces(st, names) == [FirstLines(st, 4) EXCEPT !.ifaces = names]

\* What load_view_state makes of a file that ends early, on a full disk: some
\* lines, the last of which may have lost a part of its list or its number.
CutStates(st) ==
    LET names    == {s \cup t : s \in SUBSET st.ifaces,
                                t \in {{}, IF st.ifaces = {} THEN {} ELSE {CutName}}}
        shorter  == st.interval_ms \div 10
    IN  {FirstLines(st, n) : n \in 0..Len(Lines)}
        \cup {FirstIfaces(st, s) : s \in names}
        \cup (IF shorter > 0 THEN {[st EXCEPT !.interval_ms = shorter]} ELSE {})

-----------------------------------------------------------------------------
(* The program. *)

Init ==
    /\ file = [s \in Sessions |-> NoState]
    /\ run = [i \in Instances |-> Off]
    /\ left = file
    /\ whole = {}
    /\ starts = 0 /\ gestures = 0

\* main, parse_options and the frame's constructor.  An interval longer than the
\* window is refused; that there is nothing to monitor cannot happen here.
Start(i, session, args) ==
    LET opt == StartingOptions(session, args)
    IN  /\ run[i] = Off
        /\ starts < MaxStarts
        /\ starts' = starts + 1
        /\ args.window >= parse_options(session, args).interval_ms
        /\ run' = [run EXCEPT ![i] =
              [phase |-> "up", session |-> session, args |-> args, opt |-> opt,
               devices |-> args.devices, looks |-> NewPanes(opt, args.devices),
               loaded |-> file[session],
               quiet |-> TRUE, out |-> NoState]]
        /\ UNCHANGED <<file, gestures, left, whole>>

Up(i) == run[i] # Off /\ run[i].phase = "up"

UserTurn(i) ==
    /\ Up(i)
    /\ gestures < MaxGestures
    /\ gestures' = gestures + 1
    /\ UNCHANGED <<file, starts, left, whole>>

\* A setter of the collector that changes the charts: the panes are new.
Set(i, opt, devices) ==
    /\ UserTurn(i)
    /\ run' = [run EXCEPT ![i].opt = opt, ![i].devices = devices,
                          ![i].quiet = FALSE,
                          ![i].looks = NewPanes(opt, devices)]

NoNetwork(opt) ==
    [opt EXCEPT !.monitor_network = FALSE, !.iface_all = FALSE, !.ifaces = {}]

OnToggle(i) ==
    /\ Up(i)
    /\ \E f \in Toggled : Set(i, [run[i].opt EXCEPT ![f] = ~@], run[i].devices)

OnToggleNetwork(i) ==
    /\ Up(i)
    /\ LET opt == run[i].opt
       IN  Set(i, IF opt.monitor_network THEN NoNetwork(opt)
                  ELSE [opt EXCEPT !.monitor_network = TRUE, !.iface_all = TRUE,
                                   !.ifaces = {}],
               run[i].devices)

\* add_iface; an interface that is listed changes nothing, and no pane is made.
add_iface(opt, name) ==
    [opt EXCEPT !.monitor_network = TRUE, !.iface_all = (name = All),
                !.ifaces = IF name = All THEN {} ELSE @ \cup {name}]

\* OnAddCapture: an interface, or a device, which no file keeps.
OnAddCapture(i) ==
    /\ Up(i)
    /\ \/ \E name \in (Ifaces \cup {All}) \ run[i].opt.ifaces :
             Set(i, add_iface(run[i].opt, name), run[i].devices)
       \/ Set(i, run[i].opt, TRUE)

\* OnRemoveCapture, for any of the charts (see Session for the active one).
OnRemoveCapture(i) ==
    /\ Up(i)
    /\ LET opt == run[i].opt
       IN  \E c \in DOMAIN run[i].looks :
              Set(i, CASE c = "network" -> NoNetwork(opt)
                       [] c = "device"  -> opt
                       [] OTHER         -> [opt EXCEPT ![c] = FALSE],
                  run[i].devices /\ c # "device")

\* OnInterval: the panes stay.
SetInterval(i) ==
    /\ UserTurn(i)
    /\ \E ms \in MenuIntervals \ {run[i].opt.interval_ms} :
          run' = [run EXCEPT ![i].opt.interval_ms = ms, ![i].quiet = FALSE]

\* OnToggleLegends, OnShowAs, ...: every pane, and the panes to come.
OnLook(i) ==
    /\ UserTurn(i)
    /\ \E look \in Looks \ {run[i].opt.look} :
          run' = [run EXCEPT ![i].opt.look = look, ![i].quiet = FALSE,
                             ![i].looks = [c \in DOMAIN @ |-> look]]

\* OnContextCommand: one pane.
OnContextCommand(i) ==
    /\ UserTurn(i)
    /\ \E c \in DOMAIN run[i].looks : \E look \in Looks \ {run[i].looks[c]} :
          run' = [run EXCEPT ![i].looks[c] = look, ![i].quiet = FALSE]

\* OnClose: what is saved is fixed, and the file truncated.
OnClose(i) ==
    LET r == run[i]
    IN  /\ Up(i)
        /\ \E st \in captures(r) :
              run' = [run EXCEPT ![i].phase = "saving", ![i].out = st]
        /\ file' = [file EXCEPT ![r.session] = NoState]
        /\ whole' = whole \ {r.session}
        /\ UNCHANGED <<starts, gestures, left>>

\* The stream is closed: all of it is written, or what the disk has room for.
Write(i) ==
    LET r == run[i]
    IN  /\ r # Off /\ r.phase = "saving"
        /\ run' = [run EXCEPT ![i] = Off]
        /\ \/ /\ file' = [file EXCEPT ![r.session] = r.out]
              /\ left' = [left EXCEPT ![r.session] = r.opt]
              /\ whole' = whole \cup {r.session}
           \/ /\ \E st \in CutStates(r.out) : file' = [file EXCEPT ![r.session] = st]
              /\ whole' = whole \ {r.session}
              /\ UNCHANGED left
        /\ UNCHANGED <<starts, gestures>>

\* A signal, or the end of the desktop session: no handler runs.  A directory
\* or file that cannot be written ends a session in the same way.
Kill(i) ==
    /\ run[i] # Off
    /\ run' = [run EXCEPT ![i] = Off]
    /\ UNCHANGED <<file, starts, gestures, left, whole>>

Next ==
    \E i \in Instances :
        \/ \E session \in Sessions, args \in CommandLines : Start(i, session, args)
        \/ OnToggle(i)
        \/ OnToggleNetwork(i)
        \/ OnAddCapture(i)
        \/ OnRemoveCapture(i)
        \/ SetInterval(i)
        \/ OnLook(i)
        \/ OnContextCommand(i)
        \/ OnClose(i)
        \/ Write(i)
        \/ Kill(i)

Spec == Init /\ [][Next]_vars

-----------------------------------------------------------------------------
(* Properties. *)

StateType(st) ==
    /\ DOMAIN st = Settings
    /\ \A f \in Settings \ {"look", "interval_ms", "ifaces"} : st[f] \in BOOLEAN
    /\ st.ifaces \subseteq Ifaces \cup {CutName}
    /\ st.look \in Looks
    /\ st.interval_ms \in Nat \ {0}

\* Every variable in its range: no interval of nothing, no unknown look.
TypeOK ==
    /\ DOMAIN file = Sessions /\ DOMAIN left = Sessions
    /\ \A s \in Sessions : /\ file[s] = NoState \/ StateType(file[s])
                           /\ left[s] = NoState \/ StateType(left[s])
    /\ whole \subseteq Sessions
    /\ \A i \in Instances : run[i] # Off =>
          /\ run[i].phase \in {"up", "saving"}
          /\ run[i].session \in Sessions /\ run[i].args \in CommandLines
          /\ StateType(run[i].opt)
          /\ run[i].looks \in [Charts(run[i].opt, run[i].devices) -> Looks]
    /\ starts \in 0..MaxStarts /\ gestures \in 0..MaxGestures

\* The settings of a run: those of its command line where that says something,
\* those in force when the last run with the same NAMEs was closed elsewhere.
\* (A saved interval that does not fit the window gives way; the look is saved
\* from a pane.)
StartsAsAsked ==
    [][\A i \in Instances :
          LET new == run'[i]
              was == left[new.session]
              ask == parse_options(new.session, new.args)
          IN  run[i] = Off /\ new # Off /\ new.session \in whole =>
                 \A f \in Settings \ {"look"} :
                    CASE f \in Explicit(new.args) -> new.opt[f] = ask[f]
                      [] f = "interval_ms" -> new.opt[f] \in {was[f], ask[f]}
                      [] OTHER -> new.opt[f] = was[f]]_vars

\* src/src/options.cpp:206 refuses an interval longer than the window; no saved state,
\* whole or cut, brings one in.
StartsInWindow ==
    \A i \in Instances : run[i] # Off /\ run[i].quiet =>
        run[i].opt.interval_ms <= run[i].args.window

\* Interfaces are listed only where some of them, and not all, are monitored:
\* whatever -i options came in whatever order, and wherever a file was cut.
\* (Session assumes this of the options it starts with.)
IfacesListed ==
    \A i \in Instances : run[i] # Off =>
        LET opt == run[i].opt
        IN  opt.ifaces # {} => opt.monitor_network /\ ~opt.iface_all

\* Restarting is not a change: a run that is told nothing and that the user does
\* not touch saves what it found, the saved interval where it fits the window,
\* and whoever else opened or saved the file meanwhile.
RestartKeepsState ==
    [][\A i \in Instances :
          LET r == run[i]
          IN  /\ r # Off /\ r.quiet /\ r.loaded # NoState
              /\ Explicit(r.args) = {}
              /\ r.session \in whole' /\ Write(i)
              => \A f \in Settings :
                    \/ file'[r.session][f] = r.loaded[f]
                    \/ f = "interval_ms" /\ r.loaded[f] > r.args.window]_vars

\* src/README.md:47, "Explicit CLI flags override the saved values for that run": a
\* run that was told and not touched saves what it found.
FlagsForThatRun ==
    [][\A i \in Instances :
          LET r == run[i]
          IN  /\ r # Off /\ r.quiet /\ r.loaded # NoState
              /\ r.session \in whole' /\ Write(i)
              => \A f \in Explicit(r.args) : file'[r.session][f] = r.loaded[f]]_vars

\* src/src/options.cpp:216 refuses a command line with "nothing to monitor": a session
\* without a NAME starts with a chart, as long as no file was cut.
StartsWithSomething ==
    [][\A i \in Instances :
          run[i] = Off /\ run'[i] # Off =>
             LET new == run'[i]
             IN  new.session = Unnamed /\ new.session \in whole
                    => DOMAIN new.looks # {}]_vars

=============================================================================
