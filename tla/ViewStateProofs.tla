--------------------------- MODULE ViewStateProofs ---------------------------
(* What holds of the settings of every run, for any lists of NAMEs, command  *)
(* lines, interfaces and intervals, and any number of instances: they are in *)
(* range, the interval of an untouched run fits its window, interfaces are   *)
(* listed only where some of them, and not all, are monitored, a run starts  *)
(* with what it was told or what the last one left, and restarting is no     *)
(* change.                                                                   *)
EXTENDS ViewState, TLAPS

-----------------------------------------------------------------------------
(* Settings. *)

\* Interfaces are listed where some of them are monitored.
Listed(st) == st.ifaces # {} => st.monitor_network /\ ~st.iface_all

Good(st) == StateType(st) /\ Listed(st)

\* The settings by name.
LEMMA SettingNames ==
    Settings = {"show_cpu", "show_memory", "monitor_network", "iface_all", "ifaces",
                "show_threads", "show_numfd", "show_connections", "look", "interval_ms"}
<1>1. DOMAIN Lines = 1..10
  BY DEF Lines
<1>2. Settings = {Lines[i] : i \in 1..10}
  BY <1>1 DEF Settings, ToSet
<1>3. \A i \in 1..10 : Lines[i] \in
        {"show_cpu", "show_memory", "monitor_network", "iface_all", "ifaces",
         "show_threads", "show_numfd", "show_connections", "look", "interval_ms"}
  BY DEF Lines
<1>4. /\ Lines[1] = "show_cpu" /\ Lines[2] = "show_memory" /\ Lines[3] = "monitor_network"
      /\ Lines[4] = "iface_all" /\ Lines[5] = "ifaces" /\ Lines[6] = "show_threads"
      /\ Lines[7] = "show_numfd" /\ Lines[8] = "show_connections" /\ Lines[9] = "look"
      /\ Lines[10] = "interval_ms"
  BY DEF Lines
<1> QED BY <1>2, <1>3, <1>4

\* A state is good if every setting is in its range.
LEMMA GoodByFields ==
    ASSUME NEW st, DOMAIN st = Settings,
           \A f \in Switches : st[f] \in BOOLEAN,
           st.monitor_network \in BOOLEAN, st.iface_all \in BOOLEAN,
           st.ifaces \subseteq Ifaces \cup {CutName}, st.look \in Looks,
           st.interval_ms \in Nat \ {0}, Listed(st)
    PROVE  Good(st)
BY SettingNames DEF Good, StateType, Switches

\* And the other way round.
LEMMA GoodFields ==
    ASSUME NEW st, Good(st)
    PROVE  /\ DOMAIN st = Settings
           /\ \A f \in Switches : st[f] \in BOOLEAN
           /\ st.monitor_network \in BOOLEAN /\ st.iface_all \in BOOLEAN
           /\ st.ifaces \subseteq Ifaces \cup {CutName} /\ st.look \in Looks
           /\ st.interval_ms \in Nat \ {0} /\ Listed(st)
BY SettingNames DEF Good, StateType, Switches

\* Names of interfaces are left only after the last "all".
LEMMA NetOptions ==
    ASSUME NEW args \in CommandLine
    PROVE  /\ net_options(args).all \in BOOLEAN
           /\ net_options(args).ifaces \subseteq Ifaces
           /\ net_options(args).ifaces # {} =>
                args.ifaces # <<>> /\ ~net_options(args).all
<1> DEFINE list == args.ifaces
           Ended(i) == \E j \in i..Len(list) : list[j] = All
           rest == {i \in DOMAIN list : ~Ended(i)}
<1>1. list \in Seq(Ifaces \cup {All})
  BY DEF CommandLine
<1>2. DOMAIN list = 1..Len(list) /\ Len(list) \in Nat
      /\ \A i \in 1..Len(list) : list[i] \in Ifaces \cup {All}
  BY <1>1
<1>3. /\ net_options(args).all = (list # <<>> /\ list[Len(list)] = All)
      /\ net_options(args).ifaces = {list[i] : i \in rest}
  BY DEF net_options
<1>4. ASSUME NEW i \in rest PROVE list[i] \in Ifaces /\ list # <<>> /\ list[Len(list)] # All
  <2>1. i \in 1..Len(list) /\ ~Ended(i)
    BY <1>2
  <2>2. list[i] # All /\ list[Len(list)] # All
    BY <1>2, <2>1
  <2> QED BY <1>2, <2>1, <2>2
<1>5. net_options(args).all \in BOOLEAN
  BY <1>3
<1> HIDE DEF rest, list
<1> QED BY <1>3, <1>4, <1>5 DEF list

\* What a command line alone stands for.
LEMMA ParseGood ==
    ASSUME NEW session \in Sessions, NEW args \in CommandLines
    PROVE  Good(parse_options(session, args))
<1> DEFINE opt == parse_options(session, args)
<1>1. args \in CommandLine /\ args.interval \in Nat /\ args.show \subseteq Switches
  BY SessionAssumption DEF CommandLine
<1>2. /\ DOMAIN opt = Settings
      /\ \A f \in Switches : opt[f] \in BOOLEAN
      /\ opt.look = DefaultLook
      /\ opt.ifaces = net_options(args).ifaces
      /\ opt.interval_ms = IF args.interval = NoChange THEN DefaultInterval ELSE args.interval
  BY SettingNames DEF parse_options, Switches
<1>3. /\ opt.monitor_network \in BOOLEAN /\ opt.iface_all \in BOOLEAN
      /\ args.ifaces # <<>> => opt.monitor_network
      /\ args.ifaces # <<>> => opt.iface_all = net_options(args).all
  BY <1>1, NetOptions, SettingNames DEF parse_options, Switches
<1>4. Listed(opt)
  BY <1>1, <1>2, <1>3, NetOptions DEF Listed
<1>5. opt.interval_ms \in Nat \ {0}
  BY <1>1, <1>2, NumberAssumption DEF NoChange
<1> HIDE DEF opt
<1> QED BY <1>1, <1>2, <1>3, <1>4, <1>5, NetOptions, GoodByFields, SessionAssumption DEF opt

\* A saved state over a command line: the network is taken from one of the two as a
\* whole, and the interval fits the window if that of the command line does.
LEMMA ApplyGood ==
    ASSUME NEW opt, NEW st, Good(opt), Good(st), NEW args \in CommandLines,
           opt.interval_ms <= args.window
    PROVE  /\ Good(apply_view_state(opt, st, args))
           /\ apply_view_state(opt, st, args).interval_ms <= args.window
<1> DEFINE new == apply_view_state(opt, st, args)
<1>1. args.show \subseteq Switches /\ args.window \in Nat
  BY SessionAssumption DEF CommandLine
<1>2. /\ DOMAIN new = Settings
      /\ \A f \in Settings : new[f] = opt[f] \/ new[f] = st[f]
  BY DEF apply_view_state
<1>3. \/ \A f \in Network : new[f] = opt[f]
      \/ \A f \in Network : new[f] = st[f]
  BY <1>1, SettingNames DEF apply_view_state, Explicit, Network, Switches
<1>4. new.interval_ms = opt.interval_ms
      \/ (new.interval_ms = st.interval_ms /\ ~(st.interval_ms > args.window))
  BY SettingNames DEF apply_view_state
<1> HIDE DEF new
<1>5. Listed(new)
  BY <1>3, GoodFields DEF Listed, Network
<1>6. Good(new)
  BY <1>2, <1>5, GoodFields, GoodByFields, SettingNames DEF Switches
<1>7. new.interval_ms <= args.window
  BY <1>1, <1>4, GoodFields
<1> QED BY <1>6, <1>7 DEF new

\* What is left of a file that was cut: its lists only after what they belong to.
LEMMA CutGood ==
    ASSUME NEW st, Good(st), NEW cut \in CutStates(st)
    PROVE  Good(cut)
<1> DEFINE names == {s \cup t : s \in SUBSET st.ifaces,
                                t \in {{}, IF st.ifaces = {} THEN {} ELSE {CutName}}}
<1>1. /\ DefaultState.ifaces = {} /\ DefaultState.look = DefaultLook
      /\ DefaultState.interval_ms = DefaultInterval
      /\ \A f \in Settings \ {"ifaces", "look", "interval_ms"} : DefaultState[f] = FALSE
  BY SettingNames DEF DefaultState
<1>2. ASSUME NEW n \in 0..Len(Lines)
      PROVE  /\ Good(FirstLines(st, n))
             /\ n = 4 => /\ FirstLines(st, n).monitor_network = st.monitor_network
                         /\ FirstLines(st, n).iface_all = st.iface_all
  <2>1. n \in 0..10
    BY DEF Lines
  <2>2. /\ DOMAIN FirstLines(st, n) = Settings
        /\ \A f \in Settings : FirstLines(st, n)[f] = st[f] \/ FirstLines(st, n)[f] = DefaultState[f]
    BY DEF FirstLines
  <2>3. /\ n >= 3 => FirstLines(st, n).monitor_network = st.monitor_network
        /\ n >= 4 => FirstLines(st, n).iface_all = st.iface_all
    BY <2>1, SettingNames DEF Lines, FirstLines
  <2>4. n < 5 => FirstLines(st, n).ifaces = {}
    <3>1. ASSUME n < 5, NEW i \in 1..n PROVE Lines[i] # "ifaces"
      BY <2>1, <3>1 DEF Lines
    <3> QED BY <1>1, <3>1, SettingNames DEF FirstLines
  <2>5. Listed(FirstLines(st, n))
    BY <1>1, <2>1, <2>2, <2>3, <2>4, GoodFields, SettingNames DEF Listed
  <2>6. Good(FirstLines(st, n))
    BY <1>1, <2>2, <2>5, GoodFields, GoodByFields, SettingNames, SessionAssumption,
       NumberAssumption, ZenonT(30) DEF Switches
  <2> QED BY <2>3, <2>6
<1>3. \/ \E n \in 0..Len(Lines) : cut = FirstLines(st, n)
      \/ \E s \in names : cut = FirstIfaces(st, s)
      \/ /\ st.interval_ms \div 10 > 0
         /\ cut = [st EXCEPT !.interval_ms = st.interval_ms \div 10]
  <2> DEFINE whole_lines == {FirstLines(st, n) : n \in 0..Len(Lines)}
             in_list == {FirstIfaces(st, s) : s \in names}
             in_number == IF st.interval_ms \div 10 > 0
                          THEN {[st EXCEPT !.interval_ms = st.interval_ms \div 10]} ELSE {}
  <2>1. CutStates(st) = whole_lines \cup in_list \cup in_number
    BY DEF CutStates
  <2>2. cut \in whole_lines \/ cut \in in_list \/ cut \in in_number
    <3> HIDE DEF whole_lines, in_list, in_number
    <3> QED BY <2>1
  <2>3. cut \in in_list => \E s \in names : cut = FirstIfaces(st, s)
    <3> HIDE DEF names
    <3> QED OBVIOUS
  <2>4. cut \in whole_lines => \E n \in 0..Len(Lines) : cut = FirstLines(st, n)
    OBVIOUS
  <2>5. cut \in in_number => /\ st.interval_ms \div 10 > 0
                            /\ cut = [st EXCEPT !.interval_ms = st.interval_ms \div 10]
    OBVIOUS
  <2> HIDE DEF whole_lines, in_list, in_number, names
  <2> QED BY <2>2, <2>3, <2>4, <2>5
<1>4. 4 \in 0..Len(Lines)
  BY DEF Lines
<1>5. ASSUME NEW s \in names, cut = FirstIfaces(st, s) PROVE Good(cut)
  <2>1. s \subseteq Ifaces \cup {CutName} /\ (s # {} => st.ifaces # {})
    BY GoodFields
  <2>0. Good(FirstLines(st, 4))
    BY <1>2, <1>4
  <2>2. DOMAIN cut = Settings /\ cut.ifaces = s
        /\ \A f \in Settings \ {"ifaces"} : cut[f] = FirstLines(st, 4)[f]
    BY <1>5, <2>0, GoodFields, SettingNames DEF FirstIfaces
  <2>3. Listed(cut)
    BY <1>2, <1>4, <2>1, <2>2, GoodFields, SettingNames DEF Listed
  <2>4. /\ \A f \in Switches : cut[f] \in BOOLEAN
        /\ cut.monitor_network \in BOOLEAN /\ cut.iface_all \in BOOLEAN
        /\ cut.look \in Looks /\ cut.interval_ms \in Nat \ {0}
    BY <2>0, <2>2, GoodFields, SettingNames DEF Switches
  <2> QED BY <2>1, <2>2, <2>3, <2>4, GoodByFields
<1>6. ASSUME st.interval_ms \div 10 > 0,
             cut = [st EXCEPT !.interval_ms = st.interval_ms \div 10]
      PROVE  Good(cut)
  <2>1. DOMAIN cut = Settings /\ cut.interval_ms = st.interval_ms \div 10
        /\ \A f \in Settings \ {"interval_ms"} : cut[f] = st[f]
    BY <1>6, GoodFields, SettingNames
  <2>2. cut.interval_ms \in Nat \ {0}
    BY <1>6, <2>1, GoodFields
  <2>3. Listed(cut)
    BY <2>1, GoodFields, SettingNames DEF Listed
  <2> QED BY <2>1, <2>2, <2>3, GoodFields, GoodByFields, SettingNames DEF Switches
<1> HIDE DEF names
<1> QED BY <1>2, <1>3, <1>5, <1>6

-----------------------------------------------------------------------------
(* Runs. *)

RunFields == {"phase", "session", "args", "opt", "devices", "looks", "loaded", "quiet",
              "out"}

\* What a run goes by and what it will save.
RunGood(r) ==
    /\ DOMAIN r = RunFields
    /\ r.phase \in {"up", "saving"} /\ r.session \in Sessions /\ r.args \in CommandLines
    /\ Good(r.opt)
    /\ r.looks \in [Charts(r.opt, r.devices) -> Looks]
    /\ r.quiet => r.opt.interval_ms <= r.args.window
    /\ r.phase = "saving" => Good(r.out)

\* Every file, every run.
IInv ==
    /\ DOMAIN file = Sessions /\ DOMAIN left = Sessions /\ DOMAIN run = Instances
    /\ \A s \in Sessions : /\ file[s] = NoState \/ Good(file[s])
                           /\ left[s] = NoState \/ Good(left[s])
    /\ whole \subseteq Sessions
    /\ \A i \in Instances : run[i] = Off \/ RunGood(run[i])
    /\ starts \in 0..MaxStarts /\ gestures \in 0..MaxGestures

\* New panes have the frame's look.
LEMMA NewPanesGood ==
    ASSUME NEW opt, Good(opt), NEW devices
    PROVE  NewPanes(opt, devices) \in [Charts(opt, devices) -> Looks]
BY GoodFields DEF NewPanes

\* Interval and look have no part in what is charted.
LEMMA ChartsAlike ==
    ASSUME NEW opt, NEW new, NEW devices,
           \A f \in Switches \cup Network : new[f] = opt[f]
    PROVE  Charts(new, devices) = Charts(opt, devices)
<1>1. {f \in Switches \ {"show_numfd"} : new[f]} = {f \in Switches \ {"show_numfd"} : opt[f]}
  OBVIOUS
<1>2. /\ new.monitor_network = opt.monitor_network /\ new.iface_all = opt.iface_all
      /\ new.ifaces = opt.ifaces
  BY DEF Network
<1> QED BY <1>1, <1>2 DEF Charts

\* A gesture of the user changes one run, which stays good.
LEMMA UserStep ==
    ASSUME IInv, NEW i \in Instances, UserTurn(i), NEW r, RunGood(r),
           run' = [run EXCEPT ![i] = r]
    PROVE  IInv'
<1>1. gestures' \in 0..MaxGestures
  BY NumberAssumption DEF UserTurn, IInv
<1>2. \A j \in Instances : run'[j] = Off \/ RunGood(run'[j])
  BY DEF IInv
<1> QED BY <1>1, <1>2 DEF IInv, UserTurn

\* A setter that changes the charts.
LEMMA SetStep ==
    ASSUME IInv, NEW i \in Instances, NEW opt, Good(opt), NEW devices, Set(i, opt, devices)
    PROVE  IInv'
<1> DEFINE r == [run[i] EXCEPT !.opt = opt, !.devices = devices, !.quiet = FALSE,
                               !.looks = NewPanes(opt, devices)]
<1>1. UserTurn(i) /\ RunGood(run[i]) /\ run[i].phase = "up"
  BY DEF Set, UserTurn, Up, IInv
<1>2. run' = [run EXCEPT ![i] = r]
  BY DEF Set
<1>3. /\ DOMAIN r = RunFields /\ r.opt = opt /\ r.devices = devices /\ r.quiet = FALSE
      /\ r.looks = NewPanes(opt, devices)
      /\ r.phase = "up" /\ r.session = run[i].session /\ r.args = run[i].args
  BY <1>1 DEF RunGood, RunFields
<1> HIDE DEF r
<1>4. RunGood(r)
  BY <1>1, <1>3, NewPanesGood DEF RunGood
<1> QED BY <1>1, <1>2, <1>4, UserStep

\* No network is listed where none is monitored.
LEMMA NoNetworkGood ==
    ASSUME NEW opt, Good(opt)
    PROVE  Good(NoNetwork(opt))
<1>1. /\ DOMAIN NoNetwork(opt) = Settings
      /\ NoNetwork(opt).monitor_network = FALSE /\ NoNetwork(opt).iface_all = FALSE
      /\ NoNetwork(opt).ifaces = {}
      /\ \A f \in Settings \ Network : NoNetwork(opt)[f] = opt[f]
  BY GoodFields, SettingNames DEF NoNetwork, Network
<1> QED BY <1>1, GoodFields, GoodByFields, SettingNames DEF Listed, Switches, Network

\* Nor where all are.
LEMMA AddIfaceGood ==
    ASSUME NEW opt, Good(opt), NEW name \in Ifaces \cup {All}
    PROVE  Good(add_iface(opt, name))
<1> DEFINE new == add_iface(opt, name)
<1>1. /\ DOMAIN new = Settings
      /\ new.monitor_network = TRUE /\ new.iface_all = (name = All)
      /\ new.ifaces = IF name = All THEN {} ELSE opt.ifaces \cup {name}
      /\ \A f \in Settings \ Network : new[f] = opt[f]
  BY GoodFields, SettingNames DEF add_iface, Network
<1> HIDE DEF new
<1>2. new.ifaces \subseteq Ifaces \cup {CutName}
  BY <1>1, GoodFields
<1>3. Good(new)
  BY <1>1, <1>2, GoodFields, GoodByFields, SettingNames, ZenonT(30) DEF Listed, Switches, Network
<1> QED BY <1>3 DEF new

\* A switch that is not about the network.
LEMMA SwitchGood ==
    ASSUME NEW opt, Good(opt), NEW f \in Switches, NEW on \in BOOLEAN
    PROVE  Good([opt EXCEPT ![f] = on])
<1> DEFINE new == [opt EXCEPT ![f] = on]
<1>1. DOMAIN new = Settings /\ new[f] = on
      /\ \A g \in Settings \ {f} : new[g] = opt[g]
  BY GoodFields, SettingNames DEF Switches
<1> HIDE DEF new
<1>2. \A g \in Switches : new[g] \in BOOLEAN
  BY <1>1, GoodFields, SettingNames DEF Switches
<1>3. /\ new.monitor_network = opt.monitor_network /\ new.iface_all = opt.iface_all
      /\ new.ifaces = opt.ifaces /\ new.look = opt.look
      /\ new.interval_ms = opt.interval_ms
  BY <1>1, SettingNames DEF Switches
<1>4. Good(new)
  BY <1>1, <1>2, <1>3, GoodFields, GoodByFields DEF Listed
<1> QED BY <1>4 DEF new

\* With another look.
LEMMA LookGood ==
    ASSUME NEW opt, Good(opt), NEW look \in Looks
    PROVE  /\ Good([opt EXCEPT !.look = look])
           /\ \A f \in Switches \cup Network : [opt EXCEPT !.look = look][f] = opt[f]
<1> DEFINE new == [opt EXCEPT !.look = look]
<1>1. DOMAIN new = Settings /\ new.look = look
      /\ \A g \in Settings \ {"look"} : new[g] = opt[g]
  BY GoodFields, SettingNames
<1> HIDE DEF new
<1>2. Good(new)
  BY <1>1, GoodFields, GoodByFields, SettingNames DEF Listed, Switches
<1>3. \A f \in Switches \cup Network : new[f] = opt[f]
  BY <1>1, SettingNames DEF Switches, Network
<1> QED BY <1>2, <1>3 DEF new

\* And with another interval.
LEMMA IntervalGood ==
    ASSUME NEW opt, Good(opt), NEW ms \in Nat \ {0}
    PROVE  /\ Good([opt EXCEPT !.interval_ms = ms])
           /\ \A f \in Switches \cup Network : [opt EXCEPT !.interval_ms = ms][f] = opt[f]
<1> DEFINE new == [opt EXCEPT !.interval_ms = ms]
<1>1. DOMAIN new = Settings /\ new.interval_ms = ms
      /\ \A g \in Settings \ {"interval_ms"} : new[g] = opt[g]
  BY GoodFields, SettingNames
<1> HIDE DEF new
<1>2. Good(new)
  BY <1>1, GoodFields, GoodByFields, SettingNames DEF Listed, Switches
<1>3. \A f \in Switches \cup Network : new[f] = opt[f]
  BY <1>1, SettingNames DEF Switches, Network
<1> QED BY <1>2, <1>3 DEF new

-----------------------------------------------------------------------------
(* Steps. *)

\* A run starts with a saved state over its command line.
LEMMA StartStep ==
    ASSUME IInv, NEW i \in Instances, NEW session \in Sessions, NEW args \in CommandLines,
           Start(i, session, args)
    PROVE  IInv'
<1> DEFINE opt == StartingOptions(session, args)
           r == [phase |-> "up", session |-> session, args |-> args, opt |-> opt,
                 devices |-> args.devices, looks |-> NewPanes(opt, args.devices),
                 loaded |-> file[session], quiet |-> TRUE, out |-> NoState]
<1>1. Good(opt) /\ opt.interval_ms <= args.window
  <2>1. Good(parse_options(session, args)) /\ args.window \in Nat
    BY ParseGood, SessionAssumption DEF CommandLine
  <2>2. parse_options(session, args).interval_ms <= args.window
    BY <2>1, GoodFields DEF Start
  <2>3. file[session] = NoState \/ Good(file[session])
    BY DEF IInv
  <2> QED BY <2>1, <2>2, <2>3, ApplyGood DEF StartingOptions
<1> HIDE DEF opt
<1>2. run' = [run EXCEPT ![i] = r]
  BY DEF Start, opt
<1>3. RunGood(r)
  BY <1>1, NewPanesGood DEF RunGood, RunFields
<1>4. starts' \in 0..MaxStarts /\ UNCHANGED <<file, left, whole, gestures>>
  BY NumberAssumption DEF Start, IInv
<1> HIDE DEF r
<1>5. \A j \in Instances : run'[j] = Off \/ RunGood(run'[j])
  BY <1>2, <1>3 DEF IInv
<1> QED BY <1>2, <1>4, <1>5 DEF IInv

\* What is saved is good: the settings of the frame, the look of a pane.
LEMMA CloseStep ==
    ASSUME IInv, NEW i \in Instances, OnClose(i)
    PROVE  IInv'
<1>1. RunGood(run[i]) /\ run[i].phase = "up"
  BY DEF OnClose, Up, IInv
<1>2. PICK st \in captures(run[i]) :
         run' = [run EXCEPT ![i].phase = "saving", ![i].out = st]
  BY DEF OnClose
<1>3. Good(st)
  <2>1. CASE DOMAIN run[i].looks = {}
    BY <1>1, <1>2, <2>1 DEF captures, RunGood
  <2>2. CASE DOMAIN run[i].looks # {}
    <3>1. PICK look \in Range(run[i].looks) : st = [run[i].opt EXCEPT !.look = look]
      BY <1>2, <2>2 DEF captures
    <3>2. look \in Looks
      BY <1>1 DEF RunGood, Range
    <3> QED BY <1>1, <3>1, <3>2, LookGood DEF RunGood
  <2> QED BY <2>1, <2>2
<1> DEFINE r == [run[i] EXCEPT !.phase = "saving", !.out = st]
<1>4. run' = [run EXCEPT ![i] = r]
  BY <1>2
<1>5. /\ DOMAIN r = RunFields /\ r.phase = "saving" /\ r.out = st
      /\ r.session = run[i].session /\ r.args = run[i].args /\ r.opt = run[i].opt
      /\ r.looks = run[i].looks /\ r.devices = run[i].devices /\ r.quiet = run[i].quiet
  BY <1>1 DEF RunGood, RunFields
<1> HIDE DEF r
<1>6. RunGood(r)
  BY <1>1, <1>3, <1>5 DEF RunGood
<1>7. /\ file' = [file EXCEPT ![run[i].session] = NoState]
      /\ whole' = whole \ {run[i].session} /\ UNCHANGED <<starts, gestures, left>>
  BY DEF OnClose
<1>8. \A j \in Instances : run'[j] = Off \/ RunGood(run'[j])
  BY <1>4, <1>6 DEF IInv
<1> QED BY <1>4, <1>7, <1>8 DEF IInv

\* So is what a file that was cut is read as.
LEMMA WriteStep ==
    ASSUME IInv, NEW i \in Instances, Write(i)
    PROVE  IInv'
<1> DEFINE r == run[i]
<1>1. RunGood(r) /\ r.phase = "saving"
  BY DEF Write, IInv
<1>2. Good(r.out) /\ Good(r.opt) /\ r.session \in Sessions
  BY <1>1 DEF RunGood
<1>3. \E st : /\ Good(st) /\ file' = [file EXCEPT ![r.session] = st]
  BY <1>2, CutGood DEF Write
<1>4. left' = [left EXCEPT ![r.session] = r.opt] \/ left' = left
  BY DEF Write
<1>5. whole' \subseteq whole \cup {r.session}
  BY DEF Write
<1>6. run' = [run EXCEPT ![i] = Off] /\ UNCHANGED <<starts, gestures>>
  BY DEF Write
<1> HIDE DEF r
<1>7. \A s \in Sessions : /\ file'[s] = NoState \/ Good(file'[s])
                          /\ left'[s] = NoState \/ Good(left'[s])
  BY <1>2, <1>3, <1>4 DEF IInv
<1>8. DOMAIN file' = Sessions /\ DOMAIN left' = Sessions /\ DOMAIN run' = Instances
  BY <1>3, <1>4, <1>6 DEF IInv
<1>9. \A j \in Instances : run'[j] = Off \/ RunGood(run'[j])
  BY <1>6 DEF IInv
<1>10. whole' \subseteq Sessions
  BY <1>2, <1>5 DEF IInv
<1>11. starts' \in 0..MaxStarts /\ gestures' \in 0..MaxGestures
  BY <1>6 DEF IInv
<1> QED BY <1>7, <1>8, <1>9, <1>10, <1>11 DEF IInv

\* Commands of the menu that change the charts.
LEMMA MenuStep ==
    ASSUME IInv, NEW i \in Instances,
           OnToggle(i) \/ OnToggleNetwork(i) \/ OnAddCapture(i) \/ OnRemoveCapture(i)
    PROVE  IInv'
<1> DEFINE opt == run[i].opt
<1>1. RunGood(run[i]) /\ Good(opt)
  BY DEF OnToggle, OnToggleNetwork, OnAddCapture, OnRemoveCapture, Up, IInv, RunGood
<1>2. CASE OnToggle(i)
  <2>1. PICK f \in Toggled : Set(i, [opt EXCEPT ![f] = ~opt[f]], run[i].devices)
    BY <1>2 DEF OnToggle
  <2>2. f \in Switches /\ (~opt[f]) \in BOOLEAN
    BY SessionAssumption
  <2> QED BY <1>1, <2>1, <2>2, SwitchGood, SetStep
<1>3. CASE OnToggleNetwork(i)
  <2> DEFINE on == [opt EXCEPT !.monitor_network = TRUE, !.iface_all = TRUE, !.ifaces = {}]
  <2>1. /\ DOMAIN on = Settings /\ on.monitor_network = TRUE /\ on.iface_all = TRUE
        /\ on.ifaces = {} /\ \A f \in Settings \ Network : on[f] = opt[f]
    BY <1>1, GoodFields, SettingNames DEF Network
  <2>2. Set(i, NoNetwork(opt), run[i].devices) \/ Set(i, on, run[i].devices)
    BY <1>3 DEF OnToggleNetwork
  <2> HIDE DEF on
  <2>3. Good(on)
    BY <1>1, <2>1, GoodFields, GoodByFields, SettingNames, ZenonT(30) DEF Listed, Switches, Network
  <2> QED BY <1>1, <2>2, <2>3, NoNetworkGood, SetStep
<1>4. CASE OnAddCapture(i)
  <2>1. CASE Set(i, opt, TRUE)
    BY <1>1, <2>1, SetStep
  <2>2. ASSUME NEW name \in Ifaces \cup {All}, Set(i, add_iface(opt, name), run[i].devices)
        PROVE  IInv'
    BY <1>1, <2>2, AddIfaceGood, SetStep
  <2> QED BY <1>4, <2>1, <2>2 DEF OnAddCapture
<1>5. CASE OnRemoveCapture(i)
  <2> DEFINE less(c) == CASE c = "network" -> NoNetwork(opt)
                          [] c = "device"  -> opt
                          [] OTHER         -> [opt EXCEPT ![c] = FALSE]
  <2>1. PICK c \in DOMAIN run[i].looks :
           Set(i, less(c), run[i].devices /\ c # "device")
    BY <1>5 DEF OnRemoveCapture
  <2>2. c \in Switches \cup {"network", "device"}
    BY <1>1 DEF RunGood, Charts
  <2>3. CASE c = "network"
    BY <1>1, <2>1, <2>3, NoNetworkGood, SetStep
  <2>4. CASE c = "device"
    BY <1>1, <2>1, <2>4, SetStep
  <2>5. CASE c \in Switches
    <3>1. less(c) = [opt EXCEPT ![c] = FALSE]
      BY <2>5 DEF Switches
    <3>2. Good([opt EXCEPT ![c] = FALSE])
      BY <1>1, <2>5, SwitchGood
    <3> HIDE DEF less
    <3> QED BY <2>1, <3>1, <3>2, SetStep
  <2> QED BY <2>2, <2>3, <2>4, <2>5
<1> QED BY <1>2, <1>3, <1>4, <1>5

\* Commands that do not: the panes stay.
LEMMA OtherStep ==
    ASSUME IInv, NEW i \in Instances, SetInterval(i) \/ OnLook(i) \/ OnContextCommand(i)
    PROVE  IInv'
<1> DEFINE opt == run[i].opt
<1>1. RunGood(run[i]) /\ Good(opt) /\ UserTurn(i)
  BY DEF SetInterval, OnLook, OnContextCommand, UserTurn, Up, IInv, RunGood
<1>3. ASSUME NEW new, NEW looks, Good(new), looks \in [Charts(new, run[i].devices) -> Looks],
             run' = [run EXCEPT ![i] =
                       [run[i] EXCEPT !.opt = new, !.quiet = FALSE, !.looks = looks]]
      PROVE  IInv'
  <2> DEFINE r == [run[i] EXCEPT !.opt = new, !.quiet = FALSE, !.looks = looks]
  <2>1. /\ DOMAIN r = RunFields /\ r.opt = new /\ r.quiet = FALSE /\ r.looks = looks
        /\ r.phase = run[i].phase /\ r.session = run[i].session /\ r.args = run[i].args
        /\ r.devices = run[i].devices /\ r.out = run[i].out
    BY <1>1 DEF RunGood, RunFields
  <2> HIDE DEF r
  <2>2. RunGood(r)
    BY <1>1, <1>3, <2>1 DEF RunGood
  <2> QED BY <1>1, <1>3, <2>2, UserStep DEF r
<1>4. CASE SetInterval(i)
  <2>1. PICK ms \in MenuIntervals :
           run' = [run EXCEPT ![i].opt.interval_ms = ms, ![i].quiet = FALSE]
    BY <1>4 DEF SetInterval
  <2> DEFINE new == [opt EXCEPT !.interval_ms = ms]
  <2>2. ms \in Nat \ {0}
    BY NumberAssumption
  <2>3. Good(new) /\ Charts(new, run[i].devices) = Charts(opt, run[i].devices)
    <3>1. Good(new) /\ \A f \in Switches \cup Network : new[f] = opt[f]
      BY <1>1, <2>2, IntervalGood
    <3> HIDE DEF new
    <3> QED BY <3>1, ChartsAlike
  <2>4. run[i].looks \in [Charts(new, run[i].devices) -> Looks]
    BY <1>1, <2>3 DEF RunGood
  <2>5. run' = [run EXCEPT ![i] = [run[i] EXCEPT !.opt = new, !.quiet = FALSE,
                                                 !.looks = run[i].looks]]
    BY <1>1, <2>1 DEF RunGood, RunFields
  <2> QED BY <1>3, <2>3, <2>4, <2>5
<1>5. CASE OnLook(i)
  <2>1. PICK look \in Looks :
           run' = [run EXCEPT ![i].opt.look = look, ![i].quiet = FALSE,
                              ![i].looks = [c \in DOMAIN run[i].looks |-> look]]
    BY <1>5 DEF OnLook
  <2> DEFINE new == [opt EXCEPT !.look = look]
             looks == [c \in DOMAIN run[i].looks |-> look]
  <2>2. Good(new) /\ Charts(new, run[i].devices) = Charts(opt, run[i].devices)
    <3>1. Good(new) /\ \A f \in Switches \cup Network : new[f] = opt[f]
      BY <1>1, <2>1, LookGood
    <3> HIDE DEF new
    <3> QED BY <3>1, ChartsAlike
  <2>3. looks \in [Charts(new, run[i].devices) -> Looks]
    BY <1>1, <2>2 DEF RunGood
  <2>4. run' = [run EXCEPT ![i] = [run[i] EXCEPT !.opt = new, !.quiet = FALSE,
                                                 !.looks = looks]]
    BY <2>1
  <2> QED BY <1>3, <2>2, <2>3, <2>4
<1>6. CASE OnContextCommand(i)
  <2>1. PICK c \in DOMAIN run[i].looks, look \in Looks :
           run' = [run EXCEPT ![i].looks[c] = look, ![i].quiet = FALSE]
    BY <1>6 DEF OnContextCommand
  <2> DEFINE looks == [run[i].looks EXCEPT ![c] = look]
  <2>2. looks \in [Charts(opt, run[i].devices) -> Looks]
    BY <1>1, <2>1 DEF RunGood
  <2>3. run' = [run EXCEPT ![i] = [run[i] EXCEPT !.opt = opt, !.quiet = FALSE,
                                                 !.looks = looks]]
    BY <1>1, <2>1 DEF RunGood, RunFields
  <2> QED BY <1>1, <1>3, <2>2, <2>3
<1> QED BY <1>4, <1>5, <1>6

\* Every step.
LEMMA InvStep ==
    ASSUME IInv, [Next]_vars
    PROVE  IInv'
<1>1. CASE UNCHANGED vars
  BY <1>1 DEF IInv, vars
<1>2. ASSUME NEW i \in Instances, Kill(i) PROVE IInv'
  BY <1>2 DEF Kill, IInv
<1> QED BY <1>1, <1>2, StartStep, CloseStep, WriteStep, MenuStep, OtherStep DEF Next

\* The invariant that the properties follow from.
THEOREM StatesGood == Spec => []IInv
<1>1. Init => IInv
  BY NumberAssumption DEF Init, IInv
<1>2. IInv /\ [Next]_vars => IInv'
  BY InvStep
<1> QED BY <1>1, <1>2, PTL DEF Spec

\* Every variable stays in its range, also the settings that a cut file left.
THEOREM TypeCorrect == Spec => []TypeOK
<1>1. IInv => TypeOK
  BY DEF IInv, TypeOK, RunGood, Good
<1> QED BY <1>1, StatesGood, PTL

\* The interval of a run that the user has not touched fits its window.
THEOREM IntervalFits == Spec => []StartsInWindow
<1>1. IInv => StartsInWindow
  BY DEF IInv, StartsInWindow, RunGood
<1> QED BY <1>1, StatesGood, PTL

\* Interfaces are listed only where some, and not all, are monitored.
THEOREM ListsOnlyMonitored == Spec => []IfacesListed
<1>1. IInv => IfacesListed
  BY DEF IInv, IfacesListed, RunGood, Good, Listed
<1> QED BY <1>1, StatesGood, PTL

-----------------------------------------------------------------------------
(* From one run to the next. *)

\* A file that was written as a whole holds the settings in force at the end of a
\* run.  Of the look, which is that of a pane, it says nothing.
Kept ==
    \A s \in whole : /\ file[s] # NoState
                     /\ \A f \in Settings \ {"look"} : file[s][f] = left[s][f]

\* What is about to be saved are the settings of the run.
Saves(r) == r.phase = "saving" => \A f \in Settings \ {"look"} : r.out[f] = r.opt[f]

\* A run that the user did not touch still has what it started with.
Untouched(r) ==
    r.quiet /\ r.loaded # NoState =>
        /\ r.opt = apply_view_state(parse_options(r.session, r.args), r.loaded, r.args)
        /\ \A c \in DOMAIN r.looks : r.looks[c] = r.opt.look
        /\ r.phase = "saving" => r.out.look = r.opt.look

Faithful == /\ Kept
            /\ \A i \in Instances : run[i] # Off => Saves(run[i]) /\ Untouched(run[i])

\* A good state is one.
LEMMA GoodIsState == ASSUME NEW st, Good(st) PROVE st # NoState
<1>1. DOMAIN NoState = {}
  BY DEF NoState
<1>2. DOMAIN st # {}
  BY GoodFields, SettingNames
<1> QED BY <1>1, <1>2

\* A touched run that is up owes nothing yet.
LEMMA TouchedStep ==
    ASSUME Faithful, IInv, NEW i \in Instances, NEW r, r.phase = "up", r.quiet = FALSE,
           run' = [run EXCEPT ![i] = r], UNCHANGED <<file, left, whole>>
    PROVE  Faithful'
<1>1. Kept'
  BY DEF Faithful, Kept
<1>2. Saves(r) /\ Untouched(r)
  BY DEF Saves, Untouched
<1>3. \A j \in Instances : run'[j] # Off => Saves(run'[j]) /\ Untouched(run'[j])
  BY <1>2 DEF IInv, Faithful
<1> QED BY <1>1, <1>3 DEF Faithful

\* Every gesture touches.
LEMMA GestureFaithful ==
    ASSUME Faithful, IInv, NEW i \in Instances,
           \/ OnToggle(i) \/ OnToggleNetwork(i) \/ OnAddCapture(i) \/ OnRemoveCapture(i)
           \/ SetInterval(i) \/ OnLook(i) \/ OnContextCommand(i)
    PROVE  Faithful'
<1>1. ASSUME NEW opt, NEW devices, Set(i, opt, devices) PROVE Faithful'
  <2> DEFINE r == [run[i] EXCEPT !.opt = opt, !.devices = devices, !.quiet = FALSE,
                                 !.looks = NewPanes(opt, devices)]
  <2>1. run' = [run EXCEPT ![i] = r] /\ UNCHANGED <<file, left, whole>>
    BY <1>1 DEF Set, UserTurn
  <2>2. r.phase = "up" /\ r.quiet = FALSE
    BY <1>1 DEF Set, UserTurn, Up, IInv, RunGood, RunFields
  <2> HIDE DEF r
  <2> QED BY <2>1, <2>2, TouchedStep
<1>2. CASE SetInterval(i) \/ OnLook(i) \/ OnContextCommand(i)
  <2>1. UserTurn(i) /\ RunGood(run[i]) /\ run[i].phase = "up"
    BY <1>2 DEF SetInterval, OnLook, OnContextCommand, UserTurn, Up, IInv
  <2>2. /\ run' = [run EXCEPT ![i] = run'[i]]
        /\ run'[i].phase = "up" /\ run'[i].quiet = FALSE
    <3>1. {"phase", "session", "args", "opt", "looks", "quiet"} \subseteq DOMAIN run[i]
          /\ DOMAIN run = Instances
      BY <2>1 DEF RunGood, RunFields, IInv
    <3>2. CASE SetInterval(i)
      BY <2>1, <3>1, <3>2 DEF SetInterval
    <3>3. CASE OnLook(i)
      BY <2>1, <3>1, <3>3, ZenonT(30) DEF OnLook
    <3>4. CASE OnContextCommand(i)
      BY <2>1, <3>1, <3>4 DEF OnContextCommand
    <3> QED BY <1>2, <3>2, <3>3, <3>4
  <2> QED BY <2>1, <2>2, TouchedStep DEF UserTurn
<1>3. CASE \/ OnToggle(i) \/ OnToggleNetwork(i) \/ OnAddCapture(i) \/ OnRemoveCapture(i)
  <2>1. \E opt, devices : Set(i, opt, devices)
    BY <1>3 DEF OnToggle, OnToggleNetwork, OnAddCapture, OnRemoveCapture
  <2> QED BY <1>1, <2>1
<1> QED BY <1>2, <1>3

\* A start reads a file and leaves all of them alone.
LEMMA StartFaithful ==
    ASSUME Faithful, IInv, NEW i \in Instances, NEW session \in Sessions,
           NEW args \in CommandLines, Start(i, session, args)
    PROVE  Faithful'
<1> DEFINE opt == StartingOptions(session, args)
           r == [phase |-> "up", session |-> session, args |-> args, opt |-> opt,
                 devices |-> args.devices, looks |-> NewPanes(opt, args.devices),
                 loaded |-> file[session], quiet |-> TRUE, out |-> NoState]
<1>1. file[session] # NoState =>
        opt = apply_view_state(parse_options(session, args), file[session], args)
  BY DEF StartingOptions
<1>2. run' = [run EXCEPT ![i] = r] /\ UNCHANGED <<file, left, whole>>
  BY DEF Start
<1> HIDE DEF opt
<1>3. Saves(r) /\ Untouched(r)
  BY <1>1 DEF Saves, Untouched, NewPanes
<1> HIDE DEF r
<1>4. Kept'
  BY <1>2 DEF Faithful, Kept
<1>5. \A j \in Instances : run'[j] # Off => Saves(run'[j]) /\ Untouched(run'[j])
  BY <1>2, <1>3 DEF IInv, Faithful
<1> QED BY <1>4, <1>5 DEF Faithful

\* Closing takes the settings of the frame, and the look of a pane.
LEMMA CloseFaithful ==
    ASSUME Faithful, IInv, NEW i \in Instances, OnClose(i)
    PROVE  Faithful'
<1>1. RunGood(run[i]) /\ run[i].phase = "up" /\ Untouched(run[i])
  BY DEF OnClose, Up, IInv, Faithful
<1>2. PICK st \in captures(run[i]) :
         run' = [run EXCEPT ![i].phase = "saving", ![i].out = st]
  BY DEF OnClose
<1>3. \/ DOMAIN run[i].looks = {} /\ st = run[i].opt
      \/ \E c \in DOMAIN run[i].looks : st = [run[i].opt EXCEPT !.look = run[i].looks[c]]
  BY <1>2 DEF captures, Range
<1>4. \A f \in Settings \ {"look"} : st[f] = run[i].opt[f]
  BY <1>1, <1>3, GoodFields DEF RunGood
<1>5. run[i].quiet /\ run[i].loaded # NoState => st.look = run[i].opt.look
  BY <1>1, <1>3, GoodFields, SettingNames DEF RunGood, Untouched
<1> DEFINE r == [run[i] EXCEPT !.phase = "saving", !.out = st]
<1>6. run' = [run EXCEPT ![i] = r]
  BY <1>2
<1>7. /\ r.phase = "saving" /\ r.out = st
      /\ r.session = run[i].session /\ r.args = run[i].args /\ r.opt = run[i].opt
      /\ r.looks = run[i].looks /\ r.quiet = run[i].quiet /\ r.loaded = run[i].loaded
  BY <1>1 DEF RunGood, RunFields
<1> HIDE DEF r
<1>8. Saves(r) /\ Untouched(r)
  BY <1>1, <1>4, <1>5, <1>7 DEF Saves, Untouched
<1>9. Kept'
  <2>1. /\ file' = [file EXCEPT ![run[i].session] = NoState]
        /\ whole' = whole \ {run[i].session} /\ left' = left
    BY DEF OnClose
  <2> QED BY <2>1 DEF Faithful, Kept, IInv
<1>10. \A j \in Instances : run'[j] # Off => Saves(run'[j]) /\ Untouched(run'[j])
  BY <1>6, <1>8 DEF IInv, Faithful
<1> QED BY <1>9, <1>10 DEF Faithful

\* A file counts as whole only when all of it was written.
LEMMA WriteFaithful ==
    ASSUME Faithful, IInv, NEW i \in Instances, Write(i)
    PROVE  Faithful'
<1> DEFINE r == run[i]
<1>1. RunGood(r) /\ r.phase = "saving" /\ Saves(r)
  BY DEF Write, IInv, Faithful
<1>2. r.session \in Sessions /\ r.out # NoState
      /\ \A f \in Settings \ {"look"} : r.out[f] = r.opt[f]
  BY <1>1, GoodIsState DEF RunGood, Saves
<1>3. \/ /\ file' = [file EXCEPT ![r.session] = r.out]
         /\ left' = [left EXCEPT ![r.session] = r.opt]
         /\ whole' = whole \cup {r.session}
      \/ /\ \E st : file' = [file EXCEPT ![r.session] = st]
         /\ whole' = whole \ {r.session} /\ left' = left
  BY DEF Write
<1>4. run' = [run EXCEPT ![i] = Off]
  BY DEF Write
<1> HIDE DEF r
<1>5. Kept'
  BY <1>2, <1>3 DEF Faithful, Kept, IInv
<1>6. \A j \in Instances : run'[j] # Off => Saves(run'[j]) /\ Untouched(run'[j])
  BY <1>4 DEF IInv, Faithful
<1> QED BY <1>5, <1>6 DEF Faithful

\* Every step.
LEMMA FaithfulStep ==
    ASSUME Faithful, IInv, [Next]_vars
    PROVE  Faithful'
<1>1. CASE UNCHANGED vars
  BY <1>1 DEF Faithful, Kept, vars
<1>2. ASSUME NEW i \in Instances, Kill(i) PROVE Faithful'
  BY <1>2 DEF Kill, IInv, Faithful, Kept
<1> QED BY <1>1, <1>2, StartFaithful, GestureFaithful, CloseFaithful, WriteFaithful DEF Next

\* What is saved is what was in force, in every file and every run.
THEOREM SavesWhatHeld == Spec => []Faithful
<1>1. Init => Faithful
  BY DEF Init, Faithful, Kept
<1>2. Faithful /\ IInv /\ [Next]_vars => Faithful'
  BY FaithfulStep
<1> QED BY <1>1, <1>2, StatesGood, PTL DEF Spec

\* A run starts with what its command line says, and elsewhere with what was in
\* force when the last run with the same NAMEs was closed.
THEOREM StartsAsTold == Spec => StartsAsAsked
<1> DEFINE asked(i) ==
              LET new == run'[i]
                  was == left[new.session]
                  ask == parse_options(new.session, new.args)
              IN  run[i] = Off /\ new # Off /\ new.session \in whole =>
                     \A f \in Settings \ {"look"} :
                        CASE f \in Explicit(new.args) -> new.opt[f] = ask[f]
                          [] f = "interval_ms" -> new.opt[f] \in {was[f], ask[f]}
                          [] OTHER -> new.opt[f] = was[f]
           step == \A i \in Instances : asked(i)
<1>1. ASSUME Faithful, IInv, Next PROVE step
  <2> SUFFICES ASSUME NEW i \in Instances, run[i] = Off, run'[i] # Off PROVE asked(i)
    OBVIOUS
  <2>1. PICK session \in Sessions, args \in CommandLines : Start(i, session, args)
    <3>1. PICK j \in Instances :
             \/ \E session \in Sessions, args \in CommandLines : Start(j, session, args)
             \/ OnToggle(j) \/ OnToggleNetwork(j) \/ OnAddCapture(j) \/ OnRemoveCapture(j)
             \/ SetInterval(j) \/ OnLook(j) \/ OnContextCommand(j)
             \/ OnClose(j) \/ Write(j) \/ Kill(j)
      BY <1>1 DEF Next
    <3>2. CASE \E session \in Sessions, args \in CommandLines : Start(j, session, args)
      <4>1. j = i
        BY <1>1, <3>2 DEF Start, IInv
      <4> QED BY <3>2, <4>1
    <3>3. CASE Kill(j) \/ Write(j)
      BY <1>1, <3>3 DEF Kill, Write, IInv
    <3>4. CASE OnToggle(j) \/ OnToggleNetwork(j) \/ OnAddCapture(j) \/ OnRemoveCapture(j)
      <4>1. PICK opt, devices : Set(j, opt, devices)
        BY <3>4 DEF OnToggle, OnToggleNetwork, OnAddCapture, OnRemoveCapture
      <4>2. run[j] # Off /\ \A k \in Instances \ {j} : run'[k] = run[k]
        BY <1>1, <4>1 DEF Set, UserTurn, Up, IInv
      <4> QED BY <4>2
    <3>5. CASE SetInterval(j) \/ OnLook(j) \/ OnContextCommand(j) \/ OnClose(j)
      <4>1. run[j] # Off /\ \A k \in Instances \ {j} : run'[k] = run[k]
        BY <1>1, <3>5 DEF SetInterval, OnLook, OnContextCommand, OnClose, UserTurn, Up, IInv
      <4> QED BY <4>1
    <3> QED BY <3>1, <3>2, <3>3, <3>4, <3>5
  <2>2. /\ run'[i].session = session /\ run'[i].args = args
        /\ run'[i].opt = StartingOptions(session, args)
    BY <1>1, <2>1 DEF Start, IInv
  <2>3. SUFFICES ASSUME session \in whole PROVE asked(i)
    BY <2>2
  <2>4. /\ run'[i].opt = apply_view_state(parse_options(session, args), file[session], args)
        /\ \A f \in Settings \ {"look"} : file[session][f] = left[session][f]
    BY <1>1, <2>2, <2>3 DEF Faithful, Kept, StartingOptions
  <2>5. \A f \in Settings \ {"look"} :
           /\ f \in Explicit(args) => run'[i].opt[f] = parse_options(session, args)[f]
           /\ f \notin Explicit(args) /\ f # "interval_ms" =>
                 run'[i].opt[f] = left[session][f]
           /\ f = "interval_ms" =>
                 run'[i].opt[f] \in {left[session][f], parse_options(session, args)[f]}
    BY <2>4 DEF apply_view_state
  <2> QED BY <2>2, <2>5
<1> HIDE DEF asked
<1>2. Faithful /\ IInv /\ [Next]_vars => [step]_vars
  BY <1>1
<1>3. Spec => [][step]_vars
  BY <1>2, StatesGood, SavesWhatHeld, PTL DEF Spec
<1> QED BY <1>3 DEF StartsAsAsked, asked

\* A run that is told nothing and that the user does not touch saves what it found.
THEOREM RestartChangesNothing == Spec => RestartKeepsState
<1> DEFINE kept(i) ==
              LET r == run[i]
              IN  /\ r # Off /\ r.quiet /\ r.loaded # NoState
                  /\ Explicit(r.args) = {}
                  /\ r.session \in whole' /\ Write(i)
                  => \A f \in Settings :
                        \/ file'[r.session][f] = r.loaded[f]
                        \/ f = "interval_ms" /\ r.loaded[f] > r.args.window
           step == \A i \in Instances : kept(i)
<1>1. ASSUME Faithful, IInv PROVE step
  <2> SUFFICES ASSUME NEW i \in Instances, run[i] # Off, run[i].quiet,
                      run[i].loaded # NoState, Explicit(run[i].args) = {},
                      run[i].session \in whole', Write(i)
               PROVE  \A f \in Settings :
                         \/ file'[run[i].session][f] = run[i].loaded[f]
                         \/ f = "interval_ms" /\ run[i].loaded[f] > run[i].args.window
    OBVIOUS
  <2>1. /\ run[i].phase = "saving" /\ Saves(run[i]) /\ Untouched(run[i])
        /\ RunGood(run[i])
    BY <1>1 DEF Write, Faithful, IInv
  <2>2. file'[run[i].session] = run[i].out
    BY <1>1, <2>1 DEF Write, IInv, RunGood
  <2>3. \A f \in Settings : run[i].out[f] = run[i].opt[f]
    BY <2>1, SettingNames DEF Saves, Untouched
  <2>4. \A f \in Settings : \/ run[i].opt[f] = run[i].loaded[f]
                            \/ f = "interval_ms" /\ run[i].loaded[f] > run[i].args.window
    <3>1. run[i].opt = apply_view_state(parse_options(run[i].session, run[i].args),
                                        run[i].loaded, run[i].args)
      BY <2>1 DEF Untouched
    <3> QED BY <3>1 DEF apply_view_state
  <2> QED BY <2>2, <2>3, <2>4
<1> HIDE DEF kept
<1>2. Faithful /\ IInv /\ [Next]_vars => [step]_vars
  BY <1>1
<1>3. Spec => [][step]_vars
  BY <1>2, StatesGood, SavesWhatHeld, PTL DEF Spec
<1> QED BY <1>3 DEF RestartKeepsState, kept

=============================================================================
