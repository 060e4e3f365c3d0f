---------------------------- MODULE SessionProofs ----------------------------
(* What holds of the main frame for every relation of NAMEs and processes,   *)
(* every set of switches, devices, addresses and interfaces, every choice of *)
(* intervals and sessions of any length: the active chart has a pane, panes  *)
(* follow charts, each process that the NAMEs selected at the last scan is   *)
(* tracked once and no other is, and a scan is in time until a clear.        *)
EXTENDS Session, Recursion, SequenceTheorems

-----------------------------------------------------------------------------
(* Chart lists. *)

\* All a proof needs to know of a list: if it is not empty it has a first item.
HasFirst(list) == list # <<>> => 1 \in DOMAIN list

\* Every sequence has.
LEMMA SeqHasFirst ==
    ASSUME NEW S, NEW list \in Seq(S)
    PROVE  HasFirst(list)
BY DEF HasFirst

\* A part of the chart list is a sequence over its only possible item.
LEMMA WhenSeq ==
    ASSUME NEW cond, NEW id, NEW things, NEW procs, NEW S,
           [id |-> id, things |-> things, procs |-> procs] \in S
    PROVE  When(cond, id, things, procs) \in Seq(S)
BY DEF When

\* The identifiers of a part of the chart list.
LEMMA PartIds ==
    ASSUME NEW id, NEW things, NEW procs
    PROVE  /\ Ids(<<[id |-> id, things |-> things, procs |-> procs]>>) = {id}
           /\ Ids(<<>>) = {}
<1> DEFINE r == [id |-> id, things |-> things, procs |-> procs]
<1>1. DOMAIN <<r>> = {1} /\ <<r>>[1] = r
  OBVIOUS
<1>2. r.id = id
  OBVIOUS
<1>3. Ids(<<>>) = {}
  BY DEF Ids
<1> HIDE DEF r
<1>4. Ids(<<r>>) = {id}
  BY <1>1, <1>2 DEF Ids
<1> QED BY <1>3, <1>4 DEF r

\* The identifiers of two parts joined are those of the one and of the other.
LEMMA ConcatIds ==
    ASSUME NEW S, NEW s \in Seq(S), NEW t \in Seq(S)
    PROVE  /\ s \o t \in Seq(S)
           /\ \A x : x \in Ids(s \o t) <=> x \in Ids(s) \/ x \in Ids(t)
<1>1. /\ Len(s \o t) = Len(s) + Len(t) /\ s \o t \in Seq(S)
      /\ \A i \in 1 .. Len(s) + Len(t) :
            (s \o t)[i] = IF i <= Len(s) THEN s[i] ELSE t[i - Len(s)]
  BY ConcatProperties
<1>2. ASSUME NEW x \in Ids(s \o t) PROVE x \in Ids(s) \/ x \in Ids(t)
  <2>1. PICK i \in 1 .. Len(s) + Len(t) : x = (s \o t)[i].id
    BY <1>1, <1>2 DEF Ids
  <2>2. CASE i <= Len(s)
    BY <1>1, <2>1, <2>2 DEF Ids
  <2>3. CASE ~(i <= Len(s))
    <3>1. i - Len(s) \in DOMAIN t /\ x = t[i - Len(s)].id
      BY <1>1, <2>1, <2>3
    <3> QED BY <3>1 DEF Ids
  <2> QED BY <2>2, <2>3
<1>3. ASSUME NEW x \in Ids(s) PROVE x \in Ids(s \o t)
  <2>1. PICK i \in 1 .. Len(s) : x = s[i].id
    BY <1>3 DEF Ids
  <2>2. i \in DOMAIN (s \o t) /\ x = (s \o t)[i].id
    BY <1>1, <2>1
  <2> QED BY <2>2 DEF Ids
<1>4. ASSUME NEW x \in Ids(t) PROVE x \in Ids(s \o t)
  <2>1. PICK i \in 1 .. Len(t) : x = t[i].id
    BY <1>4 DEF Ids
  <2>2. Len(s) + i \in DOMAIN (s \o t) /\ x = (s \o t)[Len(s) + i].id
    BY <1>1, <2>1
  <2> QED BY <2>2 DEF Ids
<1> QED BY <1>1, <1>2, <1>3, <1>4

\* Which charts there are, as a predicate of their identifiers.
Charted(o, tr, id) ==
    \/ id = "sys-cpu" /\ "sys-cpu" \in o.show
    \/ id = "sys-mem" /\ "sys-mem" \in o.show
    \/ id = "device" /\ o.devices # {}
    \/ id = "network" /\ o.monitor /\ (o.all \/ o.ifaces # {})
    \/ id = "address" /\ o.addrs # {}
    \/ id \in {"proc-cpu", "proc-io"} /\ tr # <<>>
    \/ id = "threads" /\ "threads" \in o.show
    \/ id = "numfd" /\ "numfd" \in o.show /\ tr # <<>>
    \/ id = "connections" /\ "connections" \in o.show

\* The chart list is a sequence, whatever the options are, and holds exactly the
\* charts that options and processes ask for.
LEMMA ChartList ==
    ASSUME NEW o, NEW tr
    PROVE  /\ HasFirst(ChartsFor(o, tr))
           /\ \A x : x \in Ids(ChartsFor(o, tr)) <=> Charted(o, tr, x)
<1> DEFINE spec(id, things, procs) ==
               [id |-> id, things |-> things, procs |-> procs]
           S == {spec("sys-cpu", {}, <<>>), spec("sys-mem", {}, <<>>),
                 spec("device", o.devices, <<>>),
                 spec("network", resolve_ifaces(o), <<>>),
                 spec("address", o.addrs, <<>>),
                 spec("proc-cpu", {}, tr), spec("proc-io", {}, tr),
                 spec("threads", {}, tr), spec("numfd", {}, tr),
                 spec("connections", {}, tr)}
           a == When("sys-cpu" \in o.show, "sys-cpu", {}, <<>>)
           b == When("sys-mem" \in o.show, "sys-mem", {}, <<>>)
           c == When(o.devices # {}, "device", o.devices, <<>>)
           d == When(o.monitor /\ (o.all \/ o.ifaces # {}), "network",
                     resolve_ifaces(o), <<>>)
           e == When(o.addrs # {}, "address", o.addrs, <<>>)
           f == When(tr # <<>>, "proc-cpu", {}, tr)
           g == When(tr # <<>>, "proc-io", {}, tr)
           h == When("threads" \in o.show, "threads", {}, tr)
           i == When("numfd" \in o.show /\ tr # <<>>, "numfd", {}, tr)
           j == When("connections" \in o.show, "connections", {}, tr)
<1>1a. a \in Seq(S)
  BY WhenSeq, Zenon
<1>1b. b \in Seq(S)
  BY WhenSeq, Zenon
<1>1c. c \in Seq(S)
  BY WhenSeq, Zenon
<1>1d. d \in Seq(S)
  BY WhenSeq, Zenon
<1>1e. e \in Seq(S)
  BY WhenSeq, Zenon
<1>1f. f \in Seq(S)
  BY WhenSeq, Zenon
<1>1g. g \in Seq(S)
  BY WhenSeq, Zenon
<1>1h. h \in Seq(S)
  BY WhenSeq, Zenon
<1>1i. i \in Seq(S)
  BY WhenSeq, Zenon
<1>1j. j \in Seq(S)
  BY WhenSeq, Zenon
<1>2. ChartsFor(o, tr) = a \o b \o c \o d \o e \o f \o g \o h \o i \o j
  BY DEF ChartsFor
<1>3a. \A x : x \in Ids(a) <=> ("sys-cpu" \in o.show) /\ x = "sys-cpu"
  BY PartIds DEF When
<1>3b. \A x : x \in Ids(b) <=> ("sys-mem" \in o.show) /\ x = "sys-mem"
  BY PartIds DEF When
<1>3c. \A x : x \in Ids(c) <=> (o.devices # {}) /\ x = "device"
  BY PartIds DEF When
<1>3d. \A x : x \in Ids(d) <=> (o.monitor /\ (o.all \/ o.ifaces # {})) /\ x = "network"
  BY PartIds DEF When
<1>3e. \A x : x \in Ids(e) <=> (o.addrs # {}) /\ x = "address"
  BY PartIds DEF When
<1>3f. \A x : x \in Ids(f) <=> (tr # <<>>) /\ x = "proc-cpu"
  BY PartIds DEF When
<1>3g. \A x : x \in Ids(g) <=> (tr # <<>>) /\ x = "proc-io"
  BY PartIds DEF When
<1>3h. \A x : x \in Ids(h) <=> ("threads" \in o.show) /\ x = "threads"
  BY PartIds DEF When
<1>3i. \A x : x \in Ids(i) <=> ("numfd" \in o.show /\ tr # <<>>) /\ x = "numfd"
  BY PartIds DEF When
<1>3j. \A x : x \in Ids(j) <=> ("connections" \in o.show) /\ x = "connections"
  BY PartIds DEF When
<1> HIDE DEF S, a, b, c, d, e, f, g, h, i, j
<1> DEFINE ab == a \o b
           ac == ab \o c
           ad == ac \o d
           ae == ad \o e
           af == ae \o f
           ag == af \o g
           ah == ag \o h
           ai == ah \o i
           aj == ai \o j
<1>4. ChartsFor(o, tr) = aj
  BY <1>2
<1>5b. ab \in Seq(S) /\ \A x : x \in Ids(ab) <=> x \in Ids(a) \/ x \in Ids(b)
  <2> QED BY <1>1a, <1>1b, ConcatIds, Zenon
<1>5c. ac \in Seq(S) /\ \A x : x \in Ids(ac) <=> x \in Ids(ab) \/ x \in Ids(c)
  <2> HIDE DEF ab
  <2> QED BY <1>1c, <1>5b, ConcatIds, Zenon DEF ac
<1>5d. ad \in Seq(S) /\ \A x : x \in Ids(ad) <=> x \in Ids(ac) \/ x \in Ids(d)
  <2> HIDE DEF ac
  <2> QED BY <1>1d, <1>5c, ConcatIds, Zenon DEF ad
<1>5e. ae \in Seq(S) /\ \A x : x \in Ids(ae) <=> x \in Ids(ad) \/ x \in Ids(e)
  <2> HIDE DEF ad
  <2> QED BY <1>1e, <1>5d, ConcatIds, Zenon DEF ae
<1>5f. af \in Seq(S) /\ \A x : x \in Ids(af) <=> x \in Ids(ae) \/ x \in Ids(f)
  <2> HIDE DEF ae
  <2> QED BY <1>1f, <1>5e, ConcatIds, Zenon DEF af
<1>5g. ag \in Seq(S) /\ \A x : x \in Ids(ag) <=> x \in Ids(af) \/ x \in Ids(g)
  <2> HIDE DEF af
  <2> QED BY <1>1g, <1>5f, ConcatIds, Zenon DEF ag
<1>5h. ah \in Seq(S) /\ \A x : x \in Ids(ah) <=> x \in Ids(ag) \/ x \in Ids(h)
  <2> HIDE DEF ag
  <2> QED BY <1>1h, <1>5g, ConcatIds, Zenon DEF ah
<1>5i. ai \in Seq(S) /\ \A x : x \in Ids(ai) <=> x \in Ids(ah) \/ x \in Ids(i)
  <2> HIDE DEF ah
  <2> QED BY <1>1i, <1>5h, ConcatIds, Zenon DEF ai
<1>5j. aj \in Seq(S) /\ \A x : x \in Ids(aj) <=> x \in Ids(ai) \/ x \in Ids(j)
  <2> HIDE DEF ai
  <2> QED BY <1>1j, <1>5i, ConcatIds, Zenon DEF aj
<1> HIDE DEF ab, ac, ad, ae, af, ag, ah, ai, aj
<1>6. aj \in Seq(S)
  BY <1>5j
<1>7. \A x : x \in Ids(aj) <=> \/ x \in Ids(a) \/ x \in Ids(b) \/ x \in Ids(c)
                             \/ x \in Ids(d) \/ x \in Ids(e) \/ x \in Ids(f)
                             \/ x \in Ids(g) \/ x \in Ids(h) \/ x \in Ids(i)
                             \/ x \in Ids(j)
  BY <1>5b, <1>5c, <1>5d, <1>5e, <1>5f, <1>5g, <1>5h, <1>5i, <1>5j
<1>8. ASSUME NEW x PROVE x \in Ids(aj) <=> Charted(o, tr, x)
  BY <1>7, <1>3a, <1>3b, <1>3c, <1>3d, <1>3e,
     <1>3f, <1>3g, <1>3h, <1>3i, <1>3j DEF Charted
<1> QED BY <1>4, <1>6, <1>8, SeqHasFirst

-----------------------------------------------------------------------------
(* The active chart. *)

\* New panes have an active one.
LEMMA RebuildPanesActive ==
    ASSUME NEW o, NEW tr, charts' = ChartsFor(o, tr), RebuildPanes
    PROVE  ActiveHasPane'
<1>1. panels' = charts' /\ HasFirst(panels')
  BY ChartList DEF RebuildPanes
<1>2. CASE panels' = <<>>
  BY <1>1, <1>2 DEF RebuildPanes, ActiveHasPane
<1>3. CASE panels' # <<>>
  <2>1. 1 \in DOMAIN panels' /\ active' = panels'[1].id
    BY <1>1, <1>3 DEF HasFirst, RebuildPanes
  <2> QED BY <1>3, <2>1 DEF ActiveHasPane, Ids
<1> QED BY <1>2, <1>3

\* Panes that stay as they are keep theirs.
LEMMA KeepPanesActive ==
    ASSUME ActiveHasPane, UNCHANGED <<panels, active>>
    PROVE  ActiveHasPane'
BY DEF ActiveHasPane

\* So does choosing one of them.
LEMMA ChoosePane ==
    ASSUME UNCHANGED panels, active' \in Ids(panels)
    PROVE  ActiveHasPane'
<1>1. panels # <<>>
  BY DEF Ids
<1> QED BY <1>1 DEF ActiveHasPane

\* A tick either leaves processes and charts or rebuilds the charts.
LEMMA TickCharts ==
    ASSUME NEW t, tick(t)
    PROVE  /\ \/ UNCHANGED <<opt, tracked, charts>>
              \/ charts' = ChartsFor(opt, tracked') /\ tracked' # tracked
           /\ opt' = opt
BY DEF tick, Rebuild, same

\* Removing the active chart keeps the panes or rebuilds them.
LEMMA RemoveKeepsActive ==
    ASSUME ActiveHasPane, RemoveActive
    PROVE  ActiveHasPane'
<1>1. CASE active = NoChart \/ active \in Toggles \ opt.show
  BY <1>1, KeepPanesActive DEF RemoveActive
<1>2. CASE ~(active = NoChart \/ active \in Toggles \ opt.show)
  BY <1>2, RebuildPanesActive DEF RemoveActive, Rebuild
<1> QED BY <1>1, <1>2

\* Every step keeps an active pane, and rebuilds the panes with the charts
\* where the code does.
LEMMA StepKeepsActive ==
    ASSUME ActiveHasPane, [Next]_vars
    PROVE  ActiveHasPane'
<1>1. CASE FirstTick \/ Pass
  BY <1>1, KeepPanesActive DEF FirstTick, Pass, frame
<1>2. CASE OnTimer
  <2>1. CASE tracked' # tracked
    <3>1. RebuildPanes
      BY <1>2, <2>1 DEF OnTimer
    <3>2. charts' = ChartsFor(opt, tracked')
      BY <1>2, <2>1, TickCharts DEF OnTimer
    <3> QED BY <3>1, <3>2, RebuildPanesActive
  <2>2. CASE tracked' = tracked
    BY <1>2, <2>2, KeepPanesActive DEF OnTimer, KeepPanes
  <2> QED BY <2>1, <2>2
<1>3. CASE DeliverRemove
  BY <1>3, RemoveKeepsActive DEF DeliverRemove
<1>4. CASE OnClearHistory
  BY <1>4, KeepPanesActive DEF OnClearHistory, frame
<1>5. CASE SetInterval
  BY <1>5, KeepPanesActive DEF SetInterval, frame
<1>6. CASE OnToggle
  BY <1>6, RebuildPanesActive DEF OnToggle, Rebuild
<1>7. CASE OnToggleNetwork
  BY <1>7, RebuildPanesActive DEF OnToggleNetwork, Rebuild
<1>8. CASE AddDevice
  BY <1>8, RebuildPanesActive DEF AddDevice, Rebuild
<1>9. CASE AddAddr
  BY <1>9, RebuildPanesActive DEF AddAddr, Rebuild
<1>10. CASE AddIface
  BY <1>10, RebuildPanesActive, KeepPanesActive DEF AddIface, Rebuild, KeepPanes
<1>11. CASE AddNames
  BY <1>11, RebuildPanesActive, KeepPanesActive DEF AddNames, Rebuild, KeepPanes
<1>12. CASE OnRemoveCapture
  BY <1>12, RemoveKeepsActive DEF OnRemoveCapture
<1>13. CASE OnLeftDown
  BY <1>13, ChoosePane DEF OnLeftDown
<1>14. CASE ContextRemove
  BY <1>14, ChoosePane DEF ContextRemove
<1>15. CASE \E p \in Pids : Start(p) \/ Exit(p)
  BY <1>15, KeepPanesActive DEF Start, Exit, frame
<1>16. CASE UNCHANGED vars
  BY <1>16, KeepPanesActive DEF vars, frame
<1> QED
  BY <1>1, <1>2, <1>3, <1>4, <1>5, <1>6, <1>7, <1>8, <1>9, <1>10, <1>11,
     <1>12, <1>13, <1>14, <1>15, <1>16 DEF Next, Gesture

\* The first panes have an active one.
LEMMA InitActive == Init => ActiveHasPane
<1> SUFFICES ASSUME Init PROVE ActiveHasPane
  OBVIOUS
<1>1. panels = charts /\ HasFirst(panels)
  BY ChartList DEF Init
<1>2. CASE panels = <<>>
  BY <1>1, <1>2 DEF Init, ActiveHasPane
<1>3. CASE panels # <<>>
  <2>1. 1 \in DOMAIN panels /\ active = panels[1].id
    BY <1>1, <1>3 DEF HasFirst, Init
  <2> QED BY <1>3, <2>1 DEF ActiveHasPane, Ids
<1> QED BY <1>2, <1>3

\* Remove and the keyboard always act on a chart that has a pane.
THEOREM ActiveChart == Spec => []ActiveHasPane
BY InitActive, StepKeepsActive, PTL DEF Spec

-----------------------------------------------------------------------------
(* The options. *)

\* Listed interfaces are monitored, and are then not all there are.
IfacesListed(o) == o.ifaces # {} => o.monitor /\ ~o.all

GoodOptions(o) == o \in Options /\ IfacesListed(o)

\* A record of options with one field changed.
LEMMA OneFieldChanged ==
    ASSUME NEW o \in Options
    PROVE  /\ \A v \in SUBSET Toggles : [o EXCEPT !.show = v] \in Options
           /\ \A v \in SUBSET Devices : [o EXCEPT !.devices = v] \in Options
           /\ \A v \in SUBSET Addrs : [o EXCEPT !.addrs = v] \in Options
           /\ \A v \in BOOLEAN : [o EXCEPT !.monitor = v] \in Options
           /\ \A v \in BOOLEAN : [o EXCEPT !.all = v] \in Options
           /\ \A v \in SUBSET Ifaces : [o EXCEPT !.ifaces = v] \in Options
           /\ \A v \in Seq(Names) : [o EXCEPT !.names = v] \in Options
           /\ \A v \in Intervals : [o EXCEPT !.interval = v] \in Options
BY DEF Options

\* Changes of one field that is not about interfaces keep the options good.
LEMMA OtherFieldGood ==
    ASSUME NEW o, GoodOptions(o)
    PROVE  /\ \A v \in SUBSET Toggles : GoodOptions([o EXCEPT !.show = v])
           /\ \A v \in SUBSET Devices : GoodOptions([o EXCEPT !.devices = v])
           /\ \A v \in SUBSET Addrs : GoodOptions([o EXCEPT !.addrs = v])
           /\ \A v \in Seq(Names) : GoodOptions([o EXCEPT !.names = v])
           /\ \A v \in Intervals : GoodOptions([o EXCEPT !.interval = v])
<1>1. o \in Options
  BY DEF GoodOptions
<1>2. /\ \A v : [o EXCEPT !.show = v].ifaces = o.ifaces
      /\ \A v : [o EXCEPT !.show = v].monitor = o.monitor
      /\ \A v : [o EXCEPT !.show = v].all = o.all
  BY <1>1 DEF Options
<1>3. /\ \A v : [o EXCEPT !.devices = v].ifaces = o.ifaces
      /\ \A v : [o EXCEPT !.devices = v].monitor = o.monitor
      /\ \A v : [o EXCEPT !.devices = v].all = o.all
  BY <1>1 DEF Options
<1>4. /\ \A v : [o EXCEPT !.addrs = v].ifaces = o.ifaces
      /\ \A v : [o EXCEPT !.addrs = v].monitor = o.monitor
      /\ \A v : [o EXCEPT !.addrs = v].all = o.all
  BY <1>1 DEF Options
<1>5. /\ \A v : [o EXCEPT !.names = v].ifaces = o.ifaces
      /\ \A v : [o EXCEPT !.names = v].monitor = o.monitor
      /\ \A v : [o EXCEPT !.names = v].all = o.all
  BY <1>1 DEF Options
<1>6. /\ \A v : [o EXCEPT !.interval = v].ifaces = o.ifaces
      /\ \A v : [o EXCEPT !.interval = v].monitor = o.monitor
      /\ \A v : [o EXCEPT !.interval = v].all = o.all
  BY <1>1 DEF Options
<1> QED
  BY <1>1, <1>2, <1>3, <1>4, <1>5, <1>6, OneFieldChanged, Zenon
     DEF GoodOptions, IfacesListed

\* A change of the three fields about interfaces is good if it is consistent.
LEMMA NetworkGood ==
    ASSUME NEW o \in Options, NEW m \in BOOLEAN, NEW a \in BOOLEAN,
           NEW s \in SUBSET Ifaces, s # {} => m /\ ~a
    PROVE  LET n == [o EXCEPT !.monitor = m, !.all = a, !.ifaces = s]
           IN  GoodOptions(n) /\ n.names = o.names
<1> DEFINE o1 == [o EXCEPT !.monitor = m]
           o2 == [o1 EXCEPT !.all = a]
           o3 == [o2 EXCEPT !.ifaces = s]
<1>1. o1 \in Options /\ o1.monitor = m /\ o1.names = o.names
  <2>1. o1 \in Options
    BY OneFieldChanged
  <2> QED BY <2>1 DEF Options
<1> HIDE DEF o1
<1>2. o2 \in Options /\ o2.monitor = m /\ o2.all = a /\ o2.names = o.names
  <2>1. o2 \in Options
    BY <1>1, OneFieldChanged
  <2> QED BY <1>1, <2>1 DEF Options
<1> HIDE DEF o2
<1>3. /\ o3 \in Options /\ o3.monitor = m /\ o3.all = a /\ o3.ifaces = s
      /\ o3.names = o.names
  <2>1. o3 \in Options
    BY <1>2, OneFieldChanged
  <2> QED BY <1>2, <2>1 DEF Options
<1>4. [o EXCEPT !.monitor = m, !.all = a, !.ifaces = s] = o3
  BY DEF o1, o2
<1> HIDE DEF o3
<1> QED BY <1>3, <1>4 DEF GoodOptions, IfacesListed

\* What a step may make of the options.  Only adding NAMEs adds any.
FewerNames == opt'.names \in {opt.names, <<>>}

\* Changing a setting that is not about NAMEs or interfaces.
LEMMA SettingGood ==
    ASSUME GoodOptions(opt)
    PROVE  /\ \A v \in SUBSET Toggles :
                 opt' = [opt EXCEPT !.show = v] => GoodOptions(opt') /\ FewerNames
           /\ \A v \in SUBSET Devices :
                 opt' = [opt EXCEPT !.devices = v] => GoodOptions(opt') /\ FewerNames
           /\ \A v \in SUBSET Addrs :
                 opt' = [opt EXCEPT !.addrs = v] => GoodOptions(opt') /\ FewerNames
           /\ \A v \in Intervals :
                 opt' = [opt EXCEPT !.interval = v] => GoodOptions(opt') /\ FewerNames
<1>1. opt \in Options
  BY DEF GoodOptions
<1>2. /\ \A v : [opt EXCEPT !.show = v].names = opt.names
      /\ \A v : [opt EXCEPT !.devices = v].names = opt.names
      /\ \A v : [opt EXCEPT !.addrs = v].names = opt.names
      /\ \A v : [opt EXCEPT !.interval = v].names = opt.names
  BY <1>1 DEF Options
<1>3. ASSUME NEW n, GoodOptions(n), n.names = opt.names, opt' = n
      PROVE  GoodOptions(opt') /\ FewerNames
  BY <1>3 DEF FewerNames
<1>4. /\ \A v \in SUBSET Toggles : GoodOptions([opt EXCEPT !.show = v])
      /\ \A v \in SUBSET Devices : GoodOptions([opt EXCEPT !.devices = v])
      /\ \A v \in SUBSET Addrs : GoodOptions([opt EXCEPT !.addrs = v])
      /\ \A v \in Intervals : GoodOptions([opt EXCEPT !.interval = v])
  BY OtherFieldGood
<1>5. \A v \in SUBSET Toggles :
         opt' = [opt EXCEPT !.show = v] => GoodOptions(opt') /\ FewerNames
  BY <1>2, <1>3, <1>4
<1>6. \A v \in SUBSET Devices :
         opt' = [opt EXCEPT !.devices = v] => GoodOptions(opt') /\ FewerNames
  BY <1>2, <1>3, <1>4
<1>7. \A v \in SUBSET Addrs :
         opt' = [opt EXCEPT !.addrs = v] => GoodOptions(opt') /\ FewerNames
  BY <1>2, <1>3, <1>4
<1>8. \A v \in Intervals :
         opt' = [opt EXCEPT !.interval = v] => GoodOptions(opt') /\ FewerNames
  BY <1>2, <1>3, <1>4
<1> QED BY <1>5, <1>6, <1>7, <1>8

\* Removing a chart.
LEMMA RemoveGood ==
    ASSUME GoodOptions(opt), RemoveActive
    PROVE  GoodOptions(opt') /\ FewerNames
<1>0. opt \in Options
  BY DEF GoodOptions
<1>1. CASE active = NoChart \/ active \in Toggles \ opt.show
  BY <1>1 DEF RemoveActive, FewerNames
<1>2. CASE ~(active = NoChart \/ active \in Toggles \ opt.show)
  <2>1. opt' = Without(active)
    BY <1>2 DEF RemoveActive, Rebuild
  <2>2. CASE active = "network"
    <3>1. opt' = [opt EXCEPT !.monitor = FALSE, !.all = FALSE, !.ifaces = {}]
      BY <2>1, <2>2 DEF Without
    <3> QED BY <1>0, <3>1, NetworkGood DEF FewerNames
  <2>3. CASE active = "device"
    <3>1. opt' = [opt EXCEPT !.devices = {}]
      BY <2>1, <2>3 DEF Without
    <3> QED BY <3>1, SettingGood
  <2>4. CASE active = "address"
    <3>1. opt' = [opt EXCEPT !.addrs = {}]
      BY <2>1, <2>4 DEF Without
    <3> QED BY <3>1, SettingGood
  <2>5. CASE active \in {"proc-cpu", "proc-io"}
    <3>1. opt' = [opt EXCEPT !.names = <<>>]
      BY <2>1, <2>5 DEF Without
    <3>2. <<>> \in Seq(Names)
      OBVIOUS
    <3>3. [opt EXCEPT !.names = <<>>].names = <<>>
      BY <1>0 DEF Options
    <3> QED BY <3>1, <3>2, <3>3, OtherFieldGood DEF FewerNames
  <2>6. CASE active \notin {"network", "device", "address", "proc-cpu", "proc-io"}
    <3>1. opt' = [opt EXCEPT !.show = opt.show \ {active}]
      BY <2>1, <2>6 DEF Without
    <3>2. opt.show \ {active} \in SUBSET Toggles
      BY <1>0 DEF Options
    <3> QED BY <3>1, <3>2, SettingGood
  <2> QED BY <2>2, <2>3, <2>4, <2>5, <2>6
<1> QED BY <1>1, <1>2

\* Every step keeps the options good, and all but one add no NAMEs.
LEMMA StepOptions ==
    ASSUME GoodOptions(opt), [Next]_vars
    PROVE  GoodOptions(opt') /\ (FewerNames \/ AddNames)
<1>0. opt \in Options
  BY DEF GoodOptions
<1>1. CASE opt' = opt
  BY <1>1 DEF FewerNames
<1>2. CASE FirstTick \/ Pass \/ OnTimer \/ OnClearHistory
  <2>1. opt' = opt
    BY <1>2, TickCharts DEF FirstTick, Pass, OnTimer, OnClearHistory
  <2> QED BY <1>1, <2>1
<1>3. CASE SetInterval
  BY <1>3, SettingGood, Zenon DEF SetInterval
<1>4. CASE OnToggle
  <2>1. PICK id \in Toggles :
           opt' = [opt EXCEPT !.show = IF id \notin opt.show THEN opt.show \cup {id}
                                       ELSE opt.show \ {id}]
    BY <1>4, Zenon DEF OnToggle, Rebuild
  <2>2. (IF id \notin opt.show THEN opt.show \cup {id} ELSE opt.show \ {id})
            \in SUBSET Toggles
    BY <1>0 DEF Options
  <2> QED BY <2>1, <2>2, SettingGood
<1>5. CASE OnToggleNetwork
  <2> DEFINE on == ~opt.monitor
  <2>1. opt' = [opt EXCEPT !.monitor = on, !.all = on, !.ifaces = {}]
    BY <1>5 DEF OnToggleNetwork, Rebuild
  <2>2. on \in BOOLEAN
    OBVIOUS
  <2> HIDE DEF on
  <2>3. {} \in SUBSET Ifaces /\ ({} # {} => on /\ ~on)
    OBVIOUS
  <2>4. GoodOptions(opt') /\ opt'.names = opt.names
    BY <1>0, <2>1, <2>2, <2>3, NetworkGood, ZenonT(30)
  <2> QED BY <2>4 DEF FewerNames
<1>6. CASE AddDevice
  <2>1. PICK d \in Devices : opt' = [opt EXCEPT !.devices = opt.devices \cup {d}]
    BY <1>6, Zenon DEF AddDevice, Rebuild
  <2>2. opt.devices \cup {d} \in SUBSET Devices
    BY <1>0 DEF Options
  <2> QED BY <2>1, <2>2, SettingGood
<1>7. CASE AddAddr
  <2>1. PICK a \in Addrs : opt' = [opt EXCEPT !.addrs = opt.addrs \cup {a}]
    BY <1>7, Zenon DEF AddAddr, Rebuild
  <2>2. opt.addrs \cup {a} \in SUBSET Addrs
    BY <1>0 DEF Options
  <2> QED BY <2>1, <2>2, SettingGood
<1>8. CASE AddIface
  <2>1. CASE opt' = [opt EXCEPT !.monitor = TRUE, !.all = TRUE, !.ifaces = {}]
    BY <1>0, <2>1, NetworkGood DEF FewerNames
  <2>2. CASE \E i \in Ifaces :
                opt' = [opt EXCEPT !.monitor = TRUE, !.all = FALSE,
                                   !.ifaces = opt.ifaces \cup {i}]
    <3>1. PICK i \in Ifaces :
             opt' = [opt EXCEPT !.monitor = TRUE, !.all = FALSE,
                                !.ifaces = opt.ifaces \cup {i}]
      BY <2>2
    <3>2. opt.ifaces \cup {i} \in SUBSET Ifaces
      BY <1>0 DEF Options
    <3> QED BY <1>0, <3>1, <3>2, NetworkGood DEF FewerNames
  <2> QED BY <1>8, <2>1, <2>2 DEF AddIface, Rebuild
<1>9. CASE AddNames
  <2>1. PICK a \in Names, b \in Names :
           opt' = [opt EXCEPT !.names = opt.names \o
                      ((IF a \in ToSet(opt.names) THEN <<>> ELSE <<a>>)
                       \o (IF b \in ToSet(opt.names) \cup {a} THEN <<>> ELSE <<b>>))]
    BY <1>9, Zenon DEF AddNames, Rebuild
  <2> DEFINE s == IF a \in ToSet(opt.names) THEN <<>> ELSE <<a>>
             t == IF b \in ToSet(opt.names) \cup {a} THEN <<>> ELSE <<b>>
  <2>2. s \in Seq(Names) /\ t \in Seq(Names)
    OBVIOUS
  <2>3. opt.names \in Seq(Names)
    BY <1>0 DEF Options
  <2>4. opt' = [opt EXCEPT !.names = opt.names \o (s \o t)]
    BY <2>1
  <2> HIDE DEF s, t
  <2>5. opt.names \o (s \o t) \in Seq(Names)
    BY <2>2, <2>3, ConcatProperties
  <2> QED BY <1>9, <2>4, <2>5, OtherFieldGood
<1>10. CASE DeliverRemove \/ OnRemoveCapture
  BY <1>10, RemoveGood DEF DeliverRemove, OnRemoveCapture
<1>11. CASE OnLeftDown \/ ContextRemove \/ \E p \in Pids : Start(p) \/ Exit(p)
  BY <1>1, <1>11 DEF OnLeftDown, ContextRemove, Start, Exit
<1>12. CASE UNCHANGED vars
  BY <1>1, <1>12 DEF vars
<1> QED
  BY <1>2, <1>3, <1>4, <1>5, <1>6, <1>7, <1>8, <1>9, <1>10, <1>11, <1>12
     DEF Next, Gesture

-----------------------------------------------------------------------------
(* Panes and charts. *)

\* Adding an interface that is listed changes no option.
LEMMA KnownIface ==
    ASSUME NEW o, GoodOptions(o), NEW i \in o.ifaces
    PROVE  [o EXCEPT !.monitor = TRUE, !.all = FALSE,
                     !.ifaces = o.ifaces \cup {i}] = o
<1>1. o.monitor = TRUE /\ o.all = FALSE /\ o.ifaces \cup {i} = o.ifaces
  BY DEF GoodOptions, IfacesListed, Options
<1> QED BY <1>1 DEF GoodOptions, Options

\* Nor does adding no NAMEs.
LEMMA NoNewNames ==
    ASSUME NEW o, GoodOptions(o)
    PROVE  [o EXCEPT !.names = o.names \o <<>>] = o
<1>1. o.names \o <<>> = o.names
  BY ConcatEmptySeq DEF GoodOptions, Options
<1> QED BY <1>1 DEF GoodOptions, Options

\* What PanesFollowCharts allows of a step.
FollowStep ==
    charts' # charts =>
        \/ panels' = charts'
        \/ opt' = opt /\ (~running \/ wait' = wait)

\* A step that changes charts shows them, or is one of the exceptions.
LEMMA StepFollows ==
    ASSUME GoodOptions(opt), [Next]_vars
    PROVE  FollowStep
<1>1. CASE charts' = charts
  BY <1>1 DEF FollowStep
<1>2. CASE panels' = charts'
  BY <1>2 DEF FollowStep
<1>3. CASE FirstTick \/ OnClearHistory
  <2>1. opt' = opt /\ (~running \/ wait' = wait)
    BY <1>3, TickCharts DEF FirstTick, OnClearHistory
  <2> QED BY <2>1 DEF FollowStep
<1>4. CASE OnTimer
  BY <1>1, <1>2, <1>4, TickCharts DEF OnTimer, RebuildPanes
<1>5. CASE OnToggle \/ OnToggleNetwork \/ AddDevice \/ AddAddr
  BY <1>2, <1>5 DEF OnToggle, OnToggleNetwork, AddDevice, AddAddr, RebuildPanes
<1>6. CASE AddIface
  <2>1. CASE RebuildPanes
    BY <1>2, <2>1 DEF RebuildPanes
  <2>2. CASE ~RebuildPanes
    <3>1. PICK i \in opt.ifaces :
             opt' = [opt EXCEPT !.monitor = TRUE, !.all = FALSE,
                                !.ifaces = opt.ifaces \cup {i}]
      BY <1>6, <2>2, Zenon DEF AddIface, Rebuild
    <3>2. opt' = opt
      BY <3>1, KnownIface
    <3> QED BY <1>6, <3>2 DEF AddIface, clock, FollowStep
  <2> QED BY <2>1, <2>2
<1>7. CASE AddNames
  <2>1. CASE RebuildPanes
    BY <1>2, <2>1 DEF RebuildPanes
  <2>2. CASE ~RebuildPanes
    <3>1. opt' = [opt EXCEPT !.names = opt.names \o <<>>]
      BY <1>7, <2>2, Zenon DEF AddNames, Rebuild
    <3>2. opt' = opt
      BY <3>1, NoNewNames
    <3> QED BY <1>7, <3>2 DEF AddNames, clock, FollowStep
  <2> QED BY <2>1, <2>2
<1>8. CASE DeliverRemove \/ OnRemoveCapture
  BY <1>1, <1>2, <1>8 DEF DeliverRemove, OnRemoveCapture, RemoveActive, RebuildPanes
<1>9. CASE Pass \/ SetInterval \/ OnLeftDown \/ ContextRemove
           \/ \E p \in Pids : Start(p) \/ Exit(p)
  BY <1>1, <1>9 DEF Pass, SetInterval, OnLeftDown, ContextRemove, Start, Exit
<1>10. CASE UNCHANGED vars
  BY <1>1, <1>10 DEF vars
<1> QED
  BY <1>3, <1>4, <1>5, <1>6, <1>7, <1>8, <1>9, <1>10 DEF Next, Gesture

\* The options of a session are always such records, with interfaces listed only
\* where those are what is monitored.
THEOREM OptionsStayGood == Spec => []GoodOptions(opt)
<1>1. Init => GoodOptions(opt)
  BY OptionAssumption DEF Init, GoodOptions, IfacesListed
<1>2. GoodOptions(opt) /\ [Next]_vars => GoodOptions(opt)'
  BY StepOptions
<1> QED BY <1>1, <1>2, PTL DEF Spec

\* Panes follow charts in every step but the two calls of tick(0) and the
\* addition of what is known.
THEOREM PanesFollow == Spec => PanesFollowCharts
<1>1. GoodOptions(opt) /\ [Next]_vars => [FollowStep]_vars
  BY StepFollows
<1> QED BY <1>1, OptionsStayGood, PTL DEF Spec, PanesFollowCharts, FollowStep

-----------------------------------------------------------------------------
(* The scan of the NAMEs. *)

\* The setting of the timer changes with the interval alone.
LEMMA StepInterval ==
    ASSUME GoodOptions(opt), [Next]_vars
    PROVE  opt'.interval = opt.interval \/ SetInterval
<1>1. /\ \A v : [opt EXCEPT !.show = v].interval = opt.interval
      /\ \A v : [opt EXCEPT !.devices = v].interval = opt.interval
      /\ \A v : [opt EXCEPT !.addrs = v].interval = opt.interval
      /\ \A v : [opt EXCEPT !.names = v].interval = opt.interval
      /\ \A u, v, w : [opt EXCEPT !.monitor = u, !.all = v, !.ifaces = w].interval
                         = opt.interval
  BY DEF GoodOptions, Options
<1>2. CASE OnToggle
  BY <1>1, <1>2, Zenon DEF OnToggle, Rebuild
<1>3. CASE OnToggleNetwork
  BY <1>1, <1>3 DEF OnToggleNetwork, Rebuild
<1>4. CASE AddDevice \/ AddAddr
  <2>1. CASE AddDevice
    BY <1>1, <2>1, Zenon DEF AddDevice, Rebuild
  <2>2. CASE AddAddr
    BY <1>1, <2>2, Zenon DEF AddAddr, Rebuild
  <2> QED BY <1>4, <2>1, <2>2
<1>5. CASE AddIface
  <2>1. PICK v, w : opt' = [opt EXCEPT !.monitor = TRUE, !.all = v, !.ifaces = w]
    BY <1>5 DEF AddIface, Rebuild
  <2> QED BY <1>1, <2>1
<1>6. CASE AddNames
  <2>1. PICK names : opt' = [opt EXCEPT !.names = names]
    BY <1>6 DEF AddNames, Rebuild
  <2> QED BY <1>1, <2>1
<1>7. CASE DeliverRemove \/ OnRemoveCapture
  <2>1. CASE opt' = opt
    BY <2>1
  <2>2. CASE opt' = Without(active)
    BY <1>1, <2>2 DEF Without
  <2> QED BY <1>7, <2>1, <2>2
            DEF DeliverRemove, OnRemoveCapture, RemoveActive, Rebuild
<1>8. CASE FirstTick \/ Pass \/ OnTimer \/ OnClearHistory
  BY <1>8, TickCharts DEF FirstTick, Pass, OnTimer, OnClearHistory
<1>9. CASE OnLeftDown \/ ContextRemove \/ \E p \in Pids : Start(p) \/ Exit(p)
  BY <1>9 DEF OnLeftDown, ContextRemove, Start, Exit
<1>10. CASE UNCHANGED vars
  BY <1>10 DEF vars
<1> QED
  BY <1>2, <1>3, <1>4, <1>5, <1>6, <1>7, <1>8, <1>9, <1>10 DEF Next, Gesture

\* The invariant behind RescanInTime.  The code looks at the difference of now and
\* the stamp: until it is as long as the period, the time since the last scan is not
\* ahead of it.  What has passed beyond the period has passed since the timer fired.
InTime ==
    /\ unscanned < RescanPeriod + wait
    /\ last >= 0 => unscanned <= now - last \/ now - last >= RescanPeriod

ScanInv ==
    /\ now \in 0..MaxSession /\ wait \in Nat /\ last \in Int /\ unscanned \in Nat
    /\ wait <= opt.interval
    /\ ~running => last < 0
    /\ ~cleared => last <= now
    /\ running /\ ~cleared /\ opt.names # <<>> => InTime

\* The first tick scans, if there are NAMEs.
LEMMA FirstTickInTime ==
    ASSUME ScanInv, GoodOptions(opt), FirstTick
    PROVE  ScanInv'
<1>1. /\ now' = 0 /\ wait' = 0 /\ running' /\ last < 0 /\ last \in Int
      /\ unscanned \in Nat /\ tick(0)
  BY DEF FirstTick, tick, ScanInv
<1>2. opt' = opt /\ opt.interval \in Nat /\ MaxSession \in Nat
  BY <1>1, TickCharts, TimeAssumption DEF GoodOptions, Options
<1>3. CASE opt.names # <<>>
  <2>1. last' = 0 /\ unscanned' = 0
    BY <1>1, <1>3 DEF tick, RescanDue
  <2> QED BY <1>1, <1>2, <2>1, TimeAssumption DEF ScanInv, InTime
<1>4. CASE opt.names = <<>>
  <2>1. last' = last /\ unscanned' = unscanned
    BY <1>1, <1>4 DEF tick, RescanDue
  <2> QED BY <1>1, <1>2, <1>4, <2>1 DEF ScanInv
<1> QED BY <1>3, <1>4

\* Time passes for the timer as for the session.  Where the session is shifted, so is
\* the stamp, or it is so old that a scan is due.
LEMMA PassInTime ==
    ASSUME ScanInv, GoodOptions(opt), Pass
    PROVE  ScanInv'
<1>1. /\ now \in 0..MaxSession /\ wait \in Nat /\ last \in Int /\ unscanned \in Nat
      /\ RescanPeriod \in Nat /\ MaxSession \in Nat /\ MaxSession >= RescanPeriod
      /\ opt.interval \in Nat
  BY TimeAssumption DEF ScanInv, GoodOptions, Options
<1>2. /\ running /\ wait < opt.interval /\ wait' = wait + 1
      /\ now' = Least(now + 1, MaxSession)
      /\ last' = IF now = MaxSession /\ last > 0 THEN last - 1 ELSE last
      /\ UNCHANGED <<opt, running, cleared>>
  BY DEF Pass
<1>3. unscanned' \in Nat
  BY <1>1 DEF Pass, Least
<1>4. now' \in 0..MaxSession /\ wait' \in Nat /\ last' \in Int /\ wait' <= opt'.interval
  BY <1>1, <1>2 DEF Least
<1>5. ~cleared => last' <= now'
  <2>1. ~cleared => last <= now
    BY DEF ScanInv
  <2> QED BY <1>1, <1>2, <2>1 DEF Least
<1>6. ASSUME ~cleared, opt.names # <<>>
      PROVE  InTime'
  <2>1. InTime /\ last <= now
    BY <1>2, <1>6 DEF ScanInv
  <2>2. unscanned' <= unscanned + 1
    BY <1>1, <1>6 DEF Pass, Least
  <2>3. unscanned' < RescanPeriod + wait'
    BY <1>1, <1>2, <1>3, <2>1, <2>2 DEF InTime
  <2>4. last' >= 0 => last >= 0
    BY <1>1, <1>2
  <2>5. last >= 0 => now' - last' = now - last + 1 \/ now' - last' >= RescanPeriod
    BY <1>1, <1>2 DEF Least
  <2>6. last' >= 0 => unscanned' <= now' - last' \/ now' - last' >= RescanPeriod
    <3> DEFINE age == now - last
               next == now' - last'
    <3>1. age \in Int /\ next \in Int /\ unscanned \in Int /\ unscanned' \in Int
      BY <1>1, <1>3, <1>4
    <3>2. RescanPeriod \in Nat
      BY <1>1
    <3>3. last' >= 0 => unscanned <= age \/ age >= RescanPeriod
      BY <2>1, <2>4 DEF InTime
    <3>4. last' >= 0 => next = age + 1 \/ next >= RescanPeriod
      BY <2>4, <2>5
    <3> HIDE DEF age, next
    <3>5. last' >= 0 => unscanned' <= next \/ next >= RescanPeriod
      BY <2>2, <3>1, <3>2, <3>3, <3>4
    <3> QED BY <3>5 DEF next
  <2> QED BY <2>3, <2>6 DEF InTime
<1> QED BY <1>1, <1>2, <1>3, <1>4, <1>5, <1>6 DEF ScanInv

\* The timer scans if a scan is due; if not, the last one is younger than the period.
LEMMA TimerInTime ==
    ASSUME ScanInv, GoodOptions(opt), OnTimer
    PROVE  ScanInv'
<1>1. /\ running /\ running' = running /\ wait' = 0 /\ now' = now /\ tick(now)
      /\ now \in 0..MaxSession /\ last \in Int /\ unscanned \in Nat
  BY DEF OnTimer, tick, ScanInv
<1>2. opt' = opt /\ opt.interval \in Nat /\ RescanPeriod \in Nat \ {0} /\ MaxSession \in Nat
  BY <1>1, TickCharts, TimeAssumption DEF GoodOptions, Options
<1>3. CASE RescanDue(now)
  <2>1. last' = now /\ unscanned' = 0
    BY <1>1, <1>3 DEF tick
  <2> QED BY <1>1, <1>2, <2>1 DEF ScanInv, InTime
<1>4. CASE ~RescanDue(now)
  <2>1. last' = last /\ unscanned' = unscanned /\ (cleared' <=> cleared)
    BY <1>1, <1>4 DEF tick
  <2>2. ASSUME ~cleared, opt.names # <<>>
        PROVE  InTime'
    <3>1. InTime /\ last >= 0 /\ now - last < RescanPeriod
      BY <1>1, <1>2, <1>4, <2>2 DEF ScanInv, RescanDue
    <3> QED BY <1>1, <1>2, <2>1, <3>1 DEF InTime
  <2> QED BY <1>1, <1>2, <2>1, <2>2 DEF ScanInv
<1> QED BY <1>3, <1>4

\* Nothing is claimed after a clear, unless it scans or there was no time to clear.
LEMMA ClearInTime ==
    ASSUME ScanInv, GoodOptions(opt), OnClearHistory
    PROVE  ScanInv'
<1>1. /\ running /\ running' = running /\ wait' = wait /\ now' = 0 /\ tick(0)
      /\ now \in 0..MaxSession /\ last \in Int /\ unscanned \in Nat /\ wait \in Nat
      /\ wait <= opt.interval
  BY DEF OnClearHistory, UserFree, tick, ScanInv
<1>2. opt' = opt /\ RescanPeriod \in Nat \ {0} /\ MaxSession \in Nat
  BY <1>1, TickCharts, TimeAssumption
<1>3. CASE RescanDue(0)
  <2>1. last' = 0 /\ unscanned' = 0
    BY <1>1, <1>3 DEF tick
  <2> QED BY <1>1, <1>2, <2>1 DEF ScanInv, InTime
<1>4. CASE ~RescanDue(0)
  <2>1. last' = last /\ unscanned' = unscanned /\ (cleared' <=> cleared \/ now # 0)
    BY <1>1, <1>4 DEF tick
  <2> QED BY <1>1, <1>2, <2>1 DEF ScanInv, InTime
<1> QED BY <1>3, <1>4

\* A restart of the timer takes its time from both sides.
LEMMA RestartInTime ==
    ASSUME ScanInv, GoodOptions(opt), GoodOptions(opt'), opt'.names = opt.names,
           RestartTimer, UNCHANGED <<now, last, cleared, running>>
    PROVE  ScanInv'
<1>1. /\ now \in 0..MaxSession /\ last \in Int /\ unscanned \in Nat /\ wait \in Nat
      /\ opt'.interval \in Nat /\ RescanPeriod \in Nat \ {0}
      /\ MaxSession \in Nat
  BY TimeAssumption DEF ScanInv, GoodOptions, Options
<1>2. wait' = 0 /\ unscanned' = Most(unscanned - wait, 0)
  BY DEF RestartTimer
<1>3. /\ unscanned' \in Nat /\ unscanned' <= unscanned
      /\ unscanned < RescanPeriod + wait => unscanned' < RescanPeriod + wait'
  BY <1>1, <1>2 DEF Most
<1>4. ~cleared /\ InTime => InTime'
  BY <1>1, <1>2, <1>3 DEF InTime
<1> QED BY <1>1, <1>2, <1>3, <1>4 DEF ScanInv

\* Adding NAMEs scans them.
LEMMA AddNamesInTime ==
    ASSUME ScanInv, opt'.interval = opt.interval, AddNames
    PROVE  ScanInv'
<1>1. /\ running /\ unscanned' = 0
      /\ UNCHANGED <<now, wait, last, running, cleared>>
  BY DEF AddNames, UserTurn, UserFree, clock
<1> QED BY <1>1, TimeAssumption DEF ScanInv, InTime

\* A step that leaves the time alone and adds no NAMEs changes nothing.
LEMMA QuietInTime ==
    ASSUME ScanInv, FewerNames, opt'.interval = opt.interval,
           UNCHANGED <<now, wait, last, unscanned, running, cleared>>
    PROVE  ScanInv'
BY DEF ScanInv, InTime, FewerNames

\* Until the history is cleared, no scan is ever older than the period and the
\* interval of the timer.  Init, the clock's steps and those of the user that touch it
\* have a lemma each; no other step does.
THEOREM ScanInTime == Spec => []RescanInTime
<1>1. Init => ScanInv
  <2> SUFFICES ASSUME Init PROVE ScanInv
    OBVIOUS
  <2>1. opt.interval \in Intervals
    BY OptionAssumption DEF Init, Options
  <2>2. opt.interval \in Nat /\ MaxSession \in Nat
    BY <2>1, TimeAssumption
  <2> QED BY <2>2 DEF Init, ScanInv
<1>2. ASSUME ScanInv, GoodOptions(opt), [Next]_vars
      PROVE  ScanInv'
  <2>1. GoodOptions(opt') /\ (FewerNames \/ AddNames)
    BY <1>2, StepOptions
  <2>2. CASE SetInterval
    <3>1. opt'.names = opt.names
      BY <1>2, <2>2, Zenon DEF SetInterval, GoodOptions, Options
    <3> QED BY <1>2, <2>1, <2>2, <3>1, RestartInTime DEF SetInterval
  <2>3. CASE ~SetInterval
    <3>1. opt'.interval = opt.interval
      BY <1>2, <2>3, StepInterval
    <3>2. CASE UNCHANGED <<now, wait, last, unscanned, running, cleared>>
      BY <1>2, <2>1, <3>1, <3>2, QuietInTime, AddNamesInTime
    <3>3. CASE FirstTick
      BY <1>2, <3>3, FirstTickInTime
    <3>4. CASE Pass
      BY <1>2, <3>4, PassInTime
    <3>5. CASE OnTimer
      BY <1>2, <3>5, TimerInTime
    <3>6. CASE OnClearHistory
      BY <1>2, <3>6, ClearInTime
    <3>7. CASE AddNames
      BY <1>2, <3>1, <3>7, AddNamesInTime
    <3>8. CASE \/ OnToggle \/ OnToggleNetwork \/ AddDevice \/ AddAddr
               \/ AddIface \/ OnRemoveCapture \/ OnLeftDown \/ ContextRemove
               \/ DeliverRemove \/ \E p \in Pids : Start(p) \/ Exit(p)
               \/ UNCHANGED vars
      BY <3>2, <3>8
         DEF OnToggle, OnToggleNetwork, AddDevice, AddAddr, AddIface,
             OnRemoveCapture, OnLeftDown, ContextRemove, DeliverRemove, Start, Exit,
             vars, clock, scan
    <3> QED BY <1>2, <2>3, <3>3, <3>4, <3>5, <3>6, <3>7, <3>8 DEF Next, Gesture
  <2> QED BY <2>2, <2>3
<1>3. ScanInv /\ GoodOptions(opt) => RescanInTime
  <2>1. GoodOptions(opt) => opt.interval \in Nat
    BY TimeAssumption DEF GoodOptions, Options
  <2> QED BY <2>1, TimeAssumption DEF ScanInv, InTime, RescanInTime
<1> QED BY <1>1, <1>2, <1>3, OptionsStayGood, PTL DEF Spec

-----------------------------------------------------------------------------
(* Which processes are tracked. *)

\* Lists in which every process is once, under one of some NAMEs.
Once(names) ==
    {tr \in Processes :
        /\ \A i, j \in DOMAIN tr : tr[i].pid = tr[j].pid => i = j
        /\ \A i \in DOMAIN tr : tr[i].name \in names}

\* The processes that some NAMEs select of those alive.
SelectedBy(names) == {p \in alive : \E name \in names : p \in ToSet(Matches[name])}

\* Taking a match adds its process if it is alive.
LEMMA TakeOnce ==
    ASSUME NEW names \in SUBSET Names, NEW tr \in Once(names),
           NEW name \in names, NEW p \in Pids
    PROVE  /\ take(tr, name, p) \in Once(names)
           /\ Pid(take(tr, name, p)) = Pid(tr) \cup (alive \cap {p})
<1> DEFINE r == [pid |-> p, name |-> name]
           new == Append(tr, r)
           T == [pid : Pids, name : Names]
<1>1. /\ tr \in Seq(T) /\ r \in T /\ r.pid = p /\ r.name = name
      /\ \A i, j \in DOMAIN tr : tr[i].pid = tr[j].pid => i = j
      /\ \A i \in DOMAIN tr : tr[i].name \in names
  BY DEF Once, Processes
<1> HIDE DEF r, T
<1>2. /\ new \in Seq(T) /\ Len(new) = Len(tr) + 1 /\ new[Len(tr) + 1] = r
      /\ \A i \in 1..Len(tr) : new[i] = tr[i]
      /\ DOMAIN tr = 1..Len(tr) /\ DOMAIN new = 1..(Len(tr) + 1) /\ Len(tr) \in Nat
  BY <1>1, AppendProperties, LenProperties
<1> HIDE DEF new
<1>3. CASE p \in alive \ Pid(tr)
  <2>1. take(tr, name, p) = new
    BY <1>3 DEF take, new, r
  <2>2. \A i \in DOMAIN tr : tr[i].pid # p
    BY <1>3 DEF Pid
  <2>3. ASSUME NEW i \in DOMAIN new, NEW j \in DOMAIN new, new[i].pid = new[j].pid
        PROVE  i = j
    BY <1>1, <1>2, <2>2, <2>3
  <2>4. \A i \in DOMAIN new : new[i].name \in names
    BY <1>1, <1>2
  <2>5. Pid(new) = Pid(tr) \cup {p}
    <3>1. ASSUME NEW x \in Pid(new) PROVE x \in Pid(tr) \cup {p}
      <4>1. PICK i \in DOMAIN new : x = new[i].pid
        BY <3>1 DEF Pid
      <4> QED BY <1>1, <1>2, <4>1 DEF Pid
    <3>2. ASSUME NEW x \in Pid(tr) PROVE x \in Pid(new)
      <4>1. PICK i \in DOMAIN tr : x = tr[i].pid
        BY <3>2 DEF Pid
      <4>2. i \in DOMAIN new /\ x = new[i].pid
        BY <1>2, <4>1
      <4> QED BY <4>2 DEF Pid
    <3>3. p \in Pid(new)
      <4>1. Len(tr) + 1 \in DOMAIN new /\ p = new[Len(tr) + 1].pid
        BY <1>1, <1>2
      <4> QED BY <4>1 DEF Pid
    <3> QED BY <3>1, <3>2, <3>3
  <2> QED BY <1>2, <1>3, <2>1, <2>3, <2>4, <2>5 DEF Once, Processes, T
<1>4. CASE ~(p \in alive \ Pid(tr))
  <2>1. take(tr, name, p) = tr
    BY <1>4 DEF take
  <2> QED BY <1>4, <2>1
<1> QED BY <1>3, <1>4

\* The matches of a NAME are taken one by one.
LEMMA TakeMatchesSteps ==
    ASSUME NEW names \in SUBSET Names, NEW tr \in Once(names), NEW name \in names
    PROVE  LET n == Len(Matches[name])
           IN  \E f : /\ f[0] = tr /\ take_matches(tr, name) = f[n]
                      /\ \A i \in 1..n : f[i] = take(f[i - 1], name, Matches[name][i])
<1> DEFINE found == Matches[name]
           n == Len(found)
           V == Once(names)
           Step == [i \in 1..n |-> [v \in V |-> take(v, name, found[i])]]
           Eq(f) == f = [i \in 0..n |-> IF i = 0 THEN tr
                                        ELSE take(f[i - 1], name, found[i])]
<1>1. found \in Seq(Pids) /\ n \in Nat /\ \A i \in 1..n : found[i] \in Pids
  BY MatchAssumption
<1>2. take_matches(tr, name) = (CHOOSE f : Eq(f))[n]
  BY DEF take_matches
<1> HIDE DEF found, n
<1>3. tr \in V /\ Step \in [1..n -> [V -> V]]
  BY <1>1, TakeOnce
<1> HIDE DEF V
<1>4. PICK f : Made(f, n, V, tr, Step)
  <2> HIDE DEF Step
  <2> QED BY <1>1, <1>3, RecursionExists
<1>5. /\ f \in [0..n -> V] /\ f[0] = tr
      /\ \A i \in 1..n : f[i] = take(f[i - 1], name, found[i])
  BY <1>1, <1>4, SMTT(20) DEF Made
<1>6. Eq(f)
  BY <1>1, <1>5
<1> DEFINE g == CHOOSE h : Eq(h)
<1>7. Eq(g)
  <2> HIDE DEF Eq
  <2> QED BY <1>6
<1>8. g[0] = tr /\ \A i \in 1..n : g[i] = take(g[i - 1], name, found[i])
  <2> HIDE DEF g
  <2> QED BY <1>1, <1>7
<1>9. take_matches(tr, name) = g[n]
  BY <1>2
<1> HIDE DEF g
<1> QED BY <1>8, <1>9 DEF n, found

\* They add the processes of the NAME that are alive, each once.
LEMMA TakeMatchesOnce ==
    ASSUME NEW names \in SUBSET Names, NEW tr \in Once(names), NEW name \in names
    PROVE  /\ take_matches(tr, name) \in Once(names)
           /\ Pid(take_matches(tr, name)) = Pid(tr) \cup SelectedBy({name})
<1> DEFINE found == Matches[name]
           n == Len(found)
           Upto(i) == alive \cap {found[k] : k \in 1..i}
<1>1. /\ found \in Seq(Pids) /\ n \in Nat /\ DOMAIN found = 1..n
      /\ \A i \in 1..n : found[i] \in Pids
  BY MatchAssumption
<1>2. PICK f : /\ f[0] = tr /\ take_matches(tr, name) = f[n]
               /\ \A i \in 1..n : f[i] = take(f[i - 1], name, found[i])
  BY TakeMatchesSteps
<1>3. SelectedBy({name}) = Upto(n)
  BY <1>1 DEF SelectedBy, ToSet
<1> HIDE DEF found, n
<1> DEFINE S == {i \in 0..n : f[i] \in Once(names) /\ Pid(f[i]) = Pid(tr) \cup Upto(i)}
<1>4. 0 \in S
  <2>1. Upto(0) = {}
    OBVIOUS
  <2> QED BY <1>1, <1>2, <2>1
<1>5. ASSUME NEW i \in 1..n, i - 1 \in S PROVE i \in S
  <2>1. /\ f[i] \in Once(names)
        /\ Pid(f[i]) = Pid(f[i - 1]) \cup (alive \cap {found[i]})
    BY <1>1, <1>2, <1>5, TakeOnce
  <2>2. Upto(i) = Upto(i - 1) \cup (alive \cap {found[i]})
    <3>1. 1..i = (1..(i - 1)) \cup {i}
      BY <1>1
    <3> QED BY <3>1
  <2> HIDE DEF Upto
  <2> QED BY <1>5, <2>1, <2>2
<1> HIDE DEF S
<1>6. 0..n \subseteq S
  BY <1>1, <1>4, <1>5, InductionUpTo
<1>7. n \in S
  BY <1>1, <1>6
<1> QED BY <1>2, <1>3, <1>7 DEF S

\* The NAMEs are resolved one by one.
LEMMA ResolveSteps ==
    ASSUME NEW names \in Seq(Names)
    PROVE  LET n == Len(names)
           IN  \E f : /\ f[0] = <<>> /\ resolve_names(names) = f[n]
                      /\ \A i \in 1..n : f[i] = take_matches(f[i - 1], names[i])
<1> DEFINE n == Len(names)
           V == Once(ToSet(names))
           Step == [i \in 1..n |-> [v \in V |-> take_matches(v, names[i])]]
           Eq(f) == f = [i \in 0..n |-> IF i = 0 THEN <<>>
                                        ELSE take_matches(f[i - 1], names[i])]
<1>1. /\ n \in Nat /\ ToSet(names) \subseteq Names
      /\ \A i \in 1..n : names[i] \in ToSet(names)
  BY DEF ToSet
<1>2. resolve_names(names) = (CHOOSE f : Eq(f))[n]
  BY DEF resolve_names
<1> HIDE DEF n
<1>3. <<>> \in V /\ Step \in [1..n -> [V -> V]]
  <2>1. <<>> \in V
    BY DEF Once, Processes
  <2> QED BY <1>1, <2>1, TakeMatchesOnce
<1> HIDE DEF V
<1>4. PICK f : Made(f, n, V, <<>>, Step)
  <2> HIDE DEF Step
  <2> QED BY <1>1, <1>3, RecursionExists
<1>5. /\ f \in [0..n -> V] /\ f[0] = <<>>
      /\ \A i \in 1..n : f[i] = take_matches(f[i - 1], names[i])
  BY <1>1, <1>4 DEF Made
<1>6. Eq(f)
  BY <1>1, <1>5
<1> DEFINE g == CHOOSE h : Eq(h)
<1>7. Eq(g)
  <2> HIDE DEF Eq
  <2> QED BY <1>6
<1>8. g[0] = <<>> /\ \A i \in 1..n : g[i] = take_matches(g[i - 1], names[i])
  <2> HIDE DEF g
  <2> QED BY <1>1, <1>7
<1>9. resolve_names(names) = g[n]
  BY <1>2
<1> HIDE DEF g
<1> QED BY <1>8, <1>9 DEF n

\* The first NAMEs, and what they have selected.
FirstOf(names, i) == {names[k] : k \in 1..i}

LEMMA ResolveUpto ==
    ASSUME NEW N \in SUBSET Names, NEW n \in Nat, NEW names, NEW f,
           \A i \in 1..n : names[i] \in N,
           f[0] = <<>>,
           \A i \in 1..n : f[i] = take_matches(f[i - 1], names[i])
    PROVE  f[n] \in Once(N) /\ Pid(f[n]) = SelectedBy(FirstOf(names, n))
<1> DEFINE Upto(i) == SelectedBy(FirstOf(names, i))
           S == {i \in 0..n : f[i] \in Once(N) /\ Pid(f[i]) = Upto(i)}
<1>1. 0 \in S
  <2>1. f[0] \in Once(N) /\ Pid(f[0]) = {}
    BY DEF Once, Processes, Pid
  <2>2. Upto(0) = {}
    BY DEF SelectedBy, FirstOf
  <2>3. 0 \in 0..n
    OBVIOUS
  <2> HIDE DEF Upto
  <2> QED BY <2>1, <2>2, <2>3
<1>2. ASSUME NEW i \in 1..n, i - 1 \in S PROVE i \in S
  <2>1. f[i - 1] \in Once(N) /\ Pid(f[i - 1]) = Upto(i - 1)
    BY <1>2
  <2>2. names[i] \in N /\ f[i] = take_matches(f[i - 1], names[i]) /\ i \in 0..n
    OBVIOUS
  <2>3. /\ take_matches(f[i - 1], names[i]) \in Once(N)
        /\ Pid(take_matches(f[i - 1], names[i]))
              = Pid(f[i - 1]) \cup SelectedBy({names[i]})
    <3>1. \A v \in Once(N), name \in N :
             /\ take_matches(v, name) \in Once(N)
             /\ Pid(take_matches(v, name)) = Pid(v) \cup SelectedBy({name})
      BY TakeMatchesOnce
    <3> QED BY <2>1, <2>2, <3>1
  <2>4. Upto(i) = Upto(i - 1) \cup SelectedBy({names[i]})
    <3>1. 1..i = (1..(i - 1)) \cup {i}
      OBVIOUS
    <3>2. FirstOf(names, i) = FirstOf(names, i - 1) \cup {names[i]}
      BY <3>1 DEF FirstOf
    <3> QED BY <3>2 DEF SelectedBy
  <2> HIDE DEF Upto
  <2>5. f[i] \in Once(N) /\ Pid(f[i]) = Upto(i)
    BY <2>1, <2>2, <2>3, <2>4
  <2> QED BY <2>2, <2>5
<1> HIDE DEF S
<1>3. 0..n \subseteq S
  BY <1>1, <1>2, InductionUpTo
<1>4. n \in S
  BY <1>3
<1> QED BY <1>4 DEF S

\* A scan finds every process that a NAME selects, once, under one of the NAMEs,
\* and no others.
THEOREM ResolveNames ==
    ASSUME NEW names \in Seq(Names)
    PROVE  /\ resolve_names(names) \in Once(ToSet(names))
           /\ Pid(resolve_names(names)) = SelectedBy(ToSet(names))
<1> DEFINE n == Len(names)
<1>1. /\ n \in Nat /\ ToSet(names) \in SUBSET Names
      /\ ToSet(names) = FirstOf(names, n)
      /\ \A i \in 1..n : names[i] \in ToSet(names)
  BY DEF ToSet, FirstOf
<1>2. PICK f : /\ f[0] = <<>> /\ resolve_names(names) = f[n]
               /\ \A i \in 1..n : f[i] = take_matches(f[i - 1], names[i])
  BY ResolveSteps
<1> HIDE DEF n
<1>3. f[n] \in Once(ToSet(names)) /\ Pid(f[n]) = SelectedBy(FirstOf(names, n))
  BY <1>1, <1>2, ResolveUpto
<1> QED BY <1>1, <1>2, <1>3

\* What a step does to the tracked processes: it tracks those the NAMEs select, or
\* none with no NAME left, or it leaves processes and NAMEs as they are.
Scanned ==
    \/ alive' = alive /\ seen' = alive /\ tracked' = resolve_names(opt'.names)
    \/ opt'.names = <<>> /\ tracked' = <<>>

Unscanned ==
    /\ opt'.names = opt.names /\ tracked' = tracked
    /\ seen' = seen \/ opt.names = <<>>

\* A tick scans if it is due.
LEMMA TickTracked ==
    ASSUME NEW t, tick(t), alive' = alive
    PROVE  Scanned \/ Unscanned
<1>1. opt' = opt
  BY TickCharts
<1>2. CASE RescanDue(t)
  <2>1. tracked' = resolve_names(opt.names) /\ seen' = alive
    BY <1>2 DEF tick, Rebuild, same
  <2> QED BY <1>1, <2>1 DEF Scanned
<1>3. CASE ~RescanDue(t)
  BY <1>1, <1>3 DEF tick, Unscanned
<1> QED BY <1>2, <1>3

\* Adding NAMEs scans them all.
LEMMA AddNamesTracked ==
    ASSUME GoodOptions(opt), AddNames
    PROVE  Scanned
<1>1. PICK names : opt' = [opt EXCEPT !.names = names]
                   /\ tracked' = resolve_names(names)
  BY DEF AddNames, Rebuild
<1>2. opt'.names = names
  BY <1>1 DEF GoodOptions, Options
<1> QED BY <1>1, <1>2 DEF Scanned, AddNames

\* Removing the process charts leaves no NAME and no process.
LEMMA RemoveTracked ==
    ASSUME GoodOptions(opt), RemoveActive, UNCHANGED <<alive, seen>>
    PROVE  Scanned \/ Unscanned
<1>0. opt \in Options
  BY DEF GoodOptions
<1>1. CASE active = NoChart \/ active \in Toggles \ opt.show
  BY <1>1 DEF RemoveActive, Unscanned
<1>2. CASE ~(active = NoChart \/ active \in Toggles \ opt.show)
  <2>1. /\ opt' = Without(active)
        /\ tracked' = IF active \in {"proc-cpu", "proc-io"} THEN <<>> ELSE tracked
    BY <1>2 DEF RemoveActive, Rebuild
  <2>2. CASE active \in {"proc-cpu", "proc-io"}
    <3>1. opt' = [opt EXCEPT !.names = <<>>] /\ tracked' = <<>>
      BY <2>1, <2>2 DEF Without
    <3>2. opt'.names = <<>>
      BY <1>0, <3>1 DEF Options
    <3> QED BY <3>1, <3>2 DEF Scanned
  <2>3. CASE active \notin {"proc-cpu", "proc-io"}
    <3>1. /\ [opt EXCEPT !.monitor = FALSE, !.all = FALSE, !.ifaces = {}].names
                = opt.names
          /\ [opt EXCEPT !.devices = {}].names = opt.names
          /\ [opt EXCEPT !.addrs = {}].names = opt.names
          /\ [opt EXCEPT !.show = opt.show \ {active}].names = opt.names
      BY <1>0 DEF Options
    <3>2. Without(active) \in
             {[opt EXCEPT !.monitor = FALSE, !.all = FALSE, !.ifaces = {}],
              [opt EXCEPT !.devices = {}], [opt EXCEPT !.addrs = {}],
              [opt EXCEPT !.show = opt.show \ {active}]}
      BY <2>3 DEF Without
    <3>3. opt'.names = opt.names
      BY <2>1, <3>1, <3>2
    <3> QED BY <2>1, <2>3, <3>3 DEF Unscanned
  <2> QED BY <2>2, <2>3
<1> QED BY <1>1, <1>2

\* The other settings keep the NAMEs.
LEMMA SettingTracked ==
    ASSUME GoodOptions(opt), UNCHANGED <<tracked, seen>>,
           \/ SetInterval \/ OnToggle \/ OnToggleNetwork \/ AddDevice \/ AddAddr
           \/ AddIface
    PROVE  Unscanned
<1>1. /\ \A v : [opt EXCEPT !.show = v].names = opt.names
      /\ \A v : [opt EXCEPT !.devices = v].names = opt.names
      /\ \A v : [opt EXCEPT !.addrs = v].names = opt.names
      /\ \A v : [opt EXCEPT !.interval = v].names = opt.names
      /\ \A u, v, w : [opt EXCEPT !.monitor = u, !.all = v, !.ifaces = w].names
                         = opt.names
  BY DEF GoodOptions, Options
<1>2. CASE SetInterval
  BY <1>1, <1>2, Zenon DEF SetInterval, Unscanned
<1>3. CASE OnToggle
  BY <1>1, <1>3, Zenon DEF OnToggle, Rebuild, Unscanned
<1>4. CASE OnToggleNetwork
  <2>1. opt'.names = opt.names
    BY <1>1, <1>4 DEF OnToggleNetwork, Rebuild
  <2> QED BY <2>1 DEF Unscanned
<1>5. CASE AddDevice
  BY <1>1, <1>5, Zenon DEF AddDevice, Rebuild, Unscanned
<1>6. CASE AddAddr
  BY <1>1, <1>6, Zenon DEF AddAddr, Rebuild, Unscanned
<1>7. CASE AddIface
  <2>1. PICK v, w : opt' = [opt EXCEPT !.monitor = TRUE, !.all = v, !.ifaces = w]
    BY <1>7 DEF AddIface, Rebuild
  <2>2. opt'.names = opt.names
    BY <1>1, <2>1
  <2> QED BY <2>2 DEF Unscanned
<1> QED BY <1>2, <1>3, <1>4, <1>5, <1>6, <1>7

\* Every step scans or leaves processes and NAMEs as they are.
LEMMA StepTracked ==
    ASSUME GoodOptions(opt), [Next]_vars
    PROVE  Scanned \/ Unscanned
<1>1. CASE FirstTick \/ OnClearHistory \/ OnTimer
  BY <1>1, TickTracked DEF FirstTick, OnClearHistory, OnTimer
<1>2. CASE Pass
  BY <1>2 DEF Pass, Unscanned
<1>3. CASE AddNames
  BY <1>3, AddNamesTracked
<1>4. CASE DeliverRemove \/ OnRemoveCapture
  BY <1>4, RemoveTracked DEF DeliverRemove, OnRemoveCapture, scan
<1>5. CASE \/ SetInterval \/ OnToggle \/ OnToggleNetwork \/ AddDevice \/ AddAddr
           \/ AddIface
  <2>1. UNCHANGED <<tracked, seen>>
    BY <1>5 DEF SetInterval, OnToggle, OnToggleNetwork, AddDevice, AddAddr, AddIface,
                Rebuild, scan
  <2> QED BY <1>5, <2>1, SettingTracked
<1>6. CASE \/ OnLeftDown \/ ContextRemove \/ \E p \in Pids : Start(p) \/ Exit(p)
           \/ UNCHANGED vars
  <2>1. UNCHANGED <<opt, tracked, seen>>
    BY <1>6 DEF OnLeftDown, ContextRemove, Start, Exit, vars, scan
  <2> QED BY <2>1 DEF Unscanned
<1> QED
  BY <1>1, <1>2, <1>3, <1>4, <1>5, <1>6 DEF Next, Gesture

\* Tracked as TrackedOnceByName has it.
TrackedOnce == tracked \in Once(ToSet(opt.names))

LEMMA NothingOnce == <<>> \in Once({}) /\ Pid(<<>>) = {} /\ ToSet(<<>>) = {}
BY DEF Once, Processes, Pid, ToSet

LEMMA InitTracked == Init => GoodOptions(opt) /\ TrackedOnce
<1> SUFFICES ASSUME Init PROVE GoodOptions(opt) /\ TrackedOnce
  OBVIOUS
<1>1. GoodOptions(opt)
  BY OptionAssumption DEF Init, GoodOptions, IfacesListed
<1>2. opt.names \in Seq(Names) /\ tracked = resolve_names(opt.names)
  BY <1>1 DEF Init, GoodOptions, Options
<1> QED BY <1>1, <1>2, ResolveNames DEF TrackedOnce

LEMMA StepOnce ==
    ASSUME GoodOptions(opt), TrackedOnce, [Next]_vars
    PROVE  TrackedOnce'
<1>1. opt'.names \in Seq(Names)
  BY StepOptions DEF GoodOptions, Options
<1>2. CASE Scanned
  <2>1. resolve_names(opt'.names) \in Once(ToSet(opt'.names))
    BY <1>1, ResolveNames
  <2> QED BY <1>2, <2>1, NothingOnce DEF Scanned, TrackedOnce, Once
<1>3. CASE Unscanned
  BY <1>3 DEF Unscanned, TrackedOnce, Once
<1> QED BY <1>2, <1>3, StepTracked

\* However the NAMEs overlap, no process is ever tracked twice, nor under a NAME
\* that is gone.
THEOREM TrackedOnceCorrect == Spec => []TrackedOnceByName
<1>1. GoodOptions(opt) /\ TrackedOnce /\ [Next]_vars => TrackedOnce'
  BY StepOnce
<1>2. TrackedOnce => TrackedOnceByName
  BY DEF TrackedOnce, Once, TrackedOnceByName
<1> QED BY <1>1, <1>2, InitTracked, OptionsStayGood, PTL DEF Spec

-----------------------------------------------------------------------------
(* Removal. *)

\* The charts are those of the options and processes, whoever changed them.
ChartsCurrent == charts = ChartsFor(opt, tracked)

\* The charts do not depend on the refresh interval.
LEMMA IntervalChartsNothing ==
    ASSUME NEW o \in Options, NEW tr, NEW ms
    PROVE  ChartsFor([o EXCEPT !.interval = ms], tr) = ChartsFor(o, tr)
<1> DEFINE n == [o EXCEPT !.interval = ms]
<1>1. /\ n.show = o.show /\ n.devices = o.devices /\ n.addrs = o.addrs
      /\ n.monitor = o.monitor /\ n.all = o.all /\ n.ifaces = o.ifaces
  BY DEF Options
<1> HIDE DEF n
<1>2. ChartsFor(n, tr) = ChartsFor(o, tr)
  BY <1>1 DEF ChartsFor, resolve_ifaces
<1> QED BY <1>2 DEF n

\* Every step keeps the charts current.
LEMMA StepChartsCurrent ==
    ASSUME GoodOptions(opt), ChartsCurrent, [Next]_vars
    PROVE  ChartsCurrent'
<1>1. ASSUME UNCHANGED <<opt, tracked, charts>> PROVE ChartsCurrent'
  BY <1>1 DEF ChartsCurrent
<1>2. ASSUME NEW o, NEW tr, Rebuild(o, tr) PROVE ChartsCurrent'
  BY <1>2 DEF ChartsCurrent, Rebuild
<1>3. ASSUME NEW t, tick(t) PROVE ChartsCurrent'
  BY <1>1, <1>2, <1>3 DEF tick
<1>4. CASE FirstTick \/ OnTimer \/ OnClearHistory
  BY <1>3, <1>4 DEF FirstTick, OnTimer, OnClearHistory
<1>5. CASE SetInterval
  <2>1. PICK ms : opt' = [opt EXCEPT !.interval = ms]
    BY <1>5 DEF SetInterval
  <2>2. ChartsFor(opt', tracked) = ChartsFor(opt, tracked)
    BY <2>1, IntervalChartsNothing DEF GoodOptions
  <2> QED BY <1>5, <2>2 DEF SetInterval, ChartsCurrent
<1>6. CASE OnToggle \/ OnToggleNetwork \/ AddDevice \/ AddAddr \/ AddIface \/ AddNames
  BY <1>2, <1>6
     DEF OnToggle, OnToggleNetwork, AddDevice, AddAddr, AddIface, AddNames
<1>7. CASE OnRemoveCapture \/ DeliverRemove
  BY <1>1, <1>2, <1>7 DEF OnRemoveCapture, DeliverRemove, RemoveActive
<1>8. CASE \/ Pass \/ OnLeftDown \/ ContextRemove \/ UNCHANGED vars
           \/ \E p \in Pids : Start(p) \/ Exit(p)
  BY <1>1, <1>8 DEF Pass, OnLeftDown, ContextRemove, Start, Exit, vars
<1> QED BY <1>4, <1>5, <1>6, <1>7, <1>8 DEF Next, Gesture

\* The charts that go with a chart that is removed.
GoesWith(id) ==
    IF id \in {"proc-cpu", "proc-io"} THEN {"proc-cpu", "proc-io", "numfd"}
                                      ELSE {id}

\* The options without a chart no longer ask for it, and ask for all the others
\* they asked for, save those that go with it.
LEMMA WithoutOnlyThat ==
    ASSUME NEW id, opt \in Options, NEW tr, NEW tr2,
           tr2 = IF id \in {"proc-cpu", "proc-io"} THEN <<>> ELSE tr
    PROVE  /\ ~Charted(Without(id), tr2, id)
           /\ \A x : Charted(opt, tr, x) /\ ~Charted(Without(id), tr2, x)
                        => x \in GoesWith(id)
<1> DEFINE n == Without(id)
<1>1. CASE id = "network"
  <2>1. /\ n.show = opt.show /\ n.devices = opt.devices /\ n.addrs = opt.addrs
        /\ n.monitor = FALSE
    BY <1>1 DEF Without, Options
  <2> HIDE DEF n
  <2> QED BY <1>1, <2>1 DEF Charted, GoesWith, n
<1>2. CASE id = "device"
  <2>1. /\ n.show = opt.show /\ n.addrs = opt.addrs /\ n.monitor = opt.monitor
        /\ n.all = opt.all /\ n.ifaces = opt.ifaces /\ n.devices = {}
    BY <1>2 DEF Without, Options
  <2> HIDE DEF n
  <2> QED BY <1>2, <2>1 DEF Charted, GoesWith, n
<1>3. CASE id = "address"
  <2>1. /\ n.show = opt.show /\ n.devices = opt.devices /\ n.monitor = opt.monitor
        /\ n.all = opt.all /\ n.ifaces = opt.ifaces /\ n.addrs = {}
    BY <1>3 DEF Without, Options
  <2> HIDE DEF n
  <2> QED BY <1>3, <2>1 DEF Charted, GoesWith, n
<1>4. CASE id \in {"proc-cpu", "proc-io"}
  <2>1. /\ n.show = opt.show /\ n.devices = opt.devices /\ n.addrs = opt.addrs
        /\ n.monitor = opt.monitor /\ n.all = opt.all /\ n.ifaces = opt.ifaces
    BY <1>4 DEF Without, Options
  <2> HIDE DEF n
  <2> QED BY <1>4, <2>1 DEF Charted, GoesWith, n
<1>5. CASE id \notin {"network", "device", "address", "proc-cpu", "proc-io"}
  <2>1. n = [opt EXCEPT !.show = @ \ {id}]
    BY <1>5 DEF Without
  <2>2. /\ n.show = opt.show \ {id} /\ n.devices = opt.devices
        /\ n.addrs = opt.addrs /\ n.monitor = opt.monitor /\ n.all = opt.all
        /\ n.ifaces = opt.ifaces
    BY <2>1 DEF Options
  <2> HIDE DEF n
  <2> QED BY <1>5, <2>2 DEF Charted, GoesWith, n
<1> QED BY <1>1, <1>2, <1>3, <1>4, <1>5

\* Removing the active chart does that and no more.
LEMMA RemoveTakesOne ==
    ASSUME opt \in Options, ChartsCurrent, RemoveActive
    PROVE  /\ active \notin Ids(charts')
           /\ Ids(charts) \ Ids(charts') \subseteq GoesWith(active)
<1>1. \A x : x \in Ids(charts) <=> Charted(opt, tracked, x)
  BY ChartList DEF ChartsCurrent
<1>2. CASE active = NoChart \/ active \in Toggles \ opt.show
  <2>1. ~Charted(opt, tracked, active)
    BY <1>2, ToggleAssumption DEF Charted, NoChart
  <2>2. charts' = charts
    BY <1>2 DEF RemoveActive
  <2>3. Ids(charts') = Ids(charts)
    BY <2>2
  <2> QED BY <1>1, <2>1, <2>3
<1>3. CASE ~(active = NoChart \/ active \in Toggles \ opt.show)
  <2>1. PICK tr : /\ tr = IF active \in {"proc-cpu", "proc-io"} THEN <<>>
                          ELSE tracked
                  /\ charts' = ChartsFor(Without(active), tr)
    BY <1>3 DEF RemoveActive, Rebuild
  <2>2. \A x : x \in Ids(charts') <=> Charted(Without(active), tr, x)
    BY <2>1, ChartList
  <2>3. /\ ~Charted(Without(active), tr, active)
        /\ \A x : Charted(opt, tracked, x) /\ ~Charted(Without(active), tr, x)
                     => x \in GoesWith(active)
    BY <2>1, WithoutOnlyThat
  <2> QED BY <1>1, <2>2, <2>3
<1> QED BY <1>2, <1>3

\* A queued remove event takes the active chart away and nothing that does not
\* go with it, whatever happened while it was queued.
THEOREM RemovesOnlyItsOwn == Spec => RemoveTakesOnlyItsOwn
<1> DEFINE step == pending # <<>> /\ pending' = <<>> =>
                      LET gone == Ids(charts) \ Ids(charts')
                      IN  /\ active \notin Ids(charts')
                          /\ gone \subseteq
                                IF active \in {"proc-cpu", "proc-io"}
                                THEN {"proc-cpu", "proc-io", "numfd"}
                                ELSE {active}
<1>1. Init => ChartsCurrent
  BY DEF Init, ChartsCurrent
<1>2. GoodOptions(opt) /\ ChartsCurrent /\ [Next]_vars => ChartsCurrent'
  BY StepChartsCurrent
<1>3. GoodOptions(opt) /\ ChartsCurrent /\ [Next]_vars => [step]_vars
  <2> SUFFICES ASSUME GoodOptions(opt), ChartsCurrent, Next,
                      pending # <<>>, pending' = <<>>
               PROVE  /\ active \notin Ids(charts')
                      /\ Ids(charts) \ Ids(charts') \subseteq GoesWith(active)
    BY DEF GoesWith
  <2>1. DeliverRemove
    BY DEF Next, Gesture, UserTurn, UserFree, FirstTick, Pass, OnTimer,
           OnClearHistory, SetInterval, OnToggle, OnToggleNetwork, AddDevice, AddAddr, AddIface, AddNames,
           OnRemoveCapture, OnLeftDown, ContextRemove, Start, Exit, frame
  <2> QED BY <2>1, RemoveTakesOne DEF DeliverRemove, GoodOptions
<1>4. Spec => [][step]_vars
  BY <1>1, <1>2, <1>3, OptionsStayGood, PTL DEF Spec
<1> QED BY <1>4 DEF RemoveTakesOnlyItsOwn

-----------------------------------------------------------------------------
(* Types. *)

\* The charts of good options and processes are chart specifications.
LEMMA ChartsTyped ==
    ASSUME NEW o \in Options, NEW tr \in Processes
    PROVE  ChartsFor(o, tr) \in Seq(ChartSpecs)
<1> DEFINE S == ChartSpecs
           spec(id, things, procs) ==
               [id |-> id, things |-> things, procs |-> procs]
           a == When("sys-cpu" \in o.show, "sys-cpu", {}, <<>>)
           b == When("sys-mem" \in o.show, "sys-mem", {}, <<>>)
           c == When(o.devices # {}, "device", o.devices, <<>>)
           d == When(o.monitor /\ (o.all \/ o.ifaces # {}), "network",
                     resolve_ifaces(o), <<>>)
           e == When(o.addrs # {}, "address", o.addrs, <<>>)
           f == When(tr # <<>>, "proc-cpu", {}, tr)
           g == When(tr # <<>>, "proc-io", {}, tr)
           h == When("threads" \in o.show, "threads", {}, tr)
           i == When("numfd" \in o.show /\ tr # <<>>, "numfd", {}, tr)
           j == When("connections" \in o.show, "connections", {}, tr)
<1>1. /\ o.devices \subseteq Devices /\ o.addrs \subseteq Addrs
      /\ resolve_ifaces(o) \subseteq Ifaces /\ <<>> \in Processes
  BY DEF Options, resolve_ifaces, Processes
<1>2. \A id \in ChartIds, things \in SUBSET (Devices \cup Addrs \cup Ifaces),
         procs \in Processes : spec(id, things, procs) \in S
  BY DEF ChartSpecs
<1>3. /\ spec("sys-cpu", {}, <<>>) \in S /\ spec("sys-mem", {}, <<>>) \in S
      /\ spec("device", o.devices, <<>>) \in S
      /\ spec("network", resolve_ifaces(o), <<>>) \in S
      /\ spec("address", o.addrs, <<>>) \in S
      /\ spec("proc-cpu", {}, tr) \in S /\ spec("proc-io", {}, tr) \in S
      /\ spec("threads", {}, tr) \in S /\ spec("numfd", {}, tr) \in S
      /\ spec("connections", {}, tr) \in S
  <2> HIDE DEF S, spec
  <2>1. /\ "sys-cpu" \in ChartIds /\ "sys-mem" \in ChartIds /\ "device" \in ChartIds
        /\ "network" \in ChartIds /\ "address" \in ChartIds
        /\ "proc-cpu" \in ChartIds /\ "proc-io" \in ChartIds
        /\ "threads" \in ChartIds /\ "numfd" \in ChartIds
        /\ "connections" \in ChartIds
    BY DEF ChartIds
  <2> QED BY <1>1, <1>2, <2>1
<1> HIDE DEF S
<1>4a. a \in Seq(S)
  BY <1>3, WhenSeq, Zenon
<1>4b. b \in Seq(S)
  BY <1>3, WhenSeq, Zenon
<1>4c. c \in Seq(S)
  BY <1>3, WhenSeq, Zenon
<1>4d. d \in Seq(S)
  BY <1>3, WhenSeq, Zenon
<1>4e. e \in Seq(S)
  BY <1>3, WhenSeq, Zenon
<1>4f. f \in Seq(S)
  BY <1>3, WhenSeq, Zenon
<1>4g. g \in Seq(S)
  BY <1>3, WhenSeq, Zenon
<1>4h. h \in Seq(S)
  BY <1>3, WhenSeq, Zenon
<1>4i. i \in Seq(S)
  BY <1>3, WhenSeq, Zenon
<1>4j. j \in Seq(S)
  BY <1>3, WhenSeq, Zenon
<1>5. ChartsFor(o, tr) = a \o b \o c \o d \o e \o f \o g \o h \o i \o j
  BY DEF ChartsFor
<1>6. \A s, t \in Seq(S) : s \o t \in Seq(S)
  BY ConcatProperties
<1> HIDE DEF a, b, c, d, e, f, g, h, i, j
<1>7. a \o b \o c \o d \o e \o f \o g \o h \o i \o j \in Seq(S)
  BY <1>4a, <1>4b, <1>4c, <1>4d, <1>4e, <1>4f, <1>4g, <1>4h, <1>4i, <1>4j, <1>6, Zenon
<1> QED BY <1>5, <1>7 DEF S

\* So are their identifiers.
LEMMA IdsTyped ==
    ASSUME NEW list \in Seq(ChartSpecs)
    PROVE  /\ Ids(list) \subseteq ChartIds
           /\ list # <<>> => list[1].id \in ChartIds
<1>1. \A i \in DOMAIN list : list[i] \in ChartSpecs
  OBVIOUS
<1>2. \A c \in ChartSpecs : c.id \in ChartIds
  BY DEF ChartSpecs
<1>3. list # <<>> => 1 \in DOMAIN list
  BY SeqHasFirst DEF HasFirst
<1> QED BY <1>1, <1>2, <1>3 DEF Ids

\* The frame's variables.
FrameTyped ==
    /\ panels \in Seq(ChartSpecs)
    /\ active \in ChartIds \cup {NoChart}
    /\ pending \in Seq(ChartIds) /\ Len(pending) <= 1

\* The panes are built from charts.
LEMMA RebuildTyped ==
    ASSUME charts' \in Seq(ChartSpecs), RebuildPanes
    PROVE  panels' \in Seq(ChartSpecs) /\ active' \in ChartIds \cup {NoChart}
BY IdsTyped DEF RebuildPanes

LEMMA RemoveTyped ==
    ASSUME FrameTyped, charts' \in Seq(ChartSpecs), RemoveActive
    PROVE  panels' \in Seq(ChartSpecs) /\ active' \in ChartIds \cup {NoChart}
<1>1. CASE UNCHANGED <<panels, active>>
  BY <1>1 DEF FrameTyped
<1>2. CASE RebuildPanes
  BY <1>2, RebuildTyped
<1> QED BY <1>1, <1>2 DEF RemoveActive

LEMMA StepFrame ==
    ASSUME FrameTyped, charts' \in Seq(ChartSpecs), [Next]_vars
    PROVE  FrameTyped'
<1>1. ASSUME UNCHANGED pending, RebuildPanes \/ UNCHANGED <<panels, active>>
      PROVE  FrameTyped'
  BY <1>1, RebuildTyped DEF FrameTyped
<1>2. CASE FirstTick \/ Pass \/ OnClearHistory \/ SetInterval
           \/ \E p \in Pids : Start(p) \/ Exit(p)
  BY <1>1, <1>2 DEF FirstTick, Pass, OnClearHistory, SetInterval, Start, Exit, frame
<1>3. CASE OnTimer \/ AddIface \/ AddNames
  BY <1>1, <1>3 DEF OnTimer, AddIface, AddNames, KeepPanes
<1>4. CASE OnToggle \/ OnToggleNetwork \/ AddDevice \/ AddAddr
  BY <1>1, <1>4 DEF OnToggle, OnToggleNetwork, AddDevice, AddAddr
<1>5. CASE OnRemoveCapture
  BY <1>5, RemoveTyped DEF OnRemoveCapture, FrameTyped
<1>6. CASE DeliverRemove
  <2>1. pending \in Seq(ChartIds) /\ Len(pending) <= 1 /\ pending # <<>>
    BY <1>6 DEF DeliverRemove, FrameTyped
  <2>2. Tail(pending) \in Seq(ChartIds) /\ Len(Tail(pending)) = Len(pending) - 1
    BY <2>1, HeadTailProperties
  <2>3. pending' \in Seq(ChartIds) /\ Len(pending') <= 1
    BY <1>6, <2>1, <2>2, LenProperties DEF DeliverRemove
  <2> QED BY <1>6, <2>3, RemoveTyped DEF DeliverRemove, FrameTyped
<1>7. CASE OnLeftDown
  <2>1. active' \in ChartIds
    BY <1>7, IdsTyped DEF OnLeftDown, FrameTyped
  <2> QED BY <1>7, <2>1 DEF OnLeftDown, FrameTyped
<1>8. CASE ContextRemove
  <2>1. PICK id \in Ids(panels) : active' = id /\ pending' = <<id>>
    BY <1>8 DEF ContextRemove
  <2>2. id \in ChartIds
    BY <2>1, IdsTyped DEF FrameTyped
  <2>3. pending' \in Seq(ChartIds) /\ Len(pending') <= 1
    BY <2>1, <2>2
  <2> QED BY <1>8, <2>1, <2>2, <2>3 DEF ContextRemove, FrameTyped
<1>9. CASE UNCHANGED vars
  BY <1>1, <1>9 DEF vars, frame
<1> QED
  BY <1>2, <1>3, <1>4, <1>5, <1>6, <1>7, <1>8, <1>9 DEF Next, Gesture

\* The numbers.
ClockTyped ==
    /\ now \in 0..MaxSession
    /\ wait \in 0..opt.interval
    /\ last \in -1..MaxSession
    /\ unscanned \in 0..(RescanPeriod + MaxSession)

\* A tick keeps them in range, but for the timer's.
LEMMA TickClock ==
    ASSUME ClockTyped, NEW t \in 0..MaxSession, tick(t), wait' \in 0..opt'.interval
    PROVE  ClockTyped'
<1>1. now' = t /\ last' \in {t, last} /\ unscanned' \in {0, unscanned}
  BY DEF tick
<1> QED BY <1>1, TimeAssumption DEF ClockTyped

LEMMA StepClock ==
    ASSUME GoodOptions(opt), ClockTyped, [Next]_vars
    PROVE  ClockTyped'
<1>0. /\ opt.interval \in Nat /\ opt'.interval \in Nat
      /\ RescanPeriod \in Nat /\ MaxSession \in Nat
  <2>1. opt.interval \in Intervals /\ opt'.interval \in Intervals
    BY StepOptions DEF GoodOptions, Options
  <2> QED BY <2>1, TimeAssumption
<1>1. CASE SetInterval
  <2>1. unscanned' \in 0..(RescanPeriod + MaxSession)
    BY <1>0, <1>1 DEF SetInterval, RestartTimer, ClockTyped, Most
  <2> QED BY <1>0, <1>1, <2>1 DEF SetInterval, RestartTimer, ClockTyped
<1>2. CASE ~SetInterval
  <2>0. opt'.interval = opt.interval
    BY <1>2, StepInterval
  <2>1. CASE FirstTick \/ OnClearHistory
    <3>1. tick(0) /\ 0 \in 0..MaxSession /\ wait' \in 0..opt'.interval
      BY <1>0, <2>0, <2>1 DEF FirstTick, OnClearHistory, ClockTyped
    <3> QED BY <3>1, TickClock
  <2>2. CASE OnTimer
    <3>1. tick(now) /\ now \in 0..MaxSession /\ wait' \in 0..opt'.interval
      BY <1>0, <2>2 DEF OnTimer, ClockTyped
    <3> QED BY <3>1, TickClock
  <2>3. CASE Pass
    <3>1. /\ now' \in 0..MaxSession /\ wait' \in 0..opt'.interval
          /\ last' \in -1..MaxSession
      BY <1>0, <2>0, <2>3 DEF Pass, ClockTyped, Least
    <3>2. unscanned' \in 0..(RescanPeriod + MaxSession)
      BY <1>0, <2>3 DEF Pass, ClockTyped, Least
    <3> QED BY <3>1, <3>2 DEF ClockTyped
  <2>4. CASE AddNames
    BY <1>0, <2>0, <2>4 DEF AddNames, clock, ClockTyped
  <2>5. CASE \/ OnToggle \/ OnToggleNetwork \/ AddDevice \/ AddAddr \/ AddIface
             \/ OnRemoveCapture \/ OnLeftDown \/ ContextRemove \/ DeliverRemove
             \/ UNCHANGED vars \/ \E p \in Pids : Start(p) \/ Exit(p)
    <3>1. UNCHANGED <<clock, scan>>
      BY <2>5
         DEF OnToggle, OnToggleNetwork, AddDevice, AddAddr, AddIface, OnRemoveCapture,
             OnLeftDown, ContextRemove, DeliverRemove, Start, Exit, vars
    <3> QED BY <2>0, <3>1 DEF clock, scan, ClockTyped
  <2> QED BY <1>2, <2>1, <2>2, <2>3, <2>4, <2>5 DEF Next, Gesture
<1> QED BY <1>1, <1>2

\* What is left.
RestTyped ==
    /\ running \in BOOLEAN /\ alive \subseteq Pids /\ seen \subseteq Pids
    /\ cleared \in BOOLEAN /\ gestures \in 0..MaxGestures

LEMMA StepRest ==
    ASSUME RestTyped, [Next]_vars
    PROVE  RestTyped'
<1>1. ASSUME NEW t, tick(t)
      PROVE  cleared' \in BOOLEAN /\ seen' \subseteq Pids
  BY <1>1 DEF tick, RestTyped
<1>2. CASE FirstTick \/ OnTimer \/ OnClearHistory
  BY <1>1, <1>2 DEF FirstTick, OnTimer, OnClearHistory, RestTyped
<1>3. CASE Pass \/ DeliverRemove \/ SetInterval
  BY <1>3 DEF Pass, DeliverRemove, SetInterval, scan, RestTyped
<1>4. ASSUME UserTurn, UNCHANGED <<running, alive, cleared>>, seen' \subseteq Pids
      PROVE  RestTyped'
  BY <1>4, TimeAssumption DEF UserTurn, RestTyped
<1>5. CASE \/ OnToggle \/ OnToggleNetwork \/ AddDevice \/ AddAddr \/ AddIface
           \/ AddNames \/ OnRemoveCapture \/ OnLeftDown \/ ContextRemove
  BY <1>4, <1>5
     DEF OnToggle, OnToggleNetwork, AddDevice, AddAddr, AddIface, AddNames,
         OnRemoveCapture, OnLeftDown, ContextRemove, scan, RestTyped
<1>6. CASE \E p \in Pids : Start(p) \/ Exit(p)
  BY <1>6 DEF Start, Exit, scan, RestTyped
<1>7. CASE UNCHANGED vars
  BY <1>7 DEF vars, scan, RestTyped
<1> QED BY <1>2, <1>3, <1>5, <1>6, <1>7 DEF Next, Gesture

\* All together.
SessionInv ==
    /\ GoodOptions(opt) /\ TrackedOnce /\ ChartsCurrent
    /\ FrameTyped /\ ClockTyped /\ RestTyped

LEMMA CurrentTyped ==
    ASSUME GoodOptions(opt), TrackedOnce, ChartsCurrent
    PROVE  opt \in Options /\ tracked \in Processes /\ charts \in Seq(ChartSpecs)
<1>1. opt \in Options /\ tracked \in Processes
  BY DEF GoodOptions, TrackedOnce, Once
<1> QED BY <1>1, ChartsTyped DEF ChartsCurrent

LEMMA InitSession == Init => SessionInv
<1> SUFFICES ASSUME Init PROVE SessionInv
  OBVIOUS
<1>1. GoodOptions(opt) /\ TrackedOnce /\ ChartsCurrent
  BY InitTracked DEF Init, ChartsCurrent
<1>2. charts \in Seq(ChartSpecs)
  BY <1>1, CurrentTyped
<1>3. FrameTyped
  <2>1. pending \in Seq(ChartIds) /\ Len(pending) <= 1
    BY DEF Init
  <2> QED BY <1>2, <2>1, IdsTyped DEF Init, FrameTyped
<1>4. ClockTyped
  <2>1. opt.interval \in Intervals
    BY <1>1 DEF GoodOptions, Options
  <2>2. opt.interval \in Nat
    BY <2>1, TimeAssumption
  <2> QED BY <2>2, TimeAssumption DEF Init, ClockTyped
<1>5. RestTyped
  <2>1. 0 \in 0..MaxGestures
    BY TimeAssumption
  <2> QED BY <2>1 DEF Init, RestTyped
<1> QED BY <1>1, <1>3, <1>4, <1>5 DEF SessionInv

LEMMA StepSession == SessionInv /\ [Next]_vars => SessionInv'
<1> SUFFICES ASSUME SessionInv, [Next]_vars PROVE SessionInv'
  OBVIOUS
<1> USE DEF SessionInv
<1>1. GoodOptions(opt)' /\ TrackedOnce' /\ ChartsCurrent'
  BY StepOptions, StepOnce, StepChartsCurrent
<1>2. charts' \in Seq(ChartSpecs)
  <2>1. opt' \in Options /\ tracked' \in Processes
    BY <1>1 DEF GoodOptions, TrackedOnce, Once
  <2> QED BY <1>1, <2>1, ChartsTyped DEF ChartsCurrent
<1>3. FrameTyped' /\ ClockTyped' /\ RestTyped'
  BY <1>2, StepFrame, StepClock, StepRest
<1> QED BY <1>1, <1>3

\* A session of any length with any history of commands stays in range; above
\* all, no more than one remove event is ever queued.
THEOREM TypeCorrect == Spec => []TypeOK
<1>1. SessionInv => TypeOK
  BY CurrentTyped DEF SessionInv, TypeOK, FrameTyped, ClockTyped, RestTyped
<1> QED BY <1>1, InitSession, StepSession, PTL DEF Spec

\* What a scan finds is what the NAMEs select of what is alive.
LEMMA ScanSelects ==
    ASSUME NEW names \in Seq(Names), NEW p \in Pids
    PROVE  p \in Pid(resolve_names(names)) <=>
               p \in alive /\ \E name \in ToSet(names) : p \in ToSet(Matches[name])
BY ResolveNames DEF SelectedBy

\* Every step keeps to it: it scans, or leaves NAMEs, processes and what was alive
\* at the last scan as they are, or there is no NAME left, and so nothing tracked.
LEMMA StepTracksSelected ==
    ASSUME SessionInv, TracksSelected, [Next]_vars
    PROVE  TracksSelected'
<1>1. SessionInv'
  BY StepSession
<1>2. opt'.names \in Seq(Names) /\ TrackedOnce'
  BY <1>1 DEF SessionInv, GoodOptions, Options
<1>3. CASE opt'.names = <<>>
  <2>1. ToSet(opt'.names) = {}
    BY <1>3, NothingOnce
  <2>2. Pid(tracked)' = {}
    BY <1>2, <2>1 DEF TrackedOnce, Once, Pid
  <2> QED BY <2>1, <2>2 DEF TracksSelected
<1>4. CASE seen' = alive /\ tracked' = resolve_names(opt'.names)
  BY <1>2, <1>4, ScanSelects DEF TracksSelected
<1>5. CASE opt'.names = opt.names /\ UNCHANGED <<tracked, seen>>
  BY <1>5 DEF TracksSelected
<1> QED
  BY <1>3, <1>4, <1>5, StepTracked DEF SessionInv, Scanned, Unscanned

\* At any time, whatever the user has added, removed or cleared, what is tracked is
\* what the NAMEs of the session select of what was alive at the last scan: every one
\* of those processes, and no other.
THEOREM ScanTracks == Spec => []TracksSelected
<1>1. Init => TracksSelected
  <2> SUFFICES ASSUME Init PROVE TracksSelected
    OBVIOUS
  <2>1. opt.names \in Seq(Names)
    BY InitTracked DEF GoodOptions, Options
  <2> QED BY <2>1, ScanSelects DEF Init, TracksSelected
<1>2. SessionInv /\ TracksSelected /\ [Next]_vars => TracksSelected'
  BY StepTracksSelected
<1> QED BY <1>1, <1>2, InitSession, StepSession, PTL DEF Spec

=============================================================================
