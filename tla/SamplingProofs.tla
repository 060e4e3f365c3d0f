--------------------------- MODULE SamplingProofs ----------------------------
(* What holds of the counters of devices, interfaces and addresses, for any  *)
(* names and lists, any limit of a series and any length of a session:       *)
(* nothing is charted twice or lost, series are in order of their times, and *)
(* logs tell what charts tell, with one line for each interval.              *)
EXTENDS Sampling, Recursion, FiniteSetTheorems, SequenceTheorems

-----------------------------------------------------------------------------
(* The invariant. *)

Places  == Ifaces \cup {Remote}
Counter == Nat \cup {None}
Point   == [t : 0..MaxTicks, v : Nat]

Types ==
    /\ watch \in Watch /\ ifaces \in Seq(Ifaces)
    /\ addr_to_iface \in [Addrs -> Places] /\ place \in [Addrs -> Places]
    /\ kernel \in [Sources -> Counter] /\ grown \in [Sources -> Nat]
    /\ prev \in [Sources -> Counter]
    /\ have_prev \in BOOLEAN /\ have_deltas \in BOOLEAN
    /\ series \subseteq Sources
    /\ now \in 0..MaxTicks \cup {None}
    /\ files \subseteq Sources \ unwritable
    /\ charted \in [Sources -> Nat] /\ logged \in [Sources -> Nat]

\* A series in the order of its times, none later than t.
InTime(p, t) ==
    /\ \A i \in DOMAIN p : 0 < p[i].t /\ p[i].t <= t
    /\ \A i, j \in DOMAIN p : i < j => p[i].t < p[j].t \/ (p[i].t = p[j].t /\ p[j].v = 0)

\* All series are, and there are none before the first sample.
SeriesGood ==
    /\ points \in [Sources -> Seq(Point)]
    /\ \A name \in Sources : /\ Len(points[name]) <= SessionMax
                             /\ InTime(points[name], now)
                             /\ now = None => points[name] = <<>>
    /\ now = None <=> ~have_prev

\* What the next sample would add to a chart.
Owed(name) == IF prev[name] = None THEN 0 ELSE delta_u64(Reading(name), prev[name])

\* With it, no more is charted than has grown.
Covered ==
    \A name \in Sources :
        /\ prev[name] = None => charted[name] = 0
        /\ name \notin moved => charted[name] + Owed(name) <= Grown(name)

\* Logs and charts; only a log that is open has lines.
LogsGood ==
    \A name \in Sources :
        /\ name \notin files => logged[name] = 0
        /\ name \notin unwritable =>
              IF name \in Ifaces THEN charted[name] <= logged[name]
              ELSE charted[name] = logged[name]

\* What is listed has a series; no interface is listed twice unless it was asked for
\* twice.
ListsGood ==
    /\ ToSet(watch.devices) \subseteq series /\ ToSet(watch.addrs) \subseteq series
    /\ watch.monitor /\ watch.all => IsInjective(ifaces)
    /\ watch.monitor /\ ~watch.all => ifaces = watch.ifaces

IInv == Types /\ SeriesGood /\ Covered /\ LogsGood /\ ListsGood /\ odd = {}

-----------------------------------------------------------------------------
(* Lists. *)

\* A name occurs in a list as often as it has places.
LEMMA TimesFacts ==
    ASSUME NEW S, NEW list \in Seq(S), NEW name
    PROVE  /\ Times(list, name) \in Nat
           /\ Times(list, name) > 0 => name \in ToSet(list)
           /\ IsInjective(list) /\ name \in ToSet(list) => Times(list, name) = 1
<1> DEFINE at == {i \in DOMAIN list : list[i] = name}
<1>1. DOMAIN list = 1..Len(list) /\ Len(list) \in Nat
  OBVIOUS
<1>2. IsFiniteSet(at)
  <2>1. IsFiniteSet(DOMAIN list)
    BY <1>1, FS_Interval
  <2> QED BY <2>1, FS_Subset
<1>3. Cardinality(at) \in Nat /\ (Cardinality(at) = 0 <=> at = {})
  BY <1>2, FS_CardinalityType, FS_EmptySet
<1>4. Cardinality(at) > 0 => name \in ToSet(list)
  BY <1>3 DEF ToSet
<1>5. ASSUME IsInjective(list), name \in ToSet(list) PROVE Cardinality(at) = 1
  <2>1. PICK i \in DOMAIN list : list[i] = name
    BY <1>5 DEF ToSet
  <2>2. at = {i}
    BY <1>5, <2>1 DEF IsInjective
  <2> QED BY <2>2, FS_Singleton
<1> QED BY <1>3, <1>4, <1>5 DEF Times

\* A list of all interfaces names each of them once.
LEMMA AllListed ==
    list_net_ifaces \in Seq(Ifaces) /\ IsInjective(list_net_ifaces)
<1> DEFINE there == {i \in Ifaces : kernel[i] # None}
           maps  == [1..Cardinality(there) -> there]
<1>1. IsFiniteSet(there)
  <2>1. there \subseteq Sources
    BY DEF Sources
  <2> QED BY <2>1, NameAssumption, FS_Subset
<1>2. Cardinality(there) \in Nat /\ ExistsBijection(1..Cardinality(there), there)
  BY <1>1, FS_CardinalityType
<1>3. \E f \in maps : IsInjective(f)
  BY <1>2 DEF ExistsBijection, Bijection, Injection
<1>4. list_net_ifaces \in maps /\ IsInjective(list_net_ifaces)
  <2>1. list_net_ifaces = CHOOSE f \in maps : IsInjective(f)
    BY DEF list_net_ifaces, SetToSeq
  <2> HIDE DEF maps
  <2> QED BY <1>3, <2>1
<1>5. ASSUME NEW f \in maps PROVE f \in Seq(Ifaces)
  <2>1. f \in [1..Cardinality(there) -> Ifaces]
    OBVIOUS
  <2> HIDE DEF there
  <2> QED BY <1>2, <2>1
<1> QED BY <1>4, <1>5

\* What the charts are rebuilt from.
LEMMA ResolvedGood ==
    ASSUME NEW w \in Watch
    PROVE  /\ resolve_ifaces(w) \in Seq(Ifaces)
           /\ w.monitor /\ w.all => IsInjective(resolve_ifaces(w))
           /\ w.monitor /\ ~w.all => resolve_ifaces(w) = w.ifaces
<1>1. w.monitor \in BOOLEAN /\ w.all \in BOOLEAN /\ w.ifaces \in Seq(Ifaces)
  BY DEF Watch
<1>2. <<>> \in Seq(Ifaces)
  OBVIOUS
<1> QED BY <1>1, <1>2, AllListed DEF resolve_ifaces

\* And which series that leaves.
LEMMA SeriesListed ==
    ASSUME series \subseteq Sources, NEW w \in Watch, NEW list \in Seq(Ifaces)
    PROVE  /\ ensure_series(w, list) \subseteq Sources
           /\ ToSet(w.devices) \subseteq ensure_series(w, list)
           /\ ToSet(w.addrs) \subseteq ensure_series(w, list)
<1>1. ToSet(w.devices) \subseteq Devices /\ ToSet(w.addrs) \subseteq Addrs
  <2>1. w.devices \in Seq(Devices) /\ w.addrs \in Seq(Addrs)
    BY DEF Watch
  <2> QED BY <2>1 DEF ToSet
<1>2. ToSet(list) \subseteq Ifaces
  BY DEF ToSet
<1> QED BY <1>1, <1>2 DEF ensure_series, Sources

-----------------------------------------------------------------------------
(* Readings and points. *)

\* What is read, and where.
LEMMA ReadTypes ==
    ASSUME Types, NEW name \in Sources
    PROVE  /\ ReadAt(name) \in Sources /\ Reading(name) \in Counter /\ Grown(name) \in Nat
           /\ name \notin Addrs => Reading(name) = kernel[name]
<1>1. ReadAt(name) \in Sources
  BY DEF ReadAt, Types, Sources, Places
<1> QED BY <1>1 DEF Types, Reading, Grown, ReadAt

\* A growth is a natural number.
LEMMA DeltaNat ==
    ASSUME NEW new \in Counter, NEW old \in Nat
    PROVE  delta_u64(new, old) \in Nat
BY DEF delta_u64, Counter, None

\* The growths of n samples: what is owed first, and then nothing.
LEMMA GrowthsFacts ==
    ASSUME Types, NEW name \in Sources, NEW n \in Nat
    PROVE  LET g == Growths(name, n)
           IN  /\ g \in Seq(Nat)
               /\ \A k \in DOMAIN g : k > 1 => g[k] = 0
               /\ g # <<>> => n > 0 /\ Reading(name) # None
               /\ Added(g) = IF n > 0 /\ Reading(name) # None THEN Owed(name) ELSE 0
               /\ Added(g) \in Nat
<1> DEFINE g     == Growths(name, n)
           first == delta_u64(Reading(name), prev[name])
           fresh == IF prev[name] = None THEN 0 ELSE 1
<1>1. Reading(name) \in Counter /\ prev[name] \in Counter
  BY ReadTypes DEF Types
<1>2. prev[name] # None => first \in Nat
  BY <1>1, DeltaNat DEF Counter
<1>3. CASE Reading(name) = None \/ n = 0
  <2>1. g = <<>>
    BY <1>3 DEF Growths
  <2> QED BY <1>3, <2>1 DEF Added
<1>4. CASE Reading(name) # None /\ n > 0
  <2>1. g = [k \in 1..(n - 1 + fresh) |-> IF k = 1 /\ fresh = 1 THEN first ELSE 0]
    BY <1>4 DEF Growths
  <2>2. fresh \in {0, 1} /\ (fresh = 1 <=> prev[name] # None)
    OBVIOUS
  <2> HIDE DEF g, first, fresh
  <2>3. n - 1 + fresh \in Nat
    BY <1>4, <2>2
  <2>4. g \in [1..(n - 1 + fresh) -> Nat]
    BY <1>2, <2>1, <2>2
  <2>5. g \in Seq(Nat) /\ DOMAIN g = 1..(n - 1 + fresh)
    BY <2>3, <2>4
  <2>6. \A k \in DOMAIN g : k > 1 => g[k] = 0
    BY <2>1, <2>5
  <2>7. CASE fresh = 1
    <3>1. g[1] = first /\ g # <<>>
      BY <1>4, <2>1, <2>5, <2>7
    <3> QED BY <1>2, <1>4, <2>2, <2>5, <2>6, <2>7, <3>1 DEF Added, Owed, first, g
  <2>8. CASE fresh = 0
    <3>1. g # <<>> => g[1] = 0
      BY <2>1, <2>5, <2>8
    <3> QED BY <1>4, <2>2, <2>5, <2>6, <2>8, <3>1 DEF Added, Owed, g
  <2> QED BY <2>2, <2>7, <2>8
<1> QED BY <1>3, <1>4

\* Points of one time after points of earlier ones: the series stays in order and
\* within its limit.
LEMMA PushGood ==
    ASSUME NEW old \in Seq(Point), Len(old) <= SessionMax, NEW t \in 0..MaxTicks,
           NEW values \in Seq(Nat), \A k \in DOMAIN values : k > 1 => values[k] = 0,
           values # <<>> => t > 0, InTime(old, t), \A i \in DOMAIN old : old[i].t < t
    PROVE  LET p == push_point(old, t, values)
           IN  p \in Seq(Point) /\ Len(p) <= SessionMax /\ InTime(p, t)
<1> DEFINE new  == [k \in DOMAIN values |-> [t |-> t, v |-> values[k]]]
           all  == old \o new
           over == Len(all) - SessionMax
           p    == push_point(old, t, values)
<1> HIDE DEF all, over, p
<1>1. new \in Seq(Point) /\ Len(new) = Len(values) /\ DOMAIN values = 1..Len(values)
  <2>1. DOMAIN values = 1..Len(values) /\ Len(values) \in Nat
    OBVIOUS
  <2>2. new \in [1..Len(values) -> Point]
    BY <2>1 DEF Point
  <2>3. \A m \in Nat : \A f \in [1..m -> Point] : f \in Seq(Point) /\ Len(f) = m
    OBVIOUS
  <2> QED BY <2>1, <2>2, <2>3
<1>2. \A k \in 1..Len(new) : new[k].t = t /\ (k > 1 => new[k].v = 0) /\ t > 0
  <2> TAKE k \in 1..Len(new)
  <2>1. k \in DOMAIN values /\ values # <<>>
    BY <1>1
  <2>2. new[k] = [t |-> t, v |-> values[k]]
    BY <2>1
  <2> QED BY <2>1, <2>2
<1> HIDE DEF new
<1>3. all \in Seq(Point) /\ Len(all) = Len(old) + Len(new)
      /\ Len(old) \in Nat /\ Len(new) \in Nat
  <2>1. \A a, b \in Seq(Point) : /\ a \o b \in Seq(Point)
                                 /\ Len(a \o b) = Len(a) + Len(b) /\ Len(a) \in Nat
    OBVIOUS
  <2> QED BY <1>1, <2>1 DEF all
<1>4. \A i \in 1..Len(all) : all[i] = IF i <= Len(old) THEN old[i] ELSE new[i - Len(old)]
  BY <1>1, <1>3 DEF all
<1>5. \A i \in 1..Len(old) : old[i].t \in Int /\ 0 < old[i].t /\ old[i].t < t
  <2> TAKE i \in 1..Len(old)
  <2>1. i \in DOMAIN old /\ old[i] \in Point
    OBVIOUS
  <2> QED BY <2>1 DEF InTime, Point
<1>6. \A i, j \in 1..Len(old) :
         i < j => old[i].t < old[j].t \/ (old[i].t = old[j].t /\ old[j].v = 0)
  BY DEF InTime
<1>7. \A i \in 1..Len(all) : 0 < all[i].t /\ all[i].t <= t
  <2> TAKE i \in 1..Len(all)
  <2>1. CASE i <= Len(old)
    <3>1. all[i] = old[i] /\ i \in 1..Len(old)
      BY <1>3, <1>4, <2>1
    <3>2. t \in Int
      BY BoundAssumption
    <3> QED BY <1>5, <3>1, <3>2
  <2>2. CASE ~(i <= Len(old))
    <3>1. all[i] = new[i - Len(old)] /\ i - Len(old) \in 1..Len(new)
      BY <1>3, <1>4, <2>2
    <3> QED BY <1>2, <3>1
  <2> QED BY <2>1, <2>2
<1>8. \A i, j \in 1..Len(all) :
         i < j => all[i].t < all[j].t \/ (all[i].t = all[j].t /\ all[j].v = 0)
  <2> SUFFICES ASSUME NEW i \in 1..Len(all), NEW j \in 1..Len(all), i < j
               PROVE  all[i].t < all[j].t \/ (all[i].t = all[j].t /\ all[j].v = 0)
    OBVIOUS
  <2>1. CASE j <= Len(old)
    <3>1. all[i] = old[i] /\ all[j] = old[j] /\ i \in 1..Len(old) /\ j \in 1..Len(old)
      BY <1>3, <1>4, <2>1
    <3> QED BY <1>6, <3>1
  <2>2. CASE ~(j <= Len(old)) /\ i <= Len(old)
    <3>1. all[i] = old[i] /\ i \in 1..Len(old)
      BY <1>3, <1>4, <2>2
    <3>2. all[j] = new[j - Len(old)] /\ j - Len(old) \in 1..Len(new)
      BY <1>3, <1>4, <2>2
    <3> QED BY <1>2, <1>5, <3>1, <3>2
  <2>3. CASE ~(i <= Len(old))
    <3>1. all[i] = new[i - Len(old)] /\ i - Len(old) \in 1..Len(new)
      BY <1>3, <1>4, <2>3
    <3>2. all[j] = new[j - Len(old)] /\ j - Len(old) \in 1..Len(new) /\ j - Len(old) > 1
      BY <1>3, <1>4, <2>3
    <3> QED BY <1>2, <3>1, <3>2
  <2> QED BY <2>1, <2>2, <2>3
<1>9. p = IF over > 0 THEN SubSeq(all, over + 1, Len(all)) ELSE all
  BY DEF push_point, p, over, all, new
<1>10. SessionMax \in Nat /\ SessionMax > 0
  BY BoundAssumption
<1>11. CASE over > 0
  <2>1. over \in Nat /\ over = Len(all) - SessionMax /\ p = SubSeq(all, over + 1, Len(all))
    BY <1>3, <1>9, <1>10, <1>11, SMTT(20) DEF over
  <2>2. p \in Seq(Point) /\ Len(p) = SessionMax
    BY <1>3, <1>10, <1>11, <2>1
  <2>3. \A i \in 1..Len(p) : p[i] = all[i + over] /\ i + over \in 1..Len(all)
    BY <1>3, <1>10, <1>11, <2>1, <2>2
  <2>4. DOMAIN p = 1..Len(p) /\ \A i, j \in 1..Len(p) : i < j => i + over < j + over
    <3>1. DOMAIN p = 1..Len(p) /\ Len(p) \in Nat
      BY <1>10, <2>2
    <3> QED BY <2>1, <3>1, SMTT(20)
  <2>5. \A i \in DOMAIN p : 0 < p[i].t /\ p[i].t <= t
    BY <1>7, <2>3, <2>4
  <2>6. \A i, j \in DOMAIN p : i < j => p[i].t < p[j].t \/ (p[i].t = p[j].t /\ p[j].v = 0)
    <3> TAKE i, j \in DOMAIN p
    <3>1. /\ i + over \in 1..Len(all) /\ p[i] = all[i + over]
          /\ j + over \in 1..Len(all) /\ p[j] = all[j + over]
          /\ i < j => i + over < j + over
      BY <2>3, <2>4
    <3> QED BY <1>8, <3>1
  <2> QED BY <1>10, <2>2, <2>5, <2>6 DEF InTime, p
<1>12. CASE ~(over > 0)
  <2>1. p = all /\ Len(all) <= SessionMax /\ DOMAIN all = 1..Len(all)
    BY <1>3, <1>9, <1>10, <1>12 DEF over
  <2> QED BY <1>3, <1>7, <1>8, <2>1 DEF InTime, p
<1> QED BY <1>11, <1>12

-----------------------------------------------------------------------------
(* A sample, and the parts of it that Sample names. *)

ListOf(from) == IF NetworkOn(watch) /\ watch.all /\ from.ifaces = <<>>
                THEN resolve_ifaces(watch) ELSE from.ifaces
Counts(from) == [name \in Sources |-> Occurrences(name, ListOf(from))]
Growing(from) == [name \in Sources |->
                     IF from.emit THEN Growths(name, Counts(from)[name]) ELSE <<>>]
Shown(from)  == [name \in Sources |->
                    IF name \in from.series THEN Growing(from)[name] ELSE <<>>]

\* What a sample at time t may start from: at time 0 from nothing, later from the
\* sample before.
Ready(t, from) ==
    /\ t \in 0..MaxTicks
    /\ from.emit \in BOOLEAN /\ from.have_deltas \in BOOLEAN
    /\ from.ifaces \in Seq(Ifaces)
    /\ watch.monitor /\ watch.all => IsInjective(from.ifaces)
    /\ watch.monitor /\ ~watch.all => from.ifaces = watch.ifaces
    /\ from.series \subseteq Sources
    /\ ToSet(watch.devices) \subseteq from.series /\ ToSet(watch.addrs) \subseteq from.series
    /\ from.points \in [Sources -> Seq(Point)]
    /\ \A name \in Sources : /\ Len(from.points[name]) <= SessionMax
                             /\ InTime(from.points[name], t)
                             /\ \A i \in DOMAIN from.points[name] : from.points[name][i].t < t
    /\ t > 0 <=> from.emit

\* The list of interfaces that a sample uses.
LEMMA ListGood ==
    ASSUME Types, NEW t, NEW from, Ready(t, from)
    PROVE  /\ ListOf(from) \in Seq(Ifaces)
           /\ watch.monitor /\ watch.all => IsInjective(ListOf(from))
           /\ watch.monitor /\ ~watch.all => ListOf(from) = watch.ifaces
BY ResolvedGood DEF ListOf, Ready, Types

\* How often each name is sampled; devices and addresses only where listed.
LEMMA CountsFacts ==
    ASSUME Types, NEW t, NEW from, Ready(t, from), NEW name \in Sources
    PROVE  /\ Counts(from)[name] \in Nat
           /\ name \notin Ifaces /\ Counts(from)[name] > 0 => name \in from.series
<1> DEFINE n == Counts(from)[name]
<1>1. /\ watch.devices \in Seq(Devices) /\ watch.addrs \in Seq(Addrs)
      /\ ListOf(from) \in Seq(Ifaces)
  BY ListGood DEF Types, Watch
<1>2. n = Occurrences(name, ListOf(from))
  BY DEF Counts
<1>3. CASE name \in Devices
  <2>1. n = Times(watch.devices, name)
    BY <1>2, <1>3, NameAssumption DEF Occurrences
  <2> QED BY <1>1, <2>1, TimesFacts DEF Ready
<1>4. CASE name \in Ifaces
  <2>1. n = Times(ListOf(from), name) \/ n = 0
    BY <1>2, <1>4, NameAssumption DEF Occurrences
  <2> QED BY <1>1, <1>4, <2>1, TimesFacts
<1>5. CASE name \in Addrs
  <2>1. n = Times(watch.addrs, name)
    BY <1>2, <1>5, NameAssumption DEF Occurrences
  <2> QED BY <1>1, <2>1, TimesFacts DEF Ready
<1> QED BY <1>3, <1>4, <1>5 DEF Sources

\* What is asked for once, and is there, is sampled once.
LEMMA AskedOnce ==
    ASSUME Types, NEW t, NEW from, Ready(t, from), ifaces' = ListOf(from),
           NEW name \in Sources, Asked(name)
    PROVE  Counts(from)[name] = 1 /\ Lines(name, 1) = 1
<1> DEFINE n == Counts(from)[name]
<1>1. n = Occurrences(name, ListOf(from))
  BY DEF Counts
<1>2. CASE name \in Devices
  <2>1. n = 1 /\ kernel[name] # None
    BY <1>1, <1>2, NameAssumption DEF Occurrences, Asked
  <2>2. name \notin Addrs
    BY <1>2, NameAssumption
  <2> QED BY <2>1, <2>2, ReadTypes DEF Lines
<1>3. CASE name \in Addrs
  BY <1>1, <1>3, NameAssumption DEF Occurrences, Asked, Lines
<1>4. CASE name \in Ifaces
  <2>1. name \notin Devices /\ name \notin Addrs
    BY <1>4, NameAssumption
  <2>2. /\ watch.monitor /\ kernel[name] # None
        /\ IF watch.all THEN name \in ToSet(ListOf(from)) ELSE Times(watch.ifaces, name) = 1
    BY <1>4, <2>1 DEF Asked
  <2>3. Lines(name, 1) = 1
    BY <2>1, <2>2, ReadTypes DEF Lines
  <2>4. NetworkOn(watch) => n = Times(ListOf(from), name)
    BY <1>1, <1>4, <2>1 DEF Occurrences
  <2>5. CASE watch.all
    BY <2>2, <2>3, <2>4, <2>5, ListGood, TimesFacts DEF NetworkOn
  <2>6. CASE ~watch.all
    <3>1. watch.ifaces \in Seq(Ifaces)
      BY DEF Types, Watch
    <3>2. name \in ToSet(watch.ifaces)
      BY <2>2, <2>6, <3>1, TimesFacts
    <3>3. watch.ifaces # <<>>
      BY <3>2 DEF ToSet
    <3> QED BY <2>2, <2>3, <2>4, <2>6, <3>3, ListGood DEF NetworkOn
  <2> QED BY <2>5, <2>6
<1> QED BY <1>2, <1>3, <1>4 DEF Sources

\* The growths of a sample: none without a sample before, none of what cannot be read.
LEMMA GrowingFacts ==
    ASSUME Types, NEW t, NEW from, Ready(t, from), NEW name \in Sources
    PROVE  LET n == Counts(from)[name]
               g == Growing(from)[name]
           IN  /\ g \in Seq(Nat) /\ \A k \in DOMAIN g : k > 1 => g[k] = 0
               /\ g # <<>> => t > 0 /\ n > 0 /\ Reading(name) # None
               /\ Added(g) \in Nat
               /\ Added(g) = IF from.emit /\ n > 0 /\ Reading(name) # None
                             THEN Owed(name) ELSE 0
               /\ Added(Shown(from)[name]) \in {0, Added(g)}
               /\ Shown(from)[name] \in {<<>>, g}
               /\ name \notin Ifaces => Added(Shown(from)[name]) = Added(g)
<1> DEFINE n == Counts(from)[name]
           g == Growing(from)[name]
<1>1. n \in Nat /\ (name \notin Ifaces /\ n > 0 => name \in from.series)
  BY CountsFacts
<1>2. g = IF from.emit THEN Growths(name, n) ELSE <<>>
  BY DEF Growing
<1>3. Shown(from)[name] = IF name \in from.series THEN g ELSE <<>>
  BY DEF Shown
<1>4. Added(<<>>) = 0 /\ <<>> \in Seq(Nat) /\ DOMAIN <<>> = {}
  BY DEF Added
<1>5. from.emit \in BOOLEAN /\ (t > 0 <=> from.emit)
  BY DEF Ready
<1> HIDE DEF n, g
<1>6. /\ g \in Seq(Nat) /\ \A k \in DOMAIN g : k > 1 => g[k] = 0
      /\ g # <<>> => t > 0 /\ n > 0 /\ Reading(name) # None
      /\ Added(g) \in Nat
      /\ Added(g) = IF from.emit /\ n > 0 /\ Reading(name) # None THEN Owed(name) ELSE 0
  <2>1. CASE from.emit
    BY <1>1, <1>2, <1>5, <2>1, GrowthsFacts
  <2>2. CASE ~from.emit
    BY <1>2, <1>4, <2>2
  <2> QED BY <2>1, <2>2
<1>7. /\ Shown(from)[name] \in {<<>>, g} /\ Added(Shown(from)[name]) \in {0, Added(g)}
      /\ name \notin Ifaces => Added(Shown(from)[name]) = Added(g)
  <2>1. name \notin Ifaces /\ name \notin from.series => Added(g) = 0
    BY <1>1, <1>6
  <2> QED BY <1>3, <1>4, <2>1
<1> QED BY <1>6, <1>7 DEF n, g

-----------------------------------------------------------------------------
(* A sample keeps the invariant. *)

\* What a sample assigns, its parts by name.
Assigns(t, from) ==
    /\ now' = t /\ ifaces' = ListOf(from) /\ series' = from.series
    /\ points' = [name \in Sources |->
                     push_point(from.points[name], t, Shown(from)[name])]
    /\ prev' = [name \in Sources |->
                   IF Counts(from)[name] > 0 /\ Reading(name) # None
                   THEN Reading(name) ELSE prev[name]]
    /\ have_prev' = TRUE /\ have_deltas' = (from.have_deltas \/ from.emit)
    /\ charted' = [name \in Sources |-> charted[name] + Added(Shown(from)[name])]
    /\ IF t > 0 /\ have_deltas'
       THEN write_sample([name \in Sources |-> Lines(name, Counts(from)[name])],
                         [name \in Sources |-> Added(Growing(from)[name])])
       ELSE UNCHANGED logs

LEMMA SampleAssigns ==
    ASSUME NEW t, NEW from, Sample(t, from)
    PROVE  Assigns(t, from)
BY DEF Sample, Assigns, ListOf, Counts, Growing, Shown

\* Series.
LEMMA SampleSeries ==
    ASSUME Types, NEW t, NEW from, Ready(t, from), Assigns(t, from)
    PROVE  SeriesGood'
<1>1. t \in 0..MaxTicks /\ t # None
  BY BoundAssumption DEF Ready, None
<1>2. ASSUME NEW name \in Sources
      PROVE  /\ points'[name] \in Seq(Point) /\ Len(points'[name]) <= SessionMax
             /\ InTime(points'[name], t)
  <2>1. points'[name] = push_point(from.points[name], t, Shown(from)[name])
    BY DEF Assigns
  <2>2. /\ from.points[name] \in Seq(Point) /\ Len(from.points[name]) <= SessionMax
        /\ InTime(from.points[name], t)
        /\ \A i \in DOMAIN from.points[name] : from.points[name][i].t < t
    BY DEF Ready
  <2>3. /\ Shown(from)[name] \in Seq(Nat)
        /\ \A k \in DOMAIN Shown(from)[name] : k > 1 => Shown(from)[name][k] = 0
        /\ Shown(from)[name] # <<>> => t > 0
    <3>1. <<>> \in Seq(Nat) /\ DOMAIN <<>> = {}
      OBVIOUS
    <3>2. /\ Growing(from)[name] \in Seq(Nat)
          /\ \A k \in DOMAIN Growing(from)[name] : k > 1 => Growing(from)[name][k] = 0
          /\ Growing(from)[name] # <<>> => t > 0
          /\ Shown(from)[name] \in {<<>>, Growing(from)[name]}
      BY GrowingFacts
    <3> QED BY <3>1, <3>2
  <2> QED BY <1>1, <2>1, <2>2, <2>3, PushGood
<1>3. points' \in [Sources -> Seq(Point)]
  <2>1. DOMAIN points' = Sources
        /\ points' = [name \in Sources |-> push_point(from.points[name], t, Shown(from)[name])]
    BY DEF Assigns
  <2> QED BY <1>2, <2>1
<1>4. now' = t /\ have_prev' = TRUE
  BY DEF Assigns
<1> QED BY <1>1, <1>2, <1>3, <1>4 DEF SeriesGood

\* Charts and readings.
LEMMA SampleCovered ==
    ASSUME Types, Covered, NEW t, NEW from, Ready(t, from), Assigns(t, from),
           UNCHANGED <<addr_to_iface, kernel, grown, moved>>
    PROVE  /\ prev' \in [Sources -> Counter] /\ charted' \in [Sources -> Nat]
           /\ Covered'
<1>1. ASSUME NEW name \in Sources
      PROVE  /\ prev'[name] \in Counter /\ charted'[name] \in Nat
             /\ prev'[name] = None => charted'[name] = 0
             /\ name \notin moved => charted'[name] + Owed(name)' <= Grown(name)
  <2> DEFINE n   == Counts(from)[name]
             add == Added(Shown(from)[name])
  <2>1. charted'[name] = charted[name] + add
        /\ prev'[name] = IF n > 0 /\ Reading(name) # None THEN Reading(name) ELSE prev[name]
    BY DEF Assigns
  <2>2. /\ charted[name] \in Nat /\ prev[name] \in Counter /\ Reading(name) \in Counter
        /\ Grown(name) \in Nat
    BY ReadTypes DEF Types
  <2>3. add \in Nat /\ (add = 0 \/ (n > 0 /\ Reading(name) # None /\ add = Owed(name)))
    BY GrowingFacts
  <2>4. Reading(name)' = Reading(name)
    BY DEF Reading, ReadAt
  <2>5. Owed(name) \in Nat /\ (prev[name] = None => Owed(name) = 0)
    BY <2>2, DeltaNat DEF Owed, Counter
  <2>6. Owed(name)' = IF prev'[name] = None THEN 0 ELSE delta_u64(Reading(name), prev'[name])
    BY <2>4 DEF Owed
  <2> HIDE DEF n, add
  <2>7. CASE n > 0 /\ Reading(name) # None
    <3>1. prev'[name] = Reading(name) /\ Owed(name)' = 0
      BY <2>1, <2>2, <2>6, <2>7 DEF delta_u64, Counter, None
    <3> QED BY <2>1, <2>2, <2>3, <2>5, <2>7, <3>1 DEF Covered
  <2>8. CASE ~(n > 0 /\ Reading(name) # None)
    <3>1. prev'[name] = prev[name] /\ Owed(name)' = Owed(name) /\ add = 0
      BY <2>1, <2>3, <2>6, <2>8 DEF Owed
    <3> QED BY <2>1, <2>2, <2>3, <3>1 DEF Covered
  <2> QED BY <2>7, <2>8
<1>2. DOMAIN prev' = Sources /\ DOMAIN charted' = Sources
  BY DEF Assigns
<1>3. prev' \in [Sources -> Counter] /\ charted' \in [Sources -> Nat]
  <2>1. prev' = [name \in Sources |-> prev'[name]]
        /\ charted' = [name \in Sources |-> charted'[name]]
    BY DEF Assigns
  <2> QED BY <1>1, <2>1
<1>4. \A name \in Sources : Grown(name)' = Grown(name)
  BY DEF Grown, ReadAt
<1> QED BY <1>1, <1>3, <1>4 DEF Covered

\* Logs.
LEMMA SampleLogs ==
    ASSUME IInv, NEW t, NEW from, Ready(t, from), Assigns(t, from), UNCHANGED unwritable
    PROVE  /\ logged' \in [Sources -> Nat] /\ files' \subseteq Sources \ unwritable
           /\ LogsGood' /\ odd' = {}
<1> USE DEF IInv
<1>1. \A name \in Sources : /\ charted[name] \in Nat /\ logged[name] \in Nat
                            /\ charted'[name] = charted[name] + Added(Shown(from)[name])
  BY DEF Assigns, Types
<1>2. CASE t = 0
  <2>1. files' = files /\ logged' = logged /\ odd' = odd
    BY <1>2 DEF Assigns, logs
  <2>2. \A name \in Sources : charted'[name] = charted[name]
    <3> TAKE name \in Sources
    <3>1. Added(Shown(from)[name]) = 0
      <4>1. ~from.emit
        BY <1>2 DEF Ready
      <4> QED BY <4>1, GrowingFacts
    <3> QED BY <1>1, <3>1
  <2> QED BY <2>1, <2>2 DEF LogsGood, Types
<1>3. CASE t # 0
  <2> DEFINE lines == [name \in Sources |-> Lines(name, Counts(from)[name])]
             added == [name \in Sources |-> Added(Growing(from)[name])]
  <2>1. write_sample(lines, added)
    <3>1. t > 0 /\ from.emit
      BY <1>3, BoundAssumption DEF Ready
    <3> QED BY <3>1 DEF Assigns
  <2>2. \A name \in Sources :
           /\ added[name] \in Nat
           /\ added[name] > 0 => lines[name] > 0
           /\ Added(Shown(from)[name]) \in {0, added[name]}
           /\ name \notin Ifaces => Added(Shown(from)[name]) = added[name]
    <3> TAKE name \in Sources
    <3>1. Growing(from)[name] # <<>> => lines[name] > 0
      BY GrowingFacts, CountsFacts DEF Lines
    <3>2. Added(<<>>) = 0
      BY DEF Added
    <3> QED BY <3>1, <3>2, GrowingFacts
  <2>3. \A name \in Sources : Asked(name) => lines[name] = 1
    BY AskedOnce DEF Assigns
  <2> HIDE DEF lines, added
  <2>4. /\ files' = files \cup {name \in Sources \ unwritable : open_log(name, lines[name])}
        /\ \A name \in Sources :
              logged'[name] =
                 IF name \notin files' THEN logged[name]
                 ELSE (IF open_log(name, lines[name]) THEN 0 ELSE logged[name]) + added[name]
        /\ odd' = odd \cup {name \in Sources \ unwritable : Asked(name) /\ lines[name] # 1}
        /\ logged' = [name \in Sources |-> logged'[name]]
    BY <2>1 DEF write_sample
  <2>5. ASSUME NEW name \in Sources
        PROVE  /\ logged'[name] \in Nat
               /\ name \notin files' => logged'[name] = 0
               /\ name \notin unwritable => logged'[name] = logged[name] + added[name]
    <3>1. name \notin files => logged[name] = 0
      BY DEF LogsGood
    <3>2. CASE name \notin files'
      <4>1. logged'[name] = logged[name] /\ name \notin files
        BY <2>4, <3>2
      <4>2. name \notin unwritable => ~open_log(name, lines[name])
        BY <2>4, <3>2
      <4>3. name \notin unwritable => added[name] = 0
        BY <2>2, <4>1, <4>2 DEF open_log
      <4> QED BY <1>1, <3>1, <4>1, <4>3
    <3>3. CASE name \in files' /\ open_log(name, lines[name])
      <4>1. logged'[name] = 0 + added[name] /\ name \notin files
        BY <2>4, <3>3 DEF open_log
      <4> QED BY <2>2, <3>1, <3>3, <4>1
    <3>4. CASE name \in files' /\ ~open_log(name, lines[name])
      <4>1. logged'[name] = logged[name] + added[name]
        BY <2>4, <3>4
      <4> QED BY <1>1, <2>2, <3>4, <4>1
    <3> QED BY <3>2, <3>3, <3>4
  <2>6. odd' = {}
    BY <2>3, <2>4
  <2>7. files' \subseteq Sources \ unwritable
    BY <2>4 DEF Types
  <2>8. logged' \in [Sources -> Nat]
    BY <2>4, <2>5
  <2>9. ASSUME NEW name \in Sources, name \notin unwritable
        PROVE  IF name \in Ifaces THEN charted'[name] <= logged'[name]
               ELSE charted'[name] = logged'[name]
    BY <1>1, <2>2, <2>5, <2>9 DEF LogsGood
  <2> QED BY <2>5, <2>6, <2>7, <2>8, <2>9 DEF LogsGood
<1> QED BY <1>2, <1>3

\* All of it.
LEMMA SampleStep ==
    ASSUME IInv, NEW t, NEW from, Ready(t, from), Sample(t, from),
           UNCHANGED <<watch, addr_to_iface, machine, moved>>
    PROVE  IInv'
<1>1. Assigns(t, from) /\ Types /\ Covered
  BY SampleAssigns DEF IInv
<1>2. SeriesGood'
  BY <1>1, SampleSeries
<1>3. UNCHANGED <<addr_to_iface, kernel, grown, moved>> /\ UNCHANGED unwritable
  BY DEF machine
<1>4. prev' \in [Sources -> Counter] /\ charted' \in [Sources -> Nat] /\ Covered'
  BY <1>1, <1>3, SampleCovered
<1>5. /\ logged' \in [Sources -> Nat] /\ files' \subseteq Sources \ unwritable
      /\ LogsGood' /\ odd' = {}
  BY <1>1, <1>3, SampleLogs
<1>6. ifaces' = ListOf(from) /\ series' = from.series
  BY <1>1 DEF Assigns
<1>7. ListsGood'
  BY <1>1, <1>6, ListGood DEF ListsGood, Ready
<1>8. Types'
  <2>1. now' = t /\ have_prev' = TRUE /\ have_deltas' \in BOOLEAN
    BY <1>1 DEF Assigns, Ready
  <2>2. ifaces' \in Seq(Ifaces)
    BY <1>1, <1>6, ListGood
  <2> QED BY <1>1, <1>4, <1>5, <1>6, <2>1, <2>2 DEF Types, Ready, machine
<1> QED BY <1>2, <1>4, <1>5, <1>7, <1>8 DEF IInv

\* A tick, with or without a scan.
LEMMA TickStep ==
    ASSUME IInv, NEW t, NEW from, Ready(t, from), tick(t, from),
           UNCHANGED <<watch, addr_to_iface, machine, moved>>,
           DOMAIN from = {"emit", "have_deltas", "points", "ifaces", "series", "steady"}
    PROVE  IInv'
<1> DEFINE list == resolve_ifaces(watch)
           new  == [from EXCEPT !.ifaces = list, !.series = ensure_series(watch, list)]
<1>1. Sample(t, from) \/ Sample(t, new)
  BY DEF tick
<1>2. /\ new.emit = from.emit /\ new.have_deltas = from.have_deltas
      /\ new.points = from.points /\ new.ifaces = list
      /\ new.series = ensure_series(watch, list)
  OBVIOUS
<1> HIDE DEF new
<1>3. Ready(t, new)
  <2>1. watch \in Watch /\ series \subseteq Sources
    BY DEF IInv, Types
  <2> QED BY <1>2, <2>1, ResolvedGood, SeriesListed DEF Ready
<1> QED BY <1>1, <1>3, SampleStep

-----------------------------------------------------------------------------
(* The steps. *)

LEMMA InitGood == Init => IInv
<1> SUFFICES ASSUME Init PROVE IInv
  OBVIOUS
<1>1. watch \in Watch /\ ifaces = resolve_ifaces(watch)
  BY WatchAssumption DEF Init
<1>2. ifaces \in Seq(Ifaces)
  BY <1>1, ResolvedGood
<1>3. ToSet(watch.devices) \subseteq Devices /\ ToSet(watch.addrs) \subseteq Addrs
      /\ ToSet(ifaces) \subseteq Ifaces
  <2>1. watch.devices \in Seq(Devices) /\ watch.addrs \in Seq(Addrs)
    BY <1>1 DEF Watch
  <2> QED BY <1>2, <2>1 DEF ToSet
<1>4. Types
  <2>1. 1 \in Nat /\ 0 \in Nat
    OBVIOUS
  <2>2. series \subseteq Sources
    BY <1>3 DEF Init, Sources
  <2> QED BY <1>1, <1>2, <2>1, <2>2 DEF Init, Types, Places, Counter, None
<1>5. SeriesGood
  <2>1. <<>> \in Seq(Point) /\ Len(<<>>) = 0 /\ DOMAIN <<>> = {}
    OBVIOUS
  <2> QED BY <2>1, BoundAssumption DEF Init, SeriesGood, InTime
<1>6. Covered
  <2>1. ASSUME NEW name \in Sources
        PROVE  prev[name] = None /\ charted[name] = 0 /\ Grown(name) = 0 /\ Owed(name) = 0
    BY <1>4, ReadTypes DEF Init, Grown, Owed
  <2> QED BY <2>1 DEF Covered
<1>7. LogsGood /\ odd = {}
  BY DEF Init, LogsGood
<1>8. ListsGood
  BY <1>1, ResolvedGood DEF Init, ListsGood
<1> QED BY <1>4, <1>5, <1>6, <1>7, <1>8 DEF IInv

\* What the samples may start from: the first one,
LEMMA FirstReady ==
    ASSUME IInv, now = None, NEW from, from.emit = have_prev,
           from.have_deltas = have_deltas, from.points = points,
           from.ifaces = ifaces, from.series = series
    PROVE  Ready(0, from)
<1>1. ~have_prev /\ \A name \in Sources : points[name] = <<>>
  BY DEF IInv, SeriesGood
<1>2. DOMAIN <<>> = {}
  OBVIOUS
<1>3. 0 \in 0..MaxTicks
  BY BoundAssumption
<1>4. \A name \in Sources : InTime(points[name], 0)
  BY <1>1, <1>2 DEF InTime
<1> QED BY <1>1, <1>2, <1>3, <1>4 DEF Ready, IInv, Types, SeriesGood, ListsGood

\* those after it,
LEMMA TimerReady ==
    ASSUME IInv, now # None, now < MaxTicks, NEW from, from.emit = have_prev,
           from.have_deltas = have_deltas, from.points = points,
           from.ifaces = ifaces, from.series = series
    PROVE  Ready(now + 1, from)
<1>0. now \in 0..MaxTicks /\ now + 1 \in 0..MaxTicks /\ now + 1 > 0 /\ have_prev = TRUE
  BY BoundAssumption DEF IInv, Types, SeriesGood, None
<1>1. ASSUME NEW name \in Sources
      PROVE  /\ InTime(points[name], now + 1)
             /\ \A i \in DOMAIN points[name] : points[name][i].t < now + 1
  <2>1. InTime(points[name], now) /\ points[name] \in Seq(Point)
    BY DEF IInv, SeriesGood
  <2>2. \A i \in DOMAIN points[name] : points[name][i].t \in Int
    <3>1. \A i \in DOMAIN points[name] : points[name][i] \in Point
      BY <2>1
    <3> QED BY <3>1 DEF Point
  <2>3. \A i \in DOMAIN points[name] : points[name][i].t <= now
    BY <2>1 DEF InTime
  <2>4. \A i \in DOMAIN points[name] :
           points[name][i].t <= now + 1 /\ points[name][i].t < now + 1
    BY <1>0, <2>2, <2>3
  <2> QED BY <2>1, <2>4 DEF InTime
<1> QED BY <1>0, <1>1 DEF Ready, IInv, Types, SeriesGood, ListsGood

\* and the one after a clear.
LEMMA ClearReady ==
    ASSUME IInv, NEW from, from.emit = FALSE, from.have_deltas = FALSE,
           from.points = [name \in Sources |-> <<>>],
           from.ifaces = ifaces, from.series = series
    PROVE  Ready(0, from)
<1>1. DOMAIN <<>> = {} /\ <<>> \in Seq(Point) /\ Len(<<>>) = 0
  OBVIOUS
<1>2. 0 \in 0..MaxTicks /\ 0 <= SessionMax
  BY BoundAssumption
<1>3. from.points \in [Sources -> Seq(Point)]
  BY <1>1
<1>4. \A name \in Sources : /\ Len(from.points[name]) <= SessionMax
                           /\ InTime(from.points[name], 0)
                           /\ \A i \in DOMAIN from.points[name] : from.points[name][i].t < 0
  <2> TAKE name \in Sources
  <2>1. from.points[name] = <<>>
    OBVIOUS
  <2> QED BY <1>1, <1>2, <2>1 DEF InTime
<1>5. from.emit = FALSE /\ from.have_deltas = FALSE /\ (0 > 0 <=> from.emit)
  <2>1. ~(0 > 0)
    OBVIOUS
  <2> QED BY <2>1
<1> QED BY <1>1, <1>2, <1>3, <1>4, <1>5 DEF Ready, IInv, Types, ListsGood

\* The first sample.
LEMMA FirstStep == ASSUME IInv, FirstTick PROVE IInv'
<1> DEFINE from == [Now(have_prev) EXCEPT !.steady = Sources]
<1>1. /\ from.emit = have_prev /\ from.have_deltas = have_deltas /\ from.points = points
      /\ from.ifaces = ifaces /\ from.series = series
      /\ DOMAIN from = {"emit", "have_deltas", "points", "ifaces", "series", "steady"}
  BY DEF Now
<1>2. tick(0, from) /\ UNCHANGED <<watch, addr_to_iface, machine, moved>> /\ now = None
  BY DEF FirstTick
<1> HIDE DEF from
<1>3. Ready(0, from)
  BY <1>1, <1>2, FirstReady
<1> QED BY <1>1, <1>2, <1>3, TickStep

\* The samples after it.
LEMMA TimerStep == ASSUME IInv, OnTimer PROVE IInv'
<1> DEFINE from == Now(have_prev)
<1>1. /\ from.emit = have_prev /\ from.have_deltas = have_deltas /\ from.points = points
      /\ from.ifaces = ifaces /\ from.series = series
      /\ DOMAIN from = {"emit", "have_deltas", "points", "ifaces", "series", "steady"}
  BY DEF Now
<1>2. /\ tick(now + 1, from) /\ UNCHANGED <<watch, addr_to_iface, machine, moved>>
      /\ now # None /\ now < MaxTicks
  BY DEF OnTimer
<1> HIDE DEF from
<1>3. Ready(now + 1, from)
  BY <1>1, <1>2, TimerReady
<1> QED BY <1>1, <1>2, <1>3, TickStep

\* A clear.
LEMMA ClearStep == ASSUME IInv, OnClearHistory PROVE IInv'
<1> DEFINE from == clear_history
<1>1. /\ from.emit = FALSE /\ from.have_deltas = FALSE
      /\ from.points = [name \in Sources |-> <<>>]
      /\ from.ifaces = ifaces /\ from.series = series
      /\ DOMAIN from = {"emit", "have_deltas", "points", "ifaces", "series", "steady"}
  BY DEF clear_history, Now
<1>2. tick(0, from) /\ UNCHANGED <<watch, addr_to_iface, machine, moved>>
  BY DEF OnClearHistory
<1> HIDE DEF from
<1>3. Ready(0, from)
  BY <1>1, ClearReady
<1> QED BY <1>1, <1>2, <1>3, TickStep

\* A change of the lists.
LEMMA RelistStep ==
    ASSUME IInv, NEW w \in Watch, Relist(w), addr_to_iface' \in [Addrs -> Places],
           Covered'
    PROVE  IInv'
<1>1. /\ watch' = w /\ ifaces' = resolve_ifaces(w)
      /\ series' = ensure_series(w, resolve_ifaces(w))
      /\ UNCHANGED <<samples, machine, logs, charted>>
  BY DEF Relist, Rebuild
<1>2. /\ resolve_ifaces(w) \in Seq(Ifaces)
      /\ w.monitor /\ w.all => IsInjective(resolve_ifaces(w))
      /\ w.monitor /\ ~w.all => resolve_ifaces(w) = w.ifaces
  BY ResolvedGood
<1>3. /\ series' \subseteq Sources
      /\ ToSet(w.devices) \subseteq series' /\ ToSet(w.addrs) \subseteq series'
  BY <1>1, <1>2, SeriesListed DEF IInv, Types
<1>4. Types' /\ odd' = {}
  BY <1>1, <1>2, <1>3 DEF IInv, Types, samples, machine, logs
<1>5. SeriesGood' /\ LogsGood'
  BY <1>1 DEF IInv, SeriesGood, LogsGood, samples, machine, logs
<1>6. ListsGood'
  BY <1>1, <1>2, <1>3 DEF ListsGood
<1> QED BY <1>4, <1>5, <1>6 DEF IInv

\* A change that leaves the map of addresses alone.
LEMMA RelistKeepsMap ==
    ASSUME IInv, NEW w \in Watch, Relist(w), KeepMap
    PROVE  IInv'
<1>1. UNCHANGED <<addr_to_iface, moved, prev, kernel, grown, charted>>
  BY DEF Relist, KeepMap, samples, machine
<1>2. Covered'
  BY <1>1 DEF IInv, Covered, Owed, Reading, Grown, ReadAt
<1> QED BY <1>1, <1>2, RelistStep DEF IInv, Types

\* The map is built again: what is read elsewhere now is left out, or was never read.
LEMMA MapCovered ==
    ASSUME IInv, refresh_addr_map, UNCHANGED <<prev, kernel, place, grown, charted>>
    PROVE  Covered'
<1>1. addr_to_iface' = place /\ moved' = moved \cup
         {a \in {a \in Addrs : place[a] # addr_to_iface[a]} : prev[a] # None}
  BY DEF refresh_addr_map
<1>2. Types /\ Covered
  BY DEF IInv
<1>3. ASSUME NEW name \in Sources
      PROVE  /\ prev[name] = None => charted[name] = 0
             /\ name \notin moved' => charted[name] + Owed(name)' <= Grown(name)'
  <2>1. CASE name \in Addrs /\ place[name] # addr_to_iface[name]
    <3>1. name \notin moved' => prev[name] = None
      BY <1>1, <2>1
    <3>2. prev[name] = None => charted[name] = 0 /\ Owed(name)' = 0
      BY <1>2 DEF Covered, Owed
    <3>3. Grown(name)' \in Nat
      <4>1. ReadAt(name)' \in Sources
        BY <1>1, <1>2 DEF ReadAt, Types, Sources, Places
      <4> QED BY <1>2, <4>1 DEF Grown, Types
    <3> QED BY <3>1, <3>2, <3>3
  <2>2. CASE ~(name \in Addrs /\ place[name] # addr_to_iface[name])
    <3>1. ReadAt(name)' = ReadAt(name)
      BY <1>1, <2>2 DEF ReadAt
    <3>2. Owed(name)' = Owed(name) /\ Grown(name)' = Grown(name)
      BY <3>1 DEF Owed, Reading, Grown
    <3> QED BY <1>1, <1>2, <3>2 DEF Covered
  <2> QED BY <2>1, <2>2
<1> QED BY <1>3 DEF Covered

\* The commands that change the lists.
LEMMA ListStep ==
    ASSUME IInv, add_device \/ add_addr \/ add_iface \/ remove_chart \/ OtherSetting
    PROVE  IInv'
<1>1. /\ watch \in Watch /\ DOMAIN watch = {"devices", "addrs", "monitor", "all", "ifaces"}
      /\ watch.devices \in Seq(Devices) /\ watch.addrs \in Seq(Addrs)
      /\ watch.ifaces \in Seq(Ifaces)
      /\ <<>> \in Seq(Devices) /\ <<>> \in Seq(Addrs) /\ <<>> \in Seq(Ifaces)
  BY DEF IInv, Types, Watch
<1>2. CASE add_device
  <2>1. PICK d \in Devices : Relist([watch EXCEPT !.devices = Append(@, d)]) /\ KeepMap
    BY <1>2 DEF add_device
  <2>2. Append(watch.devices, d) \in Seq(Devices)
    BY <1>1
  <2>3. [watch EXCEPT !.devices = Append(@, d)] \in Watch
    BY <1>1, <2>2 DEF Watch
  <2> QED BY <2>1, <2>3, RelistKeepsMap
<1>3. CASE add_addr
  <2>1. PICK a \in Addrs : Relist([watch EXCEPT !.addrs = Append(@, a)]) /\ refresh_addr_map
    BY <1>3 DEF add_addr
  <2>2. Append(watch.addrs, a) \in Seq(Addrs)
    BY <1>1
  <2>3. [watch EXCEPT !.addrs = Append(@, a)] \in Watch
    BY <1>1, <2>2 DEF Watch
  <2>4. UNCHANGED <<prev, kernel, place, grown, charted>>
    BY <2>1 DEF Relist, samples, machine
  <2>5. Covered'
    BY <2>1, <2>4, MapCovered
  <2>6. addr_to_iface' \in [Addrs -> Places]
    BY <2>1 DEF refresh_addr_map, IInv, Types
  <2> QED BY <2>1, <2>3, <2>5, <2>6, RelistStep
<1>4. CASE add_iface
  <2>1. CASE Relist([watch EXCEPT !.monitor = TRUE, !.all = TRUE, !.ifaces = <<>>])
    <3>1. [watch EXCEPT !.monitor = TRUE, !.all = TRUE, !.ifaces = <<>>] \in Watch
      BY <1>1 DEF Watch
    <3> QED BY <1>4, <2>1, <3>1, RelistKeepsMap DEF add_iface
  <2>2. ASSUME NEW i \in Ifaces,
               Relist([watch EXCEPT !.monitor = TRUE, !.all = FALSE, !.ifaces =
                                    IF i \in ToSet(@) THEN @ ELSE Append(@, i)])
        PROVE  IInv'
    <3>1. Append(watch.ifaces, i) \in Seq(Ifaces)
      BY <1>1
    <3>2. [watch EXCEPT !.monitor = TRUE, !.all = FALSE, !.ifaces =
                        IF i \in ToSet(@) THEN @ ELSE Append(@, i)] \in Watch
      BY <1>1, <3>1 DEF Watch
    <3>3. KeepMap
      BY <1>4 DEF add_iface
    <3> QED BY <2>2, <3>2, <3>3, RelistKeepsMap
  <2> QED BY <1>4, <2>1, <2>2 DEF add_iface
<1>5. CASE remove_chart
  <2>1. /\ [watch EXCEPT !.monitor = FALSE, !.all = FALSE, !.ifaces = <<>>] \in Watch
        /\ [watch EXCEPT !.devices = <<>>] \in Watch
        /\ [watch EXCEPT !.addrs = <<>>] \in Watch
    BY <1>1 DEF Watch
  <2>2. KeepMap
    BY <1>5 DEF remove_chart
  <2>3. \/ Relist([watch EXCEPT !.monitor = FALSE, !.all = FALSE, !.ifaces = <<>>])
        \/ Relist([watch EXCEPT !.devices = <<>>])
        \/ Relist([watch EXCEPT !.addrs = <<>>])
    BY <1>5 DEF remove_chart
  <2> QED BY <2>1, <2>2, <2>3, RelistKeepsMap
<1>6. CASE OtherSetting
  BY <1>1, <1>6, RelistKeepsMap DEF OtherSetting
<1> QED BY <1>2, <1>3, <1>4, <1>5, <1>6

\* What the machine does to its counters: one grows, or any go back or away.
CountersMove ==
    /\ kernel' \in [Sources -> Counter] /\ grown' \in [Sources -> Nat]
    /\ place' \in [Addrs -> Places]
    /\ \A at \in Sources : \/ kernel'[at] = kernel[at] + 1 /\ kernel[at] # None
                              /\ grown'[at] = grown[at] + 1
                           \/ grown'[at] = grown[at]
                              /\ (kernel'[at] <= kernel[at] \/ kernel'[at] = 0)

\* The machine: a counter that grows makes more owed by no more than it grew; one that
\* goes back, or goes away, leaves nothing owed.
LEMMA CountersCovered ==
    ASSUME IInv, CountersMove, UNCHANGED <<addr_to_iface, prev, charted, moved>>
    PROVE  Covered'
<1>1. Types /\ Covered
  BY DEF IInv
<1>2. ASSUME NEW name \in Sources, name \notin moved
      PROVE  charted[name] + Owed(name)' <= Grown(name)'
  <2> DEFINE at == ReadAt(name)
  <2>1. at \in Sources /\ ReadAt(name)' = at
    BY <1>1, ReadTypes DEF ReadAt
  <2>2. /\ Reading(name) = kernel[at] /\ Grown(name) = grown[at]
        /\ Reading(name)' = kernel'[at] /\ Grown(name)' = grown'[at]
    BY <2>1 DEF Reading, Grown
  <2> HIDE DEF at
  <2>3. /\ kernel[at] \in Counter /\ grown[at] \in Nat /\ prev[name] \in Counter
        /\ kernel'[at] \in Counter /\ grown'[at] \in Nat /\ charted[name] \in Nat
    BY <1>1, <2>1 DEF Types, CountersMove
  <2>4. charted[name] + Owed(name) <= grown[at]
    BY <1>1, <1>2, <2>2 DEF Covered
  <2>5. CASE prev[name] = None
    BY <2>1, <2>2, <2>3, <2>4, <2>5 DEF Owed, CountersMove
  <2>6. CASE prev[name] # None
    <3>1. prev[name] \in Nat /\ Owed(name) = delta_u64(kernel[at], prev[name])
          /\ Owed(name)' = delta_u64(kernel'[at], prev[name])
      BY <2>2, <2>3, <2>6 DEF Owed, Counter
    <3>2. CASE kernel'[at] = kernel[at] + 1 /\ kernel[at] # None /\ grown'[at] = grown[at] + 1
      BY <2>2, <2>3, <2>4, <3>1, <3>2 DEF delta_u64, Counter, None
    <3>3. CASE grown'[at] = grown[at] /\ (kernel'[at] <= kernel[at] \/ kernel'[at] = 0)
      BY <2>2, <2>3, <2>4, <3>1, <3>3 DEF delta_u64, Counter, None
    <3> QED BY <2>1, <3>2, <3>3 DEF CountersMove
  <2> QED BY <2>5, <2>6
<1>3. \A name \in Sources : prev'[name] = None => charted'[name] = 0
  BY <1>1 DEF Covered
<1> QED BY <1>2, <1>3 DEF Covered

LEMMA MachineStep ==
    ASSUME IInv, \/ \E name \in Sources : Grow(name) \/ Vanish(name) \/ Return(name)
                 \/ \E a \in Addrs : Expire(a) \/ Move(a)
    PROVE  IInv'
<1>1. UNCHANGED <<lists, samples, logs, unwritable, charted, moved>>
  BY DEF Event, Grow, Vanish, Return, Expire, Move
<1>2. kernel \in [Sources -> Counter] /\ grown \in [Sources -> Nat]
      /\ place \in [Addrs -> Places]
  BY DEF IInv, Types
<1>3. CountersMove
  <2>1. ASSUME NEW at \in Sources PROVE kernel[at] \in Counter /\ kernel[at] <= kernel[at]
    BY <1>2 DEF Counter, None
  <2>2. ASSUME NEW name \in Sources, Grow(name) PROVE CountersMove
    <3>1. kernel[name] + 1 \in Counter /\ grown[name] + 1 \in Nat
      BY <1>2, <2>2 DEF Grow, Counter, None
    <3> QED BY <1>2, <2>1, <2>2, <3>1 DEF Grow, CountersMove
  <2>3. ASSUME NEW name \in Sources, Vanish(name) PROVE CountersMove
    <3>1. None \in Counter /\ None <= kernel[name]
      BY <2>1 DEF Counter, None
    <3> QED BY <1>2, <2>1, <2>3, <3>1 DEF Vanish, CountersMove
  <2>4. ASSUME NEW name \in Sources, Return(name) PROVE CountersMove
    BY <1>2, <2>1, <2>4 DEF Return, Counter, CountersMove
  <2>5. ASSUME NEW a \in Addrs, Expire(a) PROVE CountersMove
    <3>1. a \in Sources
      BY DEF Sources
    <3>2. PICK n \in 0..(kernel[a] - 1) : kernel' = [kernel EXCEPT ![a] = n]
      BY <2>5 DEF Expire
    <3>3. n \in Counter /\ n <= kernel[a]
      BY <2>1, <3>1, <3>2 DEF Counter, None
    <3> QED BY <1>2, <2>1, <2>5, <3>1, <3>2, <3>3 DEF Expire, CountersMove
  <2>6. ASSUME NEW a \in Addrs, Move(a) PROVE CountersMove
    BY <1>2, <2>1, <2>6 DEF Move, Places, CountersMove
  <2> QED BY <2>2, <2>3, <2>4, <2>5, <2>6
<1>4. Covered'
  BY <1>1, <1>3, CountersCovered DEF lists, samples
<1>5. Types' /\ odd' = {}
  BY <1>1, <1>3 DEF IInv, Types, CountersMove, lists, samples, logs
<1>6. SeriesGood' /\ LogsGood' /\ ListsGood'
  BY <1>1 DEF IInv, SeriesGood, LogsGood, ListsGood, lists, samples, logs
<1> QED BY <1>4, <1>5, <1>6 DEF IInv

\* Every step.
LEMMA InvStep == ASSUME IInv, [Next]_vars PROVE IInv'
<1>1. CASE UNCHANGED vars
  <2>1. UNCHANGED <<lists, samples, machine, logs, charted, moved>>
    BY <1>1 DEF vars
  <2> QED BY <2>1 DEF IInv, Types, SeriesGood, Covered, Owed, Reading, Grown, ReadAt,
                      LogsGood, ListsGood, lists, samples, machine, logs
<1> QED BY <1>1, FirstStep, TimerStep, ClearStep, ListStep, MachineStep DEF Next

-----------------------------------------------------------------------------
(* What points add up to. *)

\* The sums of the first points: how they are made, whatever function has them.
Sums(f, p) ==
    f[0] = 0 /\ \A i \in 1..Len(p) : f[i] = f[i - 1] + p[i].v

LEMMA TotalSums ==
    ASSUME NEW p \in Seq(Point)
    PROVE  /\ \E f : Sums(f, p) /\ \A i \in 0..Len(p) : f[i] \in Nat
           /\ \A f : Sums(f, p) => Total(p) = f[Len(p)]
<1> DEFINE n == Len(p)
           Step == [i \in 1..n |-> [v \in Nat |-> v + p[i].v]]
           Eq(f) == f = [i \in 0..n |-> IF i = 0 THEN 0 ELSE f[i - 1] + p[i].v]
           sum == CHOOSE f : Eq(f)
<1>1. n \in Nat /\ \A i \in 1..n : p[i].v \in Nat
  <2>1. n \in Nat /\ \A i \in 1..n : p[i] \in Point
    OBVIOUS
  <2> QED BY <2>1 DEF Point
<1>2. Total(p) = sum[n]
  BY DEF Total
<1> HIDE DEF n
<1>3. Step \in [1..n -> [Nat -> Nat]]
  BY <1>1
<1>4. PICK f : Made(f, n, Nat, 0, Step)
  <2> HIDE DEF Step
  <2> QED BY <1>1, <1>3, RecursionExists
<1>5. /\ f \in [0..n -> Nat] /\ f[0] = 0
      /\ \A i \in 1..n : f[i] = f[i - 1] + p[i].v
  <2>1. f \in [0..n -> Nat] /\ f[0] = 0 /\ \A i \in 1..n : f[i] = Step[i][f[i - 1]]
    <3> HIDE DEF Step
    <3> QED BY <1>4 DEF Made
  <2>2. \A i \in 1..n : f[i - 1] \in Nat
    BY <1>1, <2>1, SMTT(20)
  <2> QED BY <1>1, <2>1, <2>2
<1>6. Eq(f)
  BY <1>1, <1>5
<1>7. Eq(sum)
  <2> HIDE DEF Eq
  <2> QED BY <1>6
<1>8. sum[0] = 0 /\ \A i \in 1..n : sum[i] = sum[i - 1] + p[i].v
  <2> HIDE DEF sum
  <2> QED BY <1>1, <1>7
<1> HIDE DEF sum, Step, Eq
<1>9. ASSUME NEW g, Sums(g, p) PROVE Total(p) = g[n]
  <2>1. sum[0] = g[0] /\ \A i \in 1..n : sum[i - 1] = g[i - 1] => sum[i] = g[i]
    BY <1>8, <1>9 DEF Sums, n
  <2>2. n \in Nat
    BY <1>1
  <2>3. \A i \in 0..n : sum[i] = g[i]
    BY <2>1, <2>2, RecursionUnique, SMTT(20)
  <2>4. n \in 0..n
    BY <2>2
  <2> QED BY <1>2, <2>3, <2>4
<1>10. Sums(f, p) /\ \A i \in 0..n : f[i] \in Nat
  BY <1>5 DEF Sums, n
<1> QED BY <1>9, <1>10 DEF n

LEMMA TotalEmpty == Total(<<>>) = 0
<1>1. <<>> \in Seq(Point) /\ Len(<<>>) = 0
  OBVIOUS
<1>2. Sums([i \in 0..0 |-> 0], <<>>)
  BY <1>1 DEF Sums
<1> QED BY <1>1, <1>2, TotalSums

\* New points, all but the first zero, add that one.
LEMMA TotalPush ==
    ASSUME NEW old \in Seq(Point), NEW t \in 0..MaxTicks, NEW values \in Seq(Nat),
           \A k \in DOMAIN values : k > 1 => values[k] = 0,
           Len(old) + Len(values) <= SessionMax
    PROVE  /\ Total(push_point(old, t, values)) = Total(old) + Added(values)
           /\ Total(old) \in Nat
<1> DEFINE new == [k \in DOMAIN values |-> [t |-> t, v |-> values[k]]]
           all == old \o new
           n   == Len(old)
           m   == Len(values)
<1>1. /\ n \in Nat /\ m \in Nat /\ DOMAIN values = 1..m
      /\ \A k \in 1..m : values[k] \in Nat
  OBVIOUS
<1>2. new \in Seq(Point) /\ Len(new) = m /\ \A k \in 1..m : new[k].v = values[k]
  <2>1. new \in [1..m -> Point]
    BY <1>1 DEF Point
  <2>2. \A j \in Nat : \A f \in [1..j -> Point] : f \in Seq(Point) /\ Len(f) = j
    OBVIOUS
  <2>3. new \in Seq(Point) /\ Len(new) = m
    <3> HIDE DEF new, m
    <3> QED BY <1>1, <2>1, <2>2
  <2> QED BY <1>1, <2>3
<1> HIDE DEF new, n, m
<1>3. /\ all \in Seq(Point) /\ Len(all) = n + m
      /\ \A i \in 1..n : all[i] = old[i]
      /\ \A k \in 1..m : all[n + k] = new[k]
  <2>1. /\ all \in Seq(Point) /\ Len(all) = Len(old) + Len(new)
        /\ \A i \in 1..(Len(old) + Len(new)) :
              all[i] = IF i <= Len(old) THEN old[i] ELSE new[i - Len(old)]
    BY <1>2, ConcatProperties
  <2>2. /\ Len(all) = n + m
        /\ \A i \in 1..(n + m) : all[i] = IF i <= n THEN old[i] ELSE new[i - n]
    BY <1>2, <2>1 DEF n
  <2> HIDE DEF all
  <2>3. ASSUME NEW k \in 1..m PROVE all[n + k] = new[k]
    <3>1. n + k \in 1..(n + m) /\ ~(n + k <= n) /\ (n + k) - n = k
      BY <1>1
    <3> QED BY <2>2, <3>1
  <2>4. ASSUME NEW i \in 1..n PROVE all[i] = old[i]
    <3>1. i \in 1..(n + m) /\ i <= n
      BY <1>1
    <3> QED BY <2>2, <3>1
  <2> QED BY <2>1, <2>2, <2>3, <2>4
<1>4. push_point(old, t, values) = all
  <2>1. ~(Len(all) - SessionMax > 0)
    BY <1>1, <1>3, BoundAssumption DEF n, m
  <2> QED BY <2>1 DEF push_point, new
<1> HIDE DEF all
<1>5. PICK f : Sums(f, old) /\ \A i \in 0..n : f[i] \in Nat
  BY TotalSums DEF n
<1>6. Total(old) = f[n] /\ f[n] \in Nat
  BY <1>1, <1>5, TotalSums DEF n
<1>7. values = <<>> <=> m = 0
  BY DEF m
<1> DEFINE add == Added(values)
           g == [i \in 0..(n + m) |-> IF i <= n THEN f[i] ELSE f[n] + add]
<1>8. add = IF m = 0 THEN 0 ELSE values[1]
  BY <1>7 DEF Added
<1>9. add \in Nat
  BY <1>1, <1>8
<1> HIDE DEF add
<1>10. Sums(g, all)
  <2>1. g[0] = 0
    BY <1>1, <1>5 DEF Sums
  <2>2. ASSUME NEW i \in 1..(n + m) PROVE g[i] = g[i - 1] + all[i].v
    <3>1. CASE i <= n
      <4>1. g[i] = f[i] /\ g[i - 1] = f[i - 1] /\ all[i] = old[i]
        BY <1>1, <1>3, <3>1
      <4>2. f[i] = f[i - 1] + old[i].v
        BY <1>1, <1>5, <3>1 DEF Sums, n
      <4> QED BY <4>1, <4>2
    <3>2. CASE i = n + 1
      <4>1. m # 0 /\ g[i] = f[n] + add /\ g[i - 1] = f[n]
        BY <1>1, <3>2
      <4>2. all[i] = new[1] /\ new[1].v = values[1]
        BY <1>1, <1>2, <1>3, <3>2, <4>1
      <4> QED BY <1>8, <4>1, <4>2
    <3>3. CASE i > n + 1
      <4>1. g[i] = f[n] + add /\ g[i - 1] = f[n] + add
        BY <1>1, <3>3
      <4>2. i - n \in 1..m /\ i - n > 1 /\ n + (i - n) = i
        BY <1>1, <3>3
      <4>3. all[i] = new[i - n] /\ new[i - n].v = values[i - n]
        BY <1>2, <1>3, <4>2
      <4>4. values[i - n] = 0
        BY <1>1, <4>2
      <4> QED BY <1>6, <1>9, <4>1, <4>3, <4>4, SMTT(20)
    <3> QED BY <1>1, <3>1, <3>2, <3>3
  <2> HIDE DEF g
  <2> QED BY <1>3, <2>1, <2>2 DEF Sums
<1>11. g[n + m] = f[n] + add
  BY <1>1, <1>6, <1>8
<1> HIDE DEF g
<1>12. Total(all) = g[n + m]
  BY <1>3, <1>10, TotalSums
<1> QED BY <1>4, <1>6, <1>11, <1>12 DEF add

-----------------------------------------------------------------------------
(* Whole series. *)

\* The invariant behind NothingLostSinceClear: what it says, of readings that are
\* there and not behind the previous ones.
Whole(name) ==
    /\ prev[name] \in Nat /\ Reading(name) \in Nat /\ prev[name] <= Reading(name)
    /\ Total(points[name]) + (Reading(name) - prev[name]) = Grown(name) - mark[name]

WholeGood ==
    /\ steady \subseteq Sources /\ mark \in [Sources -> Nat]
    /\ \A name \in steady : Whole(name)

\* A sample starts whole series, or adds to each what has grown.
LEMMA SampleWhole ==
    ASSUME IInv, WholeGood, NEW t, NEW from, Ready(t, from), Sample(t, from),
           UNCHANGED <<addr_to_iface, machine>>, from.steady \subseteq Sources,
           t > 0 => from.points = points /\ from.steady = steady
    PROVE  WholeGood'
<1>1. Types /\ Assigns(t, from)
  BY SampleAssigns DEF IInv
<1>2. /\ mark' = [name \in Sources |-> IF t = 0 THEN Grown(name) ELSE mark[name]]
      /\ steady' = {name \in from.steady :
                       /\ name \in from.series
                       /\ Len(from.points[name]) + Len(Shown(from)[name]) <= SessionMax
                       /\ t = 0 => Counts(from)[name] > 0 /\ Reading(name) # None}
  BY DEF Sample, Shown, Growing, Counts, ListOf
<1>3. \A name \in Sources : Grown(name) \in Nat /\ mark[name] \in Nat
  BY <1>1, ReadTypes DEF WholeGood
<1>4. mark' \in [Sources -> Nat] /\ steady' \subseteq Sources
  BY <1>2, <1>3
<1>5. ASSUME NEW name \in steady' PROVE Whole(name)'
  <2> DEFINE n     == Counts(from)[name]
             old   == from.points[name]
             shown == Shown(from)[name]
  <2>1. /\ name \in Sources /\ name \in from.steady /\ name \in from.series
        /\ Len(old) + Len(shown) <= SessionMax
        /\ t = 0 => n > 0 /\ Reading(name) # None
    BY <1>2, <1>4
  <2>2. /\ points'[name] = push_point(old, t, shown)
        /\ prev'[name] = IF n > 0 /\ Reading(name) # None THEN Reading(name) ELSE prev[name]
        /\ mark'[name] = IF t = 0 THEN Grown(name) ELSE mark[name]
    BY <1>1, <1>2, <2>1 DEF Assigns
  <2>3. Reading(name)' = Reading(name) /\ Grown(name)' = Grown(name)
    BY DEF Reading, Grown, ReadAt, machine
  <2>4. /\ shown \in Seq(Nat) /\ \A k \in DOMAIN shown : k > 1 => shown[k] = 0
        /\ shown # <<>> => t > 0
        /\ Added(shown) = IF from.emit /\ n > 0 /\ Reading(name) # None
                          THEN Owed(name) ELSE 0
    <3>1. shown = Growing(from)[name]
      BY <2>1 DEF Shown
    <3> QED BY <1>1, <2>1, <3>1, GrowingFacts
  <2>5. old \in Seq(Point) /\ t \in 0..MaxTicks /\ (t > 0 <=> from.emit)
    BY <2>1 DEF Ready
  <2>6. n \in Nat /\ Reading(name) \in Counter
    BY <1>1, <2>1, CountsFacts, ReadTypes
  <2> HIDE DEF n, old, shown
  <2>7. /\ Total(points'[name]) = Total(old) + Added(shown)
        /\ Total(old) \in Nat
    BY <2>1, <2>2, <2>4, <2>5, TotalPush
  <2>8. CASE t = 0
    <3>1. old = <<>>
      <4>1. \A i \in DOMAIN old : old[i].t < 0 /\ 0 < old[i].t /\ old[i] \in Point
        BY <2>1, <2>5, <2>8 DEF Ready, InTime, old
      <4>2. DOMAIN old = {}
        <5> SUFFICES ASSUME NEW i \in DOMAIN old PROVE FALSE
          OBVIOUS
        <5>1. old[i].t \in 0..MaxTicks /\ old[i].t < 0
          BY <4>1 DEF Point
        <5> QED BY <5>1, BoundAssumption
      <4> QED BY <2>5, <4>2
    <3>2. Total(points'[name]) = 0
      BY <2>4, <2>5, <2>7, <2>8, <3>1, TotalEmpty
    <3>3. Reading(name) \in Nat
      BY <2>1, <2>6, <2>8 DEF Counter
    <3> QED BY <1>3, <2>1, <2>2, <2>3, <2>8, <3>2, <3>3 DEF Whole
  <2>9. CASE t > 0
    <3>1. name \in steady /\ old = points[name] /\ from.emit
      BY <2>1, <2>5, <2>9 DEF old
    <3>2. /\ prev[name] \in Nat /\ Reading(name) \in Nat /\ prev[name] <= Reading(name)
          /\ Total(old) + (Reading(name) - prev[name]) = Grown(name) - mark[name]
      BY <3>1 DEF WholeGood, Whole
    <3>3. Reading(name) # None /\ mark'[name] = mark[name]
          /\ Owed(name) = Reading(name) - prev[name]
      BY <2>2, <2>9, <3>2 DEF Owed, delta_u64, None
    <3>4. CASE n > 0
      <4>1. prev'[name] = Reading(name) /\ Added(shown) = Reading(name) - prev[name]
        BY <2>2, <2>4, <3>1, <3>3, <3>4
      <4>2. Total(points'[name]) = Grown(name) - mark[name]
        BY <2>7, <3>2, <4>1
      <4> QED BY <1>3, <2>1, <2>3, <3>2, <3>3, <4>1, <4>2 DEF Whole
    <3>5. CASE ~(n > 0)
      <4>1. prev'[name] = prev[name] /\ Added(shown) = 0
        BY <2>2, <2>4, <3>5
      <4>2. Total(points'[name]) = Total(old)
        BY <2>7, <4>1
      <4> QED BY <2>3, <3>2, <3>3, <4>1, <4>2 DEF Whole
    <3> QED BY <3>4, <3>5
  <2> QED BY <2>5, <2>8, <2>9
<1> QED BY <1>4, <1>5 DEF WholeGood

\* A tick, with or without a scan.
LEMMA TickWhole ==
    ASSUME IInv, WholeGood, NEW t, NEW from, Ready(t, from), tick(t, from),
           UNCHANGED <<watch, addr_to_iface, machine>>, from.steady \subseteq Sources,
           t > 0 => from.points = points /\ from.steady = steady,
           DOMAIN from = {"emit", "have_deltas", "points", "ifaces", "series", "steady"}
    PROVE  WholeGood'
<1> DEFINE list == resolve_ifaces(watch)
           new  == [from EXCEPT !.ifaces = list, !.series = ensure_series(watch, list)]
<1>1. Sample(t, from) \/ Sample(t, new)
  BY DEF tick
<1>2. /\ new.emit = from.emit /\ new.have_deltas = from.have_deltas
      /\ new.points = from.points /\ new.ifaces = list /\ new.steady = from.steady
      /\ new.series = ensure_series(watch, list)
  OBVIOUS
<1> HIDE DEF new
<1>3. Ready(t, new)
  <2>1. watch \in Watch /\ series \subseteq Sources
    BY DEF IInv, Types
  <2> QED BY <1>2, <2>1, ResolvedGood, SeriesListed DEF Ready
<1>4. new.steady \subseteq Sources
      /\ (t > 0 => new.points = points /\ new.steady = steady)
  BY <1>2
<1>5. CASE Sample(t, from)
  BY <1>5, SampleWhole
<1>6. CASE Sample(t, new)
  BY <1>3, <1>4, <1>6, SampleWhole
<1> QED BY <1>1, <1>5, <1>6

\* The three kinds of sample.
LEMMA FirstWhole == ASSUME IInv, WholeGood, FirstTick PROVE WholeGood'
<1> DEFINE from == [Now(have_prev) EXCEPT !.steady = Sources]
<1>1. /\ from.emit = have_prev /\ from.have_deltas = have_deltas /\ from.points = points
      /\ from.ifaces = ifaces /\ from.series = series /\ from.steady = Sources
      /\ DOMAIN from = {"emit", "have_deltas", "points", "ifaces", "series", "steady"}
  BY DEF Now
<1>2. tick(0, from) /\ UNCHANGED <<watch, addr_to_iface, machine>> /\ now = None
  BY DEF FirstTick
<1> HIDE DEF from
<1>3. Ready(0, from)
  BY <1>1, <1>2, FirstReady
<1>4. ~(0 > 0) /\ from.steady \subseteq Sources
  BY <1>1
<1> QED BY <1>1, <1>2, <1>3, <1>4, TickWhole

LEMMA TimerWhole == ASSUME IInv, WholeGood, OnTimer PROVE WholeGood'
<1> DEFINE from == Now(have_prev)
<1>1. /\ from.emit = have_prev /\ from.have_deltas = have_deltas /\ from.points = points
      /\ from.ifaces = ifaces /\ from.series = series /\ from.steady = steady
      /\ DOMAIN from = {"emit", "have_deltas", "points", "ifaces", "series", "steady"}
  BY DEF Now
<1>2. /\ tick(now + 1, from) /\ UNCHANGED <<watch, addr_to_iface, machine>>
      /\ now # None /\ now < MaxTicks
  BY DEF OnTimer
<1> HIDE DEF from
<1>3. Ready(now + 1, from)
  BY <1>1, <1>2, TimerReady
<1>4. from.steady \subseteq Sources
  BY <1>1 DEF WholeGood
<1> QED BY <1>1, <1>2, <1>3, <1>4, TickWhole

LEMMA ClearWhole == ASSUME IInv, WholeGood, OnClearHistory PROVE WholeGood'
<1> DEFINE from == clear_history
<1>1. /\ from.emit = FALSE /\ from.have_deltas = FALSE
      /\ from.points = [name \in Sources |-> <<>>]
      /\ from.ifaces = ifaces /\ from.series = series /\ from.steady = Sources
      /\ DOMAIN from = {"emit", "have_deltas", "points", "ifaces", "series", "steady"}
  BY DEF clear_history, Now
<1>2. tick(0, from) /\ UNCHANGED <<watch, addr_to_iface, machine>>
  BY DEF OnClearHistory
<1> HIDE DEF from
<1>3. Ready(0, from)
  BY <1>1, ClearReady
<1>4. ~(0 > 0) /\ from.steady \subseteq Sources
  BY <1>1
<1> QED BY <1>1, <1>2, <1>3, <1>4, TickWhole

\* Where a name is read at the same place and nothing there went back, and nothing was
\* sampled, its series stays whole.
LEMMA StaysWhole ==
    ASSUME IInv, WholeGood, NEW name \in steady, UNCHANGED <<prev, points, mark>>,
           ReadAt(name)' = ReadAt(name),
           LET at == ReadAt(name)
           IN  \/ kernel'[at] = kernel[at] /\ grown'[at] = grown[at]
               \/ kernel'[at] = kernel[at] + 1 /\ grown'[at] = grown[at] + 1
    PROVE  Whole(name)'
<1> DEFINE at == ReadAt(name)
<1>1. name \in Sources /\ Whole(name)
  BY DEF WholeGood
<1>2. /\ Reading(name) = kernel[at] /\ Grown(name) = grown[at]
      /\ Reading(name)' = kernel'[at] /\ Grown(name)' = grown'[at]
  BY DEF Reading, Grown
<1>3. grown[at] \in Nat /\ mark[name] \in Nat
  BY <1>1, <1>2, ReadTypes DEF IInv, WholeGood
<1> HIDE DEF at
<1>4. /\ prev[name] \in Nat /\ kernel[at] \in Nat /\ prev[name] <= kernel[at]
      /\ Total(points[name]) + (kernel[at] - prev[name]) = grown[at] - mark[name]
  BY <1>1, <1>2 DEF Whole
<1>5. Total(points[name]) \in Nat
  <2>1. points[name] \in Seq(Point)
    BY <1>1 DEF IInv, SeriesGood
  <2>2. PICK f : Sums(f, points[name]) /\ \A i \in 0..Len(points[name]) : f[i] \in Nat
    BY <2>1, TotalSums
  <2>3. Total(points[name]) = f[Len(points[name])] /\ Len(points[name]) \in Nat
    BY <2>1, <2>2, TotalSums
  <2> QED BY <2>2, <2>3
<1>6. \/ kernel'[at] = kernel[at] /\ grown'[at] = grown[at]
      \/ kernel'[at] = kernel[at] + 1 /\ grown'[at] = grown[at] + 1
  BY DEF at
<1>7. /\ prev'[name] \in Nat /\ kernel'[at] \in Nat /\ prev'[name] <= kernel'[at]
      /\ Total(points'[name]) + (kernel'[at] - prev'[name]) = grown'[at] - mark'[name]
  BY <1>3, <1>4, <1>5, <1>6
<1> QED BY <1>2, <1>7 DEF Whole

\* A change of the lists: an address that is read elsewhere is left out.
LEMMA ListWhole ==
    ASSUME IInv, WholeGood, add_device \/ add_addr \/ add_iface \/ remove_chart \/ OtherSetting
    PROVE  WholeGood'
<1>1. /\ UNCHANGED <<prev, points, mark, kernel, grown>>
      /\ KeepMap \/ refresh_addr_map
  BY DEF add_device, add_addr, add_iface, remove_chart, OtherSetting, Relist, samples,
         machine
<1>2. steady' \subseteq steady /\ \A name \in steady' : ReadAt(name)' = ReadAt(name)
  <2>1. CASE KeepMap
    BY <2>1 DEF KeepMap, ReadAt
  <2>2. CASE refresh_addr_map
    <3>1. /\ addr_to_iface' = place
          /\ steady' = steady \ {a \in Addrs : place[a] # addr_to_iface[a]}
      BY <2>2 DEF refresh_addr_map
    <3> QED BY <3>1 DEF ReadAt
  <2> QED BY <1>1, <2>1, <2>2
<1> QED BY <1>1, <1>2, StaysWhole DEF WholeGood

\* The machine: what goes back or away at a place leaves the names read there out.
LEMMA MachineWhole ==
    ASSUME IInv, WholeGood, \/ \E name \in Sources : Grow(name) \/ Vanish(name) \/ Return(name)
                            \/ \E a \in Addrs : Expire(a) \/ Move(a)
    PROVE  WholeGood'
<1>1. UNCHANGED <<prev, points, mark, addr_to_iface>>
  BY DEF Event, Grow, Vanish, Return, Expire, Move, samples, lists
<1>2. \A name : ReadAt(name)' = ReadAt(name)
  BY <1>1 DEF ReadAt
<1>3. kernel \in [Sources -> Counter] /\ grown \in [Sources -> Nat]
  BY DEF IInv, Types
<1>4. \A name \in steady : ReadAt(name) \in Sources
  BY ReadTypes DEF IInv, WholeGood
<1>5. steady' \subseteq steady
      /\ \A name \in steady' :
            LET at == ReadAt(name)
            IN  \/ kernel'[at] = kernel[at] /\ grown'[at] = grown[at]
                \/ kernel'[at] = kernel[at] + 1 /\ grown'[at] = grown[at] + 1
  <2>1. ASSUME NEW name \in Sources, Grow(name)
        PROVE  /\ steady' = steady
               /\ \A at \in Sources :
                     \/ kernel'[at] = kernel[at] /\ grown'[at] = grown[at]
                     \/ kernel'[at] = kernel[at] + 1 /\ grown'[at] = grown[at] + 1
    BY <1>3, <2>1 DEF Grow
  <2>2. ASSUME NEW gone \in Sources, Vanish(gone) \/ Return(gone) \/ (gone \in Addrs /\ Expire(gone))
        PROVE  /\ steady' = Broken(gone) /\ grown' = grown
               /\ \A at \in Sources : at # gone => kernel'[at] = kernel[at]
    BY <1>3, <2>2 DEF Vanish, Return, Expire
  <2>3. ASSUME NEW a \in Addrs, Move(a) PROVE UNCHANGED <<kernel, grown, steady>>
    BY <2>3 DEF Move
  <2>4. Addrs \subseteq Sources
    BY DEF Sources
  <2>5. ASSUME NEW gone \in Sources, steady' = Broken(gone), grown' = grown,
               \A at \in Sources : at # gone => kernel'[at] = kernel[at]
        PROVE  /\ steady' \subseteq steady
               /\ \A name \in steady' : LET at == ReadAt(name)
                                        IN  kernel'[at] = kernel[at] /\ grown'[at] = grown[at]
    <3>1. \A name \in steady' : name \in steady /\ (name \in Sources => ReadAt(name) # gone)
      BY <2>5 DEF Broken
    <3>2. steady \subseteq Sources
      BY DEF WholeGood
    <3> QED BY <1>4, <2>5, <3>1, <3>2
  <2>6. CASE \E name \in Sources : Grow(name)
    BY <1>4, <2>1, <2>6
  <2>7. CASE \E a \in Addrs : Move(a)
    BY <2>3, <2>7
  <2>8. CASE \/ \E name \in Sources : Vanish(name) \/ Return(name)
             \/ \E a \in Addrs : Expire(a)
    <3>1. PICK gone \in Sources :
             Vanish(gone) \/ Return(gone) \/ (gone \in Addrs /\ Expire(gone))
      BY <2>4, <2>8
    <3> QED BY <2>2, <2>5, <3>1
  <2> QED BY <2>6, <2>7, <2>8
<1>6. ASSUME NEW name \in steady' PROVE Whole(name)'
  BY <1>1, <1>2, <1>5, <1>6, StaysWhole
<1>7. steady \subseteq Sources /\ mark' \in [Sources -> Nat]
  BY <1>1 DEF WholeGood
<1> QED BY <1>5, <1>6, <1>7 DEF WholeGood

\* Every step.
LEMMA WholeStep == ASSUME IInv, WholeGood, [Next]_vars PROVE WholeGood'
<1>1. CASE UNCHANGED vars
  <2>1. UNCHANGED <<prev, points, mark, kernel, grown, addr_to_iface, steady>>
    BY <1>1 DEF vars, lists, samples, machine
  <2>2. \A name : ReadAt(name)' = ReadAt(name)
    BY <2>1 DEF ReadAt
  <2> QED BY <2>1, <2>2, StaysWhole DEF WholeGood
<1> QED BY <1>1, FirstWhole, TimerWhole, ClearWhole, ListWhole, MachineWhole DEF Next

LEMMA InitWhole == Init => WholeGood
BY DEF Init, WholeGood

-----------------------------------------------------------------------------
(* The theorems. *)

\* The invariant that the properties follow from.
THEOREM CountersGood == Spec => []IInv
<1>1. IInv /\ [Next]_vars => IInv'
  BY InvStep
<1> QED BY <1>1, InitGood, PTL DEF Spec

\* Every variable stays in its range, and no series exceeds the limit of the session.
THEOREM TypeCorrect == Spec => []TypeOK
<1>1. IInv => TypeOK
  BY DEF IInv, Types, SeriesGood, TypeOK, Places, Counter, Point
<1> QED BY <1>1, CountersGood, PTL

\* No traffic is charted twice, through removals, clears, restarts and unplugging.
THEOREM TrafficOnce == Spec => []NoTrafficCountedTwice
<1>1. IInv => NoTrafficCountedTwice
  <2> SUFFICES ASSUME IInv, NEW name \in Sources \ moved PROVE charted[name] <= Grown(name)
    BY DEF NoTrafficCountedTwice
  <2>1. /\ charted[name] \in Nat /\ prev[name] \in Counter /\ Reading(name) \in Counter
        /\ Grown(name) \in Nat
    BY ReadTypes DEF IInv, Types
  <2>2. Owed(name) \in Nat
    BY <2>1, DeltaNat DEF Owed, Counter
  <2>3. charted[name] + Owed(name) <= Grown(name)
    BY DEF IInv, Covered
  <2> QED BY <2>1, <2>2, <2>3
<1> QED BY <1>1, CountersGood, PTL

\* The points of a series are in the order of their times, also after a clear.
THEOREM SeriesInOrder == Spec => []TimesInOrder
<1>1. IInv => TimesInOrder
  BY DEF IInv, SeriesGood, InTime, TimesInOrder
<1> QED BY <1>1, CountersGood, PTL

\* Logs tell what charts tell, whichever logs cannot be opened.
THEOREM LogsAgree == Spec => []LogAgreesWithChart
<1>1. IInv => LogAgreesWithChart
  BY DEF IInv, LogsGood, LogAgreesWithChart
<1> QED BY <1>1, CountersGood, PTL

\* A log has one line for each interval in which its name was asked for and there.
THEOREM OneLine == Spec => []OneLineAnInterval
<1>1. IInv => OneLineAnInterval
  BY DEF IInv, OneLineAnInterval
<1> QED BY <1>1, CountersGood, PTL

\* Nothing is lost of what grew since the last clear, however long the session and
\* whichever lists and names: the points and what the next sample adds are all of it.
THEOREM NothingLost == Spec => []NothingLostSinceClear
<1>1. IInv /\ WholeGood /\ [Next]_vars => WholeGood'
  BY WholeStep
<1>2. WholeGood => NothingLostSinceClear
  BY DEF WholeGood, Whole, NothingLostSinceClear
<1> QED BY <1>1, <1>2, InitWhole, CountersGood, PTL DEF Spec

=============================================================================
