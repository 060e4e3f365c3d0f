------------------------- MODULE ProcessMatchProofs -------------------------
(* For every relation of texts and globs and all processes that there may be *)
(* at one time: a NAME that is not of digits selects exactly those that the  *)
(* documentation says it does; every NAME selects each of its processes once *)
(* and better matches first; and those are what a session tracks.            *)
EXTENDS SessionMatch, SessionProofs, FiniteSetTheorems

-----------------------------------------------------------------------------
(* /proc in the order of the PIDs. *)

\* Processes as they are at one time: a PID is the number of one of them.
OnePid(procs) ==
    /\ IsFiniteSet(procs)
    /\ \A p \in procs : p.pid \in Nat
    /\ \A p, q \in procs : p.pid = q.pid => p = q

\* In /proc they go by its digits.
Numbered(procs) ==
    /\ OnePid(procs)
    /\ \A p \in procs : PidText[p.pid] \in Digits
    /\ \A p, q \in procs : PidText[p.pid] = PidText[q.pid] => p = q

\* Those that /proc lists are some of them.
LEMMA ListedOnePid ==
    ASSUME NEW procs, OnePid(procs)
    PROVE  scan_processes(procs) \in SUBSET procs /\ OnePid(scan_processes(procs))
<1>1. scan_processes(procs) \in SUBSET procs
  BY DEF scan_processes
<1>2. IsFiniteSet(scan_processes(procs))
  BY <1>1, FS_Subset DEF OnePid
<1> QED BY <1>1, <1>2 DEF OnePid

\* A list of processes in the order of their PIDs.
InOrder(list, procs) ==
    /\ list \in [1..Cardinality(procs) -> procs]
    /\ \A i, j \in DOMAIN list : i < j => list[i].pid < list[j].pid

\* The one with the least PID comes before the others.
LEMMA LeastFirst ==
    ASSUME NEW T, OnePid(T), NEW n \in Nat, Cardinality(T) = n + 1
    PROVE  \E p \in T : /\ \A q \in T \ {p} : p.pid < q.pid
                        /\ Cardinality(T \ {p}) = n
<1> DEFINE pids == {p.pid : p \in T}
<1>1. T # {} /\ IsFiniteSet(T)
  BY FS_EmptySet DEF OnePid
<1>2. pids \in SUBSET Nat /\ pids # {}
  BY <1>1 DEF OnePid
<1>3. PICK x \in pids : \A y \in pids : x <= y
  <2> HIDE DEF pids
  <2> QED BY <1>2, LeastNumber
<1>4. PICK p \in T : p.pid = x
  BY <1>3
<1>5. ASSUME NEW q \in T \ {p} PROVE p.pid < q.pid
  <2>1. p.pid <= q.pid /\ p.pid # q.pid /\ p.pid \in Nat /\ q.pid \in Nat
    BY <1>3, <1>4 DEF OnePid
  <2> QED BY <2>1
<1>6. Cardinality(T \ {p}) = n
  <2>1. Cardinality(T \ {p}) = Cardinality(T) - 1
    BY <1>1, FS_RemoveElement
  <2> QED BY <2>1
<1> QED BY <1>5, <1>6

\* Any processes can be listed so.
LEMMA OrderExists ==
    ASSUME NEW procs, OnePid(procs)
    PROVE  \E list : InOrder(list, procs)
<1> DEFINE S == {n \in Nat : \A T \in SUBSET procs :
                    Cardinality(T) = n => \E list : InOrder(list, T)}
<1>1. \A T \in SUBSET procs : OnePid(T)
  <2> SUFFICES ASSUME NEW T \in SUBSET procs PROVE OnePid(T)
    OBVIOUS
  <2>1. IsFiniteSet(T)
    BY FS_Subset DEF OnePid
  <2> QED BY <2>1 DEF OnePid
<1>2. 0 \in S
  <2> SUFFICES ASSUME NEW T \in SUBSET procs, Cardinality(T) = 0
               PROVE  \E list : InOrder(list, T)
    OBVIOUS
  <2>1. [i \in {} |-> i] \in [1..Cardinality(T) -> T]
    OBVIOUS
  <2>2. InOrder([i \in {} |-> i], T)
    BY <2>1 DEF InOrder
  <2> QED BY <2>2
<1>3. ASSUME NEW n \in Nat, n \in S PROVE n + 1 \in S
  <2> SUFFICES ASSUME NEW T \in SUBSET procs, Cardinality(T) = n + 1
               PROVE  \E list : InOrder(list, T)
    OBVIOUS
  <2>1. PICK p \in T : /\ \A q \in T \ {p} : p.pid < q.pid
                       /\ Cardinality(T \ {p}) = n
    BY <1>1, LeastFirst
  <2>2. PICK rest : InOrder(rest, T \ {p})
    BY <1>3, <2>1
  <2>3. /\ rest \in [1..n -> T \ {p}]
        /\ \A i, j \in 1..n : i < j => rest[i].pid < rest[j].pid
    BY <2>1, <2>2 DEF InOrder
  <2> DEFINE list == [i \in 1..(n + 1) |-> IF i = 1 THEN p ELSE rest[i - 1]]
  <2>4. list \in [1..(n + 1) -> T]
    BY <2>3
  <2>5. ASSUME NEW i \in 1..(n + 1), NEW j \in 1..(n + 1), i < j
        PROVE  list[i].pid < list[j].pid
    <3>1. j - 1 \in 1..n /\ list[j] = rest[j - 1]
      BY <2>5
    <3>2. CASE i = 1
      BY <2>1, <2>3, <3>1, <3>2
    <3>3. CASE i # 1
      <4>1. i - 1 \in 1..n /\ i - 1 < j - 1 /\ list[i] = rest[i - 1]
        BY <2>5, <3>3
      <4> QED BY <2>3, <3>1, <4>1
    <3> QED BY <3>2, <3>3
  <2> HIDE DEF list
  <2>6. InOrder(list, T)
    BY <2>4, <2>5 DEF InOrder
  <2> QED BY <2>6
<1> HIDE DEF S
<1>4. Nat \subseteq S
  BY <1>2, <1>3, Induction
<1>5. Cardinality(procs) \in S
  BY <1>4, FS_CardinalityType DEF OnePid
<1> QED BY <1>5 DEF S

\* ByPid lists all of them, each once.
LEMMA ByPidLists ==
    ASSUME NEW procs, OnePid(procs)
    PROVE  /\ ByPid(procs) \in Seq(procs)
           /\ ToSet(ByPid(procs)) = procs
           /\ \A i, j \in DOMAIN ByPid(procs) :
                 i < j => ByPid(procs)[i].pid < ByPid(procs)[j].pid
<1> DEFINE list == ByPid(procs)
           n == Cardinality(procs)
<1>1. n \in Nat /\ IsFiniteSet(procs)
  BY FS_CardinalityType DEF OnePid
<1>2. InOrder(list, procs)
  BY OrderExists DEF ByPid, InOrder
<1> HIDE DEF list
<1>3. /\ list \in [1..n -> procs] /\ DOMAIN list = 1..n
      /\ \A i, j \in 1..n : i < j => list[i].pid < list[j].pid
  BY <1>1, <1>2 DEF InOrder
<1>4. list \in Injection(1..n, procs)
  <2>1. ASSUME NEW i \in 1..n, NEW j \in 1..n, list[i] = list[j] PROVE i = j
    <3>1. ~ (list[i].pid < list[i].pid)
      BY <1>3 DEF OnePid
    <3> QED BY <1>3, <2>1, <3>1
  <2> QED BY <1>3, <2>1 DEF Injection, IsInjective
<1>5. IsFiniteSet(1..n) /\ Cardinality(1..n) = n
  BY <1>1, FS_Interval
<1>6. list \in Surjection(1..n, procs)
  <2> HIDE DEF n
  <2> QED BY <1>1, <1>4, <1>5, FS_Injection DEF n
<1>7. ToSet(list) = procs
  BY <1>3, <1>6 DEF ToSet, Surjection
<1> HIDE DEF n
<1>8. list \in Seq(procs)
  BY <1>1, <1>3, SeqDef
<1> QED BY <1>3, <1>7, <1>8 DEF list

-----------------------------------------------------------------------------
(* One kind of match after the other. *)

\* What the first kinds of match find.
FoundBy(tries, k) == UNION {tries[j] : j \in 1..k}

\* A process is found by a kind that comes before those that find the other.
Better(tries, p, q) ==
    \E k \in 1..Len(tries) : p \in FoundBy(tries, k) /\ q \notin FoundBy(tries, k)

\* The same kind is the first to find both.
AsGood(tries, p, q) ==
    \A k \in 1..Len(tries) : p \in FoundBy(tries, k) <=> q \in FoundBy(tries, k)

Before(tries, p, q) ==
    \/ Better(tries, p, q)
    \/ AsGood(tries, p, q) /\ p.pid < q.pid

\* What is to be listed after the first kinds of match.
ListUpto(tries, k, list) ==
    /\ list \in Seq(FoundBy(tries, k))
    /\ ToSet(list) = FoundBy(tries, k)
    /\ \A i, j \in DOMAIN list : i < j => Before(tries, list[i], list[j])

\* A kind finds its own besides what those before it found.
LEMMA FoundMore ==
    ASSUME NEW tries, NEW k \in Nat
    PROVE  /\ k = 0 => FoundBy(tries, k) = {}
           /\ k > 0 => FoundBy(tries, k) = FoundBy(tries, k - 1) \cup tries[k]
           /\ \A j \in 0..k : FoundBy(tries, j) \subseteq FoundBy(tries, k)
<1>1. k = 0 => FoundBy(tries, k) = {}
  BY DEF FoundBy
<1>2. ASSUME k > 0 PROVE FoundBy(tries, k) = FoundBy(tries, k - 1) \cup tries[k]
  <2>1. 1..k = (1..(k - 1)) \cup {k}
    BY <1>2
  <2> QED BY <2>1 DEF FoundBy
<1>3. ASSUME NEW j \in 0..k PROVE FoundBy(tries, j) \subseteq FoundBy(tries, k)
  <2>1. 1..j \subseteq 1..k
    OBVIOUS
  <2> QED BY <2>1 DEF FoundBy
<1> QED BY <1>1, <1>2, <1>3

\* What an added list has at a place.
LEMMA JoinedAt ==
    ASSUME NEW S, NEW old \in Seq(S), NEW new \in Seq(S)
    PROVE  /\ old \o new \in Seq(S)
           /\ ToSet(old \o new) = ToSet(old) \cup ToSet(new)
           /\ \A i \in DOMAIN (old \o new) :
                 \/ i \in DOMAIN old /\ (old \o new)[i] = old[i]
                 \/ i - Len(old) \in DOMAIN new /\ (old \o new)[i] = new[i - Len(old)]
           /\ \A i \in DOMAIN (old \o new) : i \in DOMAIN old <=> i <= Len(old)
<1> DEFINE all == old \o new
<1>1. all \in Seq(S)
  OBVIOUS
<1>2. DOMAIN all = 1..(Len(old) + Len(new)) /\ DOMAIN old = 1..Len(old)
      /\ DOMAIN new = 1..Len(new) /\ Len(old) \in Nat /\ Len(new) \in Nat
  OBVIOUS
<1>3. \A i \in DOMAIN old : i \in DOMAIN all /\ all[i] = old[i]
  OBVIOUS
<1>4. \A i \in DOMAIN new : i + Len(old) \in DOMAIN all /\ all[i + Len(old)] = new[i]
  OBVIOUS
<1>5. \A i \in DOMAIN all :
         \/ i \in DOMAIN old /\ all[i] = old[i]
         \/ i - Len(old) \in DOMAIN new /\ all[i] = new[i - Len(old)]
  OBVIOUS
<1> HIDE DEF all
<1>6. ToSet(all) = ToSet(old) \cup ToSet(new)
  <2>1. ASSUME NEW x \in ToSet(all) PROVE x \in ToSet(old) \cup ToSet(new)
    <3>1. PICK i \in DOMAIN all : x = all[i]
      BY <2>1 DEF ToSet
    <3> QED BY <1>5, <3>1 DEF ToSet
  <2>2. ToSet(old) \subseteq ToSet(all)
    BY <1>3 DEF ToSet
  <2>3. ToSet(new) \subseteq ToSet(all)
    BY <1>4 DEF ToSet
  <2> QED BY <2>1, <2>2, <2>3
<1> QED BY <1>1, <1>2, <1>5, <1>6 DEF all

\* Three kinds and those after them.
LEMMA ThreeAndMore ==
    ASSUME NEW S, NEW old \in Seq(S), NEW new \in Seq(S), Len(old) = 3
    PROVE  /\ old \o new \in Seq(S) /\ Len(old \o new) = 3 + Len(new)
           /\ \A i \in 1..3 : (old \o new)[i] = old[i]
           /\ \A i \in 4..(3 + Len(new)) : (old \o new)[i] = new[i - 3]
<1> DEFINE all == old \o new
<1>1. all \in Seq(S) /\ Len(new) \in Nat
  OBVIOUS
<1>2. Len(all) = Len(old) + Len(new)
  BY ConcatProperties, Zenon
<1>3. \A i \in 1..(Len(old) + Len(new)) :
          all[i] = IF i <= Len(old) THEN old[i] ELSE new[i - Len(old)]
  BY ConcatProperties, Zenon
<1> HIDE DEF all
<1>4. \A i \in 1..(3 + Len(new)) : all[i] = IF i <= 3 THEN old[i] ELSE new[i - 3]
  BY <1>3
<1>5. ASSUME NEW i \in 4..(3 + Len(new)) PROVE all[i] = new[i - 3]
  BY <1>1, <1>4
<1>6. \A i \in 1..3 : all[i] = old[i]
  BY <1>1, <1>4
<1> QED BY <1>1, <1>2, <1>5, <1>6 DEF all

\* Any kind of match lists what it finds after what was found before.
LEMMA AddLists ==
    ASSUME NEW procs, OnePid(procs), NEW tries \in Seq(SUBSET procs),
           NEW k \in 1..Len(tries), NEW list, ListUpto(tries, k - 1, list)
    PROVE  ListUpto(tries, k, add(list, tries[k]))
<1> DEFINE old == FoundBy(tries, k - 1)
           fresh == tries[k] \ old
           new == ByPid(fresh)
           all == list \o new
<1>1. /\ list \in Seq(old) /\ ToSet(list) = old
      /\ \A i, j \in DOMAIN list : i < j => Before(tries, list[i], list[j])
  BY DEF ListUpto
<1>2. /\ FoundBy(tries, k) = old \cup fresh
      /\ add(list, tries[k]) = all
  <2>1. FoundBy(tries, k) = old \cup tries[k]
    BY FoundMore
  <2>2. tries[k] \ ToSet(list) = fresh
    BY <1>1
  <2> HIDE DEF old, fresh
  <2>3. add(list, tries[k]) = all
    BY <2>2 DEF add
  <2> USE DEF fresh
  <2> QED BY <2>1, <2>3
<1>3. OnePid(fresh)
  <2>1. fresh \in SUBSET procs
    OBVIOUS
  <2>2. IsFiniteSet(fresh)
    <3> HIDE DEF fresh
    <3> QED BY <2>1, FS_Subset DEF OnePid
  <2> HIDE DEF fresh
  <2> QED BY <2>1, <2>2 DEF OnePid
<1>4. \A j \in 1..Len(tries) :
         /\ j <= k - 1 => FoundBy(tries, j) \subseteq old
         /\ j >= k => old \cup fresh \subseteq FoundBy(tries, j)
  <2> HIDE DEF old, fresh
  <2>1. \A j \in 1..Len(tries) : j <= k - 1 => FoundBy(tries, j) \subseteq FoundBy(tries, k - 1)
    BY FoundMore
  <2>2. \A j \in 1..Len(tries) : j >= k => FoundBy(tries, k) \subseteq FoundBy(tries, j)
    BY FoundMore
  <2> QED BY <1>2, <2>1, <2>2 DEF old
<1>5. k = 1 => old = {}
  BY FoundMore
<1>6. old \cap fresh = {}
  OBVIOUS
<1> HIDE DEF old, fresh
<1>7. /\ new \in Seq(fresh) /\ ToSet(new) = fresh
      /\ \A i, j \in DOMAIN new : i < j => new[i].pid < new[j].pid
  BY <1>3, ByPidLists
<1> HIDE DEF new
<1>8. list \in Seq(old \cup fresh) /\ new \in Seq(old \cup fresh)
  BY <1>1, <1>7
<1>9. /\ all \in Seq(old \cup fresh)
      /\ ToSet(all) = old \cup fresh
      /\ \A i \in DOMAIN all :
            \/ i \in DOMAIN list /\ all[i] = list[i]
            \/ i - Len(list) \in DOMAIN new /\ all[i] = new[i - Len(list)]
      /\ \A i \in DOMAIN all : i \in DOMAIN list <=> i <= Len(list)
  BY <1>1, <1>7, <1>8, JoinedAt
<1>10. DOMAIN all \subseteq Int /\ Len(list) \in Nat
  BY <1>1, <1>9
<1> HIDE DEF all
<1>11. ASSUME NEW i \in DOMAIN all, NEW j \in DOMAIN all, i < j
       PROVE  Before(tries, all[i], all[j])
  <2>1. CASE j \in DOMAIN list
    <3>1. j <= Len(list) /\ i \in Int /\ j \in Int
      BY <1>9, <1>10, <2>1
    <3>2. i <= Len(list)
      BY <1>10, <1>11, <3>1
    <3>3. i \in DOMAIN list /\ all[i] = list[i] /\ all[j] = list[j]
      <4>1. DOMAIN list = 1..Len(list) /\ DOMAIN new = 1..Len(new)
        BY <1>1, <1>7
      <4> QED BY <1>9, <1>10, <3>1, <3>2, <4>1
    <3> QED BY <1>1, <1>11, <2>1, <3>3
  <2>2. CASE j \notin DOMAIN list /\ i \in DOMAIN list
    <3>1. all[j] \in fresh
      BY <1>7, <1>9, <2>2 DEF ToSet
    <3>2. all[i] \in old
      <4>1. DOMAIN list = 1..Len(list) /\ DOMAIN new = 1..Len(new)
        BY <1>1, <1>7
      <4>2. all[i] = list[i]
        BY <1>9, <1>10, <2>2, <4>1
      <4> QED BY <1>1, <2>2, <4>2 DEF ToSet
    <3>3. k - 1 \in 1..Len(tries)
      BY <1>5, <3>2
    <3>4. all[j] \notin old
      BY <1>6, <3>1
    <3> QED BY <3>2, <3>3, <3>4 DEF Before, Better, old
  <2>3. CASE j \notin DOMAIN list /\ i \notin DOMAIN list
    <3>1. /\ i - Len(list) \in DOMAIN new /\ all[i] = new[i - Len(list)]
          /\ j - Len(list) \in DOMAIN new /\ all[j] = new[j - Len(list)]
          /\ i - Len(list) < j - Len(list)
      BY <1>9, <1>10, <1>11, <2>3
    <3>2. all[i].pid < all[j].pid
      BY <1>7, <3>1
    <3>3. all[i] \in fresh /\ all[j] \in fresh
      BY <1>7, <3>1 DEF ToSet
    <3>4. AsGood(tries, all[i], all[j])
      <4> SUFFICES ASSUME NEW m \in 1..Len(tries)
                   PROVE  all[i] \in FoundBy(tries, m) <=> all[j] \in FoundBy(tries, m)
        BY DEF AsGood
      <4>1. CASE m <= k - 1
        BY <1>4, <1>6, <3>3, <4>1
      <4>2. CASE m >= k
        BY <1>4, <3>3, <4>2
      <4> QED BY <4>1, <4>2
    <3> QED BY <3>2, <3>4 DEF Before
  <2> QED BY <2>1, <2>2, <2>3
<1> QED BY <1>2, <1>9, <1>11 DEF ListUpto

\* The kinds that every NAME is tried for, and those after them.
FirstKinds(name, procs) ==
    << {p \in procs : name \in {p.comm, p.exe_base}},
       {p \in procs : p.exe = name},
       {p \in procs : p.title = name} >>
GlobKinds(name, procs) ==
    << {p \in procs : \/ Matching(p.exe_base, name, Fits)
                      \/ Matching(p.comm, name, Fits)},
       {p \in procs : Matching(p.exe, name, FitsPath)},
       {p \in procs : Matching(p.exe, name, Fits)},
       {p \in procs : Matching(p.title, name, Fits)} >>
PlainKinds(name, procs) ==
    << {p \in procs : p.title # Nothing /\ title_matches_plain(p.title, name)} >>
MoreKinds(name, procs) ==
    IF name_has_glob(name) THEN GlobKinds(name, procs) ELSE PlainKinds(name, procs)

LEMMA MoreKindsAre ==
    ASSUME NEW name, NEW procs
    PROVE  /\ MoreKinds(name, procs) \in Seq(SUBSET procs)
           /\ Len(MoreKinds(name, procs)) = IF name_has_glob(name) THEN 4 ELSE 1
<1>1. GlobKinds(name, procs) \in Seq(SUBSET procs) /\ Len(GlobKinds(name, procs)) = 4
  BY DEF GlobKinds
<1>2. PlainKinds(name, procs) \in Seq(SUBSET procs) /\ Len(PlainKinds(name, procs)) = 1
  BY DEF PlainKinds
<1> QED BY <1>1, <1>2 DEF MoreKinds

LEMMA FirstKindsAre ==
    ASSUME NEW name, NEW procs
    PROVE  /\ FirstKinds(name, procs) \in Seq(SUBSET procs)
           /\ Len(FirstKinds(name, procs)) = 3
BY DEF FirstKinds

LEMMA TriesJoin ==
    ASSUME NEW name, NEW procs
    PROVE  Tries(name, procs) = FirstKinds(name, procs) \o MoreKinds(name, procs)
BY DEF Tries, FirstKinds, MoreKinds, GlobKinds, PlainKinds

\* A NAME with a glob is tried in seven ways, one without in four.
LEMMA NumberOfKinds ==
    ASSUME NEW name, NEW procs
    PROVE  Len(Tries(name, procs)) = IF name_has_glob(name) THEN 7 ELSE 4
<1> DEFINE first == FirstKinds(name, procs)
           more == MoreKinds(name, procs)
<1>1. Tries(name, procs) = first \o more
  BY TriesJoin
<1>2. first \in Seq(SUBSET procs) /\ Len(first) = 3
  BY FirstKindsAre
<1>3. more \in Seq(SUBSET procs) /\ Len(more) = IF name_has_glob(name) THEN 4 ELSE 1
  BY MoreKindsAre
<1> HIDE DEF first, more
<1>4. Len(first \o more) = 3 + Len(more)
  BY <1>2, <1>3, ThreeAndMore
<1> QED BY <1>1, <1>3, <1>4

\* Each finds some of the processes.
LEMMA TriesFindSome ==
    ASSUME NEW name, NEW procs
    PROVE  /\ Tries(name, procs) \in Seq(SUBSET procs)
           /\ Len(Tries(name, procs)) \in Nat
           /\ \A i \in 1..Len(Tries(name, procs)) : Tries(name, procs)[i] \in SUBSET procs
<1> DEFINE first == FirstKinds(name, procs)
           more == MoreKinds(name, procs)
           all == first \o more
<1>1. Tries(name, procs) = all
  BY TriesJoin
<1>2. first \in Seq(SUBSET procs) /\ more \in Seq(SUBSET procs)
  BY FirstKindsAre, MoreKindsAre
<1> HIDE DEF first, more
<1>3. all \in Seq(SUBSET procs)
  BY <1>2
<1> HIDE DEF all
<1>4. Len(all) \in Nat /\ \A i \in 1..Len(all) : all[i] \in SUBSET procs
  BY <1>3
<1> QED BY <1>1, <1>3, <1>4

LEMMA TriesAt ==
    ASSUME NEW name, NEW procs
    PROVE  /\ \A i \in 1..3 : Tries(name, procs)[i] = FirstKinds(name, procs)[i]
           /\ \A i \in 4..(3 + Len(MoreKinds(name, procs))) :
                 Tries(name, procs)[i] = MoreKinds(name, procs)[i - 3]
<1> DEFINE first == FirstKinds(name, procs)
           more == MoreKinds(name, procs)
<1>1. Tries(name, procs) = first \o more
  BY TriesJoin
<1>2. first \in Seq(SUBSET procs) /\ Len(first) = 3 /\ more \in Seq(SUBSET procs)
  BY FirstKindsAre, MoreKindsAre
<1> HIDE DEF first, more
<1>3. \A i \in 1..3 : (first \o more)[i] = first[i]
  BY <1>2, ThreeAndMore
<1>4. \A i \in 4..(3 + Len(more)) : (first \o more)[i] = more[i - 3]
  BY <1>2, ThreeAndMore
<1> QED BY <1>1, <1>3, <1>4 DEF first, more

\* What each of them finds.
LEMMA FirstKindsFind ==
    ASSUME NEW name, NEW procs, NEW p \in procs
    PROVE  /\ p \in Tries(name, procs)[1] <=> name \in {p.comm, p.exe_base}
           /\ p \in Tries(name, procs)[2] <=> p.exe = name
           /\ p \in Tries(name, procs)[3] <=> p.title = name
<1>1. \A i \in 1..3 : Tries(name, procs)[i] = FirstKinds(name, procs)[i]
  BY TriesAt
<1> QED BY <1>1 DEF FirstKinds

LEMMA GlobKindsFind ==
    ASSUME NEW name, name_has_glob(name), NEW procs, NEW p \in procs
    PROVE  /\ p \in Tries(name, procs)[4] <=> \/ Matching(p.exe_base, name, Fits)
                                              \/ Matching(p.comm, name, Fits)
           /\ p \in Tries(name, procs)[5] <=> Matching(p.exe, name, FitsPath)
           /\ p \in Tries(name, procs)[6] <=> Matching(p.exe, name, Fits)
           /\ p \in Tries(name, procs)[7] <=> Matching(p.title, name, Fits)
<1> DEFINE tries == Tries(name, procs)
           glob == GlobKinds(name, procs)
<1>1. MoreKinds(name, procs) = glob /\ Len(glob) = 4
  BY DEF MoreKinds, GlobKinds
<1> HIDE DEF tries, glob
<1>2. \A i \in 4..7 : tries[i] = glob[i - 3]
  BY <1>1, TriesAt DEF tries
<1> QED BY <1>2 DEF GlobKinds, tries, glob

LEMMA PlainKindsFind ==
    ASSUME NEW name, ~name_has_glob(name), NEW procs, NEW p \in procs
    PROVE  p \in Tries(name, procs)[4]
              <=> p.title # Nothing /\ title_matches_plain(p.title, name)
<1> DEFINE tries == Tries(name, procs)
           plain == PlainKinds(name, procs)
<1>1. MoreKinds(name, procs) = plain /\ Len(plain) = 1
  BY DEF MoreKinds, PlainKinds
<1> HIDE DEF tries, plain
<1>2. \A i \in 4..4 : tries[i] = plain[i - 3]
  BY <1>1, TriesAt DEF tries
<1> QED BY <1>2 DEF PlainKinds, tries, plain

\* They are tried one by one, for the processes that are listed.
LEMMA TriedInTurn ==
    ASSUME NEW procs, OnePid(procs), NEW name
    PROVE  LET tries == Tries(name, scan_processes(procs))
               n == Len(tries)
           IN  \E f : /\ f[0] = <<>> /\ resolve_plain(name, procs) = f[n]
                      /\ \A i \in 1..n : f[i] = add(f[i - 1], tries[i])
<1> DEFINE listed == scan_processes(procs)
           tries == Tries(name, listed)
           n == Len(tries)
           V == Seq(listed)
           Step == [i \in 1..n |-> [v \in V |-> add(v, tries[i])]]
           Eq(f) == f = [i \in 0..n |-> IF i = 0 THEN <<>>
                                        ELSE add(f[i - 1], tries[i])]
<1>0. OnePid(listed)
  BY ListedOnePid
<1>1. /\ tries \in Seq(SUBSET listed) /\ n \in Nat
      /\ \A i \in 1..n : tries[i] \in SUBSET listed
  BY TriesFindSome
<1>2. resolve_plain(name, procs) = (CHOOSE f : Eq(f))[n]
  BY DEF resolve_plain
<1> HIDE DEF listed, tries, n
<1>3. ASSUME NEW i \in 1..n, NEW v \in V PROVE add(v, tries[i]) \in V
  <2> DEFINE fresh == tries[i] \ ToSet(v)
  <2>1. fresh \in SUBSET listed
    BY <1>1
  <2> HIDE DEF fresh
  <2>2. OnePid(fresh)
    <3>1. IsFiniteSet(fresh)
      BY <1>0, <2>1, FS_Subset DEF OnePid
    <3> QED BY <1>0, <2>1, <3>1 DEF OnePid
  <2>3. ByPid(fresh) \in Seq(fresh)
    BY <2>2, ByPidLists
  <2>4. ByPid(fresh) \in Seq(listed)
    BY <2>1, <2>3
  <2> QED BY <2>4 DEF add, fresh
<1>4. <<>> \in V /\ Step \in [1..n -> [V -> V]]
  BY <1>3
<1> HIDE DEF V
<1>5. PICK f : Made(f, n, V, <<>>, Step)
  <2> HIDE DEF Step
  <2> QED BY <1>1, <1>4, RecursionExists
<1>6. /\ f \in [0..n -> V] /\ f[0] = <<>>
      /\ \A i \in 1..n : f[i] = add(f[i - 1], tries[i])
  BY <1>1, <1>5 DEF Made
<1>7. Eq(f)
  BY <1>1, <1>6
<1> DEFINE g == CHOOSE h : Eq(h)
<1>8. Eq(g)
  <2> HIDE DEF Eq
  <2> QED BY <1>7
<1>9. g[0] = <<>> /\ \A i \in 1..n : g[i] = add(g[i - 1], tries[i])
  <2> HIDE DEF g
  <2> QED BY <1>1, <1>8
<1>10. resolve_plain(name, procs) = g[n]
  BY <1>2
<1> HIDE DEF g
<1> QED BY <1>9, <1>10 DEF n, tries, listed

\* In the end all that any of them finds is listed, each once, in their order.
LEMMA PlainLists ==
    ASSUME NEW procs, OnePid(procs), NEW name
    PROVE  LET tries == Tries(name, scan_processes(procs))
           IN  ListUpto(tries, Len(tries), resolve_plain(name, procs))
<1> DEFINE listed == scan_processes(procs)
           tries == Tries(name, listed)
           n == Len(tries)
<1>0. OnePid(listed)
  BY ListedOnePid
<1>1. tries \in Seq(SUBSET listed) /\ n \in Nat
  BY TriesFindSome
<1>2. PICK f : /\ f[0] = <<>> /\ resolve_plain(name, procs) = f[n]
               /\ \A i \in 1..n : f[i] = add(f[i - 1], tries[i])
  BY TriedInTurn
<1> HIDE DEF listed, tries
<1> DEFINE S == {i \in 0..n : ListUpto(tries, i, f[i])}
<1>3. 0 \in S
  <2>1. FoundBy(tries, 0) = {}
    BY FoundMore
  <2>2. ListUpto(tries, 0, <<>>)
    BY <2>1 DEF ListUpto, ToSet
  <2> QED BY <1>1, <1>2, <2>2
<1>4. ASSUME NEW i \in 1..n, i - 1 \in S PROVE i \in S
  <2>1. ListUpto(tries, i - 1, f[i - 1])
    BY <1>4
  <2>2. ListUpto(tries, i, add(f[i - 1], tries[i]))
    BY <1>0, <1>1, <2>1, AddLists
  <2> QED BY <1>1, <1>2, <2>2
<1> HIDE DEF S
<1>5. 0..n \subseteq S
  BY <1>1, <1>3, <1>4, InductionUpTo
<1>6. n \in S
  BY <1>1, <1>5
<1> QED BY <1>2, <1>6 DEF S, tries, listed

-----------------------------------------------------------------------------
(* The order of the kinds of match is the order of the ranks. *)

\* The tests of a rank are the kinds of match, up to the last kind.
LEMMA RankTests ==
    ASSUME NEW name, name # Nothing, NEW procs, NEW p \in procs
    PROVE  LET tries == Tries(name, procs)
           IN  \E kind :
                 /\ Rank(name, p) = CHOOSE r \in 1..7 :
                        kind[r] /\ \A better \in 1..(r - 1) : ~kind[better]
                 /\ kind[7]
                 /\ \A k \in 1..(Len(tries) - 1) : kind[k] <=> p \in tries[k]
                 /\ \A k \in Len(tries)..6 : ~kind[k]
<1> DEFINE tries == Tries(name, procs)
           glob(texts, fits) == name_has_glob(name) /\ (texts \ {Nothing}) \cap fits[name] # {}
           k1 == name \in {p.comm, p.exe_base}
           k2 == name = p.exe
           k3 == name = p.title
           k4 == glob({p.comm, p.exe_base}, Fits)
           k5 == glob({p.exe}, FitsPath)
           k6 == glob({p.exe}, Fits)
           kind == <<k1, k2, k3, k4, k5, k6, TRUE>>
<1>1. DOMAIN kind = 1..7
  OBVIOUS
<1>2. Rank(name, p) = CHOOSE r \in DOMAIN kind :
                         kind[r] /\ \A better \in 1..(r - 1) : ~kind[better]
  BY DEF Rank
<1>3. /\ k1 <=> p \in tries[1]
      /\ k2 <=> p \in tries[2]
      /\ k3 <=> p \in tries[3]
      /\ Len(tries) = IF name_has_glob(name) THEN 7 ELSE 4
  BY NumberOfKinds, FirstKindsFind
<1>4. ASSUME name_has_glob(name)
      PROVE  /\ k4 <=> p \in tries[4]
             /\ k5 <=> p \in tries[5]
             /\ k6 <=> p \in tries[6]
  <2>1. /\ p \in tries[4] <=> \/ Matching(p.exe_base, name, Fits)
                              \/ Matching(p.comm, name, Fits)
        /\ p \in tries[5] <=> Matching(p.exe, name, FitsPath)
        /\ p \in tries[6] <=> Matching(p.exe, name, Fits)
    BY <1>4, GlobKindsFind
  <2> HIDE DEF tries
  <2>2. k4 <=> Matching(p.exe_base, name, Fits) \/ Matching(p.comm, name, Fits)
    BY <1>4 DEF Matching
  <2>3. k5 <=> Matching(p.exe, name, FitsPath)
    BY <1>4 DEF Matching
  <2>4. k6 <=> Matching(p.exe, name, Fits)
    BY <1>4 DEF Matching
  <2> HIDE DEF k4, k5, k6
  <2> QED BY <2>1, <2>2, <2>3, <2>4
<1>5. ~name_has_glob(name) => ~k4 /\ ~k5 /\ ~k6
  OBVIOUS
<1> HIDE DEF tries, k1, k2, k3, k4, k5, k6
<1>6. /\ kind[1] <=> k1
      /\ kind[2] <=> k2
      /\ kind[3] <=> k3
      /\ kind[4] <=> k4
      /\ kind[5] <=> k5
      /\ kind[6] <=> k6
      /\ kind[7]
  OBVIOUS
<1> HIDE DEF kind
<1>7. \A k \in 1..(Len(tries) - 1) : kind[k] <=> p \in tries[k]
  <2>1. \A k \in 1..3 : kind[k] <=> p \in tries[k]
    BY <1>3, <1>6
  <2>2. name_has_glob(name) => \A k \in 4..6 : kind[k] <=> p \in tries[k]
    BY <1>4, <1>6
  <2>3. ASSUME NEW k \in 1..(Len(tries) - 1) PROVE k \in 1..3 \/ (name_has_glob(name) /\ k \in 4..6)
    BY <1>3
  <2> QED BY <2>1, <2>2, <2>3
<1>8. \A k \in Len(tries)..6 : ~kind[k]
  <2>1. ~name_has_glob(name) => \A k \in 4..6 : ~kind[k]
    BY <1>5, <1>6
  <2> QED BY <1>3, <2>1
<1>9. Rank(name, p) = CHOOSE r \in 1..7 :
                         kind[r] /\ \A better \in 1..(r - 1) : ~kind[better]
  BY <1>1, <1>2
<1> QED BY <1>6, <1>7, <1>8, <1>9 DEF tries

\* The rank tells which kind of match is the first to find a process.
LEMMA RankUpto ==
    ASSUME NEW name, name # Nothing, NEW procs, NEW p \in procs
    PROVE  LET tries == Tries(name, procs)
           IN  /\ Rank(name, p) \in 1..7
               /\ \A k \in 1..(Len(tries) - 1) :
                     Rank(name, p) <= k <=> p \in FoundBy(tries, k)
               /\ Rank(name, p) >= Len(tries) => Rank(name, p) = 7
<1> DEFINE tries == Tries(name, procs)
           r == Rank(name, p)
<1>1. PICK kind :
         /\ r = CHOOSE i \in 1..7 :
                   kind[i] /\ \A better \in 1..(i - 1) : ~kind[better]
         /\ kind[7]
         /\ \A k \in 1..(Len(tries) - 1) : kind[k] <=> p \in tries[k]
         /\ \A k \in Len(tries)..6 : ~kind[k]
  BY RankTests
<1>2. Len(tries) \in {4, 7}
  BY NumberOfKinds
<1> HIDE DEF tries, r
<1>3. r \in 1..7 /\ kind[r] /\ \A better \in 1..(r - 1) : ~kind[better]
  <2> DEFINE T == {i \in 1..7 : kind[i]}
  <2>1. T \in SUBSET Nat /\ T # {}
    BY <1>1
  <2>2. PICK x \in T : \A y \in T : x <= y
    <3> HIDE DEF T
    <3> QED BY <2>1, LeastNumber
  <2>3. x \in 1..7 /\ kind[x] /\ \A better \in 1..(x - 1) : ~kind[better]
    BY <2>2
  <2> QED BY <1>1, <2>3
<1>4. ASSUME NEW k \in 1..(Len(tries) - 1)
      PROVE  r <= k <=> p \in FoundBy(tries, k)
  <2>1. p \in FoundBy(tries, k) <=> \E j \in 1..k : p \in tries[j]
    BY DEF FoundBy
  <2>2. \A j \in 1..k : p \in tries[j] <=> kind[j]
    BY <1>1, <1>2
  <2>3. r <= k => \E j \in 1..k : kind[j]
    BY <1>3
  <2>4. ASSUME NEW j \in 1..k, kind[j] PROVE r <= k
    BY <1>2, <1>3, <2>4
  <2> QED BY <2>1, <2>2, <2>3, <2>4
<1>5. r >= Len(tries) => r = 7
  BY <1>1, <1>2, <1>3
<1> QED BY <1>3, <1>4, <1>5 DEF r, tries

\* What is listed before ranks before, or as high with a smaller PID.
LEMMA BeforeRanks ==
    ASSUME NEW name, name # Nothing, NEW procs, NEW p \in procs, NEW q \in procs,
           LET tries == Tries(name, procs)
           IN  /\ p \in FoundBy(tries, Len(tries)) /\ q \in FoundBy(tries, Len(tries))
               /\ Before(tries, p, q)
    PROVE  \/ Rank(name, p) < Rank(name, q)
           \/ Rank(name, p) = Rank(name, q) /\ p.pid < q.pid
<1> DEFINE tries == Tries(name, procs)
           n == Len(tries)
           rank(x) == Rank(name, x)
<1>1. n \in {4, 7}
  BY NumberOfKinds
<1>2. /\ rank(p) \in 1..7 /\ \A k \in 1..(n - 1) : rank(p) <= k <=> p \in FoundBy(tries, k)
      /\ rank(p) >= n => rank(p) = 7
  BY RankUpto
<1>3. /\ rank(q) \in 1..7 /\ \A k \in 1..(n - 1) : rank(q) <= k <=> q \in FoundBy(tries, k)
      /\ rank(q) >= n => rank(q) = 7
  BY RankUpto
<1> HIDE DEF tries, rank
<1>4. CASE Better(tries, p, q)
  <2>1. PICK k \in 1..n : p \in FoundBy(tries, k) /\ q \notin FoundBy(tries, k)
    BY <1>4 DEF Better
  <2>2. k # n
    BY <2>1 DEF tries
  <2>3. k \in 1..(n - 1)
    BY <1>1, <2>2
  <2> QED BY <1>2, <1>3, <2>1, <2>3 DEF rank
<1>5. CASE AsGood(tries, p, q) /\ p.pid < q.pid
  <2>1. \A k \in 1..(n - 1) : rank(p) <= k <=> rank(q) <= k
    BY <1>1, <1>2, <1>3, <1>5 DEF AsGood
  <2>2. rank(p) = rank(q)
    <3>1. CASE rank(p) < n
      <4>1. rank(p) \in 1..(n - 1)
        BY <1>1, <1>2, <3>1
      <4>2. rank(q) <= rank(p)
        BY <1>2, <2>1, <4>1
      <4>3. rank(q) \in 1..(n - 1)
        BY <1>1, <1>2, <1>3, <3>1, <4>2
      <4>4. rank(p) <= rank(q)
        BY <1>3, <2>1, <4>3
      <4> QED BY <1>2, <1>3, <4>2, <4>4
    <3>2. CASE rank(p) >= n
      <4>1. rank(q) >= n
        <5>1. CASE rank(q) < n
          <6>1. rank(q) \in 1..(n - 1) /\ rank(q) <= rank(q)
            BY <1>1, <1>3, <5>1
          <6>2. rank(p) <= rank(q)
            BY <2>1, <6>1
          <6> QED BY <1>1, <1>2, <1>3, <3>2, <5>1, <6>2
        <5> QED BY <1>1, <1>3, <5>1
      <4> QED BY <1>2, <1>3, <3>2, <4>1
    <3> QED BY <1>1, <1>2, <3>1, <3>2
  <2> QED BY <1>5, <2>2 DEF rank
<1>6. Before(tries, p, q)
  BY DEF tries
<1> QED BY <1>4, <1>5, <1>6 DEF Before

-----------------------------------------------------------------------------
(* What is promised. *)

\* One process, or none, is a list of its own.
LEMMA OneOrNone ==
    ASSUME NEW T, IsFiniteSet(T), \A p, q \in T : p = q
    PROVE  ToSet(SetToSeq(T)) = T /\ DOMAIN SetToSeq(T) \subseteq {1}
<1> DEFINE n == Cardinality(T)
           Lists(f) == f \in [1..n -> T] /\ IsInjective(f)
           list == SetToSeq(T)
<1>1. CASE T = {}
  <2>1. n = 0
    BY <1>1, FS_EmptySet
  <2>2. Lists([i \in {} |-> i])
    BY <2>1 DEF IsInjective
  <2>3. list \in [1..n -> T]
    BY <2>2 DEF SetToSeq
  <2>4. DOMAIN list = {}
    BY <2>1, <2>3
  <2> HIDE DEF list
  <2> QED BY <1>1, <2>4 DEF ToSet, list
<1>2. CASE T # {}
  <2>1. PICK p : T = {p}
    BY <1>2
  <2>2. n = 1
    BY <2>1, FS_Singleton
  <2>3. Lists([i \in 1..1 |-> p])
    BY <2>1, <2>2 DEF IsInjective
  <2>4. list \in [1..n -> T]
    BY <2>3 DEF SetToSeq
  <2>5. DOMAIN list = {1} /\ list[1] = p
    BY <2>1, <2>2, <2>4
  <2> HIDE DEF list
  <2> QED BY <2>1, <2>5 DEF ToSet, list
<1> QED BY <1>1, <1>2

\* The process that digits name.
LEMMA OneByNumber ==
    ASSUME NEW procs, Numbered(procs), NEW name
    PROVE  DOMAIN SetToSeq({p \in procs : PidText[p.pid] = name}) \subseteq {1}
<1> DEFINE T == {p \in procs : PidText[p.pid] = name}
<1>1. T \in SUBSET procs /\ \A p, q \in T : p = q
  BY DEF Numbered
<1> HIDE DEF T
<1>2. IsFiniteSet(T)
  BY <1>1, FS_Subset DEF Numbered, OnePid
<1>3. DOMAIN SetToSeq(T) \subseteq {1}
  BY <1>1, <1>2, OneOrNone
<1> QED BY <1>3 DEF T

\* A listed process is found by one of the kinds of match exactly when it is selected.
LEMMA FoundIsSelected ==
    ASSUME NEW name, name # Nothing, name \notin Digits, NEW procs, NEW p \in procs,
           p.listed, PidText[p.pid] \in Digits
    PROVE  LET tries == Tries(name, procs)
           IN  p \in FoundBy(tries, Len(tries)) <=> Selects(name, p)
<1> DEFINE tries == Tries(name, procs)
           texts == {p.comm, p.exe_base, p.exe, p.title} \ {Nothing}
<1>1. p \in FoundBy(tries, Len(tries)) <=> \E k \in 1..Len(tries) : p \in tries[k]
  BY DEF FoundBy
<1>2. /\ p \in tries[1] <=> name \in {p.comm, p.exe_base}
      /\ p \in tries[2] <=> p.exe = name
      /\ p \in tries[3] <=> p.title = name
  BY FirstKindsFind
<1>3. name \in texts <=> p \in tries[1] \/ p \in tries[2] \/ p \in tries[3]
  BY <1>2
<1>4. CASE name_has_glob(name)
  <2>1. Len(tries) = 7
    BY <1>4, NumberOfKinds
  <2>2. /\ p \in tries[4] <=> \/ Matching(p.exe_base, name, Fits)
                              \/ Matching(p.comm, name, Fits)
        /\ p \in tries[5] <=> Matching(p.exe, name, FitsPath)
        /\ p \in tries[6] <=> Matching(p.exe, name, Fits)
        /\ p \in tries[7] <=> Matching(p.title, name, Fits)
    BY <1>4, GlobKindsFind
  <2>3. p \in tries[5] => p \in tries[6]
    <3>1. FitsPath[name] \subseteq Fits[name]
      BY <1>4, TextAssumption DEF name_has_glob
    <3> QED BY <2>2, <3>1 DEF Matching
  <2>4. texts \cap Fits[name] # {} <=> p \in tries[4] \/ p \in tries[6] \/ p \in tries[7]
    BY <2>2 DEF Matching
  <2>5. Selects(name, p) <=> name \in texts \/ texts \cap Fits[name] # {}
    BY <1>4 DEF Selects
  <2> HIDE DEF tries, texts
  <2>6. (\E k \in 1..7 : p \in tries[k])
           <=> \/ p \in tries[1] \/ p \in tries[2] \/ p \in tries[3] \/ p \in tries[4]
               \/ p \in tries[5] \/ p \in tries[6] \/ p \in tries[7]
    BY SMT
  <2>7. p \in FoundBy(tries, Len(tries)) <=> Selects(name, p)
    BY <1>1, <1>3, <2>1, <2>3, <2>4, <2>5, <2>6
  <2> QED BY <2>7 DEF tries
<1>5. CASE ~name_has_glob(name)
  <2>1. Len(tries) = 4
    BY <1>5, NumberOfKinds
  <2>2. p \in tries[4] <=> p.title # Nothing /\ title_matches_plain(p.title, name)
    BY <1>5, PlainKindsFind
  <2>3. ~title_matches_plain(Nothing, name)
    <3>1. Len(Pieces[Nothing]) = 0
      BY TextAssumption
    <3> QED BY <3>1 DEF title_matches_plain
  <2>4. p \in tries[4] <=> title_matches_plain(p.title, name)
    BY <2>2, <2>3
  <2>5. Selects(name, p) <=> name \in texts \/ title_matches_plain(p.title, name)
    BY <1>5 DEF Selects
  <2> HIDE DEF tries, texts
  <2>6. (\E k \in 1..4 : p \in tries[k])
           <=> p \in tries[1] \/ p \in tries[2] \/ p \in tries[3] \/ p \in tries[4]
    BY SMT
  <2>7. p \in FoundBy(tries, Len(tries)) <=> Selects(name, p)
    BY <1>1, <1>3, <2>1, <2>4, <2>5, <2>6
  <2> QED BY <2>7 DEF tries
<1> QED BY <1>4, <1>5

\* For all processes that there may be, a NAME that is not of digits finds exactly
\* those that the documentation says it does.
LEMMA Documented ==
    ASSUME NEW name, name # Nothing, name \notin Digits, NEW procs, Numbered(procs)
    PROVE  FindsAsDocumented(name, procs)
<1> DEFINE listed == scan_processes(procs)
           tries == Tries(name, listed)
           found == FoundBy(tries, Len(tries))
<1>1. resolve_name(name, procs) = resolve_plain(name, procs)
  BY DEF resolve_name, is_pid_token
<1>2. ToSet(resolve_plain(name, procs)) = found
  BY PlainLists DEF ListUpto, Numbered
<1>3. found \subseteq listed
  <2>1. \A i \in 1..Len(tries) : tries[i] \in SUBSET listed
    BY TriesFindSome
  <2> QED BY <2>1 DEF FoundBy
<1>4. \A p \in listed : p \in procs /\ p.listed /\ PidText[p.pid] \in Digits
  BY DEF scan_processes, Numbered
<1>5. \A p \in procs : Selects(name, p) => p \in listed
  BY DEF Selects, scan_processes
<1> HIDE DEF listed
<1>6. \A p \in listed : p \in found <=> Selects(name, p)
  BY <1>4, FoundIsSelected
<1> HIDE DEF found
<1>7. found = {p \in procs : Selects(name, p)}
  BY <1>3, <1>4, <1>5, <1>6
<1> QED BY <1>1, <1>2, <1>7 DEF FindsAsDocumented

\* It lists each of them once, better matches first, and by PID those that match
\* equally well.
LEMMA BestFirst ==
    ASSUME NEW name, NEW procs, Numbered(procs)
    PROVE  FindsBestFirst(name, procs)
<1> SUFFICES ASSUME NEW i \in DOMAIN resolve_name(name, procs),
                    NEW j \in DOMAIN resolve_name(name, procs), i < j
             PROVE  LET found == resolve_name(name, procs)
                    IN  \/ Rank(name, found[i]) < Rank(name, found[j])
                        \/ /\ Rank(name, found[i]) = Rank(name, found[j])
                           /\ found[i].pid < found[j].pid
  BY DEF FindsBestFirst
<1> DEFINE found == resolve_name(name, procs)
<1>2. CASE is_pid_token(name)
  <2>1. DOMAIN found \subseteq {1}
    BY <1>2, OneByNumber DEF resolve_name
  <2> QED BY <2>1
<1>3. CASE ~is_pid_token(name) /\ name = Nothing
  <2>1. found = <<>>
    BY <1>3 DEF resolve_name
  <2> QED BY <2>1
<1>4. CASE ~is_pid_token(name) /\ name # Nothing
  <2> DEFINE listed == scan_processes(procs)
             tries == Tries(name, listed)
             all == FoundBy(tries, Len(tries))
  <2>1. found = resolve_plain(name, procs)
    BY <1>4 DEF resolve_name
  <2>2. /\ ToSet(found) = all
        /\ Before(tries, found[i], found[j])
    BY <2>1, PlainLists DEF ListUpto, Numbered
  <2>3. all \subseteq listed
    <3>1. \A k \in 1..Len(tries) : tries[k] \in SUBSET listed
      BY TriesFindSome
    <3> QED BY <3>1 DEF FoundBy
  <2>4. found[i] \in all /\ found[j] \in all
    BY <2>2 DEF ToSet
  <2> HIDE DEF found
  <2> DEFINE p == found[i]
             q == found[j]
  <2>5. p \in listed /\ q \in listed
    BY <2>3, <2>4
  <2>6. p \in FoundBy(tries, Len(tries)) /\ q \in FoundBy(tries, Len(tries))
        /\ Before(tries, p, q)
    BY <2>2, <2>4
  <2> HIDE DEF p, q
  <2>7. \/ Rank(name, p) < Rank(name, q)
        \/ Rank(name, p) = Rank(name, q) /\ p.pid < q.pid
    BY <1>4, <2>5, <2>6, BeforeRanks
  <2> QED BY <2>7 DEF p, q, found
<1> QED BY <1>2, <1>3, <1>4

-----------------------------------------------------------------------------
(* The session. *)

\* The processes of a universe, and what is alive of them, go by their numbers.
LEMMA RunningNumbered ==
    ASSUME NEW procs \in Universes
    PROVE  Numbered(procs) /\ Numbered(Running(procs))
<1>1. /\ IsFiniteSet(procs)
      /\ \A p \in procs : p.pid \in Nat /\ PidText[p.pid] \in Digits
      /\ \A p, q \in procs : PidText[p.pid] = PidText[q.pid] => p = q
  BY UniverseAssumption
<1>2. Numbered(procs)
  BY <1>1 DEF Numbered, OnePid
<1>3. Running(procs) \in SUBSET procs
  BY DEF Running
<1>4. IsFiniteSet(Running(procs))
  BY <1>1, <1>3, FS_Subset
<1> QED BY <1>2, <1>3, <1>4 DEF Numbered, OnePid

\* Whichever processes run, a NAME that is not of digits finds among them those that
\* the documentation says it does.
THEOREM DocumentedCorrect == Spec => []SelectsAsDocumented
<1>1. SelectsAsDocumented
  BY RunningNumbered, Documented DEF SelectsAsDocumented
<1> QED BY <1>1, PTL

\* And lists them with the better matches first, digits or not.
THEOREM BestFirstCorrect == Spec => []BestMatchFirst
<1>1. BestMatchFirst
  BY RunningNumbered, BestFirst DEF BestMatchFirst
<1> QED BY <1>1, PTL

\* The PIDs a NAME stands for in the session are those of the processes of the
\* machine that the documentation says it selects.
LEMMA MatchesDocumented ==
    ASSUME NEW name \in Names, name \notin Digits, NEW p \in Machine
    PROVE  p.pid \in ToSet(Matches[name]) <=> Selects(name, p)
<1> DEFINE found == resolve_name(name, Machine)
<1>1. name # Nothing /\ Numbered(Machine)
  BY MachineAssumption, RunningNumbered
<1>2. ToSet(found) = {q \in Machine : Selects(name, q)}
  BY <1>1, Documented DEF FindsAsDocumented
<1>3. Matches[name] = [i \in DOMAIN found |-> found[i].pid]
  BY MatchesAsResolved
<1> HIDE DEF found
<1>4. ToSet(Matches[name]) = {q.pid : q \in ToSet(found)}
  BY <1>3 DEF ToSet
<1>5. ASSUME NEW q \in Machine, q.pid = p.pid PROVE q = p
  BY <1>1, <1>5 DEF Numbered, OnePid
<1> QED BY <1>2, <1>4, <1>5

\* At any time of a session without NAMEs of digits, what is tracked is exactly what
\* was alive at the last scan and documented to be selected: the matching of NAMEs
\* and the session that uses it, together.
THEOREM ScanTracksAsDocumented == Spec => []TracksDocumented
<1>1. GoodOptions(opt) /\ TracksSelected => TracksDocumented
  <2> SUFFICES ASSUME GoodOptions(opt), TracksSelected,
                      ToSet(opt.names) \cap Digits = {}, NEW p \in Machine
               PROVE  p.pid \in Pid(tracked) <=>
                          p.pid \in seen /\ \E name \in ToSet(opt.names) : Selects(name, p)
    BY DEF TracksDocumented
  <2>1. p.pid \in Pids
    BY MachineAssumption
  <2>2. ToSet(opt.names) \subseteq Names
    BY SeqDef DEF GoodOptions, Options, ToSet
  <2>3. \A name \in ToSet(opt.names) :
           p.pid \in ToSet(Matches[name]) <=> Selects(name, p)
    BY <2>2, MatchesDocumented
  <2> QED BY <2>1, <2>3 DEF TracksSelected
<1> QED BY <1>1, ScanTracks, OptionsStayGood, PTL

=============================================================================
