------------------------- MODULE ProcSamplingProofs --------------------------
(* What holds of the samples of processes for any number of processes, any   *)
(* length of a session and any bounds: nothing is charted that was not done, *)
(* no I/O is lost, a process that was read at the last tick does not show    *)
(* more than the machine has done, and totals are of what the session had.   *)
EXTENDS ProcSampling, TLAPS, FiniteSetTheorems

-----------------------------------------------------------------------------
(* Types. *)

\* The ranges of the counters, and of what is read of them.
Ranges ==
    /\ total \in Nat
    /\ proc \in [Pids -> {Absent} \cup Process]
    /\ prev_total \in Nat
    /\ prev_jiffies \in [Pids -> Reading] /\ prev_io \in [Pids -> Reading]
    /\ done \in [Pids -> Counters] /\ charted \in [Pids -> Counters]
    /\ mark \in [Pids -> Int]
    /\ share \in [Pids -> {Absent} \cup Share]
    /\ since \in [Pids -> {NotRead, ReadLast, ReadNow}]
    /\ whole \subseteq Pids /\ tracked \subseteq Pids /\ matched \subseteq Pids
    /\ prev_total <= total
    /\ reading \in {Idle} \cup UnderWay
    /\ reading # Idle =>
          reading.total <= total /\ reading.todo \subseteq tracked

\* A reading that a process can have.
LEMMA DeltaNat ==
    ASSUME NEW new \in Nat, NEW old \in Nat
    PROVE  delta_u64(new, old) \in Nat /\ delta_u64(new, old) <= new
BY DEF delta_u64

\* What a tick begins with.
LEMMA BeginRanges ==
    ASSUME Ranges, BeginTick
    PROVE  /\ tracked' \subseteq Pids
           /\ reading' \in UnderWay
           /\ reading'.total = total /\ reading'.todo = tracked'
BY DEF Ranges, BeginTick, resolve_names, Alive, UnderWay

\* What is charted of a process is a number.
LEMMA GrowthNat ==
    ASSUME Ranges, NEW p \in Pids, NEW io_ok \in {FALSE, proc[p] # Absent}
    PROVE  CpuGrowth(p) \in Nat /\ IoGrowth(p, io_ok) \in Nat
<1>1. ASSUME CpuPoint(p) PROVE CpuGrowth(p) \in Nat
  <2>1. proc[p].jiffies \in Nat /\ prev_jiffies[p] \in Nat
    BY <1>1 DEF CpuPoint, Ranges, Process, Reading, None
  <2> QED BY <1>1, <2>1, DeltaNat DEF CpuGrowth
<1>2. ASSUME IoPoint(p, io_ok) PROVE IoGrowth(p, io_ok) \in Nat
  <2>1. proc[p].io \in Nat /\ prev_io[p] \in Nat
    BY <1>2 DEF IoPoint, Ranges, Process, Reading, None
  <2> QED BY <1>2, <2>1, DeltaNat DEF IoGrowth
<1> QED BY <1>1, <1>2 DEF CpuGrowth, IoGrowth

\* One process of a tick: what is charted of it and what is kept.
LEMMA ReadPidRanges ==
    ASSUME Ranges, NEW p \in Pids, ReadPid(p)
    PROVE  /\ charted' \in [Pids -> Counters] /\ share' \in [Pids -> {Absent} \cup Share]
           /\ prev_jiffies' \in [Pids -> Reading] /\ prev_io' \in [Pids -> Reading]
           /\ mark' \in [Pids -> Int] /\ whole' \subseteq Pids
           /\ since' \in [Pids -> {NotRead, ReadLast, ReadNow}]
<1>1. PICK io_ok \in {FALSE, proc[p] # Absent} :
          /\ prev_io' = [prev_io EXCEPT ![p] = IoReading(p, io_ok)]
          /\ charted' = [charted EXCEPT
                ![p] = [jiffies |-> @.jiffies + CpuGrowth(p),
                        io |-> @.io + IoGrowth(p, io_ok)]]
          /\ IF io_ok /\ ~IoPoint(p, io_ok)
             THEN /\ whole' = whole \cup {p}
                  /\ mark' = [mark EXCEPT ![p] = proc[p].io - charted[p].io]
             ELSE UNCHANGED <<whole, mark>>
  BY DEF ReadPid
<1>2. charted[p].jiffies \in Nat /\ charted[p].io \in Nat
  BY DEF Ranges, Counters
<1>3. CpuGrowth(p) \in Nat /\ IoGrowth(p, io_ok) \in Nat
  BY GrowthNat
<1>4. charted' \in [Pids -> Counters]
  BY <1>1, <1>2, <1>3 DEF Ranges, Counters
<1>5. IoReading(p, io_ok) \in Reading
  BY DEF IoReading, Ranges, Process, Reading
<1>6. prev_io' \in [Pids -> Reading]
  BY <1>1, <1>5 DEF Ranges
<1>7. prev_jiffies' \in [Pids -> Reading]
  BY DEF ReadPid, Ranges, Process, Reading
<1>8. io_ok => proc[p].io \in Nat
  BY DEF Ranges, Process
<1>9. mark' \in [Pids -> Int] /\ whole' \subseteq Pids
  BY <1>1, <1>2, <1>8 DEF Ranges
<1>10. since' \in [Pids -> {NotRead, ReadLast, ReadNow}]
  BY DEF ReadPid, Ranges
<1>11. CASE CpuPoint(p)
  <2>1. total_j \in Nat /\ prev_total \in Nat /\ total_j > prev_total
    BY <1>11 DEF CpuPoint, total_j, ReadPid, Ranges, UnderWay
  <2>2. [process |-> CpuGrowth(p), machine |-> total_j - prev_total] \in Share
    BY <1>3, <2>1 DEF Share
  <2>3. share' \in [Pids -> {Absent} \cup Share]
    BY <1>11, <2>2 DEF ReadPid, Ranges
  <2> QED BY <1>4, <1>6, <1>7, <1>9, <1>10, <2>3
<1>12. CASE ~CpuPoint(p)
  <2>1. share' \in [Pids -> {Absent} \cup Share]
    BY <1>12 DEF ReadPid, Ranges
  <2> QED BY <1>4, <1>6, <1>7, <1>9, <1>10, <2>1
<1> QED BY <1>11, <1>12

\* What happens in the machine changes none of what was read.
LEMMA EventRanges ==
    ASSUME Ranges, Event,
           total' \in Nat, total <= total',
           proc' \in [Pids -> {Absent} \cup Process],
           done' \in [Pids -> Counters],
           since' \in [Pids -> {NotRead, ReadLast, ReadNow}],
           whole' \subseteq Pids, matched' \subseteq Pids
    PROVE  Ranges'
<1>1. UNCHANGED <<tracked, prev_total, prev_jiffies, prev_io, charted, share, mark, reading>>
  BY DEF Event, prevs, sums
<1>2. reading # Idle => reading.total \in Nat /\ reading.total <= total
  BY DEF Ranges, UnderWay
<1>3. reading' # Idle => reading'.total <= total' /\ reading'.todo \subseteq tracked'
  BY <1>1, <1>2 DEF Ranges
<1>4. prev_total' <= total'
  BY <1>1 DEF Ranges
<1> QED BY <1>1, <1>3, <1>4 DEF Ranges

\* Every step keeps the ranges.
LEMMA RangesStep ==
    ASSUME Ranges, [Next]_vars
    PROVE  Ranges'
<1> USE DEF Ranges
<1>1. ASSUME NEW p \in Pids, Work(p) PROVE Ranges'
  <2>1. proc[p] \in Process
    BY <1>1 DEF Work
  <2>2. proc' \in [Pids -> {Absent} \cup Process]
    BY <1>1, <2>1 DEF Work, Process
  <2>3. done' \in [Pids -> Counters]
    BY <1>1, SMTT(20) DEF Work, Counters
  <2> QED BY <1>1, <2>2, <2>3, EventRanges DEF Work, Same
<1>2. CASE IdleCore
  BY <1>2, EventRanges DEF IdleCore, Same
<1>3. ASSUME NEW p \in Pids, Transfer(p) PROVE Ranges'
  <2>1. proc[p] \in Process
    BY <1>3 DEF Transfer
  <2>2. proc' \in [Pids -> {Absent} \cup Process]
    BY <1>3, <2>1 DEF Transfer, Process
  <2>3. done' \in [Pids -> Counters]
    BY <1>3, SMTT(20) DEF Transfer, Counters
  <2> QED BY <1>3, <2>2, <2>3, EventRanges DEF Transfer, Same
<1>4. ASSUME NEW p \in Pids, Open(p) PROVE Ranges'
  <2>1. proc[p] \in Process
    BY <1>4 DEF Open
  <2>2. proc' \in [Pids -> {Absent} \cup Process]
    BY <1>4, <2>1 DEF Open, Process
  <2> QED BY <1>4, <2>2, EventRanges DEF Open, Same
<1>5. ASSUME NEW p \in Pids, Close(p) PROVE Ranges'
  <2>1. proc[p] \in Process
    BY <1>5 DEF Close, Held
  <2>2. proc' \in [Pids -> {Absent} \cup Process]
    BY <1>5, <2>1 DEF Close, Process
  <2> QED BY <1>5, <2>2, EventRanges DEF Close, Same
<1>6. ASSUME NEW p \in Pids, Exit(p) PROVE Ranges'
  BY <1>6, EventRanges DEF Exit
<1>7. ASSUME NEW p \in Pids, Start(p) PROVE Ranges'
  <2>1. PICK t \in Things : proc' = [proc EXCEPT ![p] = Newborn(t)]
    BY <1>7 DEF Start
  <2>2. Newborn(t) \in Process
    BY DEF Newborn, Process
  <2> QED BY <1>7, <2>1, <2>2, EventRanges DEF Start, Same
<1>8. ASSUME NEW p \in Pids, Retitle(p) PROVE Ranges'
  BY <1>8, EventRanges DEF Retitle, Same
<1>9. CASE OnTimer
  BY <1>9, BeginRanges DEF OnTimer, BeginTick, machine, prevs, sums
<1>10. CASE OnClearHistory
  BY <1>10, BeginRanges DEF OnClearHistory, BeginTick, machine, prevs, sums
<1>11. ASSUME NEW p \in Pids, ReadPid(p) PROVE Ranges'
  <2>1. /\ reading \in UnderWay /\ reading' \in UnderWay
        /\ reading'.total = reading.total /\ reading'.todo \subseteq reading.todo
    BY <1>11 DEF ReadPid, UnderWay
  <2> QED BY <1>11, <2>1, ReadPidRanges DEF ReadPid, machine
<1>12. CASE EndTick
  <2>1. prev_total' \in Nat /\ prev_total' <= total
    BY <1>12 DEF EndTick, total_j, UnderWay
  <2>2. since' \in [Pids -> {NotRead, ReadLast, ReadNow}]
    BY <1>12 DEF EndTick
  <2> QED BY <1>12, <2>1, <2>2 DEF EndTick, machine, sums
<1>13. CASE AddName \/ RemoveName \/ OnToggle
  BY <1>13 DEF AddName, RemoveName, OnToggle, UserTurn, machine, prevs, sums,
               resolve_names, Alive
<1>14. CASE UNCHANGED vars
  BY <1>14 DEF vars, machine, prevs, sums
<1> QED
  BY <1>1, <1>2, <1>3, <1>4, <1>5, <1>6, <1>7, <1>8, <1>9, <1>10, <1>11, <1>12,
     <1>13, <1>14 DEF Next

-----------------------------------------------------------------------------
(* Nothing is counted twice. *)

\* What a counter has grown since it was read, and is charted at the next point.
Owes(new, old) == IF old = None THEN 0 ELSE delta_u64(new, old)

OwedJiffies(p) ==
    IF proc[p] = Absent THEN 0 ELSE Owes(proc[p].jiffies, prev_jiffies[p])
OwedIo(p) ==
    IF proc[p] = Absent THEN 0 ELSE Owes(proc[p].io, prev_io[p])

\* What is charted under a PID, with what it is owed, was done under it.
Covered(p) ==
    /\ charted[p].jiffies + OwedJiffies(p) <= done[p].jiffies
    /\ charted[p].io + OwedIo(p) <= done[p].io

\* A jiffy or a byte more is owed at most once.
LEMMA OwesGrows ==
    ASSUME NEW new \in Nat, NEW old \in Reading
    PROVE  /\ Owes(new, old) \in Nat
           /\ Owes(new + 1, old) <= Owes(new, old) + 1
           /\ Owes(new, new) = 0
           /\ Owes(0, old) = 0
BY DEF Owes, delta_u64, Reading, None

\* The values that the argument is about.
LEMMA CountedNat ==
    ASSUME Ranges, NEW p \in Pids
    PROVE  /\ charted[p].jiffies \in Nat /\ charted[p].io \in Nat
           /\ done[p].jiffies \in Nat /\ done[p].io \in Nat
           /\ prev_jiffies[p] \in Reading /\ prev_io[p] \in Reading
           /\ proc[p] # Absent => proc[p].jiffies \in Nat /\ proc[p].io \in Nat
BY DEF Ranges, Counters, Process

\* A step that leaves a process, its readings and sums alone leaves it covered.
LEMMA CoveredStays ==
    ASSUME NEW p \in Pids, Covered(p),
           UNCHANGED <<proc[p], prev_jiffies[p], prev_io[p], charted[p], done[p]>>
    PROVE  Covered(p)'
BY DEF Covered, OwedJiffies, OwedIo

\* Reading a process charts no more than what it is owed, and then owes it nothing.
LEMMA ReadCovers ==
    ASSUME Ranges, NEW p \in Pids, Covered(p), ReadPid(p)
    PROVE  Covered(p)'
<1>1. PICK io_ok \in {FALSE, proc[p] # Absent} :
          /\ prev_io' = [prev_io EXCEPT ![p] = IoReading(p, io_ok)]
          /\ charted' = [charted EXCEPT
                ![p] = [jiffies |-> @.jiffies + CpuGrowth(p),
                        io |-> @.io + IoGrowth(p, io_ok)]]
  BY DEF ReadPid
<1>2. /\ proc' = proc /\ done' = done
      /\ charted'[p].jiffies = charted[p].jiffies + CpuGrowth(p)
      /\ charted'[p].io = charted[p].io + IoGrowth(p, io_ok)
      /\ prev_io'[p] = IoReading(p, io_ok)
      /\ prev_jiffies'[p] = IF proc[p] = Absent THEN prev_jiffies[p]
                            ELSE proc[p].jiffies
  BY <1>1 DEF ReadPid, machine, Ranges
<1> USE CountedNat
<1>3. charted'[p].jiffies + OwedJiffies(p)' <= done'[p].jiffies
  <2>1. CASE proc[p] = Absent
    <3>1. CpuGrowth(p) = 0
      BY <2>1 DEF CpuGrowth, CpuPoint
    <3> QED BY <1>2, <2>1, <3>1 DEF Covered, OwedJiffies
  <2>2. CASE proc[p] # Absent
    <3>1. OwedJiffies(p)' = 0
      BY <1>2, <2>2, OwesGrows DEF OwedJiffies
    <3>2. CpuGrowth(p) \in Nat /\ CpuGrowth(p) <= OwedJiffies(p)
      BY <2>2, OwesGrows DEF CpuGrowth, CpuPoint, OwedJiffies, Owes
    <3>3. OwedJiffies(p) \in Nat
      BY <2>2, OwesGrows DEF OwedJiffies
    <3> QED BY <1>2, <3>1, <3>2, <3>3 DEF Covered
  <2> QED BY <2>1, <2>2
<1>4. charted'[p].io + OwedIo(p)' <= done'[p].io
  <2>1. CASE ~io_ok
    <3>1. IoGrowth(p, io_ok) = 0 /\ prev_io'[p] = prev_io[p]
      BY <1>2, <2>1 DEF IoGrowth, IoPoint, IoReading
    <3> QED BY <1>2, <3>1 DEF Covered, OwedIo
  <2>2. CASE io_ok
    <3>1. OwedIo(p)' = 0 /\ proc[p] # Absent
      BY <1>2, <2>2, OwesGrows DEF OwedIo, IoReading
    <3>2. IoGrowth(p, io_ok) \in Nat /\ IoGrowth(p, io_ok) <= OwedIo(p)
      BY <2>2, <3>1, OwesGrows DEF IoGrowth, IoPoint, OwedIo, Owes
    <3>3. OwedIo(p) \in Nat
      BY <3>1, OwesGrows DEF OwedIo
    <3> QED BY <1>2, <3>1, <3>2, <3>3 DEF Covered
  <2> QED BY <2>1, <2>2
<1> QED BY <1>3, <1>4 DEF Covered

\* What the machine does, process by process.
LEMMA EventCovers ==
    ASSUME Ranges, NEW p \in Pids, Covered(p),
           Work(p) \/ Transfer(p) \/ Open(p) \/ Close(p) \/ Exit(p) \/ Start(p)
    PROVE  Covered(p)'
<1> USE CountedNat
<1>1. /\ UNCHANGED <<prev_jiffies, prev_io, charted>>
      /\ OwedJiffies(p) \in Nat /\ OwedIo(p) \in Nat
  <2>1. Event
    BY DEF Work, Transfer, Open, Close, Exit, Start
  <2> QED BY <2>1, OwesGrows DEF Event, prevs, sums, OwedJiffies, OwedIo
<1>2. CASE Work(p)
  <2>1. /\ proc[p] # Absent /\ proc[p] \in Process
        /\ proc'[p] = [proc[p] EXCEPT !.jiffies = @ + 1]
        /\ done'[p].jiffies = done[p].jiffies + 1 /\ done'[p].io = done[p].io
    BY <1>2 DEF Work, Ranges, Counters
  <2>2. proc'[p].jiffies = proc[p].jiffies + 1 /\ proc'[p].io = proc[p].io
    BY <2>1 DEF Process
  <2>3. OwedJiffies(p)' <= OwedJiffies(p) + 1 /\ OwedJiffies(p)' \in Nat
    <3> DEFINE n == proc[p].jiffies
               r == prev_jiffies[p]
    <3>1. n \in Nat /\ n + 1 \in Nat /\ r \in Reading
      BY <2>1
    <3>2. /\ Owes(n, r) \in Nat /\ Owes(n + 1, r) \in Nat
          /\ Owes(n + 1, r) <= Owes(n, r) + 1
      BY <3>1, OwesGrows
    <3>3. OwedJiffies(p) = Owes(n, r) /\ OwedJiffies(p)' \in {0, Owes(n + 1, r)}
      BY <1>1, <2>1, <2>2 DEF OwedJiffies
    <3> QED BY <3>2, <3>3
  <2>4. OwedIo(p)' <= OwedIo(p) /\ OwedIo(p)' \in Nat
    BY <1>1, <2>1, <2>2, OwesGrows DEF OwedIo
  <2> QED BY <1>1, <2>1, <2>3, <2>4 DEF Covered
<1>3. CASE Transfer(p)
  <2>1. /\ proc[p] # Absent /\ proc[p] \in Process
        /\ proc'[p] = [proc[p] EXCEPT !.io = @ + 1]
        /\ done'[p].io = done[p].io + 1 /\ done'[p].jiffies = done[p].jiffies
    BY <1>3 DEF Transfer, Ranges, Counters
  <2>2. proc'[p].io = proc[p].io + 1 /\ proc'[p].jiffies = proc[p].jiffies
    BY <2>1 DEF Process
  <2>3. OwedIo(p)' <= OwedIo(p) + 1 /\ OwedIo(p)' \in Nat
    <3> DEFINE n == proc[p].io
               r == prev_io[p]
    <3>1. n \in Nat /\ n + 1 \in Nat /\ r \in Reading
      BY <2>1
    <3>2. /\ Owes(n, r) \in Nat /\ Owes(n + 1, r) \in Nat
          /\ Owes(n + 1, r) <= Owes(n, r) + 1
      BY <3>1, OwesGrows
    <3>3. OwedIo(p) = Owes(n, r) /\ OwedIo(p)' \in {0, Owes(n + 1, r)}
      BY <1>1, <2>1, <2>2 DEF OwedIo
    <3> QED BY <3>2, <3>3
  <2>4. OwedJiffies(p)' <= OwedJiffies(p) /\ OwedJiffies(p)' \in Nat
    BY <1>1, <2>1, <2>2, OwesGrows DEF OwedJiffies
  <2> QED BY <1>1, <2>1, <2>3, <2>4 DEF Covered
<1>4. CASE Open(p) \/ Close(p)
  <2>1. proc[p] # Absent /\ proc[p] \in Process /\ done' = done
    BY <1>4 DEF Open, Close, Held, Ranges
  <2>2. proc'[p].io = proc[p].io /\ proc'[p].jiffies = proc[p].jiffies
    BY <1>4, <2>1 DEF Open, Close, Ranges, Process
  <2>3. OwedIo(p)' <= OwedIo(p) /\ OwedIo(p)' \in Nat
    BY <1>1, <2>1, <2>2, OwesGrows DEF OwedIo
  <2>4. OwedJiffies(p)' <= OwedJiffies(p) /\ OwedJiffies(p)' \in Nat
    BY <1>1, <2>1, <2>2, OwesGrows DEF OwedJiffies
  <2> QED BY <1>1, <2>1, <2>3, <2>4 DEF Covered
<1>5. CASE Exit(p) \/ Start(p)
  <2>1. done' = done
    BY <1>5 DEF Exit, Start
  <2>2. proc'[p] = Absent \/ (proc'[p].jiffies = 0 /\ proc'[p].io = 0)
    BY <1>5 DEF Exit, Start, Newborn, Ranges
  <2>3. OwedJiffies(p)' = 0 /\ OwedIo(p)' = 0
    BY <1>1, <2>2, OwesGrows DEF OwedJiffies, OwedIo
  <2> QED BY <1>1, <2>1, <2>3 DEF Covered
<1> QED BY <1>2, <1>3, <1>4, <1>5

-----------------------------------------------------------------------------
(* No I/O is lost. *)

\* A process whose I/O is charted from a first reading on is there, its counter is
\* not below its reading, and what is charted is the growth up to that reading.
IoKept(p) ==
    p \in whole =>
        /\ proc[p] # Absent
        /\ prev_io[p] # None /\ prev_io[p] <= proc[p].io
        /\ charted[p].io = prev_io[p] - mark[p]

\* A step that leaves a process, its readings and sums alone keeps that.
LEMMA IoStays ==
    ASSUME NEW p \in Pids, IoKept(p), p \in whole' => p \in whole,
           UNCHANGED <<proc[p], prev_io[p], charted[p], mark[p]>>
    PROVE  IoKept(p)'
BY DEF IoKept

\* What the machine does to a process keeps it.
LEMMA EventKeepsIo ==
    ASSUME Ranges, NEW p \in Pids, IoKept(p),
           Work(p) \/ Transfer(p) \/ Open(p) \/ Close(p) \/ Exit(p) \/ Start(p)
    PROVE  IoKept(p)'
<1>1. UNCHANGED <<prev_io, charted, mark>>
  BY DEF Work, Transfer, Open, Close, Exit, Start, Event, prevs, sums
<1>2. CASE Exit(p)
  BY <1>2 DEF Exit, IoKept
<1>3. CASE Start(p)
  BY <1>3 DEF Start, Same, IoKept
<1>4. CASE Work(p) \/ Transfer(p) \/ Open(p) \/ Close(p)
  <2>1. proc[p] # Absent /\ proc[p] \in Process
    BY <1>4 DEF Work, Transfer, Open, Close, Held, Ranges
  <2>2. /\ proc'[p] \in Process /\ proc[p].io \in Nat /\ proc'[p].io \in Nat
        /\ proc'[p].io >= proc[p].io
    BY <1>4, <2>1 DEF Work, Transfer, Open, Close, Ranges, Process
  <2>3. proc'[p] # Absent
    BY <2>2, AbsentAssumption
  <2>4. prev_io[p] \in Int
    BY DEF Ranges, Reading, None
  <2>5. UNCHANGED whole
    BY <1>4 DEF Work, Transfer, Open, Close, Same
  <2> QED BY <1>1, <2>1, <2>2, <2>3, <2>4, <2>5 DEF IoKept
<1> QED BY <1>2, <1>3, <1>4

\* Reading a process keeps it, and begins it at a first reading.
LEMMA ReadKeepsIo ==
    ASSUME Ranges, NEW p \in Pids, IoKept(p), ReadPid(p)
    PROVE  IoKept(p)'
<1>1. PICK io_ok \in {FALSE, proc[p] # Absent} :
          /\ prev_io' = [prev_io EXCEPT ![p] = IoReading(p, io_ok)]
          /\ charted' = [charted EXCEPT
                ![p] = [jiffies |-> @.jiffies + CpuGrowth(p),
                        io |-> @.io + IoGrowth(p, io_ok)]]
          /\ IF io_ok /\ ~IoPoint(p, io_ok)
             THEN /\ whole' = whole \cup {p}
                  /\ mark' = [mark EXCEPT ![p] = proc[p].io - charted[p].io]
             ELSE UNCHANGED <<whole, mark>>
  BY DEF ReadPid
<1>2. /\ proc' = proc
      /\ charted'[p].io = charted[p].io + IoGrowth(p, io_ok)
      /\ prev_io'[p] = IoReading(p, io_ok)
  BY <1>1 DEF ReadPid, machine, Ranges
<1>3. mark[p] \in Int
  BY DEF Ranges
<1> USE CountedNat DEF IoKept
<1>4. CASE ~io_ok
  <2>1. IoGrowth(p, io_ok) = 0 /\ prev_io'[p] = prev_io[p] /\ UNCHANGED <<whole, mark>>
    BY <1>1, <1>2, <1>4 DEF IoGrowth, IoPoint, IoReading
  <2> QED BY <1>2, <2>1
<1>5. CASE io_ok /\ ~IoPoint(p, io_ok)
  <2>1. /\ IoGrowth(p, io_ok) = 0 /\ prev_io'[p] = proc[p].io /\ proc[p] # Absent
        /\ mark'[p] = proc[p].io - charted[p].io
    BY <1>1, <1>2, <1>5 DEF IoGrowth, IoReading, Ranges
  <2>2. proc[p].io \in Nat /\ charted[p].io \in Nat
    BY <2>1
  <2>3. charted'[p].io = prev_io'[p] - mark'[p]
    BY <1>2, <2>1, <2>2
  <2> QED BY <1>2, <2>1, <2>2, <2>3 DEF None
<1>6. CASE io_ok /\ IoPoint(p, io_ok)
  <2>1. /\ prev_io'[p] = proc[p].io /\ proc[p] # Absent
        /\ UNCHANGED <<whole, mark>> /\ prev_io[p] # None
    BY <1>1, <1>2, <1>6 DEF IoReading, IoPoint
  <2>2. IoGrowth(p, io_ok) = delta_u64(proc[p].io, prev_io[p])
    BY <1>6 DEF IoGrowth
  <2>3. p \in whole => IoGrowth(p, io_ok) = proc[p].io - prev_io[p]
    BY <2>1, <2>2 DEF delta_u64, Reading
  <2> QED BY <1>2, <1>3, <2>1, <2>3 DEF Reading, None
<1> QED BY <1>4, <1>5, <1>6

-----------------------------------------------------------------------------
(* Shares. *)

\* A process has not grown more since its reading than the machine since t.
Lag(p, t) ==
    /\ proc[p] # Absent /\ prev_jiffies[p] # None
    /\ proc[p].jiffies - prev_jiffies[p] <= total - t

\* Of a process read at the last tick, the machine's reading is that of this tick's
\* beginning; of one read at this tick, that of its own.
InStep(p) ==
    /\ since[p] = ReadLast => Lag(p, prev_total)
    /\ since[p] = ReadNow =>
          reading # Idle /\ p \in tracked /\ Lag(p, reading.total)

\* The machine goes on; so may the tick.
LEMMA InStepStays ==
    ASSUME Ranges, NEW p \in Pids, InStep(p), total' \in Nat, total <= total',
           UNCHANGED <<proc[p], prev_jiffies[p], since[p], prev_total, tracked>>,
           reading # Idle => reading' # Idle /\ reading'.total = reading.total
    PROVE  InStep(p)'
<1>1. prev_total \in Nat /\ prev_jiffies[p] \in Reading
      /\ (reading # Idle => reading.total \in Nat)
  BY DEF Ranges, UnderWay
<1>2. ASSUME NEW t \in Nat, Lag(p, t)
      PROVE  proc[p].jiffies - prev_jiffies[p] <= total' - t
  BY <1>1, <1>2, CountedNat DEF Lag, Ranges, Reading, None
<1>3. since[p] = ReadLast => Lag(p, prev_total)'
  BY <1>1, <1>2 DEF InStep, Lag
<1>4. since[p] = ReadNow => Lag(p, reading.total)'
  BY <1>1, <1>2 DEF InStep, Lag
<1> QED BY <1>3, <1>4 DEF InStep

\* What the machine does to a process.
LEMMA EventInStep ==
    ASSUME Ranges, NEW p \in Pids, InStep(p),
           Work(p) \/ Transfer(p) \/ Open(p) \/ Close(p) \/ Exit(p) \/ Start(p)
    PROVE  InStep(p)'
<1>1. UNCHANGED <<prev_jiffies, prev_total, reading, tracked>>
  BY DEF Work, Transfer, Open, Close, Exit, Start, Event, prevs
<1>2. CASE Exit(p)
  BY <1>2 DEF Exit, InStep, Ranges, NotRead, ReadLast, ReadNow
<1>3. CASE Start(p)
  BY <1>3 DEF Start, Same, InStep, Lag
<1>4. CASE Work(p) \/ Transfer(p) \/ Open(p) \/ Close(p)
  <2>1. proc[p] # Absent /\ proc[p] \in Process /\ since' = since
    BY <1>4 DEF Work, Transfer, Open, Close, Held, Ranges, Same
  <2>2. /\ proc'[p] \in Process
        /\ proc[p].jiffies \in Nat /\ proc'[p].jiffies \in Nat
        /\ total \in Nat /\ total' \in Nat
        /\ proc'[p].jiffies - proc[p].jiffies <= total' - total
    BY <1>4, <2>1 DEF Work, Transfer, Open, Close, Ranges, Process
  <2>3. proc'[p] # Absent
    BY <2>2, AbsentAssumption
  <2>4. prev_jiffies[p] \in Int /\ prev_total \in Nat
        /\ (reading # Idle => reading.total \in Nat)
    BY DEF Ranges, Reading, None, UnderWay
  <2>5. ASSUME NEW t \in Nat, Lag(p, t)
        PROVE  proc'[p].jiffies - prev_jiffies[p] <= total' - t
    BY <2>2, <2>4, <2>5 DEF Lag
  <2>6. since[p] = ReadLast => Lag(p, prev_total)'
    BY <1>1, <2>3, <2>4, <2>5 DEF InStep, Lag
  <2>7. since[p] = ReadNow => Lag(p, reading.total)'
    BY <1>1, <2>3, <2>4, <2>5 DEF InStep, Lag
  <2> QED BY <1>1, <2>1, <2>6, <2>7 DEF InStep
<1> QED BY <1>2, <1>3, <1>4

\* A process that is read is in step with the tick's reading of the machine.
LEMMA ReadInStep ==
    ASSUME Ranges, NEW p \in Pids, InStep(p), ReadPid(p)
    PROVE  InStep(p)'
<1>1. /\ reading \in UnderWay /\ reading' \in UnderWay /\ p \in tracked
      /\ reading'.total = reading.total
  BY DEF ReadPid, Ranges, UnderWay
<1>2. reading' # Idle /\ UNCHANGED <<proc, total, prev_total, tracked>>
  BY <1>1, IdleAssumption DEF ReadPid, machine
<1>3. CASE proc[p] = Absent
  BY <1>1, <1>2, <1>3, InStepStays DEF ReadPid, Ranges
<1>4. CASE proc[p] # Absent
  <2>1. prev_jiffies'[p] = proc[p].jiffies /\ since'[p] = ReadNow
    BY <1>4 DEF ReadPid, Ranges
  <2>2. proc[p].jiffies \in Nat /\ proc[p].jiffies - proc[p].jiffies = 0
    BY <1>4, CountedNat
  <2>3. 0 <= total - reading.total
    BY <1>1 DEF Ranges, UnderWay, ReadPid
  <2> QED BY <1>1, <1>2, <1>4, <2>1, <2>2, <2>3
          DEF InStep, Lag, None, ReadLast, ReadNow
<1> QED BY <1>3, <1>4

-----------------------------------------------------------------------------
(* Every step, for every process. *)

Sound(p) == Covered(p) /\ IoKept(p) /\ InStep(p)

\* A process that a step is not about.
LEMMA SoundStays ==
    ASSUME Ranges, NEW p \in Pids, Sound(p), total' \in Nat, total <= total',
           UNCHANGED <<proc[p], prev_jiffies[p], prev_io[p], charted[p], done[p],
                       mark[p], since[p], prev_total, tracked>>,
           p \in whole' => p \in whole,
           reading # Idle => reading' # Idle /\ reading'.total = reading.total
    PROVE  Sound(p)'
BY CoveredStays, IoStays, InStepStays DEF Sound

\* What happens to one process is not about another.
LEMMA OthersAlone ==
    ASSUME Ranges, NEW p \in Pids, NEW q \in Pids, p # q, Sound(p),
           \/ Work(q) \/ Transfer(q) \/ Open(q) \/ Close(q) \/ Exit(q) \/ Start(q)
           \/ ReadPid(q)
    PROVE  Sound(p)'
<1>1. CASE ReadPid(q)
  <2>1. UNCHANGED <<proc, total, prev_total, tracked, done>>
    BY <1>1 DEF ReadPid, machine
  <2>2. UNCHANGED <<prev_jiffies[p], prev_io[p], charted[p], mark[p], since[p]>>
        /\ (p \in whole' => p \in whole)
    BY <1>1 DEF ReadPid, Ranges
  <2>3. reading' # Idle /\ reading'.total = reading.total
    BY <1>1, IdleAssumption DEF ReadPid, Ranges, UnderWay
  <2> QED BY <2>1, <2>2, <2>3, SoundStays DEF Ranges
<1>2. CASE Work(q) \/ Transfer(q) \/ Open(q) \/ Close(q) \/ Exit(q) \/ Start(q)
  <2>1. UNCHANGED <<prev_jiffies, prev_io, charted, mark, prev_total, tracked, reading>>
    BY <1>2 DEF Work, Transfer, Open, Close, Exit, Start, Event, prevs, sums
  <2>2. UNCHANGED <<proc[p], done[p], since[p]>> /\ (p \in whole' => p \in whole)
    BY <1>2 DEF Work, Transfer, Open, Close, Exit, Start, Same, Ranges
  <2>3. total' \in Nat /\ total <= total'
    BY <1>2 DEF Work, Transfer, Open, Close, Exit, Start, Ranges
  <2> QED BY <2>1, <2>2, <2>3, SoundStays
<1> QED BY <1>1, <1>2

\* A step between two ticks, or the beginning of one.
LEMMA IdleSound ==
    ASSUME Ranges, NEW p \in Pids, Sound(p), reading = Idle,
           UNCHANGED <<machine, prevs, charted, mark, done, since>>,
           p \in whole' => p \in whole
    PROVE  Sound(p)'
<1>1. UNCHANGED <<total, proc, prev_total, prev_jiffies, prev_io>>
  BY DEF machine, prevs
<1>2. Covered(p)' /\ IoKept(p)'
  BY <1>1, CoveredStays, IoStays DEF Sound
<1>3. InStep(p)'
  BY <1>1 DEF Sound, InStep, Lag
<1> QED BY <1>2, <1>3 DEF Sound

\* The end of a tick makes of those it has read those that were read last.
LEMMA EndSound ==
    ASSUME Ranges, NEW p \in Pids, Sound(p), EndTick
    PROVE  Sound(p)'
<1>1. UNCHANGED <<total, proc, done, prev_jiffies, prev_io, charted, mark, whole, tracked>>
  BY DEF EndTick, machine, sums
<1>2. Covered(p)' /\ IoKept(p)'
  BY <1>1, CoveredStays, IoStays DEF Sound
<1>3. since'[p] = IF since[p] = ReadNow THEN ReadLast ELSE NotRead
  BY DEF EndTick
<1>4. CASE since[p] = ReadNow
  <2>1. p \in tracked /\ Lag(p, reading.total)
    BY <1>4 DEF Sound, InStep
  <2>2. prev_total' = reading.total
    BY <2>1 DEF EndTick, total_j
  <2>3. Lag(p, prev_total)'
    BY <1>1, <2>1, <2>2 DEF Lag
  <2> QED BY <1>2, <1>3, <1>4, <2>3 DEF Sound, InStep, ReadLast, ReadNow
<1>5. CASE since[p] # ReadNow
  BY <1>2, <1>3, <1>5 DEF Sound, InStep, NotRead, ReadLast, ReadNow
<1> QED BY <1>4, <1>5

\* Every step keeps every process sound.
LEMMA SoundStep ==
    ASSUME Ranges, NEW p \in Pids, Sound(p), [Next]_vars
    PROVE  Sound(p)'
<1>1. ASSUME NEW q \in Pids,
             \/ Work(q) \/ Transfer(q) \/ Open(q) \/ Close(q) \/ Exit(q) \/ Start(q)
             \/ ReadPid(q)
      PROVE  Sound(p)'
  <2>1. CASE p # q
    BY <1>1, <2>1, OthersAlone
  <2>2. CASE p = q /\ ReadPid(q)
    BY <2>2, ReadCovers, ReadKeepsIo, ReadInStep DEF Sound
  <2>3. CASE p = q /\ ~ReadPid(q)
    BY <1>1, <2>3, EventCovers, EventKeepsIo, EventInStep DEF Sound
  <2> QED BY <2>1, <2>2, <2>3
<1>2. ASSUME IdleCore \/ \E q \in Pids : Retitle(q)
      PROVE  Sound(p)'
  <2>1. /\ UNCHANGED <<proc, prev_jiffies, prev_io, charted, mark, prev_total, tracked,
                        done, since, whole, reading>>
        /\ total' \in Nat /\ total <= total'
    BY <1>2 DEF IdleCore, Retitle, Event, Same, prevs, sums, Ranges
  <2> QED BY <2>1, SoundStays
<1>3. CASE OnTimer \/ OnClearHistory
  BY <1>3, IdleSound DEF OnTimer, OnClearHistory, BeginTick, sums
<1>4. CASE AddName \/ RemoveName \/ OnToggle
  BY <1>4, IdleSound DEF AddName, RemoveName, OnToggle, UserTurn, sums
<1>5. CASE EndTick
  BY <1>5, EndSound
<1>6. CASE UNCHANGED vars
  BY <1>6, SoundStays DEF vars, machine, prevs, sums, Ranges
<1> QED BY <1>1, <1>2, <1>3, <1>4, <1>5, <1>6 DEF Next

\* It begins so.
LEMMA Begins ==
    ASSUME Init
    PROVE  Ranges /\ \A p \in Pids : Sound(p)
<1>1. proc \in [Pids -> {Absent} \cup Process]
  BY DEF Init, Process
<1>2. /\ prev_jiffies \in [Pids -> Reading] /\ prev_io \in [Pids -> Reading]
      /\ done \in [Pids -> Counters] /\ charted \in [Pids -> Counters]
      /\ share \in [Pids -> {Absent} \cup Share]
      /\ mark \in [Pids -> Int]
      /\ since \in [Pids -> {NotRead, ReadLast, ReadNow}]
  BY DEF Init, Reading, Counters
<1>3. tracked \subseteq Pids /\ matched \subseteq Pids
  BY DEF Init, resolve_names, Alive
<1>4. Ranges
  BY <1>1, <1>2, <1>3 DEF Init, Ranges
<1>5. ASSUME NEW p \in Pids PROVE Sound(p)
  <2>1. charted[p].jiffies = 0 /\ done[p].jiffies = 0 /\ charted[p].io = 0 /\ done[p].io = 0
    BY DEF Init
  <2>2. OwedJiffies(p) = 0 /\ OwedIo(p) = 0
    BY DEF Init, OwedJiffies, OwedIo, Owes
  <2>3. Covered(p)
    BY <2>1, <2>2 DEF Covered
  <2>4. IoKept(p) /\ InStep(p)
    BY DEF Init, IoKept, InStep, NotRead, ReadLast, ReadNow
  <2> QED BY <2>3, <2>4 DEF Sound
<1> QED BY <1>4, <1>5

-----------------------------------------------------------------------------
(* What was seen. *)

\* The sets of what was seen, and the switches.
SeenRanges ==
    /\ named \in BOOLEAN /\ show \in BOOLEAN /\ have_prev \in BOOLEAN
    /\ seen \in [Pids -> SUBSET Things]
    /\ system \in [threads : 0..Cardinality(Things), sockets : SUBSET Things]

\* There are no more threads than there are numbers for them.
LEMMA HeldCounted ==
    ASSUME Ranges
    PROVE  /\ \A p \in Pids : Held(p) \subseteq Things
           /\ AllHeld \subseteq Things
           /\ Cardinality(AllHeld) \in 0..Cardinality(Things)
<1>1. ASSUME NEW p \in Pids PROVE Held(p) \subseteq Things
  BY DEF Held, Ranges, Process
<1>2. AllHeld \subseteq Things
  BY <1>1 DEF AllHeld
<1>3. IsFiniteSet(Things) /\ IsFiniteSet(AllHeld)
  BY <1>2, BoundAssumption, FS_Subset
<1>4. /\ Cardinality(Things) \in Nat /\ Cardinality(AllHeld) \in Nat
      /\ Cardinality(AllHeld) <= Cardinality(Things)
  BY <1>2, <1>3, BoundAssumption, FS_CardinalityType, FS_Subset
<1> QED BY <1>1, <1>2, <1>4

\* The larger of two numbers is one of them.
LEMMA MaxOfTwo ==
    ASSUME NEW n \in Nat, NEW a \in 0..n, NEW b \in 0..n
    PROVE  Max({a, b}) \in 0..n
<1> DEFINE IsMax(x) == x \in {a, b} /\ \A y \in {a, b} : x >= y
<1>1. \E x : IsMax(x)
  <2>1. CASE a >= b
    BY <2>1
  <2>2. CASE ~(a >= b)
    <3>1. IsMax(b)
      BY <2>2
    <3> QED BY <3>1
  <2> QED BY <2>1, <2>2
<1>2. Max({a, b}) \in {a, b}
  BY <1>1 DEF Max
<1> QED BY <1>2

\* A tick's end adds what is there.
LEMMA CountRanges ==
    ASSUME Ranges, SeenRanges, CountThings
    PROVE  /\ seen' \in [Pids -> SUBSET Things]
           /\ system' \in [threads : 0..Cardinality(Things), sockets : SUBSET Things]
<1> USE DEF SeenRanges
<1>1. CASE ~show
  BY <1>1 DEF CountThings
<1>2. CASE show /\ tracked # {}
  BY <1>2, HeldCounted DEF CountThings
<1>3. CASE show /\ tracked = {}
  <2>1. /\ seen' = seen
        /\ system' = [threads |-> Max({system.threads, Cardinality(AllHeld)}),
                      sockets |-> system.sockets \cup AllHeld]
    BY <1>3 DEF CountThings
  <2>2. Cardinality(Things) \in Nat
    BY BoundAssumption, FS_CardinalityType
  <2>3. Max({system.threads, Cardinality(AllHeld)}) \in 0..Cardinality(Things)
    BY <2>2, HeldCounted, MaxOfTwo
  <2>4. system.sockets \cup AllHeld \in SUBSET Things
    BY HeldCounted
  <2> QED BY <2>1, <2>3, <2>4
<1> QED BY <1>1, <1>2, <1>3

\* Every step keeps what was seen in range.
LEMMA SeenStep ==
    ASSUME Ranges, SeenRanges, [Next]_vars
    PROVE  SeenRanges'
<1> USE DEF SeenRanges
<1>1. Cardinality(Things) \in Nat
  BY BoundAssumption, FS_CardinalityType
<1>2. CASE EndTick
  BY <1>2, CountRanges DEF EndTick
<1>3. CASE OnTimer \/ UNCHANGED vars
  BY <1>3 DEF OnTimer, BeginTick, vars
<1>4. CASE OnClearHistory
  <2>1. /\ UNCHANGED <<named, show>> /\ have_prev' = FALSE
        /\ seen' = [p \in Pids |-> {}]
        /\ system' = [threads |-> 0, sockets |-> {}]
    BY <1>4 DEF OnClearHistory, BeginTick, clear_history
  <2>2. 0 \in 0..Cardinality(Things)
    BY <1>1
  <2>3. system' \in [threads : 0..Cardinality(Things), sockets : SUBSET Things]
    BY <2>1, <2>2
  <2> QED BY <2>1, <2>3
<1>5. CASE AddName \/ RemoveName \/ OnToggle
  BY <1>5 DEF AddName, RemoveName, OnToggle, UserTurn
<1>6. ASSUME NEW p \in Pids, ReadPid(p) PROVE SeenRanges'
  BY <1>6 DEF ReadPid
<1>7. ASSUME \/ IdleCore
             \/ \E p \in Pids : \/ Work(p) \/ Transfer(p) \/ Open(p) \/ Close(p)
                                \/ Exit(p) \/ Start(p) \/ Retitle(p)
      PROVE  SeenRanges'
  BY <1>7 DEF IdleCore, Work, Transfer, Open, Close, Exit, Start, Retitle, Event
<1> QED BY <1>2, <1>3, <1>4, <1>5, <1>6, <1>7 DEF Next

\* The types, and the sets of what was seen.
LEMMA RangesAlways == Spec => [](Ranges /\ SeenRanges)
<1> DEFINE InRange == Ranges /\ SeenRanges
<1>1. Init => InRange
  <2> SUFFICES ASSUME Init PROVE SeenRanges
    BY Begins
  <2>1. Cardinality(Things) \in Nat
    BY BoundAssumption, FS_CardinalityType
  <2>2. 0 \in 0..Cardinality(Things)
    BY <2>1
  <2>3. system \in [threads : 0..Cardinality(Things), sockets : SUBSET Things]
    BY <2>2 DEF Init
  <2> QED BY <2>3 DEF Init, SeenRanges
<1>2. InRange /\ [Next]_vars => InRange'
  BY RangesStep, SeenStep
<1> QED BY <1>1, <1>2, PTL DEF Spec

\* Every variable stays in its range.
THEOREM TypeCorrect == Spec => []TypeOK
<1>1. Ranges /\ SeenRanges => TypeOK
  BY DEF Ranges, SeenRanges, TypeOK
<1> QED BY <1>1, RangesAlways, PTL

-----------------------------------------------------------------------------
(* Totals. *)

AllOpened == UNION {opened[p] : p \in Pids}

\* What a process holds was there or opened under its PID, and so was what is seen.
Within ==
    /\ opened \in [Pids -> SUBSET Things]
    /\ \A p \in Pids : Held(p) \subseteq opened[p]
    /\ \A p \in Pids : seen[p] \subseteq opened[p]
    /\ system.threads <= Cardinality(AllOpened)
    /\ system.sockets \subseteq AllOpened

\* What is opened is counted, and what is in it no more than once.
LEMMA OpenedCounted ==
    ASSUME opened \in [Pids -> SUBSET Things]
    PROVE  /\ AllOpened \subseteq Things /\ IsFiniteSet(AllOpened)
           /\ Cardinality(AllOpened) \in Nat
           /\ \A S : S \subseteq AllOpened =>
                 Cardinality(S) \in Nat /\ Cardinality(S) <= Cardinality(AllOpened)
<1>1. AllOpened \subseteq Things
  BY DEF AllOpened
<1>2. IsFiniteSet(AllOpened)
  BY <1>1, BoundAssumption, FS_Subset
<1>3. ASSUME NEW S, S \subseteq AllOpened
      PROVE  Cardinality(S) \in Nat /\ Cardinality(S) <= Cardinality(AllOpened)
  BY <1>2, <1>3, FS_Subset, FS_CardinalityType
<1> QED BY <1>1, <1>2, <1>3, FS_CardinalityType

\* A step by which more is opened, and nothing is seen, keeps the totals within.
LEMMA WithinGrows ==
    ASSUME SeenRanges, Within, opened' \in [Pids -> SUBSET Things],
           UNCHANGED <<seen, system>>,
           \A p \in Pids : opened[p] \subseteq opened'[p] /\ Held(p)' \subseteq opened'[p]
    PROVE  Within'
<1>1. AllOpened \subseteq AllOpened'
  BY DEF AllOpened
<1>2. /\ Cardinality(AllOpened) \in Nat /\ Cardinality(AllOpened)' \in Nat
      /\ Cardinality(AllOpened) <= Cardinality(AllOpened)'
  <2>1. IsFiniteSet(AllOpened')
    <3>1. AllOpened' \subseteq Things
      BY DEF AllOpened
    <3> QED BY <3>1, BoundAssumption, FS_Subset
  <2> QED BY <1>1, <2>1, FS_Subset, FS_CardinalityType
<1>3. system.threads \in Nat
  BY DEF SeenRanges
<1> QED BY <1>1, <1>2, <1>3 DEF Within

\* The end of a tick sees what is held, which has been opened.
LEMMA CountWithin ==
    ASSUME Ranges, SeenRanges, Within, CountThings, UNCHANGED <<proc, opened>>
    PROVE  Within'
<1>1. UNCHANGED <<AllOpened, opened>> /\ \A p \in Pids : Held(p)' = Held(p)
  BY DEF AllOpened, Held
<1>2. CASE ~show
  BY <1>1, <1>2 DEF CountThings, Within
<1>3. CASE show /\ tracked # {}
  BY <1>1, <1>3 DEF CountThings, Within
<1>4. CASE show /\ tracked = {}
  <2>1. /\ seen' = seen
        /\ system' = [threads |-> Max({system.threads, Cardinality(AllHeld)}),
                      sockets |-> system.sockets \cup AllHeld]
    BY <1>4 DEF CountThings
  <2>2. AllHeld \subseteq AllOpened
    BY DEF AllHeld, AllOpened, Within
  <2>3. /\ Cardinality(AllOpened) \in Nat
        /\ Cardinality(AllHeld) \in 0..Cardinality(AllOpened)
    BY <2>2, OpenedCounted DEF Within
  <2>4. system.threads \in 0..Cardinality(AllOpened)
    BY <2>3 DEF SeenRanges, Within
  <2>5. Max({system.threads, Cardinality(AllHeld)}) \in 0..Cardinality(AllOpened)
    BY <2>3, <2>4, MaxOfTwo
  <2> HIDE DEF AllOpened
  <2> QED BY <1>1, <2>1, <2>2, <2>5 DEF Within
<1> QED BY <1>2, <1>3, <1>4

\* Every step keeps the totals within what was opened.
LEMMA WithinStep ==
    ASSUME Ranges, SeenRanges, Within, [Next]_vars
    PROVE  Within'
<1>0. opened \in [Pids -> SUBSET Things] /\ \A p \in Pids : Held(p) \subseteq opened[p]
  BY DEF Within
<1>1. ASSUME NEW q \in Pids, NEW t \in Things,
             opened' = [opened EXCEPT ![q] = @ \cup {t}],
             \/ proc[q] # Absent /\ proc' = [proc EXCEPT ![q].held = @ \cup {t}]
             \/ proc' = [proc EXCEPT ![q] = Newborn(t)],
             UNCHANGED <<seen, system>>
      PROVE  Within'
  <2>1. Held(q)' \subseteq Held(q) \cup {t}
    <3>1. CASE proc[q] # Absent /\ proc' = [proc EXCEPT ![q].held = @ \cup {t}]
      <4>1. proc[q] \in Process /\ proc'[q] = [proc[q] EXCEPT !.held = @ \cup {t}]
        BY <3>1 DEF Ranges
      <4>2. proc'[q].held = proc[q].held \cup {t}
        BY <4>1 DEF Process
      <4> QED BY <3>1, <4>2 DEF Held
    <3>2. CASE proc' = [proc EXCEPT ![q] = Newborn(t)]
      <4>1. proc'[q].held = {t}
        BY <3>2 DEF Newborn, Ranges
      <4> QED BY <4>1 DEF Held
    <3> QED BY <1>1, <3>1, <3>2
  <2>2. \A p \in Pids : p # q => Held(p)' = Held(p)
    BY <1>1 DEF Held, Ranges
  <2>3. /\ opened' \in [Pids -> SUBSET Things]
        /\ \A p \in Pids : opened[p] \subseteq opened'[p]
        /\ opened'[q] = opened[q] \cup {t}
    BY <1>0, <1>1
  <2> QED BY <1>0, <1>1, <2>1, <2>2, <2>3, WithinGrows
<1>2. ASSUME NEW q \in Pids, Open(q) \/ Start(q) PROVE Within'
  <2>1. UNCHANGED <<seen, system>>
    BY <1>2 DEF Open, Start, Event
  <2> QED BY <1>1, <1>2, <2>1 DEF Open, Start
<1>3. ASSUME UNCHANGED <<seen, system, opened>>,
             \A p \in Pids : Held(p)' \subseteq Held(p)
      PROVE  Within'
  BY <1>0, <1>3, WithinGrows
<1>4. ASSUME NEW q \in Pids, Work(q) \/ Transfer(q) PROVE Within'
  <2>1. /\ proc[q] \in Process /\ UNCHANGED <<seen, system, opened>>
        /\ \/ proc' = [proc EXCEPT ![q].jiffies = @ + 1]
           \/ proc' = [proc EXCEPT ![q].io = @ + 1]
    BY <1>4 DEF Work, Transfer, Event, Ranges
  <2>2. proc'[q].held = proc[q].held
    <3>1. proc'[q] \in {[proc[q] EXCEPT !.jiffies = @ + 1], [proc[q] EXCEPT !.io = @ + 1]}
      BY <2>1 DEF Ranges
    <3> QED BY <2>1, <3>1 DEF Process
  <2>3. proc[q] # Absent
    BY <1>4 DEF Work, Transfer
  <2>4. Held(q)' \subseteq Held(q)
    BY <2>2, <2>3 DEF Held
  <2>5. \A p \in Pids : p # q => Held(p)' = Held(p)
    BY <2>1 DEF Held, Ranges
  <2> QED BY <1>3, <2>1, <2>4, <2>5
<1>5. ASSUME NEW q \in Pids, Close(q) PROVE Within'
  <2>1. PICK t \in Held(q) : proc' = [proc EXCEPT ![q].held = @ \ {t}]
    BY <1>5 DEF Close
  <2>2. proc[q] # Absent /\ proc[q] \in Process
    BY <2>1 DEF Held, Ranges
  <2>3. proc'[q] = [proc[q] EXCEPT !.held = @ \ {t}]
    BY <2>1 DEF Ranges
  <2>4. proc'[q].held = proc[q].held \ {t}
    BY <2>2, <2>3 DEF Process
  <2>5. Held(q)' \subseteq Held(q)
    BY <2>2, <2>4 DEF Held
  <2>6. \A p \in Pids : p # q => Held(p)' = Held(p)
    BY <2>1 DEF Held, Ranges
  <2>7. UNCHANGED <<seen, system, opened>>
    BY <1>5 DEF Close, Event
  <2> QED BY <1>3, <2>5, <2>6, <2>7
<1>6. ASSUME NEW q \in Pids, Exit(q) PROVE Within'
  <2>1. \A p \in Pids : Held(p)' \subseteq Held(p)
    BY <1>6 DEF Exit, Held, Ranges
  <2> QED BY <1>3, <1>6, <2>1 DEF Exit, Event
<1>7. ASSUME UNCHANGED <<proc, seen, system, opened>> PROVE Within'
  BY <1>3, <1>7 DEF Held
<1>8. ASSUME \/ IdleCore \/ \E q \in Pids : Retitle(q) \/ ReadPid(q)
             \/ OnTimer \/ AddName \/ RemoveName \/ OnToggle \/ UNCHANGED vars
      PROVE  UNCHANGED <<proc, seen, system, opened>>
  BY <1>8 DEF IdleCore, Retitle, Event, ReadPid, OnTimer, BeginTick, AddName, RemoveName,
              OnToggle, UserTurn, machine, vars
<1>9. CASE EndTick
  BY <1>9, CountWithin DEF EndTick, machine
<1>10. CASE OnClearHistory
  <2>1. /\ UNCHANGED proc
        /\ seen' = [p \in Pids |-> {}]
        /\ system' = [threads |-> 0, sockets |-> {}]
        /\ opened' = [p \in Pids |-> Held(p)]
    BY <1>10 DEF OnClearHistory, BeginTick, clear_history, machine
  <2>2. opened' \in [Pids -> SUBSET Things]
    BY <2>1, HeldCounted
  <2>3. \A p \in Pids : Held(p)' = Held(p)
    BY <2>1 DEF Held
  <2>4. Cardinality(AllOpened)' \in Nat
    <3>1. AllOpened' \subseteq Things
      BY <2>2 DEF AllOpened
    <3> QED BY <3>1, BoundAssumption, FS_Subset, FS_CardinalityType
  <2> QED BY <2>1, <2>2, <2>3, <2>4 DEF Within
<1> QED BY <1>2, <1>4, <1>5, <1>6, <1>7, <1>8, <1>9, <1>10 DEF Next

\* The totals are of what was there or opened in this session, and nothing else.
THEOREM TotalCorrect == Spec => []TotalWithinSession
<1>1. ASSUME Init PROVE Within
  <2>1. opened = [p \in Pids |-> Held(p)] /\ seen = [p \in Pids |-> {}]
        /\ system = [threads |-> 0, sockets |-> {}]
    BY <1>1 DEF Init
  <2>2. opened \in [Pids -> SUBSET Things]
    BY <1>1, <2>1, Begins, HeldCounted
  <2> QED BY <2>1, <2>2, OpenedCounted DEF Within
<1>2. Ranges /\ SeenRanges /\ Within /\ [Next]_vars => Within'
  BY WithinStep
<1>3. Within => TotalWithinSession
  BY DEF Within, TotalWithinSession, AllOpened
<1> QED BY <1>1, <1>2, <1>3, RangesAlways, PTL DEF Spec

\* The invariant that the properties follow from.
THEOREM SoundAlways == Spec => [](Ranges /\ \A p \in Pids : Sound(p))
<1>1. Init => Ranges /\ \A p \in Pids : Sound(p)
  BY Begins
<1>2. (Ranges /\ \A p \in Pids : Sound(p)) /\ [Next]_vars
        => (Ranges /\ \A p \in Pids : Sound(p))'
  BY RangesStep, SoundStep
<1> QED BY <1>1, <1>2, PTL DEF Spec

\* What is charted under a PID was done under it, and once.
THEOREM CountedOnce == Spec => []NothingCountedTwice
<1>1. ASSUME Ranges, NEW p \in Pids, Sound(p)
      PROVE  charted[p].jiffies <= done[p].jiffies /\ charted[p].io <= done[p].io
  <2>1. OwedJiffies(p) \in Nat /\ OwedIo(p) \in Nat
    BY <1>1, CountedNat, OwesGrows DEF OwedJiffies, OwedIo
  <2> QED BY <1>1, <2>1, CountedNat DEF Sound, Covered
<1>2. Ranges /\ (\A p \in Pids : Sound(p)) => NothingCountedTwice
  BY <1>1 DEF NothingCountedTwice
<1> QED BY <1>2, SoundAlways, PTL

\* The points of a process add up to the growth of its I/O since its first reading.
THEOREM IoComplete == Spec => []NoIoLost
<1>1. Ranges /\ (\A p \in Pids : Sound(p)) => NoIoLost
  BY DEF NoIoLost, Sound, IoKept, Ranges
<1> QED BY <1>1, SoundAlways, PTL

\* Only its reading marks a process as read at this tick.
LEMMA OnlyReadMarks ==
    ASSUME Ranges, Next, NEW p \in Pids, since[p] = ReadLast, since'[p] = ReadNow
    PROVE  ReadPid(p)
<1>1. since \in [Pids -> {NotRead, ReadLast, ReadNow}]
  BY DEF Ranges
<1>2. ASSUME NEW q \in Pids, ReadPid(q) PROVE p = q
  BY <1>1, <1>2 DEF ReadPid, ReadLast, ReadNow
<1>3. ASSUME NEW q \in Pids, Exit(q) PROVE FALSE
  BY <1>1, <1>3 DEF Exit, NotRead, ReadLast, ReadNow
<1>4. ~EndTick
  BY <1>1 DEF EndTick, NotRead, ReadLast, ReadNow
<1>5. ASSUME \/ IdleCore \/ OnTimer \/ OnClearHistory \/ AddName \/ RemoveName \/ OnToggle
             \/ \E q \in Pids : \/ Work(q) \/ Transfer(q) \/ Open(q) \/ Close(q)
                                \/ Start(q) \/ Retitle(q)
      PROVE  FALSE
  BY <1>5 DEF IdleCore, OnTimer, OnClearHistory, BeginTick, AddName, RemoveName,
              OnToggle, UserTurn, Work, Transfer, Open, Close, Start, Retitle, Same,
              ReadLast, ReadNow
<1> QED BY <1>2, <1>3, <1>4, <1>5 DEF Next

\* Its point is bounded by what it lags behind.
LEMMA ReadBounded ==
    ASSUME Ranges, NEW p \in Pids, Sound(p), ReadPid(p), CpuPoint(p),
           since[p] = ReadLast
    PROVE  share'[p].process <= share'[p].machine + (total - total_j)
<1>1. share'[p] = [process |-> CpuGrowth(p), machine |-> total_j - prev_total]
  BY DEF ReadPid, Ranges
<1>2. /\ total \in Nat /\ prev_total \in Nat /\ total_j \in Nat /\ prev_total <= total
      /\ proc[p].jiffies \in Nat /\ prev_jiffies[p] \in Nat
  BY CountedNat DEF Ranges, ReadPid, total_j, UnderWay, CpuPoint, Reading, None
<1>3. CpuGrowth(p) = delta_u64(proc[p].jiffies, prev_jiffies[p])
  BY DEF CpuGrowth
<1>4. proc[p].jiffies - prev_jiffies[p] <= total - prev_total
  BY DEF Sound, InStep, Lag
<1>5. CpuGrowth(p) <= total - prev_total
  BY <1>2, <1>3, <1>4 DEF delta_u64
<1>6. CpuGrowth(p) \in Nat
  BY <1>2, <1>3, DeltaNat
<1> QED BY <1>1, <1>2, <1>5, <1>6

\* A process that was read at the last tick is charted with no more than the machine
\* has done since, but for the jiffies between the two readings.
THEOREM ShareInBound == Spec => ShareBounded
<1> DEFINE Bounded(p) == share'[p].process <= share'[p].machine + (total - total_j)
           InBound == \A p \in Pids :
              since[p] = ReadLast /\ since'[p] = ReadNow /\ CpuPoint(p) => Bounded(p)
<1>1. ASSUME Ranges, \A p \in Pids : Sound(p), [Next]_vars PROVE [InBound]_vars
  <2> SUFFICES ASSUME Next, NEW p \in Pids,
                      since[p] = ReadLast, since'[p] = ReadNow, CpuPoint(p)
               PROVE  Bounded(p)
    BY <1>1
  <2>1. ReadPid(p)
    BY <1>1, OnlyReadMarks
  <2> QED BY <1>1, <2>1, ReadBounded
<1> HIDE DEF InBound
<1>2. Ranges /\ (\A p \in Pids : Sound(p)) /\ [Next]_vars => [InBound]_vars
  BY <1>1
<1>3. Spec => [][InBound]_vars
  BY <1>2, SoundAlways, PTL DEF Spec
<1> QED BY <1>3 DEF ShareBounded, InBound

=============================================================================
