---------------------------- MODULE ProcSampling ----------------------------
(* How the collector (src/src/collector.cpp) samples processes: CPU share    *)
(* and I/O as the growth of counters, threads and sockets as totals of what  *)
(* was ever seen.                                                            *)
(*                                                                           *)
(* Everything runs on one event loop, but the machine does not wait for it:  *)
(* the machine's jiffies are read before those of the processes, one process *)
(* after the other, while processes work, exit and give their PIDs to new    *)
(* ones.  What a process holds stands for its threads and for its sockets,   *)
(* which the code treats alike.  When the NAMEs are scanned is Session's.    *)
EXTENDS Integers, FiniteSets, FiniteSetsExt

CONSTANTS
    Pids,
    Things,         \* threads and sockets, by thread ID and inode
    Absent,         \* no process has the PID
    Idle,           \* no tick is under way
    MaxTicks,       \* BOUND: samples, those of a clear included
    MaxGestures,    \* BOUND: what the user does
    MaxEvents       \* BOUND: what happens in the machine

None     == -1      \* no reading yet
NotRead  == 0       \* in neither the last tick nor this one
ReadLast == 1
ReadNow  == 2

\* A process: its counters, the threads or sockets it has open.
Process == [jiffies : Nat, io : Nat, held : SUBSET Things]

\* What a tick under way has read of the machine, and whom it has yet to read.
UnderWay == [total : Nat, todo : SUBSET Pids]

ASSUME AbsentAssumption == Absent \notin Process
ASSUME IdleAssumption == Idle \notin UnderWay
ASSUME BoundAssumption ==
    /\ IsFiniteSet(Pids) /\ IsFiniteSet(Things)
    /\ MaxTicks \in Nat /\ MaxGestures \in Nat /\ MaxEvents \in Nat

\* The machine: external.
VARIABLES
    total,          \* jiffies of all cores, idle ones included
    proc,           \* who has each PID: counters and what it holds
    matched         \* PIDs that the NAMEs match, by title too

\* The collector.
VARIABLES
    named,          \* opt_.names is not empty
    show,           \* threads and connections are charted
    tracked,
    prev_total,     \* prev_total_jiffies_
    prev_jiffies,   \* prev_pid_jiffies_
    prev_io,        \* prev_pid_io_
    have_prev,
    seen,           \* seen_tids_, seen_conn_inodes_: per PID
    system,         \* the same for the whole machine: threads are a number
    reading         \* the tick under way: what it has read, what is left

\* HISTORY.
VARIABLES
    done,           \* jiffies and I/O of each PID, whoever had it
    charted,        \* the sums of all points
    share,          \* the last CPU point: jiffies of process and machine
    since,          \* whether the same process was read in this or the last tick
    whole,          \* PIDs whose I/O is charted from a first reading on
    mark,           \* that reading, less what had been charted before
    opened,         \* things there or opened under each PID in this session
    ticks, gestures, events

machine == <<total, proc, matched>>
prevs   == <<prev_total, prev_jiffies, prev_io>>
sums    == <<charted, share, mark>>
vars    == <<machine, named, show, tracked, prevs, have_prev, seen, system, reading,
             done, sums, since, whole, opened, ticks, gestures, events>>

Alive == {p \in Pids : proc[p] # Absent}
Held(p) == IF proc[p] = Absent THEN {} ELSE proc[p].held
AllHeld == UNION {Held(p) : p \in Pids}

\* Fault: the plain unsigned difference, 8 bits wide.
delta_wrapped(new, old) == (new - old) % 2^8

\* A new process starts from zero.
delta_u64(new, old) == IF new >= old THEN new - old ELSE 0

-----------------------------------------------------------------------------
(* The machine. *)

Event ==
    /\ events < MaxEvents
    /\ events' = events + 1
    /\ UNCHANGED <<named, show, tracked, prevs, have_prev, seen, system, reading,
                   sums, ticks, gestures>>

Same == UNCHANGED <<since, whole>>

Newborn(thread) == [jiffies |-> 0, io |-> 0, held |-> {thread}]

\* A core spends a jiffy on a process, or idles.
Work(p) ==
    /\ Event
    /\ proc[p] # Absent
    /\ proc' = [proc EXCEPT ![p].jiffies = @ + 1]
    /\ total' = total + 1
    /\ done' = [done EXCEPT ![p].jiffies = @ + 1]
    /\ Same /\ UNCHANGED <<matched, opened>>

IdleCore ==
    /\ Event
    /\ total' = total + 1
    /\ Same /\ UNCHANGED <<proc, matched, done, opened>>

Transfer(p) ==
    /\ Event
    /\ proc[p] # Absent
    /\ proc' = [proc EXCEPT ![p].io = @ + 1]
    /\ done' = [done EXCEPT ![p].io = @ + 1]
    /\ Same /\ UNCHANGED <<total, matched, opened>>

\* A thread or a socket is opened or closed; its number may be used again.
Open(p) ==
    /\ Event
    /\ proc[p] # Absent
    /\ \E t \in Things \ AllHeld :
          /\ proc' = [proc EXCEPT ![p].held = @ \cup {t}]
          /\ opened' = [opened EXCEPT ![p] = @ \cup {t}]
    /\ Same /\ UNCHANGED <<total, matched, done>>

Close(p) ==
    /\ Event
    /\ \E t \in Held(p) : proc' = [proc EXCEPT ![p].held = @ \ {t}]
    /\ Same /\ UNCHANGED <<total, matched, done, opened>>

Exit(p) ==
    /\ Event
    /\ proc[p] # Absent
    /\ proc' = [proc EXCEPT ![p] = Absent]
    /\ since' = [since EXCEPT ![p] = NotRead]
    /\ whole' = whole \ {p}
    /\ UNCHANGED <<total, matched, done, opened>>

\* A process starts, perhaps under the PID of one that is tracked.
Start(p) ==
    /\ Event
    /\ proc[p] = Absent
    /\ \E t \in Things \ AllHeld :
          /\ proc' = [proc EXCEPT ![p] = Newborn(t)]
          /\ opened' = [opened EXCEPT ![p] = @ \cup {t}]
    /\ Same /\ UNCHANGED <<total, matched, done>>

\* A title changes: the NAMEs match the process, or do not any more.
Retitle(p) ==
    /\ Event
    /\ matched' = IF p \in matched THEN matched \ {p} ELSE matched \cup {p}
    /\ Same /\ UNCHANGED <<total, proc, done, opened>>

-----------------------------------------------------------------------------
(* A tick. *)

resolve_names == matched \cap Alive

\* tick and sample_pids, their beginning: the scan if it is due, then the
\* machine's jiffies.
BeginTick ==
    /\ reading = Idle
    /\ ticks < MaxTicks
    /\ ticks' = ticks + 1
    /\ \E scan \in BOOLEAN :
          tracked' = IF scan /\ named THEN resolve_names ELSE tracked
    /\ reading' = [total |-> total, todo |-> tracked']
    /\ UNCHANGED <<machine, named, show, prevs, done, sums, since, events>>

\* Fault: the machine's jiffies are read with those of each process.
total_j_late == total

\* What sample_pids has read at its beginning.
total_j == reading.total

\* Fault: no jiffy of the machine need have passed.
CpuPointAlways(p) == have_prev /\ proc[p] # Absent /\ prev_jiffies[p] # None

CpuPoint(p) ==
    /\ have_prev /\ proc[p] # Absent
    /\ prev_jiffies[p] # None /\ prev_total > 0 /\ total_j > prev_total

IoPoint(p, io_ok) == have_prev /\ io_ok /\ prev_io[p] # None

\* Fault: a file that cannot be read counts as one of zeros.
IoReadingAlways(p, io_ok) == IF io_ok THEN proc[p].io ELSE 0

IoReading(p, io_ok) == IF io_ok THEN proc[p].io ELSE prev_io[p]

\* What is charted of a process: the growth since the reading before.
CpuGrowth(p) ==
    IF CpuPoint(p) THEN delta_u64(proc[p].jiffies, prev_jiffies[p]) ELSE 0

IoGrowth(p, io_ok) ==
    IF IoPoint(p, io_ok) THEN delta_u64(proc[p].io, prev_io[p]) ELSE 0

\* sample_pids, one process.  The file of its I/O may not be readable.
ReadPid(p) ==
    /\ reading # Idle /\ p \in reading.todo
    /\ reading' = [reading EXCEPT !.todo = @ \ {p}]
    /\ \E io_ok \in {FALSE, proc[p] # Absent} :
          /\ prev_io' = [prev_io EXCEPT ![p] = IoReading(p, io_ok)]
          /\ charted' = [charted EXCEPT
                ![p] = [jiffies |-> @.jiffies + CpuGrowth(p),
                        io |-> @.io + IoGrowth(p, io_ok)]]
          /\ IF io_ok /\ ~IoPoint(p, io_ok)
             THEN /\ whole' = whole \cup {p}
                  /\ mark' = [mark EXCEPT ![p] = proc[p].io - charted[p].io]
             ELSE UNCHANGED <<whole, mark>>
    /\ share' = IF ~CpuPoint(p) THEN share
                ELSE [share EXCEPT ![p] =
                        [process |-> CpuGrowth(p), machine |-> total_j - prev_total]]
    /\ IF proc[p] = Absent THEN UNCHANGED <<prev_jiffies, since>>
       ELSE /\ prev_jiffies' = [prev_jiffies EXCEPT ![p] = proc[p].jiffies]
            /\ since' = [since EXCEPT ![p] = ReadNow]
    /\ UNCHANGED <<machine, named, show, tracked, prev_total, have_prev, seen, system,
                   done, opened, ticks, gestures, events>>

\* sample_threads and sample_connections.  Without a process the threads of the
\* machine are a high-water mark.
CountThings ==
    IF ~show THEN UNCHANGED <<seen, system>>
    ELSE IF tracked # {}
    THEN /\ seen' = [p \in Pids |-> IF p \in tracked THEN seen[p] \cup Held(p) ELSE seen[p]]
         /\ UNCHANGED system
    ELSE /\ system' = [threads |-> Max({system.threads, Cardinality(AllHeld)}),
                       sockets |-> system.sockets \cup AllHeld]
         /\ UNCHANGED seen

\* sample_pids, its end (not reached when nothing is tracked), and the samples
\* after it, taken as one step.
EndTick ==
    /\ reading # Idle /\ reading.todo = {}
    /\ reading' = Idle
    /\ prev_total' = IF tracked = {} THEN prev_total ELSE total_j
    /\ have_prev' = TRUE
    /\ CountThings
    /\ since' = [p \in Pids |-> IF since[p] = ReadNow THEN ReadLast ELSE NotRead]
    /\ UNCHANGED <<machine, named, show, tracked, prev_jiffies, prev_io, done, sums,
                   whole, opened, ticks, gestures, events>>

-----------------------------------------------------------------------------
(* The program. *)

Init ==
    /\ total = 1
    /\ matched \in SUBSET Pids
    /\ proc \in [Pids -> {Absent} \cup
                         {[jiffies |-> 1, io |-> 1, held |-> {t}] : t \in Things}]
    /\ \A p, q \in Alive : p # q => Held(p) \cap Held(q) = {}
    /\ named \in BOOLEAN /\ show \in BOOLEAN
    /\ tracked = IF named THEN resolve_names ELSE {}
    /\ prev_total = 0
    /\ prev_jiffies = [p \in Pids |-> None] /\ prev_io = prev_jiffies
    /\ have_prev = FALSE
    /\ seen = [p \in Pids |-> {}]
    /\ system = [threads |-> 0, sockets |-> {}]
    /\ reading = Idle
    /\ done = [p \in Pids |-> [jiffies |-> 0, io |-> 0]] /\ charted = done
    /\ share = [p \in Pids |-> Absent]
    /\ since = [p \in Pids |-> NotRead]
    /\ whole = {} /\ mark = [p \in Pids |-> 0]
    /\ opened = [p \in Pids |-> Held(p)]
    /\ ticks = 0 /\ gestures = 0 /\ events = 0

\* OnTimer, and the constructor's first tick.
OnTimer ==
    /\ BeginTick
    /\ UNCHANGED <<have_prev, seen, system, whole, opened, gestures>>

\* Fault: what was seen is kept.
clear_keeps_seen == have_prev' = FALSE /\ UNCHANGED <<seen, system>>

clear_history ==
    /\ have_prev' = FALSE
    /\ seen' = [p \in Pids |-> {}]
    /\ system' = [threads |-> 0, sockets |-> {}]

\* OnClearHistory, which begins a session and a tick.
OnClearHistory ==
    /\ ticks > 0 /\ gestures < MaxGestures
    /\ gestures' = gestures + 1
    /\ BeginTick
    /\ clear_history
    /\ whole' = {}
    /\ opened' = [p \in Pids |-> Held(p)]

UserTurn ==
    /\ reading = Idle /\ ticks > 0
    /\ gestures < MaxGestures
    /\ gestures' = gestures + 1
    /\ UNCHANGED <<machine, prevs, have_prev, seen, system, reading, done, sums, since,
                   whole, opened, ticks, events>>

\* add_name scans at once; remove_chart of the process charts forgets the NAMEs.
AddName    == UserTurn /\ named' = TRUE /\ tracked' = resolve_names /\ UNCHANGED show
RemoveName == UserTurn /\ named' = FALSE /\ tracked' = {} /\ UNCHANGED show
OnToggle   == UserTurn /\ show' = ~show /\ UNCHANGED <<named, tracked>>

Next ==
    \/ OnTimer
    \/ OnClearHistory
    \/ \E p \in Pids : ReadPid(p)
    \/ EndTick
    \/ AddName \/ RemoveName \/ OnToggle
    \/ IdleCore
    \/ \E p \in Pids : \/ Work(p) \/ Transfer(p) \/ Open(p) \/ Close(p)
                       \/ Exit(p) \/ Start(p) \/ Retitle(p)

Spec == Init /\ [][Next]_vars

-----------------------------------------------------------------------------
(* Properties. *)

Counters == [jiffies : Nat, io : Nat]
Reading  == Nat \cup {None}
Share    == [process : Nat, machine : Nat \ {0}]

\* Every variable in its range.  A CPU point is never over no time: that would
\* divide by zero.
TypeOK ==
    /\ total \in Nat /\ matched \subseteq Pids
    /\ named \in BOOLEAN /\ show \in BOOLEAN /\ have_prev \in BOOLEAN
    /\ proc \in [Pids -> {Absent} \cup Process]
    /\ tracked \subseteq Pids
    /\ reading \in {Idle} \cup UnderWay
    /\ reading # Idle => reading.todo \subseteq tracked
    /\ prev_total \in 0..total
    /\ prev_jiffies \in [Pids -> Reading] /\ prev_io \in [Pids -> Reading]
    /\ seen \in [Pids -> SUBSET Things]
    /\ system \in [threads : 0..Cardinality(Things), sockets : SUBSET Things]
    /\ done \in [Pids -> Counters] /\ charted \in [Pids -> Counters]
    /\ share \in [Pids -> {Absent} \cup Share]
    /\ since \in [Pids -> {NotRead, ReadLast, ReadNow}]
    /\ whole \subseteq Pids

\* What is charted under a PID was done under it, and once: whoever has had the
\* PID, however long it was not tracked, whenever a file could not be read.
NothingCountedTwice ==
    \A p \in Pids : /\ charted[p].jiffies <= done[p].jiffies
                    /\ charted[p].io <= done[p].io

\* Nothing is lost: the points of a process add up to the growth of its I/O
\* since the first reading of the session, over readings that failed and times
\* when it was not tracked.
NoIoLost ==
    \A p \in whole : charted[p].io = prev_io[p] - mark[p]

\* A process that was read at the last tick is not charted with more than the
\* machine has done since, but for the jiffies between the reading of the
\* machine's and its own.  (One that was not tracked at the last tick is: all it
\* did meanwhile is compared with the machine's jiffies of one interval.)
ShareBounded ==
    [][\A p \in Pids :
          since[p] = ReadLast /\ since'[p] = ReadNow /\ CpuPoint(p) =>
             share'[p].process <= share'[p].machine + (total - total_j)]_vars

\* src/man/pidload.adoc:101, "total unique threads opened during the session": the
\* total of a PID has nothing in it that was not there when the session began, or
\* opened since, under that PID, also when ticks and clears interleave with threads
\* and sockets that close and come back; and the machine's number of threads was
\* reached within the session.  (By which process is not said: the code keeps
\* totals by PID, so those of a process go on from those of the one before it.)
TotalWithinSession ==
    /\ \A p \in Pids : seen[p] \subseteq opened[p]
    /\ LET all == UNION {opened[p] : p \in Pids}
       IN  system.threads <= Cardinality(all) /\ system.sockets \subseteq all

=============================================================================
