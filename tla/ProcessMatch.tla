---------------------------- MODULE ProcessMatch -----------------------------
(* Which running processes a NAME selects, and in which order                *)
(* (src/src/process_match.cpp).  A pure algorithm: /proc and the window      *)
(* titles go in, a list of processes comes out, the better kinds of match    *)
(* first.  Texts are atoms; what the algorithm asks of them is given with    *)
(* them: their pieces, their last component, which globs they fit.           *)
EXTENDS Integers, Sequences, SequencesExt, FiniteSets

CONSTANTS
    Digits,         \* texts made of digits
    PidText,        \* the name in /proc of what has a PID
    Globs,          \* texts with a * or ?
    Pieces,         \* the words and the other characters of each text, in order
                    \* and in lower case
    Words,          \* the pieces that are words, of letters and digits
    Base,           \* the last component of each path
    Fits,           \* fnmatch: the texts each glob fits
    FitsPath,       \* fnmatch with FNM_PATHNAME: no * stands for a slash
    Texts,          \* what is given as a NAME
    Universes       \* sets of processes that there may be at one time

Nothing == ""       \* what cannot be read, or is not there

\* Nothing has no pieces; FNM_PATHNAME only refuses more.
ASSUME TextAssumption ==
    /\ Pieces[Nothing] = <<>>
    /\ \A glob \in Globs : FitsPath[glob] \subseteq Fits[glob]
\* A PID is a number, whose digits name one process.
ASSUME UniverseAssumption ==
    \A procs \in Universes :
        /\ IsFiniteSet(procs)
        /\ \A p \in procs : p.pid \in Nat /\ PidText[p.pid] \in Digits
        /\ \A p, q \in procs : PidText[p.pid] = PidText[q.pid] => p = q

\* What is found of a process.  A thread is there by the name of its ID, but is
\* not listed.
ProcInfo(pid, listed, comm, exe, title) ==
    [pid |-> pid, listed |-> listed, comm |-> comm, exe |-> exe, title |-> title,
     exe_base |-> IF exe = Nothing THEN comm ELSE Base[exe]]

\* title_matches_plain: the name stands in the title, and no word goes on before
\* or after it.
title_matches_plain(title, name) ==
    LET t == Pieces[title]
    IN  \E i \in 1..Len(t) : \E j \in i..Len(t) :
            /\ SubSeq(t, i, j) = Pieces[name]
            /\ i > 1 => t[i - 1] \notin Words
            /\ j < Len(t) => t[j + 1] \notin Words

is_pid_token(name)  == name \in Digits
name_has_glob(name) == name \in Globs

\* Fault: a * stands for what cannot be read, too.
MatchingNothing(text, glob, fits) == text \in fits[glob]

\* fnmatch of a text that there is.
Matching(text, glob, fits) == text # Nothing /\ text \in fits[glob]

\* The kinds of match, in the order in which they are tried.
Tries(name, procs) ==
    << {p \in procs : name \in {p.comm, p.exe_base}},
       {p \in procs : p.exe = name},
       {p \in procs : p.title = name} >>
    \o IF name_has_glob(name)
       THEN << {p \in procs : \/ Matching(p.exe_base, name, Fits)
                              \/ Matching(p.comm, name, Fits)},
               {p \in procs : Matching(p.exe, name, FitsPath)},
               {p \in procs : Matching(p.exe, name, Fits)},
               {p \in procs : Matching(p.title, name, Fits)} >>
       ELSE << {p \in procs : p.title # Nothing /\ title_matches_plain(p.title, name)} >>

\* /proc is read in the order of the PIDs.
ByPid(procs) ==
    CHOOSE list \in [1..Cardinality(procs) -> procs] :
        \A i, j \in DOMAIN list : i < j => list[i].pid < list[j].pid

\* Fault: a process is added at each kind of match.
add_again(found, try) == found \o ByPid(try)

\* add: what a kind of match finds, if no kind before has found it.
add(found, try) == found \o ByPid(try \ ToSet(found))

\* scan_processes: what /proc lists.
scan_processes(procs) == {p \in procs : p.listed}

\* resolve_name for a NAME that is not of digits: every kind is tried.
resolve_plain(name, procs) ==
    LET tries == Tries(name, scan_processes(procs))
        found[i \in 0..Len(tries)] ==
            IF i = 0 THEN <<>> ELSE add(found[i - 1], tries[i])
    IN  found[Len(tries)]

\* resolve_name: digits are the name of an entry of /proc, which may be a thread's,
\* and nothing else is tried for them.
resolve_name(name, procs) ==
    IF is_pid_token(name) THEN SetToSeq({p \in procs : PidText[p.pid] = name})
    ELSE IF name = Nothing THEN <<>>
    ELSE resolve_plain(name, procs)

-----------------------------------------------------------------------------
(* What is promised. *)

\* README.md:14-16: "pid, executable name, path, window title, or globs", and a
\* plain name as words of a window title: any of these, for every NAME.
Selects(name, p) ==
    LET texts == {p.comm, p.exe_base, p.exe, p.title} \ {Nothing}
    IN  /\ p.listed
        /\ \/ PidText[p.pid] = name
           \/ name \in texts
           \/ IF name_has_glob(name) THEN texts \cap Fits[name] # {}
              ELSE title_matches_plain(p.title, name)

\* How good a match is, from the best: the name of the program, its path, the
\* title, then a glob on each of these or a word of the title.
Rank(name, p) ==
    LET glob(texts, fits) == name_has_glob(name) /\ (texts \ {Nothing}) \cap fits[name] # {}
        found == <<name \in {p.comm, p.exe_base}, name = p.exe, name = p.title,
                   glob({p.comm, p.exe_base}, Fits),
                   glob({p.exe}, FitsPath),
                   glob({p.exe}, Fits),
                   TRUE>>
    IN  CHOOSE r \in DOMAIN found : found[r] /\ \A better \in 1..(r - 1) : ~found[better]

\* A NAME finds exactly the processes that the documentation says it selects.
FindsAsDocumented(name, procs) ==
    ToSet(resolve_name(name, procs)) = {p \in procs : Selects(name, p)}

\* Each process is found once, better matches come first, and PIDs decide
\* between equal ones: the line styles are given in this order.
FindsBestFirst(name, procs) ==
    LET found == resolve_name(name, procs)
    IN  \A i, j \in DOMAIN found :
            i < j => \/ Rank(name, found[i]) < Rank(name, found[j])
                     \/ /\ Rank(name, found[i]) = Rank(name, found[j])
                        /\ found[i].pid < found[j].pid

=============================================================================
