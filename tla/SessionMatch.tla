---------------------------- MODULE SessionMatch -----------------------------
(* Session with its NAMEs resolved by ProcessMatch: resolve_names, which the *)
(* collector calls, calls resolve_name for each NAME                         *)
(* (src/src/process_match.cpp).  Session is told which processes of the      *)
(* machine a NAME finds; which of them are tracked, and when, is its own.    *)
EXTENDS Session, ProcessMatch

CONSTANT Machine    \* the processes that start and exit in this session

ASSUME MachineAssumption ==
    /\ Machine \in Universes
    /\ Pids = {p.pid : p \in Machine}
    /\ Names \subseteq Texts \ {Nothing}
ASSUME MatchesAsResolved ==
    \A name \in Names :
        LET found == resolve_name(name, Machine)
        IN  Matches[name] = [i \in DOMAIN found |-> found[i].pid]

\* What is alive of some processes.
Running(procs) == {p \in procs : p.pid \in alive}

-----------------------------------------------------------------------------
(* Properties. *)

\* README.md:14-16.  The collector's constructor looks its NAMEs up among the
\* processes that run then: whichever these are, a NAME finds exactly those that
\* the documentation says it selects.  This is not so of a NAME of digits.
SelectsAsDocumented ==
    ~running => \A name \in Texts \ (Digits \cup {Nothing}), procs \in Universes :
                    FindsAsDocumented(name, Running(procs))

\* It lists them once each, in the order of the line styles.
BestMatchFirst ==
    ~running => \A name \in Texts, procs \in Universes :
                    FindsBestFirst(name, Running(procs))

\* A scan of the NAMEs leaves nothing out and nothing behind, and nothing but a scan
\* or a removal touches its result: what is tracked is what was alive at the last
\* scan and what the documentation says a NAME of the session selects.
TracksDocumented ==
    ToSet(opt.names) \cap Digits = {} =>
        \A p \in Machine : p.pid \in Pid(tracked) <=>
            p.pid \in seen /\ \E name \in ToSet(opt.names) : Selects(name, p)

=============================================================================
