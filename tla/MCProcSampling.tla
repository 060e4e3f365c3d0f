--------------------------- MODULE MCProcSampling ---------------------------
(* ProcSampling with two PIDs and two thread IDs and inodes. *)
EXTENDS ProcSampling, TLC

CONSTANTS p, q, t1, t2

MCSymmetry == Permutations({p, q}) \cup Permutations({t1, t2})
=============================================================================
