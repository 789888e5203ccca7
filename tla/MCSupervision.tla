----------------------------- MODULE MCSupervision -----------------------------
(***************************************************************************)
(* Instances of Supervision for TLC: one launcher among the processes of   *)
(* two pids, and the lease alone among three.                              *)
(***************************************************************************)
EXTENDS Supervision, TLC

CONSTANTS p1, p2, p3, s1, t1, t2, t3

\* Pids and tokens are interchangeable, where no pid is reused.
LeaseSymmetry == Permutations(Pid) \cup Permutations(Token)

=============================================================================
