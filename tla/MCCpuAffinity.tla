---------------------------- MODULE MCCpuAffinity ----------------------------
(***************************************************************************)
(* CpuAffinity for TLC.  The threads other than Main are interchangeable.  *)
(***************************************************************************)
EXTENDS CpuAffinity, TLC

Symmetry == Permutations(Thread \ {Main})
=============================================================================
