----------------------------- MODULE MCRedisQueue -----------------------------
(***************************************************************************)
(* RedisQueue for TLC.  Consumers are interchangeable, and so are elements *)
(* and producers, in the runs that check safety only.                      *)
(***************************************************************************)
EXTENDS RedisQueue

Symmetry == Permutations(Producer) \cup Permutations(Consumer) \cup Permutations(Value)
=============================================================================
