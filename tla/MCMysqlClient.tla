---------------------------- MODULE MCMysqlClient ----------------------------
(***************************************************************************)
(* MysqlClient for TLC: interchangeable statements.                        *)
(***************************************************************************)
EXTENDS MysqlClient, TLC

Symmetry == Permutations(Statement)
=============================================================================
