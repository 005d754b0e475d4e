------------------------------- MODULE RowCursor -------------------------------
(***************************************************************************)
(* What a query result promises its reader: a cursor over rows 1 .. size,  *)
(* which moves one row at a time, jumps where it is told, and stays behind *)
(* the last row once it is there.  Position size + 1 is the end, 0 means   *)
(* that there is no result.                                                *)
(***************************************************************************)
EXTENDS Naturals

CONSTANT MaxRows

VARIABLES size, pos

Empty == size = 0 /\ pos = 0

Fill == \E n \in 0 .. MaxRows : size' = n /\ pos' = 1

\* The reader moves on.
Advance == pos \in 1 .. size /\ pos' = pos + 1 /\ size' = size

\* The reader jumps to a row, or to the end of a result without rows.
Jump ==
  /\ pos # 0
  /\ pos' \in IF size = 0 THEN {1} ELSE 1 .. size
  /\ size' = size

Clear == size' = 0 /\ pos' = 0

Spec == Empty /\ [][Fill \/ Advance \/ Jump \/ Clear]_<<size, pos>>
=============================================================================
