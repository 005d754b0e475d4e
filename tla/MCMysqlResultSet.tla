--------------------------- MODULE MCMysqlResultSet ---------------------------
(***************************************************************************)
(* MysqlResultSet for TLC: one column, two, and two of the same name, as a *)
(* join may return them.                                                   *)
(***************************************************************************)
EXTENDS MysqlResultSet

CONSTANTS id, name, seven, half   \* half is "2.5"

MCName == {id, name}
MCHeading == {<<id>>, <<name, id>>, <<id, id>>}

MCText == {Blank, seven, half}
MCTenths == [t \in MCText |-> CASE t = seven -> 70 [] t = half -> 25 [] OTHER -> 0]
MCContent == << <<seven, half>>, <<NULL, seven>>, <<half, NULL>> >>
=============================================================================
