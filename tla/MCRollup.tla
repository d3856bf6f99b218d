------------------------------ MODULE MCRollup ------------------------------
(* A small calendar for the summary tree: days 2 and 3 are one week across   *)
(* the end of the first month, days 4 and 5 one across the end of the second *)
(* month and of the year.                                                    *)
EXTENDS Rollup

CONSTANTS t1, t2


OneMainTurn == {t1}
TwoTurns == {t1, t2}
Weeks == [d \in Days |-> d \div 2]
Months == [d \in Days |-> (d - 1) \div 2]
Years == [d \in Days |-> (d - 1) \div 4]
=============================================================================
