---------------------------- MODULE CreditTally ----------------------------
(***************************************************************************)
(* What SUM(credits) over a set of database rows is.  Credits are integers *)
(* that are never split (src/src/lib/db/schema.ts: "Money is NEVER a       *)
(* float"), so a row worth n credits is n units <<row, 1>> .. <<row, n>>   *)
(* and a sum over rows is the number of their units.  Written this way a   *)
(* sum needs no recursion, and what inserting or removing a row does to it *)
(* follows from the library's facts on finite sets.                        *)
(***************************************************************************)
EXTENDS Integers, FiniteSets

\* f maps every row to the credits it is worth.
Units(f) == UNION {{row} \X (1 .. f[row]) : row \in DOMAIN f}

\* SELECT SUM(f) over the rows of f.
Total(f) == Cardinality(Units(f))

=============================================================================
