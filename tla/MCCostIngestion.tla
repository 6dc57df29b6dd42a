-------------------------- MODULE MCCostIngestion --------------------------
(* Instances of CostIngestion for TLC. *)
EXTENDS CostIngestion, TLC

CONSTANTS o1, o2, a1, scheduler, http

\* An OCI report that is rewritten once, with a row more.
OciContent1 == [x \in {o1} \X {1, 2} |-> IF x[2] = 1 THEN {0} ELSE {0, 1}]
\* A month-to-date CUR export grows by a row a day.
CurContent == [x \in {a1} \X {1, 2} |-> IF x[2] = 1 THEN {0, 1} ELSE {0, 1, 2}]

\* An export of two rows.
OneCurExport == [x \in {a1} \X {1} |-> {0, 1}]

\* A report and an export side by side.
BothContent == [x \in {o1, a1} \X {1} |-> IF x[1] = o1 THEN {1} ELSE {0, 1}]
CallerSymmetry == Permutations(Callers)
=============================================================================
