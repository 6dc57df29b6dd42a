------------------------- MODULE SourceReplacement -------------------------
(***************************************************************************)
(* What the cost record store promises about the rows of a billing export, *)
(* whatever the collectors, the retention and the failures do: an export   *)
(* is only ever dropped as a whole and filled again from one version,      *)
(* every row at most once; old days may expire.                            *)
(***************************************************************************)
EXTENDS Integers

CONSTANTS Objects, Versions, Days

Row == [obj : Objects, ver : Versions, day : Days]

VARIABLE stored   \* how many times each row is stored

Init == stored = [r \in Row |-> 0]

\* All rows of one export go.
Drop(o) == stored' = [r \in Row |-> IF r.obj = o THEN 0 ELSE stored[r]]

\* Rows of one version come, none of them there yet, none beside another version.
Fill(o, v, rows) ==
  /\ \A r \in rows : r.obj = o /\ r.ver = v /\ stored[r] = 0
  /\ \A r \in Row : r.obj = o /\ stored[r] > 0 => r.ver = v
  /\ stored' = [r \in Row |-> IF r \in rows THEN 1 ELSE stored[r]]

\* The days before the given one go, for every export.
Expire(day) == stored' = [r \in Row |-> IF r.day < day THEN 0 ELSE stored[r]]

Next ==
  \/ \E o \in Objects : Drop(o)
  \/ \E o \in Objects, v \in Versions : \E rows \in SUBSET Row : Fill(o, v, rows)
  \/ \E day \in Days : Expire(day)

Spec == Init /\ [][Next]_stored
=============================================================================
