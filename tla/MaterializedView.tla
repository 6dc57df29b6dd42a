-------------------------- MODULE MaterializedView --------------------------
(***************************************************************************)
(* What a precomputed table promises about the data it is computed from:   *)
(* source[d] is what the data says of day d, view[d] what the table says,  *)
(* and outside the stale days the two agree.  Days become stale when their *)
(* data changes or leaves the retention, and fresh only by being computed  *)
(* again.                                                                  *)
(***************************************************************************)
CONSTANTS
  Days,
  Nothing   \* what the data and the table say of a day before anything is there

VARIABLES source, view, stale

vvars == <<source, view, stale>>

Init ==
  /\ source = [d \in Days |-> Nothing]
  /\ view = source
  /\ stale \in SUBSET Days

\* Data changes or is dropped: only on days that are stale from then on.
Change(days) ==
  /\ stale' = stale \cup days
  /\ \A d \in Days \ stale' : source'[d] = source[d] /\ view'[d] = view[d]

\* The days are computed again; another fresh day keeps what the table said.
Refresh(days) ==
  /\ stale' = stale \ days
  /\ UNCHANGED source
  /\ \A d \in days : view'[d] = source[d]
  /\ \A d \in Days \ (days \cup stale) : view'[d] = view[d]

Next == \E days \in SUBSET Days : Change(days) \/ Refresh(days)

Spec == Init /\ [][Next]_vvars

\* What follows for every reader: a day that is not stale reads the same in both.
FreshAgrees == \A d \in Days \ stale : view[d] = source[d]
=============================================================================
