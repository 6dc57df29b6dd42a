----------------------- MODULE MaterializedViewProofs -----------------------
(***************************************************************************)
(* The promise of a materialized view, proved for every set of days and    *)
(* whatever the data and the table say of a day.                           *)
(***************************************************************************)
EXTENDS MaterializedView, TLAPS

\* No step makes a day that is not stale differ from its data.
LEMMA StepKeepsFresh == FreshAgrees /\ [Next]_vvars => FreshAgrees'
<1> SUFFICES ASSUME FreshAgrees, [Next]_vvars PROVE FreshAgrees'
  OBVIOUS
<1>1. CASE UNCHANGED vvars
  BY <1>1 DEF vvars, FreshAgrees
<1>2. ASSUME NEW days \in SUBSET Days, Change(days) PROVE FreshAgrees'
  BY <1>2 DEF Change, FreshAgrees
<1>3. ASSUME NEW days \in SUBSET Days, Refresh(days) PROVE FreshAgrees'
  <2>1. ASSUME NEW d \in Days \ stale' PROVE view'[d] = source'[d]
    <3>1. CASE d \in days
      BY <1>3, <3>1 DEF Refresh
    <3>2. CASE d \notin days
      <4>1. d \notin stale
        BY <1>3, <2>1, <3>2 DEF Refresh
      <4> QED BY <1>3, <2>1, <3>2, <4>1 DEF Refresh, FreshAgrees
    <3> QED BY <3>1, <3>2
  <2> QED BY <2>1 DEF FreshAgrees
<1> QED BY <1>1, <1>2, <1>3 DEF Next

\* Whoever reads a day that is not stale reads what its data say.
THEOREM FreshDaysAgree == Spec => []FreshAgrees
<1>1. Init => FreshAgrees
  BY DEF Init, FreshAgrees
<1> QED BY <1>1, StepKeepsFresh, PTL DEF Spec
=============================================================================
