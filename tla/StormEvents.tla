---------------------------- MODULE StormEvents ----------------------------
(***************************************************************************)
(* The rows of storm_events as billing reads them, and the time of a       *)
(* window that a set of them covers.  Time is counted in whole units; unit *)
(* t stands for the interval [t, t + 1).                                   *)
(***************************************************************************)
EXTENDS Integers, FiniteSets

CONSTANT NULL  \* the end of a storm that goes on

ASSUME NullAssumption == NULL \notin Nat

Storm == [started : Nat, ended : Nat \cup {NULL}]

ActiveAt(st, t) == st.started <= t /\ (st.ended = NULL \/ t < st.ended)

\* The units from start to end in which one of the storms S is active.
CoveredTime(S, start, end) ==
  Cardinality({t \in start .. end - 1 : \E st \in S : ActiveAt(st, t)})
=============================================================================
