--------------------------- MODULE MCStormEngine ---------------------------
(***************************************************************************)
(* Small instances of StormEngine.  Availability 1 is bad, 2 is good: a    *)
(* threshold of 2 is breached by 1.                                        *)
(***************************************************************************)
EXTENDS StormEngine

OneService == 1 .. 1
TwoPolicies == 1 .. 2
OnePolicy == 1 .. 1

\* Two policies judge service 1.
SameService == [p \in TwoPolicies |-> 1]
OwnService == [p \in OnePolicy |-> 1]

TwoLevels == 1 .. 2

\* Two kinds: policies 1 and 2 share one, or a patch moves a policy to the other.
MixedSettings == {[kind |-> "http", threshold |-> 2, cooldown |-> 1],
                  [kind |-> "tcp",  threshold |-> 2, cooldown |-> 2]}

OneSetting == {[kind |-> "http", threshold |-> 2, cooldown |-> 1]}
=============================================================================
