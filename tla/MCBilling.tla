----------------------------- MODULE MCBilling -----------------------------
(***************************************************************************)
(* Small instances of Billing.  Times are window units, a GB is two units  *)
(* of bytes, and a line may be charged an odd number of cents so that the  *)
(* rounding shows.                                                         *)
(***************************************************************************)
EXTENDS Billing, TLC

OneService == 1 .. 1
TwoServices == 1 .. 2

TwoSnaps == 1 .. 2
ThreeSnaps == 1 .. 3

OneCustomer == [v \in OneService |-> 1]
OwnCustomer == [v \in TwoServices |-> v]

\* Two windows of service 1, one of service 2.
LockWindow ==
  [s \in ThreeSnaps |->
     IF s = 1 THEN [service |-> 1, start |-> 0, end |-> 1]
     ELSE IF s = 2 THEN [service |-> 1, start |-> 1, end |-> 2]
     ELSE [service |-> 2, start |-> 0, end |-> 2]]

\* A window of one unit, and one of two that overlaps it.
CreditWindow ==
  [s \in TwoSnaps |-> [service |-> 1, start |-> 0, end |-> s]]

SomeBytes == {0, 1}

\* Three units of each CDN: both charges are rounded up.
ThreeUnits == 3 .. 3

OneFactor == {100}

\* Half of the credit, and three times it.
TwoFactors == {50, 300}
=============================================================================
