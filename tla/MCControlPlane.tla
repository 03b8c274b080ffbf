--------------------------- MODULE MCControlPlane ---------------------------
(***************************************************************************)
(* A small instance of ControlPlane: two customers with a service each, a  *)
(* token for the first one, and texts that are blank, plain, or padded.    *)
(***************************************************************************)
EXTENDS ControlPlane, TLC

CONSTANTS blank, plain, padded, token1, customer1, customer2

TwoCustomers == {customer1, customer2}
OneToken == {token1}
OfFirst == [t \in OneToken |-> customer1]

ThreeTexts == {blank, plain, padded}
Trimmed == [t \in ThreeTexts |-> IF t = padded THEN plain ELSE t]

\* 0 is outside every bound but that of the cooldown, and 1 within each.
ZeroAndOne == {0, 1}

OneServiceEach == <<customer1, customer2>>

AnyRequest == Permutations(Requests)
=============================================================================
