--------------------------- MODULE MCDnsOperator ---------------------------
(***************************************************************************)
(* A small instance of DnsOperator.  Records are created with equal        *)
(* weights, which no plan asks for.                                        *)
(***************************************************************************)
EXTENDS DnsOperator

TwoServices == 1 .. 2

Plans == {Primary, Backup}

Equal == {<<50, 50>>}

CONSTANTS n1, n2

TwoNames == {n1, n2}

OneZone == {1}

AllInOne == [n \in TwoNames |-> 1]

\* Up to a renaming: two names of one service, one each, one name of both.
Tables == {{<<1, n1>>, <<1, n2>>}, {<<1, n1>>, <<2, n2>>}, {<<1, n1>>, <<2, n1>>}}
=============================================================================
