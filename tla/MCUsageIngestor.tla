-------------------------- MODULE MCUsageIngestor --------------------------
(***************************************************************************)
(* A small instance of UsageIngestor: windows of two units, and a look-back *)
(* of five, which begins inside a window.                                  *)
(***************************************************************************)
EXTENDS UsageIngestor

CONSTANTS h1, h2

TwoServices == 1 .. 2
TwoHosts == {h1, h2}

\* Service 1 has both hosts; an edit may give one to service 2 as well.
BothOfFirst == {<<1, h1>>, <<1, h2>>}
=============================================================================
