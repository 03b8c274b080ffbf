-------------------------- MODULE MCProbeScheduler --------------------------
(***************************************************************************)
(* A small instance of ProbeScheduler: each service may have one domain,   *)
(* the first has it, and a CDN that is down, at the start.                 *)
(***************************************************************************)
EXTENDS ProbeScheduler

TwoServices == 1 .. 2
TwoDomains == 1 .. 2
OwnDomain == [d \in TwoDomains |-> d]
TwoSlots == 1 .. 2

CONSTANTS cdn, bad

TwoCdns == {cdn, bad}
FirstHasCdn == [s \in TwoServices |-> IF s = 1 THEN {cdn} ELSE {}]
=============================================================================
