------------------------------- MODULE Ledger -------------------------------
(***************************************************************************)
(* What billing promises of usage_snapshots and invoice_line_items         *)
(* (internal/billing/engine.go, README "Billing and invoicing flow"): a    *)
(* run is one atomic step.  It takes snapshots that have no invoice, and   *)
(* gives each the id of its customer's invoice in this run and one line,   *)
(* with the bytes it holds at that moment, the one coverage factor that    *)
(* its service has on the invoice, and a discount within the amount.       *)
(*                                                                         *)
(* Workers, locks, rollbacks and the tables that a run reads do not show.  *)
(***************************************************************************)
EXTENDS Naturals

CONSTANTS
  Snaps,      \* usage_snapshots ids
  Services,   \* service ids
  ServiceOf,  \* the service of each snapshot
  PayerOf,    \* its customer
  Bytes,      \* byte counts metering reports
  Factors,    \* coverage factors
  NULL

VARIABLES
  row,    \* usage_snapshots: bytes and invoice of each id, or NULL
  lines,  \* invoice_line_items, with the invoices they are on
  runs    \* committed runs

ledgerVars == <<row, lines, runs>>

LedgerInit ==
  /\ row = [s \in Snaps |-> NULL]
  /\ lines = {}
  /\ runs = 0

\* Usage is reported, or reported anew; an invoice stays.
Meter(s) ==
  /\ \E p, b \in Bytes :
       row' = [row EXCEPT ![s] =
         [primary |-> p, backup |-> b, invoice |-> IF row[s] = NULL THEN NULL ELSE row[s].invoice]]
  /\ UNCHANGED <<lines, runs>>

Open == {s \in Snaps : row[s] # NULL /\ row[s].invoice = NULL}

\* The next run's invoice for the customer of snapshot s.
InvoiceOf(s) == <<runs + 1, PayerOf[s]>>

\* Line l bills snapshot s with coverage factor f.
Bills(l, s, f) ==
  /\ l.invoice = InvoiceOf(s)
  /\ l.item.snap = s
  /\ l.item.primary = row[s].primary /\ l.item.backup = row[s].backup
  /\ l.item.factor = f
  /\ l.item.discount <= l.item.amount

\* A run bills the snapshots B, each once.
Bill(B) ==
  /\ runs' = runs + 1
  /\ row' = [s \in Snaps |->
       IF s \in B THEN [row[s] EXCEPT !.invoice = InvoiceOf(s)] ELSE row[s]]
  /\ lines \subseteq lines'
  /\ \E factor \in [Services -> Factors] :
       \A l \in lines' \ lines : \E s \in B : Bills(l, s, factor[ServiceOf[s]])
  /\ \A s \in B : \E l \in lines' \ lines : \A k \in lines' \ lines : k.item.snap = s <=> k = l

LedgerNext ==
  \/ \E s \in Snaps : Meter(s)
  \/ \E B \in (SUBSET Open) \ {{}} : Bill(B)

LedgerSpec == LedgerInit /\ [][LedgerNext]_ledgerVars
=============================================================================
