--------------------------- MODULE WeightProvider ---------------------------
(***************************************************************************)
(* What dns.Provider promises of SetWeights (internal/dns/provider.go): an *)
(* atomic change of the two weights of a name.                             *)
(*                                                                         *)
(* A call that returns nil has put its weights in force, in one zone, at   *)
(* some moment between its begin and its end.  A call that returns an      *)
(* error may have done so, or may leave requests behind that take effect   *)
(* later: a request whose sender gave up is not withdrawn.  Which zone it  *)
(* is, when several have records of the name, is not promised.             *)
(***************************************************************************)
EXTENDS Naturals

CONSTANTS
  Names,    \* host names
  Weights,  \* <<primary, backup>> weight pairs that are asked for
  Given,    \* pairs that records are created with
  Zones,    \* where records stand and requests are sent to
  NULL

VARIABLES
  served,  \* the weights of each name in each zone, NULL without records
  call,    \* the call in progress, or NULL
  late     \* how many requests of ended attempts may still take effect

providerVars == <<served, call, late>>

Request == Zones \X Names \X Weights

Call == [name : Names, weights : Weights, done : BOOLEAN]

ASSUME CallAssumption == NULL \notin Call

ProviderInit ==
  /\ served \in [Zones -> [Names -> Given \cup {NULL}]]
  /\ call = NULL
  /\ late = [r \in Request |-> 0]

Invoke(n, w) ==
  /\ call = NULL
  /\ call' = [name |-> n, weights |-> w, done |-> FALSE]
  /\ UNCHANGED <<served, late>>

\* A request of the call takes effect while its sender waits for the answer.
Apply(z) ==
  /\ call # NULL
  /\ served' = [served EXCEPT ![z][call.name] = call.weights]
  /\ call' = [name |-> call.name, weights |-> call.weights, done |-> TRUE]
  /\ UNCHANGED late

\* An attempt, and perhaps the call, ends while its request is on its way.
Linger(z) ==
  /\ call # NULL
  /\ late' = [late EXCEPT ![<<z, call.name, call.weights>>] = @ + 1]
  /\ call' \in {call, NULL}
  /\ UNCHANGED served

ReturnOk ==
  /\ call # NULL
  /\ call.done
  /\ call' = NULL
  /\ UNCHANGED <<served, late>>

ReturnError ==
  /\ call # NULL
  /\ call' = NULL
  /\ UNCHANGED <<served, late>>

TakeLate(r) ==
  /\ late[r] > 0
  /\ late' = [late EXCEPT ![r] = @ - 1]
  /\ served' = [served EXCEPT ![r[1]][r[2]] = r[3]]
  /\ UNCHANGED call

LoseLate(r) ==
  /\ late[r] > 0
  /\ late' = [late EXCEPT ![r] = @ - 1]
  /\ UNCHANGED <<served, call>>

\* The customer creates or deletes records or whole zones.
Outside ==
  /\ served' \in [Zones -> [Names -> Weights \cup Given \cup {NULL}]]
  /\ \A z \in Zones, n \in Names :
       served'[z][n] = served[z][n] \/ served'[z][n] \in Given \cup {NULL}
  /\ UNCHANGED <<call, late>>

ProviderNext ==
  \/ \E n \in Names, w \in Weights : Invoke(n, w)
  \/ \E z \in Zones : Apply(z) \/ Linger(z)
  \/ ReturnOk \/ ReturnError
  \/ \E r \in Request : TakeLate(r) \/ LoseLate(r)
  \/ Outside

ProviderSpec == ProviderInit /\ [][ProviderNext]_providerVars
=============================================================================
