---------------------------- MODULE RentalLedger ----------------------------
(***************************************************************************)
(* What the Vast recovery records promise, independently of how deploy and *)
(* destroy keep the promise: every rental that may cost money is named by  *)
(* a record that outlives the process which made it (models.py, the        *)
(* docstring of VastDeploymentRecord: "Durable rental intent retained      *)
(* until remote destruction is confirmed").                                *)
(***************************************************************************)
CONSTANTS Names, Labels, NoLabel

VARIABLES
    ledger,   \* the label recorded under each deployment name, or NoLabel
    stage     \* how far the one rental a label may name has gone

lvars == <<ledger, stage>>

Stages == {"free", "intended", "billing", "over"}

LedgerTypeOK ==
    /\ ledger \in [Names -> Labels \cup {NoLabel}]
    /\ stage \in [Labels -> Stages]

Recorded(l) == \E n \in Names : ledger[n] = l

LedgerInit ==
    /\ ledger = [n \in Names |-> NoLabel]
    /\ stage = [l \in Labels |-> "free"]

\* A record is written before the billable request, under a label never used.
Intend(n, l) ==
    /\ ledger[n] = NoLabel
    /\ stage[l] = "free"
    /\ ledger' = [ledger EXCEPT ![n] = l]
    /\ stage' = [stage EXCEPT ![l] = "intended"]

\* Money may be owed from the moment the provider holds the request, and only
\* a recorded label is ever requested.
Bill(l) ==
    /\ Recorded(l)
    /\ stage[l] = "intended"
    /\ stage' = [stage EXCEPT ![l] = "billing"]
    /\ UNCHANGED ledger

\* The rental ends: refused, destroyed, or gone by itself.  A label never
\* bills twice.
Finish(l) ==
    /\ stage[l] = "billing"
    /\ stage' = [stage EXCEPT ![l] = "over"]
    /\ UNCHANGED ledger

\* A record is dropped only when its rental is over.
Forget(n) ==
    /\ ledger[n] # NoLabel
    /\ stage[ledger[n]] = "over"
    /\ ledger' = [ledger EXCEPT ![n] = NoLabel]
    /\ UNCHANGED stage

LedgerNext ==
    \/ \E n \in Names, l \in Labels : Intend(n, l)
    \/ \E l \in Labels : Bill(l) \/ Finish(l)
    \/ \E n \in Names : Forget(n)

LedgerSpec == LedgerInit /\ [][LedgerNext]_lvars
=============================================================================
