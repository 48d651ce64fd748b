--------------------------- MODULE AcceptedLedger ---------------------------
(***************************************************************************)
(* What the result pipeline promises: an append-only ledger of accepted    *)
(* results that never holds two records of one unit of evidence, and       *)
(* receipts that are only ever given for results already in the ledger.    *)
(***************************************************************************)
EXTENDS Naturals, Sequences

CONSTANTS
  Results,           \* everything that may be submitted
  Conflict(_, _)     \* two results that must not both be accepted

VARIABLES
  ledger,            \* the accepted results, in the order of acceptance
  receipts           \* results whose submitter holds a receipt

ledgerVars == <<ledger, receipts>>

LedgerInit == ledger = <<>> /\ receipts = {}

Accept(r) ==
  /\ \A i \in 1..Len(ledger) : ~Conflict(ledger[i], r)
  /\ ledger' = Append(ledger, r)
  /\ UNCHANGED receipts

GiveReceipt(r) ==
  /\ \E i \in 1..Len(ledger) : ledger[i] = r
  /\ receipts' = receipts \cup {r}
  /\ UNCHANGED ledger

LedgerNext == \E r \in Results : Accept(r) \/ GiveReceipt(r)

LedgerSpec == LedgerInit /\ [][LedgerNext]_ledgerVars
=============================================================================
