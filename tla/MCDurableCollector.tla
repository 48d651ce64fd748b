------------------------- MODULE MCDurableCollector -------------------------
(***************************************************************************)
(* A small instance of DurableCollector.  r1 and r2 are re-runs of one     *)
(* statistical unit (same idempotency key), r2 and r3 reuse one observer   *)
(* sequence, and r4 fails authentication.                                  *)
(***************************************************************************)
EXTENDS DurableCollector

CONSTANTS r1, r2, r3, r4

MCResults == {r1, r2, r3, r4}
MCResultId == [r \in MCResults |-> r]
MCIdempotencyKey == [r \in MCResults |-> IF r = r2 THEN r1 ELSE r]
MCObserverSequence == [r \in MCResults |-> IF r = r3 THEN r2 ELSE r]
MCAdmissible == {r1, r2, r3}
=============================================================================
