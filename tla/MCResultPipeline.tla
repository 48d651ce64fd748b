-------------------------- MODULE MCResultPipeline --------------------------
(***************************************************************************)
(* Small instances of ResultPipeline.  Observer a has two results, r1 and  *)
(* r2, which repeat one statistical unit, or r1 behind a file r5 that      *)
(* cannot be read; the names of observer b's files are in the order r4,    *)
(* which cannot be sent, r3, and r6, which cannot be read.                 *)
(***************************************************************************)
EXTENDS ResultPipeline

CONSTANTS a, b, r1, r2, r3, r4, r5, r6, Timeouts, CollectorFaults,
          CollectorDisk, ObserverFaults, ObserverDisk, SpoolReads, KeyExpiry

OneObserver == {a}
TwoObservers == {a, b}
OneUnit == {r1, r2}
TwoSpools == {r1, r3, r4, r5, r6}
MCResultId == [r \in Results |-> r]
MCIdempotencyKey == [r \in Results |-> IF r = r2 THEN r1 ELSE r]
MCObserverSequence == [r \in Results |-> r]
MCSpoolOf == [r \in Results |-> IF r \in {r3, r4, r6} THEN b ELSE a]
MCNameRank == [r \in Results |-> CASE r \in {r4, r5} -> 1 [] r \in {r1, r3} -> 2 [] OTHER -> 3]
MCFaultBudget ==
  [kind \in FaultKinds |->
     CASE kind = "timeout"        -> Timeouts
       [] kind = "collectorCrash" -> CollectorFaults
       [] kind = "collectorDisk"  -> CollectorDisk
       [] kind = "observerCrash"  -> ObserverFaults
       [] kind = "observerDisk"   -> ObserverDisk
       [] kind = "spoolRead"      -> SpoolReads
       [] OTHER                   -> KeyExpiry]
=============================================================================
