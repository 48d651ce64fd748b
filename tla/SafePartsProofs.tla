-------------------------- MODULE SafePartsProofs --------------------------
(***************************************************************************)
(* Proofs about the parts that record, judge and account: rehearsal slots, *)
(* the dry run, the acceptance of a plan, canary soaks, the hostile proxy, *)
(* the window of the analysis and the log of a telemetry session, each for *)
(* any instance of its constants.                                          *)
(***************************************************************************)
EXTENDS MCSafeParts, ObservationProofs, Integers, FiniteSetTheorems, SequenceTheorems,
        WellFoundedInduction, TLAPS

----------------------------------------------------------------------------
(* The rehearsal slots.                                                    *)

Steps == {"idle", "open", "refused", "reserved", "sequenced", "prepared", "submitted",
          "acknowledged", "assigned", "done", "abandoned"}
Run == [step : Steps, slot : RehearsalSlots \cup {"none"}, known : Nat, sequence : Nat]
Numbering == [slot : RehearsalSlots, sequence : Nat]

\* Runners that opened the sequence journal and have not left it.
Holding == {"open", "reserved", "sequenced", "prepared", "submitted", "acknowledged",
            "assigned"}

\* A runner inside the journal has its lock, and is the only one.
OneHolder ==
  \A r \in Runs : runs[r].step \in Holding =>
    /\ sequenceLock /\ runs[r].slot \in RehearsalSlots
    /\ \A q \in Runs : runs[q].step \in Holding => q = r

\* The record of the number n is slot s's.
Numbered(s, n) == n + 1 \in 1 .. Len(sequences) /\ sequences[n + 1].slot = s

\* What the lock is for: the runner's count is the journal's, and the number
\* it took, and later the assignment's, is its own slot's.
NumbersOwned ==
  /\ \A i \in 1 .. Len(sequences) : sequences[i].sequence = i - 1
  /\ \A r \in Runs : /\ runs[r].step \in {"open", "reserved"} => runs[r].known = Len(sequences)
                     /\ runs[r].step \in {"sequenced", "prepared", "submitted", "acknowledged"} =>
                          Numbered(runs[r].slot, runs[r].sequence)
  /\ \A s \in RehearsalSlots : entries[s].prepared => Numbered(s, entries[s].sequence)

\* The files of a slot say how far its runner is, and whether it submitted.
RunnerFiles ==
  \A r \in Runs :
    LET files == slotFiles[runs[r].slot]
        submitted == submissions[runs[r].slot]
    IN  /\ runs[r].step \in {"reserved", "sequenced"} =>
             files = {"00-reservation"} /\ submitted = 0
        /\ runs[r].step = "prepared" =>
             files = {"00-reservation", "01-transaction-prepared"} /\ submitted = 0
        /\ runs[r].step = "submitted" =>
             files = {"00-reservation", "01-transaction-prepared"} /\ submitted = 1
        /\ runs[r].step = "acknowledged" =>
             /\ files = {"00-reservation", "01-transaction-prepared", "02-submission-acknowledged"}
             /\ submitted = 1

\* The files of a slot by themselves.
SlotFilesInOrder ==
  \A s \in RehearsalSlots :
    LET files == slotFiles[s]
    IN  /\ submissions[s] <= 1
        /\ files = {} => submissions[s] = 0
        /\ "03-assignment-prepared" \in files =>
             /\ {"00-reservation", "01-transaction-prepared", "02-submission-acknowledged"}
                  \subseteq files
             /\ "reconciliation-required" \notin files /\ submissions[s] = 1
        /\ "04-transport-receipt-recorded" \in files => "03-assignment-prepared" \in files
        /\ "05-worker-completed" \in files =>
             "04-transport-receipt-recorded" \in files /\ inbox[s].state = "worked"

\* A receipt the dispatcher recorded was written by the observer.
ReceiptsReal ==
  \A s \in RehearsalSlots :
    dispatch[s].state = "receipt-recorded" => inbox[s].state \in {"receipted", "worked"}

RehearsalTypes ==
  /\ runs \in [Runs -> Run]
  /\ sequenceLock \in BOOLEAN
  /\ sequences \in Seq(Numbering)
  /\ slotFiles \in [RehearsalSlots -> SUBSET SlotStates]
  /\ submissions \in [RehearsalSlots -> Nat]
  /\ entries \in [RehearsalSlots ->
       [prepared : BOOLEAN, sequence : Nat, issued : Nat]]
  /\ rehearsalClock \in Nat
  /\ dispatch \in [RehearsalSlots ->
       [state : {"none", "reserved", "receipt-recorded", "uncertain"}, at : Nat]]
  /\ inbox \in [RehearsalSlots -> [state : {"none", "claimed", "receipted", "worked"}, at : Nat]]

RehearsalInv ==
  /\ RehearsalTypes
  /\ OneHolder /\ NumbersOwned
  /\ RunnerFiles /\ SlotFilesInOrder /\ ReceiptsReal

-----------------------------------------------------------------------------
\* A runner's step moves that runner and no other.
LEMMA RunnerMoves ==
  ASSUME RehearsalTypes, NEW r \in Runs, NEW step \in Steps, GoTo(r, step)
  PROVE  /\ runs' \in [Runs -> Run]
         /\ runs'[r].step = step /\ runs'[r].slot = runs[r].slot
         /\ runs'[r].known = runs[r].known /\ runs'[r].sequence = runs[r].sequence
         /\ \A q \in Runs : q # r => runs'[q] = runs[q]
  <1>1. runs[r] \in Run /\ runs \in [Runs -> Run]
    BY DEF RehearsalTypes
  <1>2. ASSUME NEW run \in Run
        PROVE  LET moved == [run EXCEPT !.step = step]
               IN  /\ moved \in Run /\ moved.step = step /\ moved.slot = run.slot
                   /\ moved.known = run.known /\ moved.sequence = run.sequence
    BY DEF Run
  <1>3. runs' = [runs EXCEPT ![r] = [runs[r] EXCEPT !.step = step]]
    BY DEF GoTo
  <1>4. /\ runs' \in [Runs -> Run]
        /\ runs'[r] = [runs[r] EXCEPT !.step = step]
        /\ \A q \in Runs : q # r => runs'[q] = runs[q]
    BY <1>1, <1>2, <1>3
  <1> QED
    BY <1>1, <1>2, <1>4

\* A runner writes a file of its own slot.
LEMMA RunnerWrites ==
  ASSUME RehearsalTypes, NEW r \in Runs, runs[r].slot \in RehearsalSlots,
         NEW file \in SlotStates, Writes(r, file)
  PROVE  /\ slotFiles' \in [RehearsalSlots -> SUBSET SlotStates]
         /\ slotFiles'[runs[r].slot] = slotFiles[runs[r].slot] \cup {file}
         /\ \A s \in RehearsalSlots : s # runs[r].slot => slotFiles'[s] = slotFiles[s]
  BY DEF RehearsalTypes, Writes

\* A runner that leaves the journal, or never entered it, writes nothing more.
LEMMA RunnerLeaves ==
  ASSUME RehearsalInv, NEW r \in Runs, NEW step \in {"refused", "done", "abandoned"},
         GoTo(r, step),
         sequenceLock' \in BOOLEAN,
         sequenceLock' = sequenceLock \/ runs[r].step \in Holding,
         UNCHANGED <<rehearsalClock, sequences, submissions, entries, dispatch, inbox, slotFiles>>
  PROVE  RehearsalInv'
  <1>1. /\ runs' \in [Runs -> Run]
        /\ runs'[r].step = step
        /\ \A q \in Runs : q # r => runs'[q] = runs[q]
    BY RunnerMoves DEF RehearsalInv, Steps
  <1>2. RehearsalTypes'
    BY <1>1 DEF RehearsalInv, RehearsalTypes
  <1>3. OneHolder'
    BY <1>1 DEF RehearsalInv, OneHolder, Holding
  <1>4. NumbersOwned'
    BY <1>1 DEF RehearsalInv, NumbersOwned, Numbered
  <1>5. RunnerFiles'
    BY <1>1 DEF RehearsalInv, RunnerFiles
  <1>6. SlotFilesInOrder' /\ ReceiptsReal'
    BY DEF RehearsalInv, SlotFilesInOrder, ReceiptsReal
  <1> QED
    BY <1>2, <1>3, <1>4, <1>5, <1>6 DEF RehearsalInv

-----------------------------------------------------------------------------
(***************************************************************************)
(* One lemma per action: it preserves RehearsalInv.                        *)
(***************************************************************************)

LEMMA OpenKeeps ==
  ASSUME RehearsalInv, NEW r \in Runs, NEW s \in RehearsalSlots, OpenSequenceJournal(r, s)
  PROVE  RehearsalInv'
  <1>1. CASE sequenceLock
    BY <1>1, RunnerLeaves
       DEF OpenSequenceJournal, RestOfRun, RehearsalInv, RehearsalTypes
  <1>2. CASE ~sequenceLock
    <2> DEFINE run == [runs[r] EXCEPT !.step = "open", !.slot = s, !.known = Len(sequences)]
    <2>1. runs[r] \in Run /\ runs \in [Runs -> Run] /\ Len(sequences) \in Nat
      BY DEF RehearsalInv, RehearsalTypes
    <2>2. /\ run \in Run /\ run.step = "open" /\ run.slot = s
          /\ run.known = Len(sequences)
      BY <2>1 DEF Run, Steps
    <2>3. runs' = [runs EXCEPT ![r] = run]
      BY <1>2 DEF OpenSequenceJournal
    <2> HIDE DEF run
    <2>4. /\ runs' \in [Runs -> Run] /\ runs'[r] = run
          /\ \A q \in Runs : q # r => runs'[q] = runs[q]
      BY <2>1, <2>2, <2>3
    <2>5. /\ sequenceLock' = TRUE
          /\ UNCHANGED <<rehearsalClock, sequences, submissions, entries, slotFiles,
                         dispatch, inbox>>
      BY <1>2 DEF OpenSequenceJournal, RestOfRun
    <2>6. RehearsalTypes'
      BY <2>4, <2>5 DEF RehearsalInv, RehearsalTypes
    <2>7. OneHolder'
      <3>1. \A q \in Runs : runs[q].step \notin Holding
        BY <1>2 DEF RehearsalInv, OneHolder
      <3> QED
        BY <3>1, <2>2, <2>4, <2>5 DEF OneHolder
    <2>8. NumbersOwned'
      BY <2>2, <2>4, <2>5 DEF RehearsalInv, NumbersOwned, Numbered
    <2>9. RunnerFiles'
      BY <2>2, <2>4, <2>5 DEF RehearsalInv, RunnerFiles
    <2>10. SlotFilesInOrder' /\ ReceiptsReal'
      BY <2>5 DEF RehearsalInv, SlotFilesInOrder, ReceiptsReal
    <2> QED
      BY <2>6, <2>7, <2>8, <2>9, <2>10 DEF RehearsalInv
  <1> QED
    BY <1>1, <1>2

\* What holds of a runner inside the journal, and of the others.
LEMMA InsideJournal ==
  ASSUME RehearsalInv, NEW r \in Runs, runs[r].step \in Holding
  PROVE  /\ runs[r] \in Run /\ runs[r].slot \in RehearsalSlots /\ sequenceLock
         /\ slotFiles[runs[r].slot] \in SUBSET SlotStates
         /\ submissions[runs[r].slot] \in Nat
         /\ \A q \in Runs : q # r => runs[q].step \notin Holding
  BY DEF RehearsalInv, RehearsalTypes, OneHolder

\* A runner moves to a step inside the journal and writes one file.
LEMMA RunnerWritesAndMoves ==
  ASSUME RehearsalInv, NEW r \in Runs, runs[r].step \in Holding,
         NEW step \in Steps, GoTo(r, step),
         NEW file \in SlotStates, Writes(r, file),
         UNCHANGED <<rehearsalClock, sequenceLock, sequences, submissions, dispatch, inbox>>
  PROVE  /\ OneHolder'
         /\ runs' \in [Runs -> Run]
         /\ slotFiles' \in [RehearsalSlots -> SUBSET SlotStates]
         /\ runs'[r].step = step /\ runs'[r].slot = runs[r].slot
         /\ runs'[r].known = runs[r].known /\ runs'[r].sequence = runs[r].sequence
         /\ \A q \in Runs : q # r => runs'[q] = runs[q] /\ runs[q].step \notin Holding
         /\ slotFiles'[runs[r].slot] = slotFiles[runs[r].slot] \cup {file}
         /\ \A s \in RehearsalSlots : s # runs[r].slot => slotFiles'[s] = slotFiles[s]
  <1>1. RehearsalTypes
    BY DEF RehearsalInv
  <1>2. /\ runs[r].slot \in RehearsalSlots
        /\ \A q \in Runs : q # r => runs[q].step \notin Holding
    BY InsideJournal
  <1>3. /\ runs' \in [Runs -> Run]
        /\ runs'[r].step = step /\ runs'[r].slot = runs[r].slot
        /\ runs'[r].known = runs[r].known /\ runs'[r].sequence = runs[r].sequence
        /\ \A q \in Runs : q # r => runs'[q] = runs[q]
    BY <1>1, RunnerMoves
  <1>4. /\ slotFiles' \in [RehearsalSlots -> SUBSET SlotStates]
        /\ slotFiles'[runs[r].slot] = slotFiles[runs[r].slot] \cup {file}
        /\ \A s \in RehearsalSlots : s # runs[r].slot => slotFiles'[s] = slotFiles[s]
    BY <1>1, <1>2, RunnerWrites
  <1>5. OneHolder'
    BY <1>2, <1>3, InsideJournal DEF OneHolder
  <1> QED
    BY <1>2, <1>3, <1>4, <1>5

LEMMA ReserveSlotKeeps ==
  ASSUME RehearsalInv, NEW r \in Runs, ReserveSlot(r)
  PROVE  RehearsalInv'
  <1> DEFINE slot == runs[r].slot
  <1>1. runs[r].step = "open" /\ runs[r].step \in Holding
    BY DEF ReserveSlot, At, Holding
  <1>2. CASE ~(rehearsalClock <= Lateness /\ slotFiles[slot] = {})
    BY <1>1, <1>2, RunnerLeaves DEF ReserveSlot, RestOfRun, RehearsalInv, RehearsalTypes
  <1>3. CASE rehearsalClock <= Lateness /\ slotFiles[slot] = {}
    <2>1. /\ Writes(r, "00-reservation") /\ GoTo(r, "reserved")
          /\ UNCHANGED <<rehearsalClock, sequenceLock, sequences, submissions, entries,
                         dispatch, inbox>>
      BY <1>3 DEF ReserveSlot, RestOfRun
    <2>2. /\ OneHolder' /\ runs' \in [Runs -> Run]
          /\ slotFiles' \in [RehearsalSlots -> SUBSET SlotStates]
          /\ runs'[r].step = "reserved" /\ runs'[r].slot = slot
          /\ runs'[r].known = runs[r].known
          /\ \A q \in Runs : q # r => runs'[q] = runs[q] /\ runs[q].step \notin Holding
          /\ slotFiles'[slot] = {"00-reservation"}
          /\ \A s \in RehearsalSlots : s # slot => slotFiles'[s] = slotFiles[s]
      BY <1>1, <1>3, <2>1, RunnerWritesAndMoves DEF Steps, SlotStates
    <2>3. slot \in RehearsalSlots /\ submissions[slot] = 0
      BY <1>1, <1>3, InsideJournal DEF RehearsalInv, SlotFilesInOrder
    <2>4. RehearsalTypes'
      BY <2>1, <2>2 DEF RehearsalInv, RehearsalTypes
    <2>5. NumbersOwned'
      BY <1>1, <2>1, <2>2 DEF RehearsalInv, NumbersOwned, Numbered
    <2>6. RunnerFiles'
      BY <2>1, <2>2, <2>3 DEF RunnerFiles, Holding
    <2>7. SlotFilesInOrder' /\ ReceiptsReal'
      BY <2>1, <2>2, <2>3 DEF RehearsalInv, SlotFilesInOrder, ReceiptsReal
    <2> QED
      BY <2>2, <2>4, <2>5, <2>6, <2>7 DEF RehearsalInv
  <1> QED
    BY <1>2, <1>3

\* A runner that cannot go on marks its slot and leaves: of a slot whose
\* assignment is not prepared, nothing else changes.
LEMMA RunnerMarks ==
  ASSUME RehearsalInv, NEW r \in Runs,
         runs[r].step \in {"reserved", "sequenced", "prepared"},
         GoTo(r, "abandoned"), Writes(r, "reconciliation-required"),
         UNCHANGED <<rehearsalClock, sequenceLock, sequences, entries, dispatch, inbox>>,
         submissions' \in [RehearsalSlots -> Nat],
         \A s \in RehearsalSlots :
           IF s = runs[r].slot THEN submissions'[s] <= 1 ELSE submissions'[s] = submissions[s]
  PROVE  RehearsalInv'
  <1> DEFINE slot == runs[r].slot
  <1>1. RehearsalTypes /\ runs[r].step \in Holding
    BY DEF RehearsalInv, Holding
  <1>2. /\ slot \in RehearsalSlots
        /\ \A q \in Runs : q # r => runs[q].step \notin Holding
    BY <1>1, InsideJournal
  <1>3. /\ runs' \in [Runs -> Run] /\ runs'[r].step = "abandoned"
        /\ \A q \in Runs : q # r => runs'[q] = runs[q]
    BY <1>1, RunnerMoves DEF Steps
  <1>4. /\ slotFiles' \in [RehearsalSlots -> SUBSET SlotStates]
        /\ slotFiles'[slot] = slotFiles[slot] \cup {"reconciliation-required"}
        /\ \A s \in RehearsalSlots : s # slot => slotFiles'[s] = slotFiles[s]
    BY <1>1, <1>2, RunnerWrites DEF SlotStates
  <1>5. "03-assignment-prepared" \notin slotFiles[slot]
    BY DEF RehearsalInv, RunnerFiles
  <1>6. RehearsalTypes'
    BY <1>1, <1>3, <1>4 DEF RehearsalTypes
  <1>7. OneHolder' /\ RunnerFiles'
    BY <1>2, <1>3 DEF OneHolder, RunnerFiles, Holding
  <1>8. NumbersOwned'
    BY <1>3 DEF RehearsalInv, NumbersOwned, Numbered
  <1>9. SlotFilesInOrder' /\ ReceiptsReal'
    BY <1>2, <1>4, <1>5 DEF RehearsalInv, SlotFilesInOrder, ReceiptsReal
  <1> QED
    BY <1>6, <1>7, <1>8, <1>9 DEF RehearsalInv

\* The slot's number is the next one, and its record goes to the end.
LEMMA ReserveSequenceKeeps ==
  ASSUME RehearsalInv, NEW r \in Runs, ReserveSequence(r)
  PROVE  RehearsalInv'
  <1> DEFINE slot == runs[r].slot
             n == Len(sequences)
  <1>1. runs[r].step = "reserved" /\ runs[r].step \in Holding
    BY DEF ReserveSequence, At, Holding
  <1>2. CASE GoTo(r, "abandoned") /\ Writes(r, "reconciliation-required") /\ UNCHANGED sequences
    <2>1. submissions' = submissions /\ submissions[slot] <= 1 /\ slot \in RehearsalSlots
      BY <1>1, InsideJournal DEF ReserveSequence, RehearsalInv, SlotFilesInOrder
    <2> QED
      BY <1>1, <1>2, <2>1, RunnerMarks
         DEF ReserveSequence, RestOfRun, RehearsalInv, RehearsalTypes
  <1>3. CASE /\ sequences' = Append(sequences, [slot |-> slot, sequence |-> runs[r].known])
             /\ runs' = [runs EXCEPT ![r].step = "sequenced", ![r].sequence = runs[r].known]
             /\ UNCHANGED slotFiles
    <2> DEFINE run == [runs[r] EXCEPT !.step = "sequenced", !.sequence = runs[r].known]
    <2>1. /\ runs \in [Runs -> Run] /\ runs[r] \in Run /\ slot \in RehearsalSlots
          /\ sequences \in Seq(Numbering) /\ n \in Nat
          /\ \A q \in Runs : q # r => runs[q].step \notin Holding
      BY <1>1, InsideJournal DEF RehearsalInv, RehearsalTypes
    <2>2. runs[r].known = n
      BY <1>1 DEF RehearsalInv, NumbersOwned
    <2>3. /\ run \in Run /\ run.step = "sequenced" /\ run.slot = slot
          /\ run.sequence = n /\ run.known = n
      BY <2>1, <2>2 DEF Run, Steps
    <2>4. runs' = [runs EXCEPT ![r] = run]
      BY <1>3, <2>1
    <2> HIDE DEF run
    <2>5. /\ runs' \in [Runs -> Run] /\ runs'[r] = run
          /\ \A q \in Runs : q # r => runs'[q] = runs[q]
      BY <2>1, <2>3, <2>4
    <2>6. UNCHANGED <<rehearsalClock, sequenceLock, submissions, entries, slotFiles,
                      dispatch, inbox>>
      BY <1>3 DEF ReserveSequence, RestOfRun
    <2>7. /\ sequences' \in Seq(Numbering) /\ Len(sequences') = n + 1
          /\ \A i \in 1 .. n : sequences'[i] = sequences[i]
          /\ sequences'[n + 1].slot = slot /\ sequences'[n + 1].sequence = n
      <3>1. [slot |-> slot, sequence |-> n] \in Numbering
        BY <2>1 DEF Numbering
      <3>2. sequences' = Append(sequences, [slot |-> slot, sequence |-> n])
        BY <1>3, <2>2
      <3> QED
        BY <2>1, <3>1, <3>2
    <2> DEFINE NumberedNow(s, m) == m + 1 \in 1 .. Len(sequences') /\ sequences'[m + 1].slot = s
    <2>8. \A s : \A m \in Nat : Numbered(s, m) => NumberedNow(s, m)
      BY <2>1, <2>7 DEF Numbered
    <2>9. RehearsalTypes'
      BY <2>5, <2>6, <2>7 DEF RehearsalInv, RehearsalTypes
    <2>10. OneHolder'
      BY <1>1, <2>1, <2>3, <2>5, <2>6, InsideJournal DEF OneHolder
    <2>11. NumbersOwned'
      <3>1. \A i \in 1 .. Len(sequences') : sequences'[i].sequence = i - 1
        BY <2>1, <2>7 DEF RehearsalInv, NumbersOwned
      <3>2. NumberedNow(slot, n)
        BY <2>1, <2>7
      <3>3. ASSUME NEW q \in Runs
            PROVE  /\ runs'[q].step \notin {"open", "reserved"}
                   /\ runs'[q].step \in {"sequenced", "prepared", "submitted", "acknowledged"} =>
                        NumberedNow(runs'[q].slot, runs'[q].sequence)
        <4>1. CASE q = r
          BY <4>1, <2>3, <2>5, <3>2
        <4>2. CASE q # r
          BY <4>2, <2>1, <2>5 DEF Holding
        <4> QED
          BY <4>1, <4>2
      <3>4. ASSUME NEW s \in RehearsalSlots, entries'[s].prepared
            PROVE  NumberedNow(s, entries'[s].sequence)
        BY <2>6, <2>8, <3>4 DEF RehearsalInv, RehearsalTypes, NumbersOwned
      <3> QED
        BY <2>6, <3>1, <3>3, <3>4 DEF NumbersOwned, Numbered
    <2>12. RunnerFiles'
      <3>1. slotFiles[slot] = {"00-reservation"} /\ submissions[slot] = 0
        BY <1>1 DEF RehearsalInv, RunnerFiles
      <3> QED
        BY <2>1, <2>3, <2>5, <2>6, <3>1 DEF RunnerFiles, Holding
    <2>13. SlotFilesInOrder' /\ ReceiptsReal'
      BY <2>6 DEF RehearsalInv, SlotFilesInOrder, ReceiptsReal
    <2> QED
      BY <2>9, <2>10, <2>11, <2>12, <2>13 DEF RehearsalInv
  <1> QED
    BY <1>2, <1>3 DEF ReserveSequence

LEMMA PrepareTransactionKeeps ==
  ASSUME RehearsalInv, NEW r \in Runs, PrepareTransaction(r)
  PROVE  RehearsalInv'
  <1> DEFINE slot == runs[r].slot
  <1>1. runs[r].step = "sequenced" /\ runs[r].step \in Holding
    BY DEF PrepareTransaction, At, Holding
  <1>2. slot \in RehearsalSlots /\ slotFiles[slot] = {"00-reservation"} /\ submissions[slot] = 0
    BY <1>1, InsideJournal DEF RehearsalInv, RunnerFiles
  <1>3. UNCHANGED <<rehearsalClock, sequenceLock, sequences, submissions, entries, dispatch, inbox>>
    BY DEF PrepareTransaction, RestOfRun
  <1>4. CASE Writes(r, "reconciliation-required") /\ GoTo(r, "abandoned")
    <2>1. submissions' \in [RehearsalSlots -> Nat]
      BY <1>3 DEF RehearsalInv, RehearsalTypes
    <2> QED
      BY <1>1, <1>2, <1>3, <1>4, <2>1, RunnerMarks
  <1>5. CASE Writes(r, "01-transaction-prepared") /\ GoTo(r, "prepared")
    <2>1. /\ OneHolder' /\ runs' \in [Runs -> Run]
          /\ slotFiles' \in [RehearsalSlots -> SUBSET SlotStates]
          /\ runs'[r].step = "prepared" /\ runs'[r].slot = slot
          /\ runs'[r].sequence = runs[r].sequence
          /\ \A q \in Runs : q # r => runs'[q] = runs[q] /\ runs[q].step \notin Holding
          /\ slotFiles'[slot] = {"00-reservation", "01-transaction-prepared"}
          /\ \A s \in RehearsalSlots : s # slot => slotFiles'[s] = slotFiles[s]
      BY <1>1, <1>2, <1>3, <1>5, RunnerWritesAndMoves DEF Steps, SlotStates
    <2>2. RehearsalTypes'
      BY <1>3, <2>1 DEF RehearsalInv, RehearsalTypes
    <2>3. NumbersOwned'
      BY <1>1, <1>3, <2>1 DEF RehearsalInv, NumbersOwned, Numbered
    <2>4. RunnerFiles'
      BY <1>2, <1>3, <2>1 DEF RunnerFiles, Holding
    <2>5. SlotFilesInOrder' /\ ReceiptsReal'
      BY <1>2, <1>3, <2>1 DEF RehearsalInv, SlotFilesInOrder, ReceiptsReal
    <2> QED
      BY <2>1, <2>2, <2>3, <2>4, <2>5 DEF RehearsalInv
  <1> QED
    BY <1>4, <1>5 DEF PrepareTransaction

\* The one submission of the slot: the slot's files say there was none.
LEMMA SubmitTransactionKeeps ==
  ASSUME RehearsalInv, NEW r \in Runs, SubmitTransaction(r)
  PROVE  RehearsalInv'
  <1> DEFINE slot == runs[r].slot
  <1>1. runs[r].step = "prepared" /\ runs[r].step \in Holding
    BY DEF SubmitTransaction, At, Holding
  <1>2. /\ slot \in RehearsalSlots /\ submissions[slot] = 0
        /\ slotFiles[slot] = {"00-reservation", "01-transaction-prepared"}
        /\ \A q \in Runs : q # r => runs[q].step \notin Holding
    BY <1>1, InsideJournal DEF RehearsalInv, RunnerFiles
  <1>3. /\ submissions' \in [RehearsalSlots -> Nat] /\ submissions'[slot] = 1
        /\ \A s \in RehearsalSlots : s # slot => submissions'[s] = submissions[s]
    BY <1>2 DEF SubmitTransaction, RehearsalInv, RehearsalTypes
  <1>4. UNCHANGED <<rehearsalClock, sequenceLock, sequences, entries, dispatch, inbox>>
    BY DEF SubmitTransaction, RestOfRun
  <1>5. CASE GoTo(r, "abandoned") /\ Writes(r, "reconciliation-required")
    BY <1>1, <1>2, <1>3, <1>4, <1>5, RunnerMarks
  <1>6. CASE GoTo(r, "submitted") /\ UNCHANGED slotFiles
    <2>1. /\ runs' \in [Runs -> Run]
          /\ runs'[r].step = "submitted" /\ runs'[r].slot = slot
          /\ runs'[r].sequence = runs[r].sequence
          /\ \A q \in Runs : q # r => runs'[q] = runs[q]
      BY <1>6, RunnerMoves DEF RehearsalInv, Steps
    <2>2. RehearsalTypes'
      BY <1>3, <1>4, <1>6, <2>1 DEF RehearsalInv, RehearsalTypes
    <2>3. OneHolder'
      BY <1>1, <1>2, <1>4, <2>1, InsideJournal DEF OneHolder
    <2>4. NumbersOwned'
      BY <1>1, <1>4, <2>1 DEF RehearsalInv, NumbersOwned, Numbered
    <2>5. RunnerFiles'
      BY <1>2, <1>3, <1>6, <2>1 DEF RunnerFiles, Holding
    <2>6. SlotFilesInOrder' /\ ReceiptsReal'
      BY <1>2, <1>3, <1>4, <1>6, <2>1 DEF RehearsalInv, SlotFilesInOrder, ReceiptsReal
    <2> QED
      BY <2>2, <2>3, <2>4, <2>5, <2>6 DEF RehearsalInv
  <1> QED
    BY <1>5, <1>6 DEF SubmitTransaction

LEMMA RecordAcknowledgementKeeps ==
  ASSUME RehearsalInv, NEW r \in Runs, RecordAcknowledgement(r)
  PROVE  RehearsalInv'
  <1> DEFINE slot == runs[r].slot
  <1>1. runs[r].step = "submitted" /\ runs[r].step \in Holding
    BY DEF RecordAcknowledgement, At, Holding
  <1>2. /\ slot \in RehearsalSlots /\ submissions[slot] = 1
        /\ slotFiles[slot] = {"00-reservation", "01-transaction-prepared"}
    BY <1>1, InsideJournal DEF RehearsalInv, RunnerFiles
  <1>3. /\ UNCHANGED <<rehearsalClock, sequenceLock, sequences, submissions, entries,
                       dispatch, inbox>>
        /\ Writes(r, "02-submission-acknowledged") /\ GoTo(r, "acknowledged")
    BY DEF RecordAcknowledgement, RestOfRun
  <1>4. /\ OneHolder' /\ runs' \in [Runs -> Run]
        /\ slotFiles' \in [RehearsalSlots -> SUBSET SlotStates]
        /\ runs'[r].step = "acknowledged" /\ runs'[r].slot = slot
        /\ runs'[r].sequence = runs[r].sequence
        /\ \A q \in Runs : q # r => runs'[q] = runs[q] /\ runs[q].step \notin Holding
        /\ slotFiles'[slot] = {"00-reservation", "01-transaction-prepared",
                               "02-submission-acknowledged"}
        /\ \A s \in RehearsalSlots : s # slot => slotFiles'[s] = slotFiles[s]
    BY <1>1, <1>2, <1>3, RunnerWritesAndMoves DEF Steps, SlotStates
  <1>5. RehearsalTypes'
    BY <1>3, <1>4 DEF RehearsalInv, RehearsalTypes
  <1>6. NumbersOwned'
    BY <1>1, <1>3, <1>4 DEF RehearsalInv, NumbersOwned, Numbered
  <1>7. RunnerFiles'
    BY <1>2, <1>3, <1>4 DEF RunnerFiles, Holding
  <1>8. SlotFilesInOrder' /\ ReceiptsReal'
    BY <1>2, <1>3, <1>4 DEF RehearsalInv, SlotFilesInOrder, ReceiptsReal
  <1> QED
    BY <1>4, <1>5, <1>6, <1>7, <1>8 DEF RehearsalInv

LEMMA PrepareAssignmentKeeps ==
  ASSUME RehearsalInv, NEW r \in Runs, PrepareAssignment(r)
  PROVE  RehearsalInv'
  <1> DEFINE slot == runs[r].slot
             entry == [prepared |-> TRUE, sequence |-> runs[r].sequence, issued |-> rehearsalClock]
  <1>1. runs[r].step = "acknowledged" /\ runs[r].step \in Holding
    BY DEF PrepareAssignment, At, Holding
  <1>2. /\ slot \in RehearsalSlots /\ submissions[slot] = 1 /\ runs[r] \in Run
        /\ slotFiles[slot] = {"00-reservation", "01-transaction-prepared",
                              "02-submission-acknowledged"}
    BY <1>1, InsideJournal DEF RehearsalInv, RunnerFiles
  <1>3. CASE ~(rehearsalClock <= Lateness)
    BY <1>1, <1>3, RunnerLeaves DEF PrepareAssignment, RestOfRun, RehearsalInv, RehearsalTypes
  <1>4. CASE rehearsalClock <= Lateness
    <2>1. /\ Writes(r, "03-assignment-prepared") /\ GoTo(r, "assigned")
          /\ entries' = [entries EXCEPT ![slot] = entry]
          /\ UNCHANGED <<rehearsalClock, sequenceLock, sequences, submissions, dispatch, inbox>>
      BY <1>4 DEF PrepareAssignment, RestOfRun
    <2>2. /\ OneHolder' /\ runs' \in [Runs -> Run]
          /\ slotFiles' \in [RehearsalSlots -> SUBSET SlotStates]
          /\ runs'[r].step = "assigned"
          /\ \A q \in Runs : q # r => runs'[q] = runs[q] /\ runs[q].step \notin Holding
          /\ slotFiles'[slot] = {"00-reservation", "01-transaction-prepared",
                                 "02-submission-acknowledged", "03-assignment-prepared"}
          /\ \A s \in RehearsalSlots : s # slot => slotFiles'[s] = slotFiles[s]
      BY <1>1, <1>2, <2>1, RunnerWritesAndMoves DEF Steps, SlotStates
    <2>3. entry \in [prepared : BOOLEAN, sequence : Nat, issued : Nat]
      BY <1>2 DEF RehearsalInv, RehearsalTypes, Run
    <2>4. /\ entries' \in [RehearsalSlots -> [prepared : BOOLEAN, sequence : Nat, issued : Nat]]
          /\ entries'[slot] = entry
          /\ \A s \in RehearsalSlots : s # slot => entries'[s] = entries[s]
      BY <1>2, <2>1, <2>3 DEF RehearsalInv, RehearsalTypes
    <2>5. RehearsalTypes'
      BY <2>1, <2>2, <2>4 DEF RehearsalInv, RehearsalTypes
    <2>6. NumbersOwned'
      <3>1. Numbered(slot, entry.sequence)
        BY <1>1 DEF RehearsalInv, NumbersOwned
      <3>2. \A s \in RehearsalSlots : entries'[s].prepared => Numbered(s, entries'[s].sequence)
        BY <2>4, <3>1 DEF RehearsalInv, NumbersOwned
      <3> QED
        BY <1>1, <2>1, <2>2, <3>2 DEF RehearsalInv, NumbersOwned, Numbered
    <2>7. RunnerFiles'
      BY <2>2 DEF RunnerFiles, Holding
    <2>8. SlotFilesInOrder' /\ ReceiptsReal'
      BY <1>2, <2>1, <2>2 DEF RehearsalInv, SlotFilesInOrder, ReceiptsReal
    <2> QED
      BY <2>2, <2>5, <2>6, <2>7, <2>8 DEF RehearsalInv
  <1> QED
    BY <1>3, <1>4

LEMMA CloseRunKeeps ==
  ASSUME RehearsalInv, NEW r \in Runs, CloseRun(r)
  PROVE  RehearsalInv'
  BY RunnerLeaves DEF CloseRun, At, RestOfRun, Holding

LEMMA RunDiesKeeps ==
  ASSUME RehearsalInv, NEW r \in Runs, RunDies(r)
  PROVE  RehearsalInv'
  BY RunnerLeaves DEF RunDies, RestOfRun, RehearsalInv, RehearsalTypes

\* The lock is cleared by hand only when no process is inside the journal.
LEMMA OperatorKeeps ==
  ASSUME RehearsalInv, OperatorUnlocksSequence
  PROVE  RehearsalInv'
  <1>1. /\ sequenceLock' = FALSE
        /\ UNCHANGED <<rehearsalClock, runs, sequences, submissions, entries, slotFiles,
                       dispatch, inbox>>
        /\ \A r \in Runs : runs[r].step \notin Holding
    BY DEF OperatorUnlocksSequence, RestOfRun, Holding
  <1>2. RehearsalTypes' /\ OneHolder'
    BY <1>1 DEF RehearsalInv, RehearsalTypes, OneHolder
  <1>3. NumbersOwned' /\ RunnerFiles'
    BY <1>1 DEF RehearsalInv, NumbersOwned, Numbered, RunnerFiles
  <1>4. SlotFilesInOrder' /\ ReceiptsReal'
    BY <1>1 DEF RehearsalInv, SlotFilesInOrder, ReceiptsReal
  <1> QED
    BY <1>2, <1>3, <1>4 DEF RehearsalInv

-----------------------------------------------------------------------------
\* Transport and inbox leave the runners and the slots' files alone.
LEMMA TransportMoves ==
  ASSUME RehearsalInv, UNCHANGED <<rehearsalClock, runVars, slotFiles>>,
         dispatch' \in [RehearsalSlots ->
           [state : {"none", "reserved", "receipt-recorded", "uncertain"}, at : Nat]],
         inbox' \in [RehearsalSlots ->
           [state : {"none", "claimed", "receipted", "worked"}, at : Nat]],
         \A s \in RehearsalSlots : inbox[s].state = "worked" => inbox'[s].state = "worked",
         ReceiptsReal'
  PROVE  RehearsalInv'
  <1> USE DEF runVars
  <1>1. RehearsalTypes' /\ OneHolder'
    BY DEF RehearsalInv, RehearsalTypes, OneHolder
  <1>2. NumbersOwned' /\ RunnerFiles'
    BY DEF RehearsalInv, NumbersOwned, Numbered, RunnerFiles
  <1>3. SlotFilesInOrder'
    BY DEF RehearsalInv, SlotFilesInOrder
  <1> QED
    BY <1>1, <1>2, <1>3 DEF RehearsalInv

\* An entry of a directory of states moves to another state.
LEMMA EntryMoves ==
  ASSUME NEW States, NEW entry \in [state : States, at : Nat], NEW state \in States
  PROVE  LET moved == [entry EXCEPT !.state = state]
         IN  moved \in [state : States, at : Nat] /\ moved.state = state /\ moved.at = entry.at
  OBVIOUS

LEMMA DispatchReservesKeeps ==
  ASSUME RehearsalInv, NEW s \in RehearsalSlots, DispatchReserves(s)
  PROVE  RehearsalInv'
  <1>1. dispatch' \in [RehearsalSlots ->
          [state : {"none", "reserved", "receipt-recorded", "uncertain"}, at : Nat]]
    BY DEF DispatchReserves, RehearsalInv, RehearsalTypes
  <1>2. inbox' = inbox /\ ReceiptsReal'
    BY DEF DispatchReserves, RehearsalInv, RehearsalTypes, ReceiptsReal
  <1> QED
    BY <1>1, <1>2, TransportMoves DEF DispatchReserves, RehearsalInv, RehearsalTypes

LEMMA DispatchEndsKeeps ==
  ASSUME RehearsalInv, NEW s \in RehearsalSlots, DispatchEnds(s)
  PROVE  RehearsalInv'
  <1>1. dispatch' \in [RehearsalSlots ->
          [state : {"none", "reserved", "receipt-recorded", "uncertain"}, at : Nat]]
    <2> DEFINE States == {"none", "reserved", "receipt-recorded", "uncertain"}
    <2>1. dispatch \in [RehearsalSlots -> [state : States, at : Nat]]
      BY DEF RehearsalInv, RehearsalTypes
    <2>2. PICK state \in States :
            dispatch' = [dispatch EXCEPT ![s] = [dispatch[s] EXCEPT !.state = state]]
      BY DEF DispatchEnds
    <2>3. [dispatch[s] EXCEPT !.state = state] \in [state : States, at : Nat]
      BY <2>1, EntryMoves
    <2> HIDE DEF States
    <2>4. dispatch' \in [RehearsalSlots -> [state : States, at : Nat]]
      BY <2>1, <2>2, <2>3
    <2> QED
      BY <2>4 DEF States
  <1>2. inbox' = inbox /\ ReceiptsReal'
    BY DEF DispatchEnds, ReceiptVerifies, RehearsalInv, RehearsalTypes, ReceiptsReal
  <1> QED
    BY <1>1, <1>2, TransportMoves DEF DispatchEnds, RehearsalInv, RehearsalTypes

\* The inbox of a slot only moves forward.
LEMMA InboxKeeps ==
  ASSUME RehearsalInv, NEW s \in RehearsalSlots,
         InboxReceives(s) \/ InboxWritesReceipt(s) \/ WorkerEvidence(s)
  PROVE  RehearsalInv'
  <1> DEFINE States == {"none", "claimed", "receipted", "worked"}
             Forward(from, to) == /\ from = "worked" => to = "worked"
                                  /\ from = "receipted" => to \in {"receipted", "worked"}
  <1>0. inbox \in [RehearsalSlots -> [state : States, at : Nat]] /\ rehearsalClock \in Nat
    BY DEF RehearsalInv, RehearsalTypes
  <1>1. PICK moved \in [state : States, at : Nat] :
          inbox' = [inbox EXCEPT ![s] = moved] /\ Forward(inbox[s].state, moved.state)
    <2>1. CASE InboxReceives(s)
      <3>1. [state |-> "claimed", at |-> rehearsalClock] \in [state : States, at : Nat]
        BY <1>0
      <3> QED
        BY <2>1, <3>1 DEF InboxReceives
    <2>2. CASE InboxWritesReceipt(s)
      <3>1. LET moved == [inbox[s] EXCEPT !.state = "receipted"]
            IN  moved \in [state : States, at : Nat] /\ moved.state = "receipted"
        BY <1>0, EntryMoves
      <3> QED
        BY <2>2, <3>1 DEF InboxWritesReceipt
    <2>3. CASE WorkerEvidence(s)
      <3>1. LET moved == [inbox[s] EXCEPT !.state = "worked"]
            IN  moved \in [state : States, at : Nat] /\ moved.state = "worked"
        BY <1>0, EntryMoves
      <3> QED
        BY <2>3, <3>1 DEF WorkerEvidence
    <2> QED
      BY <2>1, <2>2, <2>3
  <1>2. /\ inbox' \in [RehearsalSlots -> [state : States, at : Nat]]
        /\ \A t \in RehearsalSlots : Forward(inbox[t].state, inbox'[t].state)
    BY <1>0, <1>1
  <1>3. UNCHANGED <<rehearsalClock, runVars, slotFiles, dispatch>>
    BY DEF InboxReceives, InboxWritesReceipt, WorkerEvidence
  <1>4. ReceiptsReal'
    BY <1>2, <1>3 DEF RehearsalInv, ReceiptsReal
  <1> QED
    BY <1>2, <1>3, <1>4, TransportMoves DEF RehearsalInv, RehearsalTypes

\* A slot is completed after its runner wrote the last file, so no runner's
\* files change under it.
LEMMA CompleteKeeps ==
  ASSUME RehearsalInv, NEW s \in RehearsalSlots, Complete(s)
  PROVE  RehearsalInv'
  <1>1. UNCHANGED <<rehearsalClock, runs, sequenceLock, sequences, submissions, entries,
                    dispatch, inbox>>
    BY DEF Complete, runVars
  <1>2. PICK added \in SUBSET SlotStates :
          /\ slotFiles' = [slotFiles EXCEPT ![s] = slotFiles[s] \cup added]
          /\ "04-transport-receipt-recorded" \in added
          /\ added \subseteq {"04-transport-receipt-recorded", "05-worker-completed"}
    BY DEF Complete, SlotStates
  <1>3. /\ {"00-reservation", "01-transaction-prepared", "02-submission-acknowledged",
            "03-assignment-prepared"} \subseteq slotFiles[s]
        /\ inbox[s].state = "worked"
    BY DEF Complete
  <1>4. /\ slotFiles' \in [RehearsalSlots -> SUBSET SlotStates]
        /\ slotFiles'[s] = slotFiles[s] \cup added
        /\ \A t \in RehearsalSlots : t # s => slotFiles'[t] = slotFiles[t]
    BY <1>2 DEF RehearsalInv, RehearsalTypes
  <1>5. RehearsalTypes' /\ OneHolder'
    BY <1>1, <1>4 DEF RehearsalInv, RehearsalTypes, OneHolder
  <1>6. NumbersOwned'
    BY <1>1 DEF RehearsalInv, NumbersOwned, Numbered
  <1>7. RunnerFiles'
    <2>1. ASSUME NEW r \in Runs, runs[r].step \in {"reserved", "sequenced", "prepared",
                                                   "submitted", "acknowledged"}
          PROVE  runs[r].slot \in RehearsalSlots /\ runs[r].slot # s
      <3>1. "03-assignment-prepared" \notin slotFiles[runs[r].slot]
        BY <2>1 DEF RehearsalInv, RunnerFiles
      <3> QED
        BY <1>3, <2>1, <3>1, InsideJournal DEF Holding
    <2> QED
      BY <1>1, <1>4, <2>1 DEF RehearsalInv, RunnerFiles
  <1>8. SlotFilesInOrder' /\ ReceiptsReal'
    BY <1>1, <1>2, <1>3, <1>4 DEF RehearsalInv, SlotFilesInOrder, ReceiptsReal
  <1> QED
    BY <1>5, <1>6, <1>7, <1>8 DEF RehearsalInv

-----------------------------------------------------------------------------
\* RehearsalInv is an invariant, whatever fails and whoever dies.
THEOREM RehearsalInvariant == RehearsalSpec => []RehearsalInv
<1>1. RehearsalInit => RehearsalInv
  <2> SUFFICES ASSUME RehearsalInit PROVE RehearsalInv
    OBVIOUS
  <2> USE DEF RehearsalInit, IdleRun, NoEntry, NotDispatched, NotReceived
  <2>1. RehearsalTypes
    <3>1. sequences \in Seq(Numbering)
      BY EmptySeq
    <3>2. IdleRun \in Run /\ NoEntry \in [prepared : BOOLEAN, sequence : Nat, issued : Nat]
      BY DEF Run, Steps
    <3>3. /\ NotDispatched \in
               [state : {"none", "reserved", "receipt-recorded", "uncertain"}, at : Nat]
          /\ NotReceived \in [state : {"none", "claimed", "receipted", "worked"}, at : Nat]
      OBVIOUS
    <3>4. runs \in [Runs -> Run] /\ slotFiles \in [RehearsalSlots -> SUBSET SlotStates]
      BY <3>2
    <3>5. /\ submissions \in [RehearsalSlots -> Nat]
          /\ entries \in [RehearsalSlots -> [prepared : BOOLEAN, sequence : Nat, issued : Nat]]
      BY <3>2
    <3> QED
      BY <3>1, <3>3, <3>4, <3>5 DEF RehearsalTypes
  <2>2. OneHolder /\ NumbersOwned
    BY DEF OneHolder, NumbersOwned, Holding
  <2>3. RunnerFiles /\ SlotFilesInOrder /\ ReceiptsReal
    BY DEF RunnerFiles, SlotFilesInOrder, ReceiptsReal
  <2> QED
    BY <2>1, <2>2, <2>3 DEF RehearsalInv
<1>2. RehearsalInv /\ [RehearsalNext]_rehearsalVars => RehearsalInv'
  <2> SUFFICES ASSUME RehearsalInv, [RehearsalNext]_rehearsalVars
               PROVE  RehearsalInv'
    OBVIOUS
  <2>1. ASSUME NEW r \in Runs, RunnerSteps(r)
        PROVE  RehearsalInv'
    BY <2>1, OpenKeeps, ReserveSlotKeeps, ReserveSequenceKeeps, PrepareTransactionKeeps,
       SubmitTransactionKeeps, RecordAcknowledgementKeeps, PrepareAssignmentKeeps,
       CloseRunKeeps, RunDiesKeeps DEF RunnerSteps
  <2>2. ASSUME NEW s \in RehearsalSlots, TransportSteps(s)
        PROVE  RehearsalInv'
    BY <2>2, DispatchReservesKeeps, DispatchEndsKeeps, InboxKeeps, CompleteKeeps
       DEF TransportSteps
  <2>3. CASE RehearsalTick
    <3>1. rehearsalClock' \in Nat /\ UNCHANGED <<runVars, slotFiles, dispatch, inbox>>
      BY <2>3 DEF RehearsalTick, RehearsalInv, RehearsalTypes
    <3> QED
      BY <3>1 DEF runVars, RehearsalInv, RehearsalTypes, OneHolder, NumbersOwned, Numbered,
                  RunnerFiles, SlotFilesInOrder, ReceiptsReal
  <2>4. CASE UNCHANGED rehearsalVars
    BY <2>4, TransportMoves
       DEF rehearsalVars, RehearsalInv, RehearsalTypes, ReceiptsReal
  <2> QED
    BY <2>1, <2>2, <2>3, <2>4, OperatorKeeps DEF RehearsalNext
<1> QED
  BY <1>1, <1>2, PTL DEF RehearsalSpec

\* Each slot's transaction is handed to the RPC at most once, numbers are
\* distinct, and the files tell what happened at both ends, for any number of
\* runners started for any slots.
THEOREM RehearsalSound == RehearsalSpec => []RehearsalIsSound
<1>1. RehearsalInv => RehearsalIsSound
  <2> SUFFICES ASSUME RehearsalInv PROVE RehearsalIsSound
    OBVIOUS
  <2>1. SubmittedOnce
    BY DEF RehearsalInv, SlotFilesInOrder, SubmittedOnce
  <2>2. SequencesDistinct
    <3>1. ASSUME NEW s \in RehearsalSlots, NEW t \in RehearsalSlots, s # t,
                 entries[s].prepared, entries[t].prepared
          PROVE  entries[s].sequence # entries[t].sequence
      BY <3>1 DEF RehearsalInv, NumbersOwned, Numbered
    <3> QED
      BY <3>1 DEF RehearsalInv, NumbersOwned, SequencesDistinct
  <2>3. FilesTellTruth
    <3>1. ASSUME NEW s \in RehearsalSlots, "05-worker-completed" \in slotFiles[s]
          PROVE  /\ slotFiles[s] = SlotStates \ {"reconciliation-required"}
                 /\ submissions[s] = 1 /\ inbox[s].state = "worked"
      <4>1. slotFiles[s] \in SUBSET SlotStates
        BY DEF RehearsalInv, RehearsalTypes
      <4>2. /\ {"00-reservation", "01-transaction-prepared", "02-submission-acknowledged",
                "03-assignment-prepared", "04-transport-receipt-recorded",
                "05-worker-completed"} \subseteq slotFiles[s]
            /\ "reconciliation-required" \notin slotFiles[s]
            /\ submissions[s] = 1 /\ inbox[s].state = "worked"
        BY <3>1 DEF RehearsalInv, SlotFilesInOrder
      <4> QED
        BY <4>1, <4>2 DEF SlotStates
    <3> QED
      BY <3>1 DEF RehearsalInv, ReceiptsReal, FilesTellTruth
  <2> QED
    BY <2>1, <2>2, <2>3 DEF RehearsalIsSound
<1> QED
  BY <1>1, RehearsalInvariant, PTL

\* The times that the files hold are times the slot has had.
RehearsalTimes ==
  /\ rehearsalClock \in 0 .. RehearsalEnd
  /\ \A s \in RehearsalSlots : /\ entries[s].issued \in 0 .. RehearsalEnd
                               /\ dispatch[s].at \in 0 .. RehearsalEnd
                               /\ inbox[s].at \in 0 .. RehearsalEnd
  /\ failures \in 0 .. Failures

LEMMA RehearsalTimesKeeps ==
  ASSUME RehearsalInv, RehearsalTimes, [RehearsalNext]_rehearsalVars PROVE RehearsalTimes'
<1>1. RehearsalTypes
  BY DEF RehearsalInv
<1>2. NoFailure \/ Failure => failures' \in 0 .. Failures
  BY RehearsalAssumption DEF NoFailure, Failure, RehearsalTimes
<1>3. UNCHANGED <<rehearsalClock, entries, dispatch, inbox>> /\ failures' \in 0 .. Failures
        => RehearsalTimes'
  BY DEF RehearsalTimes
<1>4. ASSUME NEW r \in Runs, RunnerSteps(r) PROVE RehearsalTimes'
  <2>1. CASE PrepareAssignment(r)
    <3>1. /\ UNCHANGED <<rehearsalClock, dispatch, inbox>> /\ failures' \in 0 .. Failures
          /\ \/ UNCHANGED entries
             \/ entries' = [entries EXCEPT ![runs[r].slot] =
                  [prepared |-> TRUE, sequence |-> runs[r].sequence, issued |-> rehearsalClock]]
      BY <1>2, <2>1 DEF PrepareAssignment, RestOfRun
    <3>2. ASSUME NEW s \in RehearsalSlots PROVE entries'[s].issued \in {entries[s].issued, rehearsalClock}
      <4> DEFINE entry == [prepared |-> TRUE, sequence |-> runs[r].sequence, issued |-> rehearsalClock]
      <4>1. entry.issued = rehearsalClock
        OBVIOUS
      <4> HIDE DEF entry
      <4>2. UNCHANGED entries \/ entries' = [entries EXCEPT ![runs[r].slot] = entry]
        BY <3>1 DEF entry
      <4>3. DOMAIN entries = RehearsalSlots
        BY <1>1 DEF RehearsalTypes
      <4> QED BY <4>1, <4>2, <4>3
    <3> QED BY <3>1, <3>2 DEF RehearsalTimes
  <2>2. CASE ~PrepareAssignment(r)
    BY <1>2, <1>3, <1>4, <2>2 DEF RunnerSteps, OpenSequenceJournal, ReserveSlot, ReserveSequence,
       PrepareTransaction, SubmitTransaction, RecordAcknowledgement, CloseRun, RunDies, RestOfRun
  <2> QED BY <2>1, <2>2
<1>5. ASSUME NEW s \in RehearsalSlots, TransportSteps(s) PROVE RehearsalTimes'
  <2>1. UNCHANGED <<rehearsalClock, entries>> /\ failures' \in 0 .. Failures
    BY <1>2, <1>5 DEF TransportSteps, DispatchReserves, DispatchEnds, InboxReceives,
       InboxWritesReceipt, WorkerEvidence, Complete, runVars, NoFailure, RehearsalTimes
  <2>2. /\ \/ UNCHANGED dispatch
           \/ dispatch' = [dispatch EXCEPT ![s] = [state |-> "reserved", at |-> rehearsalClock]]
           \/ dispatch' = [dispatch EXCEPT ![s].state = "receipt-recorded"]
           \/ dispatch' = [dispatch EXCEPT ![s].state = "uncertain"]
        /\ \/ UNCHANGED inbox
           \/ inbox' = [inbox EXCEPT ![s] = [state |-> "claimed", at |-> rehearsalClock]]
           \/ inbox' = [inbox EXCEPT ![s].state = "receipted"]
           \/ inbox' = [inbox EXCEPT ![s].state = "worked"]
    BY <1>5 DEF TransportSteps, DispatchReserves, DispatchEnds, InboxReceives,
       InboxWritesReceipt, WorkerEvidence, Complete
  <2>3. ASSUME NEW t \in RehearsalSlots
        PROVE  /\ dispatch'[t].at \in {dispatch[t].at, rehearsalClock}
               /\ inbox'[t].at \in {inbox[t].at, rehearsalClock}
    <3>1. /\ dispatch[t] \in [state : {"none", "reserved", "receipt-recorded", "uncertain"}, at : Nat]
          /\ inbox[t] \in [state : {"none", "claimed", "receipted", "worked"}, at : Nat]
          /\ DOMAIN dispatch = RehearsalSlots /\ DOMAIN inbox = RehearsalSlots
      BY <1>1 DEF RehearsalTypes
    <3>2. dispatch'[t].at \in {dispatch[t].at, rehearsalClock}
      BY <2>2, <3>1
    <3>3. inbox'[t].at \in {inbox[t].at, rehearsalClock}
      BY <2>2, <3>1
    <3> QED BY <3>2, <3>3
  <2> QED BY <2>1, <2>3 DEF RehearsalTimes
<1>6. CASE OperatorUnlocksSequence
  BY <1>2, <1>3, <1>6 DEF OperatorUnlocksSequence, RestOfRun
<1>7. CASE RehearsalTick
  BY <1>7, RehearsalAssumption DEF RehearsalTick, runVars, RehearsalTimes
<1>8. CASE UNCHANGED rehearsalVars
  BY <1>3, <1>8 DEF rehearsalVars, runVars, RehearsalTimes
<1> QED BY <1>4, <1>5, <1>6, <1>7, <1>8 DEF RehearsalNext

\* The variables of the rehearsal keep their types, and no time passes its end.
THEOREM RehearsalTyped == RehearsalSpec => []RehearsalTypeOK
<1>1. RehearsalInit => RehearsalTimes
  BY RehearsalAssumption DEF RehearsalInit, RehearsalTimes, NoEntry, NotDispatched, NotReceived
<1>2. RehearsalSpec => []RehearsalTimes
  BY <1>1, RehearsalInvariant, RehearsalTimesKeeps, PTL DEF RehearsalSpec
<1>3. RehearsalInv /\ RehearsalTimes => RehearsalTypeOK
  <2>1. SUFFICES ASSUME RehearsalInv, RehearsalTimes PROVE RehearsalTypeOK
    OBVIOUS
  <2>2. RehearsalTypes
    BY <2>1 DEF RehearsalInv
  <2>3. \A i \in 1 .. Len(sequences) : sequences[i] \in [slot : RehearsalSlots, sequence : Nat]
    <3>1. sequences \in Seq(Numbering)
      BY <2>2 DEF RehearsalTypes
    <3>2. \A i \in 1 .. Len(sequences) : sequences[i] \in Numbering
      BY <3>1
    <3> QED BY <3>2 DEF Numbering
  <2>4. /\ entries \in [RehearsalSlots -> [prepared : BOOLEAN, sequence : Nat, issued : 0 .. RehearsalEnd]]
        /\ dispatch \in [RehearsalSlots ->
             [state : {"none", "reserved", "receipt-recorded", "uncertain"}, at : 0 .. RehearsalEnd]]
        /\ inbox \in [RehearsalSlots ->
             [state : {"none", "claimed", "receipted", "worked"}, at : 0 .. RehearsalEnd]]
    <3>1. /\ entries = [s \in RehearsalSlots |-> entries[s]]
          /\ dispatch = [s \in RehearsalSlots |-> dispatch[s]]
          /\ inbox = [s \in RehearsalSlots |-> inbox[s]]
      BY <2>2 DEF RehearsalTypes
    <3>2. ASSUME NEW s \in RehearsalSlots
          PROVE  entries[s] \in [prepared : BOOLEAN, sequence : Nat, issued : 0 .. RehearsalEnd]
      <4>1. /\ entries[s] \in [prepared : BOOLEAN, sequence : Nat, issued : Nat]
            /\ entries[s].issued \in 0 .. RehearsalEnd
        BY <2>1, <2>2 DEF RehearsalTypes, RehearsalTimes
      <4> QED BY <4>1
    <3>3. ASSUME NEW s \in RehearsalSlots
          PROVE  dispatch[s] \in [state : {"none", "reserved", "receipt-recorded", "uncertain"},
                                  at : 0 .. RehearsalEnd]
      <4>1. /\ dispatch[s] \in [state : {"none", "reserved", "receipt-recorded", "uncertain"}, at : Nat]
            /\ dispatch[s].at \in 0 .. RehearsalEnd
        BY <2>1, <2>2 DEF RehearsalTypes, RehearsalTimes
      <4> QED BY ONLY <4>1
    <3>4. ASSUME NEW s \in RehearsalSlots
          PROVE  inbox[s] \in [state : {"none", "claimed", "receipted", "worked"}, at : 0 .. RehearsalEnd]
      <4>1. /\ inbox[s] \in [state : {"none", "claimed", "receipted", "worked"}, at : Nat]
            /\ inbox[s].at \in 0 .. RehearsalEnd
        BY <2>1, <2>2 DEF RehearsalTypes, RehearsalTimes
      <4> QED BY ONLY <4>1
    <3>5. entries \in [RehearsalSlots -> [prepared : BOOLEAN, sequence : Nat, issued : 0 .. RehearsalEnd]]
      BY ONLY <3>1, <3>2
    <3>6. dispatch \in [RehearsalSlots ->
             [state : {"none", "reserved", "receipt-recorded", "uncertain"}, at : 0 .. RehearsalEnd]]
      BY ONLY <3>1, <3>3
    <3>7. inbox \in [RehearsalSlots ->
             [state : {"none", "claimed", "receipted", "worked"}, at : 0 .. RehearsalEnd]]
      BY ONLY <3>1, <3>4
    <3> QED BY <3>5, <3>6, <3>7
  <2> QED BY <2>1, <2>2, <2>3, <2>4 DEF RehearsalTypes, RehearsalTimes, RehearsalTypeOK, Run, Steps
<1> QED BY <1>2, <1>3, RehearsalInvariant, PTL

----------------------------------------------------------------------------
(* The dry run of the schedule.                                            *)

HalfTick == [half |-> TRUE]
Decisions == UNION {[S -> {"DRY_RUN_DUE", "MISSING"}] : S \in SUBSET DryRunSlots}
WholeTick == [observed_at : Nat, decisions : Decisions, window_elapsed : BOOLEAN]

Stages == {"idle", "starting", "binding", "deciding", "completed", "returned", "threw", "died"}

\* Record i decides what was due by its time and open before it.
Decides(i) ==
  ticks[i] = DecideTick(binding, ticks[i].observed_at, SubSeq(ticks, 1, i - 1))

\* A half record is the last; the others are in order and made under the one
\* binding there is.
JournalInOrder ==
  /\ ticks \in Seq(WholeTick \cup {HalfTick})
  /\ ticks # <<>> => binding \in Starts
  /\ \A i \in 1 .. Len(ticks) : ticks[i] = HalfTick => i = Len(ticks)
  /\ \A i \in 1 .. Len(ticks) : ticks[i] # HalfTick => Decides(i)
  /\ \A i, j \in 1 .. Len(ticks) :
       ticks[i] # HalfTick /\ ticks[j] # HalfTick /\ i <= j =>
         ticks[i].observed_at <= ticks[j].observed_at

\* An invocation decides under the binding, which is its start.
CallsAreBound ==
  \A c \in Invocations :
    /\ calls[c].pc # "idle" => calls[c].start \in Starts
    /\ calls[c].pc \in {"deciding", "completed"} => binding = calls[c].start

DryRunInv ==
  /\ calls \in [Invocations -> [pc : Stages, start : Nat, now : Nat]]
  /\ clock \in Nat /\ binding \in Starts \cup {NoBinding, Half}
  /\ JournalInOrder /\ CallsAreBound

-----------------------------------------------------------------------------
(* The decision.                                                           *)

LEMMA WholeIsNotHalf == \A record \in WholeTick : record # HalfTick
  BY DEF WholeTick, HalfTick

\* A decision is a whole record of its time.
LEMMA DecisionIsWhole ==
  ASSUME NEW start \in Nat, NEW now \in Nat, NEW records
  PROVE  /\ DecideTick(start, now, records) \in WholeTick
         /\ DecideTick(start, now, records).observed_at = now
  <1> DEFINE open == {t \in DryRunSlots \ Decided(records) : DueAt(start, t) <= now}
             decisions == [s \in open |->
               IF now - DueAt(start, s) <= SlotTolerance THEN "DRY_RUN_DUE" ELSE "MISSING"]
  <1>1. decisions \in [open -> {"DRY_RUN_DUE", "MISSING"}] /\ open \in SUBSET DryRunSlots
    OBVIOUS
  <1> HIDE DEF open
  <1>2. decisions \in Decisions
    BY <1>1 DEF Decisions
  <1>3. DecideTick(start, now, records) =
          [observed_at |-> now, decisions |-> decisions,
           window_elapsed |-> now >= start + ScheduleEnd]
    BY DEF DecideTick, open
  <1> HIDE DEF decisions
  <1> QED
    BY <1>2, <1>3 DEF WholeTick

\* Which slots a decision is about, and which of them are missing.
LEMMA DecisionOf ==
  ASSUME NEW start, NEW now, NEW records, NEW s
  PROVE  LET made == DecideTick(start, now, records).decisions
         IN  /\ s \in DOMAIN made <=>
                  s \in DryRunSlots /\ s \notin Decided(records) /\ DueAt(start, s) <= now
             /\ s \in DOMAIN made =>
                  (made[s] = "MISSING" <=> ~(now - DueAt(start, s) <= SlotTolerance))
  <1> DEFINE open == {t \in DryRunSlots \ Decided(records) : DueAt(start, t) <= now}
             decisions == [t \in open |->
               IF now - DueAt(start, t) <= SlotTolerance THEN "DRY_RUN_DUE" ELSE "MISSING"]
  <1>1. DecideTick(start, now, records).decisions = decisions
    BY DEF DecideTick
  <1>2. /\ s \in DOMAIN decisions <=>
             s \in DryRunSlots /\ s \notin Decided(records) /\ DueAt(start, s) <= now
        /\ s \in DOMAIN decisions =>
             (decisions[s] = "MISSING" <=> ~(now - DueAt(start, s) <= SlotTolerance))
    OBVIOUS
  <1> QED
    BY <1>1, <1>2

\* What the records before the i-th decided.
LEMMA DecidedBefore ==
  ASSUME NEW records \in Seq(WholeTick \cup {HalfTick}), NEW i \in 1 .. Len(records) + 1, NEW s
  PROVE  s \in Decided(SubSeq(records, 1, i - 1)) <=>
           \E j \in 1 .. (i - 1) : s \in DOMAIN records[j].decisions
  <1> DEFINE earlier == SubSeq(records, 1, i - 1)
  <1>1. DOMAIN earlier = 1 .. (i - 1) /\ \A j \in 1 .. (i - 1) : earlier[j] = records[j]
    OBVIOUS
  <1> HIDE DEF earlier
  <1>2. s \in Decided(earlier) <=> \E j \in 1 .. (i - 1) : s \in DOMAIN records[j].decisions
    BY <1>1 DEF Decided
  <1> QED
    BY <1>2 DEF earlier

\* A record more leaves what came before each of the others.
LEMMA RecordsBefore ==
  ASSUME NEW S, NEW records \in Seq(S), NEW record \in S, NEW i \in 1 .. Len(records) + 1
  PROVE  SubSeq(Append(records, record), 1, i - 1) = SubSeq(records, 1, i - 1)
  OBVIOUS

-----------------------------------------------------------------------------
(* The journal.                                                            *)

\* A record, whole or half, behind a journal of whole ones.
LEMMA RecordAdded ==
  ASSUME JournalInOrder, NEW record \in WholeTick \cup {HalfTick},
         \A i \in 1 .. Len(ticks) : ticks[i] # HalfTick,
         binding \in Starts, UNCHANGED binding, ticks' = Append(ticks, record),
         record # HalfTick =>
           /\ record = DecideTick(binding, record.observed_at, ticks)
           /\ ticks # <<>> => record.observed_at >= ticks[Len(ticks)].observed_at
  PROVE  JournalInOrder'
  <1> DEFINE n == Len(ticks)
  <1>1. /\ ticks \in Seq(WholeTick \cup {HalfTick}) /\ n \in Nat
        /\ ticks' \in Seq(WholeTick \cup {HalfTick}) /\ Len(ticks') = n + 1
        /\ ticks'[n + 1] = record /\ \A i \in 1 .. n : ticks'[i] = ticks[i]
        /\ \A i : i \in 1 .. (n + 1) <=> i \in 1 .. n \/ i = n + 1
    BY DEF JournalInOrder
  <1>2. \A i \in 1 .. Len(ticks') : ticks'[i] = HalfTick => i = Len(ticks')
    BY <1>1
  <1>3. ASSUME NEW i \in 1 .. Len(ticks'), ticks'[i] # HalfTick PROVE Decides(i)'
    <2>1. SubSeq(ticks', 1, i - 1) = SubSeq(ticks, 1, i - 1)
      BY <1>1, <1>3, RecordsBefore
    <2>2. CASE i \in 1 .. n
      <3>1. Decides(i)
        BY <1>1, <1>3, <2>2 DEF JournalInOrder
      <3> QED
        BY <1>1, <2>1, <2>2, <3>1 DEF Decides
    <2>3. CASE i = n + 1
      <3>1. SubSeq(ticks, 1, i - 1) = ticks
        BY <1>1, <2>3
      <3> QED
        BY <1>1, <1>3, <2>1, <2>3, <3>1 DEF Decides
    <2> QED
      BY <1>1, <1>3, <2>2, <2>3
  <1>4. ASSUME NEW i \in 1 .. Len(ticks'), NEW j \in 1 .. Len(ticks'),
               ticks'[i] # HalfTick, ticks'[j] # HalfTick, i <= j
        PROVE  ticks'[i].observed_at <= ticks'[j].observed_at
    <2>1. CASE j \in 1 .. n
      <3>1. i \in 1 .. n
        BY <1>1, <1>4, <2>1
      <3> QED
        BY <1>1, <1>4, <2>1, <3>1 DEF JournalInOrder
    <2>2. CASE i = n + 1 /\ j = n + 1
      <3>1. record \in WholeTick
        BY <1>1, <1>4, <2>2
      <3> QED
        BY <1>1, <2>2, <3>1 DEF WholeTick
    <2>3. CASE i \in 1 .. n /\ j = n + 1
      <3>1. n \in 1 .. n /\ i <= n /\ ticks # <<>>
        BY <1>1, <2>3
      <3>2. /\ ticks[i] \in WholeTick /\ ticks[n] \in WholeTick /\ record \in WholeTick
            /\ ticks[i].observed_at <= ticks[n].observed_at
        BY <1>1, <1>4, <2>3, <3>1 DEF JournalInOrder
      <3>3. record.observed_at >= ticks[n].observed_at
        BY <1>1, <1>4, <2>3, <3>1
      <3>4. ticks[i].observed_at \in Nat /\ ticks[n].observed_at \in Nat /\ record.observed_at \in Nat
        BY <3>2 DEF WholeTick
      <3>5. ticks[i].observed_at <= record.observed_at
        BY <3>2, <3>3, <3>4
      <3> QED
        BY <1>1, <2>3, <3>5
    <2> QED
      BY <1>1, <1>4, <2>1, <2>2, <2>3
  <1> QED
    BY <1>1, <1>2, <1>3, <1>4 DEF JournalInOrder

\* Which slots the whole record i is about.
LEMMA DecidedBy ==
  ASSUME JournalInOrder, NEW i \in WholeTicks, NEW s
  PROVE  /\ s \in DOMAIN ticks[i].decisions <=>
              /\ s \in DryRunSlots /\ DueAt(binding, s) <= ticks[i].observed_at
              /\ \A j \in 1 .. (i - 1) : s \notin DOMAIN ticks[j].decisions
         /\ s \in DOMAIN ticks[i].decisions =>
              (ticks[i].decisions[s] = "MISSING" <=>
                 ~(ticks[i].observed_at - DueAt(binding, s) <= SlotTolerance))
  <1>1. /\ ticks \in Seq(WholeTick \cup {HalfTick}) /\ i \in 1 .. Len(ticks)
        /\ ticks[i] # HalfTick /\ i \in 1 .. Len(ticks) + 1
    BY DEF JournalInOrder, WholeTicks, HalfTick
  <1>2. ticks[i].decisions =
          DecideTick(binding, ticks[i].observed_at, SubSeq(ticks, 1, i - 1)).decisions
    BY <1>1 DEF JournalInOrder, Decides
  <1>3. s \in Decided(SubSeq(ticks, 1, i - 1)) <=>
          \E j \in 1 .. (i - 1) : s \in DOMAIN ticks[j].decisions
    BY <1>1, DecidedBefore
  <1> QED
    BY <1>2, <1>3, DecisionOf

\* The whole records before a whole one are all there are before it.
LEMMA WholeInOrder ==
  ASSUME JournalInOrder, NEW i \in WholeTicks
  PROVE  /\ i \in 1 .. Len(ticks) /\ ticks[i].observed_at \in Nat
         /\ \A j \in 1 .. (i - 1) : j \in WholeTicks
         /\ \A j \in WholeTicks : j < i => j \in 1 .. (i - 1)
         /\ \A j \in WholeTicks : i <= j => ticks[i].observed_at <= ticks[j].observed_at
  <1>1. /\ ticks \in Seq(WholeTick \cup {HalfTick}) /\ Len(ticks) \in Nat
        /\ \A j : j \in WholeTicks <=> j \in 1 .. Len(ticks) /\ ticks[j] # HalfTick
    BY DEF JournalInOrder, WholeTicks, HalfTick
  <1>2. ticks[i] \in WholeTick
    BY <1>1
  <1>3. ticks[i].observed_at \in Nat
    BY <1>2 DEF WholeTick
  <1>4. ASSUME NEW j \in 1 .. (i - 1) PROVE j \in WholeTicks
    BY <1>1, <1>4 DEF JournalInOrder
  <1>5. \A j \in WholeTicks : i <= j => ticks[i].observed_at <= ticks[j].observed_at
    BY <1>1 DEF JournalInOrder
  <1> QED
    BY <1>1, <1>3, <1>4, <1>5

\* A journal in order accounts for every slot.
LEMMA OrderAccounts ==
  ASSUME JournalInOrder, ticks # <<>> => binding \in Nat
  PROVE  ScheduleIsAccounted
  <1>1. EachSlotDecidedOnce
    <2> SUFFICES ASSUME NEW i \in WholeTicks
                 PROVE
          /\ \A j \in WholeTicks \ {i} :
               DOMAIN ticks[i].decisions \cap DOMAIN ticks[j].decisions = {}
          /\ \A s \in DryRunSlots : DueAt(binding, s) <= ticks[i].observed_at =>
               \E j \in WholeTicks : j <= i /\ s \in DOMAIN ticks[j].decisions
      BY DEF EachSlotDecidedOnce
    <2>1. ASSUME NEW j \in WholeTicks, j # i,
                 NEW s, s \in DOMAIN ticks[i].decisions, s \in DOMAIN ticks[j].decisions
          PROVE  FALSE
      <3>1. CASE j < i
        BY <2>1, <3>1, DecidedBy, WholeInOrder
      <3>2. CASE i < j
        <4>1. i \in 1 .. (j - 1)
          BY <3>2, WholeInOrder
        <4> QED
          BY <2>1, <4>1, DecidedBy
      <3> QED
        BY <2>1, <3>1, <3>2, WholeInOrder
    <2>2. ASSUME NEW s \in DryRunSlots, DueAt(binding, s) <= ticks[i].observed_at
          PROVE  \E j \in WholeTicks : j <= i /\ s \in DOMAIN ticks[j].decisions
      <3>1. CASE \E j \in 1 .. (i - 1) : s \in DOMAIN ticks[j].decisions
        BY <3>1, WholeInOrder
      <3>2. CASE \A j \in 1 .. (i - 1) : s \notin DOMAIN ticks[j].decisions
        <4>1. s \in DOMAIN ticks[i].decisions
          BY <2>2, <3>2, DecidedBy
        <4>2. i <= i
          BY WholeInOrder
        <4> QED
          BY <4>1, <4>2
      <3> QED
        BY <3>1, <3>2
    <2> QED
      BY <2>1, <2>2
  <1>2. MissingMeansUnobserved
    <2> SUFFICES ASSUME NEW i \in WholeTicks, NEW s \in DOMAIN ticks[i].decisions
                 PROVE  (ticks[i].decisions[s] = "MISSING") <=>
                          ~\E j \in WholeTicks : ticks[j].observed_at \in
                             DueAt(binding, s) .. (DueAt(binding, s) + SlotTolerance)
      BY DEF MissingMeansUnobserved
    <2> DEFINE due == DueAt(binding, s)
               at == ticks[i].observed_at
    <2>1. /\ s \in DryRunSlots /\ due <= at
          /\ \A j \in 1 .. (i - 1) : s \notin DOMAIN ticks[j].decisions
          /\ ticks[i].decisions[s] = "MISSING" <=> ~(at - due <= SlotTolerance)
      BY DecidedBy
    <2>2. /\ i \in 1 .. Len(ticks) /\ ticks # <<>> /\ at \in Nat
          /\ \A j \in WholeTicks : j \in 1 .. Len(ticks) /\ ticks[j].observed_at \in Nat
          /\ \A j \in WholeTicks : i <= j => at <= ticks[j].observed_at
      BY WholeInOrder
    <2>3. due \in Int /\ SlotTolerance \in Nat
      BY <2>1, <2>2, DryRunAssumption DEF DueAt, ValidDryRunSchedule
    <2>4. ASSUME NEW j \in WholeTicks, j < i, due <= ticks[j].observed_at PROVE FALSE
      <3>1. j \in 1 .. (i - 1)
        BY <2>4, WholeInOrder
      <3>2. s \notin DOMAIN ticks[j].decisions
        BY <2>1, <3>1
      <3>3. PICK k \in 1 .. (j - 1) : s \in DOMAIN ticks[k].decisions
        BY <2>1, <2>4, <3>2, DecidedBy
      <3>4. k \in 1 .. (i - 1)
        BY <2>2, <3>1, <3>3
      <3> QED
        BY <2>1, <3>3, <3>4
    <2> HIDE DEF due, at
    <2>5. CASE at - due <= SlotTolerance
      <3>1. at \in due .. (due + SlotTolerance)
        BY <2>1, <2>2, <2>3, <2>5
      <3> QED
        BY <2>1, <2>5, <3>1 DEF due, at
    <2>6. CASE ~(at - due <= SlotTolerance)
      <3>1. ASSUME NEW j \in WholeTicks, ticks[j].observed_at \in due .. (due + SlotTolerance)
            PROVE  FALSE
        <4>1. /\ due <= ticks[j].observed_at /\ ticks[j].observed_at <= due + SlotTolerance
              /\ at > due + SlotTolerance /\ ticks[j].observed_at \in Nat
          BY <2>2, <2>3, <2>6, <3>1
        <4>2. i <= j
          BY <2>2, <2>4, <4>1
        <4> QED
          BY <2>2, <2>3, <4>1, <4>2
      <3> QED
        BY <2>1, <2>6, <3>1 DEF due, at
    <2> QED
      BY <2>5, <2>6
  <1>3. \A i \in DOMAIN ticks : i < Len(ticks) => i \in WholeTicks
    <2> SUFFICES ASSUME NEW i \in DOMAIN ticks, i < Len(ticks), ticks[i] = HalfTick
                 PROVE  FALSE
      BY DEF WholeTicks, HalfTick
    <2>1. i \in 1 .. Len(ticks) /\ Len(ticks) \in Nat
      BY DEF JournalInOrder
    <2>2. i = Len(ticks)
      BY <2>1 DEF JournalInOrder
    <2> QED
      BY <2>1, <2>2
  <1> QED
    BY <1>1, <1>2, <1>3 DEF ScheduleIsAccounted

-----------------------------------------------------------------------------
(* The steps of an invocation, and the theorem.                            *)

\* One invocation moves on under the same binding and journal.
LEMMA OneMoves ==
  ASSUME DryRunInv, NEW c \in Invocations, NEW pc \in Stages,
         calls' = [calls EXCEPT ![c].pc = pc],
         pc \in {"deciding", "completed"} => binding' = calls[c].start,
         calls[c].pc # "idle", clock' \in Nat,
         binding' \in Starts \cup {NoBinding, Half},
         JournalInOrder',
         binding \in Starts => UNCHANGED binding
  PROVE  DryRunInv'
  <1>1. /\ calls' \in [Invocations -> [pc : Stages, start : Nat, now : Nat]]
        /\ calls'[c].pc = pc /\ calls'[c].start = calls[c].start
        /\ \A d \in Invocations : d # c => calls'[d] = calls[d]
    BY DEF DryRunInv
  <1>2. CallsAreBound'
    BY <1>1 DEF DryRunInv, CallsAreBound
  <1> QED
    BY <1>1, <1>2 DEF DryRunInv

LEMMA DryRunInitEstablishes == DryRunInit => DryRunInv
  <1> SUFFICES ASSUME DryRunInit PROVE DryRunInv
    OBVIOUS
  <1>1. ticks = <<>> /\ clock = 0 /\ binding = NoBinding
    BY DEF DryRunInit
  <1>2. JournalInOrder
    BY <1>1 DEF JournalInOrder
  <1>3. /\ calls \in [Invocations -> [pc : Stages, start : Nat, now : Nat]]
        /\ \A c \in Invocations : calls[c].pc = "idle"
    BY DEF DryRunInit, Stages
  <1> QED
    BY <1>1, <1>2, <1>3 DEF DryRunInv, CallsAreBound

LEMMA DryRunNextPreserves == DryRunInv /\ [DryRunNext]_dryRunVars => DryRunInv'
  <1> SUFFICES ASSUME DryRunInv, [DryRunNext]_dryRunVars PROVE DryRunInv'
    OBVIOUS
  <1>1. /\ JournalInOrder /\ CallsAreBound /\ clock \in Nat
        /\ binding \in Starts \cup {NoBinding, Half} /\ Starts \subseteq Nat
    BY DryRunAssumption DEF DryRunInv
  <1>2. UNCHANGED <<binding, ticks>> => JournalInOrder'
    BY <1>1 DEF JournalInOrder, Decides
  <1>3. CASE OperatorUnlocks \/ ClockTicks \/ UNCHANGED dryRunVars
    <2>1. UNCHANGED <<calls, binding, ticks>> /\ clock' \in {clock, clock + 1}
      BY <1>3 DEF OperatorUnlocks, ClockTicks, dryRunVars
    <2> QED
      BY <1>1, <1>2, <2>1 DEF DryRunInv, CallsAreBound
  <1>4. ASSUME NEW c \in Invocations, TickInvoked(c) PROVE DryRunInv'
    <2>1. PICK start \in Starts, now \in {clock, clock - 1} \cap Nat :
            calls' = [calls EXCEPT ![c] = [pc |-> "starting", start |-> start, now |-> now]]
      BY <1>4 DEF TickInvoked
    <2>2. /\ calls' \in [Invocations -> [pc : Stages, start : Nat, now : Nat]]
          /\ calls'[c].pc = "starting" /\ calls'[c].start = start
          /\ \A d \in Invocations : d # c => calls'[d] = calls[d]
      BY <1>1, <2>1, DryRunAssumption DEF DryRunInv, Stages
    <2>3. UNCHANGED <<clock, binding, ticks>>
      BY <1>4 DEF TickInvoked
    <2> QED
      BY <1>1, <1>2, <2>2, <2>3 DEF DryRunInv, CallsAreBound
  <1>5. ASSUME NEW c \in Invocations, TakeLock(c) PROVE DryRunInv'
    <2>1. /\ UNCHANGED <<clock, binding, ticks>> /\ calls[c].pc = "starting"
          /\ Moves(c, "binding") \/ Moves(c, "threw")
      BY <1>5 DEF TakeLock
    <2> QED
      BY <1>1, <1>2, <2>1, OneMoves DEF Moves, Stages
  <1>6. ASSUME NEW c \in Invocations, BindSchedule(c) PROVE DryRunInv'
    <2>1. /\ UNCHANGED <<clock, ticks>> /\ calls[c].pc = "binding" /\ calls[c].start \in Starts
          /\ binding' = IF binding = NoBinding THEN calls[c].start ELSE binding
          /\ \/ Moves(c, "deciding") /\ binding' = calls[c].start
             \/ Moves(c, "threw")
      BY <1>1, <1>6 DEF BindSchedule, CallsAreBound
    <2>2. binding \in Starts => UNCHANGED binding
      BY <1>1, <2>1 DEF NoBinding
    <2>3. JournalInOrder'
      <3>1. CASE UNCHANGED binding
        BY <1>2, <2>1, <3>1
      <3>2. CASE binding = NoBinding
        <4>1. ticks = <<>>
          BY <1>1, <3>2 DEF JournalInOrder, NoBinding
        <4> QED
          BY <2>1, <4>1 DEF JournalInOrder
      <3> QED
        BY <2>1, <3>1, <3>2
    <2>4. binding' \in Starts \cup {NoBinding, Half}
      BY <1>1, <2>1
    <2> QED
      BY <1>1, <2>1, <2>2, <2>3, <2>4, OneMoves DEF Moves, Stages
  <1>7. ASSUME NEW c \in Invocations, WriteTick(c) PROVE DryRunInv'
    <2>1. /\ calls[c].pc = "deciding" /\ UNCHANGED <<clock, binding>>
          /\ binding = calls[c].start /\ binding \in Starts /\ calls[c].now \in Nat
      BY <1>1, <1>7 DEF WriteTick, CallsAreBound, DryRunInv
    <2>2. CASE Moves(c, "threw") /\ UNCHANGED ticks
      BY <1>1, <1>2, <2>1, <2>2, OneMoves DEF Moves, Stages
    <2>3. CASE /\ ScheduleRecomputes(binding) /\ ClockAdvances(calls[c].now, ticks)
               /\ ticks' = Append(ticks, DecideTick(binding, calls[c].now, ticks))
               /\ Moves(c, "completed")
      <3> DEFINE record == DecideTick(binding, calls[c].now, ticks)
      <3>1. record \in WholeTick /\ record.observed_at = calls[c].now
        BY <1>1, <2>1, DecisionIsWhole
      <3>2. \A i \in 1 .. Len(ticks) : ticks[i] # HalfTick
        BY <1>1, <2>3 DEF ScheduleRecomputes, HalfTick, JournalInOrder
      <3>3. ticks # <<>> => calls[c].now >= ticks[Len(ticks)].observed_at
        BY <2>3 DEF ClockAdvances
      <3>4. ticks' = Append(ticks, record) /\ record = DecideTick(binding, record.observed_at, ticks)
        BY <2>3, <3>1
      <3> HIDE DEF record
      <3>5. JournalInOrder'
        BY <1>1, <2>1, <3>1, <3>2, <3>3, <3>4, RecordAdded
      <3> QED
        BY <1>1, <2>1, <2>3, <3>5, OneMoves DEF Moves, Stages
    <2> QED
      BY <1>7, <2>1, <2>2, <2>3 DEF WriteTick
  <1>8. ASSUME NEW c \in Invocations, Unlock(c) PROVE DryRunInv'
    <2>1. /\ UNCHANGED <<clock, binding, ticks>> /\ calls[c].pc = "completed"
          /\ Moves(c, "returned")
      BY <1>8 DEF Unlock
    <2> QED
      BY <1>1, <1>2, <2>1, OneMoves DEF Moves, Stages
  <1>9. ASSUME NEW c \in Invocations, InvocationDies(c) PROVE DryRunInv'
    <2>1. calls[c].pc # "idle" /\ Moves(c, "died") /\ UNCHANGED clock
      BY <1>9 DEF InvocationDies
    <2>2. CASE UNCHANGED <<binding, ticks>>
      BY <1>1, <1>2, <2>1, <2>2, OneMoves DEF Moves, Stages
    <2>3. CASE binding = NoBinding /\ binding' = Half /\ UNCHANGED ticks
      <3>1. ticks = <<>>
        BY <1>1, <2>3 DEF JournalInOrder, NoBinding
      <3>2. JournalInOrder'
        BY <2>3, <3>1 DEF JournalInOrder
      <3>3. binding \notin Starts
        BY <1>1, <2>3 DEF NoBinding
      <3> QED
        BY <1>1, <2>1, <2>3, <3>2, <3>3, OneMoves DEF Moves, Stages
    <2>4. CASE /\ calls[c].pc = "deciding" /\ ScheduleRecomputes(calls[c].start)
               /\ ticks' = Append(ticks, [half |-> TRUE]) /\ UNCHANGED binding
      <3>1. binding \in Starts
        BY <1>1, <2>4 DEF CallsAreBound
      <3>2. \A i \in 1 .. Len(ticks) : ticks[i] # HalfTick
        BY <1>1, <2>4 DEF ScheduleRecomputes, HalfTick, JournalInOrder
      <3>3. JournalInOrder'
        BY <1>1, <2>4, <3>1, <3>2, RecordAdded DEF HalfTick
      <3> QED
        BY <1>1, <2>1, <2>4, <3>3, OneMoves DEF Moves, Stages
    <2> QED
      BY <1>9, <2>2, <2>3, <2>4 DEF InvocationDies
  <1> QED
    BY <1>3, <1>4, <1>5, <1>6, <1>7, <1>8, <1>9 DEF DryRunNext

\* The inductive invariant of the dry run: the journal is in order under one
\* binding, and an invocation that decides has that binding.
THEOREM DryRunInvariant == DryRunSpec => []DryRunInv
  BY DryRunInitEstablishes, DryRunNextPreserves, PTL DEF DryRunSpec

\* Invocations that overlap, die, come with an old time or another schedule
\* leave a journal that decides every slot once, and as MISSING exactly when no
\* tick observed its tolerance.
THEOREM DryRunAccounted == DryRunSpec => []ScheduleIsAccounted
  <1>1. DryRunInv => ScheduleIsAccounted
    <2> SUFFICES ASSUME DryRunInv PROVE ScheduleIsAccounted
      OBVIOUS
    <2>1. JournalInOrder /\ (ticks # <<>> => binding \in Nat)
      BY DryRunAssumption DEF DryRunInv, JournalInOrder
    <2> QED
      BY <2>1, OrderAccounts
  <1> QED
    BY <1>1, DryRunInvariant, PTL

\* An invocation writes one record at most: there are no more of them than
\* invocations that have decided.
StillToDecide == {c \in Invocations : calls[c].pc \in {"idle", "starting", "binding", "deciding"}}
RecordsCounted ==
  /\ clock \in 0 .. ClockEnd /\ lock \in Invocations \union {Unlocked}
  /\ Len(ticks) + Cardinality(StillToDecide) <= Cardinality(Invocations)

\* No invocation becomes undecided, and a new record is of one that decided.
LEMMA DecisionsLeave ==
  ASSUME DryRunInv, [DryRunNext]_dryRunVars
  PROVE  /\ StillToDecide' \subseteq StillToDecide
         /\ \/ UNCHANGED ticks
            \/ \E c \in StillToDecide \ StillToDecide' : \E record : ticks' = Append(ticks, record)
<1>1. calls \in [Invocations -> [pc : Stages, start : Nat, now : Nat]]
  BY DEF DryRunInv
<1>2. ASSUME NEW c \in Invocations, NEW pc \in Stages, Moves(c, pc)
      PROVE  calls'[c].pc = pc /\ \A d \in Invocations \ {c} : calls'[d] = calls[d]
  BY <1>1, <1>2, OneMoves DEF Moves, DryRunInv
<1>3. ASSUME NEW c \in Invocations, NEW pc \in {"binding", "deciding"}, Moves(c, pc), c \in StillToDecide
      PROVE  StillToDecide' \subseteq StillToDecide
  BY <1>2, <1>3 DEF StillToDecide, Stages
<1>4. ASSUME NEW c \in Invocations, NEW pc \in {"completed", "returned", "threw", "died"}, Moves(c, pc)
      PROVE  StillToDecide' \subseteq StillToDecide \ {c}
  BY <1>2, <1>4 DEF StillToDecide, Stages
<1>5. CASE OperatorUnlocks \/ ClockTicks \/ UNCHANGED dryRunVars
  BY <1>5 DEF OperatorUnlocks, ClockTicks, dryRunVars, StillToDecide
<1>6. ASSUME NEW c \in Invocations, TickInvoked(c) PROVE StillToDecide' \subseteq StillToDecide /\ UNCHANGED ticks
  <2>1. calls[c].pc = "idle" /\ UNCHANGED ticks /\ \A d \in Invocations \ {c} : calls'[d] = calls[d]
    BY <1>1, <1>6 DEF TickInvoked
  <2> QED BY <2>1 DEF StillToDecide
<1>7. ASSUME NEW c \in Invocations, TakeLock(c) \/ BindSchedule(c) \/ Unlock(c)
      PROVE  StillToDecide' \subseteq StillToDecide /\ UNCHANGED ticks
  <2>1. /\ UNCHANGED ticks
        /\ \/ c \in StillToDecide /\ (Moves(c, "binding") \/ Moves(c, "deciding"))
           \/ Moves(c, "threw") \/ Moves(c, "returned")
    BY <1>7 DEF TakeLock, BindSchedule, Unlock, StillToDecide
  <2> QED BY <1>3, <1>4, <2>1
<1>8. ASSUME NEW c \in Invocations, WriteTick(c) \/ InvocationDies(c)
      PROVE  /\ StillToDecide' \subseteq StillToDecide \ {c}
             /\ \/ UNCHANGED ticks
                \/ c \in StillToDecide /\ \E record : ticks' = Append(ticks, record)
  <2>1. Moves(c, "completed") \/ Moves(c, "threw") \/ Moves(c, "died")
    BY <1>8 DEF WriteTick, InvocationDies
  <2>2. \/ UNCHANGED ticks
        \/ calls[c].pc = "deciding" /\ \E record : ticks' = Append(ticks, record)
    BY <1>8 DEF WriteTick, InvocationDies
  <2> QED BY <1>4, <2>1, <2>2 DEF StillToDecide
<1> QED BY <1>5, <1>6, <1>7, <1>8 DEF DryRunNext

LEMMA RecordsCountedKeeps ==
  ASSUME IsFiniteSet(Invocations), DryRunInv, RecordsCounted, [DryRunNext]_dryRunVars
  PROVE  RecordsCounted'
<1>1. clock' \in 0 .. ClockEnd /\ lock' \in Invocations \union {Unlocked}
  BY DryRunAssumption DEF RecordsCounted, DryRunNext, OperatorUnlocks, ClockTicks, TickInvoked, TakeLock,
     BindSchedule, WriteTick, Unlock, InvocationDies, dryRunVars
<1>2. StillToDecide \subseteq Invocations
  BY DEF StillToDecide
<1>3. IsFiniteSet(StillToDecide) /\ Cardinality(StillToDecide) \in Nat /\ Cardinality(Invocations) \in Nat
  BY <1>2, FS_Subset, FS_CardinalityType
<1>4. /\ IsFiniteSet(StillToDecide') /\ Cardinality(StillToDecide') \in Nat
      /\ Cardinality(StillToDecide') <= Cardinality(StillToDecide)
  BY <1>3, DecisionsLeave, FS_Subset, FS_CardinalityType
<1>5. Len(ticks) \in Nat /\ ticks \in Seq(WholeTick \cup {HalfTick})
  BY DEF DryRunInv, JournalInOrder
<1>6. CASE UNCHANGED ticks
  <2> DEFINE before == Cardinality(StillToDecide)  after == Cardinality(StillToDecide')
             all == Cardinality(Invocations)
  <2>1. before \in Nat /\ after \in Nat /\ all \in Nat /\ after <= before /\ Len(ticks) + before <= all
    BY <1>3, <1>4 DEF RecordsCounted
  <2> HIDE DEF before, after, all
  <2>2. Len(ticks) + after <= all
    BY <1>5, <2>1
  <2> QED BY <1>1, <1>6, <2>2 DEF RecordsCounted, after, all
<1>7. CASE \E c \in StillToDecide \ StillToDecide' : \E record : ticks' = Append(ticks, record)
  <2>1. PICK c \in StillToDecide \ StillToDecide' : \E record : ticks' = Append(ticks, record)
    BY <1>7
  <2>2. Len(ticks') = Len(ticks) + 1
    <3>1. JournalInOrder'
      BY DryRunNextPreserves DEF DryRunInv
    <3> QED BY <1>5, <2>1, <3>1 DEF JournalInOrder
  <2>3. /\ IsFiniteSet(StillToDecide \ {c}) /\ Cardinality(StillToDecide \ {c}) = Cardinality(StillToDecide) - 1
    BY <1>3, <2>1, FS_RemoveElement
  <2>4. StillToDecide' \subseteq StillToDecide \ {c}
    BY <2>1, DecisionsLeave
  <2>5. Cardinality(StillToDecide') <= Cardinality(StillToDecide) - 1
    BY <2>3, <2>4, FS_Subset
  <2> DEFINE before == Cardinality(StillToDecide)  after == Cardinality(StillToDecide')
             all == Cardinality(Invocations)
  <2>6. before \in Nat /\ after \in Nat /\ all \in Nat /\ after <= before - 1 /\ Len(ticks) + before <= all
    BY <1>3, <1>4, <2>5 DEF RecordsCounted
  <2> HIDE DEF before, after, all
  <2>7. Len(ticks') + after <= all
    BY <1>5, <2>2, <2>6
  <2> QED BY <1>1, <2>7 DEF RecordsCounted, after, all
<1> QED BY <1>6, <1>7, DecisionsLeave

\* Of finitely many invocations, each writes one record at most, and a record
\* decides slots of the schedule.
THEOREM DryRunTyped == ASSUME IsFiniteSet(Invocations) PROVE DryRunSpec => []DryRunTypeOK
<1>1. DryRunInit => RecordsCounted
  <2> SUFFICES ASSUME DryRunInit PROVE RecordsCounted
    OBVIOUS
  <2>1. StillToDecide = Invocations /\ Len(ticks) = 0
    BY DEF DryRunInit, StillToDecide
  <2>2. Cardinality(Invocations) \in Nat
    BY FS_CardinalityType
  <2> QED BY <2>1, <2>2, DryRunAssumption DEF DryRunInit, RecordsCounted
<1>2. DryRunInv /\ RecordsCounted => DryRunTypeOK
  <2>1. SUFFICES ASSUME DryRunInv, RecordsCounted PROVE DryRunTypeOK
    OBVIOUS
  <2>2. ASSUME NEW i \in WholeTicks PROVE DOMAIN ticks[i].decisions \subseteq DryRunSlots
    <3>1. ticks[i] \in WholeTick
      BY <2>1 DEF DryRunInv, JournalInOrder, WholeTicks, HalfTick
    <3>2. ticks[i].decisions \in Decisions
      BY <3>1 DEF WholeTick
    <3> QED BY <3>2 DEF Decisions
  <2>3. StillToDecide \subseteq Invocations
    BY DEF StillToDecide
  <2>4. Cardinality(StillToDecide) \in Nat /\ Cardinality(Invocations) \in Nat
    BY <2>3, FS_Subset, FS_CardinalityType
  <2>5. Len(ticks) \in Nat
    BY <2>1 DEF DryRunInv, JournalInOrder
  <2>6. Len(ticks) <= Cardinality(Invocations)
    BY <2>1, <2>4, <2>5 DEF RecordsCounted
  <2> QED BY <2>1, <2>2, <2>6 DEF DryRunTypeOK, DryRunInv, RecordsCounted
<1>3. DryRunInv /\ RecordsCounted /\ [DryRunNext]_dryRunVars => RecordsCounted'
  BY RecordsCountedKeeps
<1> QED BY <1>1, <1>2, <1>3, DryRunInvariant, PTL DEF DryRunSpec

----------------------------------------------------------------------------
(* The acceptance of an experiment plan.                                   *)

PollClaims == {"nothing", "seen", "final", "failed", "past"}
PollRecords == [at : 0 .. CampaignEnd, claims : PollClaims]
AssignedRecords == [at : 0 .. CampaignEnd]
ResultRecords == [at : 0 .. CampaignEnd, terminal : UnitTerminals]
DeliveryLogs == {<<>>, <<"ACCEPTED">>, <<"DUPLICATE">>}
CopyRecords == [files : SUBSET UnitFiles, polls : Seq(PollRecords),
                result : ResultRecords \union {NotYet}, receipts : DeliveryLogs]

\* A poll up to the i-th saw the transaction.
SeenUpTo(polls, i) == \E j \in 1 .. i : polls[j].claims \in Sightings

\* What the rules make of the i-th poll, with the history up to it.
DecidedAt(polls, i) == QuorumDecision(polls[i].claims, SeenUpTo(polls, i))

\* One unit: its files agree with each other and with the ledger.
UnitStory(u) ==
  LET polls == rawPolls[u]
      n == Len(polls)
  IN  /\ assigned[u] = NotYet => polls = <<>> /\ results[u] = NotYet
      /\ assigned[u] # NotYet => assigned[u].at <= today
      /\ \A i \in 1 .. n : polls[i].at \in assigned[u].at .. today
      /\ \A i \in 1 .. n - 1 : DecidedAt(polls, i) = "undecided"
      /\ \A i \in 1 .. n :
           /\ polls[i].claims = "final" => landed[u] = "final"
           /\ polls[i].claims = "failed" => landed[u] = "failed"
           /\ polls[i].claims = "past" => landed[u] = "absent" /\ u \in overdue
      /\ results[u] # NotYet =>
           /\ n > 0 /\ results[u].at \in polls[n].at .. today
           /\ \A i \in 1 .. n : polls[i].at <= results[u].at
           /\ IF DecidedAt(polls, n) # "undecided"
              THEN results[u].terminal = DecidedAt(polls, n)
              ELSE results[u].terminal \in {"CONFIRMED", "OBSERVATION_INCONCLUSIVE"}
      /\ receipts[u] # <<>> => results[u] # NotYet

\* A copy of a raw log says what the log said then: it never takes a poll back.
EarlierLog(copy, polls) ==
  Len(copy) <= Len(polls) /\ \A i \in 1 .. Len(copy) : copy[i] = polls[i]

\* What is copied of a unit: a result is whole, a raw log may have gone on.
CopyStory(u) ==
  /\ "result" \in copies[u].files => results[u] # NotYet /\ copies[u].result = results[u]
  /\ EarlierLog(copies[u].polls, rawPolls[u])
  /\ copies[u].receipts # <<>> => copies[u].receipts = receipts[u]

\* Every copy of a bundle comes with its receipt.
BundleStory ==
  /\ assembled => PlanIsCovered /\ \A u \in PlannedUnits :
                    copies[u].receipts # <<>> /\ copies[u].receipts[1] = "ACCEPTED"
  /\ gate # "none" => assembled /\ (gate = "PASS" <=> Accepted)

CampaignTypes ==
  /\ today \in 0 .. CampaignEnd /\ overdue \in SUBSET PlannedUnits
  /\ dead \in SUBSET PlannedUnits
  /\ landed \in [PlannedUnits -> {"absent", "seen", "final", "failed"}]
  /\ assigned \in [PlannedUnits -> AssignedRecords \union {NotYet}]
  /\ rawPolls \in [PlannedUnits -> Seq(PollRecords)]
  /\ results \in [PlannedUnits -> ResultRecords \union {NotYet}]
  /\ receipts \in [PlannedUnits -> DeliveryLogs]
  /\ copies \in [PlannedUnits -> CopyRecords] /\ assembled \in BOOLEAN
  /\ gate \in {"none", "PASS", "REFUSED"}
  /\ campaignTroubles \in 0 .. CampaignTroubles

CampaignInv ==
  /\ CampaignTypes /\ BundleStory
  /\ \A u \in PlannedUnits : UnitStory(u) /\ CopyStory(u)

\* The rules, claim by claim.
LEMMA QuorumRules ==
  ASSUME NEW seen
  PROVE  /\ QuorumDecision("final", seen) = "FINALIZED"
         /\ QuorumDecision("failed", seen) = "OBSERVED_EXECUTION_FAILED"
         /\ ~seen => QuorumDecision("past", seen) = "EXPIRED"
         /\ seen => QuorumDecision("past", seen) = "undecided"
         /\ QuorumDecision("seen", seen) = "undecided"
         /\ QuorumDecision("nothing", seen) = "undecided"
BY Zenon DEF QuorumDecision

LEMMA QuorumRule ==
  ASSUME NEW claims, NEW seen
  PROVE  /\ claims = "final" => QuorumDecision(claims, seen) = "FINALIZED"
         /\ claims = "failed" => QuorumDecision(claims, seen) = "OBSERVED_EXECUTION_FAILED"
         /\ claims = "past" /\ ~seen => QuorumDecision(claims, seen) = "EXPIRED"
         /\ claims = "past" /\ seen => QuorumDecision(claims, seen) = "undecided"
         /\ claims \in {"seen", "nothing"} => QuorumDecision(claims, seen) = "undecided"
<1>1. claims = "final" => QuorumDecision(claims, seen) = "FINALIZED"
  BY QuorumRules, Zenon
<1>2. claims = "failed" => QuorumDecision(claims, seen) = "OBSERVED_EXECUTION_FAILED"
  BY QuorumRules, Zenon
<1>3. claims = "past" /\ ~seen => QuorumDecision(claims, seen) = "EXPIRED"
  <2>1. ~seen => QuorumDecision("past", seen) = "EXPIRED"
    BY QuorumRules, Zenon
  <2> QED BY <2>1, Zenon
<1>4. claims = "past" /\ seen => QuorumDecision(claims, seen) = "undecided"
  <2>1. seen => QuorumDecision("past", seen) = "undecided"
    BY QuorumRules, Zenon
  <2> QED BY <2>1, Zenon
<1>5. claims \in {"seen", "nothing"} => QuorumDecision(claims, seen) = "undecided"
  BY QuorumRules, Zenon
<1> QED BY <1>1, <1>2, <1>3, <1>4, <1>5, Zenon

LEMMA NotYetIsNoRecord ==
  NotYet \notin AssignedRecords /\ NotYet \notin ResultRecords
<1>1. DOMAIN NotYet = {"never"} BY DEF NotYet
<1>2. \A x \in AssignedRecords : "at" \in DOMAIN x BY DEF AssignedRecords
<1>3. \A x \in ResultRecords : "at" \in DOMAIN x BY DEF ResultRecords
<1> QED BY <1>1, <1>2, <1>3

LEMMA SeenInPrefix ==
  ASSUME NEW polls \in Seq(PollRecords), NEW i \in 1 .. Len(polls)
  PROVE  /\ SeenIn(SubSeq(polls, 1, i)) = SeenUpTo(polls, i)
         /\ SeenIn(polls) = SeenUpTo(polls, Len(polls))
<1>1. DOMAIN polls = 1 .. Len(polls) /\ Len(polls) \in Nat
  OBVIOUS
<1>2. /\ DOMAIN SubSeq(polls, 1, i) = 1 .. i
      /\ \A j \in 1 .. i : SubSeq(polls, 1, i)[j] = polls[j]
  BY <1>1
<1>3. /\ SeenIn(SubSeq(polls, 1, i)) <=> SeenUpTo(polls, i)
      /\ SeenIn(polls) <=> SeenUpTo(polls, Len(polls))
  BY <1>1, <1>2 DEF SeenIn, SeenUpTo
<1>4. /\ SeenIn(SubSeq(polls, 1, i)) \in BOOLEAN /\ SeenIn(polls) \in BOOLEAN
      /\ SeenUpTo(polls, i) \in BOOLEAN /\ SeenUpTo(polls, Len(polls)) \in BOOLEAN
  BY Zenon DEF SeenIn, SeenUpTo
<1> HIDE DEF SeenIn, SeenUpTo
<1> QED BY <1>3, <1>4

LEMMA PollTyped ==
  ASSUME NEW polls \in Seq(PollRecords), NEW i \in 1 .. Len(polls)
  PROVE  polls[i].at \in 0 .. CampaignEnd /\ polls[i].at \in Int /\ polls[i].claims \in PollClaims
<1>1. polls[i] \in PollRecords
  OBVIOUS
<1> QED BY <1>1, AcceptanceAssumption DEF PollRecords

LEMMA NothingIsEarlier ==
  /\ \A polls \in Seq(PollRecords) : EarlierLog(<<>>, polls) /\ EarlierLog(polls, polls)
  /\ \A u \in PlannedUnits :
       /\ NothingCopied[u].files = {} /\ NothingCopied[u].polls = <<>>
       /\ NothingCopied[u].receipts = <<>>
<1>1. \A u \in PlannedUnits : NothingCopied[u] =
        [files |-> {}, polls |-> <<>>, result |-> NotYet, receipts |-> <<>>]
  BY DEF NothingCopied
<1>2. \A polls \in Seq(PollRecords) : EarlierLog(<<>>, polls) /\ EarlierLog(polls, polls)
  BY DEF EarlierLog
<1> QED BY <1>1, <1>2

LEMMA CampaignStarts == CampaignInit => CampaignInv
<1> SUFFICES ASSUME CampaignInit PROVE CampaignInv
  OBVIOUS
<1> DEFINE first == [at |-> 0, claims |-> "final"]
<1>1. /\ <<first>> \in Seq(PollRecords) /\ <<>> \in Seq(PollRecords)
      /\ Len(<<first>>) = 1 /\ <<first>>[1] = first /\ Len(<<>>) = 0
  BY AcceptanceAssumption DEF PollRecords, PollClaims
<1>2. copies \in [PlannedUnits -> CopyRecords] /\ assembled = FALSE /\ gate = "none"
  BY <1>1 DEF CampaignInit, NothingCopied, CopyRecords, DeliveryLogs
<1>3. CampaignTypes
  <2>1. /\ [at |-> 0] \in AssignedRecords
        /\ [at |-> 0, terminal |-> "FINALIZED"] \in ResultRecords
    BY AcceptanceAssumption DEF AssignedRecords, ResultRecords, UnitTerminals
  <2>2. /\ landed \in [PlannedUnits -> {"absent", "seen", "final", "failed"}]
        /\ assigned \in [PlannedUnits -> AssignedRecords \union {NotYet}]
        /\ results \in [PlannedUnits -> ResultRecords \union {NotYet}]
        /\ receipts \in [PlannedUnits -> DeliveryLogs]
    BY <2>1 DEF CampaignInit, AtFirst, DeliveryLogs
  <2>3. rawPolls \in [PlannedUnits -> Seq(PollRecords)]
    BY <1>1 DEF CampaignInit, AtFirst
  <2>4. /\ today \in 0 .. CampaignEnd /\ campaignTroubles \in 0 .. CampaignTroubles
        /\ overdue \in SUBSET PlannedUnits /\ dead \in SUBSET PlannedUnits
    BY AcceptanceAssumption DEF CampaignInit
  <2> QED BY <1>2, <2>2, <2>3, <2>4 DEF CampaignTypes
<1>4. ASSUME NEW u \in PlannedUnits, u \in Finished PROVE UnitStory(u)
  <2>1. /\ assigned[u] = [at |-> 0] /\ rawPolls[u] = <<first>> /\ landed[u] = "final"
        /\ results[u] = [at |-> 0, terminal |-> "FINALIZED"] /\ today = 0
    BY <1>4 DEF CampaignInit, AtFirst
  <2>2. assigned[u] # NotYet /\ results[u] # NotYet
    BY <2>1, NotYetIsNoRecord, AcceptanceAssumption
    DEF AssignedRecords, ResultRecords, UnitTerminals
  <2>3. DecidedAt(<<first>>, 1) = "FINALIZED"
    BY <1>1, QuorumRules DEF DecidedAt
  <2>4. first.at = 0 /\ first.claims = "final"
    OBVIOUS
  <2> HIDE DEF first
  <2> QED BY <1>1, <2>1, <2>2, <2>3, <2>4 DEF UnitStory
<1>5. ASSUME NEW u \in PlannedUnits, u \notin Finished PROVE UnitStory(u)
  <2>1. /\ assigned[u] = NotYet /\ rawPolls[u] = <<>> /\ results[u] = NotYet /\ receipts[u] = <<>>
    BY <1>5 DEF CampaignInit, AtFirst
  <2> QED BY <2>1 DEF UnitStory
<1>6. ASSUME NEW u \in PlannedUnits PROVE CopyStory(u)
  <2>1. /\ copies[u].files = {} /\ copies[u].polls = <<>> /\ copies[u].receipts = <<>>
        /\ rawPolls[u] \in Seq(PollRecords)
    BY <1>3, NothingIsEarlier DEF CampaignInit, CampaignTypes
  <2>2. EarlierLog(copies[u].polls, rawPolls[u])
    BY <2>1, NothingIsEarlier
  <2> QED BY <2>1, <2>2 DEF CopyStory
<1> QED BY <1>2, <1>3, <1>4, <1>5, <1>6 DEF CampaignInv, BundleStory

\* The verdict is a function of the bundle and of the assignments.
LEMMA AcceptedStays ==
  ASSUME copies' = copies
  PROVE  /\ PlanIsCovered' <=> PlanIsCovered
         /\ (\A u \in PlannedUnits : assigned'[u] = assigned[u]) => (Accepted' <=> Accepted)
<1>1. PlanIsCovered' <=> PlanIsCovered
  BY DEF PlanIsCovered
<1>2. EveryUnitFinalized' <=> EveryUnitFinalized
  BY DEF EveryUnitFinalized
<1>3. ASSUME NEW u \in PlannedUnits, assigned'[u] = assigned[u]
      PROVE (InsideWindow(u)' <=> InsideWindow(u)) /\ (RecomputedFromPolls(u)' <=> RecomputedFromPolls(u))
  BY <1>3 DEF InsideWindow, RecomputedFromPolls
<1> QED BY <1>1, <1>2, <1>3 DEF Accepted

\* Nothing that is finished changes and no log shrinks, so the copies stay true.
LEMMA CopiesStay ==
  ASSUME CampaignInv, UNCHANGED bundleVars,
         \A u \in PlannedUnits :
           /\ assigned[u] # NotYet => assigned'[u] = assigned[u]
           /\ results[u] # NotYet => results'[u] = results[u]
           /\ EarlierLog(copies[u].polls, rawPolls[u]) => EarlierLog(copies[u].polls, rawPolls'[u])
           /\ receipts[u] # <<>> => receipts'[u] = receipts[u]
  PROVE  BundleStory' /\ \A u \in PlannedUnits : CopyStory(u)'
<1>1. copies' = copies /\ assembled' = assembled /\ gate' = gate
  BY DEF bundleVars
<1>2. ASSUME NEW u \in PlannedUnits PROVE CopyStory(u)'
  <2>1. CopyStory(u) /\ (receipts[u] = <<>> => copies[u].receipts = <<>>)
    BY DEF CampaignInv, CopyStory
  <2> QED BY <1>1, <2>1 DEF CopyStory
<1>3. assembled => \A u \in PlannedUnits : assigned'[u] = assigned[u]
  BY DEF CampaignInv, BundleStory, PlanIsCovered, UnitFiles, CopyStory, UnitStory
<1>4. BundleStory'
  BY <1>1, <1>3, AcceptedStays DEF CampaignInv, BundleStory
<1> QED BY <1>2, <1>4

\* What is not about a unit leaves its story, and so does the time.
LEMMA UnitKept ==
  ASSUME CampaignTypes, CampaignTypes', today' >= today, NEW u \in PlannedUnits, UnitStory(u),
         landed'[u] = landed[u], u \in overdue => u \in overdue',
         assigned'[u] = assigned[u], rawPolls'[u] = rawPolls[u],
         results'[u] = results[u], receipts'[u] = receipts[u]
  PROVE  UnitStory(u)'
<1>1. today \in Int /\ today' \in Int BY AcceptanceAssumption DEF CampaignTypes
<1>2. rawPolls[u] \in Seq(PollRecords) BY DEF CampaignTypes
<1>3. \A i \in 1 .. Len(rawPolls[u]) : rawPolls[u][i].at \in Int
  BY <1>2, PollTyped
<1>4. assigned[u] # NotYet => assigned[u].at \in Int
  BY AcceptanceAssumption DEF CampaignTypes, AssignedRecords
<1>5. results[u] # NotYet => results[u].at \in Int
  BY AcceptanceAssumption DEF CampaignTypes, ResultRecords
<1>6. assigned[u] = NotYet => rawPolls[u] = <<>> /\ results[u] = NotYet
  BY DEF UnitStory
<1>7. \A i \in 1 .. Len(rawPolls[u]) : assigned[u] # NotYet
  BY <1>6
<1>8. Len(rawPolls[u]) \in Nat BY <1>2
<1> QED BY <1>1, <1>3, <1>4, <1>5, <1>6, <1>7, <1>8 DEF UnitStory

\* The other units, when one of them moves.
LEMMA OtherUnits ==
  ASSUME CampaignInv, CampaignTypes', NEW u \in PlannedUnits, today' = today,
         \A v \in PlannedUnits \ {u} :
           /\ landed'[v] = landed[v] /\ (v \in overdue => v \in overdue')
           /\ assigned'[v] = assigned[v] /\ rawPolls'[v] = rawPolls[v]
           /\ results'[v] = results[v] /\ receipts'[v] = receipts[v],
         UnitStory(u)'
  PROVE  \A v \in PlannedUnits : UnitStory(v)'
<1>1. today \in Int BY AcceptanceAssumption DEF CampaignInv, CampaignTypes
<1> SUFFICES ASSUME NEW v \in PlannedUnits \ {u} PROVE UnitStory(v)'
  OBVIOUS
<1> QED BY <1>1, UnitKept DEF CampaignInv

LEMMA UnitAssignedKeeps ==
  ASSUME CampaignInv, NEW u \in PlannedUnits, UnitAssigned(u) PROVE CampaignInv'
<1> USE AcceptanceAssumption DEF UnitAssigned, bundleVars
<1>1. today \in 0 .. CampaignEnd /\ [at |-> today] \in AssignedRecords
  BY DEF CampaignInv, CampaignTypes, AssignedRecords
<1>2. CampaignTypes'
  BY <1>1 DEF CampaignInv, CampaignTypes
<1>3. \A v \in PlannedUnits :
        assigned'[v] = IF v = u THEN [at |-> today] ELSE assigned[v]
  BY DEF CampaignInv, CampaignTypes
<1>4. UnitStory(u)'
  <2>1. rawPolls[u] = <<>> /\ results[u] = NotYet /\ receipts[u] = <<>>
    BY DEF CampaignInv, UnitStory
  <2>2. assigned'[u].at = today
    BY <1>3
  <2> QED BY <1>1, <1>3, <2>1, <2>2, NotYetIsNoRecord DEF UnitStory
<1>5. \A v \in PlannedUnits : UnitStory(v)'
  BY <1>2, <1>3, <1>4, OtherUnits
<1> QED BY <1>2, <1>3, <1>5, CopiesStay DEF CampaignInv

LEMMA UnitPolledKeeps ==
  ASSUME CampaignInv, NEW u \in PlannedUnits, UnitPolled(u) PROVE CampaignInv'
<1> USE AcceptanceAssumption
<1> DEFINE polls == rawPolls[u]  n == Len(polls)
<1>1. PICK claims \in UnitClaims(u) :
        rawPolls' = [rawPolls EXCEPT ![u] = Append(@, [at |-> today, claims |-> claims])]
  BY DEF UnitPolled
<1> DEFINE poll == [at |-> today, claims |-> claims]
<1>2. /\ Working(u) /\ Undecided(u)
      /\ UNCHANGED <<today, landed, overdue, assigned, results, dead, receipts,
                     copies, assembled, gate, campaignTroubles>>
  BY DEF UnitPolled, bundleVars
<1>3. polls \in Seq(PollRecords) /\ n \in Nat /\ today \in 0 .. CampaignEnd
  BY DEF CampaignInv, CampaignTypes
<1>4. claims \in PollClaims /\ poll \in PollRecords
  BY <1>3 DEF UnitClaims, PollClaims, PollRecords
<1>5. Append(polls, poll) \in Seq(PollRecords)
  BY <1>3, <1>4
<1>6. CampaignTypes'
  BY <1>1, <1>2, <1>5 DEF CampaignInv, CampaignTypes
<1>7. /\ rawPolls'[u] = Append(polls, poll) /\ Len(rawPolls'[u]) = n + 1
      /\ \A i \in 1 .. n : rawPolls'[u][i] = polls[i]
      /\ rawPolls'[u][n + 1] = poll
      /\ \A v \in PlannedUnits \ {u} : rawPolls'[v] = rawPolls[v]
  BY <1>1, <1>3, <1>5 DEF CampaignInv, CampaignTypes
<1>8. UnitStory(u)'
  <2>1. /\ assigned[u] # NotYet /\ results[u] = NotYet /\ receipts[u] = <<>>
        /\ assigned[u].at <= today
        /\ \A i \in 1 .. n : polls[i].at \in assigned[u].at .. today
        /\ \A i \in 1 .. n - 1 : DecidedAt(polls, i) = "undecided"
        /\ \A i \in 1 .. n :
           /\ polls[i].claims = "final" => landed[u] = "final"
           /\ polls[i].claims = "failed" => landed[u] = "failed"
           /\ polls[i].claims = "past" => landed[u] = "absent" /\ u \in overdue
    BY <1>2 DEF CampaignInv, UnitStory, Working
  <2>2. ASSUME NEW i \in 1 .. n PROVE DecidedAt(rawPolls'[u], i) = DecidedAt(polls, i)
    <3>1. SeenUpTo(rawPolls'[u], i) = SeenUpTo(polls, i)
      BY <1>3, <1>7 DEF SeenUpTo
    <3>2. rawPolls'[u][i] = polls[i]
      BY <1>7
    <3> QED BY <3>1, <3>2, Zenon DEF DecidedAt
  <2>3. n > 0 => DecidedAt(polls, n) = "undecided"
    <3>1. n > 0 => SeenIn(polls) = SeenUpTo(polls, n)
      BY <1>3, SeenInPrefix
    <3>2. n > 0 => polls # <<>>
      OBVIOUS
    <3>3. polls # <<>> => QuorumDecision(polls[n].claims, SeenIn(polls)) = "undecided"
      BY <1>2 DEF Undecided
    <3> QED BY <3>1, <3>2, <3>3 DEF DecidedAt
  <2>4. \A i \in 1 .. n : DecidedAt(rawPolls'[u], i) = "undecided"
    BY <1>3, <2>1, <2>2, <2>3
  <2>5. /\ claims = "final" => landed[u] = "final"
        /\ claims = "failed" => landed[u] = "failed"
        /\ claims = "past" => landed[u] = "absent" /\ u \in overdue
    BY <1>1 DEF UnitClaims
  <2>6. poll.at = today /\ poll.claims = claims
    OBVIOUS
  <2>7. assigned[u].at \in Int
    BY <2>1 DEF CampaignInv, CampaignTypes, AssignedRecords
  <2> HIDE DEF poll, polls, n
  <2>8. \A i \in 1 .. Len(rawPolls'[u]) : i \in 1 .. n \/ i = n + 1
    BY <1>3, <1>7
  <2>9. \A i \in 1 .. Len(rawPolls'[u]) : rawPolls'[u][i].at \in assigned[u].at .. today
    BY <1>3, <1>7, <2>1, <2>6, <2>7, <2>8
  <2>10. \A i \in 1 .. Len(rawPolls'[u]) :
           /\ rawPolls'[u][i].claims = "final" => landed[u] = "final"
           /\ rawPolls'[u][i].claims = "failed" => landed[u] = "failed"
           /\ rawPolls'[u][i].claims = "past" => landed[u] = "absent" /\ u \in overdue
    BY <1>7, <2>1, <2>5, <2>6, <2>8
  <2>11. \A i \in 1 .. Len(rawPolls'[u]) - 1 : DecidedAt(rawPolls'[u], i) = "undecided"
    BY <1>3, <1>7, <2>4
  <2> QED BY <1>2, <2>1, <2>9, <2>10, <2>11 DEF UnitStory
<1>9. \A v \in PlannedUnits : UnitStory(v)'
  BY <1>2, <1>6, <1>7, <1>8, OtherUnits
<1>10. ASSUME NEW v \in PlannedUnits, EarlierLog(copies[v].polls, rawPolls[v])
       PROVE  EarlierLog(copies[v].polls, rawPolls'[v])
  <2>1. CASE v = u
    <3> DEFINE copy == copies[u].polls  m == Len(copy)
    <3>1. m \in Nat
      BY DEF CampaignInv, CampaignTypes, CopyRecords
    <3>2. m <= n /\ \A i \in 1 .. m : copy[i] = polls[i]
      BY <1>10, <2>1 DEF EarlierLog
    <3>3. Len(rawPolls'[u]) = n + 1 /\ \A i \in 1 .. n : rawPolls'[u][i] = polls[i]
      BY <1>7
    <3> HIDE DEF polls, n, copy, m
    <3>4. m <= n + 1 /\ \A i \in 1 .. m : copy[i] = rawPolls'[u][i]
      BY <1>3, <3>1, <3>2, <3>3
    <3> QED BY <2>1, <3>3, <3>4 DEF EarlierLog, copy, m
  <2>2. CASE v # u
    BY <1>7, <1>10, <2>2
  <2> QED BY <2>1, <2>2
<1> QED BY <1>2, <1>6, <1>9, <1>10, CopiesStay DEF CampaignInv, bundleVars

LEMMA UnitConcludedKeeps ==
  ASSUME CampaignInv, NEW u \in PlannedUnits, UnitConcluded(u) PROVE CampaignInv'
<1> USE AcceptanceAssumption
<1> DEFINE polls == rawPolls[u]  n == Len(polls)  decision == DecidedAt(polls, n)
<1>1. /\ Working(u) /\ polls # <<>>
      /\ UNCHANGED <<today, landed, overdue, assigned, rawPolls, dead, receipts,
                     copies, assembled, gate, campaignTroubles>>
  BY DEF UnitConcluded, bundleVars
<1>2. polls \in Seq(PollRecords) /\ n \in Nat /\ n > 0 /\ today \in 0 .. CampaignEnd
  BY <1>1 DEF CampaignInv, CampaignTypes
<1>3. QuorumDecision(polls[n].claims, SeenIn(polls)) = decision
  <2>1. SeenIn(polls) = SeenUpTo(polls, n)
    BY <1>2, SeenInPrefix
  <2> QED BY <2>1, Zenon DEF DecidedAt
<1>4. polls[n].claims \in PollClaims
  BY <1>2, PollTyped
<1>5. decision \in {"FINALIZED", "OBSERVED_EXECUTION_FAILED", "EXPIRED", "undecided"}
  BY <1>4, QuorumRules DEF DecidedAt, PollClaims
<1>6. PICK terminal \in IF decision # "undecided" THEN {decision}
                        ELSE IF polls[n].claims = "seen" THEN {"CONFIRMED", "OBSERVATION_INCONCLUSIVE"}
                        ELSE {"OBSERVATION_INCONCLUSIVE"} :
        results' = [results EXCEPT ![u] = [at |-> today, terminal |-> terminal]]
  BY <1>3, Zenon DEF UnitConcluded
<1>7. terminal \in UnitTerminals /\ [at |-> today, terminal |-> terminal] \in ResultRecords
  BY <1>2, <1>5 DEF UnitTerminals, ResultRecords
<1>8. CampaignTypes'
  BY <1>1, <1>6, <1>7 DEF CampaignInv, CampaignTypes
<1>9. \A v \in PlannedUnits :
        results'[v] = IF v = u THEN [at |-> today, terminal |-> terminal] ELSE results[v]
  BY <1>6 DEF CampaignInv, CampaignTypes
<1>10. results[u] = NotYet /\ assigned[u] # NotYet
  BY <1>1 DEF Working
<1>11. UnitStory(u)'
  <2>1. results'[u].at = today /\ results'[u].terminal = terminal
    BY <1>9
  <2>2. \A i \in 1 .. n : polls[i].at \in Int /\ polls[i].at <= today
    BY <1>2, <1>10, PollTyped DEF CampaignInv, UnitStory
  <2>3. IF decision # "undecided" THEN terminal = decision
        ELSE terminal \in {"CONFIRMED", "OBSERVATION_INCONCLUSIVE"}
    BY <1>6
  <2>4. today \in polls[n].at .. today
    BY <1>2, <2>2
  <2>5. UnitStory(u)
    BY DEF CampaignInv
  <2>6. results'[u] # NotYet
    BY <1>7, <1>9, NotYetIsNoRecord
  <2> HIDE DEF decision
  <2>7. /\ n > 0 /\ results'[u].at \in polls[n].at .. today
        /\ \A i \in 1 .. n : polls[i].at <= results'[u].at
        /\ IF decision # "undecided" THEN results'[u].terminal = decision
           ELSE results'[u].terminal \in {"CONFIRMED", "OBSERVATION_INCONCLUSIVE"}
    BY <1>2, <2>1, <2>2, <2>3, <2>4
  <2> USE DEF decision
  <2> QED BY <1>1, <1>10, <2>5, <2>6, <2>7 DEF UnitStory
<1>12. \A v \in PlannedUnits : UnitStory(v)'
  BY <1>1, <1>8, <1>9, <1>11, OtherUnits
<1>13. \A v \in PlannedUnits : results[v] # NotYet => results'[v] = results[v]
  BY <1>9, <1>10
<1> QED BY <1>1, <1>8, <1>12, <1>13, CopiesStay DEF CampaignInv, bundleVars

LEMMA WorkerLostKeeps ==
  ASSUME CampaignInv, NEW u \in PlannedUnits, WorkerLost(u) PROVE CampaignInv'
<1> USE AcceptanceAssumption DEF WorkerLost, bundleVars
<1>1. CampaignTypes'
  BY DEF CampaignInv, CampaignTypes, Trouble
<1>2. UnitStory(u)'
  BY DEF CampaignInv, UnitStory
<1>3. \A v \in PlannedUnits : UnitStory(v)'
  BY <1>1, <1>2, OtherUnits
<1> QED BY <1>1, <1>3, CopiesStay DEF CampaignInv

LEMMA UnitDeliveredKeeps ==
  ASSUME CampaignInv, NEW u \in PlannedUnits, UnitDelivered(u) PROVE CampaignInv'
<1> USE AcceptanceAssumption
<1>1. /\ results[u] # NotYet /\ receipts[u] = <<>>
      /\ UNCHANGED <<today, landed, overdue, assigned, rawPolls, results, dead,
                     copies, assembled, gate>>
      /\ campaignTroubles' \in 0 .. CampaignTroubles
  BY DEF UnitDelivered, CampaignInv, CampaignTypes, Trouble, bundleVars
<1>2. PICK line \in {<<"ACCEPTED">>, <<"DUPLICATE">>} : receipts' = [receipts EXCEPT ![u] = line]
  BY DEF UnitDelivered
<1>3. CampaignTypes'
  BY <1>1, <1>2 DEF CampaignInv, CampaignTypes, DeliveryLogs
<1>4. \A v \in PlannedUnits \ {u} : receipts'[v] = receipts[v]
  BY <1>2 DEF CampaignInv, CampaignTypes
<1>5. UnitStory(u)'
  BY <1>1 DEF CampaignInv, UnitStory
<1>6. \A v \in PlannedUnits : UnitStory(v)'
  BY <1>1, <1>3, <1>4, <1>5, OtherUnits
<1> QED BY <1>1, <1>3, <1>4, <1>6, CopiesStay DEF CampaignInv, bundleVars

LEMMA LedgerKeeps ==
  ASSUME CampaignInv, NEW u \in PlannedUnits, LedgerProceeds(u) PROVE CampaignInv'
<1> USE AcceptanceAssumption
<1>1. /\ Working(u)
      /\ UNCHANGED <<today, assigned, rawPolls, results, dead, receipts,
                     copies, assembled, gate>>
  BY DEF LedgerProceeds, bundleVars
<1>2. CampaignTypes'
  <2>1. /\ landed' \in [PlannedUnits -> {"absent", "seen", "final", "failed"}]
        /\ overdue' \in SUBSET PlannedUnits
    BY DEF CampaignInv, CampaignTypes, LedgerProceeds
  <2>2. campaignTroubles' \in 0 .. CampaignTroubles
    BY DEF CampaignInv, CampaignTypes, LedgerProceeds, Trouble
  <2> QED BY <1>1, <2>1, <2>2 DEF CampaignInv, CampaignTypes
<1>3. /\ \A v \in PlannedUnits \ {u} : landed'[v] = landed[v]
      /\ overdue \subseteq overdue'
      /\ landed[u] \in {"final", "failed"} => landed'[u] = landed[u]
      /\ landed[u] = "absent" /\ u \in overdue => landed'[u] = "absent"
  BY DEF CampaignInv, CampaignTypes, LedgerProceeds
<1>4. UnitStory(u)'
  BY <1>1, <1>3 DEF CampaignInv, UnitStory
<1>5. \A v \in PlannedUnits : UnitStory(v)'
  BY <1>1, <1>2, <1>3, <1>4, OtherUnits
<1> QED BY <1>1, <1>2, <1>5, CopiesStay DEF CampaignInv, bundleVars

LEMMA TickKeeps == ASSUME CampaignInv, CampaignTick PROVE CampaignInv'
<1> USE AcceptanceAssumption DEF CampaignTick, bundleVars
<1>1. CampaignTypes' /\ today' >= today
  BY DEF CampaignInv, CampaignTypes
<1>2. \A v \in PlannedUnits : UnitStory(v)'
  BY <1>1, UnitKept DEF CampaignInv
<1> QED BY <1>1, <1>2, CopiesStay DEF CampaignInv

\* The copies and the verdict change no unit.
LEMMA UnitsUnchanged ==
  ASSUME CampaignInv, UNCHANGED unitVars, gate' \in {"none", "PASS", "REFUSED"},
         campaignTroubles' = campaignTroubles,
         copies' \in [PlannedUnits -> CopyRecords], assembled' \in BOOLEAN
  PROVE  CampaignTypes' /\ \A v \in PlannedUnits : UnitStory(v)'
<1>1. CampaignTypes' /\ today' >= today
  BY AcceptanceAssumption DEF CampaignInv, CampaignTypes, unitVars
<1> QED BY <1>1, UnitKept DEF CampaignInv, unitVars

LEMMA FileCopiedKeeps ==
  ASSUME CampaignInv, NEW u \in PlannedUnits, NEW file \in UnitFiles, FileCopied(u, file)
  PROVE  CampaignInv'
<1> DEFINE copy == [files    |-> copies[u].files \union {file},
                    polls    |-> IF file = "raw" THEN rawPolls[u] ELSE copies[u].polls,
                    result   |-> IF file = "result" THEN results[u] ELSE copies[u].result,
                    receipts |-> IF file = "delivery" THEN receipts[u] ELSE copies[u].receipts]
<1>1. copies[u] \in CopyRecords /\ copies \in [PlannedUnits -> CopyRecords]
  BY DEF CampaignInv, CampaignTypes
<1>2. copy \in CopyRecords
  BY <1>1 DEF CampaignInv, CampaignTypes, CopyRecords
<1>3. copies' = [copies EXCEPT ![u] = copy]
  BY Zenon DEF FileCopied
<1>4. /\ ~assembled /\ (file = "result" => results[u] # NotYet)
      /\ UNCHANGED <<assembled, gate, campaignTroubles, rawPolls, results, receipts>>
      /\ UNCHANGED unitVars
  BY DEF FileCopied, unitVars
<1>5. /\ copies' \in [PlannedUnits -> CopyRecords] /\ copies'[u] = copy
      /\ \A v \in PlannedUnits \ {u} : copies'[v] = copies[v]
  <2> HIDE DEF copy
  <2> QED BY <1>1, <1>2, <1>3
<1>6. CampaignTypes' /\ \A v \in PlannedUnits : UnitStory(v)'
  BY <1>4, <1>5, UnitsUnchanged DEF CampaignInv, CampaignTypes
<1>7. CopyStory(u)'
  <2>1. CopyStory(u)
    BY DEF CampaignInv
  <2>2. /\ copy.files = copies[u].files \union {file}
        /\ copy.polls = IF file = "raw" THEN rawPolls[u] ELSE copies[u].polls
        /\ copy.result = IF file = "result" THEN results[u] ELSE copies[u].result
        /\ copy.receipts = IF file = "delivery" THEN receipts[u] ELSE copies[u].receipts
    OBVIOUS
  <2>3. EarlierLog(rawPolls[u], rawPolls[u])
    BY NothingIsEarlier DEF CampaignInv, CampaignTypes
  <2> HIDE DEF copy
  <2>4. EarlierLog(copy.polls, rawPolls[u])
    BY <2>1, <2>2, <2>3 DEF CopyStory
  <2>5. "result" \in copy.files => results[u] # NotYet /\ copy.result = results[u]
    BY <1>4, <2>1, <2>2 DEF CopyStory
  <2>6. copy.receipts # <<>> => copy.receipts = receipts[u]
    BY <2>1, <2>2 DEF CopyStory
  <2> QED BY <1>4, <1>5, <2>4, <2>5, <2>6 DEF CopyStory
<1>8. ASSUME NEW v \in PlannedUnits \ {u} PROVE CopyStory(v)'
  BY <1>4, <1>5 DEF CampaignInv, CopyStory
<1>9. BundleStory'
  BY <1>4 DEF CampaignInv, BundleStory
<1> QED BY <1>6, <1>7, <1>8, <1>9 DEF CampaignInv

LEMMA AssembledKeeps == ASSUME CampaignInv, Assembled PROVE CampaignInv'
<1>1. /\ ~assembled /\ PlanIsCovered /\ gate = "none" /\ gate' = "none"
      /\ UNCHANGED <<campaignTroubles, rawPolls, results, receipts>> /\ UNCHANGED unitVars
  BY DEF Assembled, CampaignInv, BundleStory, unitVars
<1> DEFINE Received == \A u \in PlannedUnits :
             copies[u].receipts # <<>> /\ copies[u].receipts[1] = "ACCEPTED"
<1>2. CASE Received
  <2>1. copies' = copies /\ assembled' = TRUE
    BY <1>2 DEF Assembled
  <2>2. CampaignTypes' /\ \A v \in PlannedUnits : UnitStory(v)'
    BY <1>1, <2>1, UnitsUnchanged DEF CampaignInv, CampaignTypes
  <2>3. BundleStory'
    BY <1>1, <1>2, <2>1, AcceptedStays DEF BundleStory
  <2>4. \A v \in PlannedUnits : CopyStory(v)'
    BY <1>1, <2>1 DEF CampaignInv, CopyStory
  <2> QED BY <2>2, <2>3, <2>4 DEF CampaignInv
<1>3. CASE ~Received
  <2>1. copies' = NothingCopied /\ assembled' = assembled
    BY <1>3 DEF Assembled
  <2>2. NothingCopied \in [PlannedUnits -> CopyRecords]
    <3>1. <<>> \in Seq(PollRecords)
      OBVIOUS
    <3> QED BY <3>1 DEF NothingCopied, CopyRecords, DeliveryLogs
  <2>3. CampaignTypes' /\ \A v \in PlannedUnits : UnitStory(v)'
    BY <1>1, <2>1, <2>2, UnitsUnchanged DEF CampaignInv, CampaignTypes
  <2>4. BundleStory'
    BY <1>1, <2>1 DEF BundleStory
  <2>5. ASSUME NEW v \in PlannedUnits PROVE CopyStory(v)'
    <3>1. /\ copies'[v].files = {} /\ copies'[v].polls = <<>> /\ copies'[v].receipts = <<>>
          /\ rawPolls'[v] \in Seq(PollRecords)
      BY <1>1, <2>1, NothingIsEarlier DEF CampaignInv, CampaignTypes
    <3>2. EarlierLog(copies'[v].polls, rawPolls'[v])
      BY <3>1, NothingIsEarlier
    <3> QED BY <3>1, <3>2 DEF CopyStory
  <2> QED BY <2>3, <2>4, <2>5 DEF CampaignInv
<1> QED BY <1>2, <1>3

LEMMA VerdictKeeps == ASSUME CampaignInv, VerdictGiven PROVE CampaignInv'
<1>1. /\ gate' = (IF Accepted THEN "PASS" ELSE "REFUSED") /\ assembled
      /\ UNCHANGED <<copies, assembled, campaignTroubles, assigned, rawPolls, results, receipts>>
      /\ UNCHANGED unitVars
  BY DEF VerdictGiven, unitVars
<1>2. CampaignTypes' /\ \A v \in PlannedUnits : UnitStory(v)'
  BY <1>1, UnitsUnchanged DEF CampaignInv, CampaignTypes
<1>3. BundleStory'
  BY <1>1, AcceptedStays DEF CampaignInv, BundleStory
<1>4. \A v \in PlannedUnits : CopyStory(v)'
  BY <1>1 DEF CampaignInv, CopyStory
<1> QED BY <1>2, <1>3, <1>4 DEF CampaignInv

LEMMA CampaignStep == CampaignInv /\ [CampaignNext]_campaignVars => CampaignInv'
<1> SUFFICES ASSUME CampaignInv, [CampaignNext]_campaignVars PROVE CampaignInv'
  OBVIOUS
<1>1. CASE UNCHANGED campaignVars
  <2>1. CampaignTypes' /\ \A v \in PlannedUnits : UnitStory(v)'
    BY <1>1, UnitsUnchanged DEF campaignVars, unitVars, CampaignInv, CampaignTypes
  <2> QED BY <1>1, <2>1, CopiesStay DEF campaignVars, bundleVars, CampaignInv
<1>2. CASE CampaignNext
  BY <1>2, TickKeeps, FileCopiedKeeps, AssembledKeeps, VerdictKeeps,
     UnitAssignedKeeps, UnitPolledKeeps, UnitConcludedKeeps, WorkerLostKeeps, UnitDeliveredKeeps,
     LedgerKeeps DEF CampaignNext
<1> QED BY <1>1, <1>2


\* The verdict is that of the files.
LEMMA PassedIsTrue == CampaignInv => PassIsTrue
<1> SUFFICES ASSUME CampaignInv, gate = "PASS", NEW u \in PlannedUnits
             PROVE  landed[u] = "final" /\ receipts[u] = <<"ACCEPTED">>
  BY DEF PassIsTrue
<1>1. assembled /\ Accepted
  BY DEF CampaignInv, BundleStory
<1>2. /\ copies[u].files = UnitFiles
      /\ copies[u].receipts # <<>> /\ copies[u].receipts[1] = "ACCEPTED"
      /\ copies[u].result.terminal = "FINALIZED"
  BY <1>1 DEF CampaignInv, BundleStory, PlanIsCovered, Accepted, EveryUnitFinalized
<1>3. /\ results[u] # NotYet /\ results[u].terminal = "FINALIZED"
      /\ copies[u].receipts = receipts[u]
  BY <1>2 DEF CampaignInv, CopyStory, UnitFiles
<1>4. receipts[u] = <<"ACCEPTED">>
  BY <1>2, <1>3 DEF CampaignInv, CampaignTypes, DeliveryLogs
<1> DEFINE polls == rawPolls[u]  n == Len(polls)
<1>5. polls \in Seq(PollRecords) /\ n \in 1 .. n
  BY <1>3 DEF CampaignInv, CampaignTypes, UnitStory
<1>6. DecidedAt(polls, n) = "FINALIZED"
  BY <1>3 DEF CampaignInv, UnitStory
<1>7. polls[n].claims \in PollClaims
  BY <1>5, PollTyped
<1>8. polls[n].claims = "final"
  BY <1>6, <1>7, QuorumRules DEF DecidedAt, PollClaims
<1> QED BY <1>4, <1>5, <1>8 DEF CampaignInv, UnitStory

\* A unit's whole log, judged poll by poll, gives what the worker gave.
LEMMA RecomputedAlone ==
  ASSUME CampaignInv, NEW u \in PlannedUnits, results[u] # NotYet,
         copies[u].result = results[u], copies[u].polls = rawPolls[u]
  PROVE  RecomputedFromPolls(u) <=>
           results[u].terminal \notin {"CONFIRMED", "OBSERVATION_INCONCLUSIVE"}
<1> DEFINE polls == rawPolls[u]  n == Len(polls)
           alone(i) == QuorumDecision(polls[i].claims, FALSE)
<1>1. polls \in Seq(PollRecords) /\ n \in Nat /\ n > 0 /\ polls # <<>> /\ DOMAIN polls = 1 .. n
  BY DEF CampaignInv, CampaignTypes, UnitStory
<1>2. /\ \A i \in 1 .. n - 1 : DecidedAt(polls, i) = "undecided"
      /\ \A i \in 1 .. n :
           /\ polls[i].claims = "final" => landed[u] = "final"
           /\ polls[i].claims = "failed" => landed[u] = "failed"
           /\ polls[i].claims = "past" => landed[u] = "absent" /\ u \in overdue
      /\ IF DecidedAt(polls, n) # "undecided"
         THEN results[u].terminal = DecidedAt(polls, n)
         ELSE results[u].terminal \in {"CONFIRMED", "OBSERVATION_INCONCLUSIVE"}
  BY DEF CampaignInv, UnitStory
<1>3. \A i \in 1 .. n : polls[i].claims \in PollClaims
  BY <1>1, PollTyped
<1>4. \A i \in 1 .. n : SeenIn(SubSeq(polls, 1, i)) = SeenUpTo(polls, i)
  BY <1>1, SeenInPrefix
<1>5. RecomputedFromPolls(u) <=>
        /\ \A i \in 1 .. n :
             /\ ~(alone(i) = "EXPIRED" /\ SeenUpTo(polls, i))
             /\ alone(i) # "undecided" => i = n
        /\ alone(n) # "undecided" /\ alone(n) = results[u].terminal
  <2> DEFINE Agrees(log, result) ==
        /\ log # <<>>
        /\ \A i \in DOMAIN log :
             /\ ~(QuorumDecision(log[i].claims, FALSE) = "EXPIRED" /\ SeenIn(SubSeq(log, 1, i)))
             /\ QuorumDecision(log[i].claims, FALSE) # "undecided" => i = Len(log)
        /\ QuorumDecision(log[Len(log)].claims, FALSE) # "undecided"
        /\ QuorumDecision(log[Len(log)].claims, FALSE) = result.terminal
  <2>1. RecomputedFromPolls(u) <=> Agrees(copies[u].polls, copies[u].result)
    BY Zenon DEF RecomputedFromPolls
  <2>2. Agrees(copies[u].polls, copies[u].result) <=> Agrees(polls, results[u])
    <3> HIDE DEF Agrees
    <3> QED OBVIOUS
  <2>3. Agrees(polls, results[u]) <=>
        /\ \A i \in 1 .. n :
             /\ ~(alone(i) = "EXPIRED" /\ SeenIn(SubSeq(polls, 1, i)))
             /\ alone(i) # "undecided" => i = n
        /\ alone(n) # "undecided" /\ alone(n) = results[u].terminal
    BY <1>1, Zenon
  <2> HIDE DEF alone, polls, n, Agrees
  <2> QED BY <1>4, <2>1, <2>2, <2>3
<1>6. \A i \in 1 .. n :
        /\ polls[i].claims = "final" => alone(i) = "FINALIZED" /\ DecidedAt(polls, i) = "FINALIZED"
        /\ polls[i].claims = "failed" => /\ alone(i) = "OBSERVED_EXECUTION_FAILED"
                                         /\ DecidedAt(polls, i) = "OBSERVED_EXECUTION_FAILED"
        /\ polls[i].claims = "past" => /\ alone(i) = "EXPIRED"
                                       /\ ~SeenUpTo(polls, i) => DecidedAt(polls, i) = "EXPIRED"
                                       /\ SeenUpTo(polls, i) => DecidedAt(polls, i) = "undecided"
        /\ polls[i].claims \in {"seen", "nothing"} =>
             alone(i) = "undecided" /\ DecidedAt(polls, i) = "undecided"
  BY QuorumRule, Zenon DEF DecidedAt
<1> HIDE DEF alone, polls, n
<1>7. \A i \in 1 .. n : DecidedAt(polls, i) = "undecided" \/ DecidedAt(polls, i) = alone(i)
  BY <1>3, <1>6 DEF PollClaims
<1>8. \A i \in 1 .. n : /\ DecidedAt(polls, i) # "undecided" => alone(i) = DecidedAt(polls, i)
                        /\ alone(i) # "undecided" /\ DecidedAt(polls, i) = "undecided" =>
                              alone(i) = "EXPIRED" /\ SeenUpTo(polls, i)
  BY <1>3, <1>6 DEF PollClaims
<1>9. n \in 1 .. n
  BY <1>1
<1>10. ASSUME RecomputedFromPolls(u)
       PROVE  results[u].terminal \notin {"CONFIRMED", "OBSERVATION_INCONCLUSIVE"}
  BY <1>3, <1>5, <1>6, <1>9, <1>10 DEF PollClaims
<1>11. ASSUME results[u].terminal \notin {"CONFIRMED", "OBSERVATION_INCONCLUSIVE"}
       PROVE  RecomputedFromPolls(u)
  <2>1. DecidedAt(polls, n) # "undecided" /\ results[u].terminal = DecidedAt(polls, n)
    BY <1>2, <1>11
  <2>2. alone(n) = DecidedAt(polls, n) /\ ~(alone(n) = "EXPIRED" /\ SeenUpTo(polls, n))
    BY <1>3, <1>6, <1>9, <2>1 DEF PollClaims
  <2>3. ASSUME NEW i \in 1 .. n - 1 PROVE alone(i) = "undecided"
    <3>1. i \in 1 .. n /\ DecidedAt(polls, i) = "undecided"
      BY <1>1, <1>2
    <3>2. SUFFICES ASSUME alone(i) # "undecided" PROVE FALSE
      OBVIOUS
    <3>3. polls[i].claims = "past" /\ SeenUpTo(polls, i)
      BY <1>3, <1>6, <3>1, <3>2 DEF PollClaims
    <3>4. landed[u] = "absent"
      BY <1>2, <3>1, <3>3
    <3>5. polls[n].claims = "past" /\ ~SeenUpTo(polls, n)
      BY <1>2, <1>3, <1>6, <1>9, <2>1, <3>4 DEF PollClaims
    <3> QED BY <1>1, <3>1, <3>3, <3>5 DEF SeenUpTo
  <2>4. \A i \in 1 .. n : i \in 1 .. n - 1 \/ i = n
    BY <1>1
  <2> QED BY <1>5, <2>1, <2>2, <2>3, <2>4
<1> QED BY <1>10, <1>11

\* A log that was copied before its worker was done ends with no decision, or
\* with a negative after a sighting.
LEMMA RecomputedPart ==
  ASSUME CampaignInv, NEW u \in PlannedUnits, results[u] # NotYet,
         copies[u].polls # rawPolls[u]
  PROVE  ~RecomputedFromPolls(u)
<1> DEFINE polls == rawPolls[u]  n == Len(polls)
           copy == copies[u].polls  m == Len(copy)
<1>1. polls \in Seq(PollRecords) /\ copy \in Seq(PollRecords) /\ EarlierLog(copy, polls)
  BY DEF CampaignInv, CampaignTypes, CopyRecords, CopyStory
<1>2. m \in Nat /\ n \in Nat /\ m <= n /\ \A i \in 1 .. m : copy[i] = polls[i]
  BY <1>1 DEF EarlierLog
<1>3. m < n
  BY <1>1, <1>2, SeqEqual
<1> SUFFICES ASSUME RecomputedFromPolls(u) PROVE FALSE
  OBVIOUS
<1>4. /\ copy # <<>> /\ QuorumDecision(copy[m].claims, FALSE) # "undecided"
      /\ \A i \in DOMAIN copy :
           ~(QuorumDecision(copy[i].claims, FALSE) = "EXPIRED" /\ SeenIn(SubSeq(copy, 1, i)))
  BY Zenon DEF RecomputedFromPolls
<1>5. m \in 1 .. m /\ m \in 1 .. n - 1 /\ m \in DOMAIN copy
  BY <1>1, <1>2, <1>3, <1>4
<1>6. copy[m] = polls[m] /\ DecidedAt(polls, m) = "undecided" /\ copy[m].claims \in PollClaims
  BY <1>1, <1>2, <1>5, PollTyped DEF CampaignInv, UnitStory
<1>7. SeenIn(SubSeq(copy, 1, m)) = SeenUpTo(copy, m)
  BY <1>1, <1>5, SeenInPrefix
<1>8. SeenUpTo(copy, m) <=> SeenUpTo(polls, m)
  BY <1>2 DEF SeenUpTo
<1> HIDE DEF polls, copy, m, n
<1>9. QuorumDecision(copy[m].claims, SeenUpTo(polls, m)) = "undecided"
  BY <1>6 DEF DecidedAt
<1>10. copy[m].claims = "past" /\ SeenUpTo(polls, m)
  <2>1. copy[m].claims \notin {"seen", "nothing"}
    BY <1>4, QuorumRule, Zenon
  <2>2. copy[m].claims \notin {"final", "failed"}
    BY <1>9, QuorumRule
  <2>3. copy[m].claims = "past"
    BY <1>6, <2>1, <2>2 DEF PollClaims
  <2>4. ~SeenUpTo(polls, m) => QuorumDecision(copy[m].claims, SeenUpTo(polls, m)) = "EXPIRED"
    BY <2>3, QuorumRule, Zenon
  <2> QED BY <1>9, <2>3, <2>4
<1>11. QuorumDecision(copy[m].claims, FALSE) = "EXPIRED"
  BY <1>10, QuorumRule, Zenon
<1> QED BY <1>4, <1>5, <1>7, <1>8, <1>10, <1>11

LEMMA RecomputedAgrees == CampaignInv => RecomputationAgrees
<1> SUFFICES ASSUME CampaignInv, NEW u \in PlannedUnits, {"raw", "result"} \subseteq copies[u].files
             PROVE  RecomputedFromPolls(u) <=>
                      /\ copies[u].polls = rawPolls[u]
                      /\ copies[u].result.terminal \notin {"CONFIRMED", "OBSERVATION_INCONCLUSIVE"}
  BY DEF RecomputationAgrees
<1>1. results[u] # NotYet /\ copies[u].result = results[u]
  BY DEF CampaignInv, CopyStory
<1>2. CASE copies[u].polls = rawPolls[u]
  BY <1>1, <1>2, RecomputedAlone
<1>3. CASE copies[u].polls # rawPolls[u]
  BY <1>1, <1>3, RecomputedPart
<1> QED BY <1>2, <1>3

LEMMA RefusedForACause == CampaignInv => RefusalHasItsCause
<1> SUFFICES ASSUME CampaignInv, gate = "REFUSED",
                    \A u \in PlannedUnits : /\ results[u].terminal = "FINALIZED"
                                            /\ ~(results[u].at > assigned[u].at + AssignmentLifetime)
                                            /\ copies[u].polls = rawPolls[u]
             PROVE  FALSE
  BY DEF RefusalHasItsCause
<1>1. ~Accepted /\ PlanIsCovered
  BY DEF CampaignInv, BundleStory
<1>2. ASSUME NEW u \in PlannedUnits
      PROVE  /\ copies[u].result.terminal = "FINALIZED"
             /\ InsideWindow(u) /\ RecomputedFromPolls(u)
  <2>1. /\ results[u] # NotYet /\ copies[u].result = results[u] /\ copies[u].polls = rawPolls[u]
        /\ assigned[u] # NotYet
    BY <1>1 DEF CampaignInv, CopyStory, UnitStory, PlanIsCovered, UnitFiles
  <2>2. RecomputedFromPolls(u)
    BY <2>1, RecomputedAlone
  <2>3. /\ assigned[u].at \in Int /\ results[u].at \in Int /\ AssignmentLifetime \in Nat
        /\ today \in Int
    BY <2>1, AcceptanceAssumption DEF CampaignInv, CampaignTypes, AssignedRecords, ResultRecords,
       ValidAssignment
  <2> DEFINE polls == rawPolls[u]  n == Len(polls)
  <2>4. polls \in Seq(PollRecords) /\ DOMAIN polls = 1 .. n /\ n \in Nat /\ n > 0
    BY <2>1 DEF CampaignInv, CampaignTypes, UnitStory
  <2>5. \A i \in 1 .. n : polls[i].at \in Int
    BY <2>4, PollTyped
  <2>6. \A i \in 1 .. n : assigned[u].at <= polls[i].at /\ polls[i].at <= results[u].at
    BY <2>1, <2>3, <2>5 DEF CampaignInv, UnitStory
  <2>7. assigned[u].at <= results[u].at /\ results[u].at <= assigned[u].at + AssignmentLifetime
    <3>1. 1 \in 1 .. n
      BY <2>4
    <3> QED BY <2>3, <2>5, <2>6, <3>1
  <2>8. InsideWindow(u)
    <3> HIDE DEF polls, n
    <3>1. \A i \in DOMAIN polls :
            polls[i].at \in assigned[u].at .. (assigned[u].at + AssignmentLifetime)
      BY <2>3, <2>4, <2>5, <2>6, <2>7
    <3> USE DEF polls
    <3> QED BY <2>1, <2>3, <2>7, <3>1 DEF InsideWindow
  <2> QED BY <2>1, <2>2, <2>8
<1> QED BY <1>1, <1>2 DEF Accepted, EveryUnitFinalized

LEMMA CampaignInvTyped == CampaignInv => CampaignTypeOK
<1> SUFFICES ASSUME CampaignInv PROVE CampaignTypeOK
  OBVIOUS
<1>1. \A u \in PlannedUnits : results[u] # NotYet =>
        results[u].terminal \in UnitTerminals /\ results[u].at \in 0 .. CampaignEnd
  BY DEF CampaignInv, CampaignTypes, ResultRecords
<1>2. \A u \in PlannedUnits : copies[u].files \subseteq UnitFiles
  BY DEF CampaignInv, CampaignTypes, CopyRecords
<1> QED BY <1>1, <1>2 DEF CampaignInv, CampaignTypes, CampaignTypeOK

\* The variables of a campaign keep their types.
THEOREM CampaignTyped == CampaignSpec => []CampaignTypeOK
<1>1. CampaignSpec => []CampaignInv
  BY CampaignStarts, CampaignStep, PTL DEF CampaignSpec
<1> QED BY <1>1, CampaignInvTyped, PTL

\* What a plan passes with is true of the ledger and of the Collector; what the
\* acceptance recomputes from a raw log agrees with the result the worker wrote
\* exactly when the log is whole and a quorum ended it, in whatever order the
\* files were copied and wherever the worker was; and a bundle is refused only
\* for a unit that did not end FINALIZED, was observed past its assignment's
\* lifetime, or whose raw log was copied before its worker was done.
THEOREM AcceptanceEarned == CampaignSpec => []AcceptanceIsEarned
<1>1. CampaignSpec => []CampaignInv
  BY CampaignStarts, CampaignStep, PTL DEF CampaignSpec
<1>2. CampaignInv => AcceptanceIsEarned
  BY PassedIsTrue, RecomputedAgrees, RefusedForACause DEF AcceptanceIsEarned
<1> QED BY <1>1, <1>2, PTL

----------------------------------------------------------------------------
(* The canary soaks.                                                       *)

Samples == [at : Nat, elapsed : 0..SoakEnd, ready : BOOLEAN, stranger : BOOLEAN,
            count : Nat \union {NoCount}]

SoakTypes ==
  /\ subject \in {"observer", "collector"} /\ service \in {"ready", "down", "other"}
  /\ stored \in Nat /\ soakClock \in 0..SoakEnd /\ soakWall \in Nat
  /\ soakPhase \in {"capture", "request", "write", "delay", "evaluate", "closed"}
  /\ soakStop \in BOOLEAN /\ asked \in [since : Nat, at : Nat] /\ wakeAt \in Nat
  /\ soakLog \in Seq(Samples)
  /\ soakVerdict \in {"none", "unjudged", "admitted", "rejected"}
  /\ downTicks \in SUBSET (0..SoakEnd) /\ soakTroubles \in Nat

\* A sample that was ready ends every outage of that instant.
OutageStory ==
  /\ \A t \in downTicks : t < soakClock
  /\ service = "ready" => soakClock - 1 \notin downTicks
  /\ \A i \in 1..Len(soakLog) :
       /\ soakLog[i].elapsed <= soakClock
       /\ soakLog[i].ready => soakLog[i].elapsed - 1 \notin downTicks
  /\ soakPhase \in {"write", "delay", "evaluate", "closed"} => soakLog # <<>>

\* As long as nobody stopped the run or set the wall clock back, the times of
\* the samples increase, and the next sample is later still.
SpacingStory ==
  /\ soakWall <= soakClock + 1
  /\ ~soakStop /\ soakWall = soakClock + 1 =>
       /\ \A i \in 1..Len(soakLog) : soakLog[i].at <= soakLog[i].elapsed + 1
       /\ Judgeable(soakLog)
       /\ soakPhase = "capture" /\ soakLog # <<>> => Last(soakLog).elapsed < soakClock
       /\ soakPhase = "request" =>
            /\ asked.at = asked.since + 1 /\ asked.since <= soakClock
            /\ soakLog # <<>> => Last(soakLog).elapsed < asked.since
       /\ soakPhase = "delay" => Last(soakLog).elapsed < wakeAt

VerdictStory ==
  /\ soakVerdict # "none" => soakPhase = "closed"
  /\ soakVerdict = "unjudged" => ~Judgeable(soakLog)
  /\ soakVerdict = "admitted" => Judgeable(soakLog) /\ Blockers(soakLog) = {}

SoakInv == SoakTypes /\ OutageStory /\ SpacingStory /\ VerdictStory

----------------------------------------------------------------------------
LEMMA SoakNumbers ==
  /\ SoakInterval \in Nat \ {0} /\ SoakDuration \in Nat \ {0} /\ SoakTimeout \in Nat \ {0}
  /\ SoakEnd \in Nat \ {0} /\ SoakTroubles \in Nat /\ SoakDuration <= SoakEnd
  /\ MaxGap \in Nat /\ MaxGap > 0
BY SoakAssumption DEF MaxGap

LEMMA SamplesAre ==
  ASSUME NEW s \in Seq(Samples)
  PROVE  \A i \in 1..Len(s) : /\ s[i].at \in Nat /\ s[i].elapsed \in 0..SoakEnd
                              /\ s[i].ready \in BOOLEAN /\ s[i].stranger \in BOOLEAN
                              /\ s[i].count \in Nat \union {NoCount}
<1>1. \A i \in 1..Len(s) : s[i] \in Samples
  OBVIOUS
<1>2. \A x \in Samples : /\ x.at \in Nat /\ x.elapsed \in 0..SoakEnd
                         /\ x.ready \in BOOLEAN /\ x.stranger \in BOOLEAN
                         /\ x.count \in Nat \union {NoCount}
  BY DEF Samples
<1> QED BY <1>1, <1>2

\* What a run without blockers has shown.
LEMMA NothingBlocks ==
  ASSUME NEW s, Blockers(s) = {}
  PROVE  /\ ~(Last(s).elapsed < SoakDuration)
         /\ ~\E i \in 1..Len(s) : s[i].stranger
         /\ ~\E i \in 1..Len(s) : Gap(s, i) > MaxGap
         /\ Regressions(s) = {}
<1> DEFINE expected == Last(s).elapsed \div SoakInterval + 1
           ready == Cardinality({i \in 1..Len(s) : s[i].ready})
           short == Last(s).elapsed < SoakDuration
           sparse == 100 * Len(s) < CoveragePercent * expected
           unready == 100 * ready < ReadyPercent * Len(s)
           strange == \E i \in 1..Len(s) : s[i].stranger
           wide == \E i \in 1..Len(s) : Gap(s, i) > MaxGap
           lossy == Regressions(s) # {}
           raised == [duration |-> short, coverage |-> sparse, readiness |-> unready,
                      identity |-> strange, gap |-> wide, storage |-> lossy]
<1>1. Blockers(s) = {b \in DOMAIN raised : raised[b]}
  BY Zenon DEF Blockers
<1> HIDE DEF short, sparse, unready, strange, wide, lossy
<1>2. /\ DOMAIN raised = {"duration", "coverage", "readiness", "identity", "gap", "storage"}
      /\ raised["duration"] = short /\ raised["identity"] = strange
      /\ raised["gap"] = wide /\ raised["storage"] = lossy
  OBVIOUS
<1>3. \A b \in DOMAIN raised : ~raised[b]
  BY <1>1
<1> HIDE DEF raised
<1>4. ~raised["duration"] /\ ~raised["identity"] /\ ~raised["gap"] /\ ~raised["storage"]
  BY <1>2, <1>3
<1>5. ~short /\ ~strange /\ ~wide /\ ~lossy
  BY <1>2, <1>4, Zenon
<1> QED BY <1>5, Zenon DEF short, strange, wide, lossy

\* Three intervals and a request without a ready sample show as a gap.
LEMMA OutageLeavesAGap ==
  ASSUME NEW s \in Seq(Samples), s # <<>>, NEW t \in Nat,
         NEW long \in Nat, long >= MaxGap,
         \A i \in 1..Len(s) : s[i].elapsed <= t \/ s[i].elapsed > t + long,
         Last(s).elapsed > t + long
  PROVE  \E i \in 1..Len(s) : Gap(s, i) > MaxGap
<1>1. /\ Len(s) \in Nat \ {0} /\ \A i \in 1..Len(s) : s[i].elapsed \in Nat
      /\ MaxGap \in Nat
  BY SamplesAre, SoakNumbers
<1> DEFINE after == {i \in 1..Len(s) : s[i].elapsed > t + long}
<1>2. after \in SUBSET Nat /\ after # {}
  BY <1>1 DEF Last
<1>3. PICK i \in after : \A j \in after : i <= j
  BY <1>2, LeastNatural
<1>4. CASE i = 1
  <2>1. Gap(s, i) = s[1].elapsed - 0
    BY <1>4 DEF Gap
  <2>2. s[1].elapsed > t + long
    BY <1>3, <1>4
  <2>3. Gap(s, i) > MaxGap
    BY <1>1, <2>1, <2>2
  <2> QED BY <1>3, <2>3
<1>5. CASE i # 1
  <2>1. i \in 1..Len(s) /\ i - 1 \in 1..Len(s) /\ i - 1 < i
    BY <1>1, <1>3, <1>5
  <2>2. i - 1 \notin after
    BY <1>3, <2>1
  <2>3. s[i - 1].elapsed <= t /\ s[i].elapsed > t + long
    BY <1>3, <2>1, <2>2
  <2>4. Gap(s, i) = s[i].elapsed - s[i - 1].elapsed
    BY <1>5 DEF Gap
  <2>5. Gap(s, i) > MaxGap
    BY <1>1, <2>1, <2>3, <2>4
  <2> QED BY <2>1, <2>5
<1> QED BY <1>4, <1>5

\* Where the count fell at all, it fell from one counted sample to the next.
LEMMA LossIsARegression ==
  ASSUME NEW s \in Seq(Samples), NEW i \in 1..Len(s), NEW j \in 1..Len(s), i < j,
         s[i].count # NoCount, s[j].count # NoCount, s[i].count > s[j].count
  PROVE  Regressions(s) # {}
<1>1. \A k \in 1..Len(s) : s[k].count \in Nat \union {NoCount}
  BY SamplesAre
<1>2. NoCount \in Int /\ Len(s) \in Nat
  BY DEF NoCount
<1> DEFINE falls(a, b) == /\ a < b /\ s[a].count # NoCount /\ s[b].count # NoCount
                          /\ s[a].count > s[b].count
           spans == {n \in Nat : \E a, b \in 1..Len(s) : falls(a, b) /\ n = b - a}
<1>3. spans \in SUBSET Nat /\ spans # {}
  <2>1. j - i \in Nat
    BY <1>2
  <2>2. falls(i, j)
    OBVIOUS
  <2> HIDE DEF falls
  <2> QED BY <2>1, <2>2
<1>4. PICK n \in spans : \A m \in spans : n <= m
  BY <1>3, LeastNatural
<1>5. PICK a \in 1..Len(s), b \in 1..Len(s) : falls(a, b) /\ n = b - a
  BY <1>4
<1>6. ASSUME NEW k \in (a + 1)..(b - 1) PROVE s[k].count = NoCount
  <2>1. SUFFICES ASSUME s[k].count # NoCount PROVE FALSE
    OBVIOUS
  <2>2. k \in 1..Len(s) /\ a < k /\ k < b
    BY <1>2
  <2>3. s[a].count \in Nat /\ s[b].count \in Nat /\ s[k].count \in Nat
    BY <1>1, <1>5, <2>1, <2>2
  <2>4. falls(a, k) \/ falls(k, b)
    BY <1>5, <2>1, <2>2, <2>3
  <2>5. k - a \in Nat /\ b - k \in Nat /\ k - a < b - a /\ b - k < b - a
    BY <2>2
  <2> HIDE DEF falls
  <2>6. k - a \in spans \/ b - k \in spans
    BY <2>2, <2>4, <2>5
  <2>7. ~(n <= k - a) /\ ~(n <= b - k)
    BY <1>5, <2>5
  <2> HIDE DEF spans
  <2> QED BY <1>4, <2>6, <2>7
<1>7. b \in 1..Len(s) /\ a \in 1..(b - 1)
  BY <1>2, <1>5
<1>8. b \in Regressions(s)
  BY <1>5, <1>6, <1>7 DEF Regressions
<1> QED BY <1>8

----------------------------------------------------------------------------
\* The steps.

LEMMA SoakStarts == ASSUME SoakInit PROVE SoakInv
<1>1. /\ soakLog = <<>> /\ Len(soakLog) = 0 /\ soakLog \in Seq(Samples) /\ 1..Len(soakLog) = {}
      /\ Judgeable(soakLog)
  BY DEF SoakInit, Judgeable
<1>2. NotAsked \in [since : Nat, at : Nat]
  BY DEF NotAsked
<1>3. SoakTypes
  <2>1. soakClock \in 0..SoakEnd /\ soakWall \in Nat /\ stored \in Nat /\ wakeAt \in Nat
    BY SoakNumbers DEF SoakInit
  <2>2. asked \in [since : Nat, at : Nat] /\ downTicks \in SUBSET (0..SoakEnd) /\ soakTroubles \in Nat
    BY <1>2 DEF SoakInit
  <2> QED BY <1>1, <2>1, <2>2 DEF SoakInit, SoakTypes
<1>4. OutageStory /\ SpacingStory
  BY <1>1 DEF SoakInit, OutageStory, SpacingStory
<1>5. VerdictStory
  BY DEF SoakInit, VerdictStory
<1> QED BY <1>3, <1>4, <1>5 DEF SoakInv

\* A sample is appended to the file.
LEMMA SampleKept ==
  ASSUME SoakInv, NEW answer \in {"ready", "down", "other", "lost", "aborted"}, NEW at \in Nat,
         Sampled(answer, at), soakPhase \in {"capture", "request"},
         answer = "ready" => service = "ready",
         ~soakStop => answer # "aborted" /\ soakPhase = "request" /\ at = asked.at
  PROVE  SoakInv'
<1> DEFINE sample == SampleOf(answer, at)
           n == Len(soakLog)
<1>1. /\ soakLog' = Append(soakLog, sample)
      /\ soakPhase' = "write" /\ asked' = NotAsked
      /\ UNCHANGED <<subject, service, stored, soakClock, soakWall, downTicks, soakTroubles>>
      /\ UNCHANGED <<soakStop, wakeAt, soakVerdict>>
  BY DEF Sampled, soakEnvironment
<1>2. SoakTypes /\ OutageStory /\ SpacingStory /\ VerdictStory /\ soakVerdict = "none"
  BY DEF SoakInv, VerdictStory, SoakTypes
<1>3. /\ sample \in Samples /\ sample.at = at /\ sample.elapsed = soakClock
      /\ sample.ready <=> answer = "ready"
  <2>1. (answer = "ready") \in BOOLEAN /\ (subject = "observer" /\ answer = "other") \in BOOLEAN
    OBVIOUS
  <2>2. (IF subject = "collector" /\ answer = "ready" THEN stored ELSE NoCount) \in Nat \union {NoCount}
    BY <1>2 DEF SoakTypes
  <2>3. soakClock \in 0..SoakEnd
    BY <1>2 DEF SoakTypes
  <2> QED BY <2>1, <2>2, <2>3 DEF SampleOf, Samples
<1> HIDE DEF sample
<1>4. /\ soakLog' \in Seq(Samples) /\ Len(soakLog') = n + 1 /\ n \in Nat
      /\ soakLog'[n + 1] = sample /\ \A i \in 1..n : soakLog'[i] = soakLog[i]
      /\ soakLog' # <<>>
  BY <1>1, <1>2, <1>3 DEF SoakTypes
<1>5. SoakTypes'
  <2>1. NotAsked \in [since : Nat, at : Nat]
    BY DEF NotAsked
  <2> QED BY <1>1, <1>2, <1>4, <2>1 DEF SoakTypes
<1>6. OutageStory'
  <2>1. ASSUME NEW i \in 1..(n + 1)
        PROVE  /\ soakLog'[i].elapsed <= soakClock
               /\ soakLog'[i].ready => soakLog'[i].elapsed - 1 \notin downTicks
    <3>1. CASE i = n + 1
      <4>1. soakLog'[i] = sample
        BY <1>4, <3>1
      <4> QED BY <1>2, <1>3, <4>1 DEF OutageStory, SoakTypes
    <3>2. CASE i \in 1..n
      BY <1>2, <1>4, <3>2 DEF OutageStory
    <3> QED BY <1>4, <3>1, <3>2
  <2> QED BY <1>1, <1>2, <1>4, <2>1 DEF OutageStory
<1>7. SpacingStory'
  <2>1. soakWall' <= soakClock' + 1
    BY <1>1, <1>2 DEF SpacingStory
  <2>2. ASSUME ~soakStop, soakWall = soakClock + 1
        PROVE  /\ \A i \in 1..(n + 1) : soakLog'[i].at <= soakLog'[i].elapsed + 1
               /\ Judgeable(soakLog')
    <3>1. /\ \A i \in 1..n : soakLog[i].at <= soakLog[i].elapsed + 1
          /\ Judgeable(soakLog)
          /\ at = asked.since + 1 /\ asked.since <= soakClock
          /\ soakLog # <<>> => Last(soakLog).elapsed < asked.since
      BY <1>2, <2>2 DEF SpacingStory
    <3>2. asked.since \in Nat /\ soakClock \in Nat
      BY <1>2, SoakNumbers DEF SoakTypes
    <3>3. ASSUME NEW i \in 1..(n + 1) PROVE soakLog'[i].at <= soakLog'[i].elapsed + 1
      <4>1. CASE i = n + 1
        BY <1>3, <1>4, <3>1, <3>2, <4>1
      <4>2. CASE i \in 1..n
        BY <1>4, <3>1, <4>2
      <4> QED BY <1>4, <4>1, <4>2
    <3>4. ASSUME NEW i \in 2..(n + 1)
          PROVE  soakLog'[i].at > soakLog'[i - 1].at /\ soakLog'[i].elapsed > soakLog'[i - 1].elapsed
      <4>1. CASE i = n + 1
        <5>1. n \in 1..n /\ i - 1 = n
          BY <1>4, <4>1
        <5>2. soakLog # <<>> /\ Last(soakLog) = soakLog[n]
          BY <1>2, <5>1 DEF Last, SoakTypes
        <5>3. soakLog[n].at \in Nat /\ soakLog[n].elapsed \in Nat
          BY <1>2, <5>1, SamplesAre, SoakNumbers DEF SoakTypes
        <5>4. soakLog[n].elapsed < asked.since /\ soakLog[n].at <= soakLog[n].elapsed + 1
          BY <3>1, <5>1, <5>2
        <5>5. at > soakLog[n].at /\ soakClock > soakLog[n].elapsed
          BY <3>1, <3>2, <5>3, <5>4
        <5>6. soakLog'[i - 1] = soakLog[n] /\ soakLog'[i] = sample
          BY <1>4, <4>1, <5>1
        <5> QED BY <1>3, <5>5, <5>6
      <4>2. CASE i \in 2..n
        <5>1. i - 1 \in 1..n /\ i \in 1..n
          BY <1>4, <4>2
        <5> QED BY <1>4, <3>1, <4>2, <5>1 DEF Judgeable
      <4> QED BY <1>4, <4>1, <4>2
    <3>5. Judgeable(soakLog')
      BY <1>4, <3>4 DEF Judgeable
    <3> QED BY <3>3, <3>5
  <2> QED BY <1>1, <1>4, <2>1, <2>2 DEF SpacingStory
<1>8. VerdictStory'
  BY <1>1, <1>2 DEF VerdictStory
<1> QED BY <1>5, <1>6, <1>7, <1>8 DEF SoakInv

LEMMA CaptureStartsKeeps == ASSUME SoakInv, CaptureStarts PROVE SoakInv'
<1>1. CASE soakStop /\ Sampled("aborted", soakWall)
  <2>1. soakWall \in Nat /\ soakPhase = "capture"
    BY DEF SoakInv, SoakTypes, CaptureStarts
  <2> QED BY <1>1, <2>1, SampleKept
<1>2. CASE ~soakStop
  <2>1. /\ soakPhase = "capture" /\ soakPhase' = "request"
        /\ asked' = [since |-> soakClock, at |-> soakWall]
        /\ UNCHANGED <<subject, service, stored, soakClock, soakWall, downTicks, soakTroubles>>
        /\ UNCHANGED <<soakStop, wakeAt, soakLog, soakVerdict>>
    BY <1>2 DEF CaptureStarts, soakEnvironment
  <2>2. soakClock \in Nat /\ soakWall \in Nat
    BY SoakNumbers DEF SoakInv, SoakTypes
  <2>3. asked' \in [since : Nat, at : Nat] /\ asked'.since = soakClock /\ asked'.at = soakWall
    BY <2>1, <2>2
  <2>4. SoakTypes'
    BY <2>1, <2>3 DEF SoakInv, SoakTypes
  <2>5. OutageStory' /\ VerdictStory'
    BY <2>1 DEF SoakInv, OutageStory, VerdictStory
  <2>6. SpacingStory'
    BY <2>1, <2>2, <2>3 DEF SoakInv, SpacingStory
  <2> QED BY <2>4, <2>5, <2>6 DEF SoakInv
<1> QED BY <1>1, <1>2 DEF CaptureStarts

LEMMA ServiceAnswersKeeps == ASSUME SoakInv, ServiceAnswers PROVE SoakInv'
<1>1. /\ soakPhase = "request" /\ Sampled(service, asked.at)
      /\ service \in {"ready", "down", "other"} /\ asked.at \in Nat
  BY DEF ServiceAnswers, SoakInv, SoakTypes
<1> QED BY <1>1, SampleKept

LEMMA RequestLostKeeps == ASSUME SoakInv, RequestLost PROVE SoakInv'
<1>1. soakPhase = "request" /\ Sampled("lost", asked.at) /\ asked.at \in Nat
  BY DEF RequestLost, SoakInv, SoakTypes
<1> QED BY <1>1, SampleKept

LEMMA RunnerContinuesKeeps == ASSUME SoakInv, RunnerContinues PROVE SoakInv'
<1>1. /\ soakPhase = "write"
      /\ \/ soakPhase' = "evaluate" /\ wakeAt' = wakeAt
         \/ /\ ~soakStop /\ ~(soakClock >= SoakDuration) /\ soakPhase' = "delay"
            /\ wakeAt' = IF soakClock + SoakInterval < SoakDuration
                         THEN soakClock + SoakInterval ELSE SoakDuration
      /\ UNCHANGED <<subject, service, stored, soakClock, soakWall, downTicks, soakTroubles>>
      /\ UNCHANGED <<soakStop, asked, soakLog, soakVerdict>>
  BY DEF RunnerContinues, soakEnvironment
<1>2. soakClock \in Nat /\ wakeAt \in Nat
  BY SoakNumbers DEF SoakInv, SoakTypes
<1>3. wakeAt' \in Nat /\ (soakPhase' = "delay" => wakeAt' > soakClock)
  BY <1>1, <1>2, SoakNumbers
<1>4. SoakTypes'
  BY <1>1, <1>3 DEF SoakInv, SoakTypes
<1>5. OutageStory' /\ VerdictStory'
  BY <1>1 DEF SoakInv, OutageStory, VerdictStory
<1>6. Last(soakLog).elapsed <= soakClock /\ Last(soakLog).elapsed \in Nat
  <2>1. soakLog # <<>> /\ soakLog \in Seq(Samples)
    BY <1>1 DEF SoakInv, SoakTypes, OutageStory
  <2>2. Len(soakLog) \in 1..Len(soakLog)
    BY <2>1
  <2> QED BY <2>1, <2>2, SamplesAre, SoakNumbers DEF Last, SoakInv, OutageStory
<1>7. SpacingStory'
  <2>1. soakPhase' = "delay" => Last(soakLog).elapsed < wakeAt'
    BY <1>2, <1>3, <1>6
  <2> QED BY <1>1, <2>1 DEF SoakInv, SpacingStory
<1> QED BY <1>4, <1>5, <1>7 DEF SoakInv

LEMMA DelayEndsKeeps == ASSUME SoakInv, DelayEnds PROVE SoakInv'
<1>1. /\ soakPhase = "delay" /\ (soakStop \/ soakClock >= wakeAt)
      /\ soakPhase' = "capture" /\ wakeAt' = 0
      /\ UNCHANGED <<subject, service, stored, soakClock, soakWall, downTicks, soakTroubles>>
      /\ UNCHANGED <<soakStop, asked, soakLog, soakVerdict>>
  BY DEF DelayEnds, soakEnvironment
<1>2. SoakTypes'
  BY <1>1 DEF SoakInv, SoakTypes
<1>3. OutageStory' /\ VerdictStory'
  BY <1>1 DEF SoakInv, OutageStory, VerdictStory
<1>4. SpacingStory'
  <2>1. soakClock \in Nat /\ wakeAt \in Nat
    BY SoakNumbers DEF SoakInv, SoakTypes
  <2>2. Last(soakLog).elapsed \in Nat
    <3>1. soakLog # <<>> /\ soakLog \in Seq(Samples)
      BY <1>1 DEF SoakInv, SoakTypes, OutageStory
    <3>2. Len(soakLog) \in 1..Len(soakLog)
      BY <3>1
    <3> QED BY <3>1, <3>2, SamplesAre, SoakNumbers DEF Last
  <2>3. ~soakStop /\ Last(soakLog).elapsed < wakeAt => Last(soakLog).elapsed < soakClock
    BY <1>1, <2>1, <2>2
  <2> QED BY <1>1, <2>3 DEF SoakInv, SpacingStory
<1> QED BY <1>2, <1>3, <1>4 DEF SoakInv

LEMMA SoakEvaluatedKeeps == ASSUME SoakInv, SoakEvaluated PROVE SoakInv'
<1>1. /\ soakPhase = "evaluate" /\ soakPhase' = "closed"
      /\ soakVerdict' = IF ~Judgeable(soakLog) THEN "unjudged"
                        ELSE IF Blockers(soakLog) = {} THEN "admitted" ELSE "rejected"
      /\ UNCHANGED <<subject, service, stored, soakClock, soakWall, downTicks, soakTroubles>>
      /\ UNCHANGED <<soakStop, asked, wakeAt, soakLog>>
  BY DEF SoakEvaluated, soakEnvironment
<1>2. SoakTypes'
  BY <1>1 DEF SoakInv, SoakTypes
<1>3. OutageStory' /\ SpacingStory'
  BY <1>1 DEF SoakInv, OutageStory, SpacingStory
<1>4. VerdictStory'
  <2>1. /\ soakVerdict' = "unjudged" => ~Judgeable(soakLog)
        /\ soakVerdict' = "admitted" => Judgeable(soakLog) /\ Blockers(soakLog) = {}
    BY <1>1
  <2> QED BY <1>1, <2>1 DEF VerdictStory
<1> QED BY <1>2, <1>3, <1>4 DEF SoakInv

LEMMA SoakSignalledKeeps == ASSUME SoakInv, SoakSignalled PROVE SoakInv'
<1>1. /\ soakStop' = TRUE /\ soakTroubles' = soakTroubles + 1
      /\ UNCHANGED <<subject, service, stored, soakClock, soakWall, downTicks>>
      /\ UNCHANGED <<soakPhase, asked, wakeAt, soakLog, soakVerdict>>
  BY DEF SoakSignalled
<1> QED BY <1>1 DEF SoakInv, SoakTypes, OutageStory, SpacingStory, VerdictStory

LEMMA SoakHostRecoversKeeps == ASSUME SoakInv, SoakHostRecovers PROVE SoakInv'
<1>1. /\ service' = "ready" /\ downTicks' = downTicks \ {soakClock - 1}
      /\ UNCHANGED <<subject, stored, soakClock, soakWall, soakTroubles>>
      /\ UNCHANGED <<soakPhase, soakStop, asked, wakeAt, soakLog, soakVerdict>>
  BY DEF SoakHostRecovers
<1>2. SoakTypes'
  BY <1>1 DEF SoakInv, SoakTypes
<1>3. OutageStory'
  BY <1>1 DEF SoakInv, OutageStory
<1>4. SpacingStory' /\ VerdictStory'
  BY <1>1 DEF SoakInv, SpacingStory, VerdictStory
<1> QED BY <1>2, <1>3, <1>4 DEF SoakInv

LEMMA SoakHostMovesKeeps == ASSUME SoakInv, SoakHostMoves PROVE SoakInv'
<1>1. /\ soakPhase # "closed" /\ soakTroubles' = soakTroubles + 1
      /\ \/ service' \in {"down", "other"} /\ UNCHANGED <<stored, soakWall>>
         \/ stored' \in Nat /\ UNCHANGED <<service, soakWall>>
         \/ soakWall > 1 /\ soakWall' = soakWall - 1 /\ UNCHANGED <<service, stored>>
      /\ UNCHANGED <<subject, soakClock, downTicks>>
      /\ UNCHANGED <<soakPhase, soakStop, asked, wakeAt, soakLog, soakVerdict>>
  BY DEF SoakHostMoves
<1>2. soakWall \in Nat /\ soakClock \in Nat /\ soakTroubles \in Nat
  BY SoakNumbers DEF SoakInv, SoakTypes
<1>3. /\ soakWall' \in Nat /\ soakWall' <= soakWall /\ service' \in {"ready", "down", "other"}
      /\ stored' \in Nat /\ (service' = "ready" => service = "ready")
  BY <1>1, <1>2 DEF SoakInv, SoakTypes
<1>4. SoakTypes'
  BY <1>1, <1>2, <1>3 DEF SoakInv, SoakTypes
<1>5. OutageStory' /\ VerdictStory'
  BY <1>1, <1>3 DEF SoakInv, OutageStory, VerdictStory
<1>6. SpacingStory'
  <2>1. soakWall <= soakClock + 1
    BY DEF SoakInv, SpacingStory
  <2>2. soakWall' <= soakClock' + 1 /\ (soakWall' = soakClock' + 1 => soakWall = soakClock + 1)
    BY <1>1, <1>2, <1>3, <2>1
  <2> QED BY <1>1, <2>2 DEF SoakInv, SpacingStory
<1> QED BY <1>4, <1>5, <1>6 DEF SoakInv

LEMMA SoakTickKeeps == ASSUME SoakInv, SoakTick PROVE SoakInv'
<1>1. /\ soakPhase # "closed" /\ soakClock < SoakEnd
      /\ soakClock' = soakClock + 1 /\ soakWall' = soakWall + 1
      /\ downTicks' = IF service = "ready" THEN downTicks ELSE downTicks \cup {soakClock}
      /\ UNCHANGED <<subject, service, stored, soakTroubles>>
      /\ UNCHANGED <<soakPhase, soakStop, asked, wakeAt, soakLog, soakVerdict>>
  BY DEF SoakTick
<1>2. /\ soakWall \in Nat /\ soakClock \in Nat /\ soakClock \in 0..SoakEnd
      /\ downTicks \in SUBSET (0..SoakEnd) /\ soakLog \in Seq(Samples)
      /\ asked.since \in Nat
  BY SoakNumbers DEF SoakInv, SoakTypes
<1>3. SoakTypes'
  <2>1. soakClock' \in 0..SoakEnd /\ soakWall' \in Nat /\ downTicks' \in SUBSET (0..SoakEnd)
    BY <1>1, <1>2, SoakNumbers
  <2> QED BY <1>1, <2>1 DEF SoakInv, SoakTypes
<1>4. OutageStory'
  <2>1. \A t \in downTicks' : t < soakClock + 1
    BY <1>1, <1>2 DEF SoakInv, OutageStory
  <2>2. service = "ready" => soakClock' - 1 \notin downTicks'
    <3>1. soakClock' - 1 = soakClock
      BY <1>1, <1>2
    <3>2. soakClock \notin downTicks
      BY <1>2 DEF SoakInv, OutageStory
    <3> QED BY <1>1, <3>1, <3>2
  <2>3. ASSUME NEW i \in 1..Len(soakLog)
        PROVE  /\ soakLog[i].elapsed <= soakClock + 1
               /\ soakLog[i].ready => soakLog[i].elapsed - 1 \notin downTicks'
    <3>1. /\ soakLog[i].elapsed <= soakClock /\ soakLog[i].elapsed \in Nat
          /\ soakLog[i].ready => soakLog[i].elapsed - 1 \notin downTicks
      BY <1>2, SamplesAre, SoakNumbers DEF SoakInv, OutageStory
    <3>2. soakLog[i].elapsed - 1 # soakClock
      BY <1>2, <3>1
    <3> QED BY <1>1, <1>2, <3>1, <3>2
  <2> QED BY <1>1, <2>1, <2>2, <2>3 DEF SoakInv, OutageStory
<1>5. SpacingStory'
  <2>1. soakWall' <= soakClock' + 1 /\ (soakWall' = soakClock' + 1 => soakWall = soakClock + 1)
    BY <1>1, <1>2 DEF SoakInv, SpacingStory
  <2>2. soakLog # <<>> => Last(soakLog).elapsed \in Nat
    <3>1. soakLog # <<>> => Len(soakLog) \in 1..Len(soakLog)
      BY <1>2
    <3> QED BY <1>2, <3>1, SamplesAre, SoakNumbers DEF Last
  <2>3. /\ asked.since <= soakClock => asked.since <= soakClock'
        /\ soakLog # <<>> /\ Last(soakLog).elapsed < soakClock => Last(soakLog).elapsed < soakClock'
    BY <1>1, <1>2, <2>2
  <2> QED BY <1>1, <2>1, <2>3 DEF SoakInv, SpacingStory
<1>6. VerdictStory'
  BY <1>1 DEF SoakInv, VerdictStory
<1> QED BY <1>3, <1>4, <1>5, <1>6 DEF SoakInv

LEMMA SoakKeeps == ASSUME SoakInv, [SoakNext]_soakVars PROVE SoakInv'
<1>1. ASSUME UNCHANGED soakVars PROVE SoakInv'
  BY <1>1 DEF soakVars, soakEnvironment, SoakInv, SoakTypes, OutageStory, SpacingStory, VerdictStory
<1> QED BY <1>1, CaptureStartsKeeps, ServiceAnswersKeeps, RequestLostKeeps, RunnerContinuesKeeps,
           DelayEndsKeeps, SoakEvaluatedKeeps, SoakSignalledKeeps, SoakHostRecoversKeeps,
           SoakHostMovesKeeps, SoakTickKeeps DEF SoakNext

LEMMA SoakInvariant == SoakSpec => []SoakInv
<1> QED BY SoakStarts, SoakKeeps, PTL DEF SoakSpec

LEMMA SoakInvImplies == ASSUME SoakInv PROVE SoakTypeOK /\ AdmissionIsEarned
<1>1. /\ soakLog \in Seq(Samples) /\ soakClock \in Nat /\ soakWall \in Nat
      /\ \A i \in 1..Len(soakLog) : soakLog[i].elapsed \in 0..SoakEnd
  BY SamplesAre, SoakNumbers DEF SoakInv, SoakTypes
<1>2. SoakTypeOK
  BY <1>1 DEF SoakTypeOK, SoakInv, SoakTypes
<1>3. ASSUME soakVerdict = "admitted"
      PROVE  /\ ~(Last(soakLog).elapsed < SoakDuration)
             /\ ~\E i \in 1..Len(soakLog) : soakLog[i].stranger
             /\ ~\E i \in 1..Len(soakLog) : Gap(soakLog, i) > MaxGap
             /\ Regressions(soakLog) = {}
             /\ soakLog # <<>> /\ Len(soakLog) \in 1..Len(soakLog)
  <2>1. Blockers(soakLog) = {} /\ soakLog # <<>>
    BY <1>3 DEF SoakInv, VerdictStory, OutageStory
  <2> QED BY <1>1, <2>1, NothingBlocks
<1>4. LongOutageIsSeen
  <2>1. SUFFICES ASSUME soakVerdict = "admitted", NEW t \in 0..SoakEnd,
                        t..(t + (MaxGap + SoakTimeout) - 1) \subseteq downTicks,
                        t + (MaxGap + SoakTimeout) <= Last(soakLog).elapsed,
                        \A i \in 1..Len(soakLog) : soakLog[i].ready
                 PROVE  FALSE
    BY DEF LongOutageIsSeen
  <2> DEFINE longest == MaxGap + SoakTimeout
  <2>2. longest \in Nat /\ longest >= MaxGap /\ t \in Nat /\ longest > 0
    BY SoakNumbers
  <2>3. t..(t + longest - 1) \subseteq downTicks /\ t + longest <= Last(soakLog).elapsed
    BY <2>1
  <2> HIDE DEF longest
  <2>4. ASSUME NEW i \in 1..Len(soakLog)
        PROVE  soakLog[i].elapsed <= t \/ soakLog[i].elapsed > t + longest
    <3>1. soakLog[i].elapsed - 1 \notin downTicks /\ soakLog[i].elapsed \in Nat
      BY <1>1, <2>1, SoakNumbers DEF SoakInv, OutageStory
    <3>2. soakLog[i].elapsed - 1 \notin t..(t + longest - 1)
      BY <2>3, <3>1
    <3> QED BY <2>2, <3>1, <3>2
  <2>5. Last(soakLog).elapsed > t + longest
    <3>1. Len(soakLog) \in 1..Len(soakLog) /\ Last(soakLog).elapsed \in Nat
      BY <1>1, <1>3, <2>1, SoakNumbers DEF Last
    <3>2. Last(soakLog).elapsed <= t \/ Last(soakLog).elapsed > t + longest
      BY <2>4, <3>1 DEF Last
    <3> QED BY <2>2, <2>3, <3>1, <3>2
  <2> QED BY <1>1, <1>3, <2>1, <2>2, <2>4, <2>5, OutageLeavesAGap
<1>5. AdmittedKeptItsResults
  <2>1. SUFFICES ASSUME soakVerdict = "admitted", NEW i \in 1..Len(soakLog), NEW j \in 1..Len(soakLog)
                 PROVE  /\ ~soakLog[i].stranger
                        /\ (i < j /\ NoCount \notin {soakLog[i].count, soakLog[j].count})
                             => soakLog[i].count <= soakLog[j].count
    BY DEF AdmittedKeptItsResults
  <2>2. ~soakLog[i].stranger
    BY <1>3, <2>1
  <2>3. ASSUME i < j, NoCount \notin {soakLog[i].count, soakLog[j].count}
        PROVE  soakLog[i].count <= soakLog[j].count
    <3>1. soakLog[i].count \in Nat /\ soakLog[j].count \in Nat
      BY <1>1, <2>3, SamplesAre
    <3>2. ~(soakLog[i].count > soakLog[j].count)
      BY <1>1, <1>3, <2>1, <2>3, LossIsARegression
    <3> QED BY <3>1, <3>2
  <2> QED BY <2>2, <2>3
<1>6. RunsAreJudged
  <2>1. soakVerdict = "unjudged" => soakStop \/ soakWall < soakClock + 1
    BY <1>1 DEF SoakInv, SpacingStory, VerdictStory
  <2>2. soakVerdict = "admitted" => Last(soakLog).elapsed >= SoakDuration
    <3>1. SUFFICES ASSUME soakVerdict = "admitted" PROVE Last(soakLog).elapsed >= SoakDuration
      OBVIOUS
    <3>2. ~(Last(soakLog).elapsed < SoakDuration) /\ Last(soakLog).elapsed \in Nat
      BY <1>1, <1>3, <3>1, SoakNumbers DEF Last
    <3> QED BY <3>2, SoakNumbers
  <2> QED BY <2>1, <2>2 DEF RunsAreJudged
<1> QED BY <1>2, <1>4, <1>5, <1>6 DEF AdmissionIsEarned

\* Every variable of a soak keeps its type.
THEOREM SoakTyped == SoakSpec => []SoakTypeOK
<1>1. SoakInv => SoakTypeOK
  BY SoakInvImplies
<1> QED BY <1>1, SoakInvariant, PTL

\* A soak that admits its service was spaced closely enough to see every outage
\* of three intervals and a request, saw no result lost and no other observer,
\* and one that judges nothing was stopped or had its wall clock set back.
THEOREM AdmissionEarned == SoakSpec => []AdmissionIsEarned
<1>1. SoakInv => AdmissionIsEarned
  BY SoakInvImplies
<1> QED BY <1>1, SoakInvariant, PTL

----------------------------------------------------------------------------
(* The hostile proxy.                                                      *)

Reading == {r \in ProxyRequests : stage[r] = "reading"}
Upstream == {r \in ProxyRequests : stage[r] = "upstream"}

\* What the records, the forwards and the answer of a request are at its stage.
ProxyStory(r) ==
  LET said == DecisionsAbout(r)
      ruling == DecisionOn(contents[r])
  IN  /\ stage[r] \in {"new", "reading"} =>
           said = {} /\ ~Forwarded(r) /\ answers[r] = "NONE"
      /\ stage[r] = "upstream" =>
           /\ said = {ruling} /\ ruling \in {"PASS_THROUGH", "INVALID_REQUEST"}
           /\ Forwarded(r) /\ answers[r] = "NONE"
      /\ stage[r] = "done" /\ ~Forwarded(r) =>
           \/ answers[r] = "503" /\ said \subseteq {"RESOURCE_LIMIT"}
           \/ answers[r] = "405" /\ said = {"INVALID_REQUEST"}
           \/ answers[r] = "413" /\ said = {"RESOURCE_LIMIT"}
           \/ answers[r] = "502" /\ said = {"UPSTREAM_ERROR"}
           \/ answers[r] = "REJECTION" /\ said = {"REJECTED"} /\ ruling = "REJECTED"
      /\ stage[r] = "done" /\ Forwarded(r) =>
           /\ ruling \in {"PASS_THROUGH", "INVALID_REQUEST"}
           /\ \/ answers[r] = "502" /\ said = {ruling, "UPSTREAM_ERROR"}
              \/ answers[r] = "FORWARDED" /\ said = {ruling}

\* The requests under way are counted, and each has kept the room its records
\* need: two while its body is read, one while the upstream has it.
ProxyRoom ==
  /\ IsFiniteSet(Reading) /\ IsFiniteSet(Upstream)
  /\ Cardinality(Reading) + Cardinality(Upstream) <= MaxConcurrentRequests
  /\ Len(auditEvents) + 2 * Cardinality(Reading) + Cardinality(Upstream)
       <= MaxAuditEvents + 2 * MaxConcurrentRequests

ProxyInv == ProxyTypeOK /\ ProxyRoom /\ \A r \in ProxyRequests : ProxyStory(r)

AuditDecisions == {"PASS_THROUGH", "REJECTED", "RESOURCE_LIMIT", "INVALID_REQUEST", "UPSTREAM_ERROR"}

\* A record adds its decision to those about its request, and to no others.
LEMMA RecordAdds ==
  ASSUME ProxyTypeOK, NEW r \in ProxyRequests, NEW d \in AuditDecisions, RecordAudit(r, d)
  PROVE  /\ auditEvents' \in Seq([request : ProxyRequests, decision : AuditDecisions])
         /\ Len(auditEvents') = Len(auditEvents) + 1
         /\ DecisionsAbout(r)' = DecisionsAbout(r) \union {d}
         /\ \A s \in ProxyRequests \ {r} : DecisionsAbout(s)' = DecisionsAbout(s)
<1> DEFINE e == [request |-> r, decision |-> d]
<1>1. auditEvents \in Seq([request : ProxyRequests, decision : AuditDecisions])
  BY DEF ProxyTypeOK, AuditDecisions
<1>2. auditEvents' = Append(auditEvents, e)
  BY DEF RecordAudit
<1>3. e \in [request : ProxyRequests, decision : AuditDecisions]
  OBVIOUS
<1>4. /\ auditEvents' \in Seq([request : ProxyRequests, decision : AuditDecisions])
      /\ Len(auditEvents') = Len(auditEvents) + 1
      /\ DOMAIN auditEvents = 1 .. Len(auditEvents)
      /\ DOMAIN auditEvents' = 1 .. (Len(auditEvents) + 1)
      /\ \A i \in 1 .. Len(auditEvents) : auditEvents'[i] = auditEvents[i]
      /\ auditEvents'[Len(auditEvents) + 1] = e
      /\ Len(auditEvents) \in Nat
  BY <1>1, <1>2, <1>3
<1>5. ASSUME NEW s \in ProxyRequests
      PROVE  DecisionsAbout(s)' = DecisionsAbout(s) \union (IF s = r THEN {d} ELSE {})
  <2>1. \A x : x \in DecisionsAbout(s)' <=>
          \E i \in 1 .. (Len(auditEvents) + 1) :
            auditEvents'[i].request = s /\ x = auditEvents'[i].decision
    BY <1>4 DEF DecisionsAbout
  <2>2. \A x : x \in DecisionsAbout(s) <=>
          \E i \in 1 .. Len(auditEvents) :
            auditEvents[i].request = s /\ x = auditEvents[i].decision
    BY <1>4 DEF DecisionsAbout
  <2>3. e.request = r /\ e.decision = d
    OBVIOUS
  <2> HIDE DEF e
  <2>4. ASSUME NEW x
        PROVE x \in DecisionsAbout(s)' <=> x \in DecisionsAbout(s) \/ (s = r /\ x = d)
    BY <1>4, <2>1, <2>2, <2>3
  <2> QED BY <2>4
<1> QED BY <1>4, <1>5

LEMMA ForwardAdds ==
  ASSUME ProxyTypeOK, NEW r \in ProxyRequests, forwards' = Append(forwards, r)
  PROVE  /\ forwards' \in Seq(ProxyRequests)
         /\ Forwarded(r)'
         /\ \A s \in ProxyRequests \ {r} : Forwarded(s)' <=> Forwarded(s)
<1>1. forwards \in Seq(ProxyRequests) BY DEF ProxyTypeOK
<1>2. /\ forwards' \in Seq(ProxyRequests)
      /\ DOMAIN forwards = 1 .. Len(forwards)
      /\ DOMAIN forwards' = 1 .. (Len(forwards) + 1)
      /\ \A i \in 1 .. Len(forwards) : forwards'[i] = forwards[i]
      /\ forwards'[Len(forwards) + 1] = r
      /\ Len(forwards) \in Nat
  BY <1>1
<1> QED BY <1>2 DEF Forwarded

\* Whether a request is withheld depends on its mode and content only.
LEMMA DecisionInDecisions ==
  ASSUME NEW c PROVE DecisionOn(c) \in AuditDecisions
BY DEF DecisionOn, AuditDecisions

\* The story of a request depends on nothing but what is about it.
LEMMA StoryStays ==
  ASSUME NEW s \in ProxyRequests, ProxyStory(s), mode' = mode,
         stage'[s] = stage[s], answers'[s] = answers[s], contents'[s] = contents[s],
         DecisionsAbout(s)' = DecisionsAbout(s), Forwarded(s)' <=> Forwarded(s)
  PROVE  ProxyStory(s)'
<1>1. DecisionOn(contents[s])' = DecisionOn(contents[s])
  BY DEF DecisionOn, ShouldReject
<1> QED BY <1>1 DEF ProxyStory

\* How the requests under way move between the two stages that are counted.
LEMMA StagesMove ==
  ASSUME ProxyTypeOK, NEW r \in ProxyRequests,
         NEW b \in {"reading", "upstream", "done"}, stage' = [stage EXCEPT ![r] = b]
  PROVE  /\ stage' \in [ProxyRequests -> {"new", "reading", "upstream", "done"}]
         /\ Reading' = IF b = "reading" THEN Reading \union {r} ELSE Reading \ {r}
         /\ Upstream' = IF b = "upstream" THEN Upstream \union {r} ELSE Upstream \ {r}
BY DEF ProxyTypeOK, Reading, Upstream

LEMMA ActiveCounted ==
  ASSUME ProxyRoom
  PROVE  Cardinality(ActiveRequests) = Cardinality(Reading) + Cardinality(Upstream)
<1>1. ActiveRequests = Reading \union Upstream /\ Reading \intersect Upstream = {}
  BY DEF ActiveRequests, Reading, Upstream
<1>2. IsFiniteSet(Reading) /\ IsFiniteSet(Upstream) BY DEF ProxyRoom
<1>3. Cardinality(ActiveRequests) =
        Cardinality(Reading) + Cardinality(Upstream) - Cardinality(Reading \intersect Upstream)
  BY <1>1, <1>2, FS_Union
<1>4. Cardinality(Reading \intersect Upstream) = 0 BY <1>1, FS_EmptySet
<1> QED BY <1>2, <1>3, <1>4, FS_CardinalityType

\* A record costs room that was kept for it, or that was left on arrival.
LEMMA RoomKept ==
  ASSUME ProxyInv, NEW r \in ProxyRequests,
         NEW b \in {"reading", "upstream", "done"}, stage' = [stage EXCEPT ![r] = b],
         NEW k \in {0, 1}, Len(auditEvents') = Len(auditEvents) + k,
         \/ stage[r] = "new" /\ b = "reading" /\ k = 0 /\ Admissible(r)
         \/ stage[r] = "new" /\ b = "done" /\ (k = 0 \/ Len(auditEvents) < MaxAuditEvents)
         \/ stage[r] = "reading" /\ b \in {"upstream", "done"}
         \/ stage[r] = "upstream" /\ b = "done"
  PROVE  ProxyRoom'
<1> DEFINE nR == Cardinality(Reading)  nU == Cardinality(Upstream)
<1>1. /\ Reading' = IF b = "reading" THEN Reading \union {r} ELSE Reading \ {r}
      /\ Upstream' = IF b = "upstream" THEN Upstream \union {r} ELSE Upstream \ {r}
  BY StagesMove DEF ProxyInv
<1>2. IsFiniteSet(Reading) /\ IsFiniteSet(Upstream) BY DEF ProxyInv, ProxyRoom
<1>3. r \in Reading <=> stage[r] = "reading" BY DEF Reading
<1>4. r \in Upstream <=> stage[r] = "upstream" BY DEF Upstream
<1>5. /\ IsFiniteSet(Reading')
      /\ b = "reading" /\ stage[r] # "reading" => Cardinality(Reading') = nR + 1
      /\ b # "reading" /\ stage[r] = "reading" => Cardinality(Reading') = nR - 1
      /\ (b = "reading" <=> stage[r] = "reading") => Cardinality(Reading') = nR
  BY <1>1, <1>2, <1>3, FS_AddElement, FS_RemoveElement, Zenon
<1>6. /\ IsFiniteSet(Upstream')
      /\ b = "upstream" /\ stage[r] # "upstream" => Cardinality(Upstream') = nU + 1
      /\ b # "upstream" /\ stage[r] = "upstream" => Cardinality(Upstream') = nU - 1
      /\ (b = "upstream" <=> stage[r] = "upstream") => Cardinality(Upstream') = nU
  BY <1>1, <1>2, <1>4, FS_AddElement, FS_RemoveElement, Zenon
<1>7. nR \in Nat /\ nU \in Nat BY <1>2, FS_CardinalityType
<1>8. Len(auditEvents) \in Nat BY DEF ProxyInv, ProxyTypeOK
<1>9. /\ nR + nU <= MaxConcurrentRequests
      /\ Len(auditEvents) + 2 * nR + nU <= MaxAuditEvents + 2 * MaxConcurrentRequests
      /\ MaxAuditEvents \in Nat /\ MaxConcurrentRequests \in Nat
  BY ProxyAssumption DEF ProxyInv, ProxyRoom, ValidConfig
<1>10. CASE stage[r] = "new" /\ b = "reading" /\ k = 0 /\ Admissible(r)
  <2>1. nR + nU < MaxConcurrentRequests /\ Len(auditEvents) < MaxAuditEvents
    BY <1>10, ActiveCounted DEF Admissible, ProxyInv
  <2>2. Cardinality(Reading') = nR + 1 /\ Cardinality(Upstream') = nU
    BY <1>5, <1>6, <1>10
  <2> QED BY <1>5, <1>6, <1>7, <1>8, <1>9, <1>10, <2>1, <2>2 DEF ProxyRoom
<1>11. CASE stage[r] = "new" /\ b = "done" /\ (k = 0 \/ Len(auditEvents) < MaxAuditEvents)
  <2>1. Cardinality(Reading') = nR /\ Cardinality(Upstream') = nU
    BY <1>5, <1>6, <1>11
  <2> QED BY <1>5, <1>6, <1>7, <1>8, <1>9, <1>11, <2>1 DEF ProxyRoom
<1>12. CASE stage[r] = "reading" /\ b \in {"upstream", "done"}
  <2>1. Cardinality(Reading') = nR - 1 /\ Cardinality(Upstream') \in {nU, nU + 1}
    BY <1>5, <1>6, <1>12
  <2>2. nR >= 1
    BY <1>2, <1>3, <1>7, <1>12, FS_EmptySet
  <2>3. /\ Cardinality(Reading') + Cardinality(Upstream') <= MaxConcurrentRequests
        /\ Len(auditEvents) + k + 2 * Cardinality(Reading') + Cardinality(Upstream')
             <= MaxAuditEvents + 2 * MaxConcurrentRequests
    <3> HIDE DEF nR, nU
    <3> QED BY <1>7, <1>8, <1>9, <2>1, <2>2
  <2> QED BY <1>5, <1>6, <2>3 DEF ProxyRoom
<1>13. CASE stage[r] = "upstream" /\ b = "done"
  <2>1. Cardinality(Reading') = nR /\ Cardinality(Upstream') = nU - 1
    BY <1>5, <1>6, <1>13
  <2>2. /\ Cardinality(Reading') + Cardinality(Upstream') <= MaxConcurrentRequests
        /\ Len(auditEvents) + k + 2 * Cardinality(Reading') + Cardinality(Upstream')
             <= MaxAuditEvents + 2 * MaxConcurrentRequests
    <3> HIDE DEF nR, nU
    <3> QED BY <1>7, <1>8, <1>9, <2>1
  <2> QED BY <1>5, <1>6, <2>2 DEF ProxyRoom
<1> QED BY <1>10, <1>11, <1>12, <1>13

\* What is refused, withheld or forwarded of a request leaves the others' story.
LEMMA OthersKeepTheirs ==
  ASSUME ProxyInv, NEW r \in ProxyRequests, mode' = mode,
         NEW b \in {"reading", "upstream", "done"}, stage' = [stage EXCEPT ![r] = b],
         NEW a, answers' = [answers EXCEPT ![r] = a],
         NEW c, contents' = [contents EXCEPT ![r] = c],
         \A s \in ProxyRequests \ {r} :
           DecisionsAbout(s)' = DecisionsAbout(s) /\ (Forwarded(s)' <=> Forwarded(s))
  PROVE  \A s \in ProxyRequests \ {r} : ProxyStory(s)'
<1> SUFFICES ASSUME NEW s \in ProxyRequests \ {r} PROVE ProxyStory(s)'
  OBVIOUS
<1>1. stage'[s] = stage[s] /\ answers'[s] = answers[s] /\ contents'[s] = contents[s]
  BY DEF ProxyInv, ProxyTypeOK
<1> QED BY <1>1, StoryStays DEF ProxyInv

LEMMA SameContents == ASSUME ProxyTypeOK, NEW r \in ProxyRequests, contents' = contents
                      PROVE  contents' = [contents EXCEPT ![r] = contents[r]]
BY DEF ProxyTypeOK
LEMMA SameAnswers == ASSUME ProxyTypeOK, NEW r \in ProxyRequests, answers' = answers
                     PROVE  answers' = [answers EXCEPT ![r] = answers[r]]
BY DEF ProxyTypeOK

\* A request that ends without reaching the upstream.

LEMMA ProxyInvInit == ProxyInit => ProxyInv
<1> SUFFICES ASSUME ProxyInit PROVE ProxyInv
  OBVIOUS
<1>1. ProxyTypeOK
  BY DEF ProxyInit, ProxyTypeOK
<1>2. Reading = {} /\ Upstream = {}
  BY DEF ProxyInit, Reading, Upstream
<1>3. Len(auditEvents) = 0
  BY DEF ProxyInit
<1>4. ProxyRoom
  BY <1>2, <1>3, FS_EmptySet, ProxyAssumption DEF ProxyRoom, ValidConfig
<1>5. ASSUME NEW r \in ProxyRequests PROVE ProxyStory(r)
  <2>1. DecisionsAbout(r) = {} /\ ~Forwarded(r)
    BY DEF ProxyInit, DecisionsAbout, Forwarded
  <2> QED BY <2>1 DEF ProxyInit, ProxyStory
<1> QED BY <1>1, <1>4, <1>5 DEF ProxyInv

\* A request answered without a word to the upstream, recorded or not.
LEMMA AnsweredUnsent ==
  ASSUME ProxyInv, NEW r \in ProxyRequests, stage[r] \in {"new", "reading"},
         UNCHANGED <<mode, forwards>>,
         NEW c \in Contents \union {NotRead}, contents' = [contents EXCEPT ![r] = c],
         NEW d \in AuditDecisions, RecordAudit(r, d),
         NEW a \in {"503", "405", "413", "502", "REJECTION"}, Answer(r, a),
         stage[r] = "new" => Len(auditEvents) < MaxAuditEvents,
         \/ <<d, a>> = <<"RESOURCE_LIMIT", "503">> \/ <<d, a>> = <<"INVALID_REQUEST", "405">>
         \/ <<d, a>> = <<"RESOURCE_LIMIT", "413">> \/ <<d, a>> = <<"UPSTREAM_ERROR", "502">>
         \/ <<d, a>> = <<"REJECTED", "REJECTION">> /\ DecisionOn(c) = "REJECTED"
  PROVE  ProxyInv'
<1>1. /\ auditEvents' \in Seq([request : ProxyRequests, decision : AuditDecisions])
      /\ Len(auditEvents') = Len(auditEvents) + 1
      /\ DecisionsAbout(r)' = DecisionsAbout(r) \union {d}
      /\ \A s \in ProxyRequests \ {r} : DecisionsAbout(s)' = DecisionsAbout(s)
  BY RecordAdds DEF ProxyInv
<1>2. stage' = [stage EXCEPT ![r] = "done"] /\ answers' = [answers EXCEPT ![r] = a]
  BY DEF Answer
<1>3. ProxyTypeOK'
  BY <1>1, <1>2 DEF ProxyInv, ProxyTypeOK, AuditDecisions
<1>4. ProxyRoom'
  BY <1>1, <1>2, RoomKept
<1>5. \A s \in ProxyRequests : Forwarded(s)' <=> Forwarded(s)
  BY DEF Forwarded
<1>6. \A s \in ProxyRequests \ {r} : ProxyStory(s)'
  BY <1>1, <1>2, <1>5, OthersKeepTheirs
<1>7. ProxyStory(r)'
  <2>1. stage'[r] = "done" /\ answers'[r] = a /\ contents'[r] = c
    BY <1>2 DEF ProxyInv, ProxyTypeOK
  <2>2. DecisionsAbout(r) = {} /\ ~Forwarded(r)
    BY DEF ProxyInv, ProxyStory
  <2>3. DecisionsAbout(r)' = {d} /\ ~Forwarded(r)'
    BY <1>1, <1>5, <2>2
  <2>4. DecisionOn(contents[r])' = DecisionOn(c)
    BY <2>1 DEF DecisionOn, ShouldReject
  <2> QED BY <2>1, <2>3, <2>4 DEF ProxyStory
<1> QED BY <1>3, <1>4, <1>6, <1>7 DEF ProxyInv

\* The upstream's answer, or its failure, ends a request that was forwarded.
LEMMA ForwardedEnds ==
  ASSUME ProxyInv, NEW r \in ProxyRequests, stage[r] = "upstream",
         UNCHANGED <<mode, contents, forwards>>,
         \/ Answer(r, "FORWARDED") /\ UNCHANGED auditEvents
         \/ Answer(r, "502") /\ RecordAudit(r, "UPSTREAM_ERROR")
  PROVE  ProxyInv'
<1>1. PICK a \in {"FORWARDED", "502"} : Answer(r, a)
  OBVIOUS
<1>2. stage' = [stage EXCEPT ![r] = "done"] /\ answers' = [answers EXCEPT ![r] = a]
  BY <1>1 DEF Answer
<1> DEFINE more == IF answers'[r] = "502" THEN {"UPSTREAM_ERROR"} ELSE {}
<1>3. answers'[r] \in {"FORWARDED", "502"} /\ stage'[r] = "done" /\ contents'[r] = contents[r]
  BY <1>2 DEF ProxyInv, ProxyTypeOK
<1>4. /\ auditEvents' \in Seq([request : ProxyRequests, decision : AuditDecisions])
      /\ Len(auditEvents') \in {Len(auditEvents), Len(auditEvents) + 1}
      /\ DecisionsAbout(r)' = DecisionsAbout(r) \union more
      /\ \A s \in ProxyRequests \ {r} : DecisionsAbout(s)' = DecisionsAbout(s)
  <2>1. CASE Answer(r, "FORWARDED") /\ UNCHANGED auditEvents
    <3>1. answers'[r] = "FORWARDED"
      BY <2>1 DEF Answer, ProxyInv, ProxyTypeOK
    <3> QED BY <2>1, <3>1 DEF ProxyInv, ProxyTypeOK, AuditDecisions, DecisionsAbout
  <2>2. CASE Answer(r, "502") /\ RecordAudit(r, "UPSTREAM_ERROR")
    <3>1. answers'[r] = "502"
      BY <2>2 DEF Answer, ProxyInv, ProxyTypeOK
    <3>2. "UPSTREAM_ERROR" \in AuditDecisions BY DEF AuditDecisions
    <3> QED BY <2>2, <3>1, <3>2, RecordAdds DEF ProxyInv
  <2> QED BY <2>1, <2>2
<1>5. ProxyTypeOK'
  BY <1>2, <1>4 DEF ProxyInv, ProxyTypeOK, AuditDecisions
<1>6. ProxyRoom'
  <2>1. Len(auditEvents) \in Nat BY DEF ProxyInv, ProxyTypeOK
  <2>2. PICK k \in {0, 1} : Len(auditEvents') = Len(auditEvents) + k
    BY <1>4, <2>1
  <2> QED BY <1>2, <2>2, RoomKept
<1>7. \A s \in ProxyRequests : Forwarded(s)' <=> Forwarded(s)
  BY DEF Forwarded
<1>8. contents' = [contents EXCEPT ![r] = contents[r]]
  BY SameContents DEF ProxyInv
<1>9. \A s \in ProxyRequests \ {r} : ProxyStory(s)'
  BY <1>2, <1>4, <1>7, <1>8, OthersKeepTheirs
<1>10. ProxyStory(r)'
  <2>1. /\ DecisionsAbout(r) = {DecisionOn(contents[r])} /\ Forwarded(r)
        /\ DecisionOn(contents[r]) \in {"PASS_THROUGH", "INVALID_REQUEST"}
    BY DEF ProxyInv, ProxyStory
  <2>2. DecisionOn(contents[r])' = DecisionOn(contents[r])
    BY <1>3 DEF DecisionOn, ShouldReject
  <2> QED BY <1>3, <1>4, <1>7, <2>1, <2>2 DEF ProxyStory
<1> QED BY <1>5, <1>6, <1>9, <1>10 DEF ProxyInv

\* The body of a request is there and is forwarded.
LEMMA BodyForwarded ==
  ASSUME ProxyInv, NEW r \in ProxyRequests, stage[r] = "reading", UNCHANGED <<mode, answers>>,
         NEW c \in Contents, contents' = [contents EXCEPT ![r] = c],
         RecordAudit(r, DecisionOn(c)), DecisionOn(c) \notin {"RESOURCE_LIMIT", "REJECTED"},
         stage' = [stage EXCEPT ![r] = "upstream"], forwards' = Append(forwards, r)
  PROVE  ProxyInv'
<1>1. /\ auditEvents' \in Seq([request : ProxyRequests, decision : AuditDecisions])
      /\ Len(auditEvents') = Len(auditEvents) + 1
      /\ DecisionsAbout(r)' = DecisionsAbout(r) \union {DecisionOn(c)}
      /\ \A s \in ProxyRequests \ {r} : DecisionsAbout(s)' = DecisionsAbout(s)
  BY RecordAdds, DecisionInDecisions DEF ProxyInv
<1>2. /\ forwards' \in Seq(ProxyRequests) /\ Forwarded(r)'
      /\ \A s \in ProxyRequests \ {r} : Forwarded(s)' <=> Forwarded(s)
  BY ForwardAdds DEF ProxyInv
<1>3. ProxyTypeOK'
  BY <1>1, <1>2 DEF ProxyInv, ProxyTypeOK, AuditDecisions
<1>4. ProxyRoom'
  BY <1>1, RoomKept
<1>5. answers' = [answers EXCEPT ![r] = answers[r]]
  BY SameAnswers DEF ProxyInv
<1>6. \A s \in ProxyRequests \ {r} : ProxyStory(s)'
  BY <1>1, <1>2, <1>5, OthersKeepTheirs
<1>7. ProxyStory(r)'
  <2>1. stage'[r] = "upstream" /\ answers'[r] = answers[r] /\ contents'[r] = c
    BY DEF ProxyInv, ProxyTypeOK
  <2>2. DecisionsAbout(r) = {} /\ answers[r] = "NONE"
    BY DEF ProxyInv, ProxyStory
  <2>3. DecisionOn(contents[r])' = DecisionOn(c)
    BY <2>1 DEF DecisionOn, ShouldReject
  <2>4. DecisionOn(c) \in {"PASS_THROUGH", "INVALID_REQUEST"}
    BY DEF DecisionOn
  <2> QED BY <1>1, <1>2, <2>1, <2>2, <2>3, <2>4 DEF ProxyStory
<1> QED BY <1>3, <1>4, <1>6, <1>7 DEF ProxyInv

LEMMA ProxyInvStep == ProxyInv /\ [ProxyNext]_proxyVars => ProxyInv'
<1> SUFFICES ASSUME ProxyInv, [ProxyNext]_proxyVars PROVE ProxyInv'
  OBVIOUS
<1>1. CASE UNCHANGED proxyVars
  <2>1. /\ ProxyTypeOK' /\ ProxyRoom'
    BY <1>1 DEF proxyVars, ProxyInv, ProxyTypeOK, ProxyRoom, Reading, Upstream
  <2>2. \A s \in ProxyRequests : ProxyStory(s)'
    <3> SUFFICES ASSUME NEW s \in ProxyRequests PROVE ProxyStory(s)' OBVIOUS
    <3>1. DecisionsAbout(s)' = DecisionsAbout(s) /\ (Forwarded(s)' <=> Forwarded(s))
      BY <1>1 DEF proxyVars, DecisionsAbout, Forwarded
    <3> QED BY <1>1, <3>1, StoryStays DEF proxyVars, ProxyInv
  <2> QED BY <2>1, <2>2 DEF ProxyInv
<1>2. ASSUME NEW r \in ProxyRequests, RefuseForAuditCapacity(r) PROVE ProxyInv'
  <2>1. /\ stage' = [stage EXCEPT ![r] = "done"] /\ answers' = [answers EXCEPT ![r] = "503"]
        /\ UNCHANGED <<mode, contents, auditEvents, forwards>> /\ stage[r] = "new"
    BY <1>2 DEF RefuseForAuditCapacity, Answer
  <2>2. ProxyTypeOK'
    BY <2>1 DEF ProxyInv, ProxyTypeOK
  <2>3. Len(auditEvents') = Len(auditEvents) + 0
    BY <2>1 DEF ProxyInv, ProxyTypeOK
  <2>4. ProxyRoom'
    BY <2>1, <2>3, RoomKept
  <2>5. \A s \in ProxyRequests :
          DecisionsAbout(s)' = DecisionsAbout(s) /\ (Forwarded(s)' <=> Forwarded(s))
    BY <2>1 DEF DecisionsAbout, Forwarded
  <2>6. contents' = [contents EXCEPT ![r] = contents[r]]
    BY <2>1, SameContents DEF ProxyInv
  <2>7. \A s \in ProxyRequests \ {r} : ProxyStory(s)'
    BY <2>1, <2>5, <2>6, OthersKeepTheirs
  <2>8. ProxyStory(r)'
    <3>1. stage'[r] = "done" /\ answers'[r] = "503"
      BY <2>1 DEF ProxyInv, ProxyTypeOK
    <3>2. DecisionsAbout(r) = {} /\ ~Forwarded(r)
      BY <2>1 DEF ProxyInv, ProxyStory
    <3> QED BY <2>5, <3>1, <3>2 DEF ProxyStory
  <2> QED BY <2>2, <2>4, <2>7, <2>8 DEF ProxyInv
<1>3. ASSUME NEW r \in ProxyRequests,
             RefuseForConcurrency(r) \/ RefuseMethod(r) \/ BodyAborted(r)
      PROVE  ProxyInv'
  <2>1. contents[r] \in Contents \union {NotRead} /\ contents' = [contents EXCEPT ![r] = contents[r]]
    BY <1>3, SameContents
    DEF RefuseForConcurrency, RefuseMethod, BodyAborted, ProxyInv, ProxyTypeOK
  <2>2. {"RESOURCE_LIMIT", "INVALID_REQUEST", "UPSTREAM_ERROR"} \subseteq AuditDecisions
    BY DEF AuditDecisions
  <2>3. CASE RefuseForConcurrency(r)
    BY <2>1, <2>2, <2>3, AnsweredUnsent DEF RefuseForConcurrency
  <2>4. CASE RefuseMethod(r)
    BY <2>1, <2>2, <2>4, AnsweredUnsent DEF RefuseMethod, Admissible
  <2>5. CASE BodyAborted(r)
    BY <2>1, <2>2, <2>5, AnsweredUnsent DEF BodyAborted
  <2> QED BY <1>3, <2>3, <2>4, <2>5
<1>4. ASSUME NEW r \in ProxyRequests, Admit(r) PROVE ProxyInv'
  <2>1. /\ stage' = [stage EXCEPT ![r] = "reading"] /\ Admissible(r) /\ stage[r] = "new"
        /\ UNCHANGED <<mode, contents, auditEvents, forwards, answers>>
    BY <1>4 DEF Admit, Admissible
  <2>2. ProxyTypeOK'
    BY <2>1 DEF ProxyInv, ProxyTypeOK
  <2>3. Len(auditEvents') = Len(auditEvents) + 0
    BY <2>1 DEF ProxyInv, ProxyTypeOK
  <2>4. ProxyRoom'
    BY <2>1, <2>3, RoomKept
  <2>5. \A s \in ProxyRequests :
          DecisionsAbout(s)' = DecisionsAbout(s) /\ (Forwarded(s)' <=> Forwarded(s))
    BY <2>1 DEF DecisionsAbout, Forwarded
  <2>6. /\ contents' = [contents EXCEPT ![r] = contents[r]]
        /\ answers' = [answers EXCEPT ![r] = answers[r]]
    BY <2>1, SameContents, SameAnswers DEF ProxyInv
  <2>7. \A s \in ProxyRequests \ {r} : ProxyStory(s)'
    BY <2>1, <2>5, <2>6, OthersKeepTheirs
  <2>8. ProxyStory(r)'
    <3>1. stage'[r] = "reading"
      BY <2>1 DEF ProxyInv, ProxyTypeOK
    <3>2. DecisionsAbout(r) = {} /\ ~Forwarded(r) /\ answers[r] = "NONE"
      BY <2>1 DEF ProxyInv, ProxyStory
    <3> QED BY <2>1, <2>5, <3>1, <3>2 DEF ProxyStory
  <2> QED BY <2>2, <2>4, <2>7, <2>8 DEF ProxyInv
<1>5. ASSUME NEW r \in ProxyRequests, Handle(r) PROVE ProxyInv'
  <2>1. PICK c \in Contents :
          /\ contents' = [contents EXCEPT ![r] = c]
          /\ RecordAudit(r, DecisionOn(c))
          /\ \/ /\ DecisionOn(c) \in {"RESOURCE_LIMIT", "REJECTED"}
                /\ Answer(r, IF DecisionOn(c) = "REJECTED" THEN "REJECTION" ELSE "413")
                /\ UNCHANGED forwards
             \/ /\ DecisionOn(c) \notin {"RESOURCE_LIMIT", "REJECTED"}
                /\ stage' = [stage EXCEPT ![r] = "upstream"]
                /\ forwards' = Append(forwards, r)
                /\ UNCHANGED answers
    BY <1>5 DEF Handle
  <2>2. stage[r] = "reading" /\ UNCHANGED mode
    BY <1>5 DEF Handle
  <2>3. CASE DecisionOn(c) = "RESOURCE_LIMIT"
    <3>1. Answer(r, "413") /\ RecordAudit(r, "RESOURCE_LIMIT") /\ UNCHANGED forwards
      BY <2>1, <2>3
    <3>2. "RESOURCE_LIMIT" \in AuditDecisions BY DEF AuditDecisions
    <3> QED BY <2>1, <2>2, <3>1, <3>2, AnsweredUnsent
  <2>4. CASE DecisionOn(c) = "REJECTED"
    <3>1. Answer(r, "REJECTION") /\ RecordAudit(r, "REJECTED") /\ UNCHANGED forwards
      BY <2>1, <2>4
    <3>2. "REJECTED" \in AuditDecisions BY DEF AuditDecisions
    <3> QED BY <2>1, <2>2, <2>4, <3>1, <3>2, AnsweredUnsent
  <2>5. CASE DecisionOn(c) \notin {"RESOURCE_LIMIT", "REJECTED"}
    BY <2>1, <2>2, <2>5, BodyForwarded
  <2> QED BY <2>3, <2>4, <2>5
<1>6. ASSUME NEW r \in ProxyRequests, UpstreamAnswers(r) \/ UpstreamFails(r) PROVE ProxyInv'
  BY <1>6, ForwardedEnds DEF UpstreamAnswers, UpstreamFails
<1> QED BY <1>1, <1>2, <1>3, <1>4, <1>5, <1>6 DEF ProxyNext

\* A decision that withholds a content says what the mode lets through.
LEMMA ModeDecides ==
  ASSUME ProxyTypeOK, NEW c \in Contents \union {NotRead}
  PROVE  /\ DecisionOn(c) = "REJECTED" =>
              \/ mode = "REJECT_CLASS" /\ c.shape = "PROGRAM_X"
              \/ mode = "GENERAL_DEGRADATION" /\ c.scheduled
         /\ DecisionOn(c) # "REJECTED" /\ mode = "GENERAL_DEGRADATION" => ~c.scheduled
         /\ DecisionOn(c) # "REJECTED" /\ mode = "REJECT_CLASS" => c.shape # "PROGRAM_X"
<1>1. DecisionOn(c) = "REJECTED" => ShouldReject(c)
  BY Zenon DEF DecisionOn
<1>2. CASE c.shape \in ControlledClasses
  <2>1. c.shape # "TOO_LARGE" /\ c.shape # "MALFORMED"
    BY <1>2 DEF ControlledClasses
  <2>2. ShouldReject(c) => DecisionOn(c) = "REJECTED"
    BY <2>1, Zenon DEF DecisionOn
  <2> QED BY <1>1, <1>2, <2>2 DEF ShouldReject
<1>3. CASE c.shape \notin ControlledClasses
  <2>1. c.shape # "PROGRAM_X"
    BY <1>3 DEF ControlledClasses
  <2>2. c.scheduled = FALSE
    <3>1. CASE c \in [shape : {"TOO_LARGE", "MALFORMED", "UNKNOWN"}, scheduled : {FALSE}]
      BY <3>1
    <3>2. CASE c \in [shape : ControlledClasses, scheduled : BOOLEAN]
      BY <1>3, <3>2
    <3>3. CASE c = NotRead
      BY <3>3 DEF NotRead
    <3> QED BY <3>1, <3>2, <3>3 DEF Contents
  <2> QED BY <1>1, <2>1, <2>2 DEF ShouldReject
<1> QED BY <1>2, <1>3

LEMMA ProxyInvImplies == ProxyInv => AuditIsSound
<1> SUFFICES ASSUME ProxyInv PROVE AuditIsSound
  OBVIOUS
<1>1. AuditBounded
  <2>1. Cardinality(Reading) \in Nat /\ Cardinality(Upstream) \in Nat
    BY FS_CardinalityType DEF ProxyInv, ProxyRoom
  <2>2. Len(auditEvents) \in Nat BY DEF ProxyInv, ProxyTypeOK
  <2> QED BY <2>1, <2>2, ProxyAssumption DEF ProxyInv, ProxyRoom, AuditBounded, ValidConfig
<1>2. ASSUME NEW r \in ProxyRequests
      PROVE  LET decisions == DecisionsAbout(r)
                 forwarded == Forwarded(r)
             IN  /\ stage[r] \in {"upstream", "done"} /\ answers[r] # "503" => decisions # {}
                 /\ forwarded => decisions \intersect {"PASS_THROUGH", "INVALID_REQUEST"} # {}
                 /\ "REJECTED" \in decisions => ~forwarded /\ answers[r] = "REJECTION"
                 /\ answers[r] = "FORWARDED" => "UPSTREAM_ERROR" \notin decisions
                 /\ forwarded /\ mode = "GENERAL_DEGRADATION" => ~contents[r].scheduled
                 /\ forwarded /\ mode = "REJECT_CLASS" => contents[r].shape # "PROGRAM_X"
                 /\ "REJECTED" \in decisions =>
                      \/ mode = "REJECT_CLASS" /\ contents[r].shape = "PROGRAM_X"
                      \/ mode = "GENERAL_DEGRADATION" /\ contents[r].scheduled
  <2>1. ProxyStory(r) /\ stage[r] \in {"new", "reading", "upstream", "done"}
    BY DEF ProxyInv, ProxyTypeOK
  <2>2. /\ DecisionOn(contents[r]) = "REJECTED" =>
              \/ mode = "REJECT_CLASS" /\ contents[r].shape = "PROGRAM_X"
              \/ mode = "GENERAL_DEGRADATION" /\ contents[r].scheduled
        /\ DecisionOn(contents[r]) # "REJECTED" /\ mode = "GENERAL_DEGRADATION" => ~contents[r].scheduled
        /\ DecisionOn(contents[r]) # "REJECTED" /\ mode = "REJECT_CLASS" => contents[r].shape # "PROGRAM_X"
    BY ModeDecides DEF ProxyInv, ProxyTypeOK
  <2>3. CASE stage[r] \in {"new", "reading"}
    BY <2>1, <2>3 DEF ProxyStory
  <2>4. CASE stage[r] = "upstream"
    BY <2>1, <2>2, <2>4 DEF ProxyStory
  <2>5. CASE stage[r] = "done" /\ ~Forwarded(r)
    BY <2>1, <2>2, <2>5 DEF ProxyStory
  <2>6. CASE stage[r] = "done" /\ Forwarded(r)
    BY <2>1, <2>2, <2>6 DEF ProxyStory
  <2> QED BY <2>1, <2>3, <2>4, <2>5, <2>6
<1>3. AuditTellsTraffic
  BY <1>2 DEF AuditTellsTraffic
<1> QED BY <1>1, <1>3 DEF AuditIsSound

\* The trace of the hostile proxy is complete about the traffic and bounded, for
\* any number of requests under way and any limits (server.ts).
THEOREM AuditSound == ProxySpec => []AuditIsSound
<1>1. ProxySpec => []ProxyInv
  BY ProxyInvInit, ProxyInvStep, PTL DEF ProxySpec
<1> QED BY <1>1, ProxyInvImplies, PTL


----------------------------------------------------------------------------
(* The window of the analysis.                                             *)

Counts == [success : Nat, failure : Nat, inconclusive : Nat]

\* What a cell holds was executed, and what remains was not yet.
WindowInv ==
  /\ remaining \in SUBSET Units /\ groupsLeft \in 0..ProbeCount
  /\ cells \in [Units -> Counts]
  /\ \A u \in Units : CompleteCount(cells[u]) + groupsLeft + (IF u \in remaining THEN 1 ELSE 0) <= ProbeCount

LEMMA WindowNumbers ==
  /\ ProbeCount \in Nat \ {0} /\ MinimumComplete \in Nat \ {0}
  /\ MaxInconclusive \in Nat /\ HealthyRate \in Nat /\ DegradedRate \in Nat /\ AsymmetricRate \in Nat
  /\ DegradedRate + MaxInconclusive < HealthyRate
  /\ AsymmetricRate + MaxInconclusive < HealthyRate
BY WindowAssumption DEF ValidDefinition

LEMMA CountsAre ==
  ASSUME NEW c \in Counts
  PROVE  /\ c.success \in Nat /\ c.failure \in Nat /\ c.inconclusive \in Nat
         /\ CompleteCount(c) \in Nat /\ CompleteCount(c) = c.success + c.failure + c.inconclusive
BY DEF Counts, CompleteCount

LEMMA WindowStarts == ASSUME WindowInit PROVE WindowInv
<1>1. NoMeasurement \in Counts /\ CompleteCount(NoMeasurement) = 0
  BY DEF NoMeasurement, Counts, CompleteCount
<1>2. \A u \in Units : cells[u] = NoMeasurement
  BY DEF WindowInit
<1> QED BY <1>1, <1>2, WindowNumbers DEF WindowInit, WindowInv

LEMMA NextGroupKeeps == ASSUME WindowInv, NextGroup PROVE WindowInv'
<1>1. /\ remaining = {} /\ groupsLeft > 0
      /\ remaining' = Units /\ groupsLeft' = groupsLeft - 1 /\ cells' = cells
  BY DEF NextGroup
<1>2. groupsLeft \in Nat /\ groupsLeft' \in 0..ProbeCount
  BY <1>1, WindowNumbers DEF WindowInv
<1>3. ASSUME NEW u \in Units
      PROVE  CompleteCount(cells[u]) + groupsLeft' + 1 <= ProbeCount
  <2>1. CompleteCount(cells[u]) \in Nat /\ CompleteCount(cells[u]) + groupsLeft + 0 <= ProbeCount
    BY <1>1, CountsAre DEF WindowInv
  <2> QED BY <1>1, <1>2, <2>1, WindowNumbers
<1> QED BY <1>1, <1>2, <1>3 DEF WindowInv

LEMMA ExecuteUnitKeeps == ASSUME WindowInv, ExecuteUnit PROVE WindowInv'
<1>1. PICK u \in remaining :
        /\ remaining' = remaining \ {u} /\ groupsLeft' = groupsLeft
        /\ \/ cells' = cells
           \/ \E outcome \in DOMAIN NoMeasurement : cells' = [cells EXCEPT ![u][outcome] = @ + 1]
  BY DEF ExecuteUnit
<1>2. /\ u \in Units /\ cells \in [Units -> Counts] /\ groupsLeft \in Nat /\ cells[u] \in Counts
  BY <1>1, WindowNumbers DEF WindowInv
<1>3. /\ cells' \in [Units -> Counts]
      /\ \A v \in Units \ {u} : cells'[v] = cells[v]
      /\ CompleteCount(cells'[u]) <= CompleteCount(cells[u]) + 1
  <2>1. CASE cells' = cells
    BY <1>2, <2>1, CountsAre
  <2>2. ASSUME NEW outcome \in DOMAIN NoMeasurement, cells' = [cells EXCEPT ![u][outcome] = @ + 1]
        PROVE  /\ cells' \in [Units -> Counts]
               /\ \A v \in Units \ {u} : cells'[v] = cells[v]
               /\ CompleteCount(cells'[u]) <= CompleteCount(cells[u]) + 1
    <3> DEFINE c == [cells[u] EXCEPT ![outcome] = @ + 1]
    <3>1. outcome \in {"success", "failure", "inconclusive"}
      BY DEF NoMeasurement
    <3>2. c \in Counts /\ CompleteCount(c) = CompleteCount(cells[u]) + 1
      <4>1. CASE outcome = "success"
        BY <1>2, <4>1 DEF Counts, CompleteCount
      <4>2. CASE outcome = "failure"
        BY <1>2, <4>2 DEF Counts, CompleteCount
      <4>3. CASE outcome = "inconclusive"
        BY <1>2, <4>3 DEF Counts, CompleteCount
      <4> QED BY <3>1, <4>1, <4>2, <4>3
    <3>3. cells' = [cells EXCEPT ![u] = c]
      BY <1>2, <2>2
    <3> HIDE DEF c
    <3>4. /\ cells' \in [Units -> Counts] /\ cells'[u] = c
          /\ \A v \in Units \ {u} : cells'[v] = cells[v]
      BY <1>2, <3>2, <3>3
    <3> QED BY <1>2, <3>2, <3>4, CountsAre
  <2> QED BY <1>1, <2>1, <2>2
<1>4. ASSUME NEW v \in Units
      PROVE  CompleteCount(cells'[v]) + groupsLeft' + (IF v \in remaining' THEN 1 ELSE 0) <= ProbeCount
  <2>1. /\ CompleteCount(cells[v]) + groupsLeft + (IF v \in remaining THEN 1 ELSE 0) <= ProbeCount
        /\ CompleteCount(cells[v]) \in Nat /\ CompleteCount(cells'[v]) \in Nat
    BY <1>3, CountsAre DEF WindowInv
  <2>2. CASE v = u
    BY <1>1, <1>2, <1>3, <2>1, <2>2, WindowNumbers
  <2>3. CASE v # u
    BY <1>1, <1>2, <1>3, <2>1, <2>3, WindowNumbers
  <2> QED BY <2>2, <2>3
<1>5. remaining' \in SUBSET Units /\ groupsLeft' \in 0..ProbeCount
  BY <1>1 DEF WindowInv
<1> QED BY <1>3, <1>4, <1>5 DEF WindowInv

LEMMA WindowInvariant == WindowSpec => []WindowInv
<1>1. WindowInv /\ [WindowNext]_windowVars => WindowInv'
  <2>1. WindowInv /\ UNCHANGED windowVars => WindowInv'
    BY DEF windowVars, WindowInv
  <2> QED BY <2>1, NextGroupKeeps, ExecuteUnitKeeps DEF WindowNext
<1> QED BY <1>1, WindowStarts, PTL DEF WindowSpec

----------------------------------------------------------------------------
\* However the inconclusive units of a cell ended, as many were executed, and
\* no more succeeded than did or were inconclusive.
LEMMA ResolvedIs ==
  ASSUME NEW c \in Counts, NEW known \in Resolved(c)
  PROVE  /\ known \in Counts /\ CompleteCount(known) = CompleteCount(c)
         /\ c.success <= known.success /\ known.success <= c.success + c.inconclusive
<1>1. c.success \in Nat /\ c.failure \in Nat /\ c.inconclusive \in Nat
  BY CountsAre
<1>2. PICK k \in 0..c.inconclusive :
        known = [success |-> c.success + k, failure |-> c.failure + c.inconclusive - k, inconclusive |-> 0]
  BY DEF Resolved
<1>3. c.success + k \in Nat /\ c.failure + c.inconclusive - k \in Nat /\ k \in Nat /\ k <= c.inconclusive
  BY <1>1
<1>4. /\ known.success = c.success + k /\ known.failure = c.failure + c.inconclusive - k
      /\ known.inconclusive = 0 /\ known \in Counts
  BY <1>2, <1>3 DEF Counts
<1> QED BY <1>1, <1>3, <1>4 DEF CompleteCount

\* Rates far apart do not meet.
LEMMA RatesApart ==
  ASSUME NEW n \in Nat, n > 0, NEW low \in Nat, low + MaxInconclusive < HealthyRate
  PROVE  /\ low * n \in Nat /\ MaxInconclusive * n \in Nat /\ HealthyRate * n \in Nat
         /\ low * n + MaxInconclusive * n < HealthyRate * n
<1>1. low \in Nat /\ MaxInconclusive \in Nat /\ HealthyRate \in Nat
  BY WindowNumbers
<1>2. low * n \in Nat /\ MaxInconclusive * n \in Nat /\ HealthyRate * n \in Nat
  BY <1>1
<1>3. (low + MaxInconclusive) * n = low * n + MaxInconclusive * n
  BY <1>1
<1>4. \A a, b \in Nat : a < b => a * n < b * n
  OBVIOUS
<1>5. (low + MaxInconclusive) * n < HealthyRate * n
  BY <1>1, <1>4
<1> QED BY <1>2, <1>3, <1>5

LEMMA HealthyStays ==
  ASSUME NEW c \in Counts, NEW known \in Resolved(c), CompleteCount(c) > 0,
         NEW low \in Nat, low + MaxInconclusive < HealthyRate
  PROVE  /\ AtLeast(c, HealthyRate) => ~AtMost(known, low)
         /\ AtMost(c, low) /\ Conclusive(c) => ~AtLeast(known, HealthyRate)
<1> DEFINE n == CompleteCount(c)
           lows == low * n
           unknowns == MaxInconclusive * n
           highs == HealthyRate * n
<1>1. /\ c.success \in Nat /\ c.inconclusive \in Nat /\ n \in Nat /\ n > 0
      /\ known.success \in Nat /\ CompleteCount(known) = n
      /\ c.success <= known.success /\ known.success <= c.success + c.inconclusive
  BY CountsAre, ResolvedIs
<1> HIDE DEF n
<1>2. lows \in Nat /\ unknowns \in Nat /\ highs \in Nat /\ lows + unknowns < highs
  BY <1>1, RatesApart
<1>3. /\ AtLeast(c, HealthyRate) <=> 100 * c.success >= highs
      /\ AtMost(c, low) <=> 100 * c.success <= lows
      /\ AtMost(known, low) <=> 100 * known.success <= lows
      /\ AtLeast(known, HealthyRate) <=> 100 * known.success >= highs
      /\ Conclusive(c) <=> ~(100 * c.inconclusive > unknowns)
  BY <1>1, Zenon DEF AtLeast, AtMost, Conclusive, Inconclusive, n
<1> HIDE DEF lows, unknowns, highs
<1> QED BY <1>1, <1>2, <1>3

\* What a classification asks of the counts.
LEMMA ClassifiedAs ==
  ASSUME NEW counts, NEW route
  PROVE  LET control == ControlCell(counts, route)
             test == TestCell(counts, route)
         IN  /\ Classification(counts, route) = "HEALTHY" =>
                  AtLeast(control, HealthyRate) /\ AtLeast(test, HealthyRate)
             /\ Classification(counts, route) = "DEGRADED" =>
                  /\ AtMost(control, DegradedRate) /\ AtMost(test, DegradedRate)
                  /\ Conclusive(control) /\ Conclusive(test)
             /\ Classification(counts, route) = "ASYMMETRIC" =>
                  /\ AtMost(test, AsymmetricRate) /\ Conclusive(test)
                  /\ CompleteCount(PeerBaseline(counts, route)) > 0
                  /\ AtLeast(PeerBaseline(counts, route), HealthyRate)
             /\ Classification(counts, route) \in {"HEALTHY", "DEGRADED", "ASYMMETRIC"} =>
                  ~(CompleteCount(control) < MinimumComplete) /\ ~(CompleteCount(test) < MinimumComplete)
<1> DEFINE control == ControlCell(counts, route)
           test == TestCell(counts, route)
           few == \E c \in {control, test} : CompleteCount(c) < MinimumComplete
           peers == PeerBaseline(counts, route)
<1>1. Classification(counts, route) =
        IF few THEN "INSUFFICIENT_DATA"
        ELSE IF ~Conclusive(control) \/ ~Conclusive(test) THEN "UNKNOWN"
        ELSE IF Degraded(control, test) THEN "DEGRADED"
        ELSE IF Asymmetric(control, test, peers) THEN "ASYMMETRIC"
        ELSE IF Healthy(control, test) THEN "HEALTHY"
        ELSE "UNKNOWN"
  BY Zenon DEF Classification
<1>2. ~few => ~(CompleteCount(control) < MinimumComplete) /\ ~(CompleteCount(test) < MinimumComplete)
  BY Zenon
<1> HIDE DEF control, test, few, peers
<1>3. /\ Degraded(control, test) => AtMost(control, DegradedRate) /\ AtMost(test, DegradedRate)
      /\ Asymmetric(control, test, peers) =>
           AtMost(test, AsymmetricRate) /\ CompleteCount(peers) > 0 /\ AtLeast(peers, HealthyRate)
      /\ Healthy(control, test) => AtLeast(control, HealthyRate) /\ AtLeast(test, HealthyRate)
  BY Zenon DEF Degraded, Asymmetric, Healthy
<1>4. /\ Classification(counts, route) = "HEALTHY" =>
           AtLeast(control, HealthyRate) /\ AtLeast(test, HealthyRate)
      /\ Classification(counts, route) = "DEGRADED" =>
           /\ AtMost(control, DegradedRate) /\ AtMost(test, DegradedRate)
           /\ Conclusive(control) /\ Conclusive(test)
      /\ Classification(counts, route) = "ASYMMETRIC" =>
           /\ AtMost(test, AsymmetricRate) /\ Conclusive(test)
           /\ CompleteCount(peers) > 0 /\ AtLeast(peers, HealthyRate)
      /\ Classification(counts, route) \in {"HEALTHY", "DEGRADED", "ASYMMETRIC"} => ~few
  BY <1>1, <1>3
<1> QED BY <1>2, <1>4, Zenon DEF control, test, peers

LEMMA NeverFlips == ASSUME WindowInv PROVE InconclusiveNeverFlips
<1> DEFINE After(route, control, test) ==
             [cells EXCEPT ![<<route, "MATCHED_CONTROL">>] = control, ![<<route, "PROGRAM_X">>] = test]
<1>1. SUFFICES ASSUME NEW route \in WindowRoutes,
                      NEW control \in Resolved(ControlCell(cells, route)),
                      NEW test \in Resolved(TestCell(cells, route))
               PROVE  /\ Classification(cells, route) = "HEALTHY" =>
                           Classification(After(route, control, test), route) \notin {"DEGRADED", "ASYMMETRIC"}
                      /\ Classification(cells, route) \in {"DEGRADED", "ASYMMETRIC"} =>
                           Classification(After(route, control, test), route) # "HEALTHY"
  BY Zenon DEF InconclusiveNeverFlips
<1> DEFINE known == After(route, control, test)
           c == ControlCell(cells, route)
           t == TestCell(cells, route)
<1>2. <<route, "MATCHED_CONTROL">> \in Units /\ <<route, "PROGRAM_X">> \in Units
  BY DEF Units, Classes
<1>3. cells \in [Units -> Counts] /\ c \in Counts /\ t \in Counts
  BY <1>2 DEF WindowInv, ControlCell, TestCell
<1>4. ControlCell(known, route) = control /\ TestCell(known, route) = test
  BY <1>2, <1>3 DEF ControlCell, TestCell
<1> HIDE DEF known
<1>5. Classification(cells, route) \in {"HEALTHY", "DEGRADED", "ASYMMETRIC"} =>
        CompleteCount(c) > 0 /\ CompleteCount(t) > 0
  BY <1>3, ClassifiedAs, CountsAre, WindowNumbers
<1>6. /\ Classification(cells, route) = "HEALTHY" => AtLeast(c, HealthyRate) /\ AtLeast(t, HealthyRate)
      /\ Classification(cells, route) = "DEGRADED" => AtMost(c, DegradedRate) /\ Conclusive(c)
      /\ Classification(cells, route) = "ASYMMETRIC" => AtMost(t, AsymmetricRate) /\ Conclusive(t)
  BY ClassifiedAs, Zenon
<1>7. /\ Classification(known, route) = "HEALTHY" =>
           AtLeast(control, HealthyRate) /\ AtLeast(test, HealthyRate)
      /\ Classification(known, route) = "DEGRADED" => AtMost(control, DegradedRate)
      /\ Classification(known, route) = "ASYMMETRIC" => AtMost(test, AsymmetricRate)
  BY <1>4, ClassifiedAs, Zenon
<1>8. CompleteCount(c) > 0 =>
        /\ AtLeast(c, HealthyRate) => ~AtMost(control, DegradedRate)
        /\ AtMost(c, DegradedRate) /\ Conclusive(c) => ~AtLeast(control, HealthyRate)
  BY <1>3, HealthyStays, WindowNumbers
<1>9. CompleteCount(t) > 0 =>
        /\ AtLeast(t, HealthyRate) => ~AtMost(test, AsymmetricRate)
        /\ AtMost(t, AsymmetricRate) /\ Conclusive(t) => ~AtLeast(test, HealthyRate)
  BY <1>3, HealthyStays, WindowNumbers
<1> HIDE DEF c, t
<1> QED BY <1>5, <1>6, <1>7, <1>8, <1>9 DEF known

\* A set of routes of the least size among some.
LEMMA LeastSet ==
  ASSUME NEW Bad \in SUBSET SUBSET WindowRoutes, Bad # {}
  PROVE  \E S \in Bad : \A R \in SUBSET WindowRoutes : Cardinality(R) < Cardinality(S) => R \notin Bad
<1>1. \A S \in SUBSET WindowRoutes : Cardinality(S) \in Nat
  BY WindowAssumption, FS_Subset, FS_CardinalityType DEF ValidDefinition
<1> DEFINE Sizes == {Cardinality(S) : S \in Bad}
<1>2. Sizes \in SUBSET Nat /\ Sizes # {}
  BY <1>1
<1>3. PICK m \in Sizes : \A n \in Sizes : m <= n
  BY <1>2, LeastNatural
<1>4. PICK S \in Bad : m = Cardinality(S)
  BY <1>3
<1>5. ASSUME NEW R \in SUBSET WindowRoutes, Cardinality(R) < Cardinality(S), R \in Bad PROVE FALSE
  <2>1. m <= Cardinality(R)
    BY <1>3, <1>5
  <2> QED BY <1>1, <1>4, <1>5, <2>1
<1> QED BY <1>4, <1>5

One(S) == CHOOSE r \in S : TRUE

LEMMA WithoutOne ==
  ASSUME NEW S \in SUBSET WindowRoutes, S # {}
  PROVE  /\ One(S) \in S /\ One(S) \in WindowRoutes /\ S \ {One(S)} \in SUBSET WindowRoutes
         /\ Cardinality(S) \in Nat /\ Cardinality(S \ {One(S)}) = Cardinality(S) - 1
         /\ Cardinality(S \ {One(S)}) < Cardinality(S)
<1>1. One(S) \in S
  BY Zenon DEF One
<1>2. IsFiniteSet(S)
  BY WindowAssumption, FS_Subset DEF ValidDefinition
<1>3. Cardinality(S) \in Nat /\ Cardinality(S \ {One(S)}) = Cardinality(S) - 1
  BY <1>1, <1>2, FS_RemoveElement, FS_CardinalityType
<1>4. One(S) \in WindowRoutes /\ S \ {One(S)} \in SUBSET WindowRoutes
  BY <1>1
<1> QED BY <1>1, <1>3, <1>4

\* g adds up count over every set of routes of at most n members.
AddsUp(count, n, g) ==
  /\ g \in [SUBSET WindowRoutes -> Nat]
  /\ \A S \in SUBSET WindowRoutes :
       Cardinality(S) <= n => g[S] = IF S = {} THEN 0 ELSE count[One(S)] + g[S \ {One(S)}]

LEMMA AddingBegins ==
  ASSUME NEW count \in [WindowRoutes -> Nat] PROVE \E g : AddsUp(count, 0, g)
<1> DEFINE g == [S \in SUBSET WindowRoutes |-> 0]
<1>1. ASSUME NEW S \in SUBSET WindowRoutes, Cardinality(S) <= 0 PROVE S = {}
  <2>1. IsFiniteSet(S)
    BY WindowAssumption, FS_Subset DEF ValidDefinition
  <2>2. Cardinality(S) = 0
    BY <1>1, <2>1, FS_CardinalityType
  <2> QED BY <2>1, <2>2, FS_EmptySet
<1>2. AddsUp(count, 0, g)
  BY <1>1 DEF AddsUp
<1> QED BY <1>2

LEMMA AddingGoesOn ==
  ASSUME NEW count \in [WindowRoutes -> Nat], NEW n \in Nat, NEW g, AddsUp(count, n, g)
  PROVE  \E h : AddsUp(count, n + 1, h)
<1> DEFINE Body(S) == IF S = {} THEN 0 ELSE count[One(S)] + g[S \ {One(S)}]
           h == [S \in SUBSET WindowRoutes |-> Body(S)]
<1>1. /\ g \in [SUBSET WindowRoutes -> Nat]
      /\ \A S \in SUBSET WindowRoutes : Cardinality(S) <= n => g[S] = Body(S)
  BY DEF AddsUp
<1>2. ASSUME NEW S \in SUBSET WindowRoutes PROVE h[S] = Body(S) /\ h[S] \in Nat
  <2>1. h[S] = Body(S)
    OBVIOUS
  <2>2. CASE S = {}
    BY <2>1, <2>2
  <2>3. CASE S # {}
    <3> DEFINE r == One(S)
               rest == S \ {One(S)}
    <3>1. r \in WindowRoutes /\ rest \in SUBSET WindowRoutes
      BY <2>3, WithoutOne
    <3>2. count[r] \in Nat /\ g[rest] \in Nat
      BY <1>1, <3>1
    <3>3. Body(S) = count[r] + g[rest]
      BY <2>3
    <3> QED BY <2>1, <3>2, <3>3
  <2> QED BY <2>2, <2>3
<1>3. h \in [SUBSET WindowRoutes -> Nat]
  BY <1>2
<1>4. ASSUME NEW S \in SUBSET WindowRoutes, Cardinality(S) <= n + 1, S # {}
      PROVE  h[S] = count[One(S)] + h[S \ {One(S)}]
  <2> DEFINE rest == S \ {One(S)}
  <2>1. rest \in SUBSET WindowRoutes /\ Cardinality(rest) <= n
    BY <1>4, WithoutOne
  <2>2. h[rest] = g[rest]
    BY <1>1, <1>2, <2>1
  <2>3. h[S] = count[One(S)] + g[rest]
    BY <1>2, <1>4
  <2> QED BY <2>2, <2>3
<1>5. h[{}] = 0
  BY <1>2
<1> HIDE DEF h
<1> QED BY <1>3, <1>4, <1>5 DEF AddsUp

LEMMA AddingExists ==
  ASSUME NEW count \in [WindowRoutes -> Nat], NEW n \in Nat PROVE \E g : AddsUp(count, n, g)
<1> DEFINE Bad == {k \in Nat : ~ \E g : AddsUp(count, k, g)}
<1>1. SUFFICES ASSUME Bad # {} PROVE FALSE
  OBVIOUS
<1>2. PICK k \in Bad : \A j \in Bad : k <= j
  BY <1>1, LeastNatural
<1>3. k # 0 /\ k \in Nat
  BY AddingBegins
<1>4. PICK g : AddsUp(count, k - 1, g)
  BY <1>2, <1>3
<1>5. \E h : AddsUp(count, (k - 1) + 1, h)
  BY <1>3, <1>4, AddingGoesOn
<1> QED BY <1>3, <1>5

\* TotalOver adds up: over one member more, its count more.
LEMMA TotalOverIs ==
  ASSUME NEW count \in [WindowRoutes -> Nat]
  PROVE  /\ TotalOver(count)[{}] = 0
         /\ \A S \in SUBSET WindowRoutes : TotalOver(count)[S] \in Nat
         /\ \A S \in SUBSET WindowRoutes : S # {} =>
              TotalOver(count)[S] = count[One(S)] + TotalOver(count)[S \ {One(S)}]
<1> DEFINE total == TotalOver(count)
<1>1. Cardinality(WindowRoutes) \in Nat
  BY WindowAssumption, FS_CardinalityType DEF ValidDefinition
<1>2. PICK g : AddsUp(count, Cardinality(WindowRoutes), g)
  BY <1>1, AddingExists
<1>3. ASSUME NEW S \in SUBSET WindowRoutes PROVE Cardinality(S) <= Cardinality(WindowRoutes)
  BY WindowAssumption, FS_Subset DEF ValidDefinition
<1>4. g = [S \in SUBSET WindowRoutes |-> IF S = {} THEN 0 ELSE count[One(S)] + g[S \ {One(S)}]]
  BY <1>2, <1>3 DEF AddsUp
<1>5. total = [S \in SUBSET WindowRoutes |-> IF S = {} THEN 0 ELSE count[One(S)] + total[S \ {One(S)}]]
  BY <1>4, Zenon DEF TotalOver, One
<1> HIDE DEF total
<1>6. total[{}] = 0
  BY <1>5
<1>7. ASSUME NEW S \in SUBSET WindowRoutes, S # {} PROVE total[S] = count[One(S)] + total[S \ {One(S)}]
  BY <1>5, <1>7
<1> DEFINE Bad == {S \in SUBSET WindowRoutes : total[S] \notin Nat}
<1>8. ASSUME Bad # {} PROVE FALSE
  <2>1. PICK S \in Bad : \A R \in SUBSET WindowRoutes : Cardinality(R) < Cardinality(S) => R \notin Bad
    BY <1>8, LeastSet
  <2>2. S # {} /\ S \in SUBSET WindowRoutes /\ total[S] \notin Nat
    BY <1>6
  <2>3. /\ One(S) \in WindowRoutes /\ S \ {One(S)} \in SUBSET WindowRoutes
        /\ Cardinality(S \ {One(S)}) < Cardinality(S)
    BY <2>2, WithoutOne
  <2> DEFINE r == One(S)
             rest == S \ {One(S)}
  <2>4. rest \notin Bad
    BY <2>1, <2>3
  <2>5. total[rest] \in Nat /\ count[r] \in Nat
    BY <2>3, <2>4
  <2>6. total[S] = count[r] + total[rest]
    BY <1>7, <2>2
  <2> QED BY <2>2, <2>5, <2>6
<1> QED BY <1>6, <1>7, <1>8 DEF total

\* What is below the rate on each of some routes is below it on all together.
LEMMA BelowTogether ==
  ASSUME NEW s \in [WindowRoutes -> Nat], NEW f \in [WindowRoutes -> Nat],
         NEW i \in [WindowRoutes -> Nat], NEW rate \in Nat,
         NEW E \in SUBSET WindowRoutes, E # {},
         \A r \in E : 100 * s[r] < rate * (s[r] + f[r] + i[r])
  PROVE  100 * TotalOver(s)[E] < rate * (TotalOver(s)[E] + TotalOver(f)[E] + TotalOver(i)[E])
<1> DEFINE all(S) == TotalOver(s)[S] + TotalOver(f)[S] + TotalOver(i)[S]
           Bad == {S \in SUBSET E : S # {} /\ ~(100 * TotalOver(s)[S] < rate * all(S))}
<1>1. SUFFICES ASSUME E \in Bad PROVE FALSE
  OBVIOUS
<1>2. Bad # {} /\ Bad \in SUBSET SUBSET WindowRoutes
  BY <1>1
<1>3. PICK S \in Bad : \A R \in SUBSET WindowRoutes : Cardinality(R) < Cardinality(S) => R \notin Bad
  BY <1>2, LeastSet
<1>4. S \in SUBSET E /\ S \in SUBSET WindowRoutes /\ S # {} /\ ~(100 * TotalOver(s)[S] < rate * all(S))
  OBVIOUS
<1> DEFINE r == One(S)
           rest == S \ {One(S)}
<1>5. /\ r \in E /\ r \in WindowRoutes /\ rest \in SUBSET WindowRoutes /\ rest \in SUBSET E
      /\ Cardinality(rest) < Cardinality(S)
  BY <1>4, WithoutOne
<1>6. /\ TotalOver(s)[S] = s[r] + TotalOver(s)[rest] /\ TotalOver(f)[S] = f[r] + TotalOver(f)[rest]
      /\ TotalOver(i)[S] = i[r] + TotalOver(i)[rest]
  BY <1>4, TotalOverIs
<1>7. /\ TotalOver(s)[rest] \in Nat /\ TotalOver(f)[rest] \in Nat /\ TotalOver(i)[rest] \in Nat
      /\ s[r] \in Nat /\ f[r] \in Nat /\ i[r] \in Nat
  BY <1>5, TotalOverIs
<1>8. 100 * TotalOver(s)[rest] <= rate * all(rest)
  <2>1. CASE rest = {}
    <3>1. TotalOver(s)[rest] = 0 /\ TotalOver(f)[rest] = 0 /\ TotalOver(i)[rest] = 0
      BY <2>1, TotalOverIs
    <3> QED BY <3>1
  <2>2. CASE rest # {}
    <3>1. rest \notin Bad
      BY <1>3, <1>5
    <3>2. 100 * TotalOver(s)[rest] < rate * all(rest)
      BY <1>5, <2>2, <3>1
    <3>3. 100 * TotalOver(s)[rest] \in Nat /\ rate * all(rest) \in Nat
      BY <1>7
    <3> QED BY <3>2, <3>3
  <2> QED BY <2>1, <2>2
<1>9. 100 * s[r] < rate * (s[r] + f[r] + i[r])
  BY <1>5
<1> DEFINE a == s[r] + f[r] + i[r]
           b == all(rest)
<1>10. a \in Nat /\ b \in Nat /\ all(S) = a + b
  BY <1>6, <1>7
<1>11. rate * all(S) = rate * a + rate * b
  <2>1. \A x, y \in Nat : rate * (x + y) = rate * x + rate * y
    OBVIOUS
  <2> HIDE DEF a, b, all
  <2> QED BY <1>10, <2>1
<1>12. rate * a \in Nat /\ rate * b \in Nat
  BY <1>10
<1> DEFINE ra == rate * a
           rb == rate * b
           rs == rate * all(S)
<1>13. /\ 100 * s[r] < ra /\ 100 * TotalOver(s)[rest] <= rb /\ rs = ra + rb
       /\ ~(100 * TotalOver(s)[S] < rs)
  BY <1>4, <1>8, <1>9, <1>11
<1>14. ra \in Nat /\ rb \in Nat
  BY <1>12
<1> HIDE DEF ra, rb, rs, a, b, all, r, rest, Bad
<1> QED BY <1>6, <1>7, <1>13, <1>14

\* Peers that carry the program at the rate together have one that does.
LEMMA OnePeerCarries ==
  ASSUME WindowInv, NEW route \in WindowRoutes,
         CompleteCount(PeerBaseline(cells, route)) > 0,
         AtLeast(PeerBaseline(cells, route), HealthyRate)
  PROVE  \E peer \in Eligible(cells, route) : AtLeast(TestCell(cells, peer), HealthyRate)
<1> DEFINE Of(outcome) == [r \in WindowRoutes |-> TestCell(cells, r)[outcome]]
           s == Of("success")
           f == Of("failure")
           i == Of("inconclusive")
           E == Eligible(cells, route)
           base == PeerBaseline(cells, route)
<1>1. ASSUME NEW r \in WindowRoutes PROVE TestCell(cells, r) \in Counts
  BY DEF WindowInv, TestCell, Units, Classes
<1>2. /\ s \in [WindowRoutes -> Nat] /\ f \in [WindowRoutes -> Nat] /\ i \in [WindowRoutes -> Nat]
      /\ \A r \in WindowRoutes :
           /\ s[r] = TestCell(cells, r).success /\ f[r] = TestCell(cells, r).failure
           /\ i[r] = TestCell(cells, r).inconclusive
  BY <1>1 DEF Counts
<1>3. /\ base.success = TotalOver(s)[E] /\ base.failure = TotalOver(f)[E]
      /\ base.inconclusive = TotalOver(i)[E]
  <2>1. DOMAIN NoMeasurement = {"success", "failure", "inconclusive"}
    BY DEF NoMeasurement
  <2> QED BY <2>1 DEF PeerBaseline
<1>4. E \in SUBSET WindowRoutes
  BY DEF Eligible
<1> HIDE DEF s, f, i, E, base
<1>5. /\ TotalOver(s)[E] \in Nat /\ TotalOver(f)[E] \in Nat /\ TotalOver(i)[E] \in Nat
  BY <1>2, <1>4, TotalOverIs
<1>6. /\ TotalOver(s)[E] + TotalOver(f)[E] + TotalOver(i)[E] > 0
      /\ 100 * TotalOver(s)[E] >= HealthyRate * (TotalOver(s)[E] + TotalOver(f)[E] + TotalOver(i)[E])
  BY <1>3, Zenon DEF base, AtLeast, CompleteCount
<1>7. E # {}
  <2>1. SUFFICES ASSUME E = {} PROVE FALSE
    OBVIOUS
  <2>2. TotalOver(s)[E] = 0 /\ TotalOver(f)[E] = 0 /\ TotalOver(i)[E] = 0
    BY <1>2, <2>1, TotalOverIs
  <2> QED BY <1>6, <2>2
<1>8. HealthyRate \in Nat
  BY WindowNumbers
<1>9. ~(100 * TotalOver(s)[E] < HealthyRate * (TotalOver(s)[E] + TotalOver(f)[E] + TotalOver(i)[E]))
  <2> DEFINE all == TotalOver(s)[E] + TotalOver(f)[E] + TotalOver(i)[E]
             x == HealthyRate * all
  <2>1. x \in Nat
    BY <1>5, <1>8
  <2>2. 100 * TotalOver(s)[E] >= x
    BY <1>6
  <2> HIDE DEF x
  <2>3. ~(100 * TotalOver(s)[E] < x)
    BY <1>5, <2>1, <2>2
  <2> QED BY <2>3 DEF x
<1>10. PICK r \in E : ~(100 * s[r] < HealthyRate * (s[r] + f[r] + i[r]))
  BY <1>2, <1>4, <1>7, <1>8, <1>9, BelowTogether
<1>11. r \in WindowRoutes /\ s[r] \in Nat /\ f[r] \in Nat /\ i[r] \in Nat
  BY <1>2, <1>4
<1>12. 100 * s[r] >= HealthyRate * (s[r] + f[r] + i[r])
  <2> DEFINE x == HealthyRate * (s[r] + f[r] + i[r])
  <2>1. x \in Nat /\ ~(100 * s[r] < x)
    BY <1>8, <1>10, <1>11
  <2> HIDE DEF x
  <2>2. 100 * s[r] >= x
    BY <1>11, <2>1
  <2> QED BY <2>2 DEF x
<1>13. AtLeast(TestCell(cells, r), HealthyRate)
  <2> DEFINE c == TestCell(cells, r)
  <2>1. /\ c.success = s[r] /\ c.failure = f[r] /\ c.inconclusive = i[r]
    BY <1>2, <1>11
  <2> HIDE DEF c
  <2>2. AtLeast(c, HealthyRate)
    BY <1>12, <2>1 DEF AtLeast, CompleteCount
  <2> QED BY <2>2 DEF c
<1> QED BY <1>10, <1>13 DEF E

LEMMA CarriedBySomebody == ASSUME WindowInv PROVE SomebodyCarriesTheProgram
<1>1. SUFFICES ASSUME NEW route \in WindowRoutes, Classification(cells, route) = "ASYMMETRIC"
               PROVE  \E peer \in WindowRoutes \ {route} :
                        /\ AtLeast(TestCell(cells, peer), HealthyRate)
                        /\ Classification(cells, peer) # "ASYMMETRIC"
                        /\ EvidenceStrength(cells, route) = "STRONG_CONTROLLED"
                             => CompleteCount(TestCell(cells, peer)) >= StrongComplete
  BY Zenon DEF SomebodyCarriesTheProgram
<1>2. /\ CompleteCount(PeerBaseline(cells, route)) > 0
      /\ AtLeast(PeerBaseline(cells, route), HealthyRate)
  BY <1>1, ClassifiedAs, Zenon
<1>3. PICK peer \in Eligible(cells, route) : AtLeast(TestCell(cells, peer), HealthyRate)
  BY <1>2, OnePeerCarries
<1>4. /\ peer \in WindowRoutes \ {route} /\ peer \in WindowRoutes
      /\ CompleteCount(TestCell(cells, peer)) >= MinimumComplete
  BY DEF Eligible
<1>5. ASSUME Classification(cells, peer) = "ASYMMETRIC" PROVE FALSE
  <2> DEFINE c == TestCell(cells, peer)
             n == CompleteCount(c)
  <2>1. c \in Counts
    BY <1>4 DEF WindowInv, TestCell, Units, Classes
  <2>2. c.success \in Nat /\ n \in Nat /\ n > 0
    BY <1>4, <2>1, CountsAre, WindowNumbers
  <2>3. AtMost(c, AsymmetricRate)
    BY <1>5, ClassifiedAs, Zenon
  <2> DEFINE low == AsymmetricRate * n
             high == HealthyRate * n
             mid == MaxInconclusive * n
  <2>4. 100 * c.success <= low /\ 100 * c.success >= high
    BY <1>3, <2>3, Zenon DEF AtMost, AtLeast
  <2> HIDE DEF n, c
  <2>5. low \in Nat /\ mid \in Nat /\ high \in Nat /\ low + mid < high
    BY <2>2, RatesApart, WindowNumbers
  <2> HIDE DEF low, high, mid
  <2> QED BY <2>2, <2>4, <2>5
<1>6. ASSUME EvidenceStrength(cells, route) = "STRONG_CONTROLLED"
      PROVE  CompleteCount(TestCell(cells, peer)) >= StrongComplete
  <2> DEFINE counted == {ControlCell(cells, route), TestCell(cells, route)}
                          \cup {TestCell(cells, r) : r \in Eligible(cells, route)}
  <2>1. TestCell(cells, peer) \in counted
    BY <1>3, Zenon
  <2>2. EvidenceStrength(cells, route) =
          IF \A c \in counted : CompleteCount(c) >= StrongComplete
          THEN "STRONG_CONTROLLED" ELSE "LIMITED"
    BY <1>1, Zenon DEF EvidenceStrength
  <2> HIDE DEF counted
  <2>3. \A c \in counted : CompleteCount(c) >= StrongComplete
    <3>1. "STRONG_CONTROLLED" # "LIMITED"
      OBVIOUS
    <3> QED BY <1>6, <2>2, <3>1, Zenon
  <2> QED BY <2>1, <2>3, Zenon
<1> QED BY <1>3, <1>4, <1>5, <1>6, Zenon

\* No cell ever counts more than the plan has executed.
THEOREM WindowTyped == WindowSpec => []WindowTypeOK
<1>1. WindowInv => WindowTypeOK
  <2>1. SUFFICES ASSUME WindowInv PROVE WindowTypeOK
    OBVIOUS
  <2>2. ASSUME NEW u \in Units PROVE CompleteCount(cells[u]) <= ProbeCount
    <3>1. /\ CompleteCount(cells[u]) \in Nat /\ groupsLeft \in Nat
          /\ CompleteCount(cells[u]) + groupsLeft + (IF u \in remaining THEN 1 ELSE 0) <= ProbeCount
      BY <2>1, CountsAre, WindowNumbers DEF WindowInv
    <3> QED BY <3>1, WindowNumbers
  <2> QED BY <2>1, <2>2 DEF WindowTypeOK, WindowInv
<1> QED BY <1>1, WindowInvariant, PTL

\* However the inconclusive units of a window ended, a HEALTHY route was neither
\* DEGRADED nor ASYMMETRIC, and one of these was not HEALTHY.
THEOREM ClassesNeverFlip == WindowSpec => []InconclusiveNeverFlips
<1> QED BY NeverFlips, WindowInvariant, PTL

\* A classification stands for what the data say: inconclusive units could not
\* turn it round, and a route is blamed only when another one carries the program.
THEOREM ClassificationSound == WindowSpec => []ClassificationIsSound
<1>1. WindowInv => ClassificationIsSound
  BY NeverFlips, CarriedBySomebody, Zenon DEF ClassificationIsSound
<1> QED BY <1>1, WindowInvariant, PTL

----------------------------------------------------------------------------
(* The event log and the timelines read from it.                           *)

LogCreated == [type : {"created"}, attempt : Attempts, process : Nat, sequence : {0}, id : {0, 1}]
LogStatuses == [type : {"status"}, attempt : Attempts, process : Nat, sequence : Nat, id : {0},
                poll : Nat, reader : LogReaders, final : BOOLEAN, context : Nat]
LogEvents == LogCreated \union LogStatuses
LogLines == LogEvents \union {Garbled}
LinesOfASession == 2 * Polls + 1

Written(file) == {file[i] : i \in DOMAIN file}
Events(file) == Written(file) \ {Garbled}

LogTypes ==
  /\ lines \in Seq(LogLines) /\ unfinished \in BOOLEAN
  /\ process \in 0 .. Processes /\ session \in Attempts \union {NoSession}
  /\ sequence \in 0 .. LinesOfASession /\ own \in SUBSET LogEvents
  /\ timeline.outcome \in {"none", "threw", "pending", "FINALIZED"}
  /\ executed \in BOOLEAN /\ cut \in BOOLEAN /\ refused \in BOOLEAN
  /\ Len(lines) <= process * LinesOfASession
  /\ session # NoSession =>
       process > 0 /\ Len(lines) <= (process - 1) * LinesOfASession + sequence

\* A process and its sequence number name one event.
Distinct(events) ==
  \A e, f \in events : e.process = f.process /\ e.sequence = f.sequence => e = f

\* What is whole in the file was written once, and is true; what is not was cut.
FileStory ==
  /\ unfinished => lines # <<>> /\ cut
  /\ Garbled \in Written(lines) => cut
  /\ \A e \in Events(lines) :
       \/ e.process < process
       \/ e.process = process /\ (session # NoSession => e.sequence < sequence)
  /\ Distinct(Events(lines))
  /\ \A e \in Events(lines) : e.type = "status" /\ e.final => executed

\* What the process recorded is in the file, or the file is unreadable.
SessionStory ==
  session # NoSession =>
    /\ \A e \in own : e.attempt = session /\ (e \in Events(lines) \/ Garbled \in Written(lines))
    /\ sequence > 0 => \E e \in own : e.type = "created"

LogInv == LogTypes /\ FileStory /\ SessionStory /\ TimelineStandsOnTheLog

----------------------------------------------------------------------------
LEMMA LogReadersAre ==
  LogReaders = {1, 2} /\ IsFiniteSet(LogReaders) /\ Cardinality(LogReaders) = 2
<1>1. LogReaders = 1 .. 2
  BY DEF LogReaders
<1>2. IsFiniteSet(1 .. 2) /\ Cardinality(1 .. 2) = IF 1 > 2 THEN 0 ELSE 2 - 1 + 1
  BY ONLY 1 \in Int, 2 \in Int, FS_Interval
<1> QED BY <1>1, <1>2

LEMMA LogEventIs ==
  /\ Garbled \notin LogEvents
  /\ \A e \in LogEvents :
       e.type \in {"created", "status"} /\ e.process \in Nat /\ e.sequence \in Nat
  /\ \A e \in LogEvents : e.type = "status" => e \in LogStatuses
  /\ \A e \in LogStatuses :
       /\ e.type = "status" /\ e.process \in Nat /\ e.sequence \in Nat /\ e.id = 0
       /\ e.reader \in LogReaders /\ e.final \in BOOLEAN
<1>1. /\ \A e \in LogCreated : e.type = "created" /\ e.process \in Nat /\ e.sequence \in Nat
      /\ \A e \in LogStatuses :
           /\ e.type = "status" /\ e.process \in Nat /\ e.sequence \in Nat /\ e.id = 0
           /\ e.reader \in LogReaders /\ e.final \in BOOLEAN
  BY DEF LogCreated, LogStatuses
<1>2. Garbled.type = "garbled"
  BY DEF Garbled
<1> QED BY <1>1, <1>2 DEF LogEvents

LEMMA LinesCounted ==
  ASSUME NEW p \in Nat, NEW q \in Nat, p <= q
  PROVE  /\ LinesOfASession \in Nat /\ LinesOfASession = Polls * Cardinality(LogReaders) + 1
         /\ p * LinesOfASession <= q * LinesOfASession
         /\ p * LinesOfASession \in Nat /\ q * LinesOfASession \in Nat
         /\ p > 0 => p * LinesOfASession = (p - 1) * LinesOfASession + LinesOfASession
                     /\ (p - 1) * LinesOfASession \in Nat
<1>1. LinesOfASession \in Nat /\ LinesOfASession = Polls * Cardinality(LogReaders) + 1
  BY LogAssumption, LogReadersAre DEF LinesOfASession
<1> QED BY <1>1

\* What an append leaves in the file.
LEMMA LineAppended ==
  ASSUME lines \in Seq(LogLines), unfinished => lines # <<>>, unfinished \in BOOLEAN,
         NEW text \in LogLines
  PROVE  /\ WithText(lines, text) \in Seq(LogLines) /\ WithText(lines, text) # <<>>
         /\ Len(WithText(lines, text)) <= Len(lines) + 1
         /\ Written(WithText(lines, text)) \subseteq Written(lines) \union {text, Garbled}
         /\ Garbled \in Written(WithText(lines, text)) =>
              Garbled \in Written(lines) \/ unfinished \/ text = Garbled
         /\ \/ Garbled \in Written(WithText(lines, text))
            \/ Written(lines) \union {text} \subseteq Written(WithText(lines, text))
<1> DEFINE file == WithText(lines, text)
<1>1. CASE unfinished
  <2>1. Len(lines) \in Nat \ {0} /\ DOMAIN lines = 1 .. Len(lines)
    BY <1>1
  <2>2. file = [lines EXCEPT ![Len(lines)] = Garbled]
    BY <1>1 DEF WithText
  <2>3. /\ file \in Seq(LogLines) /\ Len(file) = Len(lines) /\ file[Len(lines)] = Garbled
        /\ \A i \in 1 .. Len(lines) : file[i] \in {lines[i], Garbled}
    BY <2>1, <2>2 DEF LogLines
  <2> HIDE DEF file
  <2>4. Garbled \in Written(file) /\ Written(file) \subseteq Written(lines) \union {Garbled}
    BY <2>1, <2>3 DEF Written
  <2>5. file # <<>>
    BY <2>1, <2>3
  <2>6. Len(file) <= Len(lines) + 1
    BY <2>1, <2>3
  <2> QED BY <1>1, <2>3, <2>4, <2>5, <2>6 DEF file
<1>2. CASE ~unfinished
  <2>1. file = Append(lines, text) /\ DOMAIN lines = 1 .. Len(lines) /\ Len(lines) \in Nat
    BY <1>2 DEF WithText
  <2>2. /\ file \in Seq(LogLines) /\ Len(file) = Len(lines) + 1 /\ file[Len(lines) + 1] = text
        /\ \A i \in 1 .. Len(lines) : file[i] = lines[i]
    BY <2>1
  <2> HIDE DEF file
  <2>3. Written(file) = Written(lines) \union {text}
    BY <2>1, <2>2 DEF Written
  <2>4. file # <<>> /\ Len(file) <= Len(lines) + 1
    BY <2>1, <2>2
  <2> QED BY <2>2, <2>3, <2>4 DEF file
<1> QED BY <1>1, <1>2

LEMMA NextEventsAre ==
  ASSUME LogTypes, session # NoSession, NEW e \in NextEvents
  PROVE  /\ e \in LogEvents /\ e.attempt = session /\ e.process = process /\ e.sequence = sequence
         /\ e.type = "status" => e.final = executed
         /\ sequence = 0 => e.type = "created"
<1>1. session \in Attempts /\ process \in Nat /\ sequence \in Nat /\ executed \in BOOLEAN
  BY LinesCounted, LogAssumption DEF LogTypes
<1>2. CASE sequence = 0
  <2>1. PICK id \in {0, 1} : e = [type |-> "created", attempt |-> session, process |-> process,
                                  sequence |-> 0, id |-> id]
    BY <1>2 DEF NextEvents
  <2>2. e \in LogCreated
    BY <1>1, <2>1 DEF LogCreated
  <2> QED BY <1>2, <2>1, <2>2 DEF LogEvents
<1>3. CASE sequence # 0
  <2> DEFINE poll == (sequence - 1) \div Cardinality(LogReaders)
             reader == 1 + ((sequence - 1) % Cardinality(LogReaders))
  <2>1. poll \in Nat /\ reader \in LogReaders
    BY <1>1, <1>3, LogReadersAre
  <2>2. PICK context \in {0, process} :
          e = [type |-> "status", attempt |-> session, process |-> process, sequence |-> sequence,
               id |-> 0, poll |-> poll, reader |-> reader, final |-> executed, context |-> context]
    BY <1>3, Zenon DEF NextEvents
  <2> HIDE DEF poll, reader
  <2>3. e \in LogStatuses
    BY <1>1, <2>1, <2>2 DEF LogStatuses
  <2> QED BY <1>3, <2>2, <2>3 DEF LogEvents
<1> QED BY <1>2, <1>3

----------------------------------------------------------------------------
\* The order of events.

LEMMA BeforeIsTotal ==
  ASSUME NEW S \in SUBSET LogStatuses, Distinct(S)
  PROVE  \A e, f \in S : e = f \/ (Before(e, f) /\ ~Before(f, e)) \/ (Before(f, e) /\ ~Before(e, f))
<1>1. SUFFICES ASSUME NEW e \in S, NEW f \in S, e # f
               PROVE  (Before(e, f) /\ ~Before(f, e)) \/ (Before(f, e) /\ ~Before(e, f))
  OBVIOUS
<1>2. /\ e.process \in Nat /\ e.sequence \in Nat /\ e.id = 0
      /\ f.process \in Nat /\ f.sequence \in Nat /\ f.id = 0
  BY LogEventIs
<1>3. ~(e.process = f.process /\ e.sequence = f.sequence)
  BY <1>1 DEF Distinct
<1> QED BY <1>2, <1>3 DEF Before

LEMMA EarliestEvent ==
  ASSUME NEW S \in SUBSET LogStatuses, S # {}
  PROVE  \E e \in S : \A f \in S : ~Before(f, e)
<1> DEFINE Numbers == {e.sequence : e \in S}
<1>1. Numbers \in SUBSET Nat /\ Numbers # {}
  BY LogEventIs
<1>2. PICK least \in Numbers : \A k \in Numbers : least <= k
  BY <1>1, LeastNatural
<1> DEFINE T == {e \in S : e.sequence = least}
           Writers == {e.process : e \in T}
<1>3. Writers \in SUBSET Nat /\ Writers # {}
  BY <1>2, LogEventIs
<1>4. PICK first \in Writers : \A k \in Writers : first <= k
  BY <1>3, LeastNatural
<1>5. PICK e \in T : e.process = first
  BY <1>4
<1>6. ASSUME NEW f \in S PROVE ~Before(f, e)
  <2>1. /\ e.process \in Nat /\ e.sequence \in Nat /\ e.id = 0
        /\ f.process \in Nat /\ f.sequence \in Nat /\ f.id = 0
    BY LogEventIs, <1>5
  <2>2. e.sequence <= f.sequence
    BY <1>2, <1>5
  <2>3. e.sequence = f.sequence => e.process <= f.process
    BY <1>4, <1>5
  <2> QED BY <2>1, <2>2, <2>3 DEF Before
<1> QED BY <1>5, <1>6

LEMMA TwoOf ==
  ASSUME NEW S, Cardinality(S) = 2 PROVE \E x, y \in S : x # y
<1>1. SUFFICES ASSUME \A x, y \in S : x = y PROVE FALSE
  OBVIOUS
<1>2. S = {} \/ \E x : S = {x}
  BY <1>1
<1>3. Cardinality(S) = 0 \/ Cardinality(S) = 1
  BY <1>2, FS_EmptySet, FS_Singleton
<1> QED BY <1>3

\* The first event at which both readers' latest statuses are final, and they.
LEMMA FinalityCited ==
  ASSUME NEW S \in SUBSET LogStatuses, Distinct(S), FinalizedAt(S) # {}
  PROVE  /\ Cardinality(SupportOf(S)) = 2 /\ {e.reader : e \in SupportOf(S)} = LogReaders
         /\ SupportOf(S) \subseteq S /\ \E e \in S : e.final
<1> DEFINE finals(e) == {f \in LatestUpTo(S, e) : f.final}
           first == {e \in FinalizedAt(S) : ~\E f \in FinalizedAt(S) : Before(f, e)}
<1>1. FinalizedAt(S) = {e \in S : Cardinality(finals(e)) = 2}
  BY LogReadersAre DEF FinalizedAt
<1>2. FinalizedAt(S) \in SUBSET LogStatuses
  BY <1>1
<1>3. PICK e \in FinalizedAt(S) : \A f \in FinalizedAt(S) : ~Before(f, e)
  BY <1>2, EarliestEvent
<1>4. \A d \in first : d = e
  <2>1. SUFFICES ASSUME NEW d \in first, d # e PROVE FALSE
    OBVIOUS
  <2>2. d \in FinalizedAt(S) /\ ~Before(e, d) /\ ~Before(d, e)
    BY <1>3
  <2>3. d \in S /\ e \in S
    BY <1>1, <2>2
  <2> QED BY <2>1, <2>2, <2>3, BeforeIsTotal
<1>5. first = {e}
  BY <1>3, <1>4
<1>6. SupportOf(S) = UNION {finals(d) : d \in first}
  BY Zenon DEF SupportOf
<1>7. SupportOf(S) = finals(e)
  BY <1>5, <1>6
<1>8. finals(e) \subseteq S /\ Cardinality(finals(e)) = 2
  BY <1>1, <1>3 DEF LatestUpTo
<1>9. \A f, g \in finals(e) : f.reader = g.reader => f = g
  <2>1. SUFFICES ASSUME NEW f \in finals(e), NEW g \in finals(e), f.reader = g.reader PROVE f = g
    OBVIOUS
  <2>2. f \in LatestUpTo(S, e) /\ g \in LatestUpTo(S, e)
    OBVIOUS
  <2>3. ~Before(f, g) /\ ~Before(g, f) /\ f \in S /\ g \in S
    BY <2>1, <2>2 DEF LatestUpTo
  <2> QED BY <2>3, BeforeIsTotal
<1>10. PICK f \in finals(e), g \in finals(e) : f # g
  <2> HIDE DEF finals
  <2> QED BY <1>8, TwoOf
<1>11. /\ f.reader \in {1, 2} /\ g.reader \in {1, 2} /\ f.reader # g.reader
       /\ \A h \in finals(e) : h.reader \in {1, 2}
  BY <1>8, <1>9, <1>10, LogEventIs, LogReadersAre
<1>12. f \in S /\ f.final
  BY <1>8, <1>10
<1> HIDE DEF finals
<1>13. {h.reader : h \in finals(e)} = {1, 2}
  BY <1>10, <1>11
<1> QED BY <1>7, <1>8, <1>12, <1>13, LogReadersAre

\* What session.timeline() says stands on the log.
LEMMA DerivedFromTheLog ==
  ASSUME LogTypes, FileStory, SessionStory, session # NoSession, sequence > 0,
         NEW t, t = DeriveTimeline(lines, session)
  PROVE  /\ t.outcome \in {"threw", "pending", "FINALIZED"}
         /\ t.outcome \in {"pending", "FINALIZED"} => own \subseteq t.events
         /\ t.outcome = "threw" => cut
         /\ t.outcome = "FINALIZED" =>
              /\ executed
              /\ Cardinality(t.support) = Cardinality(LogReaders)
              /\ {e.reader : e \in t.support} = LogReaders
              /\ t.support \subseteq Undisputed(t.events)
<1> DEFINE events == EventsOf(lines, session)
           readable == ReadableFile(lines)
           began == \E e \in events : e.type = "created"
<1>1. IF ~readable \/ ~began THEN t = [outcome |-> "threw"]
      ELSE t = [outcome |-> IF FinalizedAt(Undisputed(events)) = {} THEN "pending" ELSE "FINALIZED",
                events |-> events, support |-> SupportOf(Undisputed(events))]
  BY Zenon DEF DeriveTimeline
<1>2. readable <=> Garbled \notin Written(lines)
  BY DEF ReadableFile, Written
<1>3. events = {e \in Events(lines) : e.attempt = session}
  BY DEF EventsOf, Events, Written
<1>4. readable => own \subseteq events
  BY <1>2, <1>3 DEF SessionStory
<1>5. readable => began
  BY <1>4 DEF SessionStory
<1>6. ~readable => cut
  BY <1>2 DEF FileStory
<1> DEFINE statuses == Undisputed(events)
<1>7. /\ Events(lines) \in SUBSET LogEvents /\ Distinct(Events(lines))
      /\ \A e \in Events(lines) : e.type = "status" /\ e.final => executed
  <2>1. \A i \in DOMAIN lines : lines[i] \in LogLines
    BY DEF LogTypes
  <2> QED BY <2>1 DEF FileStory, Events, Written, LogLines
<1>8. statuses \in SUBSET events /\ \A e \in statuses : e.type = "status"
  BY DEF Undisputed
<1> HIDE DEF events, readable, began, statuses
<1>9. statuses \in SUBSET LogStatuses /\ Distinct(statuses)
  BY <1>3, <1>7, <1>8, LogEventIs DEF Distinct
<1>10. \A e \in statuses : e.final => executed
  BY <1>3, <1>7, <1>8
<1>11. CASE ~readable \/ ~began
  <2>1. t.outcome = "threw"
    BY <1>1, <1>11
  <2> QED BY <1>5, <1>6, <1>11, <2>1
<1>12. CASE readable /\ began
  <2>1. /\ t.outcome = IF FinalizedAt(statuses) = {} THEN "pending" ELSE "FINALIZED"
        /\ t.events = events /\ t.support = SupportOf(statuses)
    BY <1>1, <1>12 DEF statuses
  <2>2. t.outcome \in {"pending", "FINALIZED"} /\ t.outcome # "threw"
    BY <2>1
  <2>3. ASSUME t.outcome = "FINALIZED"
        PROVE  /\ executed
               /\ Cardinality(t.support) = Cardinality(LogReaders)
               /\ {e.reader : e \in t.support} = LogReaders
               /\ t.support \subseteq Undisputed(t.events)
    <3>1. FinalizedAt(statuses) # {}
      BY <2>1, <2>3
    <3>2. /\ Cardinality(SupportOf(statuses)) = 2
          /\ {e.reader : e \in SupportOf(statuses)} = LogReaders
          /\ SupportOf(statuses) \subseteq statuses /\ \E e \in statuses : e.final
      BY <1>9, <3>1, FinalityCited
    <3>3. statuses = Undisputed(t.events)
      BY <2>1 DEF statuses
    <3> QED BY <1>10, <2>1, <3>2, <3>3, LogReadersAre
  <2> QED BY <1>4, <1>12, <2>1, <2>2, <2>3
<1> QED BY <1>11, <1>12

----------------------------------------------------------------------------
\* The steps.

LEMMA LogStarts == ASSUME LogInit PROVE LogInv
<1>1. Written(lines) = {} /\ Events(lines) = {}
  BY DEF LogInit, Written, Events
<1>2. /\ lines = <<>> /\ ~unfinished /\ process = 0 /\ session = NoSession /\ sequence = 0
      /\ own = {} /\ timeline.outcome = "none" /\ ~executed /\ ~cut /\ ~refused
      /\ {unfinished, executed, cut, refused} \subseteq BOOLEAN
  BY DEF LogInit
<1>3. 0 * LinesOfASession = 0 /\ LinesOfASession \in Nat
  BY LinesCounted
<1>4. lines \in Seq(LogLines) /\ Len(lines) = 0
  BY <1>2
<1>5. LogTypes
  BY <1>2, <1>3, <1>4, LogAssumption DEF LogTypes
<1>6. FileStory /\ SessionStory
  BY <1>1, <1>2 DEF FileStory, SessionStory, Distinct
<1>7. TimelineStandsOnTheLog
  BY <1>2 DEF TimelineStandsOnTheLog, OwnEventsAreRead, ThrowsOnlyAfterACut, FinalityIsCited
<1> QED BY <1>5, <1>6, <1>7 DEF LogInv

LEMMA SessionStartsKeeps ==
  ASSUME LogInv, NEW attempt \in Attempts, SessionStarts(attempt) PROVE LogInv'
<1>1. /\ session = NoSession /\ process < Processes
      /\ process' = process + 1 /\ session' = attempt
      /\ sequence' = 0 /\ own' = {} /\ refused' = FALSE
      /\ timeline'.outcome = "none"
      /\ UNCHANGED <<lines, unfinished, executed, cut>>
  BY DEF SessionStarts
<1>2. /\ process \in Nat /\ LogTypes /\ FileStory /\ Processes \in Nat
  BY LogAssumption DEF LogInv, LogTypes
<1>3. /\ process * LinesOfASession <= (process + 1) * LinesOfASession
      /\ LinesOfASession \in Nat /\ process * LinesOfASession \in Nat
      /\ (process + 1) * LinesOfASession \in Nat
  BY <1>2, LinesCounted
<1>4. Len(lines) <= process * LinesOfASession /\ Len(lines) \in Nat
  BY <1>2 DEF LogTypes
<1>5. process + 1 - 1 = process /\ process + 1 \in 0 .. Processes /\ process + 1 > 0
  BY <1>1, <1>2
<1>6. /\ Len(lines') <= process' * LinesOfASession
      /\ Len(lines') <= (process' - 1) * LinesOfASession + sequence'
  <2>1. Len(lines) <= (process + 1) * LinesOfASession
    BY <1>3, <1>4
  <2>2. process' - 1 = process
    <3>1. \A p, q \in Nat : q = p + 1 => q - 1 = p
      OBVIOUS
    <3>2. process' = process + 1 /\ process \in Nat
      BY <1>1, <1>2
    <3>3. process' \in Nat
      BY <3>2
    <3> HIDE <1>1
    <3> QED BY <3>1, <3>2, <3>3, Zenon
  <2>3. Len(lines') <= process' * LinesOfASession
    BY <1>1, <2>1
  <2>4. (process' - 1) * LinesOfASession + sequence' = process * LinesOfASession
    BY <1>1, <1>3, <2>2
  <2> QED BY <1>1, <1>4, <2>3, <2>4
<1>7. LogTypes'
  <2>1. LinesOfASession' = LinesOfASession
    BY DEF LinesOfASession
  <2>2. process' \in 0 .. Processes /\ process' > 0 /\ sequence' \in 0 .. LinesOfASession
    BY <1>1, <1>3, <1>5
  <2> QED BY <1>1, <1>2, <1>6, <2>1, <2>2 DEF LogTypes
<1>8. FileStory'
  <2>1. \A e \in Events(lines) : e.process \in Nat /\ e.process < process + 1
    <3>1. \A e \in Events(lines) : e \in LogEvents
      BY <1>2 DEF Events, Written, LogTypes, LogLines
    <3> QED BY <1>2, <3>1, LogEventIs DEF FileStory
  <2> QED BY <1>1, <1>2, <2>1 DEF FileStory
<1>9. SessionStory' /\ TimelineStandsOnTheLog'
  BY <1>1 DEF SessionStory, TimelineStandsOnTheLog, OwnEventsAreRead, ThrowsOnlyAfterACut, FinalityIsCited
<1> QED BY <1>7, <1>8, <1>9 DEF LogInv

\* What appending an event of this session, or a part of one, leaves.
LEMMA FileGoesOn ==
  ASSUME LogTypes, FileStory, session # NoSession,
         NEW text \in NextEvents \union {Garbled}, NEW file, file = WithText(lines, text)
  PROVE  /\ file \in Seq(LogLines) /\ file # <<>> /\ Len(file) <= Len(lines) + 1
         /\ Garbled \in Written(file) => cut \/ text = Garbled
         /\ \A e \in Events(file) : /\ e.process < process \/ (e.process = process /\ e.sequence <= sequence)
                                    /\ e.type = "status" /\ e.final => executed
         /\ Distinct(Events(file))
         /\ \A e \in Events(lines) \union {text} :
              Garbled \in Written(file) \/ e \in Events(file)
         /\ Garbled \in Written(lines) => Garbled \in Written(file)
<1>1. text \in LogLines /\ (text # Garbled => text \in LogEvents)
  BY NextEventsAre DEF LogLines
<1>2. /\ file \in Seq(LogLines) /\ file # <<>> /\ Len(file) <= Len(lines) + 1
      /\ Written(file) \subseteq Written(lines) \union {text, Garbled}
      /\ Garbled \in Written(file) => Garbled \in Written(lines) \/ unfinished \/ text = Garbled
      /\ Garbled \in Written(file) \/ Written(lines) \union {text} \subseteq Written(file)
  BY <1>1, LineAppended DEF LogTypes, FileStory
<1>3. Garbled \in Written(file) => cut \/ text = Garbled
  BY <1>2 DEF FileStory
<1>4. \A e \in Events(file) : e \in Events(lines) \/ (e = text /\ text # Garbled)
  BY <1>2 DEF Events
<1>5. \A e \in Events(lines) : e \in LogEvents
  BY DEF Events, Written, LogTypes, LogLines
<1>6. text # Garbled =>
        /\ text.process = process /\ text.sequence = sequence /\ sequence \in Nat /\ process \in Nat
        /\ text.type = "status" => text.final = executed
  <2>1. text # Garbled => text \in NextEvents
    OBVIOUS
  <2>2. sequence \in Nat /\ process \in Nat
    BY LogAssumption, LinesCounted DEF LogTypes
  <2> QED BY <2>1, <2>2, NextEventsAre
<1>7. \A e \in Events(lines) :
        /\ e.process < process \/ (e.process = process /\ e.sequence < sequence)
        /\ e.type = "status" /\ e.final => executed
        /\ e.process \in Nat /\ e.sequence \in Nat
  BY <1>5, LogEventIs DEF FileStory
<1>8. process \in Nat /\ sequence \in Nat
  BY LogAssumption, LinesCounted DEF LogTypes
<1>9. ASSUME NEW e \in Events(file)
      PROVE  /\ e.process < process \/ (e.process = process /\ e.sequence <= sequence)
             /\ e.type = "status" /\ e.final => executed
  <2>1. CASE e \in Events(lines)
    BY <1>7, <1>8, <2>1
  <2>2. CASE e = text /\ text # Garbled
    BY <1>6, <2>2
  <2> QED BY <1>4, <2>1, <2>2
<1>10. ASSUME NEW e \in Events(file), NEW f \in Events(file),
              e.process = f.process, e.sequence = f.sequence
       PROVE  e = f
  <2>1. CASE e \in Events(lines) /\ f \in Events(lines)
    BY <1>10, <2>1 DEF FileStory, Distinct
  <2>2. CASE e \in Events(lines) /\ f = text /\ text # Garbled
    BY <1>6, <1>7, <1>10, <2>2
  <2>3. CASE f \in Events(lines) /\ e = text /\ text # Garbled
    BY <1>6, <1>7, <1>10, <2>3
  <2> QED BY <1>4, <2>1, <2>2, <2>3
<1>11. Distinct(Events(file))
  BY <1>10 DEF Distinct
<1>12. \A e \in Events(lines) \union {text} : Garbled \in Written(file) \/ e \in Events(file)
  BY <1>2 DEF Events
<1>13. Garbled \in Written(lines) => Garbled \in Written(file)
  BY <1>2
<1> QED BY <1>2, <1>3, <1>9, <1>11, <1>12, <1>13

LEMMA EventRecordedKeeps == ASSUME LogInv, EventRecorded PROVE LogInv'
<1>1. PICK e \in NextEvents : lines' = WithText(lines, e) /\ own' = own \union {e}
  BY DEF EventRecorded
<1>2. /\ session # NoSession /\ sequence <= Polls * Cardinality(LogReaders)
      /\ unfinished' = FALSE /\ sequence' = sequence + 1
      /\ timeline'.outcome = "none"
      /\ UNCHANGED <<process, session, executed, cut, refused>>
  BY DEF EventRecorded, MayRecord
<1>3. LogTypes /\ FileStory /\ SessionStory
  BY DEF LogInv
<1>4. /\ e \in LogEvents /\ e.attempt = session
      /\ sequence = 0 => e.type = "created"
  BY <1>2, <1>3, NextEventsAre
<1>5. e # Garbled
  BY <1>4, LogEventIs
<1>6. /\ lines' \in Seq(LogLines) /\ lines' # <<>> /\ Len(lines') <= Len(lines) + 1
      /\ Garbled \in Written(lines') => cut \/ e = Garbled
      /\ \A f \in Events(lines') :
           /\ f.process < process \/ (f.process = process /\ f.sequence <= sequence)
           /\ f.type = "status" /\ f.final => executed
      /\ Distinct(Events(lines'))
      /\ \A f \in Events(lines) \union {e} : Garbled \in Written(lines') \/ f \in Events(lines')
      /\ Garbled \in Written(lines) => Garbled \in Written(lines')
  BY <1>1, <1>2, <1>3, FileGoesOn
<1>7. /\ process \in Nat /\ process > 0 /\ sequence \in Nat /\ sequence + 1 <= LinesOfASession
      /\ LinesOfASession \in Nat /\ (process - 1) * LinesOfASession \in Nat
      /\ process * LinesOfASession = (process - 1) * LinesOfASession + LinesOfASession
      /\ Len(lines) \in Nat /\ Len(lines') \in Nat
      /\ Len(lines) <= (process - 1) * LinesOfASession + sequence
  <2>1. process \in Nat /\ process > 0 /\ sequence \in Nat
        /\ Len(lines) <= (process - 1) * LinesOfASession + sequence
    BY <1>2, <1>3, LogAssumption, LinesCounted DEF LogTypes
  <2>2. /\ LinesOfASession \in Nat /\ LinesOfASession = Polls * Cardinality(LogReaders) + 1
        /\ process * LinesOfASession = (process - 1) * LinesOfASession + LinesOfASession
        /\ (process - 1) * LinesOfASession \in Nat
    BY <2>1, LinesCounted
  <2>3. Polls * Cardinality(LogReaders) \in Nat
    BY LogAssumption, LogReadersAre
  <2>4. sequence + 1 <= LinesOfASession
    BY <1>2, <2>1, <2>2, <2>3
  <2>5. Len(lines) \in Nat /\ Len(lines') \in Nat
    BY <1>3, <1>6 DEF LogTypes
  <2> QED BY <2>1, <2>2, <2>4, <2>5
<1>8. /\ Len(lines') <= process * LinesOfASession
      /\ Len(lines') <= (process - 1) * LinesOfASession + (sequence + 1)
  BY <1>6, <1>7
<1>9. sequence' \in 0 .. LinesOfASession
  BY <1>2, <1>7
<1>10. LogTypes'
  BY <1>1, <1>2, <1>3, <1>4, <1>6, <1>7, <1>8, <1>9 DEF LogTypes, LinesOfASession
<1>11. FileStory'
  <2>1. \A f \in Events(lines') : f \in LogEvents
    BY <1>6 DEF Events, Written, LogLines
  <2>2. \A f \in Events(lines') :
          \/ f.process < process
          \/ f.process = process /\ f.sequence < sequence + 1
    BY <1>6, <1>7, <2>1, LogEventIs
  <2> QED BY <1>2, <1>5, <1>6, <2>2 DEF FileStory
<1>12. SessionStory'
  <2>1. \A f \in own' : f.attempt = session /\ (f \in Events(lines') \/ Garbled \in Written(lines'))
    BY <1>1, <1>2, <1>3, <1>4, <1>6 DEF SessionStory
  <2>2. \E f \in own' : f.type = "created"
    BY <1>1, <1>2, <1>3, <1>4, <1>7 DEF SessionStory
  <2> QED BY <1>2, <2>1, <2>2 DEF SessionStory
<1>13. TimelineStandsOnTheLog'
  BY <1>2 DEF TimelineStandsOnTheLog, OwnEventsAreRead, ThrowsOnlyAfterACut, FinalityIsCited
<1> QED BY <1>10, <1>11, <1>12, <1>13 DEF LogInv

\* A session that ended leaves its lines within the bound of its process.
LEMMA EndedWithin ==
  ASSUME LogTypes, session # NoSession, sequence <= Polls * Cardinality(LogReaders)
  PROVE  Len(lines) + 1 <= process * LinesOfASession /\ sequence + 1 \in 0 .. LinesOfASession
<1>1. /\ process \in Nat /\ process > 0 /\ sequence \in Nat /\ Len(lines) \in Nat
      /\ Len(lines) <= (process - 1) * LinesOfASession + sequence
  BY LogAssumption, LinesCounted DEF LogTypes
<1>2. /\ LinesOfASession \in Nat /\ LinesOfASession = Polls * Cardinality(LogReaders) + 1
      /\ process * LinesOfASession = (process - 1) * LinesOfASession + LinesOfASession
      /\ (process - 1) * LinesOfASession \in Nat
  BY <1>1, LinesCounted
<1>3. Polls * Cardinality(LogReaders) \in Nat
  BY LogAssumption, LogReadersAre
<1>4. sequence + 1 <= LinesOfASession
  BY <1>1, <1>2, <1>3
<1> DEFINE before == (process - 1) * LinesOfASession
           all == process * LinesOfASession
<1>5. before \in Nat /\ all = before + LinesOfASession /\ Len(lines) <= before + sequence
  BY <1>1, <1>2
<1> HIDE DEF before, all
<1>6. Len(lines) + 1 <= all
  BY <1>1, <1>2, <1>4, <1>5
<1> QED BY <1>1, <1>2, <1>4, <1>6 DEF all

LEMMA EventRefusedKeeps == ASSUME LogInv, EventRefused PROVE LogInv'
<1>1. /\ session # NoSession /\ sequence <= Polls * Cardinality(LogReaders)
      /\ refused' = TRUE /\ session' = NoSession /\ sequence' = sequence + 1
      /\ UNCHANGED <<lines, unfinished, process, own, timeline, executed, cut>>
  BY DEF EventRefused, MayRecord
<1>2. sequence + 1 \in 0 .. LinesOfASession
  BY <1>1, EndedWithin DEF LogInv
<1>3. LogTypes'
  BY <1>1, <1>2 DEF LogInv, LogTypes, LinesOfASession
<1>4. FileStory' /\ SessionStory'
  BY <1>1 DEF LogInv, FileStory, SessionStory
<1>5. TimelineStandsOnTheLog'
  BY <1>1 DEF LogInv, TimelineStandsOnTheLog, OwnEventsAreRead, ThrowsOnlyAfterACut, FinalityIsCited
<1> QED BY <1>3, <1>4, <1>5 DEF LogInv

LEMMA ProcessDiesKeeps == ASSUME LogInv, ProcessDies PROVE LogInv'
<1>1. /\ session # NoSession /\ session' = NoSession
      /\ UNCHANGED <<process, sequence, own, timeline, executed, refused>>
  BY DEF ProcessDies
<1>2. LogTypes /\ FileStory
  BY DEF LogInv
<1>3. CASE UNCHANGED <<lines, unfinished, cut>>
  <2>1. LogTypes'
    BY <1>1, <1>2, <1>3 DEF LogTypes, LinesOfASession
  <2>2. FileStory' /\ SessionStory'
    BY <1>1, <1>2, <1>3 DEF FileStory, SessionStory
  <2>3. TimelineStandsOnTheLog'
    BY <1>1, <1>3 DEF LogInv, TimelineStandsOnTheLog, OwnEventsAreRead, ThrowsOnlyAfterACut, FinalityIsCited
  <2> QED BY <2>1, <2>2, <2>3 DEF LogInv
<1>4. ASSUME MayRecord, NEW text \in {Garbled} \union NextEvents, lines' = WithText(lines, text),
             unfinished' = TRUE, cut' = TRUE
      PROVE  LogInv'
  <2>1. /\ lines' \in Seq(LogLines) /\ lines' # <<>> /\ Len(lines') <= Len(lines) + 1
        /\ \A f \in Events(lines') :
             /\ f.process < process \/ (f.process = process /\ f.sequence <= sequence)
             /\ f.type = "status" /\ f.final => executed
        /\ Distinct(Events(lines'))
    BY <1>1, <1>2, <1>4, FileGoesOn
  <2>2. Len(lines) + 1 <= process * LinesOfASession /\ process * LinesOfASession \in Nat
    BY <1>1, <1>2, <1>4, EndedWithin, LinesCounted, LogAssumption DEF MayRecord, LogTypes
  <2>3. Len(lines') <= process * LinesOfASession
    <3>1. Len(lines') \in Nat /\ Len(lines) \in Nat
      BY <1>2, <2>1 DEF LogTypes
    <3> QED BY <2>1, <2>2, <3>1
  <2>4. LogTypes'
    BY <1>1, <1>2, <1>4, <2>1, <2>3 DEF LogTypes, LinesOfASession
  <2>5. FileStory' /\ SessionStory'
    BY <1>1, <1>4, <2>1 DEF FileStory, SessionStory
  <2>6. TimelineStandsOnTheLog'
    BY <1>1, <1>4 DEF LogInv, TimelineStandsOnTheLog, OwnEventsAreRead, ThrowsOnlyAfterACut, FinalityIsCited
  <2> QED BY <2>4, <2>5, <2>6 DEF LogInv
<1> QED BY <1>3, <1>4 DEF ProcessDies

LEMMA TimelineReadKeeps == ASSUME LogInv, TimelineRead PROVE LogInv'
<1>1. /\ session # NoSession /\ sequence > 0
      /\ timeline' = DeriveTimeline(lines, session)
      /\ session' \in {session, NoSession}
      /\ UNCHANGED <<lines, unfinished, process, sequence, own, executed, cut, refused>>
  BY DEF TimelineRead, AwaitsTimeline, PollRecorded
<1>2. LogTypes /\ FileStory /\ SessionStory
  BY DEF LogInv
<1>3. /\ timeline'.outcome \in {"threw", "pending", "FINALIZED"}
      /\ timeline'.outcome \in {"pending", "FINALIZED"} => own \subseteq timeline'.events
      /\ timeline'.outcome = "threw" => cut
      /\ timeline'.outcome = "FINALIZED" =>
           /\ executed
           /\ Cardinality(timeline'.support) = Cardinality(LogReaders)
           /\ {e.reader : e \in timeline'.support} = LogReaders
           /\ timeline'.support \subseteq Undisputed(timeline'.events)
  BY <1>1, <1>2, DerivedFromTheLog
<1>4. LogTypes'
  BY <1>1, <1>2, <1>3 DEF LogTypes, LinesOfASession
<1>5. FileStory' /\ SessionStory'
  BY <1>1, <1>2 DEF FileStory, SessionStory
<1>6. TimelineStandsOnTheLog'
  BY <1>1, <1>3 DEF TimelineStandsOnTheLog, OwnEventsAreRead, ThrowsOnlyAfterACut, FinalityIsCited
<1> QED BY <1>4, <1>5, <1>6 DEF LogInv

LEMMA LedgerFinalizesKeeps == ASSUME LogInv, LedgerFinalizes PROVE LogInv'
BY DEF LedgerFinalizes, LogInv, LogTypes, LinesOfASession, FileStory, SessionStory,
       TimelineStandsOnTheLog, OwnEventsAreRead, ThrowsOnlyAfterACut, FinalityIsCited

LEMMA LogKeeps == ASSUME LogInv, [LogNext]_logVars PROVE LogInv'
<1>1. ASSUME UNCHANGED logVars PROVE LogInv'
  BY <1>1 DEF logVars, LogInv, LogTypes, LinesOfASession, FileStory, SessionStory,
       TimelineStandsOnTheLog, OwnEventsAreRead, ThrowsOnlyAfterACut, FinalityIsCited
<1> QED BY <1>1, SessionStartsKeeps, EventRecordedKeeps, EventRefusedKeeps, ProcessDiesKeeps,
           TimelineReadKeeps, LedgerFinalizesKeeps DEF LogNext

LEMMA LogInvariant == LogSpec => []LogInv
<1> QED BY LogStarts, LogKeeps, PTL DEF LogSpec

\* Every variable of the log and its processes keeps its type, and the file is
\* no longer than its processes may have made it.
THEOREM LogTyped == LogSpec => []LogTypeOK
<1>1. LogInv => LogTypeOK
  <2>1. SUFFICES ASSUME LogInv PROVE LogTypeOK
    OBVIOUS
  <2>2. LogTypes
    BY <2>1 DEF LogInv
  <2>3. process \in Nat /\ process <= Processes /\ Processes \in Nat /\ Len(lines) \in Nat
    BY <2>2, LogAssumption DEF LogTypes
  <2>4. /\ LinesOfASession \in Nat /\ LinesOfASession = Polls * Cardinality(LogReaders) + 1
        /\ process * LinesOfASession <= Processes * LinesOfASession
        /\ process * LinesOfASession \in Nat /\ Processes * LinesOfASession \in Nat
    BY <2>3, LinesCounted
  <2>5. Len(lines) <= process * LinesOfASession
    BY <2>2 DEF LogTypes
  <2>6. Len(lines) <= Processes * (Polls * Cardinality(LogReaders) + 1)
    BY <2>3, <2>4, <2>5
  <2> QED BY <2>2, <2>4, <2>6 DEF LogTypeOK, LogTypes
<1> QED BY <1>1, LogInvariant, PTL

\* A timeline shows all its session recorded, throws only after a cut, and
\* says FINALIZED only of a final transaction, citing one event of each reader.
THEOREM TimelineOnTheLog == LogSpec => []TimelineStandsOnTheLog
<1>1. LogInv => TimelineStandsOnTheLog
  BY DEF LogInv
<1> QED BY <1>1, LogInvariant, PTL

----------------------------------------------------------------------------
(* The parts together.                                                     *)

\* The records and the answers of the proxy keep their types.
THEOREM ProxyTyped == ProxySpec => []ProxyTypeOK
<1>1. ProxyInv => ProxyTypeOK
  BY DEF ProxyInv
<1> QED BY <1>1, ProxyInvInit, ProxyInvStep, PTL DEF ProxySpec

\* A step of the parts is a step of each component, or leaves it as it is.
LEMMA PartsStep ==
  ASSUME [PartsNext]_partsVars
  PROVE  /\ UNCHANGED part
         /\ [WorkerNext]_workerVars /\ [RehearsalNext]_rehearsalVars /\ [DryRunNext]_dryRunVars
         /\ [CampaignNext]_campaignVars /\ [SoakNext]_soakVars /\ [ProxyNext]_proxyVars
         /\ [WindowNext]_windowVars /\ [LogNext]_logVars /\ [TrackNext]_trackVars
<1>1. CASE UNCHANGED partsVars
  BY <1>1 DEF partsVars
<1>2. CASE WorkerMoves
  BY <1>2, Zenon DEF WorkerMoves, Only
<1>3. CASE RehearsalMoves
  BY <1>3, Zenon DEF RehearsalMoves, Only
<1>4. CASE DryRunMoves
  BY <1>4, Zenon DEF DryRunMoves, Only
<1>5. CASE CampaignMoves
  BY <1>5, Zenon DEF CampaignMoves, Only
<1>6. CASE SoakMoves
  BY <1>6, Zenon DEF SoakMoves, Only
<1>7. CASE ProxyMoves
  BY <1>7, Zenon DEF ProxyMoves, Only
<1>8. CASE AnalysisMoves
  BY <1>8, Zenon DEF AnalysisMoves, Only
<1>9. CASE LogMoves
  BY <1>9, Zenon DEF LogMoves, Only
<1>10. CASE TelemetryMoves
  BY <1>10, Zenon DEF TelemetryMoves, Only
<1> QED BY <1>1, <1>2, <1>3, <1>4, <1>5, <1>6, <1>7, <1>8, <1>9, <1>10 DEF PartsNext

\* Whichever part moves, its variables keep their types; the dry run is of
\* finitely many invocations.
THEOREM SafePartsTyped == ASSUME IsFiniteSet(Invocations) PROVE PartsSpec => []SafePartsTypeOK
<1>1. PartsInit =>
        /\ part \in Parts
        /\ WorkerInit /\ RehearsalInit /\ DryRunInit /\ CampaignInit
        /\ SoakInit /\ ProxyInit /\ WindowInit /\ LogInit /\ TrackInit
  BY DEF PartsInit
<1>2. [PartsNext]_partsVars =>
        /\ (part \in Parts => (part \in Parts)')
        /\ [WorkerNext]_workerVars /\ [RehearsalNext]_rehearsalVars /\ [DryRunNext]_dryRunVars
        /\ [CampaignNext]_campaignVars /\ [SoakNext]_soakVars /\ [ProxyNext]_proxyVars
        /\ [WindowNext]_windowVars /\ [LogNext]_logVars /\ [TrackNext]_trackVars
  BY PartsStep
<1>3. PartsSpec => WorkerSpec /\ RehearsalSpec /\ DryRunSpec
  BY <1>1, <1>2, PTL DEF PartsSpec, WorkerSpec, RehearsalSpec, DryRunSpec
<1>4. PartsSpec => CampaignSpec /\ SoakSpec /\ ProxySpec
  BY <1>1, <1>2, PTL DEF PartsSpec, CampaignSpec, SoakSpec, ProxySpec
<1>5. PartsSpec => WindowSpec /\ LogSpec /\ TrackSpec
  BY <1>1, <1>2, PTL DEF PartsSpec, WindowSpec, LogSpec, TrackSpec
<1>6. PartsSpec => [](part \in Parts)
  BY <1>1, <1>2, PTL DEF PartsSpec
<1>7. (/\ part \in Parts
       /\ WorkerTypeOK /\ RehearsalTypeOK /\ DryRunTypeOK /\ CampaignTypeOK /\ SoakTypeOK
       /\ ProxyTypeOK /\ WindowTypeOK /\ LogTypeOK /\ TrackTypeOK) => SafePartsTypeOK
  <2> SUFFICES ASSUME part \in Parts, WorkerTypeOK, RehearsalTypeOK, DryRunTypeOK, CampaignTypeOK,
                      SoakTypeOK, ProxyTypeOK, WindowTypeOK, LogTypeOK, TrackTypeOK
               PROVE  SafePartsTypeOK
    OBVIOUS
  <2> QED BY Zenon DEF SafePartsTypeOK, Parts
<1>8. DryRunSpec => []DryRunTypeOK
  BY DryRunTyped
<1> QED BY <1>3, <1>4, <1>5, <1>6, <1>7, <1>8, WorkerTyped, RehearsalTyped, CampaignTyped, SoakTyped,
           ProxyTyped, WindowTyped, LogTyped, TimelineTyped, PTL
=============================================================================
