------------------------ MODULE SlotFinalizerProofs ------------------------
(***************************************************************************)
(* Proofs about the slot finalizer, for every set of slots, every bound    *)
(* and every feed of blocks: its type invariant, that no wakeup of the     *)
(* worker or of a blocked producer is lost, and that the Finalized row     *)
(* never moves back.                                                       *)
(***************************************************************************)
EXTENDS SlotFinalizer, FiniteSetTheorems, TLAPS

USE DEF finalizerVars

\* The initial state is well typed.
LEMMA InitTypeOK == FinalizerInit => FinalizerTypeOK
  BY HashAssumption DEF FinalizerInit, FinalizerTypeOK, WorkerStates, ProducerStates

\* The ancestor walk only reaches recorded slots.
LEMMA AncestorsAreSlots ==
  ASSUME NEW b, NEW s
  PROVE  Ancestors(b, s) \subseteq Slots
  BY DEF Ancestors

\* Every step of the finalizer keeps its state well typed.
LEMMA NextTypeOK ==
  FinalizerTypeOK /\ [FinalizerNext]_finalizerVars => FinalizerTypeOK'
<1> SUFFICES ASSUME FinalizerTypeOK, [FinalizerNext]_finalizerVars
             PROVE  FinalizerTypeOK'
  OBVIOUS
<1> USE DEF FinalizerTypeOK, WorkerStates, ProducerStates
<1>1. CASE WorkerCheck
  BY <1>1 DEF WorkerCheck
<1>2. CASE WorkerWake
  BY <1>2 DEF WorkerWake
<1>3. CASE WorkerBreak
  BY <1>3 DEF WorkerBreak
<1>4. CASE WorkerPop
  BY <1>4 DEF WorkerPop
<1>5. CASE WorkerWalk
  <2>1. chain' \subseteq Slots
    BY <1>5, AncestorsAreSlots DEF WorkerWalk
  <2>2. blocks' \in [Slots -> Entry \cup {NoBlock}]
    BY <1>5 DEF WorkerWalk
  <2> QED
    BY <1>5, <2>1, <2>2 DEF WorkerWalk
<1>6. CASE FinalizeSlot
  <2>1. PICK s \in chain : InsertFinalized(s) /\ chain' = chain \ {s}
                           /\ finalized' = finalized \cup {s}
    BY <1>6 DEF FinalizeSlot
  <2>2. tip' \in Slots \cup {0}
    BY <2>1 DEF InsertFinalized
  <2> QED
    BY <1>6, <2>1, <2>2 DEF FinalizeSlot
<1>7. CASE WorkerNotify
  BY <1>7 DEF WorkerNotify
<1>8. CASE NoteInsert
  BY <1>8 DEF NoteInsert
<1>9. CASE NoteWake
  BY <1>9 DEF NoteWake
<1>10. CASE \E f \in Feed : RecordBlock(f[1], f[2])
  BY <1>10, FeedAssumption DEF RecordBlock
<1>11. CASE \E s \in Slots : NoteFinalized(s)
  BY <1>11 DEF NoteFinalized
<1>12. CASE \E s \in Slots : EnqueueUnbounded(s)
  BY <1>12 DEF EnqueueUnbounded
<1>13. CASE PauseFinalizer
  BY <1>13 DEF PauseFinalizer
<1>14. CASE ResumeFinalizer
  BY <1>14 DEF ResumeFinalizer
<1>15. CASE UNCHANGED finalizerVars
  BY <1>15
<1> QED
  BY <1>1, <1>2, <1>3, <1>4, <1>5, <1>6, <1>7, <1>8, <1>9, <1>10, <1>11, <1>12,
     <1>13, <1>14, <1>15 DEF FinalizerNext, WorkerStep, ProducerStep, CallerStep

\* The finalizer's state is always well typed.
THEOREM FinalizerTypeCorrect == FinalizerSpec => []FinalizerTypeOK
  BY InitTypeOK, NextTypeOK, PTL DEF FinalizerSpec

----------------------------------------------------------------------------

\* Every step keeps the worker from sleeping over work without a permit: the
\* worker only falls asleep when paused or idle, and whoever ends either state
\* stores a permit.
LEMMA NextNoLostWork ==
  FinalizerTypeOK /\ NoLostWork /\ [FinalizerNext]_finalizerVars => NoLostWork'
<1> SUFFICES ASSUME FinalizerTypeOK, NoLostWork, [FinalizerNext]_finalizerVars
             PROVE  NoLostWork'
  OBVIOUS
<1> USE DEF NoLostWork
<1>1. CASE WorkerStep
  BY <1>1 DEF WorkerStep, WorkerCheck, WorkerWake, WorkerBreak, WorkerPop, WorkerWalk,
              FinalizeSlot, WorkerNotify
<1>2. CASE NoteInsert
  BY <1>2 DEF NoteInsert
<1>3. CASE NoteWake
  BY <1>3 DEF NoteWake
<1>4. CASE \E f \in Feed : RecordBlock(f[1], f[2])
  BY <1>4 DEF RecordBlock
<1>5. CASE \E s \in Slots : NoteFinalized(s)
  BY <1>5 DEF NoteFinalized
<1>6. CASE \E s \in Slots : EnqueueUnbounded(s)
  BY <1>6 DEF EnqueueUnbounded
<1>7. CASE PauseFinalizer
  BY <1>7 DEF PauseFinalizer
<1>8. CASE ResumeFinalizer
  BY <1>8 DEF ResumeFinalizer
<1>9. CASE UNCHANGED finalizerVars
  BY <1>9
<1> QED
  BY <1>1, <1>2, <1>3, <1>4, <1>5, <1>6, <1>7, <1>8, <1>9
     DEF FinalizerNext, ProducerStep, CallerStep

\* No wakeup of the worker is lost, whatever the callers do.
THEOREM WorkerNeverMissesWork == FinalizerSpec => []NoLostWork
<1>1. FinalizerInit => NoLostWork
  BY DEF FinalizerInit, NoLostWork
<1> QED
  BY <1>1, NextNoLostWork, FinalizerTypeCorrect, PTL DEF FinalizerSpec

\* The queue is finite, and a set of slots that grows does not get smaller.
LEMMA PendingGrows ==
  ASSUME NEW P \in SUBSET Slots, NEW s \in Slots
  PROVE  /\ Cardinality(P) \in Nat
         /\ Cardinality(P) <= Cardinality(P \cup {s})
<1>1. IsFiniteSet(P) /\ IsFiniteSet(P \cup {s})
  BY SlotsAssumption, FS_Subset
<1> QED
  BY <1>1, FS_CardinalityType, FS_Subset, P \in SUBSET (P \cup {s})

\* Every step keeps a blocked producer's wakeup: it only falls asleep on a full
\* queue, and only the worker takes slots out, to notify afterwards.
LEMMA NextNoLostSpace ==
  FinalizerTypeOK /\ NoLostSpace /\ [FinalizerNext]_finalizerVars => NoLostSpace'
<1> SUFFICES ASSUME FinalizerTypeOK, NoLostSpace, [FinalizerNext]_finalizerVars
             PROVE  NoLostSpace'
  OBVIOUS
<1> USE DEF NoLostSpace
<1>1. CASE WorkerStep
  <2>1. CASE WorkerCheck
    BY <1>1, <2>1 DEF WorkerCheck
  <2>2. CASE WorkerWake
    BY <1>1, <2>2 DEF WorkerWake
  <2>3. CASE WorkerBreak
    BY <1>1, <2>3 DEF WorkerBreak
  <2>4. CASE WorkerPop \/ WorkerWalk \/ FinalizeSlot \/ WorkerNotify
    BY <2>4 DEF WorkerPop, WorkerWalk, FinalizeSlot, WorkerNotify
  <2> QED
    BY <1>1, <2>1, <2>2, <2>3, <2>4 DEF WorkerStep
<1>2. CASE NoteInsert
  BY <1>2 DEF NoteInsert
<1>3. CASE NoteWake
  BY <1>3 DEF NoteWake
<1>4. CASE \E f \in Feed : RecordBlock(f[1], f[2])
  BY <1>4 DEF RecordBlock
<1>5. CASE \E s \in Slots : NoteFinalized(s)
  BY <1>5 DEF NoteFinalized
<1>6. CASE \E s \in Slots : EnqueueUnbounded(s)
  <2>1. PICK s \in Slots : EnqueueUnbounded(s)
    BY <1>6
  <2>2. /\ Cardinality(pending) \in Nat
        /\ Cardinality(pending) <= Cardinality(pending')
        /\ Cardinality(pending') \in Nat
    <3>1. pending \in SUBSET Slots /\ pending' \in SUBSET Slots
      BY <2>1 DEF EnqueueUnbounded, FinalizerTypeOK
    <3>2. pending' = pending \cup {s}
      BY <2>1 DEF EnqueueUnbounded
    <3> QED
      BY <3>1, <3>2, PendingGrows
  <2>3. Cardinality(pending') < Bound => Cardinality(pending) < Bound
    BY <2>2, BoundAssumption
  <2> QED
    BY <2>1, <2>3 DEF EnqueueUnbounded
<1>7. CASE PauseFinalizer
  BY <1>7 DEF PauseFinalizer
<1>8. CASE ResumeFinalizer
  BY <1>8 DEF ResumeFinalizer
<1>9. CASE UNCHANGED finalizerVars
  BY <1>9
<1> QED
  BY <1>1, <1>2, <1>3, <1>4, <1>5, <1>6, <1>7, <1>8, <1>9
     DEF FinalizerNext, ProducerStep, CallerStep

\* No wakeup of a producer blocked by back-pressure is lost.
THEOREM ProducerNeverMissesSpace == FinalizerSpec => []NoLostSpace
<1>1. FinalizerInit => NoLostSpace
  BY DEF FinalizerInit, NoLostSpace
<1> QED
  BY <1>1, NextNoLostSpace, FinalizerTypeCorrect, PTL DEF FinalizerSpec

----------------------------------------------------------------------------

\* The Finalized row never moves back, in whatever order slots are finalized.
THEOREM TipIsMonotonic == FinalizerSpec => TipNeverRegresses
<1>1. FinalizerTypeOK /\ [FinalizerNext]_finalizerVars => [tip' >= tip]_finalizerVars
  <2> SUFFICES ASSUME FinalizerTypeOK, FinalizerNext
               PROVE  tip' >= tip
    OBVIOUS
  <2>1. tip \in Int
    BY SlotsAssumption DEF FinalizerTypeOK
  <2>2. CASE FinalizeSlot
    <3>1. PICK s \in chain : InsertFinalized(s)
      BY <2>2 DEF FinalizeSlot
    <3>2. s \in Int
      BY <3>1, SlotsAssumption DEF FinalizerTypeOK
    <3> QED
      BY <2>1, <3>1, <3>2 DEF InsertFinalized
  <2>3. CASE ~FinalizeSlot
    <3>1. tip' = tip
      BY <2>3 DEF FinalizerNext, WorkerStep, ProducerStep, CallerStep, WorkerCheck,
        WorkerWake, WorkerBreak, WorkerPop, WorkerWalk, WorkerNotify, NoteInsert,
        NoteWake, RecordBlock, NoteFinalized, EnqueueUnbounded, PauseFinalizer,
        ResumeFinalizer
    <3> QED
      BY <2>1, <3>1
  <2> QED
    BY <2>2, <2>3
<1> QED
  BY <1>1, FinalizerTypeCorrect, PTL DEF FinalizerSpec, TipNeverRegresses

=============================================================================
