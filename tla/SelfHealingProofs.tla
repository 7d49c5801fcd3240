------------------------- MODULE SelfHealingProofs -------------------------
(***************************************************************************)
(* Proofs about gap detection and repair, for every set of slots, every    *)
(* chain, every loss of blocks and notifications, every bound and every    *)
(* set of snapshots: type correctness, that the composition uses the slot  *)
(* finalizer as its module allows (hence every theorem about the finalizer *)
(* holds of it), that a node that starts up is not reported healthy, that  *)
(* gap detection misses nothing, and that no recorded block is left        *)
(* behind.                                                                 *)
(***************************************************************************)
EXTENDS SelfHealing, SlotFinalizerProofs, WellFoundedInduction

USE DEF mainVars, fillVars, sharedVars, healthVars, vars

\* The types of the state this module adds to the finalizer and to health.
GapFillTypeOK ==
  /\ lastSlot \in Slots \cup {0} /\ lastHash \in Hash
  /\ gaps \subseteq Slots /\ boundaries \subseteq Slots
  /\ supply \in {"Live", "GapFilling"}
  /\ ready \in BOOLEAN /\ exited \in BOOLEAN
  /\ main \in {"idle", "boundary", "pause", "reason", "mark", "record"}
  /\ fill \in {"sleep", "bounds", "resume", "unreason", "written", "fetch",
               "emit", "enqueue", "seed", "finish"}
  /\ block \in Slots \cup {0} /\ repair \in Slots \cup {0}
  /\ myGaps \subseteq Slots /\ myBounds \subseteq Slots /\ emits \subseteq Slots
  /\ retries \in 0..MaxRetries
  /\ seen \subseteq Slots /\ late \subseteq Slots /\ repaired \subseteq Slots
  /\ notedUpTo \in Slots \cup {0}

\* What each control state knows of the slots it works on, and that the retries
\* stay below the limit while the indexer runs.
ControlKnows ==
  /\ main # "idle" => block \in Produced
  /\ main = "boundary" => lastSlot \in Slots
  /\ fill = "enqueue" => repair \in Slots
  /\ ~exited => retries < MaxRetries

\* The inductive invariant behind TypeOK.
HealingInv == FinalizerTypeOK /\ HealthTypeOK /\ GapFillTypeOK /\ ControlKnows

\* The parts of TypeOK, as the proof takes them.
LEMMA TypeParts == TypeOK <=> FinalizerTypeOK /\ HealthTypeOK /\ GapFillTypeOK
  BY DEF TypeOK, GapFillTypeOK

\* The invariant holds initially.
LEMMA InitHealing == Init => HealingInv
<1> SUFFICES ASSUME Init PROVE HealingInv
  OBVIOUS
<1>1. FinalizerTypeOK
  BY InitTypeOK DEF Init
<1>2. HealthTypeOK
  BY DEF Init, HealthInit, HealthTypeOK, Reasons, Writes
<1>3. /\ ready \in BOOLEAN /\ exited \in BOOLEAN
      /\ main = "idle" /\ fill = "sleep" /\ supply = "Live"
  BY DEF Init, GapFillInit
<1>4. /\ lastSlot \in Slots \cup {0} /\ lastHash \in Hash
      /\ block \in Slots \cup {0} /\ repair \in Slots \cup {0}
      /\ notedUpTo \in Slots \cup {0}
  BY HashAssumption DEF Init, GapFillInit
<1>5. /\ gaps \subseteq Slots /\ boundaries \subseteq Slots
      /\ myGaps \subseteq Slots /\ myBounds \subseteq Slots /\ emits \subseteq Slots
      /\ seen \subseteq Slots /\ late \subseteq Slots /\ repaired \subseteq Slots
  BY DEF Init, GapFillInit
<1>6. retries \in 0..MaxRetries /\ retries < MaxRetries
  BY HealingAssumption DEF Init, GapFillInit
<1>7. GapFillTypeOK
  BY <1>3, <1>4, <1>5, <1>6 DEF GapFillTypeOK
<1>8. ControlKnows
  BY <1>3, <1>6 DEF ControlKnows
<1> QED
  BY <1>1, <1>2, <1>7, <1>8 DEF HealingInv

\* A step of the composition is a step of the finalizer or leaves it alone.
LEMMA FinalizerStepOrStutter ==
  HealingInv /\ [Next]_vars => [FinalizerNext]_finalizerVars
<1> SUFFICES ASSUME HealingInv, Next
             PROVE  [FinalizerNext]_finalizerVars
  BY DEF finalizerVars
<1>1. CASE FinalizerWorker \/ BlockedMain
  BY <1>1 DEF FinalizerWorker, BlockedMain, FinalizerNext
<1>2. CASE SaveBlock
  <2>1. <<block, LiveEntry(block)>> \in Feed
    BY <1>2, RecordedAssumption DEF SaveBlock, HealingInv, ControlKnows
  <2>2. RecordBlock(block, LiveEntry(block))
    BY <1>2 DEF SaveBlock
  <2>3. \E f \in Feed : RecordBlock(f[1], f[2])
    BY <2>1, <2>2, Zenon
  <2> QED
    BY <2>3 DEF FinalizerNext, CallerStep
<1>3. CASE \E s \in Slots : FillSave(s)
  <2>1. PICK s \in Slots : RecordBlock(s, RepairedEntry)
    BY <1>3 DEF FillSave
  <2>2. <<s, RepairedEntry>> \in Feed
    BY RecordedAssumption
  <2>3. \E f \in Feed : RecordBlock(f[1], f[2])
    BY <2>1, <2>2
  <2> QED
    BY <2>3 DEF FinalizerNext, CallerStep
<1>4. CASE \E s \in Slots : SlotFinalized(s)
  BY <1>4 DEF SlotFinalized, FinalizerNext, CallerStep
<1>5. CASE FillEnqueue
  BY <1>5 DEF FillEnqueue, FinalizerNext, CallerStep, HealingInv, ControlKnows
<1>6. CASE \E b \in Slots : FillSeed(b)
  BY <1>6 DEF FillSeed, FinalizerNext, CallerStep
<1>7. CASE GapPause
  BY <1>7 DEF GapPause, FinalizerNext, CallerStep
<1>8. CASE FillResume
  BY <1>8 DEF FillResume, FinalizerNext, CallerStep
<1>9. CASE \/ StartupTask \/ Exited
           \/ \E t \in Tasks : HealthWrite(t)
           \/ \E s \in Slots : BlockOutOfOrder(s) \/ BlockContinues(s) \/ BlockAfterGap(s)
  BY <1>9 DEF StartupTask, StartupFinishes, HealthWrite, Exited,
              BlockOutOfOrder, BlockContinues, BlockAfterGap
<1>10. CASE \/ GapBoundary \/ GapReason \/ GapMark
            \/ FillWake \/ FillBounds \/ FillUnreason \/ FillRound \/ FillPanics
            \/ FillFetchFails \/ \E base \in Bases : FillFetch(base)
            \/ FillProcessingFails \/ FillEmpties \/ FillRemaining \/ FillFinishGap
  BY <1>10 DEF GapBoundary, GapReason, GapMark, FillWake, FillBounds, FillUnreason,
               FillRound, FillPanics, FillFetchFails, FillFetch, FillProcessingFails,
               FillEmpties, FillRemaining, FillFinishGap
<1> QED
  BY <1>1, <1>2, <1>3, <1>4, <1>5, <1>6, <1>7, <1>8, <1>9, <1>10, HealingAssumption
     DEF Next, StreamStep, MainTask, MainStep, FillTask, FillStep

\* The state of gap detection and repair keeps its types.
LEMMA StepGapFill ==
  HealingInv /\ [Next]_vars => GapFillTypeOK' /\ ControlKnows'
<1> SUFFICES ASSUME GapFillTypeOK, ControlKnows, [Next]_vars
             PROVE  GapFillTypeOK' /\ ControlKnows'
  BY DEF HealingInv
<1> USE DEF GapFillTypeOK, ControlKnows
<1>1. CASE UNCHANGED vars
  BY <1>1
<1>2. CASE StartupFinishes
  BY <1>2 DEF StartupFinishes
<1>3. CASE \E t \in Tasks : HealthWrite(t)
  BY <1>3 DEF HealthWrite
<1>4. CASE FinalizerWorker \/ BlockedMain
  BY <1>4 DEF FinalizerWorker, BlockedMain
<1>5. CASE \E s \in Slots : BlockOutOfOrder(s)
  BY <1>5, HealingAssumption DEF BlockOutOfOrder, MayDeliver
<1>6. CASE \E s \in Slots : BlockContinues(s)
  BY <1>6, HealingAssumption DEF BlockContinues, MayDeliver
<1>7. CASE \E s \in Slots : BlockAfterGap(s)
  BY <1>7, HealingAssumption DEF BlockAfterGap, MayDeliver, GapBefore
<1>8. CASE \E s \in Slots : SlotFinalized(s)
  BY <1>8, HealingAssumption DEF SlotFinalized
<1>9. CASE GapBoundary
  BY <1>9, HealingAssumption DEF GapBoundary
<1>10. CASE GapPause
  BY <1>10, HealingAssumption DEF GapPause
<1>11. CASE GapReason
  BY <1>11, HealingAssumption DEF GapReason
<1>12. CASE GapMark
  BY <1>12, HealingAssumption DEF GapMark
<1>13. CASE SaveBlock
  BY <1>13, HealingAssumption DEF SaveBlock
<1>14. CASE FillWake
  BY <1>14 DEF FillWake
<1>15. CASE FillBounds
  BY <1>15 DEF FillBounds
<1>16. CASE FillResume
  BY <1>16 DEF FillResume
<1>17. CASE FillUnreason
  BY <1>17 DEF FillUnreason
<1>18. CASE FillRound
  BY <1>18 DEF FillRound
<1>19. CASE FillPanics
  BY <1>19 DEF FillPanics
<1>20. CASE FillFetchFails
  <2>1. /\ ~exited /\ retries' = retries + 1
        /\ UNCHANGED <<mainVars, sharedVars, emits, repair, repaired>>
    BY <1>20 DEF FillFetchFails
  <2>2. retries < MaxRetries /\ retries \in Nat /\ MaxRetries \in Nat
    BY <2>1, HealingAssumption
  <2>3. retries' \in 0..MaxRetries
    BY <2>1, <2>2
  <2>4. CASE retries' >= MaxRetries
    <3>1. exited' = TRUE /\ UNCHANGED <<fill, myGaps, myBounds>>
      BY <1>20, <2>4 DEF FillFetchFails
    <3> QED
      BY <2>1, <2>3, <3>1
  <2>5. CASE ~(retries' >= MaxRetries)
    <3>1. fill' = "sleep" /\ myGaps' = {} /\ myBounds' = {} /\ UNCHANGED exited
      BY <1>20, <2>5 DEF FillFetchFails
    <3>2. retries' < MaxRetries
      BY <2>1, <2>2, <2>5
    <3> QED
      BY <2>1, <2>3, <3>1, <3>2
  <2> QED
    BY <2>4, <2>5
<1>21. CASE FillEnqueue
  BY <1>21 DEF FillEnqueue
<1>22. CASE FillProcessingFails
  BY <1>22 DEF FillProcessingFails
<1>23. CASE FillEmpties
  BY <1>23 DEF FillEmpties
<1>24. CASE FillRemaining
  BY <1>24 DEF FillRemaining
<1>25. CASE FillFinishGap
  BY <1>25 DEF FillFinishGap
<1>26. CASE \E base \in Bases : FillFetch(base)
  BY <1>26, HealingAssumption DEF FillFetch
<1>27. CASE \E s \in Slots : FillSave(s)
  BY <1>27 DEF FillSave
<1>28. CASE \E b \in Slots : FillSeed(b)
  BY <1>28 DEF FillSeed
<1> HIDE DEF GapFillTypeOK, ControlKnows
<1> QED
  BY <1>1, <1>2, <1>3, <1>4, <1>5, <1>6, <1>7, <1>8, <1>9, <1>10, <1>11, <1>12,
     <1>13, <1>14, <1>15, <1>16, <1>17, <1>18, <1>19, <1>20, <1>21, <1>22, <1>23,
     <1>24, <1>25, <1>26, <1>27, <1>28, HealingAssumption
     DEF Next, StreamStep, StartupTask, MainTask, MainStep, FillTask, FillStep, Exited

\* What the tasks of the indexer do to health.
HealthStep ==
  \E t \in Tasks : \/ AddReason(t, "GapFill")
                   \/ \E r \in Reasons : RemoveReason(t, r)
                   \/ WriteHealth(t)

\* A step of the composition is a step of health or leaves it alone.
LEMMA HealthStepOrStutter == [Next]_vars => HealthStep \/ UNCHANGED healthVars
<1> SUFFICES ASSUME Next, ~ UNCHANGED healthVars
             PROVE  HealthStep
  BY DEF healthVars
<1> USE DEF HealthStep
<1> HIDE DEF healthVars
<1>1. CASE StartupFinishes
  BY <1>1, HealingAssumption DEF StartupFinishes, Reasons
<1>2. CASE GapReason
  BY <1>2, HealingAssumption DEF GapReason
<1>3. CASE FillUnreason
  BY <1>3, HealingAssumption DEF FillUnreason, Reasons
<1>4. CASE HealthWrite("main") \/ HealthWrite("fill") \/ HealthWrite("startup")
  BY <1>4, HealingAssumption DEF HealthWrite
<1>5. CASE \/ Exited \/ FinalizerWorker \/ BlockedMain
           \/ \E s \in Slots : \/ BlockOutOfOrder(s) \/ BlockContinues(s)
                               \/ BlockAfterGap(s) \/ SlotFinalized(s)
           \/ GapBoundary \/ GapPause \/ GapMark \/ SaveBlock
  BY <1>5 DEF Exited, FinalizerWorker, BlockedMain,
              BlockOutOfOrder, BlockContinues, BlockAfterGap, SlotFinalized,
              GapBoundary, GapPause, GapMark, SaveBlock
<1>6. CASE \/ FillWake \/ FillBounds \/ FillResume \/ FillRound \/ FillPanics
           \/ FillFetchFails \/ \E base \in Bases : FillFetch(base)
           \/ \E s \in Slots : FillSave(s) \/ FillSeed(s)
           \/ FillEnqueue \/ FillProcessingFails \/ FillEmpties
           \/ FillRemaining \/ FillFinishGap
  BY <1>6 DEF FillWake, FillBounds, FillResume, FillRound, FillPanics, FillFetchFails,
              FillFetch, FillSave, FillSeed, FillEnqueue, FillProcessingFails,
              FillEmpties, FillRemaining, FillFinishGap
<1> QED
  BY <1>1, <1>2, <1>3, <1>4, <1>5, <1>6
     DEF Next, StreamStep, StartupTask, MainTask, MainStep, FillTask, FillStep

\* The health state keeps its types.
LEMMA StepHealth == HealthTypeOK /\ [Next]_vars => HealthTypeOK'
<1> SUFFICES ASSUME HealthTypeOK, [Next]_vars
             PROVE  HealthTypeOK'
  OBVIOUS
<1> USE DEF HealthTypeOK, Writes
<1>1. CASE \E t \in Tasks : AddReason(t, "GapFill")
  BY <1>1 DEF AddReason, Reasons
<1>2. CASE \E t \in Tasks : \E r \in Reasons : RemoveReason(t, r)
  BY <1>2 DEF RemoveReason
<1>3. CASE \E t \in Tasks : WriteHealth(t)
  BY <1>3 DEF WriteHealth
<1>4. CASE UNCHANGED healthVars
  BY <1>4
<1> QED
  BY <1>1, <1>2, <1>3, <1>4, HealthStepOrStutter DEF HealthStep

\* The inductive invariant is preserved.
LEMMA StepHealing == HealingInv /\ [Next]_vars => HealingInv'
  BY FinalizerStepOrStutter, NextTypeOK, StepHealth, StepGapFill DEF HealingInv

\* HealingInv holds in every reachable state.
LEMMA HealingInvariant == Spec => []HealingInv
  BY InitHealing, StepHealing, PTL DEF Spec

\* Type correctness: no interleaving of main loop, gap filler, startup task and
\* finalizer leaves the types, and fill_gaps never retries past its limit.
THEOREM TypeCorrect == Spec => []TypeOK
<1>1. HealingInv => TypeOK
  BY TypeParts DEF HealingInv
<1> QED
  BY <1>1, HealingInvariant, PTL

\* The composition uses the finalizer as its module allows: self healing and
\* block saving implement the specification of the finalizer's callers.
THEOREM UsesFinalizer == Spec => FinalizerSpec
<1>1. Init => FinalizerInit
  BY DEF Init
<1> QED
  BY <1>1, HealingInvariant, FinalizerStepOrStutter, PTL DEF Spec, FinalizerSpec

\* Hence in the whole indexer no wakeup of the worker or of a main loop blocked
\* in note_finalized is lost, and the Finalized row never moves back.
THEOREM HealingKeepsFinalizerPromises ==
  Spec => []NoLostWork /\ []NoLostSpace /\ TipNeverRegresses
  BY UsesFinalizer, WorkerNeverMissesWork, ProducerNeverMissesSpace, TipIsMonotonic, PTL

----------------------------------------------------------------------------

\* While the startup reason is active, no task has a healthy write in flight:
\* the reason is never added again, so a write issued without it stays right.
StartupInv ==
  "Startup" \in reasons => ~dbHealthy /\ \A t \in Tasks : write[t] # "healthy"

\* Node health during startup (health.rs 23-25): however often the gap filler adds
\* and removes its reason, and whatever order the writes land in, the node is not
\* reported healthy before the startup snapshot is processed.
THEOREM NotHealthyDuringStartup == Spec => []StartupBlocksHealthy
<1>1. Init => StartupInv
  BY DEF Init, HealthInit, StartupInv
<1>2. HealingInv /\ StartupInv /\ [Next]_vars => StartupInv'
  <2> SUFFICES ASSUME HealthTypeOK, StartupInv, [Next]_vars, "Startup" \in reasons'
               PROVE  ~dbHealthy' /\ \A t \in Tasks : write'[t] # "healthy"
    BY DEF HealingInv, StartupInv
  <2> USE DEF HealthTypeOK, StartupInv, Writes
  <2>1. CASE \E t \in Tasks : AddReason(t, "GapFill")
    BY <2>1 DEF AddReason
  <2>2. CASE \E t \in Tasks : \E r \in Reasons : RemoveReason(t, r)
    BY <2>2 DEF RemoveReason
  <2>3. CASE \E t \in Tasks : WriteHealth(t)
    BY <2>3 DEF WriteHealth
  <2>4. CASE UNCHANGED healthVars
    BY <2>4
  <2> QED
    BY <2>1, <2>2, <2>3, <2>4, HealthStepOrStutter DEF HealthStep
<1>3. StartupInv => StartupBlocksHealthy
  BY DEF StartupInv, StartupBlocksHealthy
<1> QED
  BY <1>1, <1>2, <1>3, HealingInvariant, PTL DEF Spec

----------------------------------------------------------------------------
(* Detection.  A block skipped after the first one received in order is in *)
(* the gaps list until it arrives or is repaired, and the list never asks  *)
(* for a block that was received.                                          *)

\* A bounded non-empty set of naturals has a greatest element.
LEMMA MaxExists ==
  ASSUME NEW S \in SUBSET Nat, NEW b \in Nat, \A p \in S : p < b, S # {}
  PROVE  \E m \in S : \A p \in S : p <= m
<1> DEFINE U == {n \in Nat : \A p \in S : p <= n}
<1>1. b \in U
  OBVIOUS
<1>2. PICK n \in U : \A y \in U : ~(<<y, n>> \in OpToRel(<, Nat))
  <2>1. U \subseteq Nat /\ U # {}
    BY <1>1
  <2> HIDE DEF U
  <2> QED
    BY <2>1, WFMin, NatLessThanWellFounded
<1>3. \A y \in U : ~(y < n)
  BY <1>2 DEF OpToRel
<1>4. n \in S
  <2> SUFFICES ASSUME n \notin S PROVE FALSE
    OBVIOUS
  <2>1. \A p \in S : p \in Nat /\ p < n
    OBVIOUS
  <2>2. n \in Nat /\ n > 0
    <3>1. PICK p \in S : p \in Nat /\ p < n
      BY <2>1
    <3>2. n \in Nat
      OBVIOUS
    <3> QED
      BY <3>1, <3>2
  <2>3. n - 1 \in U
    BY <2>1, <2>2
  <2> QED
    BY <1>3, <2>2, <2>3
<1> QED
  BY <1>4

\* No block lies between a block and its parent.
LEMMA NothingBelowParent ==
  ASSUME NEW s \in Produced, NEW t \in Produced, t < s
  PROVE  t <= Parent(s)
<1> DEFINE below == {p \in Produced : p < s}
<1>1. below \subseteq Nat /\ s \in Nat /\ t \in below
  BY HealingAssumption, SlotsAssumption
<1>2. \E m \in below : \A p \in below : p <= m
  <2>1. \A p \in below : p < s
    OBVIOUS
  <2> HIDE DEF below
  <2> QED
    BY <1>1, <2>1, MaxExists
<1>3. Parent(s) = CHOOSE p \in below : \A q \in below : q <= p
  BY <1>1 DEF Parent
<1> HIDE DEF below
<1> QED
  BY <1>1, <1>2, <1>3

----------------------------------------------------------------------------

\* check_slot_gap has found a gap and has not moved the last slot yet.
InGap == main \in {"boundary", "pause", "reason", "mark"}

\* The newest block check_slot_gap has looked at.
NewestBlock == IF InGap THEN block ELSE lastSlot

\* What every step preserves: the newest block bounds all blocks received and
\* all gaps, and every block missed below it is accounted for.
GapInv ==
  /\ InGap => block \in seen /\ lastSlot < block
  /\ lastSlot \in seen \cup {0}
  /\ lastSlot = 0 => seen = {}
  /\ \A s \in seen : s <= NewestBlock
  /\ \A s \in gaps : s < NewestBlock /\ s \notin seen
  /\ \A f \in seen \ late, s \in Produced :
        f < s /\ s < NewestBlock => s \in seen \cup gaps \cup repaired

gapVars == <<main, block, lastSlot, seen, late, gaps, repaired>>

\* The steps that touch what GapInv speaks of.
GapStep ==
  \/ \E s \in Slots : BlockOutOfOrder(s) \/ BlockContinues(s) \/ BlockAfterGap(s)
  \/ GapBoundary \/ GapPause \/ GapReason \/ GapMark \/ SaveBlock
  \/ FillEnqueue \/ FillEmpties

\* Every other step leaves it alone.
LEMMA GapStepOrStutter == [Next]_vars => GapStep \/ UNCHANGED gapVars
<1> SUFFICES ASSUME Next PROVE GapStep \/ UNCHANGED gapVars
  BY DEF gapVars
<1>1. CASE \/ Exited \/ FinalizerWorker \/ BlockedMain \/ StartupFinishes
           \/ \E s \in Slots : SlotFinalized(s)
           \/ \E t \in Tasks : HealthWrite(t)
  BY <1>1 DEF Exited, FinalizerWorker, BlockedMain, StartupFinishes, SlotFinalized,
              HealthWrite, gapVars
<1>2. CASE \/ FillWake \/ FillBounds \/ FillResume \/ FillUnreason \/ FillRound
           \/ FillPanics \/ FillFetchFails \/ \E base \in Bases : FillFetch(base)
           \/ \E s \in Slots : FillSave(s) \/ FillSeed(s)
           \/ FillProcessingFails \/ FillRemaining \/ FillFinishGap
  BY <1>2 DEF FillWake, FillBounds, FillResume, FillUnreason, FillRound, FillPanics,
              FillFetchFails, FillFetch, FillSave, FillSeed, FillProcessingFails,
              FillRemaining, FillFinishGap, gapVars
<1> QED
  BY <1>1, <1>2, HealingAssumption
     DEF Next, StreamStep, StartupTask, MainTask, MainStep, FillTask, FillStep, GapStep

\* The invariant is preserved.
LEMMA StepGapInv == HealingInv /\ GapInv /\ [Next]_vars => GapInv'
<1> SUFFICES ASSUME HealingInv, GapInv, [Next]_vars PROVE GapInv'
  OBVIOUS
<1>1. /\ seen \subseteq Slots /\ gaps \subseteq Slots
      /\ lastSlot \in Slots \cup {0} /\ block \in Slots \cup {0}
      /\ Slots \subseteq Nat \ {0} /\ Produced \subseteq Slots
  BY HealingAssumption, SlotsAssumption DEF HealingInv, GapFillTypeOK
<1>2. ASSUME NEW s \in Slots, BlockOutOfOrder(s) PROVE GapInv'
  <2>1. /\ main = "idle" /\ main' = "record" /\ s \notin seen /\ s <= lastSlot
        /\ seen' = seen \cup {s} /\ late' = late \cup {s} /\ gaps' = gaps \ {s}
        /\ lastSlot' = lastSlot /\ repaired' = repaired
    BY <1>2 DEF BlockOutOfOrder, MainIdle, MayDeliver
  <2> QED
    BY <1>1, <2>1 DEF GapInv, NewestBlock, InGap
<1>3. ASSUME NEW s \in Slots, BlockContinues(s) PROVE GapInv'
  <2>1. /\ main = "idle" /\ main' = "record" /\ s \in Produced /\ s > lastSlot
        /\ seen' = seen \cup {s} /\ lastSlot' = s /\ ~GapBefore(s)
        /\ late' = late /\ gaps' = gaps /\ repaired' = repaired
    BY <1>3 DEF BlockContinues, MainIdle, MayDeliver
  <2>2. NewestBlock = lastSlot /\ NewestBlock' = s /\ ~InGap /\ ~InGap'
    BY <2>1 DEF NewestBlock, InGap
  <2>3. ASSUME NEW f \in seen' \ late', NEW t \in Produced, f < t, t < s
        PROVE  t \in seen' \cup gaps' \cup repaired'
    <3>1. f \in seen \ late /\ lastSlot \in seen /\ lastSlot # 0
      BY <1>1, <2>1, <2>3 DEF GapInv
    <3>2. CASE t < lastSlot
      BY <2>1, <2>2, <2>3, <3>1, <3>2 DEF GapInv
    <3>3. CASE t = lastSlot
      BY <2>1, <3>1, <3>3
    <3>4. CASE t > lastSlot
      <4>1. s > lastSlot + 1
        BY <1>1, <2>3, <3>4
      <4>2. Parent(s) = lastSlot
        BY <2>1, <3>1, <4>1 DEF GapBefore, BuildsOnLast
      <4>3. t <= lastSlot
        BY <2>1, <2>3, <4>2, NothingBelowParent
      <4> QED
        BY <1>1, <3>4, <4>3
    <3> QED
      BY <1>1, <3>2, <3>3, <3>4
  <2>4. /\ \A u \in seen' : u <= s
        /\ \A u \in gaps' : u < s /\ u \notin seen'
    BY <1>1, <2>1, <2>2 DEF GapInv
  <2> QED
    BY <1>1, <2>1, <2>2, <2>3, <2>4 DEF GapInv
<1>4. ASSUME NEW s \in Slots, BlockAfterGap(s) PROVE GapInv'
  <2>1. /\ main = "idle" /\ main' = "boundary" /\ s \in Produced /\ s > lastSlot
        /\ lastSlot # 0 /\ block' = s /\ seen' = seen \cup {s} /\ lastSlot' = lastSlot
        /\ gaps' = gaps \cup {t \in Slots : lastSlot < t /\ t < s}
        /\ late' = late /\ repaired' = repaired
    BY <1>4 DEF BlockAfterGap, MainIdle, MayDeliver, GapBefore
  <2>2. NewestBlock = lastSlot /\ NewestBlock' = s
    BY <2>1 DEF NewestBlock, InGap
  <2>3. ASSUME NEW f \in seen' \ late', NEW t \in Produced, f < t, t < s
        PROVE  t \in seen' \cup gaps' \cup repaired'
    <3>1. f \in seen \ late /\ lastSlot \in seen
      BY <1>1, <2>1, <2>3 DEF GapInv
    <3>2. CASE t < lastSlot
      BY <2>1, <2>2, <2>3, <3>1, <3>2 DEF GapInv
    <3>3. CASE t = lastSlot
      BY <2>1, <3>1, <3>3
    <3>4. CASE t > lastSlot
      BY <1>1, <2>1, <2>3, <3>4
    <3> QED
      BY <1>1, <3>2, <3>3, <3>4
  <2>4. /\ \A u \in seen' : u <= s
        /\ \A u \in gaps' : u < s /\ u \notin seen'
    BY <1>1, <2>1, <2>2 DEF GapInv
  <2> QED
    BY <1>1, <2>1, <2>2, <2>3, <2>4 DEF GapInv
<1>5. CASE GapBoundary \/ GapPause \/ GapReason
  <2>1. /\ InGap /\ InGap' /\ block' = block /\ lastSlot' = lastSlot /\ seen' = seen
        /\ late' = late /\ gaps' = gaps /\ repaired' = repaired
    BY <1>5 DEF GapBoundary, GapPause, GapReason, InGap
  <2> QED
    BY <2>1 DEF GapInv, NewestBlock
<1>6. CASE GapMark
  <2>1. /\ InGap /\ ~InGap' /\ lastSlot' = block /\ seen' = seen
        /\ late' = late /\ gaps' = gaps /\ repaired' = repaired
    BY <1>6 DEF GapMark, InGap
  <2> QED
    BY <1>1, <2>1 DEF GapInv, NewestBlock
<1>7. CASE SaveBlock
  <2>1. /\ ~InGap /\ ~InGap' /\ lastSlot' = lastSlot /\ seen' = seen
        /\ late' = late /\ gaps' = gaps /\ repaired' = repaired
    BY <1>7 DEF SaveBlock, InGap
  <2> QED
    BY <2>1 DEF GapInv, NewestBlock
<1>8. CASE FillEnqueue \/ FillEmpties
  <2>1. PICK R : gaps' = gaps \ R /\ repaired' = repaired \cup R
    BY <1>8 DEF FillEnqueue, FillEmpties
  <2>2. UNCHANGED <<main, block, lastSlot, seen, late>>
    BY <1>8 DEF FillEnqueue, FillEmpties
  <2> QED
    BY <2>1, <2>2 DEF GapInv, NewestBlock, InGap
<1>9. CASE UNCHANGED gapVars
  BY <1>9 DEF gapVars, GapInv, NewestBlock, InGap
<1> QED
  BY <1>2, <1>3, <1>4, <1>5, <1>6, <1>7, <1>8, <1>9, GapStepOrStutter DEF GapStep

\* GapInv holds in every reachable state.
LEMMA GapInvariant == Spec => []GapInv
<1>1. Init => GapInv
  BY DEF Init, GapFillInit, GapInv, NewestBlock, InGap
<1> QED
  BY <1>1, StepGapInv, HealingInvariant, PTL DEF Spec

\* check_slot_gap misses no block (self_healing.rs 103-149): whatever is lost or
\* late and whatever the gap filler does meanwhile, a block skipped after the
\* first one received in order is known, listed or repaired.
THEOREM NoGapIsMissed == Spec => []NoGapUnnoticed
<1>1. GapInv => NoGapUnnoticed
  BY DEF GapInv, NoGapUnnoticed, NewestBlock, InGap
<1> QED
  BY <1>1, GapInvariant, PTL

\* The gaps list never asks for a block that was received (self_healing.rs
\* 103-114, 135-149).
THEOREM GapsAreReallyMissing == Spec => []GapsAreMissing
<1>1. GapInv => GapsAreMissing
  BY DEF GapInv, GapsAreMissing, NewestBlock, InGap
<1> QED
  BY <1>1, GapInvariant, PTL

----------------------------------------------------------------------------
(* Repair.  As long as no block arrives late, a recorded block is finalized *)
(* through the block that builds on it, or, where a gap cuts that link,    *)
(* through the boundary the gap detection wrote.                           *)

\* The blocks with an entry in the finalizer's map, and those recorded live
\* (a repaired entry has a default parent and hash, a live one its own).
Recorded == {s \in Slots : blocks[s] # NoBlock}
Live == {s \in Slots : blocks[s] = LiveEntry(s)}

\* The slots a task holds in a local variable: the one the worker popped, the
\* one the main task is reporting, the one the filler just rebuilt.
Walking == IF worker = "walk" THEN {current} ELSE {}
Noting == IF producer = "idle" THEN {} ELSE {noted}
Repairing == IF fill = "enqueue" THEN {repair} ELSE {}

\* The slots the worker will still walk from, and every slot that has been
\* named to the finalizer or is about to be.
Queued == pending \cup Walking
OnTheWay == Queued \cup chain \cup finalized \cup Noting \cup Repairing \cup boundaries \cup myBounds

\* An entry is of a block the stream delivered or of one the filler rebuilt,
\* and every slot in the system is of a block that exists.
BlocksKnown ==
  /\ \A s \in Recorded : (s \in Live /\ s \in seen) \/ blocks[s] = RepairedEntry
  /\ Recorded \cup OnTheWay \cup emits \cup seen \subseteq Produced

\* Everything recorded or on its way is at most the newest block or the newest
\* finalized slot heard of, and the block the main task holds is none of it.
BlockIsNew ==
  /\ \A x \in Recorded \cup OnTheWay : x <= NewestBlock \/ x <= notedUpTo
  /\ main # "idle" => block \notin Recorded \cup OnTheWay /\ block \in seen
  /\ main = "record" => block = lastSlot

\* What the filler still rebuilds lies below the newest block and was not
\* received.
Unseen == \A s \in myGaps \cup emits : s < NewestBlock /\ s \notin seen

\* A repaired block waits for the walk, or its enqueue is the next step.
RepairedQueued == \A s \in Recorded \ Live : s \in Queued \cup Repairing

\* A block with a live entry was not finalized yet.
LiveNotDone == Live \cap (chain \cup finalized) = {}

\* The main task has written the boundary of a gap and not the new last slot.
Moved == main \in {"pause", "reason", "mark"}

\* A live block is the last received, or is queued or a boundary, or the block
\* that builds on it is recorded live or about to be: one of them finalized
\* takes it along.
Followed(s) ==
  \/ s = lastSlot /\ ~Moved
  \/ s \in Queued \cup boundaries
  \/ \E c \in Produced : Parent(c) = s /\ (c \in Live \/ (main = "record" /\ c = block))

AllFollowed == \A s \in Live : Followed(s)

LeftNow == BlocksKnown /\ BlockIsNew /\ Unseen /\ RepairedQueued /\ LiveNotDone /\ AllFollowed

-----------------------------------------------------------------------------

\* The parent of a block is the newest block below it, 0 when there is none.
LEMMA ParentIs ==
  ASSUME NEW s \in Slots
  PROVE  /\ Parent(s) \in Produced \cup {0} /\ Parent(s) \in Nat /\ Parent(s) < s
         /\ \A t \in Produced : t < s => t <= Parent(s)
<1> DEFINE below == {p \in Produced : p < s}
<1>1. below \subseteq Nat /\ s \in Nat \ {0} /\ Produced \subseteq Nat
  BY HealingAssumption, SlotsAssumption
<1>2. Parent(s) = IF below = {} THEN 0 ELSE CHOOSE p \in below : \A q \in below : q <= p
  BY DEF Parent
<1>3. CASE below = {}
  BY <1>1, <1>2, <1>3
<1>4. CASE below # {}
  <2>1. \E m \in below : \A p \in below : p <= m
    <3>1. \A p \in below : p < s
      OBVIOUS
    <3> HIDE DEF below
    <3> QED
      BY <1>1, <1>4, <3>1, MaxExists
  <2>2. Parent(s) \in below /\ \A p \in below : p <= Parent(s)
    BY <1>2, <1>4, <2>1
  <2> QED
    BY <1>1, <2>2
<1> QED
  BY <1>3, <1>4

\* No entry, a live entry and a repaired entry are told apart.
LEMMA EntriesDiffer ==
  ASSUME NEW s \in Slots
  PROVE  LiveEntry(s) # NoBlock /\ RepairedEntry # NoBlock /\ LiveEntry(s) # RepairedEntry
<1>1. Parent(s) \in Nat /\ s # NoHash
  BY ParentIs, HealingAssumption
<1>2. LiveEntry(s).parent # -1 /\ LiveEntry(s).hash = s
  BY <1>1 DEF LiveEntry
<1> QED
  BY <1>1, <1>2 DEF NoBlock, RepairedEntry

\* The parent walk (finalize_slot.rs:319-331) keeps the slot it starts from,
\* is closed under the links whose hashes match, and takes no other slot
\* without an entry.
LEMMA AncestorsAre ==
  ASSUME NEW b, NEW s \in Slots
  PROVE  /\ s \in Ancestors(b, s)
         /\ \A t \in Ancestors(b, s), p \in Slots : Linked(b, t, p) => p \in Ancestors(b, s)
         /\ Ancestors(b, s) \subseteq {s} \cup {t \in Slots : b[t] # NoBlock}
<1>1. s \in Ancestors(b, s)
  BY DEF Ancestors
<1>2. ASSUME NEW t \in Ancestors(b, s), NEW p \in Slots, Linked(b, t, p)
      PROVE  p \in Ancestors(b, s)
  BY <1>2 DEF Ancestors, ClosedUnderParents
<1>3. Ancestors(b, s) \subseteq {s} \cup {t \in Slots : b[t] # NoBlock}
  <2> DEFINE S == {s} \cup {t \in Slots : b[t] # NoBlock}
  <2>1. S \in SUBSET Slots /\ s \in S
    OBVIOUS
  <2>2. ClosedUnderParents(b, S)
    BY DEF ClosedUnderParents, Linked
  <2> HIDE DEF S
  <2>3. Ancestors(b, s) \subseteq S
    BY <2>1, <2>2 DEF Ancestors
  <2> QED
    BY <2>3 DEF S
<1> QED
  BY <1>1, <1>2, <1>3

\* A step that drops no queued slot and no boundary, and names no new slot to
\* the finalizer, keeps the invariant.
LEMMA MovesOn ==
  ASSUME HealingInv, GapInv, LeftNow,
         UNCHANGED <<blocks, block, lastSlot, seen, notedUpTo>>,
         main' = main \/ (Moved /\ Moved'),
         chain' \cup finalized' \subseteq chain \cup finalized,
         Queued \subseteq Queued', OnTheWay' \subseteq OnTheWay,
         Repairing \subseteq Queued' \cup Repairing', boundaries \subseteq boundaries' \cup Queued',
         myGaps' \cup emits' \subseteq myGaps \cup emits \cup gaps, emits' \subseteq Produced
  PROVE  LeftNow'
<1>1. Recorded' = Recorded /\ Live' = Live /\ InGap' = InGap /\ NewestBlock' = NewestBlock
      /\ (Moved' <=> Moved) /\ (main' = "record" <=> main = "record")
      /\ (main' = "idle" <=> main = "idle")
  BY DEF Recorded, Live, InGap, NewestBlock, Moved
<1>2. BlocksKnown'
  BY <1>1 DEF LeftNow, BlocksKnown
<1>3. BlockIsNew'
  BY <1>1 DEF LeftNow, BlockIsNew
<1>4. Unseen'
  BY <1>1 DEF LeftNow, Unseen, GapInv
<1>5. RepairedQueued'
  BY <1>1 DEF LeftNow, RepairedQueued
<1>6. LiveNotDone'
  BY <1>1 DEF LeftNow, LiveNotDone
<1>7. AllFollowed'
  BY <1>1 DEF LeftNow, AllFollowed, Followed
<1> QED
  BY <1>2, <1>3, <1>4, <1>5, <1>6, <1>7 DEF LeftNow

-----------------------------------------------------------------------------

\* The worker's steps other than the walk: it waits, pops a slot, which it then
\* holds, and hands the chain on.
LEMMA QuietWorker ==
  ASSUME HealingInv, GapInv, LeftNow, FinalizerWorker, ~WorkerWalk
  PROVE  LeftNow'
<1>0. UNCHANGED <<healthVars, mainVars, fillVars, sharedVars>>
  BY DEF FinalizerWorker
<1>1. UNCHANGED <<Repairing, boundaries, myBounds, myGaps, emits, block, lastSlot, seen, notedUpTo, main>>
  BY <1>0 DEF Repairing
<1>2. emits \subseteq Produced
  BY DEF LeftNow, BlocksKnown
<1>3. CASE WorkerCheck \/ WorkerWake \/ WorkerBreak \/ WorkerNotify
  <2>1. UNCHANGED <<blocks, chain, finalized, pending, Walking, Noting>>
    BY <1>3 DEF WorkerCheck, WorkerWake, WorkerBreak, WorkerNotify, Walking, Noting
  <2>2. UNCHANGED <<Queued, OnTheWay>>
    BY <1>1, <2>1 DEF Queued, OnTheWay
  <2> QED
    BY <1>1, <1>2, <2>1, <2>2, MovesOn
<1>4. CASE WorkerPop
  <2>1. /\ UNCHANGED <<blocks, chain, finalized, Noting>>
        /\ \E s \in pending : pending' = pending \ {s} /\ Walking' = {s}
        /\ Walking = {}
    BY <1>4 DEF WorkerPop, Walking, Noting
  <2>2. UNCHANGED <<Queued, OnTheWay>>
    BY <1>1, <2>1 DEF Queued, OnTheWay
  <2> QED
    BY <1>1, <1>2, <2>1, <2>2, MovesOn
<1>5. CASE FinalizeSlot
  <2>1. /\ UNCHANGED <<blocks, pending, Noting>> /\ Walking = {} /\ Walking' = {}
        /\ chain' \cup finalized' \subseteq chain \cup finalized
    BY <1>5 DEF FinalizeSlot, Walking, Noting
  <2>2. Queued' = Queued /\ OnTheWay' \subseteq OnTheWay
    BY <1>1, <2>1 DEF Queued, OnTheWay
  <2> QED
    BY <1>1, <1>2, <2>1, <2>2, MovesOn
<1> QED
  BY <1>3, <1>4, <1>5 DEF FinalizerWorker, WorkerStep

\* Reporting a finalized slot: the slot moves from the main task to the queue.
LEMMA QuietProducer ==
  ASSUME HealingInv, GapInv, LeftNow, BlockedMain
  PROVE  LeftNow'
<1>1. UNCHANGED <<Repairing, boundaries, myBounds, myGaps, emits, block, lastSlot, seen, notedUpTo, main>>
  BY DEF BlockedMain, Repairing
<1>2. emits \subseteq Produced
  BY DEF LeftNow, BlocksKnown
<1>3. /\ UNCHANGED <<blocks, chain, finalized, Walking>>
      /\ pending \subseteq pending' /\ pending' \cup Noting' \subseteq pending \cup Noting
  BY DEF BlockedMain, ProducerStep, NoteInsert, NoteWake, Walking, Noting
<1>4. Queued \subseteq Queued' /\ OnTheWay' \subseteq OnTheWay
  BY <1>1, <1>3 DEF Queued, OnTheWay
<1> QED
  BY <1>1, <1>2, <1>3, <1>4, MovesOn

\* The filler's steps other than a rebuild: an enqueue moves the rebuilt slot to
\* the queue, a seed moves a boundary there, a read of the gaps list copies
\* slots not received.
LEMMA QuietFill ==
  ASSUME HealingInv, GapInv, LeftNow, FillStep, \A s \in Slots : ~FillSave(s)
  PROVE  LeftNow'
<1>1. UNCHANGED <<block, lastSlot, seen, notedUpTo, main>>
  BY DEF FillStep, FillWake, FillBounds, FillResume, FillUnreason, FillRound, FillPanics, FillFetchFails,
         FillFetch, FillEnqueue, FillProcessingFails, FillEmpties, FillSeed, FillRemaining, FillFinishGap
<1>2. emits \subseteq Produced
  BY DEF LeftNow, BlocksKnown
<1>3. CASE \/ FillWake \/ FillBounds \/ FillResume \/ FillUnreason \/ FillRound \/ FillPanics
           \/ FillFetchFails \/ FillProcessingFails \/ FillEmpties \/ FillRemaining \/ FillFinishGap
           \/ \E base \in Bases : FillFetch(base)
  <2>1. /\ UNCHANGED <<blocks, chain, finalized, pending, boundaries, Walking, Noting>>
        /\ Repairing = {} /\ Repairing' = {}
        /\ myBounds' \subseteq myBounds \cup boundaries
    BY <1>3 DEF FillWake, FillBounds, FillResume, FillUnreason, FillRound, FillPanics, FillFetchFails,
         FillFetch, FillProcessingFails, FillEmpties, FillRemaining, FillFinishGap, finalizerVars,
         ResumeFinalizer, Walking, Noting, Repairing
  <2>2. /\ myGaps' \cup emits' \subseteq myGaps \cup emits \cup gaps
        /\ emits' \subseteq Produced
    BY <1>2, <1>3 DEF FillWake, FillBounds, FillResume, FillUnreason, FillRound, FillPanics, FillFetchFails,
         FillFetch, FillProcessingFails, FillEmpties, FillRemaining, FillFinishGap
  <2>3. Queued' = Queued /\ OnTheWay' \subseteq OnTheWay
    BY <2>1 DEF Queued, OnTheWay
  <2> QED
    BY <1>1, <2>1, <2>2, <2>3, MovesOn
<1>4. CASE FillEnqueue
  <2>1. /\ UNCHANGED <<blocks, chain, finalized, boundaries, myBounds, myGaps, emits, Walking, Noting>>
        /\ Repairing = {repair} /\ Repairing' = {} /\ pending' = pending \cup {repair}
    BY <1>4 DEF FillEnqueue, EnqueueUnbounded, Walking, Noting, Repairing
  <2>2. Queued' = Queued \cup {repair} /\ OnTheWay' \subseteq OnTheWay
    BY <2>1 DEF Queued, OnTheWay
  <2> QED
    BY <1>1, <1>2, <2>1, <2>2, MovesOn
<1>5. ASSUME NEW b \in Slots, FillSeed(b) PROVE LeftNow'
  <2>1. /\ UNCHANGED <<blocks, chain, finalized, myGaps, emits, Walking, Noting>>
        /\ Repairing = {} /\ Repairing' = {} /\ pending' = pending \cup {b} /\ b \in myBounds
        /\ boundaries' = boundaries \ {b} /\ myBounds' = myBounds \ {b}
    BY <1>5 DEF FillSeed, EnqueueUnbounded, Walking, Noting, Repairing
  <2>2. Queued' = Queued \cup {b} /\ OnTheWay' \subseteq OnTheWay
    BY <2>1 DEF Queued, OnTheWay
  <2> QED
    BY <1>1, <1>2, <2>1, <2>2, MovesOn
<1> QED
  BY <1>3, <1>4, <1>5 DEF FillStep

\* The pause, its reason and the health writes move none of the slots.
LEMMA QuietMain ==
  ASSUME HealingInv, GapInv, LeftNow,
         GapPause \/ GapReason \/ StartupFinishes \/ \E t \in Tasks : HealthWrite(t)
  PROVE  LeftNow'
<1>1. /\ UNCHANGED <<block, lastSlot, seen, notedUpTo, boundaries, myBounds, myGaps, emits, Repairing>>
      /\ UNCHANGED <<blocks, chain, finalized, pending, Walking, Noting>>
      /\ main' = main \/ (Moved /\ Moved')
  BY DEF GapPause, GapReason, StartupFinishes, HealthWrite, PauseFinalizer, finalizerVars, Moved,
         Repairing, Walking, Noting
<1>2. UNCHANGED <<Queued, OnTheWay>>
  BY <1>1 DEF Queued, OnTheWay
<1>3. emits \subseteq Produced
  BY DEF LeftNow, BlocksKnown
<1> QED
  BY <1>1, <1>2, <1>3, MovesOn

\* The walk: a live block it leaves behind is not the parent of one it takes,
\* because the live entries of the two link by hash.
LEMMA WalkKeeps ==
  ASSUME HealingInv, GapInv, LeftNow, FinalizerWorker, WorkerWalk
  PROVE  LeftNow'
<1>1. /\ UNCHANGED <<Repairing, boundaries, myBounds, myGaps, emits, block, lastSlot, seen, notedUpTo, main>>
      /\ UNCHANGED <<Noting, finalized>> /\ Walking = {current} /\ Walking' = {}
      /\ chain' = Ancestors(blocks, current)
      /\ blocks' = [s \in Slots |-> IF s \in chain' THEN NoBlock ELSE blocks[s]]
      /\ pending' = pending \ (chain' \ {current})
  BY DEF FinalizerWorker, WorkerWalk, Repairing, Walking, Noting
<1>2. current \in Produced /\ current \in Slots /\ Produced \subseteq Slots
  BY <1>1, HealingAssumption DEF LeftNow, BlocksKnown, OnTheWay, Queued
<1>3. /\ current \in chain' /\ chain' \subseteq {current} \cup Recorded
      /\ \A t \in chain', p \in Slots : Linked(blocks, t, p) => p \in chain'
  BY <1>1, <1>2, AncestorsAre DEF Recorded
<1>4. Recorded' = Recorded \ chain' /\ Live' = Live \ chain'
  <2>1. \A s \in Slots : blocks'[s] = IF s \in chain' THEN NoBlock ELSE blocks[s]
    BY <1>1
  <2> QED
    BY <2>1, EntriesDiffer DEF Recorded, Live
<1>5. /\ OnTheWay' \subseteq OnTheWay \cup Recorded
      /\ Queued \ chain' \subseteq Queued'
  BY <1>1, <1>3 DEF OnTheWay, Queued
<1>6. NewestBlock' = NewestBlock
  BY <1>1 DEF NewestBlock, InGap
<1>7. BlocksKnown'
  <2>1. ASSUME NEW s \in Recorded' PROVE (s \in Live' /\ s \in seen') \/ blocks'[s] = RepairedEntry
    <3>1. s \in Recorded /\ s \notin chain' /\ blocks'[s] = blocks[s]
      BY <1>1, <1>4, <2>1 DEF Recorded
    <3> QED
      BY <1>1, <1>4, <3>1 DEF LeftNow, BlocksKnown
  <2> QED
    BY <1>1, <1>4, <1>5, <2>1 DEF LeftNow, BlocksKnown
<1>8. BlockIsNew'
  BY <1>1, <1>4, <1>5, <1>6 DEF LeftNow, BlockIsNew
<1>9. Unseen'
  BY <1>1, <1>6 DEF LeftNow, Unseen
<1>10. RepairedQueued'
  BY <1>1, <1>4, <1>5 DEF LeftNow, RepairedQueued
<1>11. LiveNotDone'
  BY <1>1, <1>4 DEF LeftNow, LiveNotDone
<1>12. AllFollowed'
  <2> SUFFICES ASSUME NEW s \in Live' PROVE Followed(s)'
    BY DEF AllFollowed
  <2>1. s \in Live /\ s \notin chain' /\ s \in Slots
    BY <1>4 DEF Live
  <2>2. CASE (s = lastSlot /\ ~Moved) \/ s \in Queued \cup boundaries
    BY <1>1, <1>5, <2>1, <2>2 DEF Followed, Moved
  <2>3. ASSUME NEW c \in Produced, Parent(c) = s, c \in Live \/ (main = "record" /\ c = block)
        PROVE  Followed(s)'
    <3>1. CASE c \in Live /\ c \in chain'
      <4>1. Linked(blocks, c, s)
        <5>1. /\ c \in Slots /\ blocks[c] = LiveEntry(c) /\ blocks[s] = LiveEntry(s)
              /\ s # NoHash /\ s # 0
          BY <2>1, <3>1, HealingAssumption, SlotsAssumption DEF Live
        <5>2. blocks[c].parent = s /\ blocks[c].phash = s /\ blocks[s].hash = s
          BY <2>3, <5>1 DEF LiveEntry, ParentHash
        <5> QED
          BY <2>1, <5>1, <5>2, EntriesDiffer DEF Linked
      <4> QED
        BY <1>3, <2>1, <3>1, <4>1
    <3>2. CASE c \in Live /\ c \notin chain'
      BY <1>4, <2>3, <3>2 DEF Followed
    <3>3. CASE main = "record" /\ c = block
      BY <1>1, <2>3, <3>3 DEF Followed
    <3> QED
      BY <2>3, <3>1, <3>2, <3>3
  <2> QED
    BY <2>1, <2>2, <2>3 DEF LeftNow, AllFollowed, Followed
<1> QED
  BY <1>7, <1>8, <1>9, <1>10, <1>11, <1>12 DEF LeftNow

\* A rebuilt block is recorded where no live entry stood: the filler asks only
\* for blocks the stream did not deliver.
LEMMA FillSaveKeeps ==
  ASSUME HealingInv, GapInv, LeftNow, NEW s \in Slots, FillSave(s)
  PROVE  LeftNow'
<1>1. /\ UNCHANGED <<boundaries, myBounds, myGaps, block, lastSlot, seen, notedUpTo, main>>
      /\ UNCHANGED <<Queued, Noting, chain, finalized>> /\ Repairing' = {s} /\ Repairing = {}
      /\ blocks' = [blocks EXCEPT ![s] = RepairedEntry]
      /\ s \in emits /\ emits' = emits \ {s}
  BY DEF FillSave, RecordBlock, Repairing, Walking, Noting, Queued
<1>2. /\ \A t \in Slots : blocks'[t] = IF t = s THEN RepairedEntry ELSE blocks[t]
  BY <1>1 DEF HealingInv, FinalizerTypeOK
<1>3. s \notin seen /\ s < NewestBlock /\ s \in Produced
  BY <1>1 DEF LeftNow, Unseen, BlocksKnown
<1>4. s \notin Live
  BY <1>3, EntriesDiffer DEF LeftNow, BlocksKnown, Live, Recorded
<1>5. Recorded' = Recorded \cup {s} /\ Live' = Live
  BY <1>2, <1>4, EntriesDiffer DEF Recorded, Live
<1>6. OnTheWay' = OnTheWay \cup {s} /\ NewestBlock' = NewestBlock
  BY <1>1 DEF OnTheWay, NewestBlock, InGap
<1>7. NewestBlock \in Nat /\ s \in Nat
  BY SlotsAssumption DEF HealingInv, GapFillTypeOK, NewestBlock
<1>8. BlocksKnown'
  BY <1>1, <1>2, <1>3, <1>5, <1>6 DEF LeftNow, BlocksKnown
<1>9. BlockIsNew'
  <2>1. main # "idle" => block # s
    BY <1>3 DEF LeftNow, BlockIsNew
  <2> QED
    BY <1>1, <1>3, <1>5, <1>6, <1>7, <2>1 DEF LeftNow, BlockIsNew
<1>10. Unseen'
  BY <1>1, <1>6 DEF LeftNow, Unseen
<1>11. RepairedQueued'
  BY <1>1, <1>5 DEF LeftNow, RepairedQueued
<1>12. LiveNotDone'
  BY <1>1, <1>5 DEF LeftNow, LiveNotDone
<1>13. AllFollowed'
  BY <1>1, <1>5 DEF LeftNow, AllFollowed, Followed, Moved
<1> QED
  BY <1>8, <1>9, <1>10, <1>11, <1>12, <1>13 DEF LeftNow

-----------------------------------------------------------------------------

\* A finalized slot heard of is newer than the ones before it.
LEMMA SlotFinalizedKeeps ==
  ASSUME HealingInv, GapInv, LeftNow, NEW s \in Slots, SlotFinalized(s)
  PROVE  LeftNow'
<1>1. /\ UNCHANGED <<blocks, chain, finalized, Queued, Repairing, boundaries, myBounds, myGaps, emits,
                     block, lastSlot, seen, main>>
      /\ Noting' = {s} /\ Noting = {} /\ notedUpTo' = s /\ notedUpTo < s /\ main = "idle" /\ s \in Produced
  BY DEF SlotFinalized, MainIdle, NoteFinalized, Repairing, Walking, Noting, Queued
<1>2. /\ UNCHANGED <<Recorded, Live, NewestBlock>> /\ OnTheWay' = OnTheWay \cup {s}
  BY <1>1 DEF Recorded, Live, NewestBlock, InGap, OnTheWay
<1>3. \A x \in Nat : x <= notedUpTo => x <= s
  BY <1>1, SlotsAssumption DEF HealingInv, GapFillTypeOK
<1>4. BlocksKnown'
  BY <1>1, <1>2 DEF LeftNow, BlocksKnown
<1>5. BlockIsNew'
  <2>1. \A x \in Recorded \cup OnTheWay : x \in Nat
    BY HealingAssumption, SlotsAssumption DEF LeftNow, BlocksKnown
  <2>2. s \in Nat
    BY SlotsAssumption
  <2> QED
    BY <1>1, <1>2, <1>3, <2>1, <2>2 DEF LeftNow, BlockIsNew
<1> QED
  BY <1>1, <1>2, <1>4, <1>5 DEF LeftNow, Unseen, RepairedQueued, LiveNotDone, AllFollowed, Followed, Moved

\* A block that arrives in order is newer than everything recorded or on its way.
LEMMA InOrderIsNew ==
  ASSUME HealingInv, GapInv, LeftNow, NEW s \in Slots, MainIdle, MayDeliver(s), s > lastSlot
  PROVE  /\ s \in Produced /\ s \notin Recorded \cup OnTheWay /\ s \notin seen
         /\ NewestBlock = lastSlot /\ s \in Nat /\ lastSlot \in Nat
         /\ \A x \in Recorded \cup OnTheWay : x \in Nat
<1>1. /\ s \in Produced /\ s \notin seen /\ s > notedUpTo /\ main = "idle"
      /\ s \in Nat /\ lastSlot \in Nat /\ notedUpTo \in Nat
  BY SlotsAssumption DEF MainIdle, MayDeliver, HealingInv, GapFillTypeOK
<1>2. NewestBlock = lastSlot
  BY <1>1 DEF NewestBlock, InGap
<1>3. \A x \in Recorded \cup OnTheWay : x \in Nat
  BY HealingAssumption, SlotsAssumption DEF LeftNow, BlocksKnown
<1>4. \A x \in Recorded \cup OnTheWay : x <= lastSlot \/ x <= notedUpTo
  BY <1>2 DEF LeftNow, BlockIsNew
<1> QED
  BY <1>1, <1>2, <1>3, <1>4

\* A block without a gap before it: the last block received is its parent.
LEMMA BlockContinuesKeeps ==
  ASSUME HealingInv, GapInv, LeftNow, NEW s \in Slots, BlockContinues(s)
  PROVE  LeftNow'
<1>1. /\ UNCHANGED <<blocks, chain, finalized, Queued, Noting, Repairing, boundaries, myBounds, myGaps,
                     emits, notedUpTo>>
      /\ main = "idle" /\ main' = "record" /\ lastSlot' = s /\ block' = s /\ seen' = seen \cup {s}
      /\ MainIdle /\ MayDeliver(s) /\ s > lastSlot /\ ~GapBefore(s)
  BY DEF BlockContinues, MainIdle, finalizerVars, Repairing, Walking, Noting, Queued
<1>2. /\ s \in Produced /\ s \notin Recorded \cup OnTheWay /\ s \notin seen
      /\ NewestBlock = lastSlot /\ s \in Nat /\ lastSlot \in Nat
      /\ \A x \in Recorded \cup OnTheWay : x \in Nat
  BY <1>1, InOrderIsNew
<1>3. /\ UNCHANGED <<Recorded, Live, OnTheWay>> /\ NewestBlock' = s
  BY <1>1 DEF Recorded, Live, NewestBlock, InGap, OnTheWay
<1>4. BlocksKnown'
  BY <1>1, <1>2, <1>3 DEF LeftNow, BlocksKnown
<1>5. BlockIsNew'
  <2>1. ASSUME NEW x \in Recorded \cup OnTheWay PROVE x <= s \/ x <= notedUpTo
    <3>1. x \in Nat /\ (x <= lastSlot \/ x <= notedUpTo)
      BY <1>2 DEF LeftNow, BlockIsNew
    <3> QED
      BY <1>1, <1>2, <3>1
  <2> QED
    BY <1>1, <1>2, <1>3, <2>1 DEF BlockIsNew
<1>6. Unseen'
  <2>1. \A x \in myGaps \cup emits : x \in Nat /\ x < lastSlot /\ x \notin seen
    BY <1>2, HealingAssumption, SlotsAssumption DEF LeftNow, Unseen, HealingInv, GapFillTypeOK
  <2> QED
    BY <1>1, <1>2, <1>3, <2>1 DEF Unseen
<1>7. AllFollowed'
  <2> SUFFICES ASSUME NEW t \in Live' PROVE Followed(t)'
    BY DEF AllFollowed
  <2>1. t \in Live /\ t \in Slots /\ Followed(t)
    BY <1>3 DEF LeftNow, AllFollowed, Live
  <2>2. CASE t = lastSlot
    <3>1. lastSlot # 0 /\ lastSlot \in Produced
      <4>1. t \in Recorded
        BY <2>1, EntriesDiffer DEF Live, Recorded
      <4> QED
        BY <2>1, <2>2, <4>1, SlotsAssumption DEF LeftNow, BlocksKnown
    <3>2. Parent(s) = lastSlot
      <4>1. CASE BuildsOnLast(s)
        BY <4>1 DEF BuildsOnLast
      <4>2. CASE ~(s > lastSlot + 1)
        <5>1. Parent(s) \in Nat /\ Parent(s) < s /\ lastSlot <= Parent(s)
          BY <1>1, <3>1, ParentIs
        <5> QED
          BY <1>1, <1>2, <4>2, <5>1
      <4> QED
        BY <1>1, <3>1, <4>1, <4>2 DEF GapBefore
    <3> QED
      BY <1>1, <1>2, <2>2, <3>2 DEF Followed
  <2>3. CASE t # lastSlot
    BY <1>1, <1>3, <2>1, <2>3 DEF Followed
  <2> QED
    BY <2>2, <2>3
<1> QED
  BY <1>1, <1>3, <1>4, <1>5, <1>6, <1>7 DEF LeftNow, RepairedQueued, LiveNotDone

\* A block with a gap before it: nothing is written before the boundary is.
LEMMA BlockAfterGapKeeps ==
  ASSUME HealingInv, GapInv, LeftNow, NEW s \in Slots, BlockAfterGap(s)
  PROVE  LeftNow'
<1>1. /\ UNCHANGED <<blocks, chain, finalized, Queued, Noting, Repairing, boundaries, myBounds, myGaps,
                     emits, notedUpTo, lastSlot>>
      /\ main = "idle" /\ main' = "boundary" /\ block' = s /\ seen' = seen \cup {s}
      /\ MainIdle /\ MayDeliver(s) /\ s > lastSlot
  BY DEF BlockAfterGap, MainIdle, finalizerVars, Repairing, Walking, Noting, Queued
<1>2. /\ s \in Produced /\ s \notin Recorded \cup OnTheWay /\ s \notin seen
      /\ NewestBlock = lastSlot /\ s \in Nat /\ lastSlot \in Nat
      /\ \A x \in Recorded \cup OnTheWay : x \in Nat
  BY <1>1, InOrderIsNew
<1>3. /\ UNCHANGED <<Recorded, Live, OnTheWay>> /\ NewestBlock' = s
  BY <1>1 DEF Recorded, Live, NewestBlock, InGap, OnTheWay
<1>4. BlocksKnown'
  BY <1>1, <1>2, <1>3 DEF LeftNow, BlocksKnown
<1>5. BlockIsNew'
  <2>1. ASSUME NEW x \in Recorded \cup OnTheWay PROVE x <= s \/ x <= notedUpTo
    <3>1. x \in Nat /\ (x <= lastSlot \/ x <= notedUpTo)
      BY <1>2 DEF LeftNow, BlockIsNew
    <3> QED
      BY <1>1, <1>2, <3>1
  <2> QED
    BY <1>1, <1>2, <1>3, <2>1 DEF BlockIsNew
<1>6. Unseen'
  <2>1. \A x \in myGaps \cup emits : x \in Nat /\ x < lastSlot /\ x \notin seen
    BY <1>2, HealingAssumption, SlotsAssumption DEF LeftNow, Unseen, HealingInv, GapFillTypeOK
  <2> QED
    BY <1>1, <1>2, <1>3, <2>1 DEF Unseen
<1>7. AllFollowed'
  BY <1>1, <1>3 DEF LeftNow, AllFollowed, Followed, Moved
<1> QED
  BY <1>1, <1>3, <1>4, <1>5, <1>6, <1>7 DEF LeftNow, RepairedQueued, LiveNotDone

\* The last block before the gap becomes a boundary (self_healing.rs:454-490),
\* so it is seeded to the queue once the gap is filled.
LEMMA GapBoundaryKeeps ==
  ASSUME HealingInv, GapInv, LeftNow, GapBoundary
  PROVE  LeftNow'
<1>1. /\ UNCHANGED <<blocks, chain, finalized, Queued, Noting, Repairing, myBounds, myGaps,
                     emits, notedUpTo, lastSlot, block, seen>>
      /\ main = "boundary" /\ main' = "pause" /\ boundaries' = boundaries \cup {lastSlot}
  BY DEF GapBoundary, finalizerVars, Repairing, Walking, Noting, Queued
<1>2. /\ UNCHANGED <<Recorded, Live, NewestBlock>> /\ OnTheWay' = OnTheWay \cup {lastSlot}
      /\ NewestBlock = block /\ InGap
  BY <1>1 DEF Recorded, Live, NewestBlock, InGap, OnTheWay
<1>3. /\ lastSlot \in Slots /\ lastSlot \in seen /\ lastSlot < block /\ lastSlot \in Nat /\ block \in Nat
  BY <1>1, <1>2, SlotsAssumption DEF GapInv, HealingInv, ControlKnows, GapFillTypeOK
<1>4. lastSlot \in Produced
  BY <1>3 DEF LeftNow, BlocksKnown
<1>5. BlocksKnown'
  BY <1>1, <1>2, <1>4 DEF LeftNow, BlocksKnown
<1>6. BlockIsNew'
  BY <1>1, <1>2, <1>3 DEF LeftNow, BlockIsNew
<1>7. AllFollowed'
  BY <1>1, <1>2 DEF LeftNow, AllFollowed, Followed, Moved
<1> QED
  BY <1>1, <1>2, <1>5, <1>6, <1>7 DEF LeftNow, Unseen, RepairedQueued, LiveNotDone

\* The block after the gap becomes the last received, its boundary written.
LEMMA GapMarkKeeps ==
  ASSUME HealingInv, GapInv, LeftNow, GapMark
  PROVE  LeftNow'
<1>1. /\ UNCHANGED <<blocks, chain, finalized, Queued, Noting, Repairing, boundaries, myBounds, myGaps,
                     emits, notedUpTo, block, seen>>
      /\ main = "mark" /\ main' = "record" /\ lastSlot' = block
  BY DEF GapMark, finalizerVars, Repairing, Walking, Noting, Queued
<1>2. /\ UNCHANGED <<Recorded, Live, OnTheWay, NewestBlock>>
  BY <1>1 DEF Recorded, Live, NewestBlock, InGap, OnTheWay
<1>3. AllFollowed'
  BY <1>1, <1>2 DEF LeftNow, AllFollowed, Followed, Moved
<1> QED
  BY <1>1, <1>2, <1>3 DEF LeftNow, BlocksKnown, BlockIsNew, Unseen, RepairedQueued, LiveNotDone

\* The block is recorded live: it is the last received, so nothing has to build
\* on it yet.
LEMMA SaveBlockKeeps ==
  ASSUME HealingInv, GapInv, LeftNow, SaveBlock
  PROVE  LeftNow'
<1>1. /\ UNCHANGED <<chain, finalized, Queued, Noting, Repairing, boundaries, myBounds, myGaps,
                     emits, notedUpTo, lastSlot, seen>>
      /\ main = "record" /\ main' = "idle" /\ block' = 0
      /\ blocks' = [blocks EXCEPT ![block] = LiveEntry(block)]
  BY DEF SaveBlock, RecordBlock, Repairing, Walking, Noting, Queued
<1>2. /\ block = lastSlot /\ block \notin Recorded \cup OnTheWay /\ block \in seen
      /\ block \in Produced /\ block \in Slots
  BY <1>1, HealingAssumption DEF LeftNow, BlockIsNew, HealingInv, ControlKnows
<1>3. \A t \in Slots : blocks'[t] = IF t = block THEN LiveEntry(block) ELSE blocks[t]
  BY <1>1 DEF HealingInv, FinalizerTypeOK
<1>4. Recorded' = Recorded \cup {block} /\ Live' = Live \cup {block}
  BY <1>2, <1>3, EntriesDiffer DEF Recorded, Live
<1>5. /\ OnTheWay' = OnTheWay /\ NewestBlock = lastSlot /\ NewestBlock' = lastSlot
  BY <1>1 DEF NewestBlock, InGap, OnTheWay
<1>6. BlocksKnown'
  BY <1>1, <1>2, <1>3, <1>4, <1>5 DEF LeftNow, BlocksKnown
<1>7. BlockIsNew'
  <2>1. block <= lastSlot
    BY <1>2, SlotsAssumption
  <2> QED
    BY <1>1, <1>2, <1>4, <1>5, <2>1 DEF LeftNow, BlockIsNew
<1>8. Unseen'
  BY <1>1, <1>5 DEF LeftNow, Unseen
<1>9. RepairedQueued'
  BY <1>1, <1>4 DEF LeftNow, RepairedQueued
<1>10. LiveNotDone'
  BY <1>1, <1>2, <1>4 DEF LeftNow, LiveNotDone, OnTheWay
<1>11. AllFollowed'
  BY <1>1, <1>2, <1>4 DEF LeftNow, AllFollowed, Followed, Moved
<1> QED
  BY <1>6, <1>7, <1>8, <1>9, <1>10, <1>11 DEF LeftNow


-----------------------------------------------------------------------------

\* The inductive invariant: the above, as long as no block came late.
LeftInv == late = {} => LeftNow

\* Nothing is recorded at the start.
LEMMA LeftInit == Init => LeftInv
<1> SUFFICES ASSUME Init PROVE LeftNow
  BY DEF LeftInv
<1>1. /\ Recorded = {} /\ Live = {} /\ OnTheWay = {} /\ seen = {} /\ myGaps = {} /\ emits = {}
      /\ main = "idle"
  <2>1. \A s \in Slots : blocks[s] = NoBlock
    BY DEF Init, FinalizerInit
  <2>2. Recorded = {} /\ Live = {}
    BY <2>1, EntriesDiffer DEF Recorded, Live
  <2> QED
    BY <2>2 DEF Init, FinalizerInit, GapFillInit, OnTheWay, Queued, Walking, Noting, Repairing
<1> QED
  BY <1>1 DEF LeftNow, BlocksKnown, BlockIsNew, Unseen, RepairedQueued, LiveNotDone, AllFollowed

\* Only an out of order block is remembered as late, and for good.
LEMMA LateStays ==
  ASSUME Next, late' = {}
  PROVE  late = {} /\ \A s \in Slots : ~BlockOutOfOrder(s)
<1>1. \A s \in Slots : BlockOutOfOrder(s) => late' = late \cup {s}
  BY DEF BlockOutOfOrder
<1>2. (\A s \in Slots : ~BlockOutOfOrder(s)) => late' = late
  BY DEF Next, Exited, StreamStep, StartupTask, MainTask, MainStep, FillTask, FillStep, FinalizerWorker,
         BlockedMain, HealthWrite, StartupFinishes, BlockContinues, BlockAfterGap, SlotFinalized,
         GapBoundary, GapPause, GapReason, GapMark, SaveBlock, FillWake, FillBounds, FillResume,
         FillUnreason, FillRound, FillPanics, FillFetchFails, FillFetch, FillSave, FillEnqueue,
         FillProcessingFails, FillEmpties, FillSeed, FillRemaining, FillFinishGap
<1> QED
  BY <1>1, <1>2

\* Every step of every task keeps the invariant.
LEMMA LeftStep == HealingInv /\ GapInv /\ LeftInv /\ [Next]_vars => LeftInv'
<1> SUFFICES ASSUME HealingInv, GapInv, LeftInv, [Next]_vars, late' = {} PROVE LeftNow'
  BY DEF LeftInv
<1>1. CASE UNCHANGED vars
  <2>1. /\ UNCHANGED <<late, main, block, lastSlot, seen, notedUpTo, boundaries, myBounds, myGaps, emits, Repairing>>
        /\ UNCHANGED <<blocks, chain, finalized, pending, Walking, Noting>>
    BY <1>1 DEF finalizerVars, Repairing, Walking, Noting
  <2>2. UNCHANGED <<Queued, OnTheWay>>
    BY <2>1 DEF Queued, OnTheWay
  <2>3. LeftNow
    BY <2>1 DEF LeftInv
  <2>4. emits \subseteq Produced
    BY <2>3 DEF LeftNow, BlocksKnown
  <2> QED
    BY <2>1, <2>2, <2>3, <2>4, MovesOn
<1>2. CASE Next /\ ~UNCHANGED vars
  <2>1. LeftNow /\ \A s \in Slots : ~BlockOutOfOrder(s)
    BY <1>2, LateStays DEF LeftInv
  <2>2. CASE StreamStep
    BY <2>1, <2>2, BlockContinuesKeeps, BlockAfterGapKeeps, SlotFinalizedKeeps DEF StreamStep
  <2>3. CASE StartupTask
    BY <2>1, <2>3, QuietMain, HealingAssumption DEF StartupTask
  <2>4. CASE MainTask
    BY <2>1, <2>4, QuietMain, QuietProducer, GapBoundaryKeeps, GapMarkKeeps, SaveBlockKeeps,
       HealingAssumption DEF MainTask, MainStep
  <2>5. CASE FillTask
    BY <2>1, <2>5, QuietMain, QuietFill, FillSaveKeeps, HealingAssumption DEF FillTask
  <2>6. CASE FinalizerWorker
    BY <2>1, <2>6, QuietWorker, WalkKeeps
  <2> QED
    BY <1>2, <2>2, <2>3, <2>4, <2>5, <2>6 DEF Next, Exited
<1> QED
  BY <1>1, <1>2

\* Once all is quiet the greatest live block below a finalized one would be
\* neither last, queued nor a boundary, so a block recorded live builds on it,
\* and that block lies at or below the finalized one: no such block is left.
LEMMA LeftMatch == HealingInv /\ GapInv /\ LeftInv => NoneLeftBehind
<1> SUFFICES ASSUME HealingInv, GapInv, LeftNow, Quiescent, boundaries = {},
                    NEW s \in Slots, blocks[s] # NoBlock, NEW f \in finalized, ~(f < s)
             PROVE  FALSE
  BY DEF LeftInv, NoneLeftBehind
<1>1. /\ Queued = {} /\ Repairing = {} /\ main = "idle" /\ f <= lastSlot
  BY DEF Quiescent, Queued, Walking, Repairing
<1>2. Recorded \subseteq Live /\ s \in Live
  <2>1. Recorded \subseteq Live
    BY <1>1 DEF LeftNow, RepairedQueued
  <2> QED
    BY <2>1 DEF Recorded
<1>3. /\ f \in Produced /\ f \in Slots /\ f \in Nat /\ s \in Nat /\ Live \subseteq Slots /\ Slots \subseteq Nat
      /\ f \notin Live
  BY HealingAssumption, SlotsAssumption DEF LeftNow, BlocksKnown, OnTheWay, LiveNotDone, Live
<1>4. s < f
  <2>1. s # f
    BY <1>2, <1>3
  <2> QED
    BY <1>3, <2>1
<1> DEFINE below == {t \in Live : t < f}
<1>5. PICK u \in below : \A t \in below : t <= u
  <2>1. below \in SUBSET Nat /\ s \in below /\ \A t \in below : t < f
    BY <1>2, <1>3, <1>4
  <2> HIDE DEF below
  <2> QED
    BY <1>3, <2>1, MaxExists
<1>6. u \in Live /\ u < f /\ u # lastSlot /\ u \in Nat
  <2>1. lastSlot \in Nat
    BY SlotsAssumption DEF HealingInv, GapFillTypeOK
  <2> QED
    BY <1>1, <1>3, <2>1
<1>7. PICK c \in Produced : Parent(c) = u /\ c \in Live
  BY <1>1, <1>6 DEF LeftNow, AllFollowed, Followed
<1>8. c \in Nat /\ u < c /\ (f < c => f <= u)
  BY <1>3, <1>7, ParentIs
<1>9. CASE c < f
  BY <1>5, <1>6, <1>7, <1>8, <1>9
<1>10. CASE c = f
  BY <1>3, <1>7, <1>10
<1>11. CASE f < c
  BY <1>3, <1>6, <1>8, <1>11
<1> QED
  BY <1>3, <1>8, <1>9, <1>10, <1>11

\* NoneLeftBehind: without late blocks, once the queue is drained and the
\* boundaries are seeded, no recorded block is older than a finalized one, so
\* no block saved by the main task or the gap filler misses its finalization.
THEOREM NothingLeftBehind == Spec => []NoneLeftBehind
<1>1. Init => LeftInv
  BY LeftInit
<1> QED
  BY <1>1, LeftStep, LeftMatch, HealingInvariant, GapInvariant, PTL DEF Spec
=============================================================================
