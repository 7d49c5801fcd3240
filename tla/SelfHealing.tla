---------------------------- MODULE SelfHealing ----------------------------
(***************************************************************************)
(* Gap detection and gap repair (index/modules/self_healing.rs), composed  *)
(* with the slot finalizer and with node health: the main loop of the      *)
(* indexer (indexer.rs: process_update), the fill_gaps task and the        *)
(* finalizer worker run concurrently and share gaps_list, gap_boundaries,  *)
(* the finalizer and the health reasons, each behind its own mutex.        *)
(*                                                                         *)
(* A step is one critical section or one awaited call.  Steps of one task  *)
(* that touch only what no other task reads in between are merged.         *)
(*                                                                         *)
(* The cluster and the gRPC stream are the environment: confirmed blocks   *)
(* form one chain, a block or a finalized notification may be lost, and    *)
(* the blocks of Late may arrive late.  save_block is its call of          *)
(* record_block here.                                                      *)
(***************************************************************************)
EXTENDS SlotFinalizer, ServiceHealth

CONSTANTS Produced,    \* slots with a block; the other slots are skipped
          Late,        \* slots whose block may arrive out of order
          Bases,       \* base slots of the incremental snapshots on offer
          MaxRetries   \* gap-fill-max-snapshot-retries

VARIABLES lastSlot,    \* last_slot_received, 0 before the first block
          lastHash,    \* last_blockhash_received
          gaps,        \* gaps_list
          boundaries,  \* gap_boundaries
          supply,      \* status of the supply tracker once it is live
          ready,       \* snapshot_processing_state is FinishedAndCleanedUp
          main,        \* control state of the main loop
          block,       \* slot of the block the main loop is processing
          fill,        \* control state of fill_gaps
          myGaps,      \* its clone of gaps_list, later the covered part
          myBounds,    \* its clone of gap_boundaries
          emits,       \* covered slots the snapshot has account files for
          repair,      \* slot of the repaired block being saved
          retries,     \* snapshot_unavailable_retries
          exited,      \* fill_gaps ended, and with it the indexer
          seen,        \* environment: slots whose block was delivered
          late,        \* history: those whose block came out of order
          repaired,    \* history: gap slots repaired or found to hold nothing
          notedUpTo    \* environment: last finalized notification delivered

mainVars == <<lastSlot, lastHash, main, block, seen, late,
              notedUpTo>>
fillVars == <<fill, myGaps, myBounds, emits, repair, retries, exited, repaired>>
sharedVars == <<gaps, boundaries, supply, ready>>
vars == <<finalizerVars, healthVars, mainVars, fillVars, sharedVars>>

ASSUME HealingAssumption ==
  /\ Produced \subseteq Slots
  /\ Slots \subseteq Hash
  /\ NoHash \notin Slots
  /\ Late \subseteq Produced
  /\ Bases \subseteq Nat
  /\ MaxRetries \in Nat \ {0}
  /\ {"main", "fill", "startup"} \subseteq Tasks

\* The chain of confirmed blocks; the hash of a block is its slot.
Parent(s) ==
  LET below == {p \in Produced : p < s}
  IN  IF below = {} THEN 0 ELSE CHOOSE p \in below : \A q \in below : q <= p

ParentHash(s) == IF Parent(s) = 0 THEN NoHash ELSE Parent(s)

LiveEntry(s) == [hash |-> s, parent |-> Parent(s), phash |-> ParentHash(s)]

\* The blocks this module records are in the feed of the finalizer.
ASSUME RecordedAssumption ==
  /\ \A s \in Produced : <<s, LiveEntry(s)>> \in Feed
  /\ \A s \in Slots : <<s, RepairedEntry>> \in Feed

GapFillInit ==
  /\ lastSlot = 0 /\ lastHash = NoHash
  /\ gaps = {} /\ boundaries = {}
  /\ supply = "Live"
  /\ main = "idle" /\ block = 0
  /\ fill = "sleep" /\ myGaps = {} /\ myBounds = {} /\ emits = {} /\ repair = 0
  /\ retries = 0 /\ exited = FALSE
  /\ seen = {} /\ late = {} /\ repaired = {} /\ notedUpTo = 0

Init ==
  /\ FinalizerInit
  /\ HealthInit
  /\ ready = FALSE
  /\ GapFillInit

----------------------------------------------------------------------------
(* Environment                                                             *)

\* The startup one-shot succeeded: the state advances, the reason goes.
StartupFinishes ==
  /\ ~ready
  /\ ready' = TRUE
  /\ RemoveReason("startup", "Startup")
  /\ UNCHANGED <<finalizerVars, mainVars, fillVars, gaps, boundaries, supply>>

----------------------------------------------------------------------------
(* Main loop: process_update, one update at a time                         *)

MainIdle == main = "idle" /\ producer = "idle" /\ ~exited

\* A block comes after the blocks before it and before its own finalized
\* notification; a block of Late may also come after later blocks.
MayDeliver(s) ==
  /\ s \in Produced \ seen
  /\ s > lastSlot => s > notedUpTo
  /\ s <= lastSlot => s \in Late

\* check_slot_gap, an out of order block: only the gaps list changes.
BlockOutOfOrderKeepsGap(s) ==
  /\ MainIdle
  /\ MayDeliver(s)
  /\ s <= lastSlot
  /\ block' = s
  /\ seen' = seen \cup {s}
  /\ late' = late \cup {s}
  /\ main' = "record"
  /\ UNCHANGED <<finalizerVars, healthVars, fillVars, sharedVars, lastSlot,
                 lastHash, notedUpTo>>

BlockOutOfOrder(s) ==
  /\ MainIdle
  /\ MayDeliver(s)
  /\ s <= lastSlot
  /\ gaps' = gaps \ {s}
  /\ block' = s
  /\ seen' = seen \cup {s}
  /\ late' = late \cup {s}
  /\ main' = "record"
  /\ UNCHANGED <<finalizerVars, healthVars, fillVars, boundaries, supply, ready,
                 lastSlot, lastHash, notedUpTo>>

BuildsOnLastByDistance(s) == TRUE

BuildsOnLast(s) == Parent(s) = lastSlot /\ ParentHash(s) = lastHash

GapBefore(s) ==
  lastSlot # 0 /\ s > lastSlot + 1 /\ ~BuildsOnLast(s)

\* check_slot_gap, a block that continues the chain.
BlockContinues(s) ==
  /\ MainIdle
  /\ MayDeliver(s)
  /\ s > lastSlot
  /\ ~GapBefore(s)
  /\ lastSlot' = s
  /\ lastHash' = s
  /\ block' = s
  /\ seen' = seen \cup {s}
  /\ main' = "record"
  /\ UNCHANGED <<finalizerVars, healthVars, fillVars, sharedVars, late,
                 notedUpTo>>

\* check_slot_gap, a confirmed gap: the whole range is queued for repair ...
BlockAfterGap(s) ==
  /\ MainIdle
  /\ MayDeliver(s)
  /\ s > lastSlot
  /\ GapBefore(s)
  /\ gaps' = gaps \cup {t \in Slots : lastSlot < t /\ t < s}
  /\ block' = s
  /\ seen' = seen \cup {s}
  /\ main' = "boundary"
  /\ UNCHANGED <<finalizerVars, healthVars, fillVars, boundaries, supply, ready,
                 lastSlot, lastHash, late, notedUpTo>>

\* ... the last live slot before it is remembered ...
NoBoundary ==
  /\ main = "boundary"
  /\ main' = "pause"
  /\ UNCHANGED <<finalizerVars, healthVars, fillVars, gaps, boundaries, supply,
                 ready, lastSlot, lastHash, block, seen, late, notedUpTo>>

GapBoundary ==
  /\ main = "boundary"
  /\ boundaries' = boundaries \cup {lastSlot}
  /\ main' = "pause"
  /\ UNCHANGED <<finalizerVars, healthVars, fillVars, gaps, supply, ready,
                 lastSlot, lastHash, block, seen, late, notedUpTo>>

\* ... finalization is paused ...
GapPause ==
  /\ main = "pause"
  /\ PauseFinalizer
  /\ main' = IF paused THEN "mark" ELSE "reason"
  /\ UNCHANGED <<healthVars, fillVars, sharedVars, lastSlot, lastHash, block,
                 seen, late, notedUpTo>>

\* ... and, if that was news, the health reason is added ...
GapReason ==
  /\ main = "reason"
  /\ AddReason("main", "GapFill")
  /\ main' = "mark"
  /\ UNCHANGED <<finalizerVars, fillVars, sharedVars, lastSlot, lastHash, block,
                 seen, late, notedUpTo>>

\* ... and, its write done, the supply tracker stops publishing and the block
\* becomes the last one received.
GapMark ==
  /\ main = "mark"
  /\ write["main"] = "none"
  /\ supply' = "GapFilling"
  /\ lastSlot' = block
  /\ lastHash' = block
  /\ main' = "record"
  /\ UNCHANGED <<finalizerVars, healthVars, fillVars, gaps, boundaries, ready,
                 block, seen, late, notedUpTo>>

\* save_block of the live block.
SaveBlock ==
  /\ main = "record"
  /\ RecordBlock(block, LiveEntry(block))
  /\ main' = "idle"
  /\ block' = 0
  /\ UNCHANGED <<healthVars, fillVars, sharedVars, lastSlot, lastHash, seen, late,
                 notedUpTo>>

\* A finalized notification; the ones skipped were lost.
SlotFinalized(s) ==
  /\ MainIdle
  /\ s \in Produced
  /\ notedUpTo < s
  /\ NoteFinalized(s)
  /\ notedUpTo' = s
  /\ UNCHANGED <<healthVars, fillVars, sharedVars, lastSlot, lastHash, main,
                 block, seen, late>>

----------------------------------------------------------------------------
(* fill_gaps                                                               *)

\* Every 30 seconds: clone the gaps list ...
FillWake ==
  /\ fill = "sleep"
  /\ ~exited
  /\ myGaps' = gaps
  /\ fill' = "bounds"
  /\ UNCHANGED <<finalizerVars, healthVars, mainVars, sharedVars, myBounds,
                 emits, repair, retries, exited, repaired>>

\* ... then, under another lock, the boundaries.
FillBounds ==
  /\ fill = "bounds"
  /\ myBounds' = boundaries
  /\ fill' = IF myGaps = {} THEN "resume" ELSE "fetch"
  /\ UNCHANGED <<finalizerVars, healthVars, mainVars, sharedVars, myGaps, emits,
                 repair, retries, exited, repaired>>

\* The first half of resume(), then its remove_reason, then the write.
FillResume ==
  /\ fill = "resume"
  /\ ResumeFinalizer
  /\ fill' = "unreason"
  /\ UNCHANGED <<healthVars, mainVars, sharedVars, myGaps, myBounds, emits,
                 repair, retries, exited, repaired>>

FillUnreason ==
  /\ fill = "unreason"
  /\ RemoveReason("fill", "GapFill")
  /\ fill' = "written"
  /\ UNCHANGED <<finalizerVars, mainVars, sharedVars, myGaps, myBounds, emits,
                 repair, retries, exited, repaired>>

FillRound ==
  /\ fill = "written"
  /\ write["fill"] = "none"
  /\ fill' = "sleep"
  /\ myGaps' = {} /\ myBounds' = {}
  /\ UNCHANGED <<finalizerVars, healthVars, mainVars, sharedVars, emits, repair,
                 retries, exited, repaired>>

\* A gap before startup finished: the task panics.
FillPanics ==
  /\ fill = "fetch"
  /\ ~ready
  /\ exited' = TRUE
  /\ UNCHANGED <<finalizerVars, healthVars, mainVars, sharedVars, fill, myGaps,
                 myBounds, emits, repair, retries, repaired>>

\* No covering pair within 60 seconds: retry next round, or give up.
FillFetchRetriesForever ==
  /\ fill = "fetch"
  /\ ready
  /\ ~exited
  /\ retries' = retries + 1
  /\ fill' = "sleep" /\ myGaps' = {} /\ myBounds' = {}
  /\ UNCHANGED <<finalizerVars, healthVars, mainVars, sharedVars, emits, repair,
                 exited, repaired>>

FillFetchFails ==
  /\ fill = "fetch"
  /\ ready
  /\ ~exited
  /\ retries' = retries + 1
  /\ IF retries' >= MaxRetries
       THEN exited' = TRUE /\ UNCHANGED <<fill, myGaps, myBounds>>
       ELSE fill' = "sleep" /\ myGaps' = {} /\ myBounds' = {} /\ UNCHANGED exited
  /\ UNCHANGED <<finalizerVars, healthVars, mainVars, sharedVars, emits, repair,
                 repaired>>

\* A pair whose incremental snapshot reaches the newest gap slot: snapshots are
\* taken at finalized slots.  Only the gap slots above its base are in it; the
\* others stay in the list.  A pair without an incremental snapshot, or whose
\* download does not start, is one that has none of them.
FillFetch(base) ==
  /\ fill = "fetch"
  /\ ready
  /\ ~exited
  /\ retries' = 0
  /\ LET covered == {s \in myGaps : s > base}
     IN  IF covered = {}
           THEN /\ fill' = "sleep" /\ myGaps' = {} /\ myBounds' = {}
                /\ emits' = {}
           ELSE /\ fill' = "emit" /\ myGaps' = covered /\ UNCHANGED myBounds
                /\ emits' \in SUBSET (covered \cap Produced)
  /\ UNCHANGED <<finalizerVars, healthVars, mainVars, sharedVars, repair, exited,
                 repaired>>

\* save_block of a repaired block (account files come in any order) ...
FillSave(s) ==
  /\ fill = "emit"
  /\ s \in emits
  /\ RecordBlock(s, RepairedEntry)
  /\ emits' = emits \ {s}
  /\ repair' = s
  /\ fill' = "enqueue"
  /\ UNCHANGED <<healthVars, mainVars, sharedVars, myGaps, myBounds, retries,
                 exited, repaired>>

\* ... which is then queued past the bound and leaves the gaps list.
FillEnqueue ==
  /\ fill = "enqueue"
  /\ EnqueueUnbounded(repair)
  /\ gaps' = gaps \ {repair}
  /\ repaired' = repaired \cup {repair}
  /\ repair' = 0
  /\ fill' = "emit"
  /\ UNCHANGED <<healthVars, mainVars, boundaries, supply, ready, myGaps,
                 myBounds, emits, retries, exited>>

\* The snapshot task ended.  An error ends the indexer; otherwise covered slots
\* without accounts leave the list.
FillProcessingFails ==
  /\ fill = "emit"
  /\ ~exited
  /\ exited' = TRUE
  /\ UNCHANGED <<finalizerVars, healthVars, mainVars, sharedVars, fill, myGaps,
                 myBounds, emits, repair, retries, repaired>>

FillEmpties ==
  /\ fill = "emit"
  /\ ~exited
  /\ emits = {}
  /\ gaps' = gaps \ myGaps
  /\ repaired' = repaired \cup myGaps
  /\ fill' = "seed"
  /\ UNCHANGED <<finalizerVars, healthVars, mainVars, boundaries, supply, ready,
                 myGaps, myBounds, emits, repair, retries, exited>>

\* enqueue_gap_boundary for the cloned boundaries.
FillSeed(b) ==
  /\ fill = "seed"
  /\ b \in myBounds
  /\ EnqueueUnbounded(b)
  /\ myBounds' = myBounds \ {b}
  /\ boundaries' = boundaries \ {b}
  /\ UNCHANGED <<healthVars, mainVars, gaps, supply, ready, fill, myGaps, emits,
                 repair, retries, exited, repaired>>

\* Are there gaps left?
FillRemaining ==
  /\ fill = "seed"
  /\ myBounds = {}
  /\ fill' = IF gaps = {} THEN "finish" ELSE "sleep"
  /\ myGaps' = {}
  /\ UNCHANGED <<finalizerVars, healthVars, mainVars, sharedVars, myBounds,
                 emits, repair, retries, exited, repaired>>

FillFinishGap ==
  /\ fill = "finish"
  /\ supply' = "Live"
  /\ fill' = "resume"
  /\ UNCHANGED <<finalizerVars, healthVars, mainVars, gaps, boundaries, ready,
                 myGaps, myBounds, emits, repair, retries, exited, repaired>>

----------------------------------------------------------------------------

MainStep ==
  \/ GapBoundary
  \/ GapPause
  \/ GapReason
  \/ GapMark
  \/ SaveBlock

FillStep ==
  \/ FillWake
  \/ FillBounds
  \/ FillResume
  \/ FillUnreason
  \/ FillRound
  \/ FillPanics
  \/ FillFetchFails
  \/ \E base \in Bases : FillFetch(base)
  \/ \E s \in Slots : FillSave(s)
  \/ FillEnqueue
  \/ FillProcessingFails
  \/ FillEmpties
  \/ \E b \in Slots : FillSeed(b)
  \/ FillRemaining
  \/ FillFinishGap

StreamStep ==
  \/ \E s \in Slots : BlockOutOfOrder(s)
  \/ \E s \in Slots : BlockContinues(s)
  \/ \E s \in Slots : BlockAfterGap(s)
  \/ \E s \in Slots : SlotFinalized(s)

FinalizerWorker ==
  WorkerStep /\ UNCHANGED <<healthVars, mainVars, fillVars, sharedVars>>

BlockedMain ==
  ProducerStep /\ UNCHANGED <<healthVars, mainVars, fillVars, sharedVars>>

HealthWrite(t) ==
  WriteHealth(t) /\ UNCHANGED <<finalizerVars, mainVars, fillVars, sharedVars>>

MainTask == BlockedMain \/ MainStep \/ HealthWrite("main")

FillTask == FillStep \/ HealthWrite("fill")

StartupTask == StartupFinishes \/ HealthWrite("startup")

\* The process is over once fill_gaps returned or panicked.
Exited == exited /\ UNCHANGED vars

Next ==
  \/ ~exited /\ \/ StreamStep
                \/ StartupTask
                \/ MainTask
                \/ FillTask
                \/ FinalizerWorker
  \/ Exited

Spec == Init /\ [][Next]_vars

\* Each task of the runtime that can make progress is eventually polled, and
\* what it awaits ends (a health write has a 30 second timeout, a snapshot
\* fetch one of 60 seconds).  Nothing is assumed of the stream or of the startup
\* task; what gap repair needs of the snapshots is in ServiceResumes.
Fairness ==
  /\ WF_vars(~exited /\ FinalizerWorker)
  /\ WF_vars(~exited /\ MainTask)
  /\ WF_vars(~exited /\ FillTask)

\* A node that has started up and is healthy, with nothing received yet: a
\* state Spec reaches, from which the liveness of gap repair is checked.
RunningInit ==
  /\ FinalizerInit
  /\ reasons = {} /\ dbHealthy = TRUE /\ write = [t \in Tasks |-> "none"]
  /\ ready = TRUE
  /\ GapFillInit

RunningSpec == RunningInit /\ [][Next]_vars /\ Fairness

----------------------------------------------------------------------------
(* Properties                                                              *)

\* Type invariant of the state this module adds.
TypeOK ==
  /\ FinalizerTypeOK
  /\ HealthTypeOK
  /\ lastSlot \in Slots \cup {0} /\ lastHash \in Hash
  /\ gaps \subseteq Slots /\ boundaries \subseteq Slots
  /\ supply \in {"Live", "GapFilling"}
  /\ ready \in BOOLEAN /\ exited \in BOOLEAN
  /\ main \in {"idle", "boundary", "pause", "reason", "mark", "record"}
  /\ fill \in {"sleep", "bounds", "resume", "unreason", "written", "fetch",
               "emit", "enqueue", "seed", "finish"}
  /\ block \in Slots \cup {0} /\ repair \in Slots \cup {0}
  /\ myGaps \subseteq Slots /\ myBounds \subseteq Slots /\ emits \subseteq Slots
  /\ retries \in 0..MaxRetries
  /\ seen \subseteq Slots /\ late \subseteq Slots /\ repaired \subseteq Slots
  /\ notedUpTo \in Slots \cup {0}

\* No missed block goes unnoticed: every block the indexer skipped after the
\* first one it received in order is in the gaps list until it arrives late or is
\* repaired (check_slot_gap, self_healing.rs 103-149).
NoGapUnnoticed ==
  main = "idle" =>
     \A f \in seen \ late, s \in Produced :
        f < s /\ s < lastSlot => s \in seen \cup gaps \cup repaired

\* The gaps list never asks for a block the indexer has: however late a block
\* arrives, and whatever range a later gap adds, a slot in the list is below the
\* last one received and its block was not (self_healing.rs 103-114, 135-149).
GapsAreMissing ==
  main = "idle" => \A s \in gaps : s < lastSlot /\ s \notin seen

Quiescent ==
  /\ main = "idle" /\ producer = "idle" /\ fill = "sleep"
  /\ gaps = {} /\ pending = {} /\ ~paused /\ worker = "wait"
  /\ \A f \in finalized : f <= lastSlot

\* Nothing is left behind: once everything queued has been finalized, no
\* recorded block is below a finalized slot, although finalized notifications
\* were lost around repaired gaps (the ancestor walk and the gap boundaries,
\* finalize_slot.rs 319-331 and self_healing.rs 454-490).
NoneLeftBehind ==
  Quiescent /\ boundaries = {} /\ late = {} =>
     \A s \in Slots : blocks[s] # NoBlock => \A f \in finalized : f < s

\* The fetch found a pair whose base is at or above a gap slot: that slot is not
\* in it, and the list keeps it (self_healing.rs 330-355).
UncoveredFetch ==
  \E base \in Bases : (\E s \in myGaps : s <= base) /\ FillFetch(base)

\* Unless the cluster goes on offering pairs that leave a gap slot out, every
\* pause ends and every notification held back by it gets through, or the
\* indexer exits: the main loop asleep in note_finalized can not keep the gap
\* filler from reaching its resume, nor can the worker sleep through it, and a
\* pair that left a slot out does no harm once the slot's block has come late or
\* in a later pair (README, Self-Healing step 5; finalize_slot.rs 182-198,
\* 232-246, 256-297).  The assumption is the code's: of a slot no pair has, it
\* says the service stays paused until an operator intervenes (self_healing.rs
\* 341-344), and it neither retries with a limit nor exits.
ServiceResumes ==
  <>[][~UncoveredFetch]_vars =>
     ((paused \/ producer # "idle") ~> (exited \/ (~paused /\ producer = "idle")))

\* Stated by self_healing.rs 86-87: once a gap is confirmed, finalization is
\* paused until the gap is filled.
PausedUntilFilled == main = "idle" /\ gaps # {} => paused \/ exited

\* Stated by health.rs 12-13: the service is reported healthy on the DB only
\* when there are no active reasons left.
HealthyOnlyWithoutReasons ==
  dbHealthy /\ (\A t \in Tasks : write[t] = "none") => reasons = {}

\* Stated by self_healing.rs 218-219: the boundaries cloned are those of the gaps
\* cloned.  Hence no boundary is left once every gap is repaired.
BoundariesSeeded == Quiescent => boundaries = {}

=============================================================================
