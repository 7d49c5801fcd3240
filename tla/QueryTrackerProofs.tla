------------------------- MODULE QueryTrackerProofs -------------------------
(***************************************************************************)
(* What is proved of the query tracker, for every set of patterns,         *)
(* configuration, workload and budget:                                     *)
(*                                                                         *)
(*   the cap     the number the creation loop read stays an upper bound on *)
(*               its way to the index, because no other task adds indexes; *)
(*   the trim    the number the trim counts down from is never above the   *)
(*               indexes there are, plus the one it just dropped;          *)
(*   the demand  what the client accepted is in the table, in its hands,   *)
(*               or in the one request whose outcome it waits for;         *)
(*   the pair    while no statement failed, the status of a pattern says   *)
(*               which of its two indexes exist.                           *)
(***************************************************************************)
EXTENDS QueryTracker, FiniteSetTheorems, SequenceTheorems, TLAPS

----------------------------------------------------------------------------
(* The cap                                                                 *)

\* What the count of the creation loop still says when its index is built: only
\* the loop adds indexes.
BuildingStates == {"choose", "guard", "accounts", CAP_TABLE}

\* The cap with what the loop has read: room for one more index until it is built.
CapInv ==
  /\ scene \in Scenes
  /\ indexes \in [Tables -> SUBSET Patterns]
  /\ IsFiniteSet(indexes[CAP_TABLE])
  /\ creation.pc \in BuildingStates => Count < scene.cap
  /\ CapHeld

\* A creation record has its pc, whatever else it has.
CreationShape ==
  \/ creation = [pc |-> "sleep"]
  \/ creation = [pc |-> "count"]
  \/ creation = [pc |-> "choose", current |-> creation.current]
  \/ /\ creation.p \in Patterns
     /\ creation = [pc |-> "guard", current |-> creation.current, p |-> creation.p,
                    score |-> creation.score]
  \/ /\ creation.pc \in {"accounts", CAP_TABLE, "mark"} /\ creation.p \in Patterns
     /\ creation = [pc |-> creation.pc, p |-> creation.p]

\* top_candidates_scored fetches candidates, whatever the tie and the limit leave out.
LEMMA FetchedAreCandidates ==
  \A f \in TopCandidates(rows, scene.mode, scene.limit) : f \subseteq Candidates(rows)
BY DEF TopCandidates, BestOf

\* The creation loop goes from count to choice to guard to the two builds and the
\* mark, or back to sleep; every other task leaves its record alone (creation.rs).
LEMMA ShapeStep == CreationShape /\ [Next]_vars => CreationShape'
<1> SUFFICES ASSUME CreationShape, [Next]_vars PROVE CreationShape'
  OBVIOUS
<1>1. CASE creation' = creation
  BY <1>1 DEF CreationShape
<1>2. CASE creation' = Idle
  BY <1>2 DEF CreationShape, Idle
<1>3. CASE Creation
  <2>1. CASE CreationTick
    BY <2>1 DEF CreationTick, CreationShape
  <2>2. CASE CountIndexes
    BY <2>2 DEF CountIndexes, CreationShape, Idle
  <2>3. CASE ChooseCandidate
    <3>1. \A f \in TopCandidates(rows, scene.mode, scene.limit) : Chosen(f) \subseteq Patterns
      BY FetchedAreCandidates DEF Chosen, Candidates
    <3> QED
      BY <2>3, <3>1 DEF ChooseCandidate, CreationShape, Idle
  <2>4. CASE ValueGuard
    BY <2>4 DEF ValueGuard, CreationShape, Idle, CAP_TABLE
  <2>5. CASE CreateOne("accounts", CAP_TABLE)
    BY <2>5 DEF CreateOne, CreationShape, Idle, CAP_TABLE
  <2>6. CASE CreateOne(CAP_TABLE, "mark")
    BY <2>6 DEF CreateOne, CreationShape, Idle, CAP_TABLE
  <2>7. CASE CreatePairDone \/ CreationReadFails
    BY <2>7 DEF CreatePairDone, CreationReadFails, CreationShape, Idle
  <2> QED
    BY <1>3, <2>1, <2>2, <2>3, <2>4, <2>5, <2>6, <2>7 DEF Creation
<1>4. ASSUME NEW t, NEW next, DropOne(t, next) PROVE creation' = creation
  BY <1>4 DEF DropOne
<1>5. ASSUME Eviction PROVE creation' = creation
  BY <1>5, <1>4 DEF Eviction, EvictionTick, RegressionWait, RegressionDone, WaitOutBackpressure,
       MarkDropped, RefreshSupply, StartTrim, PassAborts, MarkUnhealthy, TrimDone, TrimWait,
       RestoreHealthy, WriteHealth, evictUnchanged
<1>6. ASSUME Client \/ Ingest PROVE creation' = creation
  BY <1>6 DEF Client, StartFlush, SendBatch, RequeueEntries, Ingest, BatchApplied, ApplyObservation
<1>7. ASSUME Environment PROVE creation' = creation \/ creation' = Idle
  BY <1>7 DEF Environment, BufferQuery, Elapse, SendTimeout, BatchFailed, RollAll, IndexerHealth, Restart
<1> QED
  BY <1>1, <1>2, <1>3, <1>5, <1>6, <1>7 DEF Next, vars

\* Who changes what: the two loops alone touch the indexes, each only its own
\* control state; a restart sends both to sleep.
LEMMA QuietSteps ==
  ASSUME [Next]_vars
  PROVE  \/ Creation /\ UNCHANGED <<scene, eviction>>
         \/ Eviction /\ UNCHANGED <<scene, creation>>
         \/ /\ UNCHANGED <<scene, indexes>>
            /\ UNCHANGED creation \/ creation' = Idle
            /\ UNCHANGED eviction \/ eviction' = Idle
<1>1. ASSUME NEW t, NEW next, DropOne(t, next) PROVE UNCHANGED <<scene, creation>>
  BY <1>1 DEF DropOne
<1>2. ASSUME NEW t, NEW next, CreateOne(t, next) PROVE UNCHANGED <<scene, eviction>>
  BY <1>2 DEF CreateOne, createUnchanged
<1>3. ASSUME Eviction PROVE UNCHANGED <<scene, creation>>
  BY <1>1, <1>3 DEF Eviction, EvictionTick, RegressionWait, RegressionDone, WaitOutBackpressure,
       MarkDropped, RefreshSupply, StartTrim, PassAborts, MarkUnhealthy, TrimDone, TrimWait,
       RestoreHealthy, WriteHealth, evictUnchanged
<1>4. ASSUME Creation PROVE UNCHANGED <<scene, eviction>>
  BY <1>2, <1>4 DEF Creation, CreationTick, CountIndexes, ChooseCandidate, ValueGuard, CreatePairDone,
       CreationReadFails, createUnchanged
<1>5. ASSUME Client \/ Ingest PROVE UNCHANGED <<scene, indexes, creation, eviction>>
  BY <1>5 DEF Client, StartFlush, SendBatch, RequeueEntries, Ingest, BatchApplied, ApplyObservation,
       dbVars
<1>6. ASSUME Environment
      PROVE  /\ UNCHANGED <<scene, indexes>>
             /\ UNCHANGED creation \/ creation' = Idle
             /\ UNCHANGED eviction \/ eviction' = Idle
  BY <1>6 DEF Environment, BufferQuery, Elapse, SendTimeout, BatchFailed, RollAll, IndexerHealth, Restart,
       dbVars
<1> QED
  BY <1>3, <1>4, <1>5, <1>6 DEF Next, vars

\* The tracker starts with no index and both loops asleep.
LEMMA CapInit == Init => CapInv /\ CreationShape
<1> SUFFICES ASSUME Init PROVE CapInv /\ CreationShape
  OBVIOUS
<1>1. scene \in Scenes /\ indexes = [t \in Tables |-> {}] /\ creation = [pc |-> "sleep"]
  BY DEF Init, Idle
<1>2. CAP_TABLE \in Tables
  BY DEF CAP_TABLE, Tables
<1>3. indexes[CAP_TABLE] = {}
  BY <1>1, <1>2
<1>4. IsFiniteSet({}) /\ Cardinality({}) = 0
  BY FS_EmptySet
<1>5. scene.cap \in Nat
  BY <1>1, TrackerAssumption
<1>6. Count = 0 /\ IsFiniteSet(indexes[CAP_TABLE])
  BY <1>3, <1>4 DEF Count
<1>7. creation.pc = "sleep"
  BY <1>1
<1>8. indexes \in [Tables -> SUBSET Patterns]
  BY <1>1
<1> QED
  BY <1>1, <1>5, <1>6, <1>7, <1>8 DEF CapInv, CreationShape, CapHeld, BuildingStates, CAP_TABLE

\* The count the creation loop reads stays valid until its index exists: until
\* then indexes are only dropped (count_indexes, create_pair).
LEMMA CapStep == CapInv /\ CreationShape /\ [Next]_vars => CapInv'
<1> SUFFICES ASSUME CapInv, CreationShape, [Next]_vars PROVE CapInv'
  OBVIOUS
<1>0. /\ CAP_TABLE \in Tables /\ Tables = {"accounts", CAP_TABLE} /\ CAP_TABLE # "accounts"
      /\ scene.cap \in Nat /\ Count \in Nat
      /\ indexes \in [Tables -> SUBSET Patterns] /\ IsFiniteSet(indexes[CAP_TABLE])
  BY TrackerAssumption, FS_CardinalityType DEF CapInv, CAP_TABLE, Tables, Count
<1>1. CASE indexes' = indexes /\ scene' = scene /\ (creation' = creation \/ creation' = Idle)
  BY <1>1 DEF CapInv, CapHeld, Count, Idle, BuildingStates, CAP_TABLE
<1>2. CASE Creation /\ scene' = scene
  <2>1. CASE CreationTick
    BY <1>2, <2>1 DEF CreationTick, CapInv, CapHeld, Count, BuildingStates, CAP_TABLE
  <2>2. CASE CountIndexes
    BY <1>0, <1>2, <2>2 DEF CountIndexes, CapInv, CapHeld, Count, Idle, BuildingStates, CAP_TABLE
  <2>3. CASE ChooseCandidate
    BY <1>2, <2>3 DEF ChooseCandidate, CapInv, CapHeld, Count, Idle, BuildingStates, CAP_TABLE
  <2>4. CASE ValueGuard
    BY <1>2, <2>4 DEF ValueGuard, CapInv, CapHeld, Count, Idle, BuildingStates, CAP_TABLE
  <2>5. CASE CreateOne("accounts", CAP_TABLE)
    <3>1. creation.pc = "accounts" /\ creation.p \in Patterns
          /\ creation = [pc |-> creation.pc, p |-> creation.p]
      BY <1>0, <2>5 DEF CreateOne, CreationShape, CAP_TABLE
    <3>2. indexes' = indexes \/ indexes' = [indexes EXCEPT !["accounts"] = @ \cup {creation.p}]
      BY <2>5 DEF CreateOne
    <3>3. indexes' \in [Tables -> SUBSET Patterns] /\ indexes'[CAP_TABLE] = indexes[CAP_TABLE]
      BY <1>0, <3>1, <3>2
    <3>4. Count < scene.cap
      BY <3>1 DEF CapInv, BuildingStates
    <3>5. Count' = Count /\ IsFiniteSet(indexes'[CAP_TABLE])
      BY <1>0, <3>3 DEF Count
    <3> QED
      BY <1>0, <1>2, <3>3, <3>4, <3>5 DEF CapInv, CapHeld
  <2>6. CASE CreateOne(CAP_TABLE, "mark")
    <3>1. creation.pc = CAP_TABLE /\ creation.p \in Patterns
          /\ creation = [pc |-> creation.pc, p |-> creation.p]
      BY <1>0, <2>6 DEF CreateOne, CreationShape, CAP_TABLE
    <3>2. /\ indexes' = indexes \/ indexes' = [indexes EXCEPT ![CAP_TABLE] = @ \cup {creation.p}]
          /\ creation' = Idle \/ creation' = [creation EXCEPT !.pc = "mark"]
      BY <2>6 DEF CreateOne
    <3>3. creation'.pc \notin BuildingStates
      BY <3>1, <3>2 DEF Idle, BuildingStates, CAP_TABLE
    <3>4. /\ indexes' \in [Tables -> SUBSET Patterns]
          /\ \/ indexes'[CAP_TABLE] = indexes[CAP_TABLE]
             \/ indexes'[CAP_TABLE] = indexes[CAP_TABLE] \cup {creation.p}
      BY <1>0, <3>1, <3>2
    <3>5. Count < scene.cap
      BY <3>1 DEF CapInv, BuildingStates
    <3>6. IsFiniteSet(indexes'[CAP_TABLE]) /\ Count' <= scene.cap
      BY <1>0, <3>4, <3>5, FS_AddElement DEF Count
    <3> QED
      BY <1>2, <3>3, <3>4, <3>6 DEF CapInv, CapHeld
  <2>7. CASE CreatePairDone \/ CreationReadFails
    BY <1>2, <2>7 DEF CreatePairDone, CreationReadFails, CapInv, CapHeld, Count, Idle, BuildingStates,
         CAP_TABLE
  <2> QED
    BY <1>2, <2>1, <2>2, <2>3, <2>4, <2>5, <2>6, <2>7 DEF Creation
<1>3. ASSUME NEW t \in Tables, NEW next, DropOne(t, next), scene' = scene, creation' = creation
      PROVE  CapInv'
  <2> DEFINE p == Head(eviction.list)
  <2>1. indexes' = indexes \/ indexes' = [indexes EXCEPT ![t] = @ \ {p}]
    BY <1>3 DEF DropOne
  <2> HIDE DEF p
  <2>2. /\ indexes' \in [Tables -> SUBSET Patterns]
        /\ indexes'[CAP_TABLE] \subseteq indexes[CAP_TABLE]
    BY <1>0, <2>1
  <2>3. /\ IsFiniteSet(indexes'[CAP_TABLE])
        /\ Cardinality(indexes'[CAP_TABLE]) <= Cardinality(indexes[CAP_TABLE])
        /\ Cardinality(indexes'[CAP_TABLE]) \in Nat
    BY <1>0, <2>2, FS_Subset, FS_CardinalityType
  <2> QED
    BY <1>0, <1>3, <2>2, <2>3 DEF CapInv, CapHeld, Count
<1>4. CASE Eviction /\ scene' = scene /\ creation' = creation
  <2>1. CASE DropOne("accounts", CAP_TABLE) \/ DropOne(CAP_TABLE, "mark")
    BY <1>0, <1>3, <1>4, <2>1
  <2>2. CASE ~DropOne("accounts", CAP_TABLE) /\ ~DropOne(CAP_TABLE, "mark")
    <3>1. indexes' = indexes
      BY <1>4, <2>2 DEF Eviction, EvictionTick, RegressionWait, RegressionDone, WaitOutBackpressure,
         MarkDropped, RefreshSupply, StartTrim, PassAborts, MarkUnhealthy, TrimDone, TrimWait,
         RestoreHealthy, WriteHealth
    <3> QED
      BY <1>1, <1>4, <3>1
  <2> QED
    BY <2>1, <2>2
<1> QED
  BY <1>1, <1>2, <1>4, QuietSteps

\* The physical indexes never exceed max-auto-indexes, whatever happens between
\* the count and CREATE INDEX (creation.rs, "hard cap").
THEOREM IndexCapHeld == Spec => []CapHeld
<1>1. CapInv /\ CreationShape /\ [Next]_vars => (CapInv /\ CreationShape)'
  BY CapStep, ShapeStep
<1>2. CapInv => CapHeld
  BY DEF CapInv
<1> QED
  BY <1>1, <1>2, CapInit, PTL DEF Spec

----------------------------------------------------------------------------
(* The trim                                                                *)

\* An eviction record has the fields of its state.
EvictionShape ==
  \/ eviction.pc \in {"sleep", "supply", "count", "restore"} /\ eviction = [pc |-> eviction.pc]
  \/ eviction.pc = "regress" /\ eviction = [pc |-> "regress", list |-> eviction.list]
  \/ /\ eviction.pc \in {"drain", "trim"}
     /\ eviction = [pc |-> eviction.pc, list |-> eviction.list, count |-> eviction.count]
  \/ /\ eviction.pc \in {"accounts", CAP_TABLE, "mark"} /\ eviction.then = "regress"
     /\ eviction = [pc |-> eviction.pc, list |-> eviction.list, then |-> "regress"]
  \/ /\ eviction.pc \in {"accounts", CAP_TABLE, "mark"} /\ eviction.then = "trim"
     /\ eviction = [pc |-> eviction.pc, list |-> eviction.list, count |-> eviction.count,
                    then |-> "trim"]

\* The number the trim counts down from is never above the indexes there are.
TrimInv ==
  /\ eviction.pc \in {"drain", "trim"} => eviction.count \in Nat /\ eviction.count <= Count
  /\ eviction.pc \in {"accounts", CAP_TABLE} /\ eviction.then = "trim" =>
       eviction.count \in Nat /\ scene.target < eviction.count /\ eviction.count <= Count
  /\ eviction.pc = "mark" /\ eviction.then = "trim" =>
       eviction.count \in Nat /\ scene.target < eviction.count /\ eviction.count <= Count + 1

\* The eviction pass starts asleep, with nothing counted.
LEMMA TrimInit == Init => EvictionShape /\ TrimInv
<1> SUFFICES ASSUME Init PROVE EvictionShape /\ TrimInv
  OBVIOUS
<1>1. eviction = [pc |-> "sleep"] /\ eviction.pc = "sleep"
  BY DEF Init, Idle
<1> QED
  BY <1>1 DEF EvictionShape, TrimInv, CAP_TABLE

\* Where the eviction pass rests, or starts over, nothing is counted.
LEMMA RestingTrim ==
  ASSUME NEW pc \in {"sleep", "supply", "count", "restore"}, eviction' = [pc |-> pc]
  PROVE  EvictionShape' /\ TrimInv'
<1>1. eviction'.pc = pc
  OBVIOUS
<1> QED
  BY <1>1 DEF EvictionShape, TrimInv, CAP_TABLE

\* A DROP INDEX takes away one index of the counted table at most.
LEMMA DropTakesOne ==
  ASSUME CapInv, NEW t \in Tables, NEW next, DropOne(t, next)
  PROVE  /\ Count \in Nat /\ Count' \in Nat /\ Count <= Count' + 1
         /\ t # CAP_TABLE \/ indexes' = indexes => Count' = Count
<1>0. /\ CAP_TABLE \in Tables /\ indexes \in [Tables -> SUBSET Patterns]
      /\ IsFiniteSet(indexes[CAP_TABLE])
  BY DEF CapInv, CAP_TABLE, Tables
<1> DEFINE p == Head(eviction.list)
<1>1. indexes' = indexes \/ indexes' = [indexes EXCEPT ![t] = @ \ {p}]
  BY DEF DropOne
<1> HIDE DEF p
<1>2. CASE indexes'[CAP_TABLE] = indexes[CAP_TABLE]
  BY <1>0, <1>2, FS_CardinalityType DEF Count
<1>3. CASE t = CAP_TABLE /\ indexes'[CAP_TABLE] = indexes[CAP_TABLE] \ {p}
  <2>1. /\ IsFiniteSet(indexes[CAP_TABLE] \ {p})
        /\ Cardinality(indexes[CAP_TABLE] \ {p}) =
             IF p \in indexes[CAP_TABLE] THEN Cardinality(indexes[CAP_TABLE]) - 1
             ELSE Cardinality(indexes[CAP_TABLE])
    BY <1>0, FS_RemoveElement
  <2> QED
    BY <1>0, <1>3, <2>1, FS_CardinalityType DEF Count
<1> QED
  BY <1>0, <1>1, <1>2, <1>3

\* The creation loop takes no index away.
LEMMA CreationAdds ==
  ASSUME CapInv, CapInv', Creation
  PROVE  Count <= Count'
<1>0. CAP_TABLE \in Tables /\ Count \in Nat
  BY FS_CardinalityType DEF CapInv, Count, CAP_TABLE, Tables
<1>1. ASSUME NEW t \in Tables, NEW next, CreateOne(t, next) PROVE Count <= Count'
  <2>1. indexes[CAP_TABLE] \subseteq indexes'[CAP_TABLE]
    BY <1>0, <1>1 DEF CreateOne, CapInv
  <2>2. IsFiniteSet(indexes'[CAP_TABLE])
    BY DEF CapInv
  <2> QED
    BY <2>1, <2>2, FS_Subset DEF Count
<1> QED
  BY <1>0, <1>1 DEF Creation, CreationTick, CountIndexes, ChooseCandidate, ValueGuard,
       CreatePairDone, CreationReadFails, Count, Tables, CAP_TABLE

\* No step of the tracker takes away more than one index.
LEMMA CountFalls ==
  ASSUME CapInv, CapInv', [Next]_vars
  PROVE  Count <= Count' + 1
<1>0. Count \in Nat /\ Count' \in Nat /\ CAP_TABLE \in Tables /\ "accounts" \in Tables
  BY FS_CardinalityType DEF CapInv, Count, CAP_TABLE, Tables
<1>1. CASE indexes' = indexes
  BY <1>0, <1>1 DEF Count
<1>2. CASE Creation
  <2>1. Count <= Count'
    BY <1>2, CreationAdds
  <2>2. \A m, n \in Nat : m <= n => m <= n + 1
    OBVIOUS
  <2> QED
    BY <1>0, <2>1, <2>2
<1>3. CASE Eviction
  <2>1. CASE indexes' = indexes
    BY <1>1, <2>1
  <2>2. CASE DropOne("accounts", CAP_TABLE) \/ DropOne(CAP_TABLE, "mark")
    BY <1>0, <2>2, DropTakesOne
  <2> QED
    BY <1>3, <2>1, <2>2 DEF Eviction, EvictionTick, RegressionWait, RegressionDone, WaitOutBackpressure,
         MarkDropped, RefreshSupply, StartTrim, PassAborts, MarkUnhealthy, TrimDone, TrimWait,
         RestoreHealthy, WriteHealth
<1> QED
  BY <1>1, <1>2, <1>3, QuietSteps

\* The number the trim counts down from stays at or below the indexes there are:
\* it goes down with every drop, the creation loop only adds (run_pass).
LEMMA TrimStep ==
  ASSUME CapInv, EvictionShape, TrimInv, [Next]_vars, CapInv'
  PROVE  EvictionShape' /\ TrimInv'
<1>0. /\ Count \in Nat /\ Count' \in Nat /\ Tables = {"accounts", CAP_TABLE}
      /\ CAP_TABLE = "snapshot_accounts" /\ scene.target \in Nat
  BY TrackerAssumption, FS_CardinalityType DEF CapInv, Count, CAP_TABLE, Tables
<1>1. ASSUME UNCHANGED <<scene, eviction>>, Count <= Count' PROVE EvictionShape' /\ TrimInv'
  BY <1>0, <1>1 DEF EvictionShape, TrimInv
<1>2. CASE eviction' = Idle
  BY <1>2, RestingTrim DEF Idle
<1>3. ASSUME Creation, UNCHANGED <<scene, eviction>> PROVE Count <= Count'
  BY <1>3, CreationAdds
<1>4. ASSUME Eviction, UNCHANGED <<scene, creation>> PROVE EvictionShape' /\ TrimInv'
  <2>1. CASE EvictionTick
    <3>1. \E l : eviction' = [pc |-> "regress", list |-> l]
      BY <2>1 DEF EvictionTick
    <3> QED
      BY <3>1 DEF EvictionShape, TrimInv, CAP_TABLE
  <2>2. CASE RegressionDone \/ RefreshSupply \/ PassAborts \/ RestoreHealthy
    <3>1. eviction' \in {[pc |-> "supply"], [pc |-> "count"], Idle}
      BY <2>2 DEF RegressionDone, RefreshSupply, PassAborts, RestoreHealthy, WriteHealth
    <3> QED
      BY <3>1, RestingTrim DEF Idle
  <2>3. CASE StartTrim
    <3>1. Count' = Count
      BY <2>3 DEF StartTrim, Count
    <3>2. \/ eviction' = Idle
          \/ \E l : eviction' = [pc |-> IF scene.drain THEN "drain" ELSE "trim", list |-> l, count |-> Count]
      BY <2>3 DEF StartTrim
    <3> QED
      BY <1>0, <1>2, <3>1, <3>2 DEF EvictionShape, TrimInv, CAP_TABLE
  <2>4. CASE MarkUnhealthy
    <3>1. Count' = Count /\ eviction' = [eviction EXCEPT !.pc = "trim"] /\ eviction.pc = "drain"
      BY <2>4 DEF MarkUnhealthy, WriteHealth, Count
    <3>2. eviction' = [pc |-> "trim", list |-> eviction.list, count |-> eviction.count]
      BY <3>1 DEF EvictionShape, CAP_TABLE
    <3> QED
      BY <3>1, <3>2 DEF EvictionShape, TrimInv, CAP_TABLE
  <2>5. CASE TrimDone
    <3>1. eviction' \in {[pc |-> "restore"], Idle}
      BY <2>5 DEF TrimDone, AfterTrim
    <3> QED
      BY <3>1, RestingTrim DEF Idle
  <2>6. CASE RegressionWait
    <3>1. /\ Count' = Count /\ eviction.pc = "regress"
          /\ \/ eviction' = [pc |-> "supply"]
             \/ eviction' = [pc |-> "accounts", list |-> eviction.list, then |-> "regress"]
      BY <2>6 DEF RegressionWait, WaitOutBackpressure, Count
    <3>2. CASE eviction' = [pc |-> "accounts", list |-> eviction.list, then |-> "regress"]
      BY <3>2 DEF EvictionShape, TrimInv, CAP_TABLE
    <3> QED
      BY <3>1, <3>2, RestingTrim
  <2>7. CASE TrimWait
    <3>1. /\ Count' = Count /\ eviction.pc = "trim" /\ eviction.count > scene.target
          /\ \/ eviction' = AfterTrim
             \/ eviction' = [pc |-> "accounts", list |-> eviction.list, count |-> eviction.count,
                            then |-> "trim"]
      BY <2>7 DEF TrimWait, WaitOutBackpressure, Count
    <3>2. CASE eviction' = [pc |-> "accounts", list |-> eviction.list, count |-> eviction.count,
                            then |-> "trim"]
      <4>1. eviction.count \in Nat /\ eviction.count <= Count
        BY <3>1 DEF TrimInv
      <4> QED
        BY <1>0, <1>4, <3>1, <3>2, <4>1 DEF EvictionShape, TrimInv, CAP_TABLE
    <3>3. CASE eviction' = AfterTrim
      <4>1. eviction' \in {[pc |-> "restore"], Idle}
        BY <3>3 DEF AfterTrim
      <4> QED
        BY <4>1, RestingTrim DEF Idle
    <3> QED
      BY <3>1, <3>2, <3>3
  <2>8. ASSUME NEW t \in Tables, NEW next, DropOne(t, next),
               (t = "accounts" /\ next = CAP_TABLE) \/ (t = CAP_TABLE /\ next = "mark")
        PROVE  EvictionShape' /\ TrimInv'
    <3>1. /\ eviction.pc = t
          /\ \/ eviction' = [eviction EXCEPT !.pc = next]
             \/ NextDrop(Remaining) /\ indexes' = indexes
      BY <2>8 DEF DropOne
    <3>2. Count <= Count' + 1 /\ (t = "accounts" \/ indexes' = indexes => Count' = Count)
      BY <1>0, <2>8, DropTakesOne
    <3>3. CASE eviction.then = "trim"
      <4>1. /\ eviction = [pc |-> t, list |-> eviction.list, count |-> eviction.count, then |-> "trim"]
            /\ eviction.count \in Nat /\ scene.target < eviction.count /\ eviction.count <= Count
        BY <1>0, <2>8, <3>1, <3>3 DEF EvictionShape, TrimInv
      <4>2. \/ eviction' = [pc |-> next, list |-> eviction.list, count |-> eviction.count, then |-> "trim"]
            \/ /\ eviction' = [pc |-> "trim", list |-> Tail(eviction.list), count |-> eviction.count]
               /\ Count' = Count
        BY <3>1, <3>2, <3>3, <4>1 DEF NextDrop, Remaining
      <4> QED
        BY <1>0, <1>4, <2>8, <3>2, <4>1, <4>2 DEF EvictionShape, TrimInv
    <3>4. CASE eviction.then = "regress"
      <4>1. eviction = [pc |-> t, list |-> eviction.list, then |-> "regress"]
        BY <1>0, <2>8, <3>1, <3>4 DEF EvictionShape
      <4>2. \/ eviction' = [pc |-> next, list |-> eviction.list, then |-> "regress"]
            \/ eviction' = [pc |-> "regress", list |-> Tail(eviction.list)]
        BY <3>1, <3>4, <4>1 DEF NextDrop
      <4> QED
        BY <1>0, <2>8, <4>2 DEF EvictionShape, TrimInv
    <3> QED
      BY <1>0, <2>8, <3>1, <3>3, <3>4 DEF EvictionShape
  <2>9. CASE MarkDropped
    <3>1. eviction.pc = "mark" /\ Count' = Count /\ NextDrop(Remaining - 1)
      BY <2>9 DEF MarkDropped, Count
    <3>2. CASE eviction.then = "trim"
      <4>1. eviction' = [pc |-> "trim", list |-> Tail(eviction.list), count |-> eviction.count - 1]
        BY <3>1, <3>2 DEF NextDrop, Remaining
      <4>2. eviction.count \in Nat /\ scene.target < eviction.count /\ eviction.count <= Count + 1
        BY <3>1, <3>2 DEF TrimInv
      <4> QED
        BY <1>0, <3>1, <4>1, <4>2 DEF EvictionShape, TrimInv
    <3>3. CASE eviction.then = "regress"
      <4>1. eviction' = [pc |-> "regress", list |-> Tail(eviction.list)]
        BY <3>1, <3>3 DEF NextDrop
      <4> QED
        BY <1>0, <4>1 DEF EvictionShape, TrimInv
    <3> QED
      BY <1>0, <3>1, <3>2, <3>3 DEF EvictionShape
  <2> QED
    BY <1>0, <1>4, <2>1, <2>2, <2>3, <2>4, <2>5, <2>6, <2>7, <2>8, <2>9 DEF Eviction
<1>5. CASE indexes' = indexes /\ UNCHANGED <<scene, eviction>>
  BY <1>0, <1>1, <1>5 DEF Count
<1> QED
  BY <1>1, <1>2, <1>3, <1>4, <1>5, QuietSteps

\* The trim never drops an index that leaves fewer than the target, although its
\* count was read before the drops (run_pass).
THEOREM TrimKeepsTarget == Spec => TrimStopsAtTarget
<1>1. Init => CapInv /\ CreationShape /\ EvictionShape /\ TrimInv
  BY CapInit, TrimInit
<1>2. CapInv /\ CreationShape /\ EvictionShape /\ TrimInv /\ [Next]_vars =>
        (CapInv /\ CreationShape /\ EvictionShape /\ TrimInv)'
  BY CapStep, ShapeStep, TrimStep
<1>3. ASSUME CapInv, CapInv', TrimInv, [Next]_vars
      PROVE  [eviction.pc = CAP_TABLE /\ eviction.then = "trim"
                => Cardinality(indexes'[CAP_TABLE]) >= scene.target]_vars
  <2> SUFFICES ASSUME eviction.pc = CAP_TABLE, eviction.then = "trim" PROVE Count' >= scene.target
    BY DEF Count
  <2>1. /\ eviction.count \in Nat /\ scene.target < eviction.count /\ eviction.count <= Count
        /\ scene.target \in Nat /\ Count \in Nat /\ Count' \in Nat
    BY <1>3, TrackerAssumption, FS_CardinalityType DEF CapInv, TrimInv, Count
  <2>2. Count <= Count' + 1
    BY <1>3, CountFalls
  <2>3. \A m, n, c, g \in Nat : g < c /\ c <= m /\ m <= n + 1 => n >= g
    OBVIOUS
  <2> QED
    BY <2>1, <2>2, <2>3
<1> QED
  BY <1>1, <1>2, <1>3, PTL DEF Spec, TrimStopsAtTarget

----------------------------------------------------------------------------
(* The demand: observations and rows                                       *)

\* An observation: time, hits and failures.
Obs == [us : Nat, n : Nat, failed : Nat]

\* Observations of some patterns.
ObsMap == UNION {[D -> Obs] : D \in SUBSET Patterns}

\* A row of index_patterns.
Row == [status : Statuses, with : Bucket, without : Bucket, failed : Nat, atCreate : Nat,
        scan : Nat, rate : [Windowed -> SUBSET Nat], prev : [Windowed -> Nat],
        verdict : {"ok", "starved", "over_scanned"}, condemned : Bucket, atReject : Bucket,
        flags : SUBSET Flags]

\* Max of two integers is one of them and above both.
LEMMA MaxOfTwo ==
  ASSUME NEW a \in Int, NEW b \in Int
  PROVE  /\ Max({a, b}) \in {a, b} /\ a <= Max({a, b}) /\ b <= Max({a, b})
<1>1. \E x \in {a, b} : \A y \in {a, b} : x >= y
  OBVIOUS
<1>2. Max({a, b}) = CHOOSE x \in {a, b} : \A y \in {a, b} : x >= y
  BY DEF Max
<1> QED
  BY <1>1, <1>2

\* The clamp of roll_scores: a difference becomes a number that is not negative.
LEMMA Clamped ==
  ASSUME NEW a \in Int
  PROVE  Max({a, 0}) \in Nat
<1>1. Max({a, 0}) \in {a, 0} /\ 0 <= Max({a, 0})
  BY MaxOfTwo
<1> QED
  BY <1>1

\* The empty buffer is a map of observations.
LEMMA EmptyObs == <<>> \in ObsMap /\ DOMAIN <<>> = {}
<1>1. DOMAIN <<>> = {}
  OBVIOUS
<1>2. <<>> \in [{} -> Obs]
  OBVIOUS
<1> QED
  BY <1>1, <1>2 DEF ObsMap

\* A map of observations, looked up anywhere, gives an observation.
LEMMA ObsMapIs ==
  ASSUME NEW f \in ObsMap
  PROVE  /\ DOMAIN f \subseteq Patterns /\ f = [p \in DOMAIN f |-> f[p]]
         /\ \A p \in DOMAIN f : f[p] \in Obs
         /\ \A p : At(f, p) \in Obs
<1>1. PICK D \in SUBSET Patterns : f \in [D -> Obs]
  BY DEF ObsMap
<1>2. NoObs \in Obs
  BY DEF NoObs, Obs
<1> QED
  BY <1>1, <1>2 DEF At

\* Merging two observations adds their hits.
LEMMA MergeType ==
  ASSUME NEW a \in Obs, NEW b \in Obs
  PROVE  Merge(a, b) \in Obs /\ Merge(a, b).n = a.n + b.n
<1>1. DOMAIN NoObs = {"us", "n", "failed"}
  BY DEF NoObs
<1>2. Merge(a, b) = [us |-> a.us + b.us, n |-> a.n + b.n, failed |-> a.failed + b.failed]
  BY <1>1 DEF Merge
<1> QED
  BY <1>2 DEF Obs

\* Merging two maps adds the hits of each pattern (buffer_query, requeue_entries).
LEMMA MergeAllType ==
  ASSUME NEW f \in ObsMap, NEW g \in ObsMap
  PROVE  MergeAll(f, g) \in ObsMap /\ \A p : At(MergeAll(f, g), p).n = At(f, p).n + At(g, p).n
<1>1. DOMAIN f \subseteq Patterns /\ DOMAIN g \subseteq Patterns
      /\ \A p : At(f, p) \in Obs /\ At(g, p) \in Obs
  BY ObsMapIs
<1>2. \A p : Merge(At(f, p), At(g, p)) \in Obs
             /\ Merge(At(f, p), At(g, p)).n = At(f, p).n + At(g, p).n
  BY <1>1, MergeType
<1>3. MergeAll(f, g) \in [DOMAIN f \cup DOMAIN g -> Obs]
  BY <1>2 DEF MergeAll
<1>4. ASSUME NEW p PROVE At(MergeAll(f, g), p).n = At(f, p).n + At(g, p).n
  <2>1. CASE p \in DOMAIN f \cup DOMAIN g
    BY <1>2, <2>1 DEF At, MergeAll
  <2>2. CASE p \notin DOMAIN f \cup DOMAIN g
    BY <2>2 DEF At, MergeAll, NoObs
  <2> QED
    BY <2>1, <2>2
<1> QED
  BY <1>1, <1>3, <1>4 DEF ObsMap

\* A chunk keeps the observations of its patterns and no others.
LEMMA RestrictType ==
  ASSUME NEW f \in ObsMap, NEW S \in SUBSET DOMAIN f
  PROVE  /\ Restrict(f, S) \in ObsMap
         /\ \A p : At(Restrict(f, S), p) = IF p \in S THEN At(f, p) ELSE NoObs
<1>1. DOMAIN f \subseteq Patterns /\ \A p \in DOMAIN f : f[p] \in Obs
  BY ObsMapIs
<1>2. Restrict(f, S) \in [S -> Obs]
  BY <1>1 DEF Restrict
<1>3. \A p : At(Restrict(f, S), p) = IF p \in S THEN At(f, p) ELSE NoObs
  BY DEF At, Restrict
<1> QED
  BY <1>1, <1>2, <1>3 DEF ObsMap

\* The sum of two buckets counts the hits of both.
LEMMA BucketSums ==
  ASSUME NEW b \in Bucket, NEW c \in Bucket
  PROVE  Plus(b, c) \in Bucket /\ Plus(b, c).n = b.n + c.n
BY DEF Plus, Bucket

\* Demand and running totals of a row are numbers.
LEMMA RowFacts ==
  ASSUME NEW r \in Row
  PROVE  /\ Total(r) \in Bucket /\ Demand(r) = r.with.n + r.without.n /\ Demand(r) \in Nat
         /\ Running(r) \in [Windowed -> Nat]
<1>1. r.with \in Bucket /\ r.without \in Bucket /\ r.failed \in Nat /\ r.scan \in Nat
  BY DEF Row
<1>2. Total(r) \in Bucket /\ Demand(r) = r.with.n + r.without.n
  BY <1>1, BucketSums DEF Total, Demand
<1>3. Demand(r) \in Nat
  BY <1>2 DEF Demand, Bucket
<1>4. Running(r) \in [{"demand", "failed", "scan"} -> Nat]
  BY <1>1, <1>3 DEF Running
<1> QED
  BY <1>2, <1>3, <1>4 DEF Windowed

\* A pattern nobody asked for has no demand.
LEMMA NewRowType == NewRow \in Row /\ Demand(NewRow) = 0
BY DEF NewRow, Row, Statuses, Bucket, Empty, Windowed, Flags, Demand, Total, Plus

\* record_demand adds exactly the hits of the observation.
LEMMA RecordDemandType ==
  ASSUME NEW r \in Row, NEW o \in Obs
  PROVE  RecordDemand(r, o) \in Row /\ Demand(RecordDemand(r, o)) = Demand(r) + o.n
<1> DEFINE seen == [us |-> o.us, n |-> o.n]
<1>1. /\ seen \in Bucket /\ seen.n = o.n /\ r.with \in Bucket /\ r.without \in Bucket
      /\ r.failed + o.failed \in Nat /\ o.n \in Nat
  BY DEF Obs, Bucket, Row
<1>2. /\ Plus(r.with, seen) \in Bucket /\ Plus(r.with, seen).n = r.with.n + o.n
      /\ Plus(r.without, seen) \in Bucket /\ Plus(r.without, seen).n = r.without.n + o.n
  BY <1>1, BucketSums
<1> DEFINE live == r.status = "created"
           q == RecordDemand(r, o)
<1>3. q = [r EXCEPT !.with = IF live THEN Plus(@, seen) ELSE @,
                    !.without = IF live THEN @ ELSE Plus(@, seen),
                    !.failed = @ + o.failed,
                    !.flags = @ \ {"idle"},
                    !.status = IF @ \in {"none", "evicted"} THEN "candidate" ELSE @]
  BY DEF RecordDemand
<1> HIDE DEF q, seen
<1>4. q \in Row
  BY <1>1, <1>2, <1>3 DEF Row, Statuses
<1>5. /\ q.with = IF live THEN Plus(r.with, seen) ELSE r.with
      /\ q.without = IF live THEN r.without ELSE Plus(r.without, seen)
  BY <1>3 DEF Row
<1>6. r.with.n \in Nat /\ r.without.n \in Nat
  BY <1>1 DEF Bucket
<1> QED
  BY <1>1, <1>2, <1>4, <1>5, <1>6, RowFacts DEF q

\* Demand depends on the two buckets of hits only.
LEMMA SameDemand ==
  ASSUME NEW r \in Row, NEW q \in Row, q.with = r.with, q.without = r.without
  PROVE  Demand(q) = Demand(r)
BY DEF Demand, Total

\* score_roll changes rates, never demand.
LEMMA RollScoresType ==
  ASSUME NEW r \in Row
  PROVE  RollScores(r) \in Row /\ Demand(RollScores(r)) = Demand(r)
<1>1. Running(r) \in [Windowed -> Nat] /\ r.prev \in [Windowed -> Nat]
  BY RowFacts DEF Row
<1>2. \A f \in Windowed : Max({Running(r)[f] - r.prev[f], 0}) \in Nat
  <2>1. ASSUME NEW f \in Windowed PROVE Max({Running(r)[f] - r.prev[f], 0}) \in Nat
    <3>1. Running(r)[f] - r.prev[f] \in Int
      BY <1>1
    <3> QED
      BY <3>1, Clamped
  <2> QED
    BY <2>1
<1> DEFINE new == [f \in Windowed |-> {Max({Running(r)[f] - r.prev[f], 0})}]
<1>3. new \in [Windowed -> SUBSET Nat]
  BY <1>2
<1>4. RollScores(r) = IF r.status = "none" THEN r ELSE [r EXCEPT !.rate = new, !.prev = Running(r)]
  BY DEF RollScores
<1> HIDE DEF new
<1>5. RollScores(r) \in Row /\ RollScores(r).with = r.with /\ RollScores(r).without = r.without
  BY <1>1, <1>3, <1>4 DEF Row
<1> QED
  BY <1>5, SameDemand

\* Marking a pattern created keeps its demand.
LEMMA MarkCreatedType ==
  ASSUME NEW r \in Row
  PROVE  MarkCreated(r) \in Row /\ Demand(MarkCreated(r)) = Demand(r)
<1>1. Demand(r) \in Nat
  BY RowFacts
<1>2. MarkCreated(r) \in Row /\ MarkCreated(r).with = r.with /\ MarkCreated(r).without = r.without
  BY <1>1 DEF MarkCreated, Row, Statuses, Windowed
<1> QED
  BY <1>2, SameDemand

\* The supply refresh keeps the demand.
LEMMA UpdateSupplyType ==
  ASSUME NEW r \in Row, NEW s \in Nat
  PROVE  UpdateSupply(r, s) \in Row /\ Demand(UpdateSupply(r, s)) = Demand(r)
<1>0. \A d, n : Verdict(d, n) \in {"ok", "starved", "over_scanned"}
  BY DEF Verdict
<1> DEFINE flags == IF s # r.scan THEN r.flags \ {"unused"} ELSE r.flags
           verdict == Verdict(Max({Demand(r) - r.atCreate, 0}), s \div 2)
<1>1. UpdateSupply(r, s) = [r EXCEPT !.flags = flags, !.scan = s, !.verdict = verdict]
  BY DEF UpdateSupply
<1>2. flags \in SUBSET Flags /\ verdict \in {"ok", "starved", "over_scanned"}
  BY <1>0 DEF Row
<1> HIDE DEF flags, verdict
<1>3. UpdateSupply(r, s) \in Row /\ UpdateSupply(r, s).with = r.with
      /\ UpdateSupply(r, s).without = r.without
  BY <1>1, <1>2 DEF Row
<1> QED
  BY <1>3, SameDemand

\* Evicting, rejecting and promoting a pattern keep its demand.
LEMMA MarksType ==
  ASSUME NEW r \in Row
  PROVE  /\ MarkEvicted(r) \in Row /\ Demand(MarkEvicted(r)) = Demand(r)
         /\ MarkRejected(r) \in Row /\ Demand(MarkRejected(r)) = Demand(r)
         /\ PromoteRecovered(r) \in Row /\ Demand(PromoteRecovered(r)) = Demand(r)
<1>1. MarkEvicted(r) \in Row /\ MarkEvicted(r).with = r.with /\ MarkEvicted(r).without = r.without
  BY DEF MarkEvicted, Row, Statuses
<1>2. MarkRejected(r) \in Row /\ MarkRejected(r).with = r.with /\ MarkRejected(r).without = r.without
  BY DEF MarkRejected, Row, Statuses
<1>3. PromoteRecovered(r) \in Row /\ PromoteRecovered(r).with = r.with
      /\ PromoteRecovered(r).without = r.without
  BY DEF PromoteRecovered, Row, Statuses, Bucket, Empty
<1> QED
  BY <1>1, <1>2, <1>3, SameDemand

----------------------------------------------------------------------------
(* The steps                                                               *)

\* The flush task, and a request as the server applies it.
Flush == [pc : {"sleep", "send", "wait"}, entries : ObsMap, chunk : ObsMap, requeue : ObsMap]

Job == [obs : ObsMap, open : BOOLEAN]

\* The types the argument needs, of the client and the requests too.
TrackerType ==
  /\ scene \in Scenes /\ budget \in [Budgets -> Nat] /\ served \in [Patterns -> Nat]
  /\ rows \in [Patterns -> Row]
  /\ scans \in [Tables -> [Patterns -> Nat]]
  /\ health \in BOOLEAN /\ indexer \in BOOLEAN
  /\ buffer \in ObsMap /\ flush \in Flush /\ jobs \subseteq Job

\* The initial state has the types of TrackerType.
LEMMA TrackerInit == Init => TrackerType
<1> SUFFICES ASSUME Init PROVE TrackerType
  OBVIOUS
<1>1. scene \in Scenes /\ budget \in [Budgets -> Nat]
  BY TrackerAssumption DEF Init
<1>2. flush \in Flush
  BY EmptyObs DEF Init, Flush, Resting
<1> QED
  BY <1>1, <1>2, EmptyObs, NewRowType DEF Init, TrackerType

\* What a statement may do to the table: the demand recorded stays.
RowsKeepDemand ==
  /\ rows' \in [Patterns -> Row]
  /\ \A p \in Patterns : Demand(rows'[p]) = Demand(rows[p])

\* The budget stays a number of things that may still happen.
LEMMA SpendType ==
  ASSUME TrackerType, NEW b \in Budgets, Spend(b)
  PROVE  budget' \in [Budgets -> Nat]
BY DEF TrackerType, Spend

\* The creation loop leaves the client, the requests and the demand alone.
LEMMA CreationRows ==
  ASSUME TrackerType, CreationShape, Creation
  PROVE  TrackerType' /\ RowsKeepDemand /\ UNCHANGED <<served, buffer, flush, jobs>>
<1>0. rows \in [Patterns -> Row] /\ {"busy", "builds", "stores"} \subseteq Budgets
  BY DEF TrackerType, Budgets
<1>1. ASSUME UNCHANGED <<scene, served, rows, scans, health, indexer, buffer, flush, jobs>>,
             budget' \in [Budgets -> Nat]
      PROVE  TrackerType' /\ RowsKeepDemand /\ UNCHANGED <<served, buffer, flush, jobs>>
  BY <1>0, <1>1 DEF TrackerType, RowsKeepDemand
<1>2. budget \in [Budgets -> Nat] /\ \A b \in {"busy", "builds", "stores"} : Spend(b) => budget' \in [Budgets -> Nat]
  BY <1>0, SpendType DEF TrackerType
<1>3. CASE CreationTick
  <2>1. rows' \in [Patterns -> Row] /\ \A p \in Patterns : Demand(rows'[p]) = Demand(rows[p])
    BY <1>0, <1>3, MarksType DEF CreationTick
  <2>2. budget' \in [Budgets -> Nat]
    BY <1>2, <1>3 DEF CreationTick, NoPressure, UnderPressure
  <2> QED
    BY <1>3, <2>1, <2>2 DEF CreationTick, createUnchanged, clientVars, TrackerType, RowsKeepDemand
<1>4. CASE CreatePairDone
  <2>1. creation.p \in Patterns
    BY <1>4 DEF CreatePairDone, CreationShape, CAP_TABLE
  <2>2. rows' \in [Patterns -> Row] /\ \A p \in Patterns : Demand(rows'[p]) = Demand(rows[p])
    BY <1>0, <1>4, <2>1, MarkCreatedType DEF CreatePairDone
  <2>3. budget' \in [Budgets -> Nat]
    BY <1>2, <1>4 DEF CreatePairDone
  <2> QED
    BY <1>4, <2>2, <2>3 DEF CreatePairDone, createUnchanged, clientVars, TrackerType, RowsKeepDemand
<1>5. ASSUME NEW t, NEW next, CreateOne(t, next)
      PROVE  TrackerType' /\ RowsKeepDemand /\ UNCHANGED <<served, buffer, flush, jobs>>
  BY <1>1, <1>2, <1>5 DEF CreateOne, createUnchanged, clientVars
<1>6. CASE CountIndexes \/ ChooseCandidate \/ ValueGuard \/ CreationReadFails
  BY <1>1, <1>2, <1>6 DEF CountIndexes, ChooseCandidate, ValueGuard, CreationReadFails, createUnchanged,
       clientVars
<1> QED
  BY <1>3, <1>4, <1>5, <1>6 DEF Creation

\* The eviction pass leaves the client, the requests and the demand alone.
LEMMA EvictionRows ==
  ASSUME TrackerType, Eviction
  PROVE  TrackerType' /\ RowsKeepDemand /\ UNCHANGED <<served, buffer, flush, jobs>>
<1>0. /\ rows \in [Patterns -> Row] /\ scans \in [Tables -> [Patterns -> Nat]]
      /\ {"busy", "drops", "stores"} \subseteq Budgets /\ Tables = {"accounts", CAP_TABLE}
  BY DEF TrackerType, Budgets, Tables, CAP_TABLE
<1>2. budget \in [Budgets -> Nat] /\ \A b \in {"busy", "drops", "stores"} : Spend(b) => budget' \in [Budgets -> Nat]
  BY <1>0, SpendType DEF TrackerType
<1>1. ASSUME UNCHANGED <<scene, served, rows, indexer, buffer, flush, jobs>>,
             scans' \in [Tables -> [Patterns -> Nat]], health' \in BOOLEAN,
             budget' \in [Budgets -> Nat]
      PROVE  TrackerType' /\ RowsKeepDemand /\ UNCHANGED <<served, buffer, flush, jobs>>
  BY <1>0, <1>1 DEF TrackerType, RowsKeepDemand
<1>3. CASE MarkDropped
  <2> DEFINE p == Head(eviction.list)
  <2>1. \/ rows' = rows
        \/ rows' = [rows EXCEPT ![p] = MarkRejected(@)]
        \/ rows' = [rows EXCEPT ![p] = MarkEvicted(@)]
    BY <1>3 DEF MarkDropped
  <2> HIDE DEF p
  <2>2. rows' \in [Patterns -> Row] /\ \A q \in Patterns : Demand(rows'[q]) = Demand(rows[q])
    BY <1>0, <2>1, MarksType
  <2>3. budget' \in [Budgets -> Nat]
    BY <1>2, <1>3 DEF MarkDropped
  <2> QED
    BY <1>0, <1>3, <2>2, <2>3 DEF MarkDropped, evictUnchanged, clientVars, TrackerType, RowsKeepDemand
<1>4. CASE RefreshSupply
  <2>1. \A p \in Patterns : scans["accounts"][p] + scans[CAP_TABLE][p] \in Nat
    BY <1>0
  <2>2. rows' \in [Patterns -> Row] /\ \A q \in Patterns : Demand(rows'[q]) = Demand(rows[q])
    BY <1>0, <1>4, <2>1, UpdateSupplyType DEF RefreshSupply
  <2> QED
    BY <1>4, <2>2 DEF RefreshSupply, evictUnchanged, clientVars, TrackerType, RowsKeepDemand
<1>5. ASSUME NEW t \in Tables, NEW next, DropOne(t, next)
      PROVE  TrackerType' /\ RowsKeepDemand /\ UNCHANGED <<served, buffer, flush, jobs>>
  <2> DEFINE p == Head(eviction.list)
  <2>1. scans' = scans \/ scans' = [scans EXCEPT ![t][p] = 0]
    BY <1>5 DEF DropOne
  <2> HIDE DEF p
  <2>2. scans' \in [Tables -> [Patterns -> Nat]]
    <3>1. scans[t] \in [Patterns -> Nat]
      BY <1>0
    <3>2. [scans[t] EXCEPT ![p] = 0] \in [Patterns -> Nat]
      <4>1. \A q \in Patterns : (IF q = p THEN 0 ELSE scans[t][q]) \in Nat
        BY <3>1
      <4>2. [scans[t] EXCEPT ![p] = 0] = [q \in Patterns |-> IF q = p THEN 0 ELSE scans[t][q]]
        BY <3>1
      <4> QED
        BY <4>1, <4>2
    <3>3. scans' = scans \/ scans' = [scans EXCEPT ![t] = [scans[t] EXCEPT ![p] = 0]]
      BY <2>1
    <3> QED
      BY <1>0, <3>2, <3>3
  <2>3. budget' \in [Budgets -> Nat]
    BY <1>2, <1>5 DEF DropOne
  <2> QED
    BY <1>1, <1>5, <2>2, <2>3 DEF DropOne, clientVars, TrackerType
<1>6. CASE RegressionWait \/ TrimWait
  <2>1. budget' \in [Budgets -> Nat]
    BY <1>2, <1>6 DEF RegressionWait, TrimWait, WaitOutBackpressure, NoPressure, UnderPressure
  <2> QED
    BY <1>0, <1>1, <1>6, <2>1 DEF RegressionWait, TrimWait, WaitOutBackpressure, evictUnchanged, clientVars,
         TrackerType
<1>7. CASE EvictionTick \/ RegressionDone \/ StartTrim \/ PassAborts \/ TrimDone
  BY <1>0, <1>1, <1>2, <1>7 DEF EvictionTick, RegressionDone, StartTrim, PassAborts, TrimDone,
       evictUnchanged, clientVars, TrackerType
<1>8. CASE MarkUnhealthy \/ RestoreHealthy
  <2>1. /\ budget' \in [Budgets -> Nat] /\ health' \in BOOLEAN
        /\ UNCHANGED <<scene, served, rows, scans, indexer, buffer, flush, jobs>>
    BY <1>2, <1>8 DEF MarkUnhealthy, RestoreHealthy, WriteHealth, evictUnchanged, clientVars, TrackerType
  <2> QED
    BY <1>0, <1>1, <2>1
<1> QED
  BY <1>0, <1>3, <1>4, <1>5, <1>6, <1>7, <1>8 DEF Eviction

\* Requests whose outcome the client waits for.
Posted == {j \in jobs : j.open}

\* At most one request is posted, while the flush task waits; what it still has to
\* apply is part of the chunk the client would send again.
PostedOnce ==
  /\ \A i, j \in Posted : i = j
  /\ \A j \in Posted : flush.pc = "wait" /\ \A p \in Patterns : At(j.obs, p).n <= At(flush.chunk, p).n

\* Demand the client has in hand.
InHand(p) == At(buffer, p).n + At(flush.entries, p).n + At(flush.requeue, p).n

\* Without an open request everything is in the table or in hand; with one, what it
\* still has to apply makes up the rest.
DemandInv ==
  /\ PostedOnce
  /\ flush.pc = "sleep" => flush.entries = <<>> /\ flush.requeue = <<>>
  /\ \A p \in Patterns :
       /\ Posted = {} => served[p] <= Demand(rows[p]) + InHand(p)
       /\ \A j \in Posted : served[p] <= Demand(rows[p]) + InHand(p) + At(j.obs, p).n

\* The tracker starts with nothing served and nothing posted.
LEMMA DemandInit == Init => DemandInv
<1> SUFFICES ASSUME Init PROVE DemandInv
  OBVIOUS
<1>1. Posted = {} /\ \A p \in Patterns : served[p] = 0 /\ Demand(rows[p]) = 0
  BY NewRowType DEF Init, Posted
<1>2. \A p : At(buffer, p).n = 0 /\ At(flush.entries, p).n = 0 /\ At(flush.requeue, p).n = 0
  BY EmptyObs DEF Init, Resting, At, NoObs
<1> QED
  BY <1>1, <1>2 DEF DemandInv, PostedOnce, InHand, Init, Resting

\* Everything the argument counts is a natural number.
LEMMA DemandIsNat ==
  ASSUME TrackerType, NEW p \in Patterns
  PROVE  /\ served[p] \in Nat /\ Demand(rows[p]) \in Nat /\ InHand(p) \in Nat
         /\ At(buffer, p).n \in Nat /\ At(flush.entries, p).n \in Nat
         /\ At(flush.requeue, p).n \in Nat /\ At(flush.chunk, p).n \in Nat
         /\ \A j \in jobs : At(j.obs, p).n \in Nat
<1>1. \A f \in ObsMap : At(f, p).n \in Nat
  BY ObsMapIs DEF Obs
<1>2. buffer \in ObsMap /\ flush.entries \in ObsMap /\ flush.requeue \in ObsMap /\ flush.chunk \in ObsMap
      /\ \A j \in jobs : j.obs \in ObsMap
  BY DEF TrackerType, Flush, Job
<1>3. Demand(rows[p]) \in Nat /\ served[p] \in Nat
  BY RowFacts DEF TrackerType
<1> QED
  BY <1>1, <1>2, <1>3 DEF InHand

\* A chunk that failed is requeued in full (flush task).
LEMMA SendFailedIs ==
  ASSUME TrackerType, SendFailed
  PROVE  /\ flush' \in Flush /\ flush'.pc = "send" /\ flush'.entries = flush.entries
         /\ \A p : At(flush'.requeue, p).n = At(flush.requeue, p).n + At(flush.chunk, p).n
<1>1. flush \in Flush /\ flush.requeue \in ObsMap /\ flush.chunk \in ObsMap
  BY DEF TrackerType, Flush
<1>2. /\ MergeAll(flush.requeue, flush.chunk) \in ObsMap
      /\ \A p : At(MergeAll(flush.requeue, flush.chunk), p).n = At(flush.requeue, p).n + At(flush.chunk, p).n
  BY <1>1, MergeAllType
<1>3. /\ flush'.pc = "send" /\ flush'.entries = flush.entries
      /\ flush'.requeue = MergeAll(flush.requeue, flush.chunk) /\ flush' \in Flush
  BY <1>1, <1>2, EmptyObs DEF SendFailed, Flush
<1> QED
  BY <1>2, <1>3

\* A request that ends without an answer leaves its demand in hand: the chunk that
\* is requeued holds at least what the request had not applied.
LEMMA FailureKeepsDemand ==
  ASSUME TrackerType, DemandInv, SendFailed, UNCHANGED <<served, buffer, rows>>,
         \A j \in jobs' : ~j.open
  PROVE  DemandInv'
<1>1. /\ flush'.entries = flush.entries
      /\ \A p : At(flush'.requeue, p).n = At(flush.requeue, p).n + At(flush.chunk, p).n
  BY SendFailedIs
<1>2. Posted' = {}
  BY DEF Posted
<1>3. ASSUME NEW p \in Patterns PROVE served'[p] <= Demand(rows'[p]) + InHand(p)'
  <2>1. InHand(p)' = InHand(p) + At(flush.chunk, p).n /\ InHand(p) \in Nat
        /\ served[p] \in Nat /\ Demand(rows[p]) \in Nat /\ At(flush.chunk, p).n \in Nat
    BY <1>1, DemandIsNat DEF InHand
  <2>2. CASE Posted = {}
    BY <2>1, <2>2 DEF DemandInv
  <2>3. CASE Posted # {}
    <3>1. PICK j \in Posted : TRUE
      BY <2>3
    <3>2. At(j.obs, p).n <= At(flush.chunk, p).n /\ served[p] <= Demand(rows[p]) + InHand(p) + At(j.obs, p).n
          /\ At(j.obs, p).n \in Nat
      BY <3>1, DemandIsNat DEF DemandInv, PostedOnce, Posted
    <3> QED
      BY <2>1, <3>2
  <2> QED
    BY <2>2, <2>3
<1> QED
  BY <1>1, <1>2, <1>3, SendFailedIs DEF DemandInv, PostedOnce

\* A step that leaves client, requests and demand alone keeps the invariant.
LEMMA SameDemandInv ==
  ASSUME DemandInv, RowsKeepDemand, UNCHANGED <<served, buffer, flush, jobs>>
  PROVE  DemandInv'
<1>1. Posted' = Posted /\ \A p \in Patterns : InHand(p)' = InHand(p)
  BY DEF Posted, InHand
<1> QED
  BY <1>1 DEF DemandInv, PostedOnce, RowsKeepDemand

\* Draining the buffer moves its demand to the flush task.
LEMMA StartFlushKeeps ==
  ASSUME TrackerType, DemandInv, StartFlush
  PROVE  TrackerType' /\ DemandInv'
<1>1. /\ flush' = [pc |-> "send", entries |-> buffer, chunk |-> <<>>, requeue |-> <<>>]
      /\ buffer' = <<>> /\ flush.pc = "sleep" /\ flush.entries = <<>> /\ flush.requeue = <<>>
      /\ UNCHANGED <<scene, budget, served, rows, scans, health, indexer, jobs>>
  BY DEF StartFlush, Resting, dbVars, DemandInv
<1>2. flush' \in Flush /\ buffer' \in ObsMap
  BY <1>1, EmptyObs DEF TrackerType, Flush
<1>3. TrackerType'
  BY <1>1, <1>2 DEF TrackerType
<1>4. Posted' = {} /\ Posted = {}
  BY <1>1 DEF Posted, DemandInv, PostedOnce
<1>5. ASSUME NEW p \in Patterns PROVE InHand(p)' = InHand(p)
  <2>1. At(<<>>, p).n = 0
    BY EmptyObs DEF At, NoObs
  <2>2. At(buffer, p).n \in Nat
    BY DemandIsNat
  <2> QED
    BY <1>1, <2>1, <2>2 DEF InHand
<1> QED
  BY <1>1, <1>3, <1>4, <1>5 DEF DemandInv, PostedOnce

\* Posting a chunk moves its demand into the one open request.
LEMMA SendBatchKeeps ==
  ASSUME TrackerType, DemandInv, SendBatch
  PROVE  TrackerType' /\ DemandInv'
<1>1. PICK c \in SUBSET DOMAIN flush.entries :
        /\ flush' = [flush EXCEPT !.pc = "wait", !.chunk = Restrict(flush.entries, c),
                                  !.entries = Restrict(flush.entries, DOMAIN flush.entries \ c)]
        /\ jobs' = jobs \cup {[obs |-> Restrict(flush.entries, c), open |-> TRUE]}
  BY DEF SendBatch
<1> DEFINE sent == Restrict(flush.entries, c)
           rest == Restrict(flush.entries, DOMAIN flush.entries \ c)
           job == [obs |-> sent, open |-> TRUE]
<1>2. /\ flush \in Flush /\ flush.entries \in ObsMap /\ flush.pc = "send" /\ jobs \subseteq Job
      /\ UNCHANGED <<scene, budget, served, buffer, rows, scans, health, indexer>>
  BY DEF SendBatch, dbVars, TrackerType, Flush
<1>3. /\ sent \in ObsMap /\ \A p : At(sent, p) = IF p \in c THEN At(flush.entries, p) ELSE NoObs
  BY <1>2, RestrictType
<1>4. DOMAIN flush.entries \ c \in SUBSET DOMAIN flush.entries
  OBVIOUS
<1>5. /\ rest \in ObsMap
      /\ \A p : At(rest, p) = IF p \in DOMAIN flush.entries \ c THEN At(flush.entries, p) ELSE NoObs
  BY <1>2, <1>4, RestrictType
<1>6. \A p : p \notin DOMAIN flush.entries => At(flush.entries, p) = NoObs
  BY DEF At
<1>7. flush' = [flush EXCEPT !.pc = "wait", !.chunk = sent, !.entries = rest] /\ jobs' = jobs \cup {job}
  BY <1>1
<1> HIDE DEF sent, rest
<1>8. /\ flush' \in Flush /\ flush'.pc = "wait" /\ flush'.chunk = sent /\ flush'.entries = rest
      /\ flush'.requeue = flush.requeue
  BY <1>2, <1>3, <1>5, <1>7 DEF Flush
<1>9. job \in Job
  BY <1>3 DEF Job
<1>10. TrackerType'
  BY <1>2, <1>7, <1>8, <1>9 DEF TrackerType
<1>11. Posted = {} /\ Posted' = {job}
  BY <1>2, <1>7 DEF DemandInv, PostedOnce, Posted
<1>12. ASSUME NEW p \in Patterns PROVE InHand(p) = InHand(p)' + At(sent, p).n
  <2>1. At(buffer, p).n \in Nat /\ At(flush.entries, p).n \in Nat /\ At(flush.requeue, p).n \in Nat
    BY DemandIsNat
  <2>2. At(flush.entries, p).n = At(rest, p).n + At(sent, p).n /\ At(rest, p).n \in Nat /\ At(sent, p).n \in Nat
    BY <1>3, <1>5, <1>6, <2>1 DEF NoObs
  <2> QED
    BY <1>2, <1>8, <2>1, <2>2 DEF InHand
<1>13. job.obs = sent
  OBVIOUS
<1>14. PostedOnce' /\ flush'.pc # "sleep"
  <2>1. \A p \in Patterns : At(sent, p).n \in Nat
    BY <1>3, ObsMapIs DEF Obs
  <2> QED
    BY <1>8, <1>11, <1>13, <2>1 DEF PostedOnce
<1> HIDE DEF job
<1>15. ASSUME NEW p \in Patterns PROVE served'[p] <= Demand(rows'[p]) + InHand(p)' + At(job.obs, p).n
  <2>1. served[p] <= Demand(rows[p]) + InHand(p) /\ served[p] \in Nat /\ Demand(rows[p]) \in Nat
    BY <1>11, DemandIsNat DEF DemandInv
  <2>2. At(sent, p).n \in Nat
    BY <1>3, ObsMapIs DEF Obs
  <2>3. InHand(p)' \in Nat
    <3>1. /\ At(buffer', p).n \in Nat /\ At(flush'.entries, p).n \in Nat
          /\ At(flush'.requeue, p).n \in Nat
      BY <1>2, <1>5, <1>8, ObsMapIs DEF TrackerType, Flush, Obs
    <3> QED
      BY <3>1 DEF InHand
  <2> QED
    BY <1>2, <1>12, <1>13, <2>1, <2>2, <2>3
<1> QED
  BY <1>10, <1>11, <1>14, <1>15 DEF DemandInv

\* What failed goes back into the buffer, nothing stays behind (requeue_entries).
LEMMA RequeueKeeps ==
  ASSUME TrackerType, DemandInv, RequeueEntries
  PROVE  TrackerType' /\ DemandInv'
<1>1. /\ flush' = Resting /\ buffer' = MergeAll(buffer, flush.requeue) /\ flush.pc = "send"
      /\ flush.entries = <<>> /\ buffer \in ObsMap /\ flush.requeue \in ObsMap
      /\ UNCHANGED <<scene, budget, served, rows, scans, health, indexer, jobs>>
  BY DEF RequeueEntries, dbVars, TrackerType, Flush
<1>2. buffer' \in ObsMap /\ \A p : At(buffer', p).n = At(buffer, p).n + At(flush.requeue, p).n
  BY <1>1, MergeAllType
<1>3. /\ flush' \in Flush /\ flush'.entries = <<>> /\ flush'.requeue = <<>>
  BY <1>1, EmptyObs DEF Resting, Flush
<1>4. TrackerType'
  BY <1>1, <1>2, <1>3 DEF TrackerType
<1>5. Posted' = {} /\ Posted = {}
  BY <1>1 DEF Posted, DemandInv, PostedOnce
<1>6. ASSUME NEW p \in Patterns PROVE InHand(p)' = InHand(p)
  <2>1. At(<<>>, p).n = 0
    BY EmptyObs DEF At, NoObs
  <2>2. At(buffer, p).n \in Nat /\ At(flush.requeue, p).n \in Nat
    BY DemandIsNat
  <2> QED
    BY <1>1, <1>2, <1>3, <2>1, <2>2 DEF InHand
<1> QED
  BY <1>1, <1>3, <1>4, <1>5, <1>6 DEF DemandInv, PostedOnce

\* An answered request has nothing left to apply, so the chunk may be forgotten.
LEMMA BatchAppliedKeeps ==
  ASSUME TrackerType, DemandInv, NEW j \in jobs, BatchApplied(j)
  PROVE  TrackerType' /\ DemandInv'
<1>1. /\ j.obs = <<>> /\ jobs' = jobs \ {j} /\ flush \in Flush
      /\ UNCHANGED <<scene, budget, served, buffer, rows, scans, health, indexer>>
  BY DEF BatchApplied, dbVars, TrackerType
<1>2. CASE j.open
  <2>1. flush' = [flush EXCEPT !.pc = "send", !.chunk = <<>>]
    BY <1>2 DEF BatchApplied, SendSucceeded
  <2>2. /\ flush' \in Flush /\ flush'.pc = "send" /\ flush'.entries = flush.entries
        /\ flush'.requeue = flush.requeue
    BY <1>1, <2>1, EmptyObs DEF Flush
  <2>3. TrackerType'
    BY <1>1, <2>2 DEF TrackerType
  <2>4. j \in Posted /\ Posted' = {}
    BY <1>1, <1>2 DEF Posted, DemandInv, PostedOnce
  <2>5. ASSUME NEW p \in Patterns PROVE served'[p] <= Demand(rows'[p]) + InHand(p)'
    <3>1. InHand(p)' = InHand(p) /\ At(j.obs, p).n = 0 /\ InHand(p) \in Nat /\ Demand(rows[p]) \in Nat
      BY <1>1, <2>2, EmptyObs, DemandIsNat DEF InHand, At, NoObs
    <3>2. served[p] <= Demand(rows[p]) + InHand(p) + At(j.obs, p).n
      BY <2>4 DEF DemandInv
    <3> QED
      BY <1>1, <3>1, <3>2
  <2> QED
    BY <2>2, <2>3, <2>4, <2>5 DEF DemandInv, PostedOnce
<1>3. CASE ~j.open
  <2>1. flush' = flush /\ Posted' = Posted
    BY <1>1, <1>3 DEF BatchApplied, Posted
  <2>2. TrackerType'
    BY <1>1, <2>1 DEF TrackerType
  <2>3. \A p \in Patterns : InHand(p)' = InHand(p)
    BY <1>1, <2>1 DEF InHand
  <2> QED
    BY <1>1, <2>1, <2>2, <2>3 DEF DemandInv, PostedOnce
<1> QED
  BY <1>2, <1>3

\* An applied observation moves from the request to the table; one of a request the
\* client gave up on only adds demand.
LEMMA ApplyKeeps ==
  ASSUME TrackerType, DemandInv, NEW j \in jobs, NEW q \in Patterns, ApplyObservation(j, q)
  PROVE  TrackerType' /\ DemandInv'
<1> DEFINE left == Restrict(j.obs, DOMAIN j.obs \ {q})
           next == [j EXCEPT !.obs = left]
<1>1. /\ q \in DOMAIN j.obs /\ rows' = [rows EXCEPT ![q] = RecordDemand(rows[q], j.obs[q])]
      /\ jobs' = (jobs \ {j}) \cup {next}
      /\ UNCHANGED <<scene, budget, served, buffer, flush, scans, health, indexer>>
  BY DEF ApplyObservation, clientVars
<1>2. j \in Job /\ j.obs \in ObsMap /\ j.obs[q] \in Obs /\ rows \in [Patterns -> Row]
  BY <1>1, ObsMapIs DEF TrackerType, Job
<1>3. DOMAIN j.obs \ {q} \in SUBSET DOMAIN j.obs
  OBVIOUS
<1>4. left \in ObsMap /\ \A p : At(left, p) = IF p \in DOMAIN j.obs \ {q} THEN At(j.obs, p) ELSE NoObs
  BY <1>2, <1>3, RestrictType
<1> HIDE DEF left
<1>5. next \in Job /\ next.obs = left /\ next.open = j.open
  BY <1>2, <1>4 DEF Job
<1>6. RecordDemand(rows[q], j.obs[q]) \in Row
      /\ Demand(RecordDemand(rows[q], j.obs[q])) = Demand(rows[q]) + j.obs[q].n
  BY <1>2, RecordDemandType
<1>7. rows' \in [Patterns -> Row]
  BY <1>1, <1>2, <1>6
<1>8. TrackerType'
  BY <1>1, <1>5, <1>7 DEF TrackerType
<1>9. At(left, q).n = 0 /\ At(j.obs, q).n = j.obs[q].n
      /\ \A p : p # q => At(left, p).n = At(j.obs, p).n
  <2>1. \A p : p \notin DOMAIN j.obs => At(j.obs, p) = NoObs
    BY DEF At
  <2> QED
    BY <1>1, <1>4, <2>1 DEF At, NoObs
<1>10. ASSUME NEW p \in Patterns
       PROVE  /\ At(left, p).n \in Nat /\ At(j.obs, p).n \in Nat
              /\ Demand(rows[p]) \in Nat /\ Demand(rows'[p]) \in Nat
              /\ Demand(rows'[p]) + At(left, p).n = Demand(rows[p]) + At(j.obs, p).n
              /\ Demand(rows[p]) <= Demand(rows'[p]) /\ At(left, p).n <= At(j.obs, p).n
              /\ InHand(p)' = InHand(p) /\ InHand(p) \in Nat /\ served[p] \in Nat
  <2>1. At(j.obs, p).n \in Nat /\ Demand(rows[p]) \in Nat /\ InHand(p) \in Nat /\ served[p] \in Nat
    BY DemandIsNat
  <2>2. At(left, p).n \in Nat /\ Demand(rows'[p]) \in Nat
    BY <1>4, <1>7, ObsMapIs, RowFacts DEF Obs
  <2>3. CASE p = q
    <3>1. Demand(rows'[p]) = Demand(rows[p]) + At(j.obs, p).n
      BY <1>1, <1>2, <1>6, <1>9, <2>3
    <3> QED
      BY <1>1, <1>9, <2>1, <2>2, <2>3, <3>1 DEF InHand
  <2>4. CASE p # q
    <3>1. rows'[p] = rows[p]
      BY <1>1, <1>2, <2>4
    <3> QED
      BY <1>1, <1>9, <2>1, <2>2, <2>4, <3>1 DEF InHand
  <2> QED
    BY <2>3, <2>4
<1> HIDE DEF next
<1>11. CASE j.open
  <2>1. j \in Posted /\ Posted' = {next} /\ Posted = {j}
    <3>1. Posted = {j}
      BY <1>11 DEF Posted, DemandInv, PostedOnce
    <3>2. Posted' = (Posted \ {j}) \cup {next}
      BY <1>1, <1>5, <1>11 DEF Posted
    <3> QED
      BY <3>1, <3>2
  <2>2. \A p \in Patterns : At(j.obs, p).n <= At(flush.chunk, p).n
    BY <2>1 DEF DemandInv, PostedOnce
  <2>3. flush'.pc = "wait" /\ \A p \in Patterns : At(next.obs, p).n <= At(flush'.chunk, p).n
    <3>1. flush' = flush /\ flush.pc = "wait"
      BY <1>1, <2>1 DEF DemandInv, PostedOnce
    <3>2. ASSUME NEW p \in Patterns PROVE At(next.obs, p).n <= At(flush.chunk, p).n
      <4>1. At(left, p).n <= At(j.obs, p).n /\ At(left, p).n \in Nat /\ At(j.obs, p).n \in Nat
            /\ At(flush.chunk, p).n \in Nat /\ At(j.obs, p).n <= At(flush.chunk, p).n
        BY <1>10, <2>2, DemandIsNat
      <4> QED
        BY <1>5, <4>1
    <3> QED
      BY <3>1, <3>2
  <2>4. ASSUME NEW p \in Patterns
        PROVE  served'[p] <= Demand(rows'[p]) + InHand(p)' + At(next.obs, p).n
    <3>1. served[p] <= Demand(rows[p]) + InHand(p) + At(j.obs, p).n
      BY <2>1 DEF DemandInv
    <3>2. \A s, a, b, h, m, n \in Nat : b + n = a + m /\ s <= a + h + m => s <= b + h + n
      OBVIOUS
    <3> QED
      BY <1>1, <1>5, <1>10, <3>1, <3>2
  <2> QED
    BY <1>8, <2>1, <2>3, <2>4 DEF DemandInv, PostedOnce
<1>12. CASE ~j.open
  <2>1. Posted' = Posted
    BY <1>1, <1>5, <1>12 DEF Posted
  <2>2. ASSUME NEW p \in Patterns, NEW x \in Nat, served[p] <= Demand(rows[p]) + InHand(p) + x
        PROVE  served'[p] <= Demand(rows'[p]) + InHand(p)' + x
    <3>1. \A s, a, b, h, m \in Nat : a <= b /\ s <= a + h + m => s <= b + h + m
      OBVIOUS
    <3> QED
      BY <1>1, <1>10, <2>2, <3>1
  <2>3. ASSUME NEW p \in Patterns, Posted = {} PROVE served'[p] <= Demand(rows'[p]) + InHand(p)'
    <3>1. served[p] <= Demand(rows[p]) + InHand(p)
      BY <2>3 DEF DemandInv
    <3>2. \A s, a, b, h \in Nat : a <= b /\ s <= a + h => s <= b + h
      OBVIOUS
    <3> QED
      BY <1>1, <1>10, <3>1, <3>2
  <2>4. ASSUME NEW p \in Patterns, NEW i \in Posted
        PROVE  served'[p] <= Demand(rows'[p]) + InHand(p)' + At(i.obs, p).n
    <3>1. At(i.obs, p).n \in Nat
      BY DemandIsNat DEF Posted
    <3> QED
      BY <2>2, <3>1 DEF DemandInv
  <2> QED
    BY <1>1, <1>8, <2>1, <2>3, <2>4 DEF DemandInv, PostedOnce
<1> QED
  BY <1>11, <1>12

\* An aborted batch loses nothing: the client requeues the chunk.
LEMMA BatchFailedKeeps ==
  ASSUME TrackerType, DemandInv, NEW j \in jobs, BatchFailed(j)
  PROVE  TrackerType' /\ DemandInv'
<1>1. /\ jobs' = jobs \ {j} /\ Spend("stores")
      /\ UNCHANGED <<scene, served, buffer, rows, scans, health, indexer>>
  BY DEF BatchFailed, dbVars
<1>2. budget' \in [Budgets -> Nat]
  BY <1>1, SpendType DEF Budgets
<1>3. CASE j.open
  <2>1. SendFailed
    BY <1>3 DEF BatchFailed
  <2>2. \A i \in jobs' : ~i.open
    BY <1>1, <1>3 DEF DemandInv, PostedOnce, Posted
  <2>3. flush' \in Flush
    BY <2>1, SendFailedIs
  <2> QED
    BY <1>1, <1>2, <2>1, <2>2, <2>3, FailureKeepsDemand DEF TrackerType
<1>4. CASE ~j.open
  <2>1. flush' = flush /\ Posted' = Posted
    BY <1>1, <1>4 DEF BatchFailed, Posted
  <2>2. \A p \in Patterns : InHand(p)' = InHand(p)
    BY <1>1, <2>1 DEF InHand
  <2> QED
    BY <1>1, <1>2, <2>1, <2>2 DEF TrackerType, DemandInv, PostedOnce
<1> QED
  BY <1>3, <1>4

\* A timeout loses nothing, whether the request had arrived or not.
LEMMA SendTimeoutKeeps ==
  ASSUME TrackerType, DemandInv, NEW j \in jobs, SendTimeout(j)
  PROVE  TrackerType' /\ DemandInv'
<1>1. /\ Spend("timeouts") /\ j.open /\ SendFailed
      /\ UNCHANGED <<scene, served, buffer, rows, scans, health, indexer>>
      /\ jobs' = jobs \ {j} \/ jobs' = (jobs \ {j}) \cup {[j EXCEPT !.open = FALSE]}
  BY DEF SendTimeout, dbVars
<1>2. budget' \in [Budgets -> Nat] /\ flush' \in Flush
  BY <1>1, SpendType, SendFailedIs DEF Budgets
<1>3. [j EXCEPT !.open = FALSE] \in Job /\ ~[j EXCEPT !.open = FALSE].open
  BY DEF TrackerType, Job
<1>4. jobs' \subseteq Job
  BY <1>1, <1>3 DEF TrackerType
<1>5. \A i \in jobs \ {j} : ~i.open
  BY <1>1 DEF DemandInv, PostedOnce, Posted
<1>6. \A i \in jobs' : ~i.open
  BY <1>1, <1>3, <1>5
<1> QED
  BY <1>1, <1>2, <1>4, <1>6, FailureKeepsDemand DEF TrackerType

\* A restart of the tracker loses nothing: the open request fails at the client.
LEMMA RestartKeeps ==
  ASSUME TrackerType, DemandInv, Restart
  PROVE  TrackerType' /\ DemandInv'
<1>1. /\ Spend("restarts") /\ jobs' = {}
      /\ UNCHANGED <<scene, served, buffer, rows, scans, health, indexer>>
  BY DEF Restart, dbVars
<1>2. budget' \in [Budgets -> Nat]
  BY <1>1, SpendType DEF Budgets
<1>3. CASE flush.pc = "wait"
  <2>1. SendFailed
    BY <1>3 DEF Restart
  <2> QED
    BY <1>1, <1>2, <2>1, SendFailedIs, FailureKeepsDemand DEF TrackerType
<1>4. CASE flush.pc # "wait"
  <2>1. flush' = flush /\ Posted = {} /\ Posted' = {}
    BY <1>1, <1>4 DEF Restart, Posted, DemandInv, PostedOnce
  <2>2. \A p \in Patterns : InHand(p)' = InHand(p)
    BY <1>1, <2>1 DEF InHand
  <2> QED
    BY <1>1, <1>2, <2>1, <2>2 DEF TrackerType, DemandInv, PostedOnce
<1> QED
  BY <1>3, <1>4

\* An accepted request is in the buffer; one a full buffer refuses is not accepted.
LEMMA BufferQueryKeeps ==
  ASSUME TrackerType, DemandInv, NEW q \in Patterns, NEW failed \in BOOLEAN, BufferQuery(q, failed)
  PROVE  TrackerType' /\ DemandInv'
<1>0. PICK us \in Nat : \/ UNCHANGED <<buffer, served>>
                        \/ buffer' = MergeAll(buffer, [p \in {q} |->
                             [us |-> us, n |-> 1, failed |-> IF failed THEN 1 ELSE 0]])
  <2>1. scene.cost[q].with \subseteq Nat /\ scene.cost[q].without \subseteq Nat
    BY TrackerAssumption DEF TrackerType
  <2> QED
    BY <2>1 DEF BufferQuery
<1> DEFINE seen == [us |-> us, n |-> 1, failed |-> IF failed THEN 1 ELSE 0]
           one == [p \in {q} |-> seen]
           counted == [t \in Tables |-> IF scene.planner /\ q \in indexes[t]
                                          THEN [scans[t] EXCEPT ![q] = @ + 1] ELSE scans[t]]
<1>1. /\ Spend("queries") /\ scans' = counted
      /\ \/ UNCHANGED <<buffer, served>>
         \/ buffer' = MergeAll(buffer, one) /\ served' = [served EXCEPT ![q] = @ + 1]
      /\ UNCHANGED <<scene, flush, jobs, rows, health, indexer>>
  BY <1>0 DEF BufferQuery
<1>2. budget' \in [Budgets -> Nat]
  BY <1>1, SpendType DEF Budgets
<1>3. seen \in Obs /\ seen.n = 1
  BY DEF Obs
<1>4. counted \in [Tables -> [Patterns -> Nat]]
  BY DEF TrackerType
<1> HIDE DEF seen, counted
<1>5. one \in ObsMap /\ At(one, q).n = 1 /\ \A p : p # q => At(one, p).n = 0
  <2>1. one \in [{q} -> Obs] /\ {q} \in SUBSET Patterns /\ DOMAIN one = {q} /\ one[q] = seen
    BY <1>3
  <2> HIDE DEF one
  <2>2. one \in ObsMap
    BY <2>1 DEF ObsMap
  <2>3. At(one, q) = seen /\ \A p : p # q => At(one, p) = NoObs
    BY <2>1 DEF At
  <2> QED
    BY <1>3, <2>2, <2>3 DEF NoObs
<1> HIDE DEF one
<1>6. /\ MergeAll(buffer, one) \in ObsMap
      /\ \A p : At(MergeAll(buffer, one), p).n = At(buffer, p).n + At(one, p).n
  BY <1>5, MergeAllType DEF TrackerType
<1>7. Posted' = Posted /\ rows' = rows
  BY <1>1 DEF Posted
<1>8. CASE UNCHANGED <<buffer, served>>
  <2>1. \A p \in Patterns : InHand(p)' = InHand(p)
    BY <1>1, <1>8 DEF InHand
  <2> QED
    BY <1>1, <1>2, <1>4, <1>7, <1>8, <2>1 DEF TrackerType, DemandInv, PostedOnce
<1>9. CASE buffer' = MergeAll(buffer, one) /\ served' = [served EXCEPT ![q] = @ + 1]
  <2>1. served' \in [Patterns -> Nat]
    BY <1>9 DEF TrackerType
  <2>2. TrackerType'
    BY <1>1, <1>2, <1>4, <1>6, <1>9, <2>1 DEF TrackerType
  <2>3. ASSUME NEW p \in Patterns
        PROVE  /\ served'[p] = served[p] + At(one, p).n /\ At(one, p).n \in Nat
               /\ InHand(p)' = InHand(p) + At(one, p).n
    <3>1. /\ At(buffer, p).n \in Nat /\ At(flush.entries, p).n \in Nat /\ At(flush.requeue, p).n \in Nat
          /\ served[p] \in Nat
      BY DemandIsNat
    <3>2. At(one, p).n \in {0, 1} /\ (p = q <=> At(one, p).n = 1)
      BY <1>5
    <3>3. served'[p] = IF p = q THEN served[p] + 1 ELSE served[p]
      BY <1>9 DEF TrackerType
    <3>4. At(buffer', p).n = At(buffer, p).n + At(one, p).n /\ flush' = flush
      BY <1>1, <1>6, <1>9
    <3>5. served'[p] = served[p] + At(one, p).n
      BY <3>1, <3>2, <3>3
    <3> QED
      BY <3>1, <3>2, <3>4, <3>5 DEF InHand
  <2>4. \A s, d, h, x, o \in Nat : s <= d + h + x => s + o <= d + (h + o) + x
    OBVIOUS
  <2>5. \A s, d, h, o \in Nat : s <= d + h => s + o <= d + (h + o)
    OBVIOUS
  <2>6. ASSUME NEW p \in Patterns, Posted = {} PROVE served'[p] <= Demand(rows'[p]) + InHand(p)'
    <3>1. served[p] <= Demand(rows[p]) + InHand(p)
      BY <2>6 DEF DemandInv
    <3> QED
      BY <1>7, <2>3, <2>5, <3>1, DemandIsNat
  <2>7. ASSUME NEW p \in Patterns, NEW j \in Posted
        PROVE  served'[p] <= Demand(rows'[p]) + InHand(p)' + At(j.obs, p).n
    <3>1. served[p] <= Demand(rows[p]) + InHand(p) + At(j.obs, p).n
      BY <2>7 DEF DemandInv
    <3>2. At(j.obs, p).n \in Nat
      BY DemandIsNat DEF Posted
    <3> QED
      BY <1>7, <2>3, <2>4, <3>1, <3>2, DemandIsNat
  <2> QED
    BY <1>1, <1>7, <2>2, <2>6, <2>7 DEF DemandInv, PostedOnce
<1> QED
  BY <1>1, <1>8, <1>9

\* Requests, failures, time and restarts keep type and demand.
LEMMA EnvironmentKeeps ==
  ASSUME TrackerType, DemandInv, Environment
  PROVE  TrackerType' /\ DemandInv'
<1>1. ASSUME UNCHANGED <<scene, served, rows, scans, buffer, flush, jobs>>,
             budget' \in [Budgets -> Nat], health' \in BOOLEAN, indexer' \in BOOLEAN
      PROVE  TrackerType' /\ DemandInv'
  <2>1. TrackerType' /\ RowsKeepDemand
    BY <1>1 DEF TrackerType, RowsKeepDemand
  <2> QED
    BY <1>1, <2>1, SameDemandInv
<1>2. ASSUME RowsKeepDemand, UNCHANGED <<scene, budget, served, scans, buffer, flush, jobs, health, indexer>>
      PROVE  TrackerType' /\ DemandInv'
  BY <1>2, SameDemandInv DEF TrackerType, RowsKeepDemand
<1>3. CASE IndexerHealth
  <2>1. budget' \in [Budgets -> Nat]
    BY <1>3, SpendType DEF IndexerHealth, Budgets
  <2> QED
    BY <1>1, <1>3, <2>1 DEF IndexerHealth, clientVars, dbVars
<1>4. CASE RollAll
  <2>1. RowsKeepDemand
    BY <1>4, RollScoresType DEF RollAll, RowsKeepDemand, TrackerType
  <2> QED
    BY <1>2, <1>4, <2>1 DEF RollAll, clientVars
<1>5. ASSUME NEW p \in Patterns, NEW f \in Flags, Elapse(p, f) PROVE TrackerType' /\ DemandInv'
  <2>1. rows' = [rows EXCEPT ![p] = [rows[p] EXCEPT !.flags = @ \cup {f}]] /\ rows[p] \in Row
    BY <1>5 DEF Elapse, TrackerType
  <2> DEFINE r == [rows[p] EXCEPT !.flags = @ \cup {f}]
  <2>2. r \in Row /\ r.with = rows[p].with /\ r.without = rows[p].without
    BY <2>1 DEF Row
  <2>3. Demand(r) = Demand(rows[p])
    BY <2>1, <2>2, SameDemand
  <2> HIDE DEF r
  <2>4. rows' = [rows EXCEPT ![p] = r]
    BY <2>1 DEF r
  <2>5. RowsKeepDemand
    BY <2>2, <2>3, <2>4 DEF RowsKeepDemand, TrackerType
  <2> QED
    BY <1>2, <1>5, <2>5 DEF Elapse, clientVars
<1> QED
  BY <1>3, <1>4, <1>5, BufferQueryKeeps, SendTimeoutKeeps, BatchFailedKeeps, RestartKeeps
     DEF Environment

\* Every step of the tracker keeps type and demand.
LEMMA TrackerStep ==
  ASSUME TrackerType, DemandInv, CreationShape, [Next]_vars
  PROVE  TrackerType' /\ DemandInv'
<1>1. CASE Client
  BY <1>1, StartFlushKeeps, SendBatchKeeps, RequeueKeeps DEF Client
<1>2. CASE Ingest
  BY <1>2, BatchAppliedKeeps, ApplyKeeps DEF Ingest
<1>3. CASE Creation
  BY <1>3, CreationRows, SameDemandInv
<1>4. CASE Eviction
  BY <1>4, EvictionRows, SameDemandInv
<1>5. CASE Environment
  BY <1>5, EnvironmentKeeps
<1>6. CASE UNCHANGED vars
  <2>1. TrackerType' /\ RowsKeepDemand /\ UNCHANGED <<served, buffer, flush, jobs>>
    BY <1>6 DEF vars, TrackerType, RowsKeepDemand
  <2> QED
    BY <2>1, SameDemandInv
<1> QED
  BY <1>1, <1>2, <1>3, <1>4, <1>5, <1>6 DEF Next

\* The inductive invariant of the type and of the demand.
TrackerInv == CapInv /\ CreationShape /\ TrackerType /\ DemandInv

\* The inductive invariant of the tracker holds in every behaviour.
LEMMA TrackerAlways == Spec => []TrackerInv
<1>1. Init => TrackerInv
  BY CapInit, TrackerInit, DemandInit DEF TrackerInv
<1>2. TrackerInv /\ [Next]_vars => TrackerInv'
  BY CapStep, ShapeStep, TrackerStep DEF TrackerInv
<1> QED
  BY <1>1, <1>2, PTL DEF Spec

\* Type correctness: rates stay numbers although a half-dropped pair lowers the
\* supply they are computed from (the clamp of roll_scores).
THEOREM TrackerTypeCorrect == Spec => []TypeOK
<1>1. TrackerInv => TypeOK
  BY DEF TrackerInv, CapInv, TrackerType, TypeOK, Row
<1> QED
  BY <1>1, TrackerAlways, PTL

\* Demand the client accepted is recorded or still on its way: timeouts, aborted
\* batches and restarts of the tracker lose none of it (requeue_entries).
THEOREM DemandNeverLost == Spec => []DemandKept
<1>1. ASSUME TrackerType, DemandInv, NEW p \in Patterns
      PROVE  Demand(rows[p]) + Pending(p) >= served[p]
  <2>1. /\ served[p] \in Nat /\ Demand(rows[p]) \in Nat /\ InHand(p) \in Nat
        /\ \A j \in jobs : At(j.obs, p).n \in Nat
    BY <1>1, DemandIsNat
  <2>2. CASE Posted = {}
    <3>1. Pending(p) = InHand(p) + 0
      BY <2>2 DEF Pending, Posted, InHand
    <3>2. served[p] <= Demand(rows[p]) + InHand(p)
      BY <1>1, <2>2 DEF DemandInv
    <3> QED
      BY <2>1, <3>1, <3>2
  <2>3. CASE Posted # {}
    <3> DEFINE j == CHOOSE i \in Posted : TRUE
    <3>1. j \in Posted
      BY <2>3
    <3>2. Pending(p) = InHand(p) + At(j.obs, p).n
      BY <2>3 DEF Pending, Posted, InHand
    <3> HIDE DEF j
    <3>3. served[p] <= Demand(rows[p]) + InHand(p) + At(j.obs, p).n /\ At(j.obs, p).n \in Nat
      BY <1>1, <2>1, <3>1 DEF DemandInv, Posted
    <3> QED
      BY <2>1, <3>2, <3>3
  <2> QED
    BY <2>2, <2>3
<1>2. TrackerInv => DemandKept
  BY <1>1 DEF TrackerInv, DemandKept
<1> QED
  BY <1>2, TrackerAlways, PTL

----------------------------------------------------------------------------
(* The pair of indexes and the status                                      *)

\* Indexes of a pair that its drop has taken, and those its creation has made.
Dropped(p, t) ==
  Dropping(p) /\ eviction.pc \in IF t = "accounts" THEN {CAP_TABLE, "mark"} ELSE {"mark"}
Built(p, t) ==
  Building(p) /\ creation.pc \in IF t = "accounts" THEN {CAP_TABLE, "mark"} ELSE {"mark"}

\* A list of drops names created patterns only, each once.
GoodList(l) ==
  /\ l \in Seq(Patterns) /\ IsInjective(l)
  /\ \A i \in DOMAIN l : rows[l[i]].status = "created"

\* Nobody spends what it does not have.
BudgetInv == \A b \in Budgets : budget[b] <= scene.budget[b]

Working == Tables \cup {"mark"}
ListStates == {"regress", "drain", "trim"} \cup Working

\* While nothing failed, an index exists exactly when its pattern is created and its drop has
\* not reached it, or when it was built and the pattern is not marked yet; what the creation
\* loop builds stays a candidate, what the pass has on its list stays created.
PairInv ==
  Faultless =>
    /\ creation.pc \in {"guard"} \cup Working => rows[creation.p].status = "candidate"
    /\ eviction.pc \in ListStates => GoodList(eviction.list)
    /\ eviction.pc \in Working => eviction.list # <<>>
    /\ \A p \in Patterns, t \in Tables :
         p \in indexes[t] <=> (rows[p].status = "created" /\ ~Dropped(p, t)) \/ Built(p, t)

\* The statements whose failure the property excludes.
FaultBudgets == {"builds", "drops", "stores", "restarts"}

\* A statement that fails ends the faultless behaviour.
LEMMA FailureIsFault ==
  ASSUME TrackerType, BudgetInv, scene' = scene, NEW b \in FaultBudgets, Spend(b)
  PROVE  ~Faultless'
<1>1. /\ scene.budget \in [Budgets -> Nat] /\ budget \in [Budgets -> Nat] /\ b \in Budgets
      /\ budget[b] <= scene.budget[b] /\ budget' = [budget EXCEPT ![b] = @ - 1]
  BY TrackerAssumption DEF TrackerType, BudgetInv, Spend, Budgets, FaultBudgets
<1>2. budget'[b] < scene.budget[b] /\ budget'[b] \in Int /\ scene.budget[b] \in Int
  BY <1>1
<1> QED
  BY <1>2 DEF Faultless, FaultBudgets

\* A step spends at most one unit of one budget.
SpendsOnce == UNCHANGED budget \/ \E b \in Budgets : Spend(b)

\* Every step spends at most one unit, and the scene is given once and for all.
LEMMA StepSpends ==
  ASSUME [Next]_vars
  PROVE  SpendsOnce /\ scene' = scene
<1> DEFINE ok == SpendsOnce /\ scene' = scene
<1>0. {"queries", "busy", "builds", "drops", "stores", "timeouts", "restarts", "health"} \subseteq Budgets
  BY DEF Budgets
<1>1. ASSUME NEW t, NEW next, DropOne(t, next) PROVE ok
  BY <1>0, <1>1 DEF DropOne, SpendsOnce
<1>2. ASSUME NEW t, NEW next, CreateOne(t, next) PROVE ok
  BY <1>0, <1>2 DEF CreateOne, createUnchanged, SpendsOnce
<1>3. ASSUME Eviction PROVE ok
  BY <1>0, <1>1, <1>3 DEF Eviction, EvictionTick, RegressionWait, RegressionDone, WaitOutBackpressure,
       MarkDropped, RefreshSupply, StartTrim, PassAborts, MarkUnhealthy, TrimDone, TrimWait,
       RestoreHealthy, WriteHealth, evictUnchanged, SpendsOnce, NoPressure, UnderPressure
<1>4. ASSUME Creation PROVE ok
  BY <1>0, <1>2, <1>4 DEF Creation, CreationTick, CountIndexes, ChooseCandidate, ValueGuard, CreatePairDone,
       CreationReadFails, createUnchanged, SpendsOnce, NoPressure, UnderPressure
<1>5. ASSUME Client \/ Ingest PROVE ok
  BY <1>5 DEF Client, StartFlush, SendBatch, RequeueEntries, Ingest, BatchApplied, ApplyObservation,
       SpendsOnce
<1>6. ASSUME Environment PROVE ok
  BY <1>0, <1>6 DEF Environment, BufferQuery, Elapse, SendTimeout, BatchFailed, RollAll, IndexerHealth,
       Restart, SpendsOnce
<1> QED
  BY <1>3, <1>4, <1>5, <1>6 DEF Next, vars, SpendsOnce

\* Budgets only go down, and what is faultless after a step was so before.
LEMMA BudgetStep ==
  ASSUME TrackerType, BudgetInv, [Next]_vars
  PROVE  BudgetInv' /\ (Faultless' => Faultless)
<1>1. scene' = scene /\ scene.budget \in [Budgets -> Nat] /\ budget \in [Budgets -> Nat]
  BY StepSpends, TrackerAssumption DEF TrackerType
<1>2. \A b \in Budgets : budget'[b] <= budget[b] /\ budget'[b] \in Int
  BY <1>1, StepSpends DEF SpendsOnce, Spend
<1>3. \A b \in Budgets : budget[b] <= scene.budget[b] /\ budget[b] \in Int /\ scene.budget[b] \in Int
  BY <1>1 DEF BudgetInv
<1>4. BudgetInv'
  <2>1. \A b \in Budgets : budget'[b] <= scene.budget[b]
    BY <1>2, <1>3
  <2> QED
    BY <1>1, <2>1 DEF BudgetInv
<1>5. ASSUME Faultless' PROVE Faultless
  <2>1. ASSUME NEW b \in {"builds", "drops", "stores", "restarts"} PROVE budget[b] = scene.budget[b]
    <3>1. b \in Budgets
      BY DEF Budgets
    <3>2. budget'[b] = scene.budget[b]
      BY <1>1, <1>5 DEF Faultless
    <3> QED
      BY <1>2, <1>3, <3>1, <3>2
  <2>2. scene.broken = {}
    BY <1>1, <1>5 DEF Faultless
  <2> QED
    BY <2>1, <2>2 DEF Faultless
<1> QED
  BY <1>4, <1>5

\* The lists of an eviction pass are lists of the set they order.
LEMMA OrderedLists ==
  ASSUME NEW S \in SUBSET Patterns, NEW l \in Injection(1..Cardinality(S), S)
  PROVE  l \in Seq(Patterns) /\ IsInjective(l) /\ \A i \in DOMAIN l : l[i] \in S
<1>1. Cardinality(S) \in Nat
  BY PatternsFinite, FS_Subset, FS_CardinalityType
<1>2. l \in [1..Cardinality(S) -> S] /\ IsInjective(l)
  BY DEF Injection
<1>3. l \in [1..Cardinality(S) -> Patterns]
  BY <1>2
<1>4. l \in Seq(Patterns)
  BY <1>1, <1>3, SeqDef
<1> QED
  BY <1>2, <1>4

\* The rest of a list of distinct members does not hold its head.
LEMMA RestOfList ==
  ASSUME NEW l \in Seq(Patterns), IsInjective(l), l # <<>>
  PROVE  /\ Head(l) \in Patterns /\ Head(l) = l[1] /\ 1 \in DOMAIN l
         /\ Tail(l) \in Seq(Patterns) /\ IsInjective(Tail(l))
         /\ \A i \in DOMAIN Tail(l) : \E j \in DOMAIN l : Tail(l)[i] = l[j] /\ l[j] # Head(l)
<1>1. /\ Len(l) \in Nat \ {0} /\ DOMAIN l = 1..Len(l)
      /\ Head(l) \in Patterns /\ Tail(l) \in Seq(Patterns) /\ Len(Tail(l)) = Len(l) - 1
      /\ \A i \in 1..Len(Tail(l)) : Tail(l)[i] = l[i + 1]
  BY HeadTailProperties, LenProperties, EmptySeq
<1>2. DOMAIN Tail(l) = 1..Len(Tail(l)) /\ Head(l) = l[1]
  BY <1>1, LenProperties
<1>3. \A i \in 1..Len(Tail(l)) : i + 1 \in 1..Len(l) /\ i + 1 # 1
  BY <1>1
<1>4. \A i \in DOMAIN Tail(l) : Tail(l)[i] = l[i + 1] /\ i + 1 \in DOMAIN l /\ l[i + 1] # l[1]
  BY <1>1, <1>2, <1>3 DEF IsInjective
<1>5. IsInjective(Tail(l))
  <2> SUFFICES ASSUME NEW a \in DOMAIN Tail(l), NEW b \in DOMAIN Tail(l), Tail(l)[a] = Tail(l)[b]
               PROVE  a = b
    BY DEF IsInjective
  <2>1. a + 1 = b + 1
    BY <1>4 DEF IsInjective
  <2> QED
    BY <1>1, <1>2, <2>1
<1> QED
  BY <1>1, <1>2, <1>4, <1>5

\* What statements of others do to the rows: "created" comes and goes with the two loops only,
\* and only they move a candidate on.
StatusKept ==
  \A p \in Patterns :
    /\ rows'[p].status = "created" <=> rows[p].status = "created"
    /\ rows[p].status = "candidate" => rows'[p].status = "candidate"

CreatedStays == \A p \in Patterns : rows[p].status = "created" => rows'[p].status = "created"

\* A list stays good while its patterns stay created.
LEMMA ListKept ==
  ASSUME NEW l, GoodList(l), CreatedStays
  PROVE  \A m : m = l => GoodList(m)'
<1>1. l \in Seq(Patterns) /\ \A i \in DOMAIN l : l[i] \in Patterns
  BY LenProperties, ElementOfSeq DEF GoodList
<1> QED
  BY <1>1 DEF GoodList, CreatedStays

\* A step that moves neither loop and no index.
LEMMA PairsKept ==
  ASSUME PairInv, CreationShape, Faultless' => Faultless, StatusKept,
         UNCHANGED <<indexes, creation, eviction>>
  PROVE  PairInv'
<1> SUFFICES ASSUME Faultless' PROVE PairInv'
  BY DEF PairInv
<1>1. eviction.pc \in ListStates => GoodList(eviction.list)'
  BY ListKept DEF PairInv, StatusKept, CreatedStays
<1>2. \A p \in Patterns, t \in Tables : Dropped(p, t)' = Dropped(p, t) /\ Built(p, t)' = Built(p, t)
  BY DEF Dropped, Built, Dropping, Building
<1>3. creation.pc \in {"guard"} \cup Working => creation.p \in Patterns
  BY DEF CreationShape, Working, Tables, CAP_TABLE
<1> QED
  BY <1>1, <1>2, <1>3 DEF PairInv, StatusKept

\* A step of the creation loop: what the pass has on its list stays created, and the tables
\* agree with the loop's new place.
LEMMA CreationMoves ==
  ASSUME PairInv, Faultless' => Faultless, CreatedStays, UNCHANGED eviction,
         creation'.pc \in {"guard"} \cup Working => rows'[creation'.p].status = "candidate",
         \A p \in Patterns, t \in Tables :
           p \in indexes'[t] <=> (rows'[p].status = "created" /\ ~Dropped(p, t)) \/ Built(p, t)'
  PROVE  PairInv'
<1> SUFFICES ASSUME Faultless' PROVE PairInv'
  BY DEF PairInv
<1>1. eviction.pc \in ListStates => GoodList(eviction.list)'
  BY ListKept DEF PairInv
<1>2. \A p \in Patterns, t \in Tables : Dropped(p, t)' = Dropped(p, t)
  BY DEF Dropped, Dropping
<1>3. eviction'.pc \in Working => eviction'.list # <<>>
  BY DEF PairInv
<1> QED
  BY <1>1, <1>2, <1>3 DEF PairInv

\* The creation loop leaves the eviction pass where it is.
LEMMA CreationQuiet == Creation => UNCHANGED eviction
<1>1. ASSUME NEW t, NEW next, CreateOne(t, next) PROVE UNCHANGED eviction
  BY <1>1 DEF CreateOne, createUnchanged
<1> QED
  BY <1>1 DEF Creation, CreationTick, CountIndexes, ChooseCandidate, ValueGuard, CreatePairDone,
       CreationReadFails, createUnchanged

\* The eviction pass leaves the creation loop where it is.
LEMMA EvictionQuiet == Eviction => UNCHANGED creation
<1>1. ASSUME NEW t, NEW next, DropOne(t, next) PROVE UNCHANGED creation
  BY <1>1 DEF DropOne
<1> QED
  BY <1>1 DEF Eviction, EvictionTick, RegressionWait, RegressionDone, WaitOutBackpressure,
       MarkDropped, RefreshSupply, StartTrim, PassAborts, MarkUnhealthy, TrimDone, TrimWait,
       RestoreHealthy, WriteHealth, evictUnchanged

\* create_pair: the two builds and the mark keep the pair and the status together.
LEMMA CreationPairs ==
  ASSUME TrackerType, CapInv, CreationShape, BudgetInv, PairInv, Creation,
         UNCHANGED <<scene, eviction>>, Faultless' => Faultless
  PROVE  PairInv'
<1> SUFFICES ASSUME Faultless', Faultless PROVE PairInv'
  BY DEF PairInv
<1>0. /\ rows \in [Patterns -> Row] /\ indexes \in [Tables -> SUBSET Patterns]
      /\ Tables = {"accounts", CAP_TABLE} /\ CAP_TABLE = "snapshot_accounts"
      /\ Working = {"accounts", CAP_TABLE, "mark"}
      /\ \A r \in Row : r.status \in Statuses
  BY DEF TrackerType, CapInv, Tables, CAP_TABLE, Working, Row
<1>p. /\ creation.pc \in {"guard"} \cup Working => rows[creation.p].status = "candidate"
      /\ \A p \in Patterns, t \in Tables :
           p \in indexes[t] <=> (rows[p].status = "created" /\ ~Dropped(p, t)) \/ Built(p, t)
  BY DEF PairInv
<1>f. \A b \in FaultBudgets : ~Spend(b)
  BY FailureIsFault
<1>n. ~Spend("builds") /\ ~Spend("stores") /\ scene.broken = {}
  BY <1>f DEF FaultBudgets, Faultless
<1>1. ASSUME creation'.pc \notin Working \cup {"guard"}, creation.pc \notin Working, StatusKept,
             UNCHANGED indexes
      PROVE  PairInv'
  <2>1. \A p \in Patterns, t \in Tables : ~Built(p, t) /\ ~Built(p, t)'
    BY <1>1 DEF Built, Building, Working
  <2> QED
    BY <1>0, <1>p, <1>1, <2>1, CreationMoves DEF StatusKept, CreatedStays
<1>2. CASE CreationTick
  <2>0. ASSUME NEW r \in Row
        PROVE  \/ PromoteRecovered(r) = r
               \/ r.status = "rejected" /\ PromoteRecovered(r).status = "candidate"
    BY DEF PromoteRecovered, Recovered, Row
  <2>1. StatusKept
    <3>1. rows' = rows \/ rows' = [p \in Patterns |-> PromoteRecovered(rows[p])]
      BY <1>2 DEF CreationTick
    <3> QED
      BY <1>0, <2>0, <3>1 DEF StatusKept
  <2> QED
    BY <1>0, <1>1, <1>2, <2>1 DEF CreationTick, Working
<1>3. CASE CountIndexes
  <2>1. StatusKept
    BY <1>3 DEF CountIndexes, StatusKept
  <2> QED
    BY <1>0, <1>1, <1>3, <2>1 DEF CountIndexes, Working, Idle
<1>4. CASE ChooseCandidate
  <2>1. /\ StatusKept /\ rows' = rows /\ indexes' = indexes /\ creation.pc = "choose"
        /\ \/ creation' = Idle
           \/ \E p \in Candidates(rows) : \E c, s :
                creation' = [pc |-> "guard", current |-> c, p |-> p, score |-> s]
    <3>1. \A f \in TopCandidates(rows, scene.mode, scene.limit) : Chosen(f) \subseteq Candidates(rows)
      BY FetchedAreCandidates DEF Chosen
    <3> QED
      BY <1>4, <3>1 DEF ChooseCandidate, StatusKept
  <2>2. CASE creation' = Idle
    BY <1>0, <1>1, <2>1, <2>2 DEF Idle
  <2>3. ASSUME NEW p \in Candidates(rows), NEW c, NEW s,
               creation' = [pc |-> "guard", current |-> c, p |-> p, score |-> s]
        PROVE  PairInv'
    <3>1. rows[p].status = "candidate"
      BY <2>3 DEF Candidates
    <3>2. \A q \in Patterns, t \in Tables : ~Built(q, t) /\ ~Built(q, t)'
      BY <1>0, <2>1, <2>3 DEF Built, Building
    <3> QED
      BY <1>0, <1>p, <2>1, <2>3, <3>1, <3>2, CreationMoves DEF StatusKept, CreatedStays
  <2> QED
    BY <2>1, <2>2, <2>3
<1>5. CASE ValueGuard
  <2>1. /\ StatusKept /\ rows' = rows /\ indexes' = indexes /\ creation.pc = "guard"
        /\ \/ creation' = Idle
           \/ creation' = [pc |-> "accounts", p |-> creation.p]
    BY <1>5 DEF ValueGuard, StatusKept
  <2>2. \A p \in Patterns, t \in Tables : ~Built(p, t) /\ ~Built(p, t)'
    BY <1>0, <2>1 DEF Built, Building, Idle
  <2>3. creation'.pc \in {"guard"} \cup Working => rows'[creation'.p].status = "candidate"
    BY <1>0, <1>p, <2>1 DEF Idle
  <2> QED
    BY <1>0, <1>p, <2>1, <2>2, <2>3, CreationMoves DEF StatusKept, CreatedStays
<1>6. CASE CreateOne("accounts", CAP_TABLE)
  <2>1. /\ creation.pc = "accounts" /\ creation' = [pc |-> CAP_TABLE, p |-> creation.p]
        /\ indexes' = [indexes EXCEPT !["accounts"] = @ \cup {creation.p}]
        /\ rows' = rows /\ creation.p \in Patterns /\ rows[creation.p].status = "candidate"
    BY <1>0, <1>p, <1>n, <1>6 DEF CreateOne, CreationShape
  <2>2. /\ \A p \in Patterns, t \in Tables : ~Built(p, t)
        /\ \A p \in Patterns, t \in Tables : Built(p, t)' <=> p = creation.p /\ t = "accounts"
    BY <1>0, <2>1 DEF Built, Building
  <2>3. \A p \in Patterns, t \in Tables :
          p \in indexes'[t] <=> p \in indexes[t] \/ (p = creation.p /\ t = "accounts")
    BY <1>0, <2>1
  <2> QED
    BY <1>0, <1>p, <2>1, <2>2, <2>3, CreationMoves DEF CreatedStays
<1>7. CASE CreateOne(CAP_TABLE, "mark")
  <2>1. /\ creation.pc = CAP_TABLE /\ creation' = [pc |-> "mark", p |-> creation.p]
        /\ indexes' = [indexes EXCEPT ![CAP_TABLE] = @ \cup {creation.p}]
        /\ rows' = rows /\ creation.p \in Patterns /\ rows[creation.p].status = "candidate"
    BY <1>0, <1>p, <1>n, <1>7 DEF CreateOne, CreationShape
  <2>2. /\ \A p \in Patterns, t \in Tables : Built(p, t) <=> p = creation.p /\ t = "accounts"
        /\ \A p \in Patterns, t \in Tables : Built(p, t)' <=> p = creation.p
    BY <1>0, <2>1 DEF Built, Building
  <2>3. \A p \in Patterns, t \in Tables :
          p \in indexes'[t] <=> p \in indexes[t] \/ (p = creation.p /\ t = CAP_TABLE)
    BY <1>0, <2>1
  <2> QED
    BY <1>0, <1>p, <2>1, <2>2, <2>3, CreationMoves DEF CreatedStays
<1>8. CASE CreatePairDone
  <2> DEFINE q == creation.p
  <2>1. /\ creation.pc = "mark" /\ creation' = Idle /\ indexes' = indexes
        /\ rows' = [rows EXCEPT ![q] = MarkCreated(@)] /\ q \in Patterns /\ rows[q].status = "candidate"
    BY <1>0, <1>p, <1>n, <1>8 DEF CreatePairDone, CreationShape
  <2>2. /\ \A p \in Patterns, t \in Tables : Built(p, t) <=> p = q
        /\ \A p \in Patterns, t \in Tables : ~Built(p, t)'
    BY <1>0, <2>1 DEF Built, Building, Idle
  <2>3. MarkCreated(rows[q]).status = "created"
    BY <1>0, <2>1 DEF MarkCreated, Row
  <2>4. \A p \in Patterns : rows'[p].status = IF p = q THEN "created" ELSE rows[p].status
    BY <1>0, <2>1, <2>3
  <2>5. \A t \in Tables : ~Dropped(q, t)
    <3>1. eviction.pc \in Working => GoodList(eviction.list) /\ eviction.list # <<>>
      BY DEF PairInv, ListStates
    <3>2. eviction.pc \in Working => rows[Head(eviction.list)].status = "created"
      BY <3>1, RestOfList DEF GoodList
    <3> QED
      BY <1>0, <2>1, <3>2 DEF Dropped, Dropping
  <2> HIDE DEF q
  <2> QED
    BY <1>0, <1>p, <2>1, <2>2, <2>4, <2>5, CreationMoves DEF CreatedStays, Idle
<1>9. CASE CreationReadFails
  BY <1>n, <1>9 DEF CreationReadFails
<1> QED
  BY <1>2, <1>3, <1>4, <1>5, <1>6, <1>7, <1>8, <1>9 DEF Creation

\* A step of the eviction pass: what the creation loop builds stays a candidate, and the tables
\* agree with the new place of the pass.
LEMMA EvictionMoves ==
  ASSUME PairInv, CreationShape, Faultless' => Faultless, UNCHANGED creation,
         \A p \in Patterns : rows[p].status = "candidate" => rows'[p].status = "candidate",
         eviction'.pc \in ListStates => GoodList(eviction.list)',
         eviction'.pc \in Working => eviction'.list # <<>>,
         \A p \in Patterns, t \in Tables :
           p \in indexes'[t] <=> (rows'[p].status = "created" /\ ~Dropped(p, t)') \/ Built(p, t)
  PROVE  PairInv'
<1> SUFFICES ASSUME Faultless' PROVE PairInv'
  BY DEF PairInv
<1>1. \A p \in Patterns, t \in Tables : Built(p, t)' = Built(p, t)
  BY DEF Built, Building
<1>2. creation.pc \in {"guard"} \cup Working => creation.p \in Patterns
  BY DEF CreationShape, Working, Tables, CAP_TABLE
<1> QED
  BY <1>1, <1>2 DEF PairInv

\* drop_pair and its callers: the two drops and the mark keep the pair and the status together.
LEMMA EvictionPairs ==
  ASSUME TrackerType, CapInv, CreationShape, EvictionShape, BudgetInv, PairInv, Eviction,
         UNCHANGED <<scene, creation>>, Faultless' => Faultless
  PROVE  PairInv'
<1> SUFFICES ASSUME Faultless', Faultless PROVE PairInv'
  BY DEF PairInv
<1>0. /\ rows \in [Patterns -> Row] /\ indexes \in [Tables -> SUBSET Patterns]
      /\ Tables = {"accounts", CAP_TABLE} /\ CAP_TABLE = "snapshot_accounts"
      /\ Working = {"accounts", CAP_TABLE, "mark"}
      /\ ListStates = {"regress", "drain", "trim", "accounts", CAP_TABLE, "mark"}
  BY DEF TrackerType, CapInv, Tables, CAP_TABLE, Working, ListStates
<1>p. /\ eviction.pc \in ListStates => GoodList(eviction.list)
      /\ eviction.pc \in Working => eviction.list # <<>>
      /\ \A p \in Patterns, t \in Tables :
           p \in indexes[t] <=> (rows[p].status = "created" /\ ~Dropped(p, t)) \/ Built(p, t)
  BY DEF PairInv
<1>f. ~Spend("drops") /\ ~Spend("stores")
  <2>1. \A b \in FaultBudgets : ~Spend(b)
    BY FailureIsFault
  <2> QED
    BY <2>1 DEF FaultBudgets
<1>1. ASSUME eviction'.pc \notin Working, eviction.pc \notin Working, StatusKept, UNCHANGED indexes,
             eviction'.pc \in ListStates => GoodList(eviction.list)'
      PROVE  PairInv'
  <2>1. \A p \in Patterns, t \in Tables : ~Dropped(p, t) /\ ~Dropped(p, t)'
    BY <1>1 DEF Dropped, Dropping, Working
  <2> QED
    BY <1>p, <1>1, <2>1, EvictionMoves DEF StatusKept
<1>2. ASSUME eviction.pc \notin Working, StatusKept, UNCHANGED indexes, NEW pc \in {"sleep", "supply", "count", "restore"},
             eviction' = [pc |-> pc]
      PROVE  PairInv'
  <2>1. eviction'.pc \notin Working /\ eviction'.pc \notin ListStates
    BY <1>0, <1>2
  <2> QED
    BY <1>1, <1>2, <2>1
<1>3. rows' = rows => StatusKept
  BY DEF StatusKept
<1>4. CASE EvictionTick
  <2>1. PICK l \in IF scene.guard = "evict" THEN InOrder({p \in Patterns : Regressed(rows[p])}, <)
                                            ELSE {<<>>} :
             eviction' = [pc |-> "regress", list |-> l]
    BY <1>4 DEF EvictionTick
  <2>2. GoodList(l)
    <3>1. CASE l = <<>>
      <4>1. DOMAIN l = {} /\ l \in Seq(Patterns)
        BY <3>1, EmptyObs, EmptySeq
      <4> QED
        BY <4>1 DEF GoodList, IsInjective
    <3>2. CASE l \in InOrder({p \in Patterns : Regressed(rows[p])}, <)
      <4> DEFINE S == {p \in Patterns : Regressed(rows[p])}
      <4>1. l \in Injection(1..Cardinality(S), S) /\ S \in SUBSET Patterns
        BY <3>2 DEF InOrder
      <4>2. \A p \in S : rows[p].status = "created"
        BY DEF Regressed
      <4> HIDE DEF S
      <4> QED
        BY <4>1, <4>2, OrderedLists DEF GoodList
    <3> QED
      BY <2>1, <3>1, <3>2
  <2>3. UNCHANGED <<rows, indexes>> /\ eviction.pc = "sleep"
    BY <1>4 DEF EvictionTick
  <2>4. GoodList(eviction.list)'
    BY <2>1, <2>2, <2>3 DEF GoodList
  <2> QED
    BY <1>0, <1>1, <1>3, <2>1, <2>3, <2>4
<1>5. CASE RegressionDone \/ RefreshSupply \/ PassAborts \/ RestoreHealthy \/ TrimDone
  <2>1. /\ UNCHANGED indexes
        /\ eviction' \in {[pc |-> "supply"], [pc |-> "count"], [pc |-> "restore"], Idle}
        /\ eviction.pc \in {"regress", "supply", "count", "restore", "trim"}
    BY <1>5 DEF RegressionDone, RefreshSupply, PassAborts, RestoreHealthy, WriteHealth, TrimDone, AfterTrim
  <2>2. \A r \in Row : \A s : UpdateSupply(r, s).status = r.status
    BY DEF UpdateSupply, Row
  <2>3. StatusKept
    <3>1. CASE RefreshSupply
      BY <1>0, <2>2, <3>1 DEF RefreshSupply, StatusKept
    <3> QED
      BY <1>3, <1>5, <3>1 DEF RegressionDone, PassAborts, RestoreHealthy, WriteHealth, TrimDone
  <2>4. eviction.pc \notin Working
    BY <1>0, <2>1
  <2> QED
    BY <1>2, <2>1, <2>3, <2>4 DEF Idle
<1>6. CASE StartTrim
  <2>1. /\ rows' = rows /\ indexes' = indexes /\ eviction.pc = "count"
        /\ \E l \in EvictionCandidates(rows, scene.mode, scene.supply) :
             eviction' = Idle \/ \E pc \in {"drain", "trim"} : \E c : eviction' = [pc |-> pc, list |-> l, count |-> c]
    BY <1>6 DEF StartTrim
  <2>2. PICK l \in EvictionCandidates(rows, scene.mode, scene.supply) :
             eviction' = Idle \/ \E pc \in {"drain", "trim"} : \E c : eviction' = [pc |-> pc, list |-> l, count |-> c]
    BY <2>1
  <2>3. GoodList(l)
    <3> DEFINE S == Droppable(rows, scene.supply)
    <3>1. l \in Injection(1..Cardinality(S), S)
      BY DEF EvictionCandidates, InOrder
    <3>2. S \in SUBSET Patterns /\ \A p \in S : rows[p].status = "created"
      BY DEF Droppable, EvictionGate
    <3> HIDE DEF S
    <3> QED
      BY <3>1, <3>2, OrderedLists DEF GoodList
  <2>4. CASE eviction' = Idle
    BY <1>0, <1>2, <1>3, <2>1, <2>4 DEF Idle
  <2>5. ASSUME NEW pc \in {"drain", "trim"}, NEW c, eviction' = [pc |-> pc, list |-> l, count |-> c] PROVE PairInv'
    <3>1. GoodList(eviction.list)'
      BY <2>1, <2>3, <2>5 DEF GoodList
    <3> QED
      BY <1>0, <1>1, <1>3, <2>1, <2>5, <3>1
  <2> QED
    BY <2>2, <2>4, <2>5
<1>7. CASE MarkUnhealthy
  <2>1. /\ rows' = rows /\ indexes' = indexes /\ eviction.pc = "drain"
        /\ eviction' = [pc |-> "trim", list |-> eviction.list, count |-> eviction.count]
    BY <1>7 DEF MarkUnhealthy, WriteHealth, EvictionShape, CAP_TABLE
  <2>2. GoodList(eviction.list)'
    BY <1>0, <1>p, <2>1 DEF GoodList
  <2> QED
    BY <1>0, <1>1, <1>3, <2>1, <2>2
<1>8. CASE RegressionWait \/ TrimWait
  <2>1. /\ rows' = rows /\ indexes' = indexes /\ eviction.pc \in {"regress", "trim"} /\ eviction.list # <<>>
        /\ \/ eviction' \in {[pc |-> "supply"], [pc |-> "restore"], Idle}
           \/ eviction'.pc = "accounts" /\ eviction'.list = eviction.list
    BY <1>8 DEF RegressionWait, TrimWait, WaitOutBackpressure, AfterTrim
  <2>2. CASE eviction' \in {[pc |-> "supply"], [pc |-> "restore"], Idle}
    BY <1>0, <1>2, <1>3, <2>1, <2>2 DEF Idle
  <2>3. CASE eviction'.pc = "accounts" /\ eviction'.list = eviction.list
    <3>1. GoodList(eviction.list)'
      BY <1>0, <1>p, <2>1, <2>3 DEF GoodList
    <3>2. \A p \in Patterns, t \in Tables : ~Dropped(p, t) /\ ~Dropped(p, t)'
      BY <1>0, <2>1, <2>3 DEF Dropped, Dropping
    <3> QED
      BY <1>0, <1>p, <2>1, <2>3, <3>1, <3>2, EvictionMoves
  <2> QED
    BY <2>1, <2>2, <2>3
<1>9. ASSUME NEW t \in Tables, NEW next, DropOne(t, next),
             (t = "accounts" /\ next = CAP_TABLE) \/ (t = CAP_TABLE /\ next = "mark")
      PROVE  PairInv'
  <2> DEFINE q == Head(eviction.list)
  <2>1. /\ eviction.pc = t /\ rows' = rows /\ indexes' = [indexes EXCEPT ![t] = @ \ {q}]
        /\ eviction' = [eviction EXCEPT !.pc = next] /\ eviction.pc \in Working
    BY <1>0, <1>f, <1>9 DEF DropOne
  <2>2. eviction'.pc = next /\ eviction'.list = eviction.list
    BY <1>0, <2>1 DEF EvictionShape
  <2>3. /\ GoodList(eviction.list) /\ eviction.list # <<>>
        /\ q \in Patterns /\ rows[q].status = "created"
    BY <1>0, <1>p, <2>1, RestOfList DEF GoodList
  <2>4. GoodList(eviction.list)'
    BY <2>1, <2>2, <2>3 DEF GoodList
  <2>5. \A p \in Patterns, s \in Tables :
          /\ Dropped(p, s) <=> p = q /\ t = CAP_TABLE /\ s = "accounts"
          /\ Dropped(p, s)' <=> p = q /\ (t = CAP_TABLE \/ s = "accounts")
    BY <1>0, <1>9, <2>1, <2>2 DEF Dropped, Dropping
  <2>6. \A s \in Tables : ~Built(q, s)
    BY <1>0, <2>3 DEF PairInv, Built, Building
  <2> HIDE DEF q
  <2>7. \A p \in Patterns, s \in Tables : p \in indexes'[s] <=> p \in indexes[s] /\ ~(p = q /\ s = t)
    BY <1>0, <2>1
  <2>8. \A p \in Patterns, s \in Tables :
          p \in indexes'[s] <=> (rows'[p].status = "created" /\ ~Dropped(p, s)') \/ Built(p, s)
    BY <1>0, <1>p, <2>1, <2>3, <2>5, <2>6, <2>7
  <2> QED
    BY <1>0, <1>9, <2>1, <2>2, <2>3, <2>4, <2>8, EvictionMoves
<1>10. CASE MarkDropped
  <2> DEFINE q == Head(eviction.list)
             l == Tail(eviction.list)
  <2>1. /\ eviction.pc = "mark" /\ indexes' = indexes
        /\ \/ rows' = [rows EXCEPT ![q] = MarkRejected(@)]
           \/ rows' = [rows EXCEPT ![q] = MarkEvicted(@)]
        /\ eviction'.pc \in {"regress", "trim"} /\ eviction'.list = l
    BY <1>f, <1>10 DEF MarkDropped, NextDrop
  <2>2. /\ GoodList(eviction.list) /\ eviction.list # <<>>
    BY <1>0, <1>p, <2>1
  <2>3. /\ q \in Patterns /\ rows[q].status = "created" /\ l \in Seq(Patterns) /\ IsInjective(l)
        /\ \A i \in DOMAIN l : l[i] \in Patterns /\ l[i] # q /\ rows[l[i]].status = "created"
    BY <2>2, RestOfList, LenProperties, ElementOfSeq DEF GoodList
  <2>4. \A r \in Row : MarkRejected(r).status = "rejected" /\ MarkEvicted(r).status = "evicted"
    BY DEF MarkRejected, MarkEvicted, Row
  <2>5. \A p \in Patterns, s \in Tables : (Dropped(p, s) <=> p = q) /\ ~Dropped(p, s)'
    BY <1>0, <2>1 DEF Dropped, Dropping
  <2>6. \A s \in Tables : ~Built(q, s)
    BY <1>0, <2>3 DEF PairInv, Built, Building
  <2> HIDE DEF q, l
  <2>7. /\ \A p \in Patterns : p # q => rows'[p].status = rows[p].status
        /\ rows'[q].status \in {"rejected", "evicted"}
    BY <1>0, <2>1, <2>3, <2>4
  <2>8. GoodList(eviction.list)'
    BY <2>1, <2>3, <2>7 DEF GoodList
  <2> QED
    BY <1>0, <1>p, <2>1, <2>3, <2>5, <2>6, <2>7, <2>8, EvictionMoves
<1> QED
  BY <1>0, <1>4, <1>5, <1>6, <1>7, <1>8, <1>9, <1>10 DEF Eviction

\* Requests, time and score rolls never make or unmake a created pattern, and demand turns a
\* candidate into nothing else (record_demand).
LEMMA OthersPairs ==
  ASSUME TrackerType, CreationShape, BudgetInv, PairInv, Client \/ Ingest \/ Environment,
         scene' = scene, Faultless' => Faultless
  PROVE  PairInv'
<1> SUFFICES ASSUME Faultless' PROVE PairInv'
  BY DEF PairInv
<1>0. rows \in [Patterns -> Row] /\ jobs \subseteq Job
  BY DEF TrackerType
<1>1. ASSUME UNCHANGED <<rows, indexes, creation, eviction>> PROVE PairInv'
  BY <1>1, PairsKept DEF StatusKept
<1>2. ASSUME NEW p \in Patterns, NEW r \in Row, rows' = [rows EXCEPT ![p] = r],
             \/ r.status = rows[p].status
             \/ rows[p].status \in {"none", "evicted"} /\ r.status = "candidate",
             UNCHANGED <<indexes, creation, eviction>>
      PROVE  PairInv'
  <2>1. StatusKept
    BY <1>0, <1>2 DEF StatusKept
  <2> QED
    BY <1>2, <2>1, PairsKept
<1>3. CASE Client
  BY <1>1, <1>3 DEF Client, StartFlush, SendBatch, RequeueEntries, dbVars
<1>4. CASE Ingest
  <2>1. ASSUME NEW j \in jobs, NEW p \in Patterns, ApplyObservation(j, p) PROVE PairInv'
    <3>1. /\ rows' = [rows EXCEPT ![p] = RecordDemand(@, j.obs[p])] /\ p \in DOMAIN j.obs
          /\ UNCHANGED <<indexes, creation, eviction>>
      BY <2>1 DEF ApplyObservation
    <3>2. j.obs[p] \in Obs /\ rows[p] \in Row
      BY <1>0, <2>1, <3>1, ObsMapIs DEF Job
    <3> DEFINE r == RecordDemand(rows[p], j.obs[p])
    <3>3. r \in Row /\ r.status = IF rows[p].status \in {"none", "evicted"} THEN "candidate" ELSE rows[p].status
      <4>1. \A q \in Row : \A o : RecordDemand(q, o).status = IF q.status \in {"none", "evicted"} THEN "candidate" ELSE q.status
        BY DEF RecordDemand, Row
      <4> QED
        BY <3>2, <4>1, RecordDemandType
    <3>4. rows' = [rows EXCEPT ![p] = r]
      BY <1>0, <3>1
    <3> HIDE DEF r
    <3> QED
      BY <1>2, <3>1, <3>3, <3>4
  <2> QED
    BY <1>1, <1>4, <2>1 DEF Ingest, BatchApplied, dbVars
<1>5. CASE Environment
  <2>1. CASE RollAll
    <3>1. \A r \in Row : RollScores(r).status = r.status
      BY DEF RollScores, Row
    <3>2. StatusKept /\ UNCHANGED <<indexes, creation, eviction>>
      BY <1>0, <2>1, <3>1 DEF RollAll, StatusKept
    <3> QED
      BY <3>2, PairsKept
  <2>2. ASSUME NEW p \in Patterns, NEW f \in Flags, Elapse(p, f) PROVE PairInv'
    <3>1. rows' = [rows EXCEPT ![p].flags = @ \cup {f}] /\ UNCHANGED <<indexes, creation, eviction>>
      BY <2>2 DEF Elapse
    <3>2. rows' = [rows EXCEPT ![p] = [rows[p] EXCEPT !.flags = @ \cup {f}]]
      BY <1>0, <3>1
    <3>3. /\ [rows[p] EXCEPT !.flags = @ \cup {f}] \in Row
          /\ [rows[p] EXCEPT !.flags = @ \cup {f}].status = rows[p].status
      BY <1>0 DEF Row
    <3> DEFINE r == [rows[p] EXCEPT !.flags = @ \cup {f}]
    <3>4. rows' = [rows EXCEPT ![p] = r] /\ r \in Row /\ r.status = rows[p].status
      BY <3>2, <3>3
    <3> HIDE DEF r
    <3> QED
      BY <1>2, <3>1, <3>4
  <2>3. CASE Restart
    <3>1. Spend("restarts") /\ "restarts" \in FaultBudgets
      BY <2>3 DEF Restart, FaultBudgets
    <3> QED
      BY <3>1, FailureIsFault
  <2> QED
    BY <1>1, <1>5, <2>1, <2>2, <2>3
       DEF Environment, BufferQuery, SendTimeout, BatchFailed, IndexerHealth, dbVars
<1> QED
  BY <1>3, <1>4, <1>5

\* While no statement failed, a pattern is "created" exactly when both indexes of its pair exist,
\* whatever creation, guard, trim and reviving demand interleave (create_pair, drop_pair,
\* record_demand).
THEOREM PairFollowsStatus == Spec => []PairMatchesStatus
<1> DEFINE Inv == TrackerInv /\ EvictionShape /\ TrimInv /\ BudgetInv /\ PairInv
<1>1. Init => Inv
  <2> SUFFICES ASSUME Init PROVE Inv
    OBVIOUS
  <2>1. TrackerInv /\ EvictionShape /\ TrimInv
    BY CapInit, TrackerInit, DemandInit, TrimInit DEF TrackerInv
  <2>2. creation.pc = "sleep" /\ eviction.pc = "sleep"
        /\ indexes = [t \in Tables |-> {}] /\ rows = [p \in Patterns |-> NewRow]
    BY DEF Init, Idle
  <2>3. BudgetInv
    BY TrackerAssumption DEF Init, BudgetInv
  <2>4. \A p \in Patterns, t \in Tables : p \notin indexes[t] /\ rows[p].status = "none" /\ ~Built(p, t)
    BY <2>2 DEF NewRow, Built, Building, Tables
  <2>5. PairInv
    BY <2>2, <2>4 DEF PairInv, Working, ListStates, Tables, CAP_TABLE
  <2> QED
    BY <2>1, <2>3, <2>5
<1>2. Inv /\ [Next]_vars => Inv'
  <2> SUFFICES ASSUME Inv, [Next]_vars PROVE Inv'
    OBVIOUS
  <2>1. TrackerInv' /\ EvictionShape' /\ TrimInv'
    BY CapStep, ShapeStep, TrackerStep, TrimStep DEF TrackerInv
  <2>2. BudgetInv' /\ (Faultless' => Faultless) /\ scene' = scene
    BY BudgetStep, StepSpends DEF TrackerInv
  <2>3. PairInv'
    <3>1. CASE UNCHANGED vars
      BY <2>2, <3>1, PairsKept DEF vars, StatusKept, TrackerInv
    <3>2. CASE Creation
      <4>1. UNCHANGED eviction
        BY <3>2, CreationQuiet
      <4> QED
        BY <2>2, <3>2, <4>1, CreationPairs DEF TrackerInv
    <3>3. CASE Eviction
      <4>1. UNCHANGED creation
        BY <3>3, EvictionQuiet
      <4> QED
        BY <2>2, <3>3, <4>1, EvictionPairs DEF TrackerInv
    <3>4. CASE Client \/ Ingest \/ Environment
      BY <2>2, <3>4, OthersPairs DEF TrackerInv
    <3> QED
      BY <3>1, <3>2, <3>3, <3>4 DEF Next
  <2> QED
    BY <2>1, <2>2, <2>3
<1>3. Inv => PairMatchesStatus
  <2> SUFFICES ASSUME Inv, Faultless, NEW p \in Patterns, ~Building(p), ~Dropping(p)
               PROVE  IF rows[p].status = "created" THEN Pair(p) ELSE \A t \in Tables : p \notin indexes[t]
    BY DEF PairMatchesStatus
  <2>1. \A t \in Tables : ~Dropped(p, t) /\ ~Built(p, t)
    BY DEF Dropped, Built
  <2>2. \A t \in Tables : p \in indexes[t] <=> rows[p].status = "created"
    BY <2>1 DEF PairInv
  <2> QED
    BY <2>2 DEF Pair
<1> QED
  BY <1>1, <1>2, <1>3, PTL DEF Spec
=============================================================================
