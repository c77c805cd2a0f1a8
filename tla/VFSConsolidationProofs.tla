----------------------- MODULE VFSConsolidationProofs -----------------------
(***************************************************************************)
(* Proofs about VFSConsolidation for every set of paths, contents, claims  *)
(* and cycles: type correctness and the inductive invariant, what an       *)
(* effect may write and leave, and that the step-by-step flush, discard    *)
(* and recovery implement AtomicConsolidation.                             *)
(***************************************************************************)
EXTENDS VFSConsolidation, TLAPS

\* Slot assignments are closed under the operators that build them.
LEMMA EmptyIsSlots == Empty \in Slots
  BY DEF Empty, Slots

LEMMA OnlyIsSlots ==
  ASSUME NEW f \in Slots, NEW S
  PROVE  Only(f, S) \in Slots
  BY DEF Slots, Only

LEMMA OverIsSlots ==
  ASSUME NEW f \in Slots, NEW h \in Slots
  PROVE  Over(f, h) \in Slots
  BY DEF Slots, Over

\* A workspace assigns a file to every path, so it is a slot assignment.
LEMMA FilesAreSlots == [Paths -> File] \subseteq Slots
  BY DEF Slots

\* Directories to create are never the root.
LEMMA MissingIsDirs ==
  ASSUME NEW S \in SUBSET Paths
  PROVE  Missing(S) \subseteq Dirs
  BY ValuesAssumption DEF Missing

\* Manifests are never confused with the absence of one.
LEMMA NullIsNoManifest == Null \notin Manifest
  BY NullAssumption DEF Manifest

\* Appending an entry for a claim or a cycle keeps the journal's type.
LEMMA LogType ==
  ASSUME TypeOK, NEW o \in {"flushed", "discarded", "restored", "interrupted"},
         NEW s \in Agents \cup Cycles, Log(o, s)
  PROVE  journal' \in Seq(Entry)
  <1>1. [outcome |-> o, subject |-> s] \in Entry
    BY DEF Entry
  <1> QED
    BY <1>1 DEF Log, TypeOK

\* An operation that runs has a manifest, and that manifest has its type.
LEMMA RunningManifest ==
  ASSUME IInv, op # Idle
  PROVE  /\ manifest \in Manifest
         /\ manifest # Null
         /\ Set(manifest.before) = Set(manifest.after)
  BY NullIsNoManifest DEF IInv, TypeOK, PlanInv, ManifestInv

-----------------------------------------------------------------------------
(* Type correctness.  The file a step writes is an item's content, never    *)
(* Unset, because the step's path is an item: TypeOK alone is not enough.   *)

LEMMA InitType == Init => TypeOK
  <1> SUFFICES ASSUME Init PROVE TypeOK
    OBVIOUS
  <1>1. Empty \in Slots
    BY EmptyIsSlots
  <1>2. dirs \subseteq Dirs
    BY ValuesAssumption DEF Init
  <1>3. journal \in Seq(Entry)
    BY DEF Init
  <1> QED
    BY <1>1, <1>2, <1>3 DEF Init, TypeOK, Idle

LEMMA StagingType == TypeOK /\ Staging => TypeOK'
  <1> SUFFICES ASSUME TypeOK, Staging PROVE TypeOK'
    OBVIOUS
  <1>1. ASSUME NEW k \in Agents, NEW S \in SUBSET Paths, Claim(k, S) PROVE TypeOK'
    <2>1. Only(disk, S) \in Slots
      BY OnlyIsSlots, FilesAreSlots DEF TypeOK
    <2> QED
      BY <1>1, <2>1 DEF TypeOK, Claim, cycles, tree
  <1>2. ASSUME NEW k \in Agents, NEW p \in Paths, NEW v \in File, Stage(k, p, v) PROVE TypeOK'
    <2>1. [work[k] EXCEPT ![p] = v] \in Slots
      BY <1>2 DEF TypeOK, Slots
    <2> QED
      BY <1>2, <2>1 DEF TypeOK, Stage, cycles, tree
  <1>3. ASSUME NEW k \in Agents, Drop(k) PROVE TypeOK'
    BY <1>3, EmptyIsSlots DEF TypeOK, Drop, cycles, tree
  <1> QED
    BY <1>1, <1>2, <1>3 DEF Staging

\* The target of a replacement is a file, whichever side of the manifest.
LEMMA TargetIsFile ==
  ASSUME IInv, NEW p \in Paths, op.at = p, op.phase \in {"write", "rename", "confirm"}
  PROVE  /\ manifest \in Manifest
         /\ manifest.before[p] \in File
         /\ manifest.after[p] \in File
  <1>1. op # Idle
    BY DEF Idle
  <1>2. p \in Touched(manifest)
    BY DEF IInv, StepInv
  <1>3. manifest \in Manifest /\ Set(manifest.before) = Set(manifest.after)
    BY <1>1, RunningManifest
  <1>4. p \in Set(manifest.before) /\ p \in Set(manifest.after)
    BY <1>2, <1>3 DEF Touched, Items
  <1> QED
    BY <1>3, <1>4 DEF Manifest, Slots, Set

\* Retaining a manifest's contents for a cycle keeps the cycle's types.
LEMMA RetainType ==
  ASSUME TypeOK, NEW k \in Cycles, manifest \in Manifest, Retain(k, manifest)
  PROVE  /\ found' \in [Cycles -> Slots]
         /\ left' \in [Cycles -> Slots]
         /\ madeDirs' \in [Cycles -> SUBSET Dirs]
         /\ lastAgent' \in [Cycles -> Agents \cup {Null}]
         /\ closed' \subseteq Cycles
  <1>1. Over(left[k], manifest.after) \in Slots
    BY OverIsSlots DEF TypeOK, Manifest
  <1>2. [p \in Paths |-> IF manifest.before[p] = Unset \/ found[k][p] # Unset
                         THEN found[k][p] ELSE manifest.before[p]] \in Slots
    BY DEF TypeOK, Manifest, Slots
  <1>3. manifest.author \in Agents /\ manifest.dirs \subseteq Dirs
    BY DEF Manifest
  <1>4. found' \in [Cycles -> Slots]
    BY <1>2 DEF Retain, TypeOK
  <1>5. left' \in [Cycles -> Slots]
    BY <1>1 DEF Retain, TypeOK
  <1> QED
    BY <1>3, <1>4, <1>5 DEF Retain, TypeOK

\* A consolidation starts by saving a manifest of its work.
LEMMA BeginSavesManifest ==
  ASSUME TypeOK, NEW k \in Agents, ConsolidateBegin(k)
  PROVE  manifest' \in Manifest
  <1>1. Only(disk, Set(work[k])) \in Slots
    BY OnlyIsSlots, FilesAreSlots DEF TypeOK
  <1>2. Missing(Set(work[k])) \subseteq Dirs
    BY MissingIsDirs DEF Set
  <1> QED
    BY <1>1, <1>2 DEF ConsolidateBegin, Manifest, TypeOK

LEMMA FlushType == IInv /\ Flush => TypeOK'
  <1> SUFFICES ASSUME IInv, Flush PROVE TypeOK'
    OBVIOUS
  <1>t. TypeOK
    BY DEF IInv
  <1>1. ASSUME NEW k \in Agents, ConsolidateBegin(k) PROVE TypeOK'
    <2>1. manifest' \in Manifest
      BY <1>t, <1>1, BeginSavesManifest
    <2>2. op' = [kind |-> "flush", phase |-> "dirs", at |-> 0, cycle |-> NoCycle]
      BY <1>1 DEF ConsolidateBegin, Idle
    <2> QED
      BY <1>t, <1>1, <2>1, <2>2 DEF ConsolidateBegin, TypeOK, tree, claims, cycles
  <1>2. ASSUME NEW d \in Dirs, CreateDir(d) PROVE TypeOK'
    BY <1>t, <1>2 DEF CreateDir, TypeOK, store
  <1>3. CASE DirsCreated
    BY <1>t, <1>3 DEF DirsCreated, TypeOK, store, tree
  <1>4. ASSUME NEW p \in Paths, MarkIntent(p) PROVE TypeOK'
    <2>1. manifest \in Manifest /\ p \in Nat
      BY <1>4, PathsAssumption, RunningManifest DEF MarkIntent, Flushing, Idle
    <2>2. [manifest EXCEPT !.intent = p] \in Manifest
      BY <2>1 DEF Manifest
    <2> QED
      BY <1>t, <1>4, <2>1, <2>2 DEF MarkIntent, TypeOK, tree, claims, cycles
  <1>5. ASSUME NEW p \in Paths, BaseChanged(p) PROVE TypeOK'
    BY <1>t, <1>5 DEF BaseChanged, Return, TypeOK, Idle, tree, store
  <1>6. ASSUME NEW p \in Paths, FlushTemp(p) PROVE TypeOK'
    BY <1>t, <1>6 DEF FlushTemp, WriteTemp, TypeOK, store
  <1>7. ASSUME NEW p \in Paths, FlushFile(p) PROVE TypeOK'
    <2>1. manifest.after[p] \in File
      BY <1>7, TargetIsFile DEF FlushFile, Replace
    <2> QED
      BY <1>t, <1>7, <2>1 DEF FlushFile, Replace, TypeOK, store
  <1>8. CASE VerifyFails
    BY <1>t, <1>8 DEF VerifyFails, Return, TypeOK, Idle, tree, store
  <1>9. CASE CommitFlush
    <2>1. manifest \in Manifest /\ manifest.author \in Agents
      BY <1>9, RunningManifest DEF CommitFlush, Idle, Manifest
    <2>2. journal' \in Seq(Entry)
      BY <1>t, <1>9, <2>1, LogType DEF CommitFlush
    <2>3. base' \in [Agents -> Slots] /\ work' \in [Agents -> Slots]
      BY <1>t, <1>9, EmptyIsSlots DEF CommitFlush, TypeOK
    <2>4. /\ found' \in [Cycles -> Slots]
          /\ left' \in [Cycles -> Slots]
          /\ madeDirs' \in [Cycles -> SUBSET Dirs]
          /\ lastAgent' \in [Cycles -> Agents \cup {Null}]
          /\ closed' \subseteq Cycles
      <3>1. CASE CycleOf[manifest.author] = NoCycle
        BY <1>t, <1>9, <3>1 DEF CommitFlush, TypeOK, cycles
      <3>2. CASE CycleOf[manifest.author] # NoCycle
        BY <1>t, <1>9, <2>1, <3>2, CyclesAssumption, RetainType DEF CommitFlush
      <3> QED
        BY <3>1, <3>2
    <2>5. manifest' = Null /\ hidden' = {} /\ op' = Idle /\ raced' = {}
          /\ UNCHANGED <<disk, dirs, temps, strays, archive, edits>>
      BY <1>9 DEF CommitFlush, Return, tree
    <2> QED
      BY <1>t, <2>2, <2>3, <2>4, <2>5 DEF TypeOK, Idle
  <1> QED
    BY <1>1, <1>2, <1>3, <1>4, <1>5, <1>6, <1>7, <1>8, <1>9 DEF Flush

\* A discard starts by saving the reverse of what its cycle retained.
LEMMA DiscardSavesManifest ==
  ASSUME TypeOK, StoreInv, NEW k \in Cycles, DiscardBegin(k)
  PROVE  manifest' \in Manifest
  <1>1. lastAgent[k] \in Agents
    BY DEF DiscardBegin, Discardable, StoreInv
  <1>2. left[k] \in Slots /\ found[k] \in Slots
    BY DEF TypeOK
  <1>3. Missing({p \in Set(found[k]) : found[k][p] # Absent}) \subseteq Dirs
    BY MissingIsDirs DEF Set
  <1> QED
    BY <1>1, <1>2, <1>3 DEF DiscardBegin, Manifest

LEMMA MaintenanceType == IInv /\ Maintenance => TypeOK'
  <1> SUFFICES ASSUME IInv, Maintenance PROVE TypeOK'
    OBVIOUS
  <1>t. TypeOK
    BY DEF IInv
  <1>1. ASSUME NEW k \in Cycles, CompleteCycle(k) PROVE TypeOK'
    BY <1>t, <1>1 DEF CompleteCycle, TypeOK, tree, claims
  <1>2. ASSUME NEW k \in Cycles, DiscardBegin(k) PROVE TypeOK'
    <2>1. manifest' \in Manifest
      BY <1>2, DiscardSavesManifest DEF IInv
    <2>2. op' = [kind |-> "discard", phase |-> "dirs", at |-> 0, cycle |-> k]
      BY <1>2 DEF DiscardBegin, Idle
    <2> QED
      BY <1>t, <1>2, <2>1, <2>2 DEF DiscardBegin, TypeOK, tree, claims, cycles
  <1>3. ASSUME NEW k \in Cycles, PreserveInterruptedCycle(k) PROVE TypeOK'
    <2>1. journal' \in Seq(Entry)
      BY <1>t, <1>3, LogType DEF PreserveInterruptedCycle
    <2> QED
      BY <1>t, <1>3, <2>1, EmptyIsSlots DEF PreserveInterruptedCycle, TypeOK, tree, claims
  <1>4. CASE DiscardCleanup
    BY <1>t, <1>4 DEF DiscardCleanup, TypeOK, store
  <1>5. CASE DiscardCleanupFails
    <2>1. op.cycle \in Cycles
      BY <1>5 DEF DiscardCleanupFails, IInv, PlanInv
    <2>2. journal' \in Seq(Entry)
      BY <1>t, <1>5, <2>1, LogType DEF DiscardCleanupFails
    <2>3. temps' \subseteq Paths /\ dirs' \subseteq Dirs
      BY <1>t, <1>5 DEF DiscardCleanupFails, TypeOK
    <2> QED
      BY <1>t, <1>5, <2>2, <2>3
      DEF DiscardCleanupFails, Return, TypeOK, Idle, claims, cycles
  <1>6. CASE CommitDiscard
    <2>1. op.cycle \in Cycles
      BY <1>6 DEF CommitDiscard, At, IInv, PlanInv
    <2>2. journal' \in Seq(Entry)
      BY <1>t, <1>6, <2>1, LogType DEF CommitDiscard
    <2> QED
      BY <1>t, <1>6, <2>1, <2>2, EmptyIsSlots
      DEF CommitDiscard, Return, TypeOK, Idle, tree, claims
  <1> QED
    BY <1>1, <1>2, <1>3, <1>4, <1>5, <1>6 DEF Maintenance

LEMMA RestoreType == IInv /\ (RecoverBegin \/ Restore) => TypeOK'
  <1> SUFFICES ASSUME IInv, RecoverBegin \/ Restore PROVE TypeOK'
    OBVIOUS
  <1>t. TypeOK
    BY DEF IInv
  <1>1. CASE RecoverBegin
    <2>1. op' = [kind |-> "recover", phase |-> "items", at |-> 0, cycle |-> NoCycle]
      BY <1>1 DEF RecoverBegin, Idle
    <2> QED
      BY <1>t, <1>1, <2>1 DEF RecoverBegin, TypeOK, tree, store
  <1>2. ASSUME NEW p \in Paths, RestoreSkip(p) PROVE TypeOK'
    BY <1>t, <1>2, PathsAssumption DEF RestoreSkip, TypeOK, tree, store
  <1>3. ASSUME NEW p \in Paths, RestoreStart(p) PROVE TypeOK'
    BY <1>t, <1>3, PathsAssumption DEF RestoreStart, TypeOK, store
  <1>4. ASSUME NEW p \in Paths, RestoreTemp(p) PROVE TypeOK'
    BY <1>t, <1>4 DEF RestoreTemp, WriteTemp, TypeOK, store
  <1>5. ASSUME NEW p \in Paths, RestoreFile(p) PROVE TypeOK'
    <2>1. manifest.before[p] \in File
      BY <1>5, TargetIsFile DEF RestoreFile, Replace
    <2> QED
      BY <1>t, <1>5, <2>1 DEF RestoreFile, Replace, TypeOK, store
  <1>6. CASE RestoreNoParent
    BY <1>t, <1>6 DEF RestoreNoParent, Return, TypeOK, Idle, tree, store
  <1>7. CASE RestoreConfirm
    BY <1>t, <1>7 DEF RestoreConfirm, Return, TypeOK, Idle, tree, store
  <1>8. CASE RemoveLeftovers
    <2>1. temps' \subseteq Paths /\ dirs' \subseteq Dirs
      BY <1>t, <1>8 DEF RemoveLeftovers, TypeOK
    <2> QED
      BY <1>t, <1>8, <2>1 DEF RemoveLeftovers, Return, TypeOK, Idle, store
  <1>9. CASE CommitRecover
    <2>1. manifest.author \in Agents
      BY <1>9, RunningManifest DEF CommitRecover, At, Idle, Manifest
    <2>2. journal' \in Seq(Entry)
      BY <1>t, <1>9, <2>1, LogType DEF CommitRecover
    <2> QED
      BY <1>t, <1>9, <2>2 DEF CommitRecover, Return, TypeOK, Idle, tree, claims, cycles
  <1> QED
    BY <1>1, <1>2, <1>3, <1>4, <1>5, <1>6, <1>7, <1>8, <1>9 DEF Restore

LEMMA TypeStep == IInv /\ [Next]_vars => TypeOK'
  <1> SUFFICES ASSUME IInv, [Next]_vars PROVE TypeOK'
    OBVIOUS
  <1>t. TypeOK
    BY DEF IInv
  <1>1. CASE PreserveInterruptedFlush
    <2>1. manifest.author \in Agents
      BY <1>t, <1>1, NullIsNoManifest DEF PreserveInterruptedFlush, Pending, TypeOK, Manifest
    <2>2. journal' \in Seq(Entry)
      BY <1>t, <1>1, <2>1, LogType DEF PreserveInterruptedFlush
    <2> QED
      BY <1>t, <1>1, <2>2 DEF PreserveInterruptedFlush, TypeOK, claims, cycles
  <1>2. CASE Stop
    BY <1>t, <1>2 DEF Stop, Return, TypeOK, Idle, tree, store
  <1>3. ASSUME NEW p \in Paths, NEW v \in File, UserWrite(p, v) PROVE TypeOK'
    <2>1. dirs' \subseteq Dirs
      BY <1>t, <1>3, ValuesAssumption DEF UserWrite, TypeOK
    <2> QED
      BY <1>t, <1>3, <2>1 DEF UserWrite, TypeOK, store
  <1>4. CASE UNCHANGED vars
    BY <1>t, <1>4 DEF TypeOK, vars
  <1> QED
    BY <1>t, <1>1, <1>2, <1>3, <1>4, StagingType, FlushType, MaintenanceType, RestoreType
    DEF Next, Environment

-----------------------------------------------------------------------------
(* The store: claims change by staging and by a commit, cycles by a commit  *)
(* or by closing.                                                           *)

LEMMA FewSave ==
  ASSUME [Next]_vars
  PROVE  \/ Staging
         \/ CommitFlush
         \/ CommitDiscard
         \/ \E k \in Cycles : CompleteCycle(k) \/ PreserveInterruptedCycle(k)
         \/ UNCHANGED <<claims, cycles>>
  <1>1. CASE Flush
    BY <1>1 DEF Flush, ConsolidateBegin, CreateDir, DirsCreated, MarkIntent, BaseChanged,
         FlushTemp, WriteTemp, FlushFile, Replace, VerifyFails, store, claims, cycles
  <1>2. CASE Maintenance
    BY <1>2 DEF Maintenance, DiscardBegin, DiscardCleanup, DiscardCleanupFails,
         store, claims, cycles
  <1>3. CASE RecoverBegin \/ Restore
    BY <1>3 DEF RecoverBegin, Restore, RestoreSkip, RestoreStart, RestoreTemp, WriteTemp,
         RestoreFile, Replace, RestoreNoParent, RestoreConfirm, RemoveLeftovers,
         CommitRecover, store, claims, cycles
  <1>4. CASE PreserveInterruptedFlush \/ Environment
    BY <1>4 DEF PreserveInterruptedFlush, Environment, Stop, UserWrite, store, claims, cycles
  <1>5. CASE UNCHANGED vars
    BY <1>5 DEF vars, claims, cycles
  <1> QED
    BY <1>1, <1>2, <1>3, <1>4, <1>5 DEF Next

LEMMA StoreStep == IInv /\ [Next]_vars => StoreInv'
  <1> SUFFICES ASSUME IInv, [Next]_vars PROVE StoreInv'
    OBVIOUS
  <1>t. TypeOK /\ StoreInv
    BY DEF IInv
  <1>1. CASE Staging
    <2>1. ASSUME NEW k \in Agents, NEW S \in SUBSET Paths, Claim(k, S) PROVE StoreInv'
      <3>1. \A p \in Paths : work[k][p] = Unset
        BY <1>t, <2>1 DEF Claim, Set, StoreInv
      <3> QED
        BY <1>t, <2>1, <3>1 DEF Claim, StoreInv, TypeOK, cycles
    <2>2. ASSUME NEW k \in Agents, NEW p \in Paths, NEW v \in File, Stage(k, p, v)
          PROVE StoreInv'
      BY <1>t, <2>2 DEF Stage, StoreInv, TypeOK, Slots, cycles
    <2>3. ASSUME NEW k \in Agents, Drop(k) PROVE StoreInv'
      BY <1>t, <2>3 DEF Drop, StoreInv, TypeOK, Empty, cycles
    <2> QED
      BY <1>1, <2>1, <2>2, <2>3 DEF Staging
  <1>2. CASE CommitFlush
    <2> DEFINE a == manifest.author
    <2>1. manifest \in Manifest /\ a \in Agents /\ Set(manifest.before) = Set(manifest.after)
      BY <1>2, RunningManifest DEF CommitFlush, Idle, Manifest
    <2>2. \A k \in Agents, p \in Paths : work'[k][p] # Unset => base'[k][p] # Unset
      BY <1>t, <1>2, <2>1 DEF CommitFlush, StoreInv, TypeOK, Empty
    <2>3. CASE CycleOf[a] = NoCycle
      BY <1>t, <1>2, <2>2, <2>3 DEF CommitFlush, StoreInv, cycles
    <2>4. CASE CycleOf[a] # NoCycle
      <3> DEFINE c == CycleOf[a]
      <3>1. c \in Cycles /\ Retain(c, manifest)
        BY <1>2, <2>1, <2>4, CyclesAssumption DEF CommitFlush
      <3>2. \A k \in Cycles \ {c} : found'[k] = found[k] /\ left'[k] = left[k]
                                    /\ lastAgent'[k] = lastAgent[k]
        BY <1>t, <3>1 DEF Retain, TypeOK
      <3>3. lastAgent'[c] \in Agents
        BY <1>t, <2>1, <3>1 DEF Retain, TypeOK
      <3>4. Set(found'[c]) = Set(found[c]) \cup Set(manifest.before)
        BY <1>t, <3>1 DEF Retain, TypeOK, Set
      <3>5. Set(left'[c]) = Set(left[c]) \cup Set(manifest.after)
        BY <1>t, <3>1 DEF Retain, TypeOK, Set, Over
      <3>6. Set(found'[c]) = Set(left'[c])
        BY <1>t, <2>1, <3>1, <3>4, <3>5 DEF StoreInv
      <3>7. \A k \in Cycles : Set(found'[k]) = Set(left'[k])
        BY <1>t, <3>2, <3>6 DEF StoreInv
      <3>8. \A k \in Cycles : Set(found'[k]) # {} => lastAgent'[k] \in Agents
        BY <1>t, <3>2, <3>3 DEF StoreInv
      <3> QED
        BY <2>2, <3>7, <3>8 DEF StoreInv, Set
    <2> QED
      BY <2>3, <2>4
  <1>3. ASSUME NEW k \in Cycles, PreserveInterruptedCycle(k) \/ CompleteCycle(k) PROVE StoreInv'
    <2>1. CASE PreserveInterruptedCycle(k)
      BY <1>t, <2>1 DEF PreserveInterruptedCycle, StoreInv, TypeOK, Set, Empty, claims
    <2>2. CASE CompleteCycle(k)
      BY <1>t, <2>2 DEF CompleteCycle, StoreInv, Set, claims
    <2> QED
      BY <1>3, <2>1, <2>2
  <1>4. CASE CommitDiscard
    <2>1. op.cycle \in Cycles
      BY <1>4 DEF CommitDiscard, At, IInv, PlanInv
    <2> QED
      BY <1>t, <1>4, <2>1 DEF CommitDiscard, StoreInv, TypeOK, Set, Empty, claims
  <1>5. CASE UNCHANGED <<claims, cycles>>
    BY <1>t, <1>5 DEF StoreInv, Set, claims, cycles
  <1> QED
    BY <1>1, <1>2, <1>3, <1>4, <1>5, FewSave

-----------------------------------------------------------------------------
(* The manifest: it names both contents of each item from the moment it is  *)
(* saved, and grows only in what it touched.                                *)

\* The content captured over a set of paths is set exactly there.
LEMMA OnlyIsSet ==
  ASSUME NEW f \in [Paths -> File], NEW S \in SUBSET Paths
  PROVE  Set(Only(f, S)) = S
  BY ValuesAssumption DEF Set, Only

LEMMA ManifestStep == IInv /\ [Next]_vars => ManifestInv'
  <1> SUFFICES ASSUME IInv, [Next]_vars PROVE ManifestInv'
    OBVIOUS
  <1>t. TypeOK /\ StoreInv /\ ManifestInv /\ PlanInv
    BY DEF IInv
  <1>1. ASSUME NEW k \in Agents, ConsolidateBegin(k) PROVE ManifestInv'
    <2>1. Set(manifest'.before) = Set(work[k]) /\ manifest'.after = work[k]
      <3>1. Set(work[k]) \in SUBSET Paths
        BY DEF Set
      <3>2. manifest'.before = Only(disk, Set(work[k])) /\ manifest'.after = work[k]
        BY <1>1 DEF ConsolidateBegin
      <3> QED
        BY <1>t, <3>1, <3>2, OnlyIsSet DEF TypeOK
    <2>2. hidden' = {} /\ manifest' # Null
      BY <1>t, <1>1, BeginSavesManifest, NullIsNoManifest
      DEF ConsolidateBegin, Ready, ManifestInv
    <2> QED
      BY <2>1, <2>2 DEF ManifestInv, Set
  <1>2. ASSUME NEW k \in Cycles, DiscardBegin(k) PROVE ManifestInv'
    <2>1. manifest'.before = left[k] /\ manifest'.after = found[k]
      BY <1>2 DEF DiscardBegin
    <2>2. hidden' = {}
      BY <1>t, <1>2 DEF DiscardBegin, Discardable, Ready, ManifestInv
    <2> QED
      BY <1>t, <2>1, <2>2 DEF ManifestInv, StoreInv, Set
  <1>3. ASSUME NEW p \in Paths, MarkIntent(p) PROVE ManifestInv'
    <2>1. manifest \in Manifest /\ manifest # Null
      BY <1>3, RunningManifest DEF MarkIntent, Flushing, Idle
    <2>2. manifest' = [manifest EXCEPT !.intent = p] /\ hidden' = hidden /\ p > manifest.intent
      BY <1>3 DEF MarkIntent, IsNext
    <2>3. manifest'.before = manifest.before /\ manifest'.after = manifest.after
          /\ manifest'.intent = p
      BY <2>1, <2>2 DEF Manifest
    <2>4. Touched(manifest) \subseteq Touched(manifest)'
      BY <2>1, <2>2, <2>3, PathsAssumption DEF Touched, Items, Set, Manifest
    <2>5. Set(manifest'.before) = Set(manifest'.after) /\ hidden' \subseteq Touched(manifest)'
      BY <1>t, <2>1, <2>2, <2>3, <2>4 DEF ManifestInv, Set
    <2>6. manifest' # Null
      BY <2>1, <2>2, NullIsNoManifest, PathsAssumption DEF Manifest
    <2> QED
      BY <2>5, <2>6 DEF ManifestInv, Set
  <1>4. CASE CommitFlush \/ CommitDiscard \/ CommitRecover \/ PreserveInterruptedFlush
    BY <1>4 DEF CommitFlush, CommitDiscard, CommitRecover, PreserveInterruptedFlush, ManifestInv
  <1>5. ASSUME NEW p \in Paths, NEW v \in File, UserWrite(p, v) PROVE ManifestInv'
    BY <1>t, <1>5 DEF UserWrite, ManifestInv, Touched, Items, Set, store
  <1>6. CASE UNCHANGED <<manifest, hidden>>
    BY <1>t, <1>6 DEF ManifestInv, Touched, Items, Set
  <1>7. \/ \E k \in Agents : ConsolidateBegin(k)
        \/ \E k \in Cycles : DiscardBegin(k)
        \/ \E p \in Paths : MarkIntent(p)
        \/ CommitFlush \/ CommitDiscard \/ CommitRecover \/ PreserveInterruptedFlush
        \/ \E p \in Paths, v \in File : UserWrite(p, v)
        \/ UNCHANGED <<manifest, hidden>>
    <2>1. CASE Staging
      BY <2>1 DEF Staging, Claim, Stage, Drop
    <2>2. CASE Flush
      BY <2>2 DEF Flush, CreateDir, DirsCreated, BaseChanged, FlushTemp, WriteTemp,
           FlushFile, Replace, VerifyFails, store
    <2>3. CASE Maintenance
      BY <2>3 DEF Maintenance, CompleteCycle, PreserveInterruptedCycle, DiscardCleanup,
           DiscardCleanupFails, store
    <2>4. CASE RecoverBegin \/ Restore
      BY <2>4 DEF RecoverBegin, Restore, RestoreSkip, RestoreStart, RestoreTemp, WriteTemp,
           RestoreFile, Replace, RestoreNoParent, RestoreConfirm, RemoveLeftovers, store
    <2>5. CASE Environment \/ UNCHANGED vars
      BY <2>5 DEF Environment, Stop, store, vars
    <2> QED
      BY <2>1, <2>2, <2>3, <2>4, <2>5 DEF Next
  <1> QED
    BY <1>1, <1>2, <1>3, <1>4, <1>5, <1>6, <1>7

-----------------------------------------------------------------------------
(* The plan: what a running operation applies is fixed when it starts,      *)
(* because nothing else changes the store while it holds the lock.          *)

\* A step starts an operation, ends one, or goes on with its kind and plan.
LEMMA StepShapes ==
  ASSUME TypeOK, [Next]_vars
  PROVE  \/ op' = Idle
         \/ \E k \in Agents : ConsolidateBegin(k)
         \/ \E k \in Cycles : DiscardBegin(k)
         \/ RecoverBegin
         \/ /\ op # Idle /\ op'.kind = op.kind /\ op'.cycle = op.cycle
            /\ UNCHANGED <<claims, cycles>>
            /\ manifest' = manifest \/ \E p \in Paths : MarkIntent(p)
  <1>1. CASE Staging
    BY <1>1 DEF Staging, Claim, Stage, Drop, Ready
  <1>2. CASE Flush
    <2>1. ASSUME NEW d \in Dirs, CreateDir(d)
          PROVE op # Idle /\ op' = op /\ UNCHANGED <<claims, cycles, manifest>>
      BY <2>1 DEF CreateDir, Flushing, Idle, store, claims, cycles
    <2>2. CASE DirsCreated
      BY <2>2 DEF TypeOK, DirsCreated, Flushing, Idle, store, claims, cycles
    <2>3. ASSUME NEW p \in Paths, MarkIntent(p)
          PROVE op # Idle /\ op'.kind = op.kind /\ op'.cycle = op.cycle
                /\ UNCHANGED <<claims, cycles>>
      BY <2>3 DEF TypeOK, MarkIntent, Flushing, Idle, claims, cycles
    <2>4. ASSUME NEW p \in Paths, FlushTemp(p) \/ FlushFile(p)
          PROVE op # Idle /\ op'.kind = op.kind /\ op'.cycle = op.cycle
                /\ UNCHANGED <<claims, cycles, manifest>>
      BY <2>4 DEF TypeOK, FlushTemp, WriteTemp, FlushFile, Replace, Idle, store, claims, cycles
    <2>5. ASSUME NEW p \in Paths, BaseChanged(p) PROVE op' = Idle
      BY <2>5 DEF BaseChanged, Return
    <2>6. VerifyFails \/ CommitFlush => op' = Idle
      BY DEF VerifyFails, CommitFlush, Return
    <2> QED
      BY <1>2, <2>1, <2>2, <2>3, <2>4, <2>5, <2>6 DEF Flush
  <1>3. CASE Maintenance
    <2>1. ASSUME NEW k \in Cycles, CompleteCycle(k) \/ PreserveInterruptedCycle(k)
          PROVE op' = Idle
      BY <2>1 DEF CompleteCycle, PreserveInterruptedCycle, Discardable, Ready
    <2>2. CASE DiscardCleanup
      BY <2>2 DEF TypeOK, DiscardCleanup, Idle, store, claims, cycles
    <2>3. DiscardCleanupFails \/ CommitDiscard => op' = Idle
      BY DEF DiscardCleanupFails, CommitDiscard, Return
    <2> QED
      BY <1>3, <2>1, <2>2, <2>3 DEF Maintenance
  <1>4. CASE Restore
    <2>1. ASSUME NEW p \in Paths, RestoreSkip(p) \/ RestoreStart(p)
          PROVE op # Idle /\ op'.kind = op.kind /\ op'.cycle = op.cycle
                /\ UNCHANGED <<claims, cycles, manifest>>
      <3>1. op # Idle /\ UNCHANGED store
        BY <2>1 DEF RestoreSkip, RestoreStart, RestoreNext, At, Idle, store
      <3>2. op' = [op EXCEPT !.at = p] \/ op' = [op EXCEPT !.phase = "write", !.at = p]
        BY <2>1 DEF RestoreSkip, RestoreStart
      <3> QED
        BY <3>1, <3>2 DEF TypeOK, store, claims, cycles
    <2>2. ASSUME NEW p \in Paths, RestoreTemp(p) \/ RestoreFile(p)
          PROVE op # Idle /\ op'.kind = op.kind /\ op'.cycle = op.cycle
                /\ UNCHANGED <<claims, cycles, manifest>>
      <3>1. op # Idle /\ UNCHANGED store /\ \E f : op' = [op EXCEPT !.phase = f]
        BY <2>2 DEF RestoreTemp, WriteTemp, RestoreFile, Replace, Idle
      <3> QED
        BY <3>1 DEF TypeOK, store, claims, cycles
    <2>3. RestoreNoParent \/ CommitRecover => op' = Idle
      BY DEF RestoreNoParent, CommitRecover, Return
    <2>4. CASE RestoreConfirm
      BY <2>4 DEF TypeOK, RestoreConfirm, Return, At, Idle, store, claims, cycles
    <2>5. CASE RemoveLeftovers
      BY <2>5 DEF TypeOK, RemoveLeftovers, Return, At, Idle, store, claims, cycles
    <2> QED
      BY <1>4, <2>1, <2>2, <2>3, <2>4, <2>5 DEF Restore
  <1>5. CASE Environment \/ PreserveInterruptedFlush \/ UNCHANGED vars
    BY <1>5 DEF Environment, Stop, UserWrite, PreserveInterruptedFlush, Pending, Return,
         vars, store, claims, cycles
  <1> QED
    BY <1>1, <1>2, <1>3, <1>4, <1>5 DEF Next

LEMMA PlanStep == IInv /\ [Next]_vars => PlanInv'
  <1> SUFFICES ASSUME IInv, [Next]_vars PROVE PlanInv'
    OBVIOUS
  <1>t. TypeOK /\ StoreInv /\ PlanInv
    BY DEF IInv
  <1>1. CASE op' = Idle
    BY <1>1 DEF PlanInv, Idle
  <1>2. ASSUME NEW k \in Agents, ConsolidateBegin(k) PROVE PlanInv'
    <2>1. op'.kind = "flush" /\ manifest' # Null
      BY <1>t, <1>2, BeginSavesManifest, NullIsNoManifest DEF ConsolidateBegin, Idle
    <2>2. /\ manifest'.author = k /\ manifest'.after = work[k]
          /\ manifest'.before = Only(disk, Set(work[k]))
          /\ Set(work[k]) # {} /\ CycleOf[k] \notin closed
          /\ UNCHANGED <<base, work, closed>>
      BY <1>2 DEF ConsolidateBegin, CycleActive, claims, cycles
    <2>3. Only(disk, Set(work[k])) = Only(base[k], Set(work[k]))
      BY <1>t, <1>2 DEF ConsolidateBegin, StoreInv, Only, Set
    <2> QED
      BY <2>1, <2>2, <2>3 DEF PlanInv, Set, Only
  <1>3. ASSUME NEW k \in Cycles, DiscardBegin(k) PROVE PlanInv'
    <2>1. /\ op'.kind = "discard" /\ op'.cycle = k
          /\ manifest'.after = found[k] /\ manifest'.before = left[k]
          /\ Set(found[k]) # {} /\ k \in Cycles \ closed
          /\ UNCHANGED <<found, left, closed>>
      BY <1>3 DEF DiscardBegin, Discardable, Idle, cycles
    <2>2. manifest' # Null
      <3>1. manifest' \in Manifest
        BY <1>t, <1>3, DiscardSavesManifest
      <3> QED
        BY <3>1, NullIsNoManifest
    <2> QED
      BY <2>1, <2>2 DEF PlanInv, Set
  <1>4. CASE RecoverBegin
    BY <1>4 DEF RecoverBegin, Pending, PlanInv, Idle, store
  <1>5. CASE /\ op # Idle /\ op'.kind = op.kind /\ op'.cycle = op.cycle
             /\ UNCHANGED <<claims, cycles>>
             /\ manifest' = manifest \/ \E p \in Paths : MarkIntent(p)
    <2>1. manifest \in Manifest /\ manifest # Null
      BY <1>5, RunningManifest
    <2>2. manifest'.author = manifest.author /\ manifest'.after = manifest.after
          /\ manifest'.before = manifest.before /\ manifest' # Null
      <3>1. ASSUME NEW p \in Paths, MarkIntent(p)
            PROVE  manifest' = [manifest EXCEPT !.intent = p] /\ manifest' \in Manifest
        BY <2>1, <3>1, PathsAssumption DEF MarkIntent, Manifest
      <3> QED
        BY <1>5, <2>1, <3>1, NullIsNoManifest DEF Manifest
    <2>3. op'.kind # "idle"
      BY <1>t, <1>5 DEF PlanInv
    <2> QED
      BY <1>t, <1>5, <2>2, <2>3 DEF PlanInv, Set, Only, claims, cycles
  <1> QED
    BY <1>t, <1>1, <1>2, <1>3, <1>4, <1>5, StepShapes

-----------------------------------------------------------------------------
(* The steps: a replacement works on a touched path, and recovery leaves    *)
(* the old content behind it wherever the user did not write.               *)

LEMMA FlushSteps == IInv /\ Flush => StepInv'
  <1> SUFFICES ASSUME IInv, Flush PROVE StepInv'
    OBVIOUS
  <1>t. TypeOK /\ StepInv
    BY DEF IInv
  <1>0. CASE op' = Idle
    BY <1>0 DEF StepInv, At, Idle
  <1>1. ASSUME NEW k \in Agents, ConsolidateBegin(k) PROVE StepInv'
    <2>1. op'.kind = "flush" /\ op'.phase = "dirs"
      BY <1>1 DEF ConsolidateBegin, Idle
    <2> QED
      BY <2>1 DEF StepInv, At
  <1>2. ASSUME NEW d \in Dirs, CreateDir(d) PROVE StepInv'
    <2>1. op'.kind \in {"flush", "discard"} /\ op'.phase = "dirs"
      BY <1>2 DEF CreateDir, Flushing
    <2> QED
      BY <2>1 DEF StepInv, At
  <1>3. CASE DirsCreated
    <2>1. op'.kind \in {"flush", "discard"} /\ op'.phase = "items"
      BY <1>t, <1>3 DEF DirsCreated, Flushing, TypeOK
    <2> QED
      BY <2>1 DEF StepInv, At
  <1>4. ASSUME NEW p \in Paths, MarkIntent(p) PROVE StepInv'
    <2>1. op'.kind \in {"flush", "discard"} /\ op'.phase = "write" /\ op'.at = p
      BY <1>t, <1>4 DEF MarkIntent, Flushing, TypeOK
    <2>2. manifest \in Manifest /\ manifest' = [manifest EXCEPT !.intent = p]
      BY <1>4, RunningManifest DEF MarkIntent, Flushing, Idle
    <2>3. p \in Touched(manifest)'
      BY <1>4, <2>2, PathsAssumption DEF MarkIntent, IsNext, Touched, Items, Set, Manifest
    <2> QED
      BY <2>1, <2>3 DEF StepInv, At
  <1>5. ASSUME NEW p \in Paths, FlushTemp(p) PROVE StepInv'
    <2>1. /\ op'.kind \in {"flush", "discard"} /\ op'.phase = "rename" /\ op'.at = op.at
          /\ op.phase = "write" /\ manifest' = manifest
      BY <1>t, <1>5 DEF FlushTemp, WriteTemp, TypeOK, store
    <2> QED
      BY <1>t, <2>1 DEF StepInv, At, Touched, Items, Set
  <1>6. ASSUME NEW p \in Paths, FlushFile(p) PROVE StepInv'
    <2>1. op'.kind \in {"flush", "discard"} /\ op'.phase = "items"
      BY <1>t, <1>6 DEF FlushFile, Replace, TypeOK
    <2> QED
      BY <2>1 DEF StepInv, At
  <1> QED
    BY <1>0, <1>1, <1>2, <1>3, <1>4, <1>5, <1>6
    DEF Flush, BaseChanged, VerifyFails, CommitFlush, Return

LEMMA MaintenanceSteps == IInv /\ Maintenance => StepInv'
  <1> SUFFICES ASSUME IInv, Maintenance PROVE StepInv'
    OBVIOUS
  <1>t. TypeOK /\ StepInv
    BY DEF IInv
  <1>0. CASE op' = Idle
    BY <1>0 DEF StepInv, At, Idle
  <1>1. ASSUME NEW k \in Cycles, DiscardBegin(k) PROVE StepInv'
    <2>1. op'.kind = "discard" /\ op'.phase = "dirs"
      BY <1>1 DEF DiscardBegin, Idle
    <2> QED
      BY <2>1 DEF StepInv, At
  <1>2. CASE DiscardCleanup
    <2>1. /\ op'.kind = "discard" /\ op'.phase = "commit"
          /\ UNCHANGED <<disk, manifest, hidden>>
      BY <1>t, <1>2 DEF DiscardCleanup, TypeOK, store
    <2>2. Touched(manifest) = Items(manifest)
      BY <1>2 DEF DiscardCleanup, Verified, Done, Touched
    <2>3. \A p \in Items(manifest) : disk[p] = manifest.after[p]
      BY <1>2 DEF DiscardCleanup, Verified
    <2> QED
      BY <2>1, <2>2, <2>3 DEF StepInv, At, Touched, Items, Set
  <1> QED
    BY <1>0, <1>1, <1>2 DEF Maintenance, CompleteCycle, PreserveInterruptedCycle,
       Discardable, Ready, DiscardCleanupFails, CommitDiscard, Return

\* What recovery has settled: everything before its position.
LEMMA NextSettles ==
  ASSUME NEW p \in Paths, NEW S \in SUBSET Paths, NEW n \in Nat, IsNext(p, S, n)
  PROVE  /\ p \in S
         /\ \A q \in S : q < p => q <= n
  BY PathsAssumption DEF IsNext

LEMMA RestoreSteps == IInv /\ (RecoverBegin \/ Restore) => StepInv'
  <1> SUFFICES ASSUME IInv, RecoverBegin \/ Restore PROVE StepInv'
    OBVIOUS
  <1>t. TypeOK /\ StepInv
    BY DEF IInv
  <1>n. Touched(manifest) \subseteq Paths /\ Touched(manifest) \subseteq Nat \ {0}
    BY PathsAssumption DEF Touched, Items, Set
  <1>0. CASE op' = Idle
    BY <1>0 DEF StepInv, At, Idle
  <1>1. CASE RecoverBegin
    <2>1. op'.kind = "recover" /\ op'.phase = "items" /\ op'.at = 0 /\ manifest' = manifest
      BY <1>1 DEF RecoverBegin, Idle, store
    <2>2. Touched(manifest)' = Touched(manifest)
      BY <2>1 DEF Touched, Items, Set
    <2> QED
      BY <1>n, <2>1, <2>2 DEF StepInv, At
  <1>2. ASSUME NEW p \in Paths, RestoreSkip(p) \/ RestoreStart(p) PROVE StepInv'
    <2>1. /\ op.kind = "recover" /\ op.phase = "items" /\ op.at \in Nat
          /\ p \in Touched(manifest) /\ \A q \in Touched(manifest) : q < p => q <= op.at
          /\ UNCHANGED <<disk, manifest, hidden>>
      <3>1. RestoreNext(p) /\ UNCHANGED <<disk, manifest, hidden>>
        BY <1>2 DEF RestoreSkip, RestoreStart, tree, store
      <3> QED
        BY <1>t, <1>n, <3>1, NextSettles DEF RestoreNext, At, TypeOK
    <2>2. op'.kind = "recover" /\ op'.at = p
          /\ (op'.phase = "write" \/ (op'.phase = "items" /\ disk[p] = manifest.before[p]))
      <3>1. \/ op' = [op EXCEPT !.at = p] /\ disk[p] = manifest.before[p]
            \/ op' = [op EXCEPT !.phase = "write", !.at = p]
        BY <1>2 DEF RestoreSkip, RestoreStart
      <3>2. CASE op' = [op EXCEPT !.at = p] /\ disk[p] = manifest.before[p]
        BY <1>t, <2>1, <3>2 DEF TypeOK
      <3>3. CASE op' = [op EXCEPT !.phase = "write", !.at = p]
        <4>1. op'.kind = op.kind /\ op'.at = p /\ op'.phase = "write"
          BY <1>t, <3>3 DEF TypeOK
        <4> QED
          BY <2>1, <4>1
      <3> QED
        BY <3>1, <3>2, <3>3
    <2>3. Touched(manifest)' = Touched(manifest)
      BY <2>1 DEF Touched, Items, Set
    <2>4. \A q \in Touched(manifest) \ hidden : q < p => disk[q] = manifest.before[q]
      BY <1>t, <1>n, <2>1 DEF StepInv
    <2> QED
      BY <1>n, <2>1, <2>2, <2>3, <2>4 DEF StepInv, At
  <1>3. ASSUME NEW p \in Paths, RestoreTemp(p) PROVE StepInv'
    <2>1. /\ op.kind = "recover" /\ op.phase = "write"
          /\ op'.kind = "recover" /\ op'.phase = "rename" /\ op'.at = op.at
          /\ UNCHANGED <<disk, manifest, hidden>>
      BY <1>t, <1>3 DEF RestoreTemp, WriteTemp, TypeOK, store
    <2>2. Touched(manifest)' = Touched(manifest)
      BY <2>1 DEF Touched, Items, Set
    <2> QED
      BY <1>t, <2>1, <2>2 DEF StepInv, At
  <1>4. ASSUME NEW p \in Paths, RestoreFile(p) PROVE StepInv'
    <2>1. /\ op.kind = "recover" /\ op.phase \in {"write", "rename"} /\ op.at = p
          /\ op'.kind = "recover" /\ op'.phase = "confirm" /\ op'.at = p
          /\ disk' = [disk EXCEPT ![p] = manifest.before[p]]
          /\ UNCHANGED <<manifest, hidden>>
      BY <1>t, <1>4 DEF RestoreFile, Replace, TypeOK, store
    <2>2. Touched(manifest)' = Touched(manifest)
      BY <2>1 DEF Touched, Items, Set
    <2>3. disk'[p] = manifest.before[p] /\ \A q \in Paths \ {p} : disk'[q] = disk[q]
      BY <1>t, <2>1 DEF TypeOK
    <2> QED
      BY <1>t, <1>n, <2>1, <2>2, <2>3 DEF StepInv, At
  <1>5. CASE RestoreConfirm
    <2>1. CASE disk[op.at] = manifest.before[op.at]
      <3>1. /\ op.kind = "recover" /\ op.phase = "confirm"
            /\ op'.kind = "recover" /\ op'.phase = "items" /\ op'.at = op.at
            /\ UNCHANGED <<disk, manifest, hidden>>
        BY <1>t, <1>5, <2>1 DEF RestoreConfirm, At, TypeOK, tree, store
      <3>2. Touched(manifest)' = Touched(manifest)
        BY <3>1 DEF Touched, Items, Set
      <3> QED
        BY <1>t, <2>1, <3>1, <3>2 DEF StepInv, At
    <2> QED
      BY <1>0, <1>5, <2>1 DEF RestoreConfirm, Return
  <1>6. CASE RemoveLeftovers
    <2>1. CASE op' = [op EXCEPT !.phase = "commit"]
      <3>1. /\ op.kind = "recover" /\ op.phase = "items" /\ Done(Touched(manifest), op.at)
            /\ op'.kind = "recover" /\ op'.phase = "commit" /\ op'.at = op.at
            /\ UNCHANGED <<disk, manifest, hidden>>
        BY <1>t, <1>6, <2>1 DEF RemoveLeftovers, At, TypeOK, store
      <3>2. Touched(manifest)' = Touched(manifest)
        BY <3>1 DEF Touched, Items, Set
      <3> QED
        BY <1>t, <3>1, <3>2 DEF StepInv, At, Done
    <2> QED
      BY <1>0, <1>6, <2>1 DEF RemoveLeftovers, Return
  <1> QED
    BY <1>0, <1>1, <1>2, <1>3, <1>4, <1>5, <1>6
    DEF Restore, RestoreNoParent, CommitRecover, Return

LEMMA StepStep == IInv /\ [Next]_vars => StepInv'
  <1> SUFFICES ASSUME IInv, [Next]_vars PROVE StepInv'
    OBVIOUS
  <1>t. TypeOK /\ StepInv /\ PlanInv
    BY DEF IInv
  <1>1. CASE op' = Idle
    BY <1>1 DEF StepInv, At, Idle
  <1>2. ASSUME NEW p \in Paths, NEW v \in File, UserWrite(p, v) PROVE StepInv'
    <2>1. CASE op = Idle
      BY <1>1, <1>2, <2>1 DEF UserWrite
    <2>2. CASE op # Idle
      <3>1. UNCHANGED <<manifest, op>> /\ manifest # Null
        BY <1>t, <1>2, <2>2 DEF UserWrite, PlanInv, store
      <3>2. \A q \in Touched(manifest) \ hidden' : q # p
        BY <1>2, <3>1 DEF UserWrite
      <3>3. hidden \subseteq hidden' /\ \A q \in Paths \ {p} : disk'[q] = disk[q]
        BY <1>t, <1>2 DEF UserWrite, TypeOK
      <3>4. Touched(manifest)' = Touched(manifest) /\ Items(manifest)' = Items(manifest)
        BY <3>1 DEF Touched, Items, Set
      <3>5. Touched(manifest) \subseteq Paths
        BY DEF Touched, Items, Set
      <3> QED
        BY <1>t, <3>1, <3>2, <3>3, <3>4, <3>5 DEF StepInv, At, Done
    <2> QED
      BY <2>1, <2>2
  <1>3. CASE UNCHANGED vars
    BY <1>t, <1>3 DEF StepInv, At, Done, Touched, Items, Set, vars
  <1>4. Staging \/ PreserveInterruptedFlush \/ Stop => op' = Idle
    BY DEF Staging, Claim, Stage, Drop, Ready, PreserveInterruptedFlush, Pending, Stop, Return
  <1> QED
    BY <1>1, <1>2, <1>3, <1>4, FlushSteps, MaintenanceSteps, RestoreSteps
    DEF Next, Environment

-----------------------------------------------------------------------------
(* The invariance theorems *)

LEMMA InitInv == Init => IInv
  <1> SUFFICES ASSUME Init PROVE IInv
    OBVIOUS
  <1>1. TypeOK
    BY InitType
  <1>2. StoreInv
    BY DEF Init, StoreInv, Set, Empty
  <1>3. ManifestInv
    BY DEF Init, ManifestInv
  <1>4. PlanInv /\ StepInv
    BY DEF Init, PlanInv, StepInv, At, Idle
  <1> QED
    BY <1>1, <1>2, <1>3, <1>4 DEF IInv

\* In every reachable state the store, the running operation and the files it
\* has settled agree: a running flush applies exactly its author's staged work
\* over the captured bases, a running discard exactly its cycle's reverse, and
\* recovery has put back every path behind its position.
THEOREM Invariance == Spec => []IInv
  <1>1. IInv /\ [Next]_vars => IInv'
    BY TypeStep, StoreStep, ManifestStep, PlanStep, StepStep DEF IInv
  <1> QED
    BY <1>1, InitInv, PTL DEF Spec

\* Every variable keeps its type; in particular no step ever writes to disk
\* anything but a file or its absence.
THEOREM TypeCorrect == Spec => []TypeOK
  <1>1. IInv => TypeOK
    BY DEF IInv
  <1> QED
    BY <1>1, Invariance, PTL

-----------------------------------------------------------------------------
(* What an effect leaves on the disk.                                       *)

\* A temporary stands for an item of the manifest; a flush has one at a time.
TempInv ==
  /\ manifest = Null => temps = {}
  /\ manifest # Null => temps \subseteq Items(manifest)
  /\ op.kind \in {"flush", "discard"} => temps \subseteq IF op.phase = "rename" THEN {op.at} ELSE {}
  /\ op.phase = "commit" => temps = {}

\* A check holds of the path it was made of until the user writes there.
RaceInv ==
  /\ op.kind \in {"flush", "discard"} /\ op.phase \in {"write", "rename"} =>
       disk[op.at] = manifest.before[op.at] \/ op.at \in raced
  /\ op.kind = "recover" => \A p \in Touched(manifest) : ~Foreign(p) \/ p \in raced

\* A created directory that is back was brought back by the user.
DirsInv ==
  At("recover", "commit") => \A d \in manifest.dirs \cap dirs : \E p \in raced : DirOf[p] = d

EffectInv == TempInv /\ RaceInv /\ DirsInv

\* An operation that returns leaves at most temporaries of its manifest.
LEMMA ReturnKeepsEffect ==
  ASSUME op' = Idle,
         manifest' = Null => temps' = {},
         manifest' # Null => temps' \subseteq Items(manifest')
  PROVE  EffectInv'
  BY DEF EffectInv, TempInv, RaceInv, DirsInv, At, Idle

\* A running flush or discard has saved no more than where it is.
LEMMA FlushKeepsEffect ==
  ASSUME op'.kind \in {"flush", "discard"}, manifest' # Null, temps' \subseteq Items(manifest'),
         temps' \subseteq IF op'.phase = "rename" THEN {op'.at} ELSE {},
         op'.phase \in {"write", "rename"} =>
           disk'[op'.at] = manifest'.before[op'.at] \/ op'.at \in raced'
  PROVE  EffectInv'
  BY DEF EffectInv, TempInv, RaceInv, DirsInv, At

LEMMA FlushEffect == IInv /\ EffectInv /\ Flush => EffectInv'
  <1> SUFFICES ASSUME IInv, EffectInv, Flush PROVE EffectInv'
    OBVIOUS
  <1>t. TypeOK /\ StepInv /\ TempInv /\ RaceInv
    BY DEF IInv, EffectInv
  <1>m. op # Idle => manifest \in Manifest /\ manifest # Null
    BY RunningManifest
  <1>1. ASSUME NEW k \in Agents, ConsolidateBegin(k) PROVE EffectInv'
    <2>1. op'.kind = "flush" /\ op'.phase = "dirs" /\ temps' = {}
      BY <1>t, <1>1 DEF ConsolidateBegin, Idle, Ready, tree, TempInv
    <2>2. manifest' # Null
      BY <1>t, <1>1, BeginSavesManifest, NullIsNoManifest
    <2> QED
      BY <2>1, <2>2, FlushKeepsEffect
  <1>2. ASSUME NEW d \in Dirs, CreateDir(d) PROVE EffectInv'
    <2>1. op.kind \in {"flush", "discard"} /\ op.phase = "dirs" /\ op # Idle
          /\ UNCHANGED <<op, manifest, temps>>
      BY <1>2 DEF CreateDir, Flushing, Idle, store
    <2> QED
      BY <1>t, <1>m, <2>1, FlushKeepsEffect DEF TempInv
  <1>3. CASE DirsCreated
    <2>1. /\ op'.kind \in {"flush", "discard"} /\ op'.phase = "items" /\ op # Idle
          /\ op.kind \in {"flush", "discard"} /\ op.phase = "dirs" /\ UNCHANGED <<manifest, temps>>
      BY <1>t, <1>3 DEF DirsCreated, Flushing, TypeOK, Idle, store, tree
    <2> QED
      BY <1>t, <1>m, <2>1, FlushKeepsEffect DEF TempInv
  <1>4. ASSUME NEW p \in Paths, MarkIntent(p) PROVE EffectInv'
    <2>1. /\ op'.kind \in {"flush", "discard"} /\ op'.phase = "write" /\ op'.at = p
          /\ op.kind \in {"flush", "discard"} /\ op.phase = "items" /\ op # Idle
          /\ temps' = temps /\ disk' = disk /\ disk[p] = manifest.before[p]
      BY <1>t, <1>4 DEF MarkIntent, Flushing, TypeOK, Idle, tree
    <2>2. manifest \in Manifest /\ manifest' = [manifest EXCEPT !.intent = p] /\ p \in Nat
      BY <1>4, <1>m, <2>1, PathsAssumption DEF MarkIntent
    <2>3. manifest' \in Manifest /\ manifest'.before = manifest.before
      BY <2>2 DEF Manifest
    <2>4. temps' = {}
      BY <1>t, <2>1 DEF TempInv
    <2> QED
      BY <2>1, <2>3, <2>4, NullIsNoManifest, FlushKeepsEffect
  <1>5. ASSUME NEW p \in Paths, FlushTemp(p) PROVE EffectInv'
    <2>1. /\ op'.kind \in {"flush", "discard"} /\ op'.phase = "rename" /\ op'.at = p
          /\ op.kind \in {"flush", "discard"} /\ op.phase = "write" /\ op.at = p /\ op # Idle
          /\ temps' = temps \cup {p} /\ UNCHANGED <<disk, manifest, raced>>
      BY <1>t, <1>5 DEF FlushTemp, WriteTemp, TypeOK, Idle, store
    <2>2. p \in Items(manifest)
      BY <1>t, <2>1 DEF StepInv, Touched
    <2>3. temps = {}
      BY <1>t, <2>1 DEF TempInv
    <2>4. disk[p] = manifest.before[p] \/ p \in raced
      BY <1>t, <2>1 DEF RaceInv
    <2> QED
      BY <1>m, <2>1, <2>2, <2>3, <2>4, FlushKeepsEffect
  <1>6. ASSUME NEW p \in Paths, FlushFile(p) PROVE EffectInv'
    <2>1. /\ op'.kind \in {"flush", "discard"} /\ op'.phase = "items" /\ op # Idle
          /\ op.kind \in {"flush", "discard"} /\ op.at = p /\ manifest' = manifest
          /\ \/ op.phase = "rename" /\ temps' = temps \ {p}
             \/ op.phase = "write" /\ temps' = temps
      BY <1>t, <1>6 DEF FlushFile, Replace, TypeOK, Idle, store
    <2>2. temps' = {}
      BY <1>t, <2>1 DEF TempInv
    <2> QED
      BY <1>m, <2>1, <2>2, FlushKeepsEffect
  <1>7. CASE (\E p \in Paths : BaseChanged(p)) \/ VerifyFails
    <2>1. op' = Idle /\ UNCHANGED <<temps, manifest>>
      BY <1>7 DEF BaseChanged, VerifyFails, Return, tree, store
    <2> QED
      BY <1>t, <2>1, ReturnKeepsEffect DEF TempInv
  <1>8. CASE CommitFlush
    <2>1. op' = Idle /\ temps' = temps /\ manifest' = Null /\ op.kind = "flush" /\ op.phase = "items"
      BY <1>8 DEF CommitFlush, Verified, Flushing, Return, tree
    <2> QED
      BY <1>t, <2>1, ReturnKeepsEffect DEF TempInv
  <1> QED
    BY <1>1, <1>2, <1>3, <1>4, <1>5, <1>6, <1>7, <1>8 DEF Flush

LEMMA MaintenanceEffect == IInv /\ EffectInv /\ Maintenance => EffectInv'
  <1> SUFFICES ASSUME IInv, EffectInv, Maintenance PROVE EffectInv'
    OBVIOUS
  <1>t. TypeOK /\ TempInv
    BY DEF IInv, EffectInv
  <1>m. op # Idle => manifest \in Manifest /\ manifest # Null
    BY RunningManifest
  <1>1. ASSUME NEW k \in Cycles, CompleteCycle(k) \/ PreserveInterruptedCycle(k) PROVE EffectInv'
    <2>1. op' = Idle /\ UNCHANGED <<temps, manifest>>
      BY <1>1 DEF CompleteCycle, PreserveInterruptedCycle, Discardable, Ready, tree
    <2> QED
      BY <1>t, <2>1, ReturnKeepsEffect DEF TempInv
  <1>2. ASSUME NEW k \in Cycles, DiscardBegin(k) PROVE EffectInv'
    <2>1. op'.kind = "discard" /\ op'.phase = "dirs" /\ temps' = {}
      BY <1>t, <1>2 DEF DiscardBegin, Discardable, Idle, Ready, tree, TempInv
    <2>2. manifest' # Null
      <3>1. manifest' \in Manifest
        BY <1>2, DiscardSavesManifest DEF IInv
      <3> QED
        BY <3>1, NullIsNoManifest
    <2> QED
      BY <2>1, <2>2, FlushKeepsEffect
  <1>3. CASE DiscardCleanup
    <2>1. /\ op'.kind = "discard" /\ op'.phase = "commit" /\ manifest' = manifest /\ op # Idle
          /\ op.kind = "discard" /\ op.phase = "items" /\ temps' \subseteq temps
      BY <1>t, <1>3 DEF DiscardCleanup, Verified, Flushing, TypeOK, Idle, store
    <2> QED
      BY <1>t, <1>m, <2>1, FlushKeepsEffect DEF TempInv
  <1>4. CASE DiscardCleanupFails
    <2>1. op' = Idle /\ manifest' = manifest /\ temps' \subseteq temps
      BY <1>4 DEF DiscardCleanupFails, Return
    <2> QED
      BY <1>t, <2>1, ReturnKeepsEffect DEF TempInv
  <1>5. CASE CommitDiscard
    <2>1. op' = Idle /\ manifest' = Null /\ temps' = temps /\ op.phase = "commit"
      BY <1>5 DEF CommitDiscard, At, Return, tree
    <2> QED
      BY <1>t, <2>1, ReturnKeepsEffect DEF TempInv
  <1> QED
    BY <1>1, <1>2, <1>3, <1>4, <1>5 DEF Maintenance

\* A recovery keeps to the paths it touched, each as its check found it unless the user
\* wrote there.
LEMMA RecoveryKeepsEffect ==
  ASSUME op'.kind = "recover", manifest' # Null, temps' \subseteq Items(manifest'),
         op'.phase # "commit",
         \A p \in Touched(manifest') : disk'[p] \in {manifest'.before[p], manifest'.after[p]} \/ p \in raced'
  PROVE  EffectInv'
  BY DEF EffectInv, TempInv, RaceInv, DirsInv, At, Foreign

LEMMA RestoreEffect == IInv /\ EffectInv /\ (RecoverBegin \/ Restore) => EffectInv'
  <1> SUFFICES ASSUME IInv, EffectInv, RecoverBegin \/ Restore PROVE EffectInv'
    OBVIOUS
  <1>t. TypeOK /\ StepInv /\ TempInv /\ RaceInv
    BY DEF IInv, EffectInv
  <1>m. op # Idle => manifest \in Manifest /\ manifest # Null
    BY RunningManifest
  <1>k. ASSUME op.kind = "recover", op # Idle
        PROVE  /\ temps \subseteq Items(manifest)
               /\ \A p \in Touched(manifest) : disk[p] \in {manifest.before[p], manifest.after[p]} \/ p \in raced
    BY <1>k, <1>t, <1>m DEF TempInv, RaceInv, Foreign
  <1>1. CASE RecoverBegin
    <2>1. /\ op'.kind = "recover" /\ op'.phase = "items" /\ manifest # Null
          /\ UNCHANGED <<temps, disk, raced, manifest>>
      BY <1>1 DEF RecoverBegin, Pending, Idle, tree, store
    <2>2. \A p \in Touched(manifest) : disk[p] \in {manifest.before[p], manifest.after[p]}
      BY <1>1 DEF RecoverBegin, Foreign
    <2> QED
      BY <1>t, <2>1, <2>2, RecoveryKeepsEffect DEF TempInv
  <1>2. ASSUME NEW p \in Paths, RestoreSkip(p) \/ RestoreStart(p) PROVE EffectInv'
    <2>1. op.kind = "recover" /\ op # Idle /\ op.phase = "items"
      BY <1>2 DEF RestoreSkip, RestoreStart, RestoreNext, At, Idle
    <2>2. temps' \subseteq temps /\ UNCHANGED <<disk, raced, manifest>>
      BY <1>2 DEF RestoreSkip, RestoreStart, tree, store
    <2>3. op' = [op EXCEPT !.at = p] \/ op' = [op EXCEPT !.phase = "write", !.at = p]
      BY <1>2 DEF RestoreSkip, RestoreStart
    <2>4. op'.kind = "recover" /\ op'.phase # "commit"
      BY <1>t, <2>1, <2>3 DEF TypeOK
    <2> QED
      BY <1>k, <1>m, <2>1, <2>2, <2>4, RecoveryKeepsEffect
  <1>3. ASSUME NEW p \in Paths, RestoreTemp(p) PROVE EffectInv'
    <2>1. /\ op.kind = "recover" /\ op # Idle /\ op.phase = "write" /\ op.at = p
          /\ temps' = temps \cup {p} /\ UNCHANGED <<disk, raced, manifest>>
          /\ op' = [op EXCEPT !.phase = "rename"]
      BY <1>3 DEF RestoreTemp, WriteTemp, Idle, store
    <2>2. op'.kind = "recover" /\ op'.phase # "commit"
      BY <1>t, <2>1 DEF TypeOK
    <2>3. p \in Items(manifest)
      BY <1>t, <2>1 DEF StepInv, Touched
    <2> QED
      BY <1>k, <1>m, <2>1, <2>2, <2>3, RecoveryKeepsEffect
  <1>4. ASSUME NEW p \in Paths, RestoreFile(p) PROVE EffectInv'
    <2>1. /\ op.kind = "recover" /\ op # Idle
          /\ temps' \subseteq temps /\ UNCHANGED <<raced, manifest>>
          /\ disk' = [disk EXCEPT ![p] = manifest.before[p]]
          /\ op' = [op EXCEPT !.phase = "confirm"]
      BY <1>4 DEF RestoreFile, Replace, Idle, store
    <2>2. op'.kind = "recover" /\ op'.phase # "commit"
      BY <1>t, <2>1 DEF TypeOK
    <2>3. \A q \in Paths : disk'[q] = IF q = p THEN manifest.before[p] ELSE disk[q]
      BY <1>t, <2>1 DEF TypeOK
    <2>4. Touched(manifest) \subseteq Paths
      BY DEF Touched, Items, Set
    <2> QED
      BY <1>k, <1>m, <2>1, <2>2, <2>3, <2>4, RecoveryKeepsEffect
  <1>5. CASE RestoreNoParent
    <2>1. op' = Idle /\ UNCHANGED <<temps, manifest>>
      BY <1>5 DEF RestoreNoParent, Return, tree, store
    <2> QED
      BY <1>t, <2>1, ReturnKeepsEffect DEF TempInv
  <1>6. CASE RestoreConfirm
    <2>1. op.kind = "recover" /\ op # Idle /\ UNCHANGED <<temps, disk, manifest>>
      BY <1>6 DEF RestoreConfirm, At, Idle, tree, store
    <2>2. CASE op' = Idle
      BY <1>t, <2>1, <2>2, ReturnKeepsEffect DEF TempInv
    <2>3. CASE op' = [op EXCEPT !.phase = "items"] /\ raced' = raced
      <3>1. op'.kind = "recover" /\ op'.phase # "commit"
        BY <1>t, <2>1, <2>3 DEF TypeOK
      <3> QED
        BY <1>k, <1>m, <2>1, <2>3, <3>1, RecoveryKeepsEffect
    <2> QED
      BY <1>6, <2>2, <2>3 DEF RestoreConfirm, Return
  <1>7. CASE RemoveLeftovers
    <2>1. /\ op.kind = "recover" /\ op # Idle /\ temps' = temps \ Items(manifest)
          /\ UNCHANGED <<disk, manifest>>
      BY <1>7 DEF RemoveLeftovers, At, Idle, store
    <2>2. temps' = {}
      BY <1>k, <2>1
    <2>3. CASE op' = Idle
      BY <1>m, <2>1, <2>2, <2>3, ReturnKeepsEffect
    <2>4. CASE op' = [op EXCEPT !.phase = "commit"] /\ raced' = raced /\ dirs' = dirs \ manifest.dirs
      <3>1. op'.kind = "recover"
        BY <1>t, <2>1, <2>4 DEF TypeOK
      <3>2. TempInv'
        BY <2>2, <3>1 DEF TempInv
      <3>3. RaceInv'
        <4>1. \A p \in Touched(manifest') : disk'[p] \in {manifest'.before[p], manifest'.after[p]} \/ p \in raced'
          BY <1>k, <2>1, <2>4
        <4> QED
          BY <3>1, <4>1 DEF RaceInv, Foreign
      <3>4. DirsInv'
        BY <2>1, <2>4 DEF DirsInv
      <3> QED
        BY <3>2, <3>3, <3>4 DEF EffectInv
    <2> QED
      BY <1>7, <2>3, <2>4 DEF RemoveLeftovers, Return
  <1>8. CASE CommitRecover
    <2>1. op' = Idle /\ temps' = temps /\ manifest' = Null /\ op.phase = "commit"
      BY <1>8 DEF CommitRecover, At, Return, tree
    <2> QED
      BY <1>t, <2>1, ReturnKeepsEffect DEF TempInv
  <1> QED
    BY <1>1, <1>2, <1>3, <1>4, <1>5, <1>6, <1>7, <1>8 DEF Restore

\* The user writes where no check holds any longer, and in a directory it brings back.
LEMMA UserEffect ==
  ASSUME IInv, EffectInv, NEW p \in Paths, NEW v \in File, UserWrite(p, v)
  PROVE  EffectInv'
  <1>1. UNCHANGED <<temps, op, manifest>>
    BY DEF UserWrite, store
  <1>2. \A q \in Paths : disk'[q] = disk[q] \/ q = p
    BY DEF UserWrite, IInv, TypeOK
  <1>3. op # Idle => raced' = raced \cup {p}
    BY DEF UserWrite
  <1>4. TempInv'
    BY <1>1 DEF EffectInv, TempInv, Items, Set
  <1>5. Touched(manifest) \subseteq Paths
    BY DEF Touched, Items, Set
  <1>6. RaceInv'
    <2>1. ASSUME op.kind \in {"flush", "discard"}, op.phase \in {"write", "rename"}
          PROVE  disk'[op.at] = manifest.before[op.at] \/ op.at \in raced'
      <3>1. op # Idle /\ op.at \in Paths
        BY <1>5, <2>1 DEF IInv, StepInv, Idle
      <3> QED
        BY <1>2, <1>3, <2>1, <3>1 DEF EffectInv, RaceInv
    <2>2. ASSUME op.kind = "recover", NEW q \in Touched(manifest)
          PROVE  disk'[q] \in {manifest.before[q], manifest.after[q]} \/ q \in raced'
      <3>1. op # Idle
        BY <2>2 DEF Idle
      <3> QED
        BY <1>2, <1>3, <1>5, <2>2, <3>1 DEF EffectInv, RaceInv, Foreign
    <2> QED
      BY <1>1, <2>1, <2>2 DEF RaceInv, Foreign, Touched, Items, Set
  <1>7. DirsInv'
    <2> SUFFICES ASSUME At("recover", "commit"), NEW d \in manifest.dirs, d \in dirs'
                 PROVE  \E q \in raced' : DirOf[q] = d
      BY <1>1 DEF DirsInv, At
    <2>1. op # Idle
      BY DEF At, Idle
    <2>2. CASE d \in dirs
      BY <1>3, <2>1, <2>2 DEF EffectInv, DirsInv
    <2>3. CASE d \notin dirs
      BY <1>3, <2>1, <2>3 DEF UserWrite
    <2> QED
      BY <2>2, <2>3
  <1> QED
    BY <1>4, <1>6, <1>7 DEF EffectInv

LEMMA EffectStep == IInv /\ EffectInv /\ [Next]_vars => EffectInv'
  <1> SUFFICES ASSUME IInv, EffectInv, [Next]_vars PROVE EffectInv'
    OBVIOUS
  <1>t. TempInv
    BY DEF EffectInv
  <1>1. CASE Staging
    <2>1. op' = Idle /\ UNCHANGED <<temps, manifest>>
      BY <1>1 DEF Staging, Claim, Stage, Drop, Ready, tree
    <2> QED
      BY <1>t, <2>1, ReturnKeepsEffect DEF TempInv
  <1>2. CASE PreserveInterruptedFlush
    <2>1. op' = Idle /\ temps' = {} /\ manifest' = Null
      BY <1>2 DEF PreserveInterruptedFlush, Pending
    <2> QED
      BY <2>1, ReturnKeepsEffect
  <1>3. CASE Stop
    <2>1. op' = Idle /\ UNCHANGED <<temps, manifest>>
      BY <1>3 DEF Stop, Return, tree, store
    <2> QED
      BY <1>t, <2>1, ReturnKeepsEffect DEF TempInv
  <1>4. CASE UNCHANGED vars
    <2>1. UNCHANGED <<temps, manifest, op, disk, dirs, raced>>
      BY <1>4 DEF vars
    <2> QED
      BY <2>1 DEF EffectInv, TempInv, RaceInv, DirsInv, At, Foreign, Touched, Items, Set
  <1> QED
    BY <1>1, <1>2, <1>3, <1>4, FlushEffect, MaintenanceEffect, RestoreEffect, UserEffect
    DEF Next, Environment

LEMMA InitEffect == Init => EffectInv
  BY DEF Init, EffectInv, TempInv, RaceInv, DirsInv, At, Idle

THEOREM EffectInvariance == Spec => [](IInv /\ EffectInv)
  <1> QED
    BY Invariance, InitEffect, EffectStep, PTL DEF Spec

\* Wherever a flush, a discard or a recovery stopped, and however often it was taken up
\* again, no temporary is left once its manifest is gone (replaceItems, removeLeftovers).
THEOREM TemporariesEnd == Spec => []NoTemporaryOutlives
  <1>1. EffectInv => NoTemporaryOutlives
    BY DEF EffectInv, TempInv, NoTemporaryOutlives
  <1> QED
    BY <1>1, EffectInvariance, PTL

\* Only a replacement writes a file.
LEMMA OnlyReplacementsWrite ==
  ASSUME TypeOK, [Next]_vars, edits' = edits, NEW p \in Paths, disk'[p] # disk[p]
  PROVE  FlushFile(p) \/ RestoreFile(p)
  <1>1. ASSUME NEW q \in Paths, FlushFile(q) \/ RestoreFile(q) PROVE q = p
    <2>1. \E v : disk' = [disk EXCEPT ![q] = v]
      BY <1>1 DEF FlushFile, RestoreFile, Replace
    <2> QED
      BY <2>1 DEF TypeOK
  <1>2. CASE Staging
    BY <1>2 DEF Staging, Claim, Stage, Drop, tree
  <1>3. CASE Flush
    BY <1>1, <1>3 DEF Flush, ConsolidateBegin, CreateDir, DirsCreated, MarkIntent, BaseChanged,
         FlushTemp, WriteTemp, VerifyFails, CommitFlush, tree
  <1>4. CASE Maintenance
    BY <1>4 DEF Maintenance, CompleteCycle, DiscardBegin, PreserveInterruptedCycle, DiscardCleanup,
         DiscardCleanupFails, CommitDiscard, tree
  <1>5. CASE RecoverBegin \/ Restore
    BY <1>1, <1>5 DEF RecoverBegin, Restore, RestoreSkip, RestoreStart, RestoreTemp, WriteTemp,
         RestoreNoParent, RestoreConfirm, RemoveLeftovers, CommitRecover, tree
  <1>6. CASE PreserveInterruptedFlush \/ Stop \/ UNCHANGED vars
    BY <1>6 DEF PreserveInterruptedFlush, Stop, tree, vars
  <1>7. ASSUME NEW q \in Paths, NEW v \in File, UserWrite(q, v) PROVE FALSE
    <2>1. edits' = edits + 1 /\ edits \in Nat
      BY <1>7 DEF UserWrite, TypeOK
    <2> QED
      BY <2>1
  <1> QED
    BY <1>2, <1>3, <1>4, <1>5, <1>6, <1>7 DEF Next, Environment

\* Between a check and the replacement it allowed the user may write, and the process may
\* stop; a write of takt's is still over one of the two contents the manifest names, on a
\* path whose intent it saved, or over what the user wrote since the check (replaceItems,
\* checkTouched).
THEOREM KnownContentOnly == Spec => OverwritesKnownContentOnly
  <1> DEFINE Known == edits' = edits =>
       \A p \in Paths : disk'[p] # disk[p] =>
         /\ p \in Touched(manifest)
         /\ disk[p] \in {manifest.before[p], manifest.after[p]} \/ p \in raced
  <1>1. IInv /\ EffectInv /\ [Next]_vars => Known
    <2> SUFFICES ASSUME IInv, EffectInv, [Next]_vars, edits' = edits, NEW p \in Paths, disk'[p] # disk[p]
                 PROVE  /\ p \in Touched(manifest)
                        /\ disk[p] \in {manifest.before[p], manifest.after[p]} \/ p \in raced
      OBVIOUS
    <2>1. FlushFile(p) \/ RestoreFile(p)
      BY OnlyReplacementsWrite DEF IInv
    <2>2. op.at = p /\ op.phase \in {"write", "rename"} /\ op.kind \in {"flush", "discard", "recover"}
      BY <2>1 DEF FlushFile, RestoreFile, Replace
    <2>3. p \in Touched(manifest)
      BY <2>2 DEF IInv, StepInv
    <2> QED
      BY <2>2, <2>3 DEF EffectInv, RaceInv, Foreign
  <1> QED
    BY <1>1, EffectInvariance, PTL DEF Spec, OverwritesKnownContentOnly

\* A rolled back flush leaves no directory it created but one the user has written in since
\* its removal (removeLeftovers), however many times the recovery was stopped and retried.
THEOREM RollbacksRemoveDirs == Spec => RollbackRemovesDirs
  <1> DEFINE Removed == op.kind = "recover" /\ manifest # Null /\ manifest' = Null =>
       \A d \in manifest.dirs \cap dirs : \E p \in raced : DirOf[p] = d
  <1>1. IInv /\ EffectInv /\ [Next]_vars => Removed
    <2> SUFFICES ASSUME IInv, EffectInv, [Next]_vars, op.kind = "recover", manifest # Null, manifest' = Null
                 PROVE  \A d \in manifest.dirs \cap dirs : \E p \in raced : DirOf[p] = d
      OBVIOUS
    <2>1. CommitRecover
      <3>1. op # Idle /\ manifest' # manifest
        BY DEF Idle
      <3>2. ~Staging
        BY <3>1 DEF Staging, Claim, Stage, Drop, Ready
      <3>3. CASE Flush
        <4>1. ASSUME NEW p \in Paths, MarkIntent(p) PROVE FALSE
          BY <4>1 DEF MarkIntent, Flushing
        <4> QED
          BY <3>1, <3>3, <4>1 DEF Flush, ConsolidateBegin, Ready, CreateDir, DirsCreated, BaseChanged,
               FlushTemp, WriteTemp, FlushFile, Replace, VerifyFails, CommitFlush, store
      <3>4. ~Maintenance
        BY <3>1 DEF Maintenance, CompleteCycle, DiscardBegin, PreserveInterruptedCycle, Discardable, Ready,
             DiscardCleanup, DiscardCleanupFails, CommitDiscard, At, store
      <3>5. CASE RecoverBegin \/ Restore
        BY <3>1, <3>5 DEF RecoverBegin, Restore, RestoreSkip, RestoreStart, RestoreTemp, WriteTemp,
             RestoreFile, Replace, RestoreNoParent, RestoreConfirm, RemoveLeftovers, store
      <3>6. CASE PreserveInterruptedFlush \/ Environment \/ UNCHANGED vars
        BY <3>1, <3>6 DEF PreserveInterruptedFlush, Pending, Environment, Stop, UserWrite, store, vars
      <3> QED
        BY <3>2, <3>3, <3>4, <3>5, <3>6 DEF Next
    <2> QED
      BY <2>1 DEF CommitRecover, EffectInv, DirsInv
  <1> QED
    BY <1>1, EffectInvariance, PTL DEF Spec, RollbackRemovesDirs

-----------------------------------------------------------------------------
(* The refinement of AtomicConsolidation. The workspace it speaks of is    *)
(* View: the disk, except that a path touched behind a pending manifest    *)
(* still counts as its old content. So a whole flush is a stutter until    *)
(* its commit, and so is a whole rollback.                                 *)

\* What a cycle that is still open retains: the refinement mapping.
OpenFound == [k \in Cycles |-> IF k \in closed THEN Empty ELSE found[k]]
OpenLeft  == [k \in Cycles |-> IF k \in closed THEN Empty ELSE left[k]]

\* A step that changes nothing the abstract module sees.
Stutters == UNCHANGED <<View, base, work, OpenFound, OpenLeft, archive, edits, hidden>>

LEMMA StutterRefines == Stutters => [Atomic!Next]_(Atomic!vars)
  BY DEF Stutters, Atomic!vars, OpenFound, OpenLeft

\* With no manifest pending, what is seen is what is there.
LEMMA ViewIsDisk ==
  ASSUME TypeOK
  PROVE  manifest = Null => View = disk
  BY DEF TypeOK, View

LEMMA ViewIsDiskNext ==
  ASSUME TypeOK'
  PROVE  manifest' = Null => View' = disk'
  BY DEF TypeOK, View

\* Every item's view is its old content once the whole manifest is touched.
LEMMA ViewOfTouched ==
  ASSUME manifest # Null
  PROVE  /\ \A p \in Touched(manifest) : View[p] = manifest.before[p]
         /\ \A p \in Paths \ Touched(manifest) : View[p] = disk[p]
  BY DEF View, Touched, Items, Set

LEMMA ViewIsFiles ==
  ASSUME TypeOK
  PROVE  View \in [Paths -> File]
  <1>1. ASSUME NEW p \in Paths, manifest # Null, p \in Touched(manifest)
        PROVE  manifest.before[p] \in File
    BY <1>1 DEF TypeOK, Manifest, Touched, Items, Set, Slots
  <1> QED
    BY <1>1 DEF TypeOK, View

LEMMA ViewIsFilesNext ==
  ASSUME TypeOK'
  PROVE  View' \in [Paths -> File]
  <1>1. ASSUME NEW p \in Paths, manifest' # Null, p \in Touched(manifest)'
        PROVE  manifest'.before[p] \in File
    BY <1>1 DEF TypeOK, Manifest, Touched, Items, Set, Slots
  <1> QED
    BY <1>1 DEF TypeOK, View

\* Steps that touch neither the disk nor what is saved are invisible.
LEMMA QuietStutters ==
  ASSUME UNCHANGED <<disk, manifest, claims, cycles, archive, edits, hidden>>
  PROVE  Stutters
  BY DEF Stutters, View, OpenFound, OpenLeft, Touched, Items, Set, claims, cycles

-----------------------------------------------------------------------------
(* Staging maps to staging *)

LEMMA StagingRefines == IInv /\ IInv' /\ Staging => [Atomic!Next]_(Atomic!vars)
  <1> SUFFICES ASSUME IInv, IInv', Staging PROVE Atomic!Next
    OBVIOUS
  <1>t. TypeOK /\ TypeOK'
    BY DEF IInv
  <1>v. View = disk /\ View' = disk' /\ UNCHANGED <<disk, cycles, archive, edits, hidden>>
    <2>1. manifest = Null /\ UNCHANGED <<disk, manifest, cycles, archive, edits, hidden>>
      BY DEF Staging, Claim, Stage, Drop, Ready, tree
    <2> QED
      BY <1>t, <2>1, ViewIsDisk, ViewIsDiskNext
  <1>o. UNCHANGED <<View, OpenFound, OpenLeft, archive, edits, hidden>>
    BY <1>v DEF OpenFound, OpenLeft, cycles
  <1>1. ASSUME NEW k \in Agents, NEW S \in SUBSET Paths, Claim(k, S) PROVE Atomic!Claim(k)
    <2>1. Only(disk, S) = [p \in Paths |-> IF p \in S THEN View[p] ELSE Unset]
      BY <1>v DEF Only
    <2> QED
      BY <1>1, <1>o, <2>1 DEF Claim, Atomic!Claim, OpenFound, OpenLeft
  <1>2. ASSUME NEW k \in Agents, NEW p \in Paths, NEW v \in File, Stage(k, p, v)
        PROVE  Atomic!Stage(k)
    BY <1>2, <1>o DEF Stage, Atomic!Stage, Atomic!File, File, OpenFound, OpenLeft
  <1>3. ASSUME NEW k \in Agents, Drop(k) PROVE Atomic!Drop(k)
    BY <1>3, <1>o DEF Drop, Atomic!Drop, Atomic!Empty, Empty, OpenFound, OpenLeft
  <1> QED
    BY <1>1, <1>2, <1>3 DEF Staging, Atomic!Next

-----------------------------------------------------------------------------
(* Steps of a running operation are invisible up to its commit *)

\* A touched path may change under the manifest without being seen to.
LEMMA ReplaceStutters ==
  ASSUME TypeOK, manifest # Null, NEW p \in Touched(manifest), NEW v,
         disk' = [disk EXCEPT ![p] = v],
         UNCHANGED <<manifest, claims, cycles, archive, edits, hidden>>
  PROVE  Stutters
  <1>1. Touched(manifest)' = Touched(manifest)
    BY DEF Touched, Items, Set
  <1>2. \A q \in Paths \ Touched(manifest) : disk'[q] = disk[q]
    BY DEF TypeOK
  <1>3. View' = View
    BY <1>1, <1>2 DEF View
  <1> QED
    BY <1>3 DEF Stutters, OpenFound, OpenLeft, claims, cycles

\* A manifest that has touched nothing hides nothing.
LEMMA BeginStutters ==
  ASSUME TypeOK, manifest = Null, manifest'.intent = 0,
         UNCHANGED <<disk, claims, cycles, archive, edits, hidden>>
  PROVE  Stutters
  <1>1. Touched(manifest)' = {}
    <2>1. \A p \in Paths : ~(p <= 0)
      BY PathsAssumption
    <2> QED
      BY <2>1 DEF Touched, Items, Set
  <1>2. View' = View
    BY <1>1 DEF View, TypeOK
  <1> QED
    BY <1>2 DEF Stutters, OpenFound, OpenLeft, claims, cycles

\* The path whose intent is marked was just seen to hold its old content.
LEMMA MarkIntentStutters ==
  ASSUME IInv, NEW p \in Paths, MarkIntent(p)
  PROVE  Stutters
  <1>1. manifest \in Manifest /\ manifest # Null
    BY RunningManifest DEF MarkIntent, Flushing, Idle
  <1>2. /\ manifest' = [manifest EXCEPT !.intent = p]
        /\ p \in Items(manifest) /\ disk[p] = manifest.before[p]
        /\ p > manifest.intent /\ \A q \in Items(manifest) : q > manifest.intent => p <= q
        /\ UNCHANGED <<disk, claims, cycles, archive, edits, hidden>>
    BY DEF MarkIntent, IsNext, tree
  <1>3. /\ manifest'.before = manifest.before /\ manifest'.intent = p
        /\ manifest' # Null
    BY <1>1, <1>2, NullIsNoManifest, PathsAssumption DEF Manifest
  <1>4. Touched(manifest)' = Touched(manifest) \cup {p}
    <2>1. \A q \in Items(manifest) : q <= p <=> q <= manifest.intent \/ q = p
      BY <1>1, <1>2, PathsAssumption DEF Manifest, Items, Set
    <2> QED
      BY <1>2, <1>3, <2>1 DEF Touched, Items, Set
  <1>5. p \notin Touched(manifest)
    BY <1>1, <1>2, PathsAssumption DEF Touched, Manifest
  <1>6. View' = View
    BY <1>1, <1>2, <1>3, <1>4, <1>5 DEF View
  <1> QED
    BY <1>2, <1>6 DEF Stutters, OpenFound, OpenLeft, claims, cycles

LEMMA FlushStutters ==
  ASSUME IInv, Flush, ~CommitFlush
  PROVE  Stutters
  <1>t. TypeOK
    BY DEF IInv
  <1>1. ASSUME NEW k \in Agents, ConsolidateBegin(k) PROVE Stutters
    <2>1. manifest = Null /\ manifest'.intent = 0
      BY <1>1 DEF ConsolidateBegin, Ready
    <2>2. UNCHANGED <<disk, claims, cycles, archive, edits, hidden>>
      BY <1>1 DEF ConsolidateBegin, tree
    <2> QED
      BY <1>t, <2>1, <2>2, BeginStutters
  <1>2. ASSUME NEW p \in Paths, MarkIntent(p) PROVE Stutters
    BY <1>2, MarkIntentStutters
  <1>3. ASSUME NEW p \in Paths, FlushFile(p) PROVE Stutters
    <2>1. manifest # Null /\ p \in Touched(manifest)
      BY <1>t, <1>3, RunningManifest DEF FlushFile, Replace, Idle, IInv, StepInv
    <2>2. /\ disk' = [disk EXCEPT ![p] = manifest.after[p]]
          /\ UNCHANGED <<manifest, claims, cycles, archive, edits, hidden>>
      BY <1>3 DEF FlushFile, Replace, store, claims, cycles
    <2> QED
      BY <1>t, <2>1, <2>2, ReplaceStutters
  <1>4. ASSUME \/ \E d \in Dirs : CreateDir(d)
               \/ DirsCreated \/ VerifyFails
               \/ \E p \in Paths : BaseChanged(p) \/ FlushTemp(p)
        PROVE  UNCHANGED <<disk, manifest, claims, cycles, archive, edits, hidden>>
    BY <1>4 DEF CreateDir, DirsCreated, VerifyFails, BaseChanged, FlushTemp, WriteTemp,
       tree, store, claims, cycles
  <1> QED
    BY <1>1, <1>2, <1>3, <1>4, QuietStutters DEF Flush

LEMMA RestoreStutters ==
  ASSUME IInv, RecoverBegin \/ Restore, ~CommitRecover
  PROVE  Stutters
  <1>t. TypeOK
    BY DEF IInv
  <1>1. ASSUME NEW p \in Paths, RestoreFile(p) PROVE Stutters
    <2>1. manifest # Null /\ p \in Touched(manifest)
      BY <1>t, <1>1, RunningManifest DEF RestoreFile, Replace, Idle, IInv, StepInv
    <2>2. /\ disk' = [disk EXCEPT ![p] = manifest.before[p]]
          /\ UNCHANGED <<manifest, claims, cycles, archive, edits, hidden>>
      BY <1>1 DEF RestoreFile, Replace, store, claims, cycles
    <2> QED
      BY <1>t, <2>1, <2>2, ReplaceStutters
  <1>2. ASSUME \/ RecoverBegin \/ RestoreNoParent \/ RestoreConfirm \/ RemoveLeftovers
               \/ \E p \in Paths : RestoreSkip(p) \/ RestoreStart(p) \/ RestoreTemp(p)
        PROVE  UNCHANGED <<disk, manifest, claims, cycles, archive, edits, hidden>>
    BY <1>2 DEF RecoverBegin, RestoreNoParent, RestoreConfirm, RemoveLeftovers, RestoreSkip,
       RestoreStart, RestoreTemp, WriteTemp, tree, store, claims, cycles
  <1> QED
    BY <1>1, <1>2, QuietStutters DEF Restore

-----------------------------------------------------------------------------
(* Commits, closures and the user's writes map to single abstract steps *)

\* A committed flush is one Consolidate of its author's work.
LEMMA CommitFlushRefines ==
  ASSUME IInv, IInv', CommitFlush, NEW a \in Agents, a = manifest.author
  PROVE  Atomic!Consolidate(a)
  <1> DEFINE W == work[a]
             c == CycleOf[a]
  <1>t. TypeOK /\ TypeOK'
    BY DEF IInv
  <1>m. /\ manifest \in Manifest /\ manifest # Null /\ a \in Agents
        /\ Set(manifest.before) = Set(manifest.after)
    BY RunningManifest DEF CommitFlush, Idle, Manifest
  <1>w. /\ manifest.after = W /\ manifest.before = Only(base[a], Set(W))
        /\ Set(W) # {} /\ c \notin closed
    BY DEF CommitFlush, IInv, PlanInv
  <1>i. Items(manifest) = Set(W) /\ Touched(manifest) = Set(W)
    BY <1>m, <1>w DEF Items, CommitFlush, Verified, Done, Touched
  <1>d. \A p \in Set(W) : disk[p] = W[p]
    BY <1>i, <1>w DEF CommitFlush, Verified
  <1>v. /\ \A p \in Set(W) : View[p] = manifest.before[p]
        /\ \A p \in Paths \ Set(W) : View[p] = disk[p]
    BY <1>m, <1>i, ViewOfTouched
  <1>n. View' = disk
    <2>1. manifest' = Null /\ disk' = disk
      BY DEF CommitFlush, tree
    <2> QED
      BY <1>t, <2>1, ViewIsDiskNext
  <1>1. W # Empty
    BY <1>w DEF Set, Empty
  <1>2. \A p \in Paths : W[p] # Unset => View[p] = base[a][p]
    BY <1>v, <1>w DEF Set, Only
  <1>3. \A p \in hidden : W[p] # Unset
    BY <1>i, <1>m DEF IInv, ManifestInv, Set
  <1>4. View' = Atomic!Over(View, W)
    BY <1>t, <1>n, <1>d, <1>v DEF Atomic!Over, Set, TypeOK
  <1>5. /\ base' = [base EXCEPT ![a] = Empty] /\ work' = [work EXCEPT ![a] = Empty]
        /\ hidden' = {} /\ UNCHANGED <<archive, edits>>
    BY DEF CommitFlush
  <1>6. CASE c = NoCycle
    <2>1. UNCHANGED <<OpenFound, OpenLeft>>
      BY <1>6 DEF CommitFlush, cycles, OpenFound, OpenLeft
    <2> QED
      BY <1>m, <1>1, <1>2, <1>3, <1>4, <1>5, <1>6, <2>1
      DEF Atomic!Consolidate, Atomic!Empty, Empty, OpenFound, OpenLeft
  <1>7. CASE c # NoCycle
    <2>1. c \in Cycles /\ Retain(c, manifest)
      BY <1>m, <1>7, CyclesAssumption DEF CommitFlush
    <2>2. found' = [found EXCEPT ![c] =
            [p \in Paths |-> IF W[p] = Unset \/ found[c][p] # Unset
                             THEN found[c][p] ELSE View[p]]]
      <3>1. \A p \in Paths : manifest.before[p] = Unset <=> W[p] = Unset
        BY <1>m, <1>w DEF Set
      <3>2. \A p \in Paths : W[p] # Unset => View[p] = manifest.before[p]
        BY <1>v DEF Set
      <3> QED
        BY <2>1, <3>1, <3>2 DEF Retain
    <2>3. left' = [left EXCEPT ![c] = Over(left[c], W)] /\ closed' = closed
      BY <2>1, <1>w DEF Retain
    <2>4. OpenFound' = [OpenFound EXCEPT ![c] =
            [p \in Paths |-> IF W[p] = Unset \/ OpenFound[c][p] # Unset
                             THEN OpenFound[c][p] ELSE View[p]]]
      BY <1>t, <1>w, <2>1, <2>2, <2>3 DEF OpenFound, TypeOK
    <2>5. OpenLeft' = [OpenLeft EXCEPT ![c] = Atomic!Over(OpenLeft[c], W)]
      BY <1>t, <1>w, <2>1, <2>3 DEF OpenLeft, TypeOK, Over, Atomic!Over
    <2> QED
      BY <1>m, <1>1, <1>2, <1>3, <1>4, <1>5, <1>7, <2>4, <2>5
      DEF Atomic!Consolidate, Atomic!Empty, Empty, OpenFound, OpenLeft
  <1> QED
    BY <1>m, <1>6, <1>7

\* A committed discard is one DiscardCycle; a path the user wrote behind its
\* manifest keeps what the user wrote.
LEMMA CommitDiscardRefines ==
  ASSUME IInv, IInv', CommitDiscard, NEW c \in Cycles, c = op.cycle
  PROVE  Atomic!DiscardCycle(c)
  <1>t. TypeOK /\ TypeOK'
    BY DEF IInv
  <1>m. manifest \in Manifest /\ manifest # Null /\ hidden \subseteq Touched(manifest)
    BY RunningManifest DEF CommitDiscard, At, Idle, IInv, ManifestInv
  <1>p. /\ c \in Cycles \ closed /\ Set(found[c]) # {}
        /\ manifest.after = found[c] /\ manifest.before = left[c]
        /\ Set(found[c]) = Set(left[c])
    BY DEF CommitDiscard, At, IInv, PlanInv, StoreInv
  <1>i. /\ Items(manifest) = Set(found[c]) /\ Touched(manifest) = Set(found[c])
        /\ \A p \in Set(found[c]) \ hidden : disk[p] = found[c][p]
    BY <1>p DEF CommitDiscard, IInv, StepInv, Items
  <1>v. /\ \A p \in Set(found[c]) : View[p] = left[c][p]
        /\ \A p \in Paths \ Set(found[c]) : View[p] = disk[p]
    BY <1>m, <1>p, <1>i, ViewOfTouched
  <1>n. View' = disk
    <2>1. manifest' = Null /\ disk' = disk
      BY DEF CommitDiscard, tree
    <2> QED
      BY <1>t, <2>1, ViewIsDiskNext
  <1>o. OpenFound[c] = found[c] /\ OpenLeft[c] = left[c]
    BY <1>p DEF OpenFound, OpenLeft
  <1>1. OpenFound[c] # Empty
    BY <1>o, <1>p DEF Set, Empty
  <1>2. \A p \in Paths : OpenFound[c][p] # Unset => View[p] = OpenLeft[c][p]
    BY <1>o, <1>v DEF Set
  <1>3. Atomic!Surfaces(View', Atomic!Over(View, OpenFound[c]))
    <2>1. View' \in [Paths -> File]
      BY <1>t, <1>n DEF TypeOK
    <2>2. \A p \in Paths \ hidden : disk[p] = Atomic!Over(View, OpenFound[c])[p]
      BY <1>o, <1>i, <1>v DEF Atomic!Over, Set
    <2> QED
      BY <1>n, <2>1, <2>2 DEF Atomic!Surfaces, Atomic!File, File
  <1>4. \A p \in hidden : OpenFound[c][p] # Unset
    BY <1>m, <1>i, <1>o DEF Set
  <1>5. /\ OpenFound' = [OpenFound EXCEPT ![c] = Empty]
        /\ OpenLeft' = [OpenLeft EXCEPT ![c] = Empty]
    <2>1. /\ closed' = closed \cup {c}
          /\ found' = [found EXCEPT ![c] = Empty] /\ left' = [left EXCEPT ![c] = Empty]
      BY DEF CommitDiscard
    <2> QED
      BY <1>t, <1>p, <2>1 DEF OpenFound, OpenLeft, TypeOK
  <1>6. hidden' = {} /\ UNCHANGED <<base, work, archive, edits>>
    BY DEF CommitDiscard, claims
  <1> QED
    BY <1>p, <1>1, <1>2, <1>3, <1>4, <1>5, <1>6
    DEF Atomic!DiscardCycle, Atomic!Empty, Empty, OpenFound, OpenLeft

LEMMA MaintenanceRefines == IInv /\ IInv' /\ Maintenance => [Atomic!Next]_(Atomic!vars)
  <1> SUFFICES ASSUME IInv, IInv', Maintenance PROVE [Atomic!Next]_(Atomic!vars)
    OBVIOUS
  <1>t. TypeOK
    BY DEF IInv
  <1>1. ASSUME NEW k \in Cycles, CompleteCycle(k) \/ PreserveInterruptedCycle(k)
        PROVE  Atomic!Next
    <2>1. UNCHANGED <<disk, manifest, claims, edits, hidden>> /\ archive' \in {archive, archive + 1}
      BY <1>1 DEF CompleteCycle, PreserveInterruptedCycle, tree
    <2>2. View' = View
      BY <2>1 DEF View, Touched, Items, Set
    <2>3. /\ closed' = closed \cup {k}
          /\ \A j \in Cycles \ {k} : found'[j] = found[j] /\ left'[j] = left[j]
      BY <1>t, <1>1 DEF CompleteCycle, PreserveInterruptedCycle, TypeOK
    <2>4. /\ OpenFound' = [OpenFound EXCEPT ![k] = Empty]
          /\ OpenLeft' = [OpenLeft EXCEPT ![k] = Empty]
      BY <2>3 DEF OpenFound, OpenLeft
    <2>5. Atomic!ForgetCycle(k)
      BY <2>1, <2>2, <2>4
      DEF Atomic!ForgetCycle, Atomic!Empty, Empty, OpenFound, OpenLeft, claims
    <2> QED
      BY <2>5 DEF Atomic!Next
  <1>2. ASSUME NEW k \in Cycles, DiscardBegin(k) PROVE Stutters
    <2>1. manifest = Null /\ manifest'.intent = 0
      BY <1>2 DEF DiscardBegin, Discardable, Ready
    <2>2. UNCHANGED <<disk, claims, cycles, archive, edits, hidden>>
      BY <1>2 DEF DiscardBegin, tree
    <2> QED
      BY <1>t, <2>1, <2>2, BeginStutters
  <1>3. CASE DiscardCleanup \/ DiscardCleanupFails
    <2>1. UNCHANGED <<disk, manifest, claims, cycles, archive, edits, hidden>>
      BY <1>3 DEF DiscardCleanup, DiscardCleanupFails, store, claims, cycles
    <2> QED
      BY <2>1, QuietStutters, StutterRefines
  <1>4. CASE CommitDiscard
    <2>1. PICK k \in Cycles : k = op.cycle
      BY <1>4 DEF CommitDiscard, At, IInv, PlanInv
    <2>2. Atomic!DiscardCycle(k)
      BY <1>4, <2>1, CommitDiscardRefines
    <2> QED
      BY <2>2 DEF Atomic!Next
  <1> QED
    BY <1>1, <1>2, <1>3, <1>4, StutterRefines DEF Maintenance

\* A committed rollback changes nothing but what the user wrote behind it.
LEMMA CommitRecoverRefines ==
  ASSUME IInv, IInv', CommitRecover
  PROVE  Atomic!RolledBack
  <1>t. TypeOK /\ TypeOK'
    BY DEF IInv
  <1>m. manifest # Null
    BY RunningManifest DEF CommitRecover, At, Idle
  <1>1. \A p \in Touched(manifest) \ hidden : disk[p] = manifest.before[p]
    <2>1. /\ op.kind = "recover" /\ op.phase = "commit" /\ op.at \in Nat
          /\ \A p \in Touched(manifest) : p <= op.at
      BY <1>t DEF CommitRecover, At, IInv, StepInv, Done, TypeOK
    <2>2. \A p \in Touched(manifest) : p < op.at \/ p = op.at
      BY <2>1, PathsAssumption DEF Touched, Items, Set
    <2> QED
      BY <2>1, <2>2 DEF IInv, StepInv
  <1>2. \A p \in Paths \ hidden : disk[p] = View[p]
    BY <1>m, <1>1, ViewOfTouched
  <1>3. View' = disk /\ hidden' = {} /\ UNCHANGED <<claims, cycles, archive, edits>>
    <2>1. manifest' = Null /\ disk' = disk
      BY DEF CommitRecover, tree
    <2> QED
      BY <1>t, <2>1, ViewIsDiskNext DEF CommitRecover
  <1>4. Atomic!Surfaces(View', View)
    BY <1>t, <1>2, <1>3 DEF Atomic!Surfaces, Atomic!File, File, TypeOK
  <1> QED
    BY <1>3, <1>4 DEF Atomic!RolledBack, claims, cycles

LEMMA PreserveRefines ==
  ASSUME IInv, IInv', PreserveInterruptedFlush
  PROVE  Atomic!Interrupted
  <1>1. View' \in [Paths -> File]
    BY ViewIsFilesNext DEF IInv
  <1> QED
    BY <1>1 DEF PreserveInterruptedFlush, Atomic!Interrupted, Atomic!File, File, claims, cycles

LEMMA UserWriteRefines ==
  ASSUME TypeOK, NEW p \in Paths, NEW v \in File, UserWrite(p, v)
  PROVE  Atomic!UserWrite(p)
  <1>1. /\ disk' = [disk EXCEPT ![p] = v] /\ edits' = edits + 1
        /\ UNCHANGED <<manifest, claims, cycles, archive>>
    BY DEF UserWrite, store, claims, cycles
  <1>2. Touched(manifest)' = Touched(manifest)
    BY <1>1 DEF Touched, Items, Set
  <1>3. CASE manifest # Null /\ p \in Touched(manifest)
    <2>1. View' = View
      BY <1>1, <1>2, <1>3 DEF View, TypeOK
    <2>2. hidden' = hidden \cup {p}
      BY <1>3 DEF UserWrite
    <2> QED
      BY <1>1, <2>1, <2>2 DEF Atomic!UserWrite, claims, cycles
  <1>4. CASE ~(manifest # Null /\ p \in Touched(manifest))
    <2>1. View' = [View EXCEPT ![p] = v]
      BY <1>1, <1>2, <1>4 DEF View, TypeOK
    <2>2. hidden' = hidden
      BY <1>4 DEF UserWrite
    <2> QED
      BY <1>1, <2>1, <2>2 DEF Atomic!UserWrite, Atomic!File, File, claims, cycles
  <1> QED
    BY <1>3, <1>4

-----------------------------------------------------------------------------
LEMMA InitRefines == Init => Atomic!Init
  <1> SUFFICES ASSUME Init PROVE Atomic!Init
    OBVIOUS
  <1>1. View \in [Paths -> File]
    BY InitType, ViewIsFiles
  <1> QED
    BY <1>1 DEF Init, Atomic!Init, Atomic!Empty, Empty, Atomic!File, File

LEMMA NextRefines == IInv /\ IInv' /\ [Next]_vars => [Atomic!Next]_(Atomic!vars)
  <1> SUFFICES ASSUME IInv, IInv', [Next]_vars PROVE [Atomic!Next]_(Atomic!vars)
    OBVIOUS
  <1>1. CASE Staging
    BY <1>1, StagingRefines
  <1>2. CASE Flush
    <2>1. CASE CommitFlush
      <3>1. PICK k \in Agents : k = manifest.author
        BY <2>1, RunningManifest DEF CommitFlush, Idle, Manifest
      <3>2. Atomic!Consolidate(k)
        BY <2>1, <3>1, CommitFlushRefines
      <3> QED
        BY <3>2 DEF Atomic!Next
    <2> QED
      BY <1>2, <2>1, FlushStutters, StutterRefines
  <1>3. CASE Maintenance
    BY <1>3, MaintenanceRefines
  <1>4. CASE RecoverBegin \/ Restore
    <2>1. CASE CommitRecover
      BY <2>1, CommitRecoverRefines DEF Atomic!Next
    <2> QED
      BY <1>4, <2>1, RestoreStutters, StutterRefines
  <1>5. CASE PreserveInterruptedFlush
    BY <1>5, PreserveRefines DEF Atomic!Next
  <1>6. CASE Environment
    <2>1. CASE Stop
      <3>1. UNCHANGED <<disk, manifest, claims, cycles, archive, edits, hidden>>
        BY <2>1 DEF Stop, tree, store, claims, cycles
      <3> QED
        BY <3>1, QuietStutters, StutterRefines
    <2>2. ASSUME NEW p \in Paths, NEW v \in File, UserWrite(p, v) PROVE Atomic!Next
      BY <2>2, UserWriteRefines DEF Atomic!Next, IInv
    <2> QED
      BY <1>6, <2>1, <2>2 DEF Environment
  <1>7. CASE UNCHANGED vars
    <2>1. UNCHANGED <<disk, manifest, claims, cycles, archive, edits, hidden>>
      BY <1>7 DEF vars, claims, cycles
    <2> QED
      BY <2>1, QuietStutters, StutterRefines
  <1> QED
    BY <1>1, <1>2, <1>3, <1>4, <1>5, <1>6, <1>7 DEF Next

\* Consolidations and cycle discards are atomic to everyone who respects the
\* recovery barrier, whatever steps they stop between and wherever the user
\* writes: a flush lands whole over exactly the content its claim captured or
\* it is rolled back to nothing (applyFlush, Recover).
THEOREM Refinement == Spec => ImplementsAtomic
  <1>1. Init => Atomic!Init
    BY InitRefines
  <1>2. IInv /\ IInv' /\ [Next]_vars => [Atomic!Next]_(Atomic!vars)
    BY NextRefines
  <1> QED
    BY <1>1, <1>2, Invariance, PTL DEF Spec, ImplementsAtomic, Atomic!Spec
=============================================================================
