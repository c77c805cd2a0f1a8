---------------------------- MODULE VFSShellProofs ----------------------------
(***************************************************************************)
(* Safety of VFSShell for every set of paths, contents, units and calls:   *)
(* inspections and claims keep apart, a capture lands in the attempt it    *)
(* was prepared for and overwrites nothing its command did not see.        *)
(***************************************************************************)
EXTENDS VFSShell, VFSClaimsProofs

-----------------------------------------------------------------------------
(* The inductive invariant: what the store's record of a call, its sandbox *)
(* root and its native side agree on.                                      *)

ShellTypeOK ==
  /\ disk \in [Paths -> Content]
  /\ calls \in [Calls -> Call \cup {Nothing}]
  /\ roots \in [Calls -> Root \cup {Nothing}]
  /\ host \in [Calls -> Host \cup {Unused}]
  /\ staged = [k \in Keys |-> staged[k]]

\* Only writing units are launched here, so no gate is ever issued.
NoGates == /\ \A k \in Issued : Author(k)
           /\ command.authors = {}

\* A call on record was planned once, by the unit and for the reach its record
\* names; a started one never reads what its plan hid.
Recorded(c) ==
  calls[c] # Nothing =>
    /\ host[c].state # "new"
    /\ host[c].by = calls[c].caller
    /\ host[c].native => calls[c].mode = "native"
    /\ calls[c].mode = "native" => calls[c].started
    /\ InPlace(c) => host[c].scope = calls[c].reads
    /\ calls[c].reads \cap calls[c].hidden = {}
    /\ calls[c].mode = "capture" => calls[c].key \in Issued

\* A native tool that still reads is on record.
ReadingIsRecorded(c) ==
  host[c].state = "running" /\ host[c].native => calls[c] # Nothing

\* The supervisor confirms an end that happened.
ConfirmedHasEnded(c) ==
  roots[c] # Nothing /\ roots[c].confirmed => host[c].state = "ended"

\* What a command saw of a path its binding owns is what it would see now, but
\* for the staged work, unless that work was consolidated or reassigned since.
SeenStands(c) ==
  calls[c] # Nothing /\ calls[c].mode = "capture" /\ c \notin stale =>
    \A p \in Owned(calls[c].key) :
      host[c].seen[p] = IF calls[c].files[p] # Unset THEN calls[c].files[p] ELSE disk[p]

\* No started inspection on record reads what another unit owns.
ReadsNoClaim(c) ==
  calls[c] # Nothing /\ calls[c].started /\ InPlace(c) =>
    \A p \in calls[c].reads : owners[p] # NoKey =>
      /\ calls[c].caller.attempt # NoAttempt
      /\ bindings[owners[p]].unit = calls[c].caller.child

CallInv(c) == /\ Recorded(c) /\ ReadingIsRecorded(c) /\ ConfirmedHasEnded(c)
              /\ SeenStands(c) /\ ReadsNoClaim(c)
CallsInv == \A c \in Calls : CallInv(c)

ShellInv == IInv /\ ShellTypeOK /\ NoGates /\ CallsInv

-----------------------------------------------------------------------------
(* Values the calls are made of. *)

LEMMA CallerType ==
  ASSUME TypeOK, NEW u \in Workers
  PROVE  CallerOf(u) \in Caller
  <1>1. runs[u] \in Run /\ u \in Units
    BY DEF TypeOK, Units
  <1>2. NoAttempt \in 0..MaxAttempts
    BY BoundsAssumption DEF NoAttempt
  <1> QED
    BY <1>1, <1>2 DEF CallerOf, Caller, Run

\* What a child holds is an author's binding, stamped with its unit's attempt.
LEMMA HeldMeans ==
  ASSUME TypeOK, AttemptInv, NEW u \in Workers, NEW k \in HeldKeys(u)
  PROVE  /\ k \in Issued /\ k \in Keys /\ k # NoKey
         /\ bindings[k].unit = u /\ bindings[k].attempt = runs[u].attempt
         /\ ~bindings[k].prelaunch
         /\ InFlight(u) /\ CallerOf(u) = [child |-> u, attempt |-> runs[u].attempt]
         /\ runs[u].attempt # NoAttempt
  <1>1. k \in Issued /\ Current(u) /\ Holds(u, k)
    BY DEF HeldKeys
  <1>2. k \in Keys /\ k # NoKey
    BY <1>1, IssuedAreKeys DEF Keys, NoKey
  <1>3. InFlight(u) /\ u \in Units
    BY <1>1 DEF Current, Units
  <1> QED
    BY <1>1, <1>2, <1>3 DEF Holds, CallerOf, AttemptInv

LEMMA HeldKeyIsHeld ==
  ASSUME NEW u, HeldKey(u) # NoKey
  PROVE  HeldKey(u) \in HeldKeys(u)
  BY DEF HeldKey

LEMMA HeldKeyType ==
  ASSUME TypeOK, NEW u
  PROVE  HeldKey(u) \in Keys \cup {NoKey}
  BY IssuedAreKeys, HeldKeyIsHeld DEF HeldKeys

LEMMA StagedOfType ==
  ASSUME TypeOK, NEW k \in Keys \cup {NoKey}
  PROVE  StagedOf(k) \in Delta
  BY NoDeltaType, DeltaType DEF StagedOf, NoDelta

LEMMA MergedType ==
  ASSUME TypeOK, ShellTypeOK, NEW k \in Keys, NEW p \in Paths
  PROVE  Merged(k, p) \in Content
  <1>1. DeltaOf(k).files \in Files
    BY DeltaType DEF Delta
  <1> QED
    BY <1>1 DEF Merged, Files, ShellTypeOK

LEMMA NewCallType ==
  ASSUME TypeOK, NEW u \in Workers, NEW k \in Keys \cup {NoKey}, NEW mode \in Modes,
         NEW S \in SUBSET Paths
  PROVE  /\ NewCall(u, k, mode, S, TRUE) \in Call
         /\ NewCall(u, k, mode, S, FALSE) \in Call
  <1>1. CallerOf(u) \in Caller
    BY CallerType
  <1>2. StagedOf(k).revision \in 0..MaxRevision /\ StagedOf(k).files \in Files
    BY StagedOfType DEF Delta
  <1>3. Foreign(k) \in SUBSET Paths
    BY DEF Foreign
  <1> QED
    BY <1>1, <1>2, <1>3 DEF NewCall, Call

-----------------------------------------------------------------------------
(* What a capture does to the staged work. *)

\* A capture stages paths its binding owns, at most once each.
LEMMA CaptureEffect ==
  ASSUME IInv, ShellTypeOK, NEW c \in Calls, NEW k \in Issued, k = calls[c].key,
         roots[c] # Nothing, NEW P \in SUBSET Diverged(c), Capture(c, P)
  PROVE  /\ k \in Keys /\ P \subseteq Owned(k)
         /\ UNCHANGED <<bindings, owners, issued, runs, command, asked, declared, direct>>
         /\ staged' = [j \in Keys |-> staged'[j]]
         /\ \A j \in Keys \ {k} : staged'[j] = staged[j]
         /\ staged'[k] \in Delta \cup {Nothing}
         /\ \A p \in Paths : DeltaOf(k)'.files[p] = DeltaOf(k).files[p] \/ p \in P
         /\ DeltaOf(k).bases \subseteq DeltaOf(k)'.bases
         /\ DeltaOf(k)'.bases \subseteq DeltaOf(k).bases \cup P
  <1> DEFINE f == [p \in Paths |-> IF p \in P THEN roots[c].files[p] ELSE DeltaOf(k).files[p]]
             d == [DeltaOf(k) EXCEPT !.files = f, !.revision = @ + Cardinality(P),
                                     !.bases = @ \cup P, !.verdicts = NoVerdicts]
  <1>1. k \in Keys /\ DeltaOf(k) \in Delta /\ staged[k] \in Delta \cup {Nothing}
    BY IssuedAreKeys, DeltaType DEF IInv, TypeOK
  <1>2. P \subseteq Owned(k) /\ P \subseteq Paths
    BY DEF Diverged, Owned
  <1>3. UNCHANGED <<bindings, owners, issued, runs, command, asked, declared, direct>>
    BY DEF Capture
  <1>4. CASE P = {}
    <2>1. staged' = staged
      BY <1>4 DEF Capture
    <2>2. staged' = [j \in Keys |-> staged'[j]] /\ DeltaOf(k)' = DeltaOf(k)
      BY <2>1 DEF DeltaOf, ShellTypeOK
    <2> QED
      BY <1>1, <1>2, <1>3, <1>4, <2>1, <2>2
  <1>5. CASE P # {}
    <2>1. staged' = [staged EXCEPT ![k] = d] /\ DeltaOf(k).revision + Cardinality(P) <= MaxRevision
      BY <1>1, <1>5 DEF Capture, Delta
    <2>2. Cardinality(P) \in Nat
      BY <1>2, ContentAssumption, FS_Subset, FS_CardinalityType
    <2>3. calls[c].mode = "capture"
      BY <1>5 DEF Diverged
    <2>4. f \in Files
      <3>1. ASSUME NEW p \in P PROVE roots[c].files[p] \in Content
        <4>1. roots[c].files[p] # Projected(Merged(k, p)) /\ p \in Paths
          BY <1>2, <2>3 DEF Diverged
        <4>2. roots[c] \in Root
          BY DEF ShellTypeOK
        <4> QED
          BY <4>1, <4>2 DEF Root
      <3>2. DeltaOf(k).files \in Files
        BY <1>1 DEF Delta
      <3> QED
        BY <1>2, <3>1, <3>2 DEF Files
    <2>5. /\ d \in Delta /\ d.files = f /\ d.bases = DeltaOf(k).bases \cup P
      <3>1. NoVerdicts \in [Agents -> Verdict \cup {Nothing}]
        BY DEF NoVerdicts
      <3>2. DeltaOf(k).revision + Cardinality(P) \in 0..MaxRevision
        BY <1>1, <2>1, <2>2, BoundsAssumption DEF Delta
      <3> HIDE DEF f
      <3> QED
        BY <1>1, <1>2, <2>4, <3>1, <3>2 DEF Delta
    <2> HIDE DEF d
    <2>6. /\ staged'[k] = d /\ \A j \in Keys \ {k} : staged'[j] = staged[j]
          /\ staged' = [j \in Keys |-> staged'[j]]
      BY <1>1, <2>1 DEF IInv, TypeOK
    <2>7. DeltaOf(k)' = d
      BY <2>5, <2>6, NothingAssumption DEF DeltaOf
    <2>8. \A p \in Paths : d.files[p] = DeltaOf(k).files[p] \/ p \in P
      BY <2>5
    <2> QED
      BY <1>1, <1>2, <1>3, <2>5, <2>6, <2>7, <2>8
  <1> QED
    BY <1>4, <1>5

\* A capture keeps what claims, gates and attempts agree on.
LEMMA CaptureInv ==
  ASSUME IInv, ShellTypeOK, NEW c \in Calls, NEW k \in Issued, k = calls[c].key,
         roots[c] # Nothing, NEW P \in SUBSET Diverged(c), Capture(c, P)
  PROVE  IInv' /\ staged' = [j \in Keys |-> staged'[j]]
  <1> USE DEF IInv
  <1>1. /\ k \in Keys /\ P \subseteq Owned(k)
        /\ UNCHANGED <<bindings, owners, issued, runs, command, asked, declared, direct>>
        /\ staged' = [j \in Keys |-> staged'[j]]
        /\ \A j \in Keys \ {k} : staged'[j] = staged[j]
        /\ staged'[k] \in Delta \cup {Nothing}
        /\ \A p \in Paths : DeltaOf(k)'.files[p] = DeltaOf(k).files[p] \/ p \in P
        /\ DeltaOf(k).bases \subseteq DeltaOf(k)'.bases
    BY CaptureEffect
  <1>2. Issued' = Issued /\ (\A j : Author(j)' <=> Author(j)) /\ (\A j : Gate(j)' <=> Gate(j))
        /\ \A j : Owned(j)' = Owned(j)
    BY <1>1 DEF Issued, Author, Gate, Owned
  <1>3. TypeOK'
    <2>1. \A j \in Keys : staged'[j] \in Delta \cup {Nothing}
      BY <1>1 DEF TypeOK
    <2> QED
      BY <1>1, <2>1 DEF TypeOK
  <1>4. CommandInv'
    BY <1>1, <1>2 DEF CommandInv
  <1>5. AttemptInv'
    BY <1>1, <1>2 DEF AttemptInv, InFlight
  <1>6. GateInv'
    BY <1>1, <1>2 DEF GateInv
  <1>7. \A j \in Keys \ {k} : DeltaOf(j)' = DeltaOf(j)
    BY <1>1 DEF DeltaOf
  <1>8. StagedOwned'
    <2> SUFFICES ASSUME NEW j \in Keys, NEW p \in Paths, DeltaOf(j)'.files[p] # Unset
                 PROVE  p \in Owned(j)
      BY <1>2 DEF StagedOwned, Set
    <2> QED
      BY <1>1, <1>7 DEF StagedOwned, Set
  <1>9. OwnedHasBase'
    <2> SUFFICES ASSUME NEW p \in Paths, NEW j, j = owners[p], j # NoKey
                 PROVE  j \in Issued /\ p \in DeltaOf(j)'.bases
      BY <1>1, <1>2 DEF OwnedHasBase
    <2>1. j \in Issued /\ p \in DeltaOf(j).bases /\ j \in Keys
      BY IssuedAreKeys DEF OwnedHasBase
    <2> QED
      BY <1>1, <1>7, <2>1
  <1>10. BindIsUnambiguous'
    BY <1>1, <1>2 DEF BindIsUnambiguous
  <1>11. AssignedClaimsRespectReaders'
    BY <1>1, <1>2 DEF AssignedClaimsRespectReaders, Collides, Live, InFlight
  <1> QED
    BY <1>1, <1>3, <1>4, <1>5, <1>6, <1>8, <1>9, <1>10, <1>11

-----------------------------------------------------------------------------
(* Every step of the shell is a step of the claims or a capture.           *)

\* The claims' part of a step, the call's record apart.
ClaimsStep == ClaimStep \/ OtherStep \/ (\E k \in Issued : ConsolidateStep(k))
                        \/ (\E u \in Workers : FinishStep(u))

LEMMA ClaimsStepIsNext == ASSUME ClaimsStep PROVE Next
  <1>1. CASE ClaimStep
    BY <1>1 DEF ClaimStep, Reserve, Reassign, Next, Claims, Children
  <1>2. CASE OtherStep
    BY <1>2 DEF OtherStep, Operate, Next, Claims, Children, Closing, Launching, Units
  <1>3. CASE \E k \in Issued : ConsolidateStep(k)
    BY <1>3 DEF ConsolidateStep, Next, Closing
  <1>4. CASE \E u \in Workers : FinishStep(u)
    BY <1>4 DEF FinishStep, Next, Launching, Units
  <1> QED
    BY <1>1, <1>2, <1>3, <1>4 DEF ClaimsStep

\* Staged work stays a function of the keys.
LEMMA StagedStays ==
  ASSUME TypeOK, ShellTypeOK, ClaimsStep
  PROVE  staged' = [k \in Keys |-> staged'[k]]
  <1> DEFINE Total == staged' = [k \in Keys |-> staged'[k]]
  <1>0. staged = [k \in Keys |-> staged[k]]
    BY DEF ShellTypeOK
  <1>1. ASSUME NEW k, NEW b, NEW S, ClaimAs(k, b, S) PROVE Total
    BY <1>0, <1>1 DEF ClaimAs
  <1>2. ASSUME NEW k, NEW u, NEW S, NEW R, Rebind(k, u, S, R) PROVE Total
    BY <1>0, <1>2 DEF Rebind
  <1>3. ASSUME NEW k, NEW u, NEW S, NEW R, HandOver(k, u, S, R) PROVE Total
    BY <1>0, <1>3 DEF HandOver
  <1>4. CASE UNCHANGED staged
    BY <1>0, <1>4
  <1>5. CASE ClaimStep
    <2>1. PICK u \in Workers, S \in SUBSET Paths, R \in ReadSets :
             \/ Reserve(u, S, R) \/ BindFresh(u, S)
             \/ \E k \in Issued : Rebind(k, u, S, R) \/ Reassign(k, u, S, R)
      BY <1>5 DEF ClaimStep
    <2>2. CASE Reserve(u, S, R)
      BY <1>1, <2>2 DEF Reserve, AssignScope
    <2>3. CASE BindFresh(u, S)
      BY <1>1, <2>3 DEF BindFresh
    <2>4. ASSUME NEW k \in Issued, Rebind(k, u, S, R) PROVE Total
      BY <1>2, <2>4
    <2>5. ASSUME NEW k \in Issued, Reassign(k, u, S, R) PROVE Total
      BY <1>2, <1>3, <2>5 DEF Reassign
    <2> QED
      <3>1. CASE \E k \in Issued : Rebind(k, u, S, R)
        BY <2>4, <3>1
      <3>2. CASE \E k \in Issued : Reassign(k, u, S, R)
        BY <2>5, <3>2
      <3> QED
        BY <2>1, <2>2, <2>3, <3>1, <3>2
  <1>6. CASE OtherStep
    <2>1. ASSUME NEW k, ReleaseClaim(k) \/ \E u \in Workers : BindAdopt(u, k) PROVE Total
      BY <1>4, <2>1 DEF ReleaseClaim, Revoke, BindAdopt
    <2>2. ASSUME NEW k, Discard(k) PROVE Total
      BY <1>0, <2>2 DEF Discard
    <2>3. ASSUME NEW u, NEW k, NEW p, NEW v, Write(u, k, p, v) PROVE Total
      BY <1>0, <2>3 DEF Write
    <2>4. CASE IssueGates
      BY <2>4 DEF IssueGates
    <2>5. CASE MarkReady \/ Settle \/ Stop \/ \E u \in Workers : Launch(u, {})
      BY <1>4, <2>5 DEF MarkReady, Settle, Stop, Launch, store
    <2> QED
      BY <1>6, <2>1, <2>2, <2>3, <2>4, <2>5 DEF OtherStep, Operate
  <1>7. CASE \E k \in Issued : ConsolidateStep(k)
    BY <1>0, <1>7 DEF ConsolidateStep, Consolidate, Closed
  <1>8. CASE \E u \in Workers : FinishStep(u)
    BY <1>8 DEF FinishStep, Finish, Cancel
  <1> QED
    BY <1>5, <1>6, <1>7, <1>8 DEF ClaimsStep

-----------------------------------------------------------------------------
(* What a step of the claims does to the owner of a path.                  *)

\* No started inspection of another than u's running attempt reads within S.
Spares(u, S) ==
  \A c \in Calls : calls[c] # Nothing /\ calls[c].started /\ InPlace(c) =>
    \/ calls[c].caller.child = u /\ calls[c].caller.attempt # NoAttempt
    \/ S \cap calls[c].reads = {}

LEMMA KeptReadsAreSpared ==
  ASSUME NEW u, NEW k, NEW S, ClaimKeepsReads(u, k, S) PROVE Spares(u, S)
  BY DEF ClaimKeepsReads, Spares

Stays(p) == /\ owners'[p] = owners[p] /\ owners[p] \in Issued
            /\ bindings'[owners[p]].unit = bindings[owners[p]].unit
\* A path is gained by a new key, or by one that was just reassigned.
Gained(p) == /\ owners'[p] \notin Issued \/ bindings'[owners'[p]].prelaunch
             /\ \E u, S : p \in S /\ bindings'[owners'[p]].unit = u /\ Spares(u, S)

LEMMA FreshGains ==
  ASSUME TypeOK, GateInv, NEW u, NEW a, NEW R, NEW S, Spares(u, S), issued < MaxKeys,
         bindings' = With(bindings, issued + 1, FreshBinding(u, a, R)),
         owners' = [p \in Paths |-> IF p \in S THEN issued + 1 ELSE owners[p]],
         NEW p \in Paths, owners'[p] # NoKey
  PROVE  Stays(p) \/ Gained(p)
  <1> DEFINE n == issued + 1
             b == FreshBinding(u, a, R)
  <1>1. n \notin Issued /\ bindings'[n] = b /\ \A i \in Issued : bindings'[i] = bindings[i]
    BY NewKeyEffect
  <1>2. b.unit = u
    BY DEF FreshBinding
  <1> HIDE DEF b
  <1>3. CASE p \in S
    BY <1>1, <1>2, <1>3 DEF Gained
  <1>4. CASE p \notin S
    BY <1>1, <1>4 DEF Stays, GateInv, Author
  <1> QED
    BY <1>3, <1>4

LEMMA OwnersMove ==
  ASSUME IInv, ShellTypeOK, NoGates, ClaimsStep, NEW p \in Paths, owners'[p] # NoKey
  PROVE  Stays(p) \/ Gained(p)
  <1> USE DEF IInv
  <1>0. owners[p] # NoKey => owners[p] \in Issued
    BY DEF GateInv, Author
  <1>1. ASSUME owners'[p] = owners[p],
               \A k \in Issued : bindings'[k].unit = bindings[k].unit
        PROVE  Stays(p)
    BY <1>0, <1>1 DEF Stays
  <1>2. CASE ClaimStep
    <2>1. ASSUME NEW u \in Workers, NEW S \in SUBSET Paths, NEW R \in ReadSets, Reserve(u, S, R)
          PROVE  Stays(p) \/ Gained(p)
      BY <2>1, FreshGains, KeptReadsAreSpared DEF Reserve, AssignScope, ClaimAs
    <2>2. ASSUME NEW u \in Workers, NEW S \in SUBSET Paths, ClaimKeepsReads(u, NoKey, S), BindFresh(u, S)
          PROVE  Stays(p) \/ Gained(p)
      BY <2>2, FreshGains, KeptReadsAreSpared DEF BindFresh, ClaimAs
    <2>3. ASSUME NEW u \in Workers, NEW S \in SUBSET Paths, NEW R \in ReadSets, NEW k \in Issued,
                 Reassign(k, u, S, R)
          PROVE  Stays(p) \/ Gained(p)
      BY <2>3, FreshGains, KeptReadsAreSpared DEF Reassign, HandOver
    <2>4. ASSUME NEW u \in Workers, NEW S \in SUBSET Paths, NEW R \in ReadSets, NEW k \in Issued,
                 ClaimKeepsReads(u, k, S), Rebind(k, u, S, R)
          PROVE  Stays(p) \/ Gained(p)
      <3>1. /\ \A i \in Issued \ {k} : bindings'[i] = bindings[i]
            /\ bindings'[k].unit = u /\ bindings'[k].prelaunch
        BY <2>4, RebindEffect
      <3>2. owners'[p] = IF p \in S THEN k ELSE IF owners[p] = k THEN NoKey ELSE owners[p]
        BY <2>4 DEF Rebind
      <3>3. CASE p \in S
        BY <2>4, <3>1, <3>2, <3>3, KeptReadsAreSpared DEF Gained
      <3>4. CASE p \notin S
        BY <1>0, <3>1, <3>2, <3>4 DEF Stays
      <3> QED
        BY <3>3, <3>4
    <2> QED
      BY <1>2, <2>1, <2>2, <2>3, <2>4 DEF ClaimStep
  <1>3. ASSUME NEW k, owners' = [q \in Paths |-> IF owners[q] = k THEN NoKey ELSE owners[q]]
        PROVE  owners'[p] = owners[p]
    BY <1>3
  <1>4. CASE OtherStep
    <2>1. ASSUME NEW k \in Issued, ReleaseClaim(k) PROVE Stays(p)
      <3>1. owners'[p] = owners[p]
        BY <1>3, <2>1 DEF ReleaseClaim, Revoke
      <3>2. bindings'[k].unit = bindings[k].unit
        BY <2>1, ReleaseEffect DEF Binding
      <3> QED
        BY <1>1, <2>1, <3>1, <3>2, ReleaseEffect
    <2>2. ASSUME NEW k \in Issued, Discard(k) PROVE Stays(p)
      BY <1>1, <1>3, <2>2 DEF Discard
    <2>3. ASSUME NEW u \in Workers, NEW k \in Issued, BindAdopt(u, k) PROVE Stays(p)
      <3>1. owners' = owners
        BY <2>3 DEF BindAdopt
      <3> QED
        BY <1>1, <2>3, <3>1, AdoptEffect
    <2>4. CASE IssueGates
      <3>1. GatesOnly
        BY <2>4, IssueOnly
      <3> QED
        BY <1>1, <3>1 DEF GatesOnly, NoGates
    <2>5. CASE Operate \/ MarkReady \/ Settle \/ Stop \/ \E u \in Workers : Launch(u, {})
      BY <1>1, <2>5 DEF Operate, Write, MarkReady, Settle, Stop, Launch, store
    <2> QED
      BY <1>4, <2>1, <2>2, <2>3, <2>4, <2>5 DEF OtherStep
  <1>5. CASE \E k \in Issued : ConsolidateStep(k)
    BY <1>1, <1>3, <1>5 DEF ConsolidateStep, Consolidate, Closed
  <1>6. CASE \E u \in Workers : FinishStep(u)
    <2>1. PICK u \in Workers : FinishStep(u)
      BY <1>6
    <2>2. GatesOnly
      BY <2>1, CancelOnly DEF FinishStep, Finish
    <2> QED
      BY <1>1, <2>2 DEF GatesOnly, NoGates
  <1> QED
    BY <1>2, <1>4, <1>5, <1>6 DEF ClaimsStep

\* A step of the claims issues no gate and forgets no author.
LEMMA AuthorsStay ==
  ASSUME IInv, NoGates, ClaimsStep
  PROVE  Issued \subseteq Issued' /\ NoGates'
  <1> USE DEF IInv
  <1>0. \A k \in Issued : bindings[k].over = NoKey /\ bindings[k] \in Binding
    BY DEF NoGates, Author, TypeOK, Issued
  <1>1. ASSUME Issued \subseteq Issued', \A k \in Issued' : bindings'[k].over = NoKey
        PROVE  Issued \subseteq Issued' /\ \A k \in Issued' : Author(k)'
    BY <1>1 DEF Author
  <1>2. ASSUME NEW u, NEW a, NEW R, issued < MaxKeys,
               bindings' = With(bindings, issued + 1, FreshBinding(u, a, R))
        PROVE  Issued \subseteq Issued' /\ \A k \in Issued' : bindings'[k].over = NoKey
    <2> DEFINE b == FreshBinding(u, a, R)
    <2>1. b.over = NoKey
      BY DEF FreshBinding
    <2>2. Issued' = Issued \cup {issued + 1} /\ bindings'[issued + 1] = b
          /\ \A i \in Issued : bindings'[i] = bindings[i]
      BY <1>2, NewKeyEffect
    <2> HIDE DEF b
    <2> QED
      BY <1>0, <2>1, <2>2
  <1>3. CASE ClaimStep
    <2> DEFINE Kept == /\ Issued \subseteq Issued'
                       /\ \A k \in Issued' : bindings'[k].over = NoKey
                       /\ command' = command
    <2>1. ASSUME NEW u, NEW S, NEW R, AssignScope(u, S, R) \/ BindFresh(u, S) PROVE Kept
      BY <1>2, <2>1 DEF AssignScope, BindFresh, ClaimAs
    <2>2. ASSUME NEW u, NEW S, NEW R, NEW k \in Issued, Rebind(k, u, S, R) PROVE Kept
      <3>1. command' = command
        BY <2>2 DEF Rebind
      <3> QED
        BY <1>0, <2>2, <3>1, RebindEffect
    <2>3. ASSUME NEW u, NEW S, NEW R, NEW k, HandOver(k, u, S, R) PROVE Kept
      BY <1>2, <2>3 DEF HandOver
    <2>4. Kept
      BY <1>3, <2>1, <2>2, <2>3 DEF ClaimStep, Reserve, Reassign
    <2> QED
      BY <1>1, <2>4 DEF NoGates
  <1>4. CASE OtherStep
    <2>1. ASSUME NEW k \in Issued, ReleaseClaim(k) PROVE Issued \subseteq Issued' /\ NoGates'
      <3>1. bindings'[k].over = NoKey
        BY <1>0, <2>1, ReleaseEffect DEF Binding
      <3>2. command' = command
        BY <2>1 DEF ReleaseClaim, Revoke
      <3> QED
        BY <1>0, <1>1, <2>1, <3>1, <3>2, ReleaseEffect DEF NoGates
    <2>2. ASSUME NEW u \in Workers, NEW k \in Issued, BindAdopt(u, k)
          PROVE  Issued \subseteq Issued' /\ NoGates'
      <3>1. command' = command
        BY <2>2 DEF BindAdopt
      <3> QED
        BY <1>0, <1>1, <2>2, <3>1, AdoptEffect DEF NoGates
    <2>3. CASE IssueGates
      <3>1. \A g \in DOMAIN bindings' : g \in Issued
        BY <2>3, IssueGatesEffect DEF NoGates
      <3>2. Issued \subseteq Issued'
        BY <1>0, <2>3, IssueGatesEffect DEF Gate, Issued
      <3>3. \A g \in Issued' : bindings'[g] = bindings[g]
        BY <1>0, <2>3, <3>1, IssueGatesEffect DEF Gate, Issued
      <3>4. command'.authors = {}
        BY <2>3 DEF IssueGates, NoGates, TypeOK
      <3> QED
        BY <1>0, <1>1, <3>1, <3>2, <3>3, <3>4 DEF NoGates, Issued
    <2>4. CASE Operate \/ \E k \in Issued : Discard(k)
      BY <2>4 DEF Operate, Write, Discard, NoGates, Author, Issued
    <2>5. CASE MarkReady \/ Settle \/ Stop \/ \E u \in Workers : Launch(u, {})
      BY <2>5 DEF MarkReady, Settle, Stop, Launch, store, Idle, NoGates, Author, Issued
    <2> QED
      BY <1>4, <2>1, <2>2, <2>3, <2>4, <2>5 DEF OtherStep
  <1>5. CASE \E k \in Issued : ConsolidateStep(k)
    BY <1>5 DEF ConsolidateStep, Consolidate, Closed, NoGates, Author, Issued
  <1>6. CASE \E u \in Workers : FinishStep(u)
    <2>1. PICK u \in Workers : FinishStep(u)
      BY <1>6
    <2>2. AttemptGates(u) = {}
      BY <1>0 DEF AttemptGates, Gate
    <2>3. bindings' = [g \in Issued |-> bindings[g]] /\ command'.authors = {}
      BY <2>1, <2>2 DEF FinishStep, Finish, Cancel
    <2>4. Issued' = Issued /\ \A g \in Issued' : bindings'[g] = bindings[g]
      BY <2>3 DEF Issued
    <2> QED
      BY <1>0, <1>1, <2>3, <2>4 DEF NoGates
  <1> QED
    BY <1>3, <1>4, <1>5, <1>6 DEF ClaimsStep

\* The end of an attempt leaves the staged work as it was.
LEMMA FinishKeepsWork ==
  ASSUME ShellTypeOK, NoGates, NEW u, Finish(u) PROVE UNCHANGED <<staged, owners>>
  <1>1. AttemptGates(u) = {}
    BY DEF AttemptGates, Gate, NoGates, Author
  <1> QED
    BY <1>1 DEF Finish, Cancel, ShellTypeOK

\* The workspace changes under a path only with the work of the key that owns it.
LEMMA DiskMoves ==
  ASSUME IInv, ShellTypeOK, ClaimsStep, NEW p \in Paths, NEW k \in Keys, owners[p] = k
  PROVE  disk'[p] = disk[p] \/ staged'[k] = Nothing
  <1>1. CASE ClaimStep \/ OtherStep \/ \E u \in Workers : FinishStep(u)
    BY <1>1 DEF ClaimStep, OtherStep, FinishStep
  <1>2. CASE \E j \in Issued : ConsolidateStep(j)
    <2>1. PICK j \in Issued : ConsolidateStep(j)
      BY <1>2
    <2>2. j \in Keys
      BY IssuedAreKeys DEF IInv
    <2>3. staged'[j] = Nothing
      BY <2>1, <2>2 DEF ConsolidateStep, Consolidate, Closed, IInv, TypeOK
    <2>4. CASE DeltaOf(j).files[p] # Unset
      BY <2>2, <2>3, <2>4 DEF IInv, StagedOwned, Set, Owned
    <2>5. CASE DeltaOf(j).files[p] = Unset
      BY <2>1, <2>5 DEF ConsolidateStep
    <2> QED
      BY <2>4, <2>5
  <1> QED
    BY <1>1, <1>2 DEF ClaimsStep

LEMMA DiskType == ASSUME IInv, ShellTypeOK, ClaimsStep PROVE disk' \in [Paths -> Content]
  <1>1. CASE ClaimStep \/ OtherStep \/ \E u \in Workers : FinishStep(u)
    BY <1>1 DEF ClaimStep, OtherStep, FinishStep, ShellTypeOK
  <1>2. ASSUME NEW k \in Issued, ConsolidateStep(k) PROVE disk' \in [Paths -> Content]
    <2>1. DeltaOf(k).files \in [Paths -> Content \cup {Unset}]
      BY IssuedAreKeys, DeltaType DEF IInv, Delta, Files
    <2> QED
      BY <1>2, <2>1 DEF ConsolidateStep, ShellTypeOK
  <1> QED
    BY <1>1, <1>2 DEF ClaimsStep

-----------------------------------------------------------------------------
(* The claims keep what the calls are known by.                            *)

StaleStep ==
  stale' = {c \in Calls : /\ calls'[c] # Nothing /\ calls'[c].key # NoKey
                          /\ \/ c \in stale
                             \/ staged'[calls'[c].key] = Nothing
                             \/ bindings'[calls'[c].key].prelaunch}

\* A capture still on record leaves the stale ones never.
LEMMA StaleStays ==
  ASSUME TypeOK, StaleStep, NEW c \in Calls, calls'[c] = calls[c], Recorded(c),
         calls[c] # Nothing, calls[c].mode = "capture", c \notin stale'
  PROVE  /\ c \notin stale /\ calls[c].key \in Issued
         /\ staged'[calls[c].key] # Nothing /\ ~bindings'[calls[c].key].prelaunch
  <1>1. calls[c].key \in Issued /\ calls[c].key # NoKey
    BY IssuedAreKeys DEF Recorded, Keys, NoKey
  <1> QED
    BY <1>1 DEF StaleStep

\* A step of the claims forgets at most the shells of a finished attempt.
LEMMA ClaimsForget ==
  ASSUME ClaimsStep, ShellTypeOK
  PROVE  /\ UNCHANGED <<roots, host>> /\ calls' \in [Calls -> Call \cup {Nothing}]
         /\ \A c \in Calls : \/ calls'[c] = calls[c]
                             \/ calls'[c] = Nothing /\ calls[c] # Nothing /\ calls[c].mode # "native"
  <1>1. CASE ClaimStep \/ OtherStep \/ \E k \in Issued : ConsolidateStep(k)
    BY <1>1 DEF ClaimStep, OtherStep, ConsolidateStep, shellVars, ShellTypeOK
  <1>2. CASE \E u \in Workers : FinishStep(u)
    BY <1>2 DEF FinishStep, ShellTypeOK
  <1> QED
    BY <1>1, <1>2 DEF ClaimsStep

LEMMA ClaimsKeepCalls ==
  ASSUME ShellInv, ClaimsStep, StaleStep, NEW c \in Calls
  PROVE  CallInv(c)'
  <1> USE DEF ShellInv
  <1>0. CallInv(c) /\ TypeOK
    BY DEF CallsInv, IInv
  <1>1. roots'[c] = roots[c] /\ host'[c] = host[c]
    BY ClaimsForget
  <1>2. CASE calls'[c] = Nothing
    <2>1. host[c].state = "running" /\ host[c].native => calls[c] = Nothing
      BY <1>0, <1>2, ClaimsForget DEF CallInv, Recorded
    <2>2. ReadingIsRecorded(c)'
      BY <1>0, <1>1, <2>1 DEF CallInv, ReadingIsRecorded
    <2> QED
      BY <1>0, <1>1, <1>2, <2>2
      DEF CallInv, Recorded, ConfirmedHasEnded, SeenStands, ReadsNoClaim
  <1>3. CASE calls'[c] = calls[c] /\ calls[c] # Nothing
    <2>1. Recorded(c)'
      BY <1>0, <1>1, <1>3, AuthorsStay DEF CallInv, Recorded, InPlace
    <2>2. ReadingIsRecorded(c)' /\ ConfirmedHasEnded(c)'
      BY <1>0, <1>1, <1>3 DEF CallInv, ReadingIsRecorded, ConfirmedHasEnded
    <2>3. SeenStands(c)'
      <3>1. SUFFICES ASSUME calls[c].mode = "capture", c \notin stale',
                            NEW p \in Paths, owners'[p] = calls[c].key
                     PROVE  host[c].seen[p] = IF calls[c].files[p] # Unset
                                              THEN calls[c].files[p] ELSE disk'[p]
        BY <1>1, <1>3 DEF SeenStands, Owned
      <3>2. /\ c \notin stale /\ calls[c].key \in Issued
            /\ staged'[calls[c].key] # Nothing /\ ~bindings'[calls[c].key].prelaunch
        BY <1>0, <1>3, <3>1, StaleStays DEF CallInv
      <3>3. calls[c].key \in Keys /\ calls[c].key # NoKey
        BY <1>0, <3>2, IssuedAreKeys DEF Keys, NoKey
      <3>4. owners[p] = calls[c].key
        BY <3>1, <3>2, <3>3, OwnersMove DEF Stays, Gained
      <3>5. disk'[p] = disk[p]
        BY <3>2, <3>3, <3>4, DiskMoves
      <3> QED
        BY <1>0, <1>3, <3>1, <3>2, <3>4, <3>5 DEF CallInv, SeenStands, Owned
    <2>4. ReadsNoClaim(c)'
      <3>1. SUFFICES ASSUME calls[c].started, InPlace(c), NEW p \in calls[c].reads,
                            owners'[p] # NoKey
                     PROVE  /\ calls[c].caller.attempt # NoAttempt
                            /\ bindings'[owners'[p]].unit = calls[c].caller.child
        BY <1>3 DEF ReadsNoClaim, InPlace
      <3>2. p \in Paths
        BY <1>3 DEF ShellTypeOK, Call
      <3>3. CASE Stays(p)
        BY <1>0, <1>3, <3>1, <3>3 DEF CallInv, ReadsNoClaim, Stays
      <3>4. CASE Gained(p)
        BY <1>3, <3>1, <3>4 DEF Gained, Spares
      <3> QED
        BY <3>1, <3>2, <3>3, <3>4, OwnersMove
    <2> QED
      BY <2>1, <2>2, <2>3, <2>4 DEF CallInv
  <1> QED
    BY <1>2, <1>3, ClaimsForget

LEMMA ClaimsKeepShell == ASSUME ShellInv, ClaimsStep, StaleStep PROVE ShellInv'
  <1> USE DEF ShellInv
  <1>1. IInv'
    BY ClaimsStepIsNext, InvStep
  <1>2. ShellTypeOK'
    BY StagedStays, DiskType, ClaimsForget DEF IInv, ShellTypeOK
  <1>3. NoGates'
    BY AuthorsStay
  <1>4. CallsInv'
    BY ClaimsKeepCalls DEF CallsInv
  <1> QED
    BY <1>1, <1>2, <1>3, <1>4

-----------------------------------------------------------------------------
(* What a step of one call does to its record.                             *)

\* A step of call c keeps the records' types and leaves the other calls alone.
Touches(c) ==
  /\ calls' \in [Calls -> Call \cup {Nothing}]
  /\ roots' \in [Calls -> Root \cup {Nothing}]
  /\ host' \in [Calls -> Host \cup {Unused}]
  /\ \A d \in Calls \ {c} : calls'[d] = calls[d] /\ roots'[d] = roots[d] /\ host'[d] = host[d]
  /\ CallInv(c)'

LEMMA UnusedType == Unused.state = "new" /\ ~Unused.native /\ Unused.scope = {}
  BY DEF Unused

\* What a plan writes for the host of a call that waits, or that runs at once.
PlannedHost(u, k, mode, S) ==
  [state |-> "planned", by |-> CallerOf(u), native |-> FALSE,
   scope |-> IF mode = "capture" THEN Owned(k) ELSE S, seen |-> Seen(k, mode)]
NativeHost(u, k, S) ==
  [state |-> "running", by |-> CallerOf(u), native |-> TRUE, scope |-> S,
   seen |-> Seen(k, "native")]

LEMMA PlannedHostType ==
  ASSUME TypeOK, ShellTypeOK, NEW u \in Workers, NEW k \in Keys \cup {NoKey}, NEW mode,
         NEW S \in SUBSET Paths, mode = "capture" => k \in Keys
  PROVE  /\ PlannedHost(u, k, mode, S) \in Host
         /\ PlannedHost(u, k, mode, S).state = "planned" /\ ~PlannedHost(u, k, mode, S).native
         /\ PlannedHost(u, k, mode, S).by = CallerOf(u)
         /\ mode # "capture" => PlannedHost(u, k, mode, S).scope = S
         /\ PlannedHost(u, k, mode, S).seen = Seen(k, mode)
  <1>1. Seen(k, mode) \in [Paths -> Content]
    BY MergedType, ContentAssumption DEF Seen
  <1>2. PlannedHost(u, k, mode, S) \in Host
    BY <1>1, CallerType DEF Host, Owned, PlannedHost
  <1> QED
    BY <1>2 DEF PlannedHost

LEMMA NativeHostType ==
  ASSUME TypeOK, NEW u \in Workers, NEW k, NEW S \in SUBSET Paths
  PROVE  /\ NativeHost(u, k, S) \in Host
         /\ NativeHost(u, k, S).state = "running" /\ NativeHost(u, k, S).native
         /\ NativeHost(u, k, S).by = CallerOf(u) /\ NativeHost(u, k, S).scope = S
  <1>1. Seen(k, "native") \in [Paths -> Content]
    BY ContentAssumption DEF Seen
  <1>2. NativeHost(u, k, S) \in Host
    BY <1>1, CallerType DEF Host, NativeHost
  <1> QED
    BY <1>2 DEF NativeHost

\* A plan writes one call and one host.
LEMMA PlanEffect ==
  ASSUME ShellTypeOK, NEW c \in Calls, NEW n \in Call, NEW h \in Host,
         calls' = [calls EXCEPT ![c] = n], host' = [host EXCEPT ![c] = h]
  PROVE  /\ calls' \in [Calls -> Call \cup {Nothing}] /\ host' \in [Calls -> Host \cup {Unused}]
         /\ calls'[c] = n /\ calls'[c] # Nothing /\ host'[c] = h
         /\ \A d \in Calls \ {c} : calls'[d] = calls[d] /\ host'[d] = host[d]
  BY ReservedAssumption DEF ShellTypeOK

\* A call that was never planned has no confirmed root.
LEMMA AdmittedIsNew ==
  ASSUME CallsInv, NEW c \in Calls, Admits(c)
  PROVE  /\ host[c].state = "new" /\ (roots[c] # Nothing => ~roots[c].confirmed)
         /\ calls[c] = Nothing
  BY DEF Admits, CallsInv, CallInv, Recorded, ConfirmedHasEnded

LEMMA PrepareTouches ==
  ASSUME ShellInv, NEW u \in Workers, NEW c \in Calls,
         PrepareCapture(u, c) \/ PrepareInspect(u, c) \/ PrepareQuery(u, c)
  PROVE  Touches(c)
  <1> USE DEF ShellInv
  <1> DEFINE k == HeldKey(u)
  <1>0. TypeOK /\ AttemptInv /\ k \in Keys \cup {NoKey} /\ owners' = owners
        /\ bindings' = bindings /\ disk' = disk
    BY HeldKeyType DEF IInv, PrepareCapture, PrepareInspect, PrepareQuery, vars
  <1>1. CASE PrepareCapture(u, c)
    <2> DEFINE r == [files |-> [p \in Paths |-> IF p \in Owned(k) THEN Projected(Merged(k, p))
                                                ELSE Deleted],
                     confirmed |-> FALSE]
    <2>1. k \in HeldKeys(u)
      <3>1. HeldKeys(u) # {}
        BY <1>1, FS_EmptySet DEF PrepareCapture
      <3> QED
        BY <3>1 DEF HeldKey
    <2>2. k \in Issued /\ k \in Keys
      BY <1>0, <2>1, HeldMeans
    <2>3. Plan(c, u, k, "capture", {}, FALSE) /\ roots' = [roots EXCEPT ![c] = r]
      BY <1>1 DEF PrepareCapture
    <2>4. r \in Root /\ ~r.confirmed
      <3>1. \A p \in Paths : Projected(Merged(k, p)) \in Content
        BY <1>0, <2>2, MergedType, ContentAssumption DEF Projected
      <3> QED
        BY <3>1, ContentAssumption DEF Root
    <2> HIDE DEF r
    <2>5. roots'[c] = r /\ roots' \in [Calls -> Root \cup {Nothing}]
          /\ \A d \in Calls \ {c} : roots'[d] = roots[d]
      BY <2>3, <2>4 DEF ShellTypeOK
    <2> DEFINE n == NewCall(u, k, "capture", {}, FALSE)
               h == PlannedHost(u, k, "capture", {})
    <2>6. /\ n \in Call /\ n.mode = "capture" /\ n.caller = CallerOf(u) /\ n.key = k
          /\ n.reads = {} /\ ~n.started /\ n.files = DeltaOf(k).files
          /\ h \in Host /\ h.state = "planned" /\ h.by = CallerOf(u) /\ ~h.native
          /\ h.seen = Seen(k, "capture")
      <3>1. n \in Call
        BY <1>0, NewCallType DEF Modes
      <3>2. h \in Host /\ h.state = "planned" /\ h.by = CallerOf(u) /\ ~h.native
            /\ h.seen = Seen(k, "capture")
        BY <1>0, <2>2, PlannedHostType
      <3>3. /\ n.mode = "capture" /\ n.caller = CallerOf(u) /\ n.key = k
            /\ n.reads = {} /\ n.files = DeltaOf(k).files
        BY <2>2, IssuedAreKeys, <1>0 DEF NewCall, StagedOf, Keys, NoKey
      <3>4. ~n.started
        BY DEF NewCall
      <3> QED
        BY <3>1, <3>2, <3>3, <3>4
    <2>7. calls' = [calls EXCEPT ![c] = n] /\ host' = [host EXCEPT ![c] = h]
      BY <2>3 DEF Plan, PlannedHost
    <2> HIDE DEF n, h
    <2>10. /\ calls' \in [Calls -> Call \cup {Nothing}] /\ host' \in [Calls -> Host \cup {Unused}]
           /\ calls'[c] = n /\ calls'[c] # Nothing /\ host'[c] = h
           /\ \A d \in Calls \ {c} : calls'[d] = calls[d] /\ host'[d] = host[d]
      BY <2>6, <2>7, PlanEffect
    <2>8. Recorded(c)' /\ ReadingIsRecorded(c)' /\ ReadsNoClaim(c)' /\ ConfirmedHasEnded(c)'
      <3>1. Issued' = Issued
        BY <1>0 DEF Issued
      <3> QED
        BY <2>2, <2>4, <2>5, <2>6, <2>10, <3>1
        DEF Recorded, ReadingIsRecorded, ReadsNoClaim, ConfirmedHasEnded, InPlace
    <2>9. SeenStands(c)'
      <3>1. \A p \in Paths : Seen(k, "capture")[p] = Merged(k, p)
        BY DEF Seen
      <3> QED
        BY <1>0, <2>6, <2>10, <3>1 DEF SeenStands, Owned, Merged
    <2> QED
      BY <2>5, <2>8, <2>9, <2>10 DEF Touches, CallInv
  <1>2. ASSUME NEW mode, mode \in {"inspect", "query"}, NEW S \in SUBSET Paths,
               mode = "inspect" => S \cap Foreign(k) = {},
               Plan(c, u, k, mode, S, FALSE),
               roots' = [roots EXCEPT ![c] = [files |-> NoFiles, confirmed |-> FALSE]]
        PROVE  Touches(c)
    <2> DEFINE r == [files |-> NoFiles, confirmed |-> FALSE]
    <2>1. r \in Root /\ ~r.confirmed
      BY ContentAssumption DEF Root, NoFiles
    <2>2. roots' = [roots EXCEPT ![c] = r]
      BY <1>2
    <2> HIDE DEF r
    <2>3. roots'[c] = r /\ roots' \in [Calls -> Root \cup {Nothing}]
          /\ \A d \in Calls \ {c} : roots'[d] = roots[d]
      BY <2>1, <2>2 DEF ShellTypeOK
    <2> DEFINE n == NewCall(u, k, mode, S, FALSE)
               h == PlannedHost(u, k, mode, S)
    <2>4. /\ n \in Call /\ n.mode = mode /\ n.caller = CallerOf(u) /\ n.reads = S /\ ~n.started
          /\ n.hidden = IF mode = "inspect" THEN Foreign(k) ELSE {}
          /\ h \in Host /\ h.state = "planned" /\ h.by = CallerOf(u) /\ ~h.native /\ h.scope = S
      <3>1. mode \in Modes /\ (mode = "capture" => k \in Keys) /\ mode # "capture"
        BY <1>2 DEF Modes
      <3>2. n \in Call
        BY <1>0, <3>1, NewCallType
      <3>3. h \in Host /\ h.state = "planned" /\ h.by = CallerOf(u) /\ ~h.native /\ h.scope = S
        BY <1>0, <3>1, PlannedHostType
      <3>4. /\ n.mode = mode /\ n.caller = CallerOf(u) /\ n.reads = S
            /\ n.hidden = IF mode = "inspect" THEN Foreign(k) ELSE {}
        BY DEF NewCall
      <3>5. ~n.started
        BY DEF NewCall
      <3> QED
        BY <3>2, <3>3, <3>4, <3>5
    <2>5. calls' = [calls EXCEPT ![c] = n] /\ host' = [host EXCEPT ![c] = h]
      BY <1>2 DEF Plan, PlannedHost
    <2> HIDE DEF n, h
    <2>7. /\ calls' \in [Calls -> Call \cup {Nothing}] /\ host' \in [Calls -> Host \cup {Unused}]
          /\ calls'[c] = n /\ calls'[c] # Nothing /\ host'[c] = h
          /\ \A d \in Calls \ {c} : calls'[d] = calls[d] /\ host'[d] = host[d]
      BY <2>4, <2>5, PlanEffect
    <2>6. Recorded(c)'
      BY <1>2, <2>4, <2>7 DEF Recorded, InPlace
    <2> QED
      BY <1>2, <2>1, <2>3, <2>4, <2>6, <2>7
      DEF Touches, CallInv, ReadingIsRecorded, ConfirmedHasEnded, SeenStands, ReadsNoClaim
  <1>3. CASE PrepareInspect(u, c)
    <2>1. Paths \ Foreign(k) \in SUBSET Paths /\ (Paths \ Foreign(k)) \cap Foreign(k) = {}
      OBVIOUS
    <2> QED
      BY <1>2, <1>3, <2>1 DEF PrepareInspect
  <1>4. CASE PrepareQuery(u, c)
    BY <1>2, <1>4 DEF PrepareQuery
  <1> QED
    BY <1>1, <1>3, <1>4

\* A native tool reads nothing another unit owns when it starts.
LEMMA StartNativeTouches ==
  ASSUME ShellInv, NEW u \in Workers, NEW c \in Calls, NEW S \in SUBSET Paths,
         StartNative(u, c, S)
  PROVE  Touches(c)
  <1> USE DEF ShellInv
  <1> DEFINE k == HeldKey(u)
  <1>0. /\ TypeOK /\ AttemptInv /\ k \in Keys \cup {NoKey}
        /\ owners' = owners /\ bindings' = bindings /\ roots' = roots
    BY HeldKeyType DEF IInv, StartNative, vars
  <1>1. Plan(c, u, k, "native", S, TRUE) /\ S \cap Foreign(k) = {} /\ Admits(c)
    BY DEF StartNative
  <1> DEFINE n == NewCall(u, k, "native", S, TRUE)
             h == NativeHost(u, k, S)
  <1>2. /\ n \in Call /\ n.mode = "native" /\ n.caller = CallerOf(u) /\ n.reads = S
        /\ n.started /\ n.hidden = {}
        /\ h \in Host /\ h.state = "running" /\ h.native /\ h.by = CallerOf(u) /\ h.scope = S
    <2>1. n \in Call
      BY <1>0, NewCallType DEF Modes
    <2>2. h \in Host /\ h.state = "running" /\ h.native /\ h.by = CallerOf(u) /\ h.scope = S
      BY <1>0, NativeHostType
    <2>3. n.mode = "native" /\ n.caller = CallerOf(u) /\ n.reads = S /\ n.hidden = {}
      BY DEF NewCall
    <2>4. n.started
      BY DEF NewCall
    <2> QED
      BY <2>1, <2>2, <2>3, <2>4
  <1>3. calls' = [calls EXCEPT ![c] = n] /\ host' = [host EXCEPT ![c] = h]
    BY <1>1 DEF Plan, NativeHost
  <1> HIDE DEF n, h
  <1>7. /\ calls' \in [Calls -> Call \cup {Nothing}] /\ host' \in [Calls -> Host \cup {Unused}]
        /\ calls'[c] = n /\ calls'[c] # Nothing /\ host'[c] = h
        /\ \A d \in Calls \ {c} : calls'[d] = calls[d] /\ host'[d] = host[d]
    BY <1>2, <1>3, PlanEffect
  <1>4. ReadsNoClaim(c)'
    <2> SUFFICES ASSUME NEW p \in S, owners[p] # NoKey
                 PROVE  /\ CallerOf(u).attempt # NoAttempt
                        /\ bindings[owners[p]].unit = CallerOf(u).child
      BY <1>0, <1>2, <1>7 DEF ReadsNoClaim
    <2>1. owners[p] = k /\ k # NoKey
      BY <1>1 DEF Foreign
    <2>2. k \in HeldKeys(u)
      BY <2>1, HeldKeyIsHeld
    <2> QED
      BY <1>0, <2>1, <2>2, HeldMeans
  <1>5. Recorded(c)'
    BY <1>2, <1>7 DEF Recorded, InPlace
  <1>6. ConfirmedHasEnded(c)'
    BY <1>0, <1>1, AdmittedIsNew DEF ConfirmedHasEnded
  <1> QED
    BY <1>0, <1>2, <1>4, <1>5, <1>6, <1>7 DEF Touches, CallInv, ReadingIsRecorded, SeenStands, ShellTypeOK

\* A call is started only while nothing it reads belongs to another.
LEMMA StartTouches ==
  ASSUME ShellInv, StaleStep, NEW u \in Workers, NEW c \in Calls, Start(u, c)
  PROVE  Touches(c)
  <1> USE DEF ShellInv
  <1> DEFINE k == calls[c].key
             n == [calls[c] EXCEPT !.started = TRUE]
  <1>0. /\ TypeOK /\ AttemptInv /\ CallInv(c)
        /\ owners' = owners /\ bindings' = bindings /\ roots' = roots
        /\ host' = host /\ disk' = disk /\ staged' = staged
    BY DEF IInv, CallsInv, Start, vars
  <1>1. Continuable(u, c) /\ calls' = [calls EXCEPT ![c] = n]
    BY DEF Start
  <1>2. calls[c] \in Call /\ calls[c] # Nothing /\ calls[c].caller = CallerOf(u)
    BY <1>1 DEF Continuable, ShellTypeOK
  <1>3. /\ n \in Call /\ n # Nothing /\ n.started /\ n.mode = calls[c].mode /\ n.caller = calls[c].caller
        /\ n.reads = calls[c].reads /\ n.hidden = calls[c].hidden /\ n.key = calls[c].key
        /\ n.files = calls[c].files
    BY <1>2, ReservedAssumption DEF Call
  <1> HIDE DEF n
  <1>4. calls'[c] = n /\ calls' \in [Calls -> Call \cup {Nothing}]
        /\ \A d \in Calls \ {c} : calls'[d] = calls[d]
    BY <1>1, <1>3 DEF ShellTypeOK
  <1>5. ReadsNoClaim(c)'
    <2> SUFFICES ASSUME InPlace(c), NEW p \in calls[c].reads, owners[p] # NoKey
                 PROVE  /\ CallerOf(u).attempt # NoAttempt
                        /\ bindings[owners[p]].unit = CallerOf(u).child
      BY <1>0, <1>2, <1>3, <1>4 DEF ReadsNoClaim, InPlace
    <2>1. p \notin Foreign(k) /\ p \in Paths
      BY <1>0, <1>1, <1>2 DEF Continuable, CallInv, Recorded, Call
    <2>2. owners[p] = k /\ k # NoKey
      BY <2>1 DEF Foreign
    <2>3. k \in HeldKeys(u)
      BY <1>1, <2>2 DEF Continuable
    <2> QED
      BY <1>0, <2>2, <2>3, HeldMeans
  <1>6. Recorded(c)' /\ ReadingIsRecorded(c)' /\ ConfirmedHasEnded(c)'
    <2>1. Issued' = Issued
      BY <1>0 DEF Issued
    <2> QED
      BY <1>0, <1>2, <1>3, <1>4, <2>1
      DEF CallInv, Recorded, ReadingIsRecorded, ConfirmedHasEnded, InPlace
  <1>7. SeenStands(c)'
    <2>1. n.mode = "capture" /\ c \notin stale' => c \notin stale
      BY <1>0, <1>2, <1>3, <1>4, IssuedAreKeys DEF StaleStep, CallInv, Recorded, Keys, NoKey
    <2> QED
      BY <1>0, <1>2, <1>3, <1>4, <2>1 DEF CallInv, SeenStands, Owned
  <1> QED
    BY <1>0, <1>4, <1>5, <1>6, <1>7 DEF Touches, CallInv, ShellTypeOK

\* The sandboxed command runs once its call was started and allowed.
LEMMA EvaluateTouches ==
  ASSUME ShellInv, StaleStep, NEW u \in Workers, NEW c \in Calls, Evaluate(u, c)
  PROVE  Touches(c)
  <1> USE DEF ShellInv
  <1> DEFINE n == [calls[c] EXCEPT !.evaluated = TRUE]
             h == [host[c] EXCEPT !.state = "running"]
  <1>0. /\ TypeOK /\ CallInv(c)
        /\ owners' = owners /\ bindings' = bindings /\ roots' = roots /\ disk' = disk
    BY DEF IInv, CallsInv, Evaluate, vars
  <1>1. /\ calls[c] \in Call /\ calls[c] # Nothing /\ calls[c].started
        /\ host[c] \in Host \cup {Unused} /\ host[c].state = "planned"
    BY DEF Evaluate, Continuable, ShellTypeOK
  <1>2. host[c] \in Host
    BY <1>1, UnusedType
  <1>3. /\ n \in Call /\ n.started /\ n.mode = calls[c].mode /\ n.caller = calls[c].caller
        /\ n.reads = calls[c].reads /\ n.hidden = calls[c].hidden /\ n.key = calls[c].key
        /\ n.files = calls[c].files
    BY <1>1 DEF Call
  <1>4. /\ h \in Host /\ h.state = "running" /\ h.by = host[c].by /\ h.scope = host[c].scope
        /\ h.seen = host[c].seen /\ (h.native <=> host[c].native)
    BY <1>2 DEF Host
  <1>5. calls' = [calls EXCEPT ![c] = n] /\ host' = [host EXCEPT ![c] = h]
    BY DEF Evaluate
  <1> HIDE DEF n, h
  <1>6. /\ calls' \in [Calls -> Call \cup {Nothing}] /\ host' \in [Calls -> Host \cup {Unused}]
        /\ calls'[c] = n /\ calls'[c] # Nothing /\ host'[c] = h
        /\ \A d \in Calls \ {c} : calls'[d] = calls[d] /\ host'[d] = host[d]
    BY <1>3, <1>4, <1>5, PlanEffect
  <1>7. Recorded(c)' /\ ReadingIsRecorded(c)' /\ ConfirmedHasEnded(c)' /\ ReadsNoClaim(c)'
    <2>1. Issued' = Issued
      BY <1>0 DEF Issued
    <2>2. Recorded(c)'
      BY <1>0, <1>1, <1>3, <1>4, <1>6, <2>1 DEF CallInv, Recorded, InPlace
    <2>3. ReadingIsRecorded(c)' /\ ConfirmedHasEnded(c)'
      BY <1>0, <1>1, <1>6 DEF CallInv, ReadingIsRecorded, ConfirmedHasEnded
    <2>4. ReadsNoClaim(c)'
      BY <1>0, <1>1, <1>3, <1>6 DEF CallInv, ReadsNoClaim, InPlace
    <2> QED
      BY <2>2, <2>3, <2>4
  <1>8. SeenStands(c)'
    <2>1. n.mode = "capture" /\ c \notin stale' => c \notin stale
      BY <1>0, <1>1, <1>3, <1>6, IssuedAreKeys DEF StaleStep, CallInv, Recorded, Keys, NoKey
    <2> QED
      BY <1>0, <1>1, <1>3, <1>4, <1>6, <2>1 DEF CallInv, SeenStands, Owned
  <1> QED
    BY <1>0, <1>6, <1>7, <1>8 DEF Touches, CallInv, ShellTypeOK

\* What keeps a call's record when only its root or its host moves.
LEMMA RecordStands ==
  ASSUME ShellInv, StaleStep, NEW c \in Calls, calls'[c] = calls[c],
         UNCHANGED <<bindings, owners, disk>>,
         host'[c].by = host[c].by, host'[c].scope = host[c].scope, host'[c].seen = host[c].seen,
         host'[c].native <=> host[c].native, host'[c].state \in {host[c].state, "ended"}
  PROVE  Recorded(c)' /\ ReadingIsRecorded(c)' /\ SeenStands(c)' /\ ReadsNoClaim(c)'
  <1> USE DEF ShellInv
  <1>0. TypeOK /\ CallInv(c) /\ Issued' = Issued /\ calls'[c] = calls[c]
    BY DEF IInv, CallsInv, Issued
  <1>1. Recorded(c)'
    BY <1>0 DEF CallInv, Recorded, InPlace
  <1>2. ReadingIsRecorded(c)'
    BY <1>0 DEF CallInv, ReadingIsRecorded
  <1>3. SeenStands(c)'
    <2>1. calls[c] # Nothing /\ calls[c].mode = "capture" /\ c \notin stale' => c \notin stale
      BY <1>0, StaleStays DEF CallInv
    <2> QED
      BY <1>0, <2>1 DEF CallInv, SeenStands, Owned
  <1>4. ReadsNoClaim(c)'
    BY <1>0 DEF CallInv, ReadsNoClaim, InPlace
  <1> QED
    BY <1>1, <1>2, <1>3, <1>4

\* The native side: a refused start, a write, an end, a root removed too early.
LEMMA NativeTouches ==
  ASSUME ShellInv, StaleStep, NEW c \in Calls,
         \/ NeverRuns(c) \/ End(c)
         \/ \E p \in Paths, v \in Content : CommandWrites(c, p, v)
         \/ \E u \in Workers : CompleteUnsaved(u, c)
  PROVE  Touches(c)
  <1> USE DEF ShellInv
  <1>0. /\ CallInv(c) /\ calls' = calls /\ UNCHANGED <<bindings, owners, disk>>
        /\ host[c] \in Host \cup {Unused} /\ roots[c] \in Root \cup {Nothing}
    BY DEF CallsInv, NeverRuns, End, CommandWrites, CompleteUnsaved, vars, ShellTypeOK
  <1>1. CASE NeverRuns(c) \/ End(c)
    <2> DEFINE h == [host[c] EXCEPT !.state = "ended"]
    <2>1. host' = [host EXCEPT ![c] = h] /\ host[c].state # "new"
      BY <1>1 DEF NeverRuns, End
    <2>2. host[c] \in Host
      BY <1>0, <2>1, UnusedType
    <2>3. /\ h \in Host /\ h.state = "ended" /\ h.by = host[c].by /\ h.scope = host[c].scope
          /\ h.seen = host[c].seen /\ (h.native <=> host[c].native)
      BY <2>2 DEF Host
    <2> HIDE DEF h
    <2>4. host'[c] = h /\ host' \in [Calls -> Host \cup {Unused}]
          /\ \A d \in Calls \ {c} : host'[d] = host[d]
      BY <2>1, <2>3 DEF ShellTypeOK
    <2>5. roots' \in [Calls -> Root \cup {Nothing}] /\ \A d \in Calls \ {c} : roots'[d] = roots[d]
      <3>1. CASE roots' = roots
        BY <3>1 DEF ShellTypeOK
      <3>2. CASE roots' # roots
        <4> DEFINE r == [roots[c] EXCEPT !.confirmed = TRUE]
        <4>1. roots' = [roots EXCEPT ![c] = r] /\ roots[c] \in Root
          BY <1>0, <1>1, <3>2 DEF NeverRuns, End
        <4>2. r \in Root
          BY <4>1 DEF Root
        <4> HIDE DEF r
        <4> QED
          BY <4>1, <4>2 DEF ShellTypeOK
      <3> QED
        BY <3>1, <3>2
    <2>6. ConfirmedHasEnded(c)'
      BY <2>3, <2>4 DEF ConfirmedHasEnded
    <2>7. Recorded(c)' /\ ReadingIsRecorded(c)' /\ SeenStands(c)' /\ ReadsNoClaim(c)'
      BY <1>0, <2>3, <2>4, RecordStands
    <2> QED
      BY <1>0, <2>4, <2>5, <2>6, <2>7 DEF Touches, CallInv, ShellTypeOK
  <1>2. CASE \/ \E p \in Paths, v \in Content : CommandWrites(c, p, v)
             \/ \E u \in Workers : CompleteUnsaved(u, c)
    <2>1. host' = host
      BY <1>2 DEF CommandWrites, CompleteUnsaved
    <2>2. Recorded(c)' /\ ReadingIsRecorded(c)' /\ SeenStands(c)' /\ ReadsNoClaim(c)'
      BY <1>0, <2>1, RecordStands
    <2>3. /\ roots' \in [Calls -> Root \cup {Nothing}] /\ \A d \in Calls \ {c} : roots'[d] = roots[d]
          /\ ConfirmedHasEnded(c)'
      <3>1. ASSUME NEW p \in Paths, NEW v \in Content, CommandWrites(c, p, v)
            PROVE  /\ roots' \in [Calls -> Root \cup {Nothing}]
                   /\ \A d \in Calls \ {c} : roots'[d] = roots[d]
                   /\ ConfirmedHasEnded(c)'
        <4> DEFINE f == [roots[c].files EXCEPT ![p] = v]
                   r == [roots[c] EXCEPT !.files = f]
        <4>1. roots[c] \in Root
          BY <1>0, <3>1 DEF CommandWrites
        <4>2. f \in [Paths -> Content]
          BY <4>1 DEF Root
        <4>3. roots' = [roots EXCEPT ![c] = r]
          BY <3>1, <4>1 DEF CommandWrites, Root
        <4> HIDE DEF f
        <4>4. r \in Root /\ (r.confirmed <=> roots[c].confirmed)
          BY <4>1, <4>2 DEF Root
        <4> HIDE DEF r
        <4>5. roots'[c] = r
          BY <4>3 DEF ShellTypeOK
        <4>6. roots[c] # Nothing
          BY <3>1 DEF CommandWrites
        <4>7. ConfirmedHasEnded(c)'
          BY <1>0, <2>1, <4>4, <4>5, <4>6 DEF CallInv, ConfirmedHasEnded
        <4> QED
          BY <4>3, <4>4, <4>7 DEF ShellTypeOK
      <3>2. ASSUME NEW u \in Workers, CompleteUnsaved(u, c)
            PROVE  /\ roots' \in [Calls -> Root \cup {Nothing}]
                   /\ \A d \in Calls \ {c} : roots'[d] = roots[d]
                   /\ ConfirmedHasEnded(c)'
        BY <3>2 DEF CompleteUnsaved, ConfirmedHasEnded, ShellTypeOK
      <3> QED
        BY <1>2, <3>1, <3>2
    <2> QED
      BY <1>0, <2>1, <2>2, <2>3 DEF Touches, CallInv, ShellTypeOK
  <1> QED
    BY <1>1, <1>2

\* A call that is forgotten leaves no native tool reading.
LEMMA ForgetTouches ==
  ASSUME ShellInv, NEW c \in Calls,
         \/ ReleaseShell(c) \/ EndNative(c)
         \/ \E u \in Workers : \/ CompleteUncaptured(u, c) \/ CompleteMoved(u, c) \/ Complete(u, c)
                               \/ \E P \in SUBSET Paths : CompletePartly(u, c, P)
  PROVE  Touches(c) /\ calls'[c] = Nothing /\ disk' = disk /\ host' = host
  <1> USE DEF ShellInv
  <1> DEFINE Any(u, P) == \/ CompleteUncaptured(u, c) \/ CompleteMoved(u, c) \/ Complete(u, c)
                          \/ CompletePartly(u, c, P)
  <1>0. CallInv(c)
    BY DEF CallsInv
  <1>1. /\ calls' = [calls EXCEPT ![c] = Nothing] /\ disk' = disk /\ host' = host
        /\ calls[c] # Nothing
        /\ calls[c].mode # "native" \/ host[c].state = "ended"
        /\ roots' = roots \/ roots' = [roots EXCEPT ![c] = Nothing]
    <2>1. ASSUME NEW u, NEW P, Any(u, P)
          PROVE  /\ calls' = [calls EXCEPT ![c] = Nothing] /\ disk' = disk /\ host' = host
                 /\ calls[c] # Nothing
                 /\ calls[c].mode # "native" \/ host[c].state = "ended"
                 /\ roots' = roots \/ roots' = [roots EXCEPT ![c] = Nothing]
      BY <2>1 DEF CompleteUncaptured, Wrapped, CompleteMoved, Complete, CompletePartly, Completable, Forget
    <2> QED
      BY <2>1 DEF ReleaseShell, EndNative, Observed, Forget
  <1>2. /\ calls' \in [Calls -> Call \cup {Nothing}] /\ calls'[c] = Nothing
        /\ roots' \in [Calls -> Root \cup {Nothing}] /\ roots'[c] \in {roots[c], Nothing}
        /\ \A d \in Calls \ {c} : calls'[d] = calls[d] /\ roots'[d] = roots[d]
    BY <1>1 DEF ShellTypeOK
  <1>3. ~(host[c].state = "running" /\ host[c].native)
    BY <1>0, <1>1 DEF CallInv, Recorded
  <1>4. CallInv(c)'
    BY <1>0, <1>1, <1>2, <1>3
    DEF CallInv, Recorded, ReadingIsRecorded, ConfirmedHasEnded, SeenStands, ReadsNoClaim
  <1> QED
    BY <1>1, <1>2, <1>4 DEF Touches, ShellTypeOK

-----------------------------------------------------------------------------
(* The invariant is inductive. *)

\* What a step of one call may do to the rest of the state.
LEMMA ShellStepEffect ==
  ASSUME ShellInv, StaleStep, ShellStep
  PROVE  \E c \in Calls :
           /\ Touches(c) /\ disk' = disk
           /\ \/ UNCHANGED vars
              \/ \E u \in Workers, P \in SUBSET Diverged(c) :
                   Completable(u, c) /\ Unmoved(c) /\ Capture(c, P)
  <1> DEFINE Effect(c) ==
        /\ Touches(c) /\ disk' = disk
        /\ \/ UNCHANGED vars
           \/ \E u \in Workers, P \in SUBSET Diverged(c) :
                Completable(u, c) /\ Unmoved(c) /\ Capture(c, P)
  <1>1. ASSUME NEW c \in Calls, NEW u \in Workers,
               PrepareCapture(u, c) \/ PrepareInspect(u, c) \/ PrepareQuery(u, c)
        PROVE  Effect(c)
    BY <1>1, PrepareTouches DEF PrepareCapture, PrepareInspect, PrepareQuery
  <1>2. ASSUME NEW c \in Calls, NEW u \in Workers, NEW S \in SUBSET Paths, StartNative(u, c, S)
        PROVE  Effect(c)
    BY <1>2, StartNativeTouches DEF StartNative
  <1>3. ASSUME NEW c \in Calls, NEW u \in Workers, Start(u, c) \/ Evaluate(u, c) PROVE Effect(c)
    BY <1>3, StartTouches, EvaluateTouches DEF Start, Evaluate
  <1>4. ASSUME NEW c \in Calls, \/ NeverRuns(c) \/ End(c)
                                \/ \E p \in Paths, v \in Content : CommandWrites(c, p, v)
                                \/ \E u \in Workers : CompleteUnsaved(u, c)
        PROVE  Effect(c)
    BY <1>4, NativeTouches DEF NeverRuns, End, CommandWrites, CompleteUnsaved
  <1>5. ASSUME NEW c \in Calls, \/ ReleaseShell(c) \/ EndNative(c)
                                \/ \E u \in Workers : CompleteUncaptured(u, c) \/ CompleteMoved(u, c)
        PROVE  Effect(c)
    <2>1. Touches(c) /\ disk' = disk
      BY <1>5, ForgetTouches
    <2>2. UNCHANGED vars
      BY <1>5 DEF ReleaseShell, EndNative, CompleteUncaptured, CompleteMoved
    <2> QED
      BY <2>1, <2>2
  <1>6. ASSUME NEW c \in Calls, NEW u \in Workers, NEW P \in SUBSET Paths,
               Complete(u, c) \/ CompletePartly(u, c, P)
        PROVE  Effect(c)
    <2>1. Touches(c) /\ disk' = disk
      BY <1>6, ForgetTouches
    <2>2. \E Q \in SUBSET Diverged(c) : Completable(u, c) /\ Unmoved(c) /\ Capture(c, Q)
      BY <1>6 DEF Complete, CompletePartly
    <2> QED
      BY <2>1, <2>2
  <1>7. \E c \in Calls : Effect(c)
    BY <1>1, <1>2, <1>3, <1>4, <1>5, <1>6 DEF ShellStep, FinishShell
  <1> QED
    BY <1>7

LEMMA ShellStepKeepsShell == ASSUME ShellInv, StaleStep, ShellStep PROVE ShellInv'
  <1> USE DEF ShellInv
  <1>1. PICK c \in Calls :
           /\ Touches(c) /\ disk' = disk
           /\ \/ UNCHANGED vars
              \/ \E u \in Workers, P \in SUBSET Diverged(c) :
                   Completable(u, c) /\ Unmoved(c) /\ Capture(c, P)
    BY ShellStepEffect
  <1>2. IInv' /\ staged' = [k \in Keys |-> staged'[k]] /\ UNCHANGED <<bindings, owners, command>>
    <2>1. CASE UNCHANGED vars
      <3>1. IInv'
        BY <2>1, InvStep
      <3> QED
        BY <2>1, <3>1 DEF vars, ShellTypeOK
    <2>2. ASSUME NEW u \in Workers, NEW P \in SUBSET Diverged(c),
                 Completable(u, c), Capture(c, P)
          PROVE  IInv' /\ staged' = [k \in Keys |-> staged'[k]]
                 /\ UNCHANGED <<bindings, owners, command>>
      <3>1. calls[c].key \in Issued /\ roots[c] # Nothing
        BY <2>2 DEF Completable, HeldKeys
      <3> QED
        BY <2>2, <3>1, CaptureInv DEF Capture
    <2> QED
      BY <1>1, <2>1, <2>2
  <1>3. ShellTypeOK'
    BY <1>1, <1>2 DEF Touches, ShellTypeOK
  <1>4. NoGates'
    BY <1>2 DEF NoGates, Author, Issued
  <1>5. ASSUME NEW d \in Calls PROVE CallInv(d)'
    <2>1. CASE d = c
      BY <1>1, <2>1 DEF Touches
    <2>2. CASE d # c
      <3>1. calls'[d] = calls[d] /\ roots'[d] = roots[d] /\ host'[d] = host[d]
        BY <1>1, <2>2 DEF Touches
      <3>2. Recorded(d)' /\ ReadingIsRecorded(d)' /\ SeenStands(d)' /\ ReadsNoClaim(d)'
        BY <1>1, <1>2, <3>1, RecordStands
      <3>3. ConfirmedHasEnded(d)'
        BY <3>1 DEF CallsInv, CallInv, ConfirmedHasEnded
      <3> QED
        BY <3>2, <3>3 DEF CallInv
    <2> QED
      BY <2>1, <2>2
  <1> QED
    BY <1>2, <1>3, <1>4, <1>5 DEF CallsInv

LEMMA ShellInitInv == ShellInit => ShellInv
  <1> SUFFICES ASSUME ShellInit PROVE ShellInv
    OBVIOUS
  <1>1. Init /\ IInv
    BY InitInv DEF ShellInit
  <1>2. ShellTypeOK
    BY <1>1, ContentAssumption DEF ShellInit, Init, ShellTypeOK, NoFiles
  <1>3. NoGates
    BY <1>1 DEF Init, NoGates, Issued, Idle
  <1>4. CallsInv
    BY UnusedType DEF ShellInit, CallsInv, CallInv, Recorded, ReadingIsRecorded,
                      ConfirmedHasEnded, SeenStands, ReadsNoClaim
  <1> QED
    BY <1>1, <1>2, <1>3, <1>4 DEF ShellInv

LEMMA ShellInvStep == ShellInv /\ [ShellNext]_allVars => ShellInv'
  <1> SUFFICES ASSUME ShellInv, [ShellNext]_allVars PROVE ShellInv'
    OBVIOUS
  <1>1. CASE ShellNext
    <2>1. StaleStep /\ (ClaimsStep \/ ShellStep)
      BY <1>1 DEF ShellNext, StaleStep, ClaimsStep
    <2> QED
      BY <2>1, ClaimsKeepShell, ShellStepKeepsShell
  <1>2. CASE UNCHANGED allVars
    <2>1. IInv'
      BY <1>2, InvStep DEF ShellInv, allVars
    <2> QED
      BY <1>2, <2>1 DEF ShellInv, allVars, vars, shellVars, ShellTypeOK, NoGates, Author, Issued,
                        CallsInv, CallInv, Recorded, ReadingIsRecorded, ConfirmedHasEnded,
                        SeenStands, ReadsNoClaim, InPlace, Owned
  <1> QED
    BY <1>1, <1>2

\* The store's record of a call, its sandbox root and its native side agree in
\* every state the shell commands and the claims reach together.
THEOREM ShellInvariance == ShellSpec => []ShellInv
  BY ShellInitInv, ShellInvStep, PTL DEF ShellSpec

-----------------------------------------------------------------------------
(* The properties. *)

\* No path a started inspection or a native tool can read belongs to another
\* unit (StartNativeInspection, ContinueShell, guardInspectionClaimLocked).
THEOREM InspectionsKeepClaimsOff == ShellSpec => []InspectionsExcludeClaims
  <1>1. ShellInv => InspectionsExcludeClaims
    <2> SUFFICES ASSUME ShellInv, NEW c \in Calls, Inspecting(c),
                        NEW p \in host[c].scope, owners[p] # NoKey
                 PROVE  /\ host[c].by.attempt # NoAttempt
                        /\ bindings[owners[p]].unit = host[c].by.child
      BY DEF InspectionsExcludeClaims
    <2>1. CallInv(c)
      BY DEF ShellInv, CallsInv
    <2>2. calls[c] # Nothing /\ calls[c].started /\ InPlace(c)
      BY <2>1 DEF Inspecting, CallInv, ReadingIsRecorded, Recorded, InPlace
    <2> QED
      BY <2>1, <2>2 DEF CallInv, Recorded, ReadsNoClaim
  <1> QED
    BY <1>1, ShellInvariance, PTL

\* Staged work changes as a call is forgotten only when its holder imports it,
\* confirmed ended and over unmoved work (CompleteShell, captureLocked).
LEMMA CapturesMeans ==
  ASSUME ShellInv, ShellNext, NEW c \in Calls, Captures(c)
  PROVE  \E u \in Workers, P \in SUBSET Diverged(c) :
           Completable(u, c) /\ Unmoved(c) /\ Capture(c, P)
  <1>0. calls'[c] # calls[c] /\ staged' # staged /\ StaleStep
    BY DEF Captures, ShellNext, StaleStep
  <1>1. CASE ClaimStep \/ OtherStep \/ \E k \in Issued : ConsolidateStep(k)
    BY <1>0, <1>1 DEF ClaimStep, OtherStep, ConsolidateStep, shellVars
  <1>2. CASE \E u \in Workers : FinishStep(u)
    BY <1>0, <1>2, FinishKeepsWork DEF FinishStep, ShellInv
  <1>3. CASE ShellStep
    <2>1. PICK d \in Calls :
             /\ Touches(d)
             /\ \/ UNCHANGED vars
                \/ \E u \in Workers, P \in SUBSET Diverged(d) :
                     Completable(u, d) /\ Unmoved(d) /\ Capture(d, P)
      BY <1>0, <1>3, ShellStepEffect
    <2>2. c = d
      BY <1>0, <2>1 DEF Touches
    <2> QED
      BY <1>0, <2>1, <2>2 DEF vars
  <1> QED
    BY <1>1, <1>2, <1>3 DEF ShellNext

\* A capture waits for its command's end and stages nothing over what the
\* command did not see, short of a consolidation or a reassignment of its work.
THEOREM CapturesOverwriteNothing == ShellSpec => CaptureOverwritesNothing
  <1>1. ASSUME ShellInv, ShellNext, NEW c \in Calls, Captures(c)
        PROVE  host[c].state = "ended" /\ (c \in stale \/ ~OverwritesUnseen(c))
    <2>1. PICK u \in Workers, P \in SUBSET Diverged(c) :
             Completable(u, c) /\ Unmoved(c) /\ Capture(c, P)
      BY <1>1, CapturesMeans
    <2> DEFINE k == calls[c].key
    <2>2. CallInv(c) /\ IInv /\ ShellTypeOK /\ calls[c] # Nothing /\ roots[c] # Nothing
          /\ roots[c].confirmed /\ k \in Issued /\ k \in HeldKeys(u)
      BY <1>1, <2>1 DEF ShellInv, CallsInv, Completable, HeldKeys
    <2>3. host[c].state = "ended"
      BY <2>2 DEF CallInv, ConfirmedHasEnded
    <2>4. ASSUME c \notin stale, OverwritesUnseen(c) PROVE FALSE
      <3>1. PICK j \in Keys, p \in Paths :
               /\ j = calls[c].key
               /\ DeltaOf(j)'.files[p] # DeltaOf(j).files[p]
               /\ Merged(j, p) # host[c].seen[p]
        BY <2>4 DEF OverwritesUnseen
      <3>2. P \subseteq Owned(j) /\ p \in P
        BY <2>1, <2>2, <3>1, CaptureEffect
      <3>3. calls[c].mode = "capture"
        BY <2>1, <3>2 DEF Diverged
      <3>4. host[c].seen[p] = IF calls[c].files[p] # Unset THEN calls[c].files[p] ELSE disk[p]
        BY <2>2, <2>4, <3>1, <3>2, <3>3 DEF CallInv, SeenStands
      <3>5. calls[c].files = DeltaOf(j).files
        BY <2>1, <2>2, <3>1 DEF Unmoved, StagedOf, Keys, NoKey
      <3> QED
        BY <3>1, <3>4, <3>5 DEF Merged
    <2> QED
      BY <2>3, <2>4
  <1>2. ASSUME ShellInv, [ShellNext]_allVars
        PROVE  [\A c \in Calls : Captures(c) =>
                  host[c].state = "ended" /\ (c \in stale \/ ~OverwritesUnseen(c))]_allVars
    BY <1>1, <1>2
  <1> QED
    BY <1>2, ShellInvariance, PTL DEF ShellSpec, CaptureOverwritesNothing

\* A command's delta lands only in the binding and the attempt it was prepared
\* for, while that attempt runs (CompleteShell over heldAuthorLocked).
THEOREM CapturesKeepTheirAttempt == ShellSpec => CapturedByItsAttempt
  <1>1. ASSUME ShellInv, ShellNext, NEW c \in Calls, Captures(c)
        PROVE  LET b == bindings[calls[c].key] IN
               /\ InFlight(b.unit) /\ runs[b.unit].attempt = b.attempt
               /\ host[c].by = [child |-> b.unit, attempt |-> b.attempt]
    <2>1. PICK u \in Workers : Completable(u, c)
      BY <1>1, CapturesMeans
    <2>2. CallInv(c) /\ TypeOK /\ AttemptInv
      BY <1>1 DEF ShellInv, IInv, CallsInv
    <2>3. calls[c] # Nothing /\ calls[c].caller = CallerOf(u) /\ calls[c].key \in HeldKeys(u)
      BY <2>1 DEF Completable
    <2>4. /\ bindings[calls[c].key].unit = u /\ bindings[calls[c].key].attempt = runs[u].attempt
          /\ InFlight(u) /\ CallerOf(u) = [child |-> u, attempt |-> runs[u].attempt]
      BY <2>2, <2>3, HeldMeans
    <2> QED
      BY <2>2, <2>3, <2>4 DEF CallInv, Recorded
  <1>2. ASSUME ShellInv, [ShellNext]_allVars
        PROVE  [\A c \in Calls : Captures(c) =>
                  LET b == bindings[calls[c].key] IN
                  /\ InFlight(b.unit) /\ runs[b.unit].attempt = b.attempt
                  /\ host[c].by = [child |-> b.unit, attempt |-> b.attempt]]_allVars
    BY <1>1, <1>2
  <1> QED
    BY <1>2, ShellInvariance, PTL DEF ShellSpec, CapturedByItsAttempt
=============================================================================
