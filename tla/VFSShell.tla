------------------------------- MODULE VFSShell -------------------------------
(***************************************************************************)
(* Shell commands and native inspections over the claims of VFSClaims      *)
(* (shell.go, native.go, operation.go).  A command that mutates runs in a  *)
(* private projection of its binding's scope and is imported when it ends; *)
(* a command or a tool that only inspects reads the workspace in place and *)
(* keeps foreign claims off what it reads.  A command spans several harness*)
(* processes (prepare, start, evaluate, complete) with any other command   *)
(* between them; how a command is classified is left to the caller.        *)
(***************************************************************************)
EXTENDS VFSClaims

CONSTANTS Kinds,   \* the kinds of calls an instance makes
          Calls,   \* call identifiers, each prepared once
          Deleted, \* the content of an absent file
          Blank    \* the content of an empty file

ASSUME ContentAssumption == {Deleted, Blank} \subseteq Content /\ IsFiniteSet(Paths)
Modes == {"capture", "inspect", "query", "native"}
ASSUME KindsAssumption == Kinds \subseteq Modes

VARIABLES
  disk,  \* the workspace, which only consolidation changes here
  calls, \* store: what each prepared command was planned against
  roots, \* each command's sandbox root: the projection and the confirmation
  host,  \* the native side of each call: its state, its reach, what it saw
  stale  \* history variable: calls whose work was consolidated, or whose claim
         \* was reassigned, since preparation

shellVars == <<calls, roots, host>>
allVars   == <<vars, disk, shellVars, stale>>

Caller   == [child : Units, attempt : 0..MaxAttempts]
Call     == [mode : Modes, key : Keys \cup {NoKey}, caller : Caller,
             revision : 0..MaxRevision, files : Files, hidden : SUBSET Paths,
             reads : SUBSET Paths, started : BOOLEAN, evaluated : BOOLEAN]
Root     == [files : [Paths -> Content], confirmed : BOOLEAN]
Host     == [state : {"new", "planned", "running", "ended"}, by : Caller, native : BOOLEAN,
             scope : SUBSET Paths, seen : [Paths -> Content]]
ASSUME ReservedAssumption == Nothing \notin Call \cup Root
NoFiles  == [p \in Paths |-> Deleted]

Unused   == [state |-> "new", by |-> [child |-> CHOOSE u \in Workers : TRUE, attempt |-> NoAttempt],
             native |-> FALSE, scope |-> {}, seen |-> NoFiles]

-----------------------------------------------------------------------------
(* Helpers *)

\* currentCallerLocked: a child with no running execution has no unit.
CallerOf(u) == [child |-> u, attempt |-> IF Current(u) THEN runs[u].attempt ELSE NoAttempt]
\* heldAuthorLocked: the one author binding the child holds, if any.
HeldKeys(u) == {k \in Issued : Author(k) /\ Current(u) /\ Holds(u, k)}
HeldKey(u)  == IF HeldKeys(u) = {} THEN NoKey ELSE CHOOSE k \in HeldKeys(u) : TRUE
Foreign(k)  == {p \in Paths : owners[p] \notin {NoKey, k}}
\* readMergedLocked: staged content over the workspace.
Merged(k, p) == IF DeltaOf(k).files[p] # Unset THEN DeltaOf(k).files[p] ELSE disk[p]
\* An absent file is projected as an empty one, for the sandbox to grant.
Projected(v) == IF v = Deleted THEN Blank ELSE v

\* What an unbound caller has staged: revision 0, the hash of nothing.
StagedOf(k) == IF k = NoKey THEN NoDelta ELSE DeltaOf(k)
Unmoved(c) == LET d == StagedOf(calls[c].key) IN
  d.revision = calls[c].revision /\ d.files = calls[c].files
InPlace(c) == calls[c].mode # "capture"
\* guardInspectionClaimLocked: a claim of S by unit u under key k would not
\* expose a path to a started inspection of somebody else.
ClaimKeepsReads(u, k, S) ==
  \A c \in Calls : calls[c] # Nothing =>
    \/ ~calls[c].started \/ ~InPlace(c)
    \/ k = calls[c].key /\ calls[c].caller.child = u /\ calls[c].caller.attempt # NoAttempt
    \/ S \cap calls[c].reads = {}

ShellInit ==
  /\ Init
  /\ disk = NoFiles
  /\ calls = [c \in Calls |-> Nothing]
  /\ roots = [c \in Calls |-> Nothing]
  /\ host = [c \in Calls |-> Unused]
  /\ stale = {}

-----------------------------------------------------------------------------
(* Preparation *)

NewCall(u, k, mode, S, started) ==
  [mode |-> mode, key |-> k, caller |-> CallerOf(u), revision |-> StagedOf(k).revision,
   files |-> StagedOf(k).files, hidden |-> IF mode = "inspect" THEN Foreign(k) ELSE {},
   reads |-> S, started |-> started, evaluated |-> FALSE]
Seen(k, mode) == [p \in Paths |-> IF mode = "capture" THEN Merged(k, p) ELSE Deleted]
Plan(c, u, k, mode, S, started) ==
  /\ mode \in Kinds
  /\ calls' = [calls EXCEPT ![c] = NewCall(u, k, mode, S, started)]
  /\ host' = [host EXCEPT ![c] = [state |-> IF started THEN "running" ELSE "planned",
                                  by |-> CallerOf(u), native |-> started,
                                  scope |-> IF mode = "capture" THEN Owned(k) ELSE S,
                                  seen |-> Seen(k, mode)]]

\* execute.before gives every tool call one identifier and plans it once.
Admits(c) == Ready /\ host[c].state = "new"

\* PrepareShell of a mutation: the scope is copied as the merged view shows it.
PrepareCapture(u, c) ==
  /\ Admits(c)
  /\ LET k == HeldKey(u) IN
     /\ Cardinality(HeldKeys(u)) = 1 /\ Owned(k) # {}
     /\ Plan(c, u, k, "capture", {}, FALSE)
     /\ roots' = [roots EXCEPT ![c] =
          [files |-> [p \in Paths |-> IF p \in Owned(k) THEN Projected(Merged(k, p))
                                      ELSE Deleted],
           confirmed |-> FALSE]]
  /\ UNCHANGED <<vars, disk>>

\* PrepareShell of an inspection reads in place all that no other author holds.
PrepareInspect(u, c) ==
  /\ Admits(c)
  /\ Cardinality(HeldKeys(u)) <= 1
  /\ Plan(c, u, HeldKey(u), "inspect", Paths \ Foreign(HeldKey(u)), FALSE)
  /\ roots' = [roots EXCEPT ![c] = [files |-> NoFiles, confirmed |-> FALSE]]
  /\ UNCHANGED <<vars, disk>>

\* A code query reads everything, so nobody else may hold anything.
PrepareQuery(u, c) ==
  /\ Admits(c)
  /\ Cardinality(HeldKeys(u)) <= 1 /\ Foreign(HeldKey(u)) = {}
  /\ Plan(c, u, HeldKey(u), "query", Paths, FALSE)
  /\ roots' = [roots EXCEPT ![c] = [files |-> NoFiles, confirmed |-> FALSE]]
  /\ UNCHANGED <<vars, disk>>

\* Bug variant: only what others hold at this moment is looked at by path.
StartNativeUnchecked(u, c, S) ==
  /\ Admits(c)
  /\ Cardinality(HeldKeys(u)) <= 1
  /\ Plan(c, u, HeldKey(u), "native", S, TRUE)
  /\ UNCHANGED <<vars, disk, roots>>

\* StartNativeInspection reserves a file or a subtree and starts at once.
StartNative(u, c, S) ==
  /\ Admits(c)
  /\ Cardinality(HeldKeys(u)) <= 1
  /\ S \cap Foreign(HeldKey(u)) = {}
  /\ Plan(c, u, HeldKey(u), "native", S, TRUE)
  /\ UNCHANGED <<vars, disk, roots>>

-----------------------------------------------------------------------------
(* Continuation: each native hook decides again against the live state.    *)

\* Bug variant: the plan made at preparation is taken for an authority.
ContinuableOnPlan(u, c) ==
  /\ Ready
  /\ calls[c] # Nothing /\ calls[c].caller = CallerOf(u)

Continuable(u, c) ==
  /\ Ready
  /\ calls[c] # Nothing /\ calls[c].caller = CallerOf(u)
  /\ LET k == calls[c].key IN
     /\ IF k # NoKey THEN k \in HeldKeys(u) /\ Unmoved(c) ELSE HeldKeys(u) = {}
     /\ InPlace(c) => Foreign(k) \subseteq calls[c].hidden

Start(u, c) ==
  /\ Continuable(u, c) /\ ~calls[c].started /\ host[c].state = "planned"
  /\ calls' = [calls EXCEPT ![c].started = TRUE]
  /\ UNCHANGED <<vars, disk, roots, host>>

\* The permission callback; the sandboxed command runs once it is allowed.
Evaluate(u, c) ==
  /\ Continuable(u, c) /\ calls[c].started /\ ~calls[c].evaluated
  /\ host[c].state = "planned"
  /\ calls' = [calls EXCEPT ![c].evaluated = TRUE]
  /\ host' = [host EXCEPT ![c].state = "running"]
  /\ UNCHANGED <<vars, disk, roots>>

-----------------------------------------------------------------------------
(* The native side: the sandboxed process and the supervisor.              *)

\* create.before or the permission hook refuses, for want of a sandbox or of an
\* admission: nothing runs, and nobody confirms that it ended.
NeverRuns(c) ==
  /\ host[c].state = "planned"
  /\ host' = [host EXCEPT ![c].state = "ended"]
  /\ UNCHANGED <<vars, disk, calls, roots>>

\* Only the files the projection was made with are writable.
CommandWrites(c, p, v) ==
  /\ host[c].state = "running" /\ p \in host[c].scope
  /\ roots[c] # Nothing /\ roots[c].files[p] # v
  /\ roots' = [roots EXCEPT ![c].files[p] = v]
  /\ UNCHANGED <<vars, disk, calls, host>>

\* The supervisor confirms that no descendant survives; a native tool returns.
End(c) ==
  /\ host[c].state = "running"
  /\ host' = [host EXCEPT ![c].state = "ended"]
  /\ roots' = IF roots[c] = Nothing THEN roots
              ELSE [roots EXCEPT ![c].confirmed = TRUE]
  /\ UNCHANGED <<vars, disk, calls>>

-----------------------------------------------------------------------------
(* Completion *)

Forget(c) == calls' = [calls EXCEPT ![c] = Nothing]

\* finishShell: only a wrapped command is completed, never a native tool's call.
Wrapped(c) == calls[c].mode # "native"

\* An inspection with no delta to look for is just forgotten.
CompleteUncaptured(u, c) ==
  /\ Ready
  /\ calls[c] # Nothing /\ calls[c].caller = CallerOf(u)
  /\ Wrapped(c)
  /\ calls[c].mode = "query" \/ calls[c].key = NoKey
  /\ Forget(c)
  /\ UNCHANGED <<vars, disk, roots, host>>

\* Bug variant: whoever holds the binding now completes the call.
CompletableByHolder(u, c) ==
  /\ Ready
  /\ calls[c] # Nothing /\ calls[c].caller.child = u
  /\ calls[c].key # NoKey /\ calls[c].mode \in {"capture", "inspect"}
  /\ roots[c] # Nothing /\ roots[c].confirmed

\* Bug variant: the command's descendants are not waited for.
CompletableUnconfirmed(u, c) ==
  /\ Ready
  /\ calls[c] # Nothing /\ calls[c].caller = CallerOf(u)
  /\ calls[c].key # NoKey /\ calls[c].mode \in {"capture", "inspect"}
  /\ calls[c].key \in HeldKeys(u)
  /\ roots[c] # Nothing

\* What CompleteShell asks before it consumes the call.
Completable(u, c) ==
  /\ Ready
  /\ calls[c] # Nothing /\ calls[c].caller = CallerOf(u)
  /\ calls[c].key # NoKey /\ calls[c].mode \in {"capture", "inspect"}
  /\ calls[c].key \in HeldKeys(u)
  /\ roots[c] # Nothing /\ roots[c].confirmed

\* captureLocked: the paths whose copy diverged from the merged view.
Diverged(c) == LET k == calls[c].key IN
  IF calls[c].mode # "capture" THEN {}
  ELSE {p \in Owned(k) : /\ roots[c].files[p] # Projected(Merged(k, p))
                         /\ {roots[c].files[p], Merged(k, p)} # {Deleted}}
\* stageLocked for each of them.
Capture(c, P) == LET k == calls[c].key IN
  /\ DeltaOf(k).revision + Cardinality(P) <= MaxRevision
  /\ staged' = IF P = {} THEN staged ELSE [staged EXCEPT ![k] =
       [DeltaOf(k) EXCEPT
          !.files = [p \in Paths |-> IF p \in P THEN roots[c].files[p] ELSE @[p]],
          !.revision = @ + Cardinality(P), !.bases = @ \cup P, !.verdicts = NoVerdicts]]
  /\ UNCHANGED <<bindings, owners, issued, runs, command, asked, declared, direct>>

\* The staged work moved: the call is consumed and the root is left behind.
CompleteMoved(u, c) ==
  /\ Completable(u, c) /\ ~Unmoved(c)
  /\ Forget(c)
  /\ UNCHANGED <<vars, disk, roots, host>>

\* Bug variant: the import does not ask whether the staged work moved.
CompleteAnyway(u, c) ==
  /\ Completable(u, c)
  /\ Capture(c, Diverged(c))
  /\ Forget(c)
  /\ roots' = [roots EXCEPT ![c] = Nothing]
  /\ UNCHANGED <<disk, host>>

Complete(u, c) ==
  /\ Completable(u, c) /\ Unmoved(c)
  /\ Capture(c, Diverged(c))
  /\ Forget(c)
  /\ roots' = [roots EXCEPT ![c] = Nothing]
  /\ UNCHANGED <<disk, host>>

\* A path that cannot be read or staged ends the capture: what came before it
\* stays staged and the root stays.
CompletePartly(u, c, P) ==
  /\ Completable(u, c) /\ Unmoved(c)
  /\ P \subseteq Diverged(c) /\ P # Diverged(c)
  /\ Capture(c, P)
  /\ Forget(c)
  /\ UNCHANGED <<disk, roots, host>>

\* The root is removed before the store is saved: the process ends, or the save
\* fails, in between.
CompleteUnsaved(u, c) ==
  /\ Completable(u, c) /\ Unmoved(c)
  /\ roots' = [roots EXCEPT ![c] = Nothing]
  /\ UNCHANGED <<vars, disk, calls, host>>

\* ReleaseShell: the host forgets a shell, running or not.
ReleaseShell(c) ==
  /\ Ready
  /\ calls[c] # Nothing /\ calls[c].mode # "native"
  /\ Forget(c)
  /\ UNCHANGED <<vars, disk, roots, host>>

\* finishShell: the entry of an ended call is imported by the session that made
\* it, or released.
FinishShell(c) ==
  \/ ReleaseShell(c)
  \/ \E u \in Workers :
       \/ CompleteUncaptured(u, c) \/ CompleteMoved(u, c) \/ Complete(u, c)
       \/ CompleteUnsaved(u, c)
       \/ \E P \in SUBSET Paths : CompletePartly(u, c, P)

\* The session's context shows the tool call as completed or in error.
Observed(c) == host[c].state = "ended"

\* EndNativeInspection, by the tool that returned or by a later reconciliation.
EndNative(c) ==
  /\ Ready
  /\ calls[c] # Nothing /\ calls[c].mode = "native" /\ Observed(c)
  /\ Forget(c)
  /\ UNCHANGED <<vars, disk, roots, host>>

-----------------------------------------------------------------------------
(* Claims, writes and runs, as VFSClaims has them, over the calls.         *)

\* assignClaim: a scope for a unit, or the work of another author handed over.
\* No claim is made while it would expose a path to a started inspection.
Reserve(u, S, R) == ClaimKeepsReads(u, NoKey, S) /\ AssignScope(u, S, R)
Reassign(k, u, S, R) ==
  /\ ClaimKeepsReads(u, k, S) /\ ClaimKeepsReads(u, NoKey, S \ Owned(k))
  /\ HandOver(k, u, S, R)

ClaimStep ==
  /\ \E u \in Workers, S \in SUBSET Paths, R \in ReadSets :
       \/ Reserve(u, S, R)
       \/ ClaimKeepsReads(u, NoKey, S) /\ BindFresh(u, S)
       \/ \E k \in Issued :
            \/ ClaimKeepsReads(u, k, S) /\ Rebind(k, u, S, R)
            \/ Reassign(k, u, S, R)
  /\ UNCHANGED <<disk, shellVars>>

\* mutateOperation: staged work is changed through the binding its caller holds.
Operate == \E u \in Workers, k \in Issued, p \in Paths, v \in Content : Write(u, k, p, v)

OtherStep ==
  /\ \/ \E k \in Issued : ReleaseClaim(k) \/ Discard(k)
     \/ \E u \in Workers, k \in Issued : BindAdopt(u, k)
     \/ Operate
     \/ \E u \in Workers : Launch(u, {})
     \/ IssueGates \/ MarkReady \/ Settle \/ Stop
  /\ UNCHANGED <<disk, shellVars>>

ConsolidateStep(k) ==
  /\ Consolidate(k, Nothing)
  /\ disk' = [p \in Paths |-> IF DeltaOf(k).files[p] # Unset THEN DeltaOf(k).files[p]
                              ELSE disk[p]]
  /\ UNCHANGED shellVars

\* Bug variant: what the attempt's native tools reserved goes with its shells.
FinishAll(u) ==
  /\ Finish(u)
  /\ calls' = [c \in Calls |->
       IF calls[c] # Nothing /\ calls[c].caller = [child |-> u, attempt |-> runs[u].attempt]
       THEN Nothing ELSE calls[c]]
  /\ UNCHANGED <<disk, roots, host>>

\* CancelPreparedDelegation forgets the attempt's shells, code queries excepted.
FinishStep(u) ==
  /\ Finish(u)
  /\ calls' = [c \in Calls |->
       IF /\ calls[c] # Nothing /\ calls[c].mode \in {"capture", "inspect"}
          /\ calls[c].caller = [child |-> u, attempt |-> runs[u].attempt]
       THEN Nothing ELSE calls[c]]
  /\ UNCHANGED <<disk, roots, host>>

ShellStep ==
  \E c \in Calls :
    \/ \E u \in Workers :
         \/ PrepareCapture(u, c) \/ PrepareInspect(u, c) \/ PrepareQuery(u, c)
         \/ \E S \in (SUBSET Paths) \ {{}} : StartNative(u, c, S)
         \/ Start(u, c) \/ Evaluate(u, c)
    \/ \E p \in Paths, v \in Content : CommandWrites(c, p, v)
    \/ NeverRuns(c) \/ End(c) \/ FinishShell(c) \/ EndNative(c)

ShellNext ==
  /\ \/ ClaimStep
     \/ OtherStep
     \/ \E k \in Issued : ConsolidateStep(k)
     \/ \E u \in Workers : FinishStep(u)
     \/ ShellStep
  /\ stale' = {c \in Calls : /\ calls'[c] # Nothing /\ calls'[c].key # NoKey
                             /\ \/ c \in stale
                                \/ staged'[calls'[c].key] = Nothing
                                \/ bindings'[calls'[c].key].prelaunch}

ShellSpec == ShellInit /\ [][ShellNext]_allVars
-----------------------------------------------------------------------------
(* Properties *)

\* While a native tool reads, and while a started in-place command is on record,
\* no path it can read belongs to another unit, whatever is assigned, bound,
\* handed over, released or finished meanwhile (StartNativeInspection,
\* ContinueShell and guardInspectionClaimLocked each hold a part of this).
Inspecting(c) ==
  \/ calls[c] # Nothing /\ calls[c].started /\ InPlace(c)
  \/ host[c].state = "running" /\ host[c].native
InspectionsExcludeClaims ==
  \A c \in Calls : Inspecting(c) =>
    \A p \in host[c].scope : owners[p] # NoKey =>
      /\ host[c].by.attempt # NoAttempt
      /\ bindings[owners[p]].unit = host[c].by.child

Captures(c) == calls[c] # Nothing /\ calls'[c] = Nothing
               /\ staged' # staged
OverwritesUnseen(c) ==
  \E k \in Keys, p \in Paths :
    /\ k = calls[c].key
    /\ DeltaOf(k)'.files[p] # DeltaOf(k).files[p]
    /\ Merged(k, p) # host[c].seen[p]
\* A capture waits for its command to end and overwrites nothing the command did
\* not see: every path it stages still reads as it did when the projection was
\* made, however many calls of the child and of the orchestrator came between,
\* short of a consolidation of the same work or a reassignment of its claim.
CaptureOverwritesNothing ==
  [][\A c \in Calls : Captures(c) =>
       host[c].state = "ended" /\ (c \in stale \/ ~OverwritesUnseen(c))]_allVars

\* A command's delta lands only in the binding and the attempt it was prepared
\* for, while that attempt runs.
CapturedByItsAttempt ==
  [][\A c \in Calls : Captures(c) =>
       LET b == bindings[calls[c].key] IN
       /\ InFlight(b.unit) /\ runs[b.unit].attempt = b.attempt
       /\ host[c].by = [child |-> b.unit, attempt |-> b.attempt]]_allVars

\* "Staged work that changed since preparation is refused, never overwritten."
MovedWorkIsRefused ==
  [][\A c \in Calls : Captures(c) => ~OverwritesUnseen(c)]_allVars

\* A delta whose command ended is "retained, unimported" until it is imported.
EndedDeltaIsRetained ==
  \A c \in Calls : calls[c] # Nothing /\ calls[c].mode = "capture" => roots[c] # Nothing
=============================================================================
