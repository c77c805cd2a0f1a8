------------------------------- MODULE VFSClaims -------------------------------
(***************************************************************************)
(* Who may touch what in takt/vfs: exclusive claims over paths, the staged *)
(* work they hold, the gates that judge it, and the launch protocol that   *)
(* ties both to an attempt the execution history admitted (claims.go,      *)
(* transfer.go, bindings.go, caller.go, verdict.go, reads.go, execution.go *)
(* and the commands of cli/execution.go and cli/dispatch.go that run them).*)
(*                                                                         *)
(* Every command holds the workspace lock, so commands do not interleave;  *)
(* a launch and a finish save several times, in two stores, and the        *)
(* process may end between any two of those saves.  One root session; the  *)
(* files on disk, the recovery barrier and maintenance cycles are other    *)
(* modules' subject.                                                       *)
(***************************************************************************)
EXTENDS Naturals, FiniteSets

CONSTANTS Paths,       \* workspace-relative paths
          Content,     \* what a staged file holds, a deletion included
          Unset,       \* a path that is not staged
          Workers,     \* work units whose agent writes
          Judges,      \* work units whose agent verifies
          AgentOf,     \* the agent a unit is delegated to
          Free,        \* the read selector "free": all that is not in flight
          ReadSets,    \* the selectors an assignment may state
          Nothing,     \* a gate that never read, a judge with no verdict, ...
          MaxKeys,     \* bound: binding keys issued
          MaxRevision, \* bound: staged changes of one key
          MaxAttempts  \* bound: attempts of one unit

Units  == Workers \cup Judges
Agents == {AgentOf[u] : u \in Units}
Keys   == 1..MaxKeys
NoKey  == 0
NoAttempt == 0
Files  == [Paths -> Content \cup {Unset}]
Empty  == [p \in Paths |-> Unset]

ASSUME PathsAssumption == Unset \notin Content /\ Free \notin Paths
ASSUME UnitsAssumption ==
  /\ Workers \cap Judges = {}
  /\ \A w \in Workers, j \in Judges : AgentOf[w] # AgentOf[j]
ASSUME ReadsAssumption == ReadSets \subseteq SUBSET (Paths \cup {Free})
ASSUME BoundsAssumption == MaxKeys \in Nat /\ MaxRevision \in Nat /\ MaxAttempts \in Nat

VARIABLES
  bindings, \* store: the identity each issued key was bound for
  owners,   \* store: the key that owns each path exclusively
  staged,   \* store: each key's delta, or Nothing
  issued,   \* store: keys issued so far
  runs,     \* history: each unit's state, attempt and launch step
  command,  \* the launch or finish under way, and the save it comes to next
  asked,    \* the staged state the user was last asked to accept
  declared, \* history variable: the authors each judge's ready launch named
  direct    \* history variable: keys claimed by a bind with no assignment

store == <<bindings, owners, staged, issued>>
vars  == <<bindings, owners, staged, issued, runs, command, asked,
           declared, direct>>

\* A verdict and a gate's last read name the state they saw; `subject` is a
\* history field: whose work it was when it was read.
Subject == [unit : Units, attempt : 0..MaxAttempts]
Read    == [revision : 0..MaxRevision, files : Files, subject : Subject]
Verdict == [pass : BOOLEAN, revision : 0..MaxRevision, files : Files,
            unit : Units, attempt : 0..MaxAttempts, subject : Subject]
Delta   == [files : Files, revision : 0..MaxRevision, bases : SUBSET Paths,
            verdicts : [Agents -> Verdict \cup {Nothing}]]
Binding == [unit : Units, attempt : 0..MaxAttempts, prelaunch : BOOLEAN,
            held : BOOLEAN, over : Keys \cup {NoKey}, superseded : BOOLEAN,
            judged : Read \cup {Nothing}, reads : ReadSets \cup {{}}]
Run     == [state : {"new", "flight", "settled"}, attempt : 0..MaxAttempts,
            step : {"none", "admitted", "ready"}]
ASSUME NothingAssumption == Nothing \notin Delta
NoVerdicts == [a \in Agents |-> Nothing]
NoDelta == [files |-> Empty, revision |-> 0, bases |-> {}, verdicts |-> NoVerdicts]
Idle    == [unit |-> Nothing, authors |-> {}, next |-> "none"]

TypeOK ==
  /\ issued \in 0..MaxKeys
  /\ DOMAIN bindings \subseteq 1..issued
  /\ \A k \in DOMAIN bindings : bindings[k] \in Binding
  /\ owners \in [Paths -> Keys \cup {NoKey}]
  /\ DOMAIN staged = Keys
  /\ \A k \in Keys : staged[k] \in Delta \cup {Nothing}
  /\ runs \in [Units -> Run]
  /\ command \in [unit : Units \cup {Nothing}, authors : SUBSET Keys,
                  next : {"none", "gates", "ready", "finish"}]
  /\ asked \in [key : Keys, revision : 0..MaxRevision, files : Files] \cup {Nothing}
  /\ declared \in [Judges -> SUBSET Keys]
  /\ direct \subseteq Keys

-----------------------------------------------------------------------------
(* Helpers *)

Issued   == DOMAIN bindings
Author(k) == k \in Issued /\ bindings[k].over = NoKey
Gate(k)   == k \in Issued /\ bindings[k].over # NoKey
Owned(k) == {p \in Paths : owners[p] = k}
Set(f)   == {p \in Paths : f[p] # Unset}
\* A missing delta reads as an empty one: revision 0, the hash of "{}".
DeltaOf(k)   == IF staged[k] = Nothing THEN NoDelta ELSE staged[k]
HasStaged(k) == Set(DeltaOf(k).files) # {}
InFlight(u)  == runs[u].state = "flight"

\* A child runs its unit's admitted and prepared attempt.
Current(u) == InFlight(u) /\ runs[u].step = "ready"
\* A child resolves a binding by its unit and attempt; AttachChild gives an
\* attempt one child, so these two tell which host session `held` stands for.
Holds(u, k) == LET b == bindings[k] IN
  b.unit = u /\ b.attempt = runs[u].attempt /\ b.held /\ ~b.prelaunch

\* liveLocked: the binding awaits launch, or its own attempt is the running one.
Live(k) == LET b == bindings[k] IN
  \/ b.prelaunch
  \/ InFlight(b.unit) /\ b.attempt # NoAttempt /\ runs[b.unit].attempt = b.attempt

\* duplicateIdentity: another key already holds unit u's attempt n.
Duplicate(u, n, self) ==
  \E k \in Issued \ {self} :
    LET b == bindings[k] IN
    /\ b.over = NoKey /\ b.unit = u /\ b.attempt = n
    /\ n # NoAttempt \/ b.prelaunch \/ Owned(k) # {}

\* Only `free` lets a reader beside work in flight; every selector keeps later
\* claims off what it covers.
AdmitReads(u, R) ==
  \A p \in R \cap Paths :
    owners[p] # NoKey => bindings[owners[p]].unit = u \/ ~Live(owners[p])
GuardReaders(u, S) ==
  \A k \in Issued : LET b == bindings[k] IN
    \/ b.unit = u \/ ~Live(k)
    \/ S \cap b.reads = {} /\ (Free \in b.reads => S = {})

FreshBinding(u, n, R) ==
  [unit |-> u, attempt |-> n, prelaunch |-> n = NoAttempt, held |-> n # NoAttempt,
   over |-> NoKey, superseded |-> FALSE, judged |-> Nothing, reads |-> R]
With(f, k, x) == [i \in DOMAIN f \cup {k} |-> IF i = k THEN x ELSE f[i]]

Ready == command = Idle

Init ==
  /\ bindings = <<>>
  /\ owners = [p \in Paths |-> NoKey]
  /\ staged = [k \in Keys |-> Nothing]
  /\ issued = 0
  /\ runs = [u \in Units |-> [state |-> "new", attempt |-> 0, step |-> "none"]]
  /\ command = Idle
  /\ asked = Nothing
  /\ declared = [j \in Judges |-> {}]
  /\ direct = {}

-----------------------------------------------------------------------------
(* Claims: the orchestrator assigns, reassigns and releases scopes.        *)

\* Bug variant: the key is used and not counted as issued.
ClaimUncounted(k, binding, S) ==
  /\ bindings' = With(bindings, k, binding)
  /\ staged' = [staged EXCEPT ![k] = [NoDelta EXCEPT !.bases = S]]
  /\ owners' = [p \in Paths |-> IF p \in S THEN k ELSE owners[p]]
  /\ UNCHANGED issued

\* claimLocked: a fresh key owns S, the base of each path captured.
ClaimAs(k, binding, S) ==
  /\ bindings' = With(bindings, k, binding)
  /\ staged' = [staged EXCEPT ![k] = [NoDelta EXCEPT !.bases = S]]
  /\ owners' = [p \in Paths |-> IF p \in S THEN k ELSE owners[p]]
  /\ issued' = k
Unclaimed(S) == \A p \in S : owners[p] = NoKey

\* Bug variant: readers in flight do not keep the claim off.
AssignUnguarded(u, S, R) ==
  /\ Ready /\ issued < MaxKeys
  /\ S # {}
  /\ ~Duplicate(u, NoAttempt, NoKey)
  /\ AdmitReads(u, R)
  /\ Unclaimed(S)
  /\ ClaimAs(issued + 1, FreshBinding(u, NoAttempt, R), S)
  /\ UNCHANGED <<runs, command, asked, declared, direct>>

AssignScope(u, S, R) ==
  /\ Ready /\ issued < MaxKeys
  /\ S # {}
  /\ ~Duplicate(u, NoAttempt, NoKey)
  /\ AdmitReads(u, R)
  /\ GuardReaders(u, S)
  /\ Unclaimed(S)
  /\ ClaimAs(issued + 1, FreshBinding(u, NoAttempt, R), S)
  /\ UNCHANGED <<runs, command, asked, declared, direct>>

\* What every reassignment of k checks before it looks at the staged work.
Reassignable(k, u, S, R) ==
  /\ Ready
  /\ Author(k)
  /\ S # {}
  /\ ~Duplicate(u, NoAttempt, k)
  /\ AdmitReads(u, R)
  /\ GuardReaders(u, S)
  /\ Unclaimed(S \ Owned(k))

\* Bug variant: no base is captured for the paths the claim gains.
RebindUncaptured(k, u, S, R) ==
  /\ Reassignable(k, u, S, R)
  /\ Set(DeltaOf(k).files) \subseteq S
  /\ bindings' = [bindings EXCEPT ![k].unit = u, ![k].attempt = NoAttempt,
                    ![k].prelaunch = TRUE, ![k].held = FALSE, ![k].reads = R]
  /\ owners' = [p \in Paths |-> IF p \in S THEN k
                                ELSE IF owners[p] = k THEN NoKey ELSE owners[p]]
  /\ staged' = [staged EXCEPT ![k] =
       [DeltaOf(k) EXCEPT !.bases = @ \ (Owned(k) \ S), !.verdicts = NoVerdicts]]
  /\ UNCHANGED <<issued, runs, command, asked, declared, direct>>

\* The key goes to the new target whole: same delta, no verdict, no attempt.
Rebind(k, u, S, R) ==
  /\ Reassignable(k, u, S, R)
  /\ Set(DeltaOf(k).files) \subseteq S
  /\ bindings' = [bindings EXCEPT ![k].unit = u, ![k].attempt = NoAttempt,
                    ![k].prelaunch = TRUE, ![k].held = FALSE, ![k].reads = R]
  /\ owners' = [p \in Paths |-> IF p \in S THEN k
                                ELSE IF owners[p] = k THEN NoKey ELSE owners[p]]
  /\ staged' = [staged EXCEPT ![k] =
       [DeltaOf(k) EXCEPT !.bases = (@ \ (Owned(k) \ S)) \cup (S \ Owned(k)),
                          !.verdicts = NoVerdicts]]
  /\ UNCHANGED <<issued, runs, command, asked, declared, direct>>

\* handOverLocked: a scope that leaves staged paths out takes only the paths it
\* names, with their content and base, under a new key.
MovedFiles(k, S) == [p \in Paths |-> IF p \in S \cap Owned(k)
                                     THEN staged[k].files[p] ELSE Unset]
KeptFiles(k, S)  == [p \in Paths |-> IF p \in S \cap Owned(k)
                                     THEN Unset ELSE staged[k].files[p]]

\* Bug variant: ownership moves, the staged content does not.
HandOverOwnership(k, u, S, R) ==
  /\ Reassignable(k, u, S, R) /\ issued < MaxKeys
  /\ ~(Set(DeltaOf(k).files) \subseteq S)
  /\ ~Duplicate(u, NoAttempt, NoKey)
  /\ LET n == issued + 1 IN
     /\ issued' = n
     /\ bindings' = With(bindings, n, FreshBinding(u, NoAttempt, R))
     /\ owners' = [p \in Paths |-> IF p \in S THEN n ELSE owners[p]]
     /\ staged' = [staged EXCEPT ![n] = [NoDelta EXCEPT !.bases = S],
                                 ![k].files = KeptFiles(k, S), ![k].bases = @ \ S]
  /\ UNCHANGED <<runs, command, asked, declared, direct>>

HandOver(k, u, S, R) ==
  /\ Reassignable(k, u, S, R) /\ issued < MaxKeys
  /\ ~(Set(DeltaOf(k).files) \subseteq S)
  /\ ~Duplicate(u, NoAttempt, NoKey)
  /\ LET n == issued + 1
         moved == S \cap Owned(k)
     IN
     /\ issued' = n
     /\ bindings' = With(bindings, n, FreshBinding(u, NoAttempt, R))
     /\ owners' = [p \in Paths |-> IF p \in S THEN n ELSE owners[p]]
     /\ staged' = [staged EXCEPT
          ![n] = [NoDelta EXCEPT !.files = MovedFiles(k, S),
                    !.bases = (S \ moved) \cup (moved \cap staged[k].bases)],
          ![k].files = KeptFiles(k, S), ![k].bases = @ \ moved]
  /\ UNCHANGED <<runs, command, asked, declared, direct>>

Revoke(k) ==
  /\ bindings' = [bindings EXCEPT ![k].prelaunch = FALSE, ![k].held = FALSE]
  /\ owners' = [p \in Paths |-> IF owners[p] = k THEN NoKey ELSE owners[p]]
  /\ UNCHANGED <<staged, issued, runs, command, asked, declared, direct>>

\* Bug variant: a claim that holds staged work is released like any other.
ReleaseStaged(k) == Ready /\ k \in Issued /\ ~InFlight(bindings[k].unit) /\ Revoke(k)

\* ReleaseClaim frees the paths and keeps the binding, its bases included.
ReleaseClaim(k) ==
  /\ Ready
  /\ k \in Issued
  /\ ~HasStaged(k)
  /\ ~InFlight(bindings[k].unit)
  /\ Revoke(k)

-----------------------------------------------------------------------------
(* The children: bind, write, adopt gates, read and judge.                 *)

\* Bug variant: an attempt that already has a binding adopts another claim.
AdoptAgain(u, k) ==
  /\ Ready /\ Current(u)
  /\ Author(k) /\ bindings[k].prelaunch /\ bindings[k].unit = u
  /\ bindings' = [bindings EXCEPT ![k].attempt = runs[u].attempt,
                    ![k].prelaunch = FALSE, ![k].held = TRUE]
  /\ UNCHANGED <<owners, staged, issued, runs, command, asked, declared, direct>>

\* BindAs adopts the unit's pending claim, stamping the admitted attempt.
BindAdopt(u, k) ==
  /\ Ready /\ Current(u)
  /\ Author(k) /\ bindings[k].prelaunch /\ bindings[k].unit = u
  /\ ~Duplicate(u, runs[u].attempt, k)
  /\ bindings' = [bindings EXCEPT ![k].attempt = runs[u].attempt,
                    ![k].prelaunch = FALSE, ![k].held = TRUE]
  /\ UNCHANGED <<owners, staged, issued, runs, command, asked, declared, direct>>

\* BindAs with neither a pending claim nor a binding of this attempt claims
\* afresh whatever nobody owns.
BindFresh(u, S) ==
  /\ Ready /\ Current(u) /\ issued < MaxKeys
  /\ ~\E k \in Issued : Author(k) /\ bindings[k].prelaunch /\ bindings[k].unit = u
  /\ ~Duplicate(u, runs[u].attempt, NoKey)
  /\ Unclaimed(S)
  /\ ClaimAs(issued + 1, FreshBinding(u, runs[u].attempt, {}), S)
  /\ direct' = direct \cup {issued + 1}
  /\ UNCHANGED <<runs, command, asked, declared>>

\* stageLocked: a change bumps the revision and drops every verdict.
Write(u, k, p, v) ==
  /\ Ready /\ Current(u)
  /\ Author(k) /\ Holds(u, k)
  /\ owners[p] = k
  /\ DeltaOf(k).revision < MaxRevision
  /\ staged' = [staged EXCEPT ![k] =
       [DeltaOf(k) EXCEPT !.files[p] = v, !.revision = @ + 1,
                          !.bases = @ \cup {p}, !.verdicts = NoVerdicts]]
  /\ UNCHANGED <<bindings, owners, issued, runs, command, asked, declared, direct>>

\* AdoptGates takes every pending gate prepared for this attempt.
AdoptGates(u) ==
  /\ Ready /\ Current(u)
  /\ LET mine == {g \in Issued : /\ Gate(g) /\ bindings[g].prelaunch
                                 /\ bindings[g].unit = u
                                 /\ bindings[g].attempt = runs[u].attempt}
     IN /\ mine # {}
        /\ bindings' = [g \in Issued |->
             IF g \in mine THEN [bindings[g] EXCEPT !.prelaunch = FALSE, !.held = TRUE]
             ELSE bindings[g]]
  /\ UNCHANGED <<owners, staged, issued, runs, command, asked, declared, direct>>

SubjectOf(k) == [unit |-> bindings[k].unit, attempt |-> bindings[k].attempt]
\* A gate read records the exact state of its author's work.
GateRead(u, g) ==
  /\ Ready /\ Current(u)
  /\ Gate(g) /\ Holds(u, g) /\ ~bindings[g].superseded
  /\ LET k == bindings[g].over IN
     bindings' = [bindings EXCEPT ![g].judged =
       [revision |-> DeltaOf(k).revision, files |-> DeltaOf(k).files,
        subject |-> SubjectOf(k)]]
  /\ UNCHANGED <<owners, staged, issued, runs, command, asked, declared, direct>>

\* VerifyAs lands only over the state the gate last read, and is stamped with
\* the unit and attempt the author's binding carries now.
Verify(u, g, pass) ==
  /\ Ready /\ Current(u)
  /\ Gate(g) /\ Holds(u, g) /\ ~bindings[g].superseded
  /\ LET k == bindings[g].over
         read == bindings[g].judged
     IN
     /\ read # Nothing /\ staged[k] # Nothing
     /\ read.revision = staged[k].revision /\ read.files = staged[k].files
     /\ staged' = [staged EXCEPT ![k].verdicts[AgentOf[u]] =
          [pass |-> pass, revision |-> read.revision, files |-> read.files,
           unit |-> bindings[k].unit, attempt |-> bindings[k].attempt,
           subject |-> read.subject]]
  /\ UNCHANGED <<bindings, owners, issued, runs, command, asked, declared, direct>>

-----------------------------------------------------------------------------
(* The orchestrator closes staged work.                                    *)

\* currentVerdictsLocked: the verdicts that describe the work as it is now.
CurrentVerdicts(k) ==
  {v \in {DeltaOf(k).verdicts[j] : j \in Agents} \ {Nothing} :
     /\ v.revision = DeltaOf(k).revision /\ v.files = DeltaOf(k).files
     /\ v.unit = bindings[k].unit /\ v.attempt = bindings[k].attempt}
Failing(k) == \E v \in CurrentVerdicts(k) : ~v.pass
StagedState(k) == [key |-> k, revision |-> DeltaOf(k).revision, files |-> DeltaOf(k).files]

\* A failing verdict refuses and names the exact state, for the user to accept.
ConsolidateRefused(k) ==
  /\ Ready
  /\ Author(k) /\ HasStaged(k)
  /\ Failing(k)
  /\ asked' = StagedState(k)
  /\ UNCHANGED <<store, runs, command, declared, direct>>

Closed(k) ==
  /\ staged' = [staged EXCEPT ![k] = Nothing]
  /\ owners' = [p \in Paths |-> IF owners[p] = k THEN NoKey ELSE owners[p]]
  /\ UNCHANGED <<bindings, issued, runs, command, asked, declared, direct>>

\* Bug variant: an acceptance for one state covers whatever is staged now.
ConsolidateStale(k, accepted) ==
  /\ Ready
  /\ Author(k) /\ HasStaged(k)
  /\ accepted # Nothing => accepted.key = k
  /\ accepted = Nothing => ~Failing(k)
  /\ Set(DeltaOf(k).files) \subseteq Owned(k)
  /\ Closed(k)

\* ConsolidateAs: the delta reaches the workspace and the claim ends.
Consolidate(k, accepted) ==
  /\ Ready
  /\ Author(k) /\ HasStaged(k)
  /\ accepted # Nothing => accepted = StagedState(k)
  /\ accepted = Nothing => ~Failing(k)
  /\ Set(DeltaOf(k).files) \subseteq Owned(k)
  /\ Closed(k)

\* DiscardAs: the delta stays, empty and one revision on.
Discard(k) ==
  /\ Ready
  /\ Author(k)
  /\ staged[k] # Nothing => staged[k].revision < MaxRevision
  /\ staged' = IF staged[k] = Nothing THEN staged
               ELSE [staged EXCEPT ![k] = [NoDelta EXCEPT !.revision = staged[k].revision + 1]]
  /\ owners' = [p \in Paths |-> IF owners[p] = k THEN NoKey ELSE owners[p]]
  /\ UNCHANGED <<bindings, issued, runs, command, asked, declared, direct>>

-----------------------------------------------------------------------------
(* Launch and finish: the history and the store are saved in turns.        *)

PendingClaim(u) == \E k \in Issued : /\ Author(k) /\ bindings[k].prelaunch
                                     /\ bindings[k].unit = u
\* Bug variant: a judge may be launched over a key that only judges.
PreparableAny(u, A) == u \in Workers => A = {} /\ PendingClaim(u)
\* PrepareDelegation's demands: a writer has its claim pending; a judge names
\* authors that write.
Preparable(u, A) == /\ u \in Workers => A = {} /\ PendingClaim(u)
                    /\ \A k \in A : Author(k)

\* The admission and its execution record issue the next attempt; a retry of
\* the same host call finds its own admission and goes on from there.
Launch(u, A) ==
  /\ Ready
  /\ Preparable(u, A)
  /\ \/ /\ ~InFlight(u) /\ runs[u].attempt < MaxAttempts
        /\ runs' = [runs EXCEPT ![u] = [state |-> "flight",
                      attempt |-> runs[u].attempt + 1, step |-> "admitted"]]
     \/ /\ InFlight(u) /\ runs[u].step = "admitted"
        /\ runs' = runs
  /\ command' = [unit |-> u, authors |-> A, next |-> "gates"]
  /\ UNCHANGED <<store, asked, declared, direct>>

AttemptGates(u) == {g \in Issued : /\ Gate(g) /\ bindings[g].prelaunch
                                   /\ bindings[g].unit = u
                                   /\ bindings[g].attempt = runs[u].attempt}
\* Bug variant: gates a replay no longer names stay pending.
NoSurplus(u, A) == {}
Surplus(u, A)   == {g \in AttemptGates(u) : bindings[g].over \notin A}
\* A pending gate of this very attempt is reused.
ToIssue(u, A)   == {k \in A : ~\E g \in AttemptGates(u) : bindings[g].over = k}
\* Bug variant: the earlier gates of one unit only are replaced.
SupersededOfUnit(u, N) == {g \in Issued : /\ Gate(g) /\ bindings[g].over \in N
                                          /\ bindings[g].unit = u
                                          /\ ~bindings[g].superseded}
\* A new gate replaces its judge's earlier gates over the author, whatever unit
\* they were issued under.
Superseded(u, N) == {g \in Issued : /\ Gate(g) /\ bindings[g].over \in N
                                    /\ AgentOf[bindings[g].unit] = AgentOf[u]
                                    /\ ~bindings[g].superseded}
Retire(b) == [b EXCEPT !.prelaunch = FALSE, !.held = FALSE, !.superseded = TRUE]
\* New gates take the next keys, in the order of their authors.
GateKey(N, k) == issued + Cardinality({n \in N : n <= k})
NewGate(u, k) ==
  [unit |-> u, attempt |-> runs[u].attempt, prelaunch |-> TRUE, held |-> FALSE,
   over |-> k, superseded |-> FALSE, judged |-> Nothing, reads |-> {}]

\* PrepareDelegation saves the whole set of gates at once.
IssueGates ==
  /\ command.next = "gates"
  /\ LET u == command.unit
         N == ToIssue(u, command.authors)
         gone == Surplus(u, command.authors)
         old == Superseded(u, N)
         new == {GateKey(N, k) : k \in N}
         AuthorOf(g) == CHOOSE k \in N : GateKey(N, k) = g
     IN
     /\ issued + Cardinality(N) <= MaxKeys
     /\ issued' = issued + Cardinality(N)
     /\ bindings' = [g \in (Issued \ gone) \cup new |->
          IF g \in new THEN NewGate(u, AuthorOf(g))
          ELSE IF g \in old THEN Retire(bindings[g]) ELSE bindings[g]]
     /\ staged' = [g \in Keys |-> IF g \in gone THEN Nothing
                                  ELSE IF g \in new THEN NoDelta ELSE staged[g]]
  /\ command' = [command EXCEPT !.next = "ready"]
  /\ UNCHANGED <<owners, runs, asked, declared, direct>>

MarkReady ==
  /\ command.next = "ready"
  /\ runs' = [runs EXCEPT ![command.unit].step = "ready"]
  /\ declared' = IF command.unit \in Judges
                 THEN [declared EXCEPT ![command.unit] = command.authors] ELSE declared
  /\ command' = Idle
  /\ UNCHANGED <<store, asked, direct>>

\* CancelPreparedDelegation removes the attempt's pending gates and no claim.
Cancel(u) ==
  /\ bindings' = [g \in Issued \ AttemptGates(u) |-> bindings[g]]
  /\ staged' = [g \in Keys |-> IF g \in AttemptGates(u) THEN Nothing ELSE staged[g]]
  /\ UNCHANGED <<owners, issued>>

\* The host reports the end of a run, the user abandons it, or a retry finds
\* its claim or inputs changed.
Finish(u) ==
  /\ Ready
  /\ InFlight(u)
  /\ Cancel(u)
  /\ command' = [unit |-> u, authors |-> {}, next |-> "finish"]
  /\ UNCHANGED <<runs, asked, declared, direct>>

\* A save failed after the admission: the gates are removed, if the store still
\* takes it, and the attempt is closed.
Compensate ==
  /\ command.next \in {"gates", "ready"}
  /\ Cancel(command.unit) \/ UNCHANGED store
  /\ command' = [command EXCEPT !.authors = {}, !.next = "finish"]
  /\ UNCHANGED <<runs, asked, declared, direct>>

Settle ==
  /\ command.next = "finish"
  /\ runs' = [runs EXCEPT ![command.unit].state = "settled", ![command.unit].step = "none"]
  /\ declared' = [u \in Judges |-> IF u = command.unit THEN {} ELSE declared[u]]
  /\ command' = Idle
  /\ UNCHANGED <<store, asked, direct>>

\* The process ends; what it saved stays.
Stop == /\ command # Idle
        /\ command' = Idle
        /\ UNCHANGED <<store, runs, asked, declared, direct>>

-----------------------------------------------------------------------------
Claims == \/ \E u \in Workers, S \in SUBSET Paths, R \in ReadSets :
               \/ AssignScope(u, S, R)
               \/ \E k \in Issued : Rebind(k, u, S, R) \/ HandOver(k, u, S, R)
          \/ \E k \in Issued : ReleaseClaim(k)

Children == \/ \E u \in Workers :
                 \/ \E k \in Issued : BindAdopt(u, k)
                 \/ \E S \in SUBSET Paths : BindFresh(u, S)
                 \/ \E k \in Issued, p \in Paths, v \in Content : Write(u, k, p, v)
            \/ \E u \in Judges :
                 \/ AdoptGates(u)
                 \/ \E g \in Issued : GateRead(u, g)
                 \/ \E g \in Issued, pass \in BOOLEAN : Verify(u, g, pass)

Closing == \E k \in Issued :
             \/ ConsolidateRefused(k)
             \/ \E accepted \in {asked, Nothing} : Consolidate(k, accepted)
             \/ Discard(k)

Launching == \/ \E u \in Units, A \in SUBSET Issued : Launch(u, A)
             \/ IssueGates
             \/ MarkReady
             \/ \E u \in Units : Finish(u)
             \/ Compensate
             \/ Settle
             \/ Stop

Next == Claims \/ Children \/ Closing \/ Launching

Spec == Init /\ [][Next]_vars

-----------------------------------------------------------------------------
(* Properties *)

\* Every staged path is owned by the key that staged it, so no delta is left
\* that consolidateLocked could only refuse, through every hand-over, release,
\* discard and relaunch.
StagedOwned == \A k \in Keys : Set(DeltaOf(k).files) \subseteq Owned(k)

\* A claim holds a captured base for each path it owns: what consolidation
\* compares the workspace with is never missing, however the path came to it.
OwnedHasBase == \A p \in Paths :
  owners[p] # NoKey => owners[p] \in Issued /\ p \in DeltaOf(owners[p]).bases

\* A bind can only mean one claim: a unit has at most one claim pending, and an
\* attempt at most one author binding (adoptPrelaunchLocked walks a map and
\* takes the first that matches).
BindIsUnambiguous ==
  \A i, j \in Issued :
    /\ Author(i) /\ Author(j) /\ i # j
    /\ bindings[i].unit = bindings[j].unit
    => /\ ~(bindings[i].prelaunch /\ bindings[j].prelaunch)
       /\ bindings[i].attempt = bindings[j].attempt => bindings[i].attempt = NoAttempt

\* Staged content leaves a key only by its holder's write, by a hand-over that
\* carries it whole, or by the orchestrator closing the delta (stageLocked,
\* handOverLocked, consolidateLocked, rollbackLocked).
WorkIsKept ==
  [][\A k \in Keys, p \in Paths :
       DeltaOf(k).files[p] # Unset /\ DeltaOf(k)'.files[p] # DeltaOf(k).files[p] =>
         \/ DeltaOf(k)'.revision = DeltaOf(k).revision + 1
         \/ staged'[k] = Nothing
         \/ \E n \in Keys \ {k} :
              owners'[p] = n /\ DeltaOf(n)'.files[p] = DeltaOf(k).files[p]]_vars

\* A judge speaks through its latest delegation only: a verdict lands only when
\* the newest gate of that judge over that author has read the very state it
\* names, however many units of the judge run at once (issueVerifierLocked).
GatesOf(a, k) == {g \in Issued : Gate(g) /\ bindings[g].over = k
                                 /\ AgentOf[bindings[g].unit] = a}
LatestGateSpeaks ==
  [][\A k \in Keys, a \in Agents :
       LET v == DeltaOf(k)'.verdicts[a] IN
       v # Nothing /\ v # DeltaOf(k).verdicts[a] =>
         \E g \in GatesOf(a, k) :
           /\ \A h \in GatesOf(a, k) : h <= g
           /\ bindings[g].judged # Nothing
           /\ bindings[g].judged.files = v.files]_vars

\* A running judge's live gates are those its launch declared, whatever an
\* interrupted preparation of the same attempt had issued before.
GatesAreDeclared ==
  \A u \in Judges, g \in Issued :
    /\ Current(u) /\ Gate(g) /\ bindings[g].unit = u
    /\ bindings[g].attempt = runs[u].attempt /\ ~bindings[g].superseded
    => bindings[g].over \in declared[u]

\* Work with a failing current verdict is consolidated only after the very same
\* staged state was refused and shown to the user (errStaleAcceptance).
FailingNeedsAcceptance ==
  [][\A k \in Keys :
       staged[k] # Nothing /\ staged'[k] = Nothing /\ Author(k) /\ Failing(k)
         => asked = StagedState(k)]_vars

\* No unit in flight reads by an explicit selector what another unit in flight
\* may write.
Collides(k, r) ==
  /\ bindings[k].unit # bindings[r].unit
  /\ Live(k) /\ Live(r)
  /\ Owned(k) \cap bindings[r].reads # {}

\* The mutex of reads and claims, among claims the orchestrator assigned: it
\* survives launches, releases, hand-overs and retries.
AssignedClaimsRespectReaders ==
  \A k, r \in Issued : Collides(k, r) => k \in direct

\* "Nothing claims what a reader in flight covers until it delivers."
ReadersExcludeClaims == \A k, r \in Issued : ~Collides(k, r)

\* "WorkUnitID and AttemptID are the author's unit and attempt the verdict
\* evaluated": a current verdict over staged work judges what was that attempt's
\* when it was read.
VerdictEvaluatedItsAttempt ==
  \A k \in Issued : HasStaged(k) =>
    \A v \in CurrentVerdicts(k) : v.subject = [unit |-> v.unit, attempt |-> v.attempt]
-----------------------------------------------------------------------------
(* The inductive invariant: what claims, gates and attempts agree on, from *)
(* which the safety properties above follow one step at a time.            *)

\* A command that still has a save to make has a unit to make it for, and a
\* launch names authors.
CommandInv ==
  /\ command.next # "none" => command.unit \in Units
  /\ \A k \in command.authors : Author(k)

\* A running unit has an attempt, no binding is ahead of its unit's attempt,
\* and a claim waiting for its target has none.
AttemptInv ==
  /\ \A u \in Units : InFlight(u) => runs[u].attempt # NoAttempt
  /\ \A k \in Issued : bindings[k].attempt <= runs[bindings[k].unit].attempt
  /\ \A k \in Issued : Author(k) /\ bindings[k].prelaunch => bindings[k].attempt = NoAttempt

\* Gates judge authors, own nothing and state no reads.
GateInv ==
  /\ \A p \in Paths : owners[p] # NoKey => Author(owners[p])
  /\ \A g \in Issued : Gate(g) => Author(bindings[g].over) /\ bindings[g].reads = {}

IInv == /\ TypeOK /\ CommandInv /\ AttemptInv /\ GateInv
        /\ StagedOwned /\ OwnedHasBase
        /\ BindIsUnambiguous /\ AssignedClaimsRespectReaders
=============================================================================
