# Takt AI: a verification development

TLA+ models of the core of `takt-ai`, the configurations that check them with TLC, and theorems checked with
TLAPS. `takt-ai` is a "meta-harness": it installs agents, plugins and settings into OpenCode, and then runs as the
command those plugins call to keep many agents from harming one workspace or each other. Its state is on disk and
its commands are short-lived processes, so what is hard is what happens when one ends early, and what two
delegations do to each other through the shared store.

## 1. Inventory

Lines are of Go without tests, under `takt/`.

| part | state it keeps | operations | what is hard | what makes it correct |
|---|---|---|---|---|
| `vfs`: consolidation, recovery, cycle discard (`recovery.go`, `cycle.go`, `repair.go`, `staged.go`) | recovery manifest, interrupted evidence, retained cycles; the workspace files | consolidate, discard, complete a cycle, recover, preserve an interruption | files written one by one while the process may end and the user edits | all or nothing over the content that was claimed; nothing of the user's is overwritten; the workspace is never blocked for good |
| `vfs`: claims, delegation, verdicts (`claims.go`, `transfer.go`, `bindings.go`, `caller.go`, `verdict.go`, `reads.go`, `execution.go`) | bindings, owners, deltas with bases and verdicts | assign, reassign, hand over, release, bind, stage, adopt gates, read, verify, consolidate, discard, prepare and cancel a delegation | legal calls in orders nobody tried; two runs of one judge; a launch cut short | staged work has one owner and is never lost; a verdict counts for what was judged; readers and writers exclude each other |
| `vfs`: shell commands (`shell.go`) and native inspections (`native.go`, `sensitive.go`) | prepared calls, registered inspections | prepare, continue, complete, release | a command runs outside the lock, between two of its calls | it captures only over the state it was prepared on |
| `vfs`: store (`storage.go`, `operation.go`, `paths.go`) | one SQLite row of state, journal rows, consumed calls | open, save, checkpoint | memory ahead of the store; a failed save | a faulted handle refuses everything until it is opened again |
| `vfs`: maintenance gate (`gc_state.go`, `maintenance.go`) | the running cycle's phase and lanes | which operations a cycle admits | a cycle and ordinary work share the store | a cycle never touches claimed work |
| `gc` (≈2500) with `cli/gc_coordinate.go` | the cycle: phase, plan, preparation, acceptance | start, findings, verdict, acceptance, abort | three stores saved in turns | an ended cycle is either applied and released, or discarded |
| `history` (≈1900) | an append-only log and its projection; leases | append, project, attach, lease | a slow owner whose lease lapsed | the fold accepts each fact once; one attempt, one child |
| `dispatch` (≈1700) | none of its own: budgets are counted from the history | admit, finish, abandon, except, plan, recover, hand the conversation over | bounds under retries and exceptions | no admission over a bound, none refused below it |
| `cli` (≈3500) | none | the commands, and the order in which they save | two stores saved one after the other | a command cut short can be retried |
| `agents/opencode` plugins (≈4000 of TypeScript) | queues of lifecycle calls per session | before and after each tool call, session events | events out of order, retries | every end of a run is reported |
| `setup` (≈4200), `lifecycle` (637) | managed files and their ownership record | preview, install, sync, uninstall, restore | failure and cancellation between two renames | a file the user changed is never overwritten or removed |
| `memory` (≈1700) | a session index beside a remote store | record, revise, search | the index and the remote store saved in turns | what is recorded can be found by its author |
| `session`, `obs`, `tui`, `doctor`, `verify`, `catalog`, `model`, `skills`, `codegraph`, `engram`, `internal` | records, screens, templates | reports and checks | little | |

How they interact: OpenCode calls a plugin, the plugin runs `takt-ai vfs …` or `takt-ai dispatch …`, the command
takes the workspace lock (`lockWorkspace`), opens the store and the history, does its work, saves and exits. Two
commands therefore never interleave. What does interleave with a command is the user's editor, and the end of the
process; and what interleaves at large are whole commands of several agents, in any order.

The hazards found while reading are listed in `PROJECT.json` with the properties that cover them; those without a
property have a note that says why.

## 2. Modules

| module | models |
|---|---|
| `AtomicConsolidation` | what consolidation promises: an author's work appears at once, over what its claim captured; a cycle is undone at once |
| `VFSConsolidation` | the steps of a flush, a discard, a recovery and an approved closure (`recovery.go`, `cycle.go`, `repair.go`) |
| `VFSConsolidationProofs` | its inductive invariant, what an effect leaves behind, and that it implements `AtomicConsolidation`, proved |
| `VFSClaims` | claims, hand-overs, bindings, gates, verdicts, and the launch and finish that tie them to an admitted attempt |
| `VFSClaimsProofs` | its inductive invariant, and the safety properties that follow from it, proved |
| `VFSShell` | shell commands and native inspections, over the claims of `VFSClaims`, which it extends |
| `VFSShellProofs` | that inspections and claims exclude each other and that a capture keeps to its attempt and to what its command saw, proved |
| `GCCycle` | a maintenance cycle: trigger, barrier, phases, lanes, acceptance, unwinding, over three stores |
| `GCCycleProofs` | what the three stores agree on at every save, and the safety of a cycle that follows, proved |
| `GCFindings` | the functions that compute what a cycle may touch: delta, closure, findings, scope, demotion |
| `Dispatch` | admission, the life of a unit, bounded recoveries, exceptions, plans and strengthening rounds |
| `Delegation` | a delegation between the command line, the host and several harness instances, over `Dispatch`, which it extends |
| `DelegationProofs` | of `Dispatch`, that recoveries keep apart and within their budgets, and of `Delegation`, that an execution holds its unit, a child runs one, and only what is over is settled, proved |
| `SetupDeploy` | installing, syncing, reassigning, correcting drift, uninstalling and restoring, beside a user who edits |
| `SetupProofs` | that copies outlive their entries, rollbacks are complete and no edit is lost but the known ones, proved |
| `MemoryIndex` | recording, declaring and closing a session, over its index and the remote store |
| `MemoryProofs` | that an index says only what is linked, keeps what was reported, and is never waited for in a cycle, proved |
| `TUI` | the interactive application: one flow above the menu, its guard, its action |
| `TUIProofs` | that a flow has one action under way, and that a draft or a running action is left only by consent or by a jump, proved |
| `MCVFSConsolidation`, `MCVFSClaims`, `MCVFSShell`, `MCGCCycle`, `MCDispatch`, `MCDelegation`, `MCSetup`, `MCMemory`, `MCTUI` | the instances TLC checks |
| `MCGCFindings` | the functions of `GCFindings` against reference definitions, as assumptions TLC evaluates with every run of `MCGCCycle` |

`VFSShell` composes the shell with the claims, `Delegation` the two processes' views with admission, and `GCCycle` the
coordinator with its own small picture of history, store and workspace. Consolidation stays apart: whoever uses it
takes it as one step, which is what `VFSConsolidationProofs` proves it to be.

### VFSConsolidation

`disk`, `dirs`, `temps` are the workspace; `base`, `work`, `manifest`, `found`/`left`/`madeDirs`/`closed` are the
store (captured bases, staged files, the recovery manifest, and what a maintenance cycle retains); `op` is the
program counter of the command under way; `journal` keeps one entry per effect; `edits`, `raced`, `hidden` record
the user's writes. One action per step the code can stop after: `MarkIntent` is the checkpoint before a path,
`WriteTemp`/`Replace` the temporary and the rename, and so on. `Stop` ends the process.

Choices that abstract:

- The comparison of all bases and the plan are one step, and so are the last verification and the save: between
  the two nothing is written, and a user write there is the same as one just before or just after.
- Content includes the file mode. Directories are one level deep: `Missing` would only iterate.
- Memory and store are one, except inside a step. A failed save faults the handle, which refuses every operation
  until it is opened again from what was saved; an I/O error and a crash leave the same, so `Stop` stands for all.
- The user creates, edits and deletes files. Removing a directory by hand is not modelled.
- `PreserveInterruptedFlush` takes the user's approval as given, over evidence that still matches the disk.
- Which verdicts let a cycle's work through is left to the claims: any staged work may be consolidated here.
- Dropping a claim and consolidating an empty one come to the same.

### VFSClaims

`bindings`, `owners`, `staged` are the store's maps; `issued` counts keys, which are random in the code and
numbered in issue order here; `runs` is what the history says of each unit; `command` is the launch or finish
under way and the save it comes to next; `asked` is the last staged state the user was shown with a failing
verdict. `declared`, `direct` and the `subject` fields are history variables: the properties need them and no guard
reads them.

Every command is one action, except those that save more than once: a launch is `Launch` (admission and execution
record), `IssueGates` (the store), `MarkReady` (the history); a finish is `Finish` (the store) and `Settle` (the
history). `Stop` may fall between any two of them, and `Compensate` is what `prepareExecution` does when a later save
fails, its own clean-up included or not.

Choices that abstract:

- One root session. Keys of other roots only add refusals.
- `held` stands for the host session of the child that holds a binding: an attempt has one child.
- The admission and the execution record are one step, and so are the ready fact and the child's attachment. An
  admission below `MaxAttempts` is always granted: concurrency and budgets belong to `dispatch`.
- A retry of a host call under the same dispatch is a `Launch` of a unit already admitted; a second dispatch of it
  is refused by the admission, and so does nothing here.
- A staged file's content is a value; the delta hash is the delta. Reading a path that does not exist records nothing.
- Call identifiers, the journal, collision reports, invariant versions, the paths a gate reports as judged and the
  bindings of a maintenance cycle are left out.
- A consolidation happens at once and succeeds; that it may fail and how is `VFSConsolidation`.
- The content of a base is not kept, only which paths have one.

### VFSShell

`calls`, `roots` and `host` follow one call: what it was prepared against (in the store), its projection of the
workspace, and the native side, which runs when it likes. A command goes through `Prepare`, the two continuations
(start, evaluate), the command itself and `Complete`, each a process of its own, with any step of `VFSClaims` in
between. `disk` moves only by consolidation. `stale` is a history variable: the calls whose
work was consolidated, or whose claim was reassigned, since they were prepared.

- How a command line is classified (allow, ask, deny; capture or in place) is string analysis and is left out: any
  mode is possible for any call. A call released at any time stands for a session that is gone.
- Sensitive paths, the resolution of a tool argument to a path, and the advice a native edit gets are left out. The
  guard of a native edit decides before the edit lands (`native.go:242`, `takt-vfs.ts:1277`) and holds nothing
  meanwhile; it promises advice, not exclusion, and no property is stated of it.
- An absent file is projected as an empty one, so a command cannot tell them apart (`Projected`).

### GCCycle and GCFindings

`coordinator` is the saved blob; `command.mem` is the copy the running command works on. `store`, `lanes`, `activity`
and `disk` are what the cycle left in the vfs store, in the history and in the workspace. A command that saves more
than once has one action per save (`command.at`), and `Stop` may end it before any of them; `pace` is what the
journal and the history count since the last closure; `missed` is a history variable.

One author and one delta per cycle. A failing save stops the command, as the code's early return does. The findings
of a cycle are one finding, open, confirmed or refuted; how they are computed is `GCFindings`: pure functions, checked
against reference definitions that say what they should compute from the journal or the reports. The assumptions of
`MCGCFindings` are named and commented; three of them record that the code computes something else than one would
expect (section 3). Reading the declarations of a source file and running the external analysers are inputs.

### Dispatch

The state is the projection the history folds to. Every command accounts the bus first (`Account`) and then decides;
`AccountInPart` is the accounting cut short between two records. What is recorded and changes nothing (a denial, an
invalid revision, an escalation, a refused contest) is no step. The claim of a unit (`claim`) is the store's answer to
whether the unit has staged work, the only thing the protocol asks of it: `StoreStep` moves it freely, and
`VFSClaims` says how it really moves. `since` is a history field. Specialist seats, stops, escalations and the
conversation's hand-over (`interlocutor.go`) are not modelled: none of them decides an admission.

### Delegation

It extends `Dispatch` with the execution records, the native calls, the child sessions and the harness instances, each
with what it read of the calls it is about to settle (`view`): reading and settling are two steps, and another instance
may settle in between. `PrepareInPart` is a preparation that stopped before its second record and `Compensate` the
clean-up of one that failed. An instance may be late (its lease lapses and is renewed) or die. That a foreground
call's record is compacted once it has settled is left out.

### SetupDeploy

A file's content is the part the user wrote, the rendering Takt wrote and whether the servers are registered in it.
Each file an operation reads, copies, replaces, moves or deletes is a step, and so is each save; the user may write
in between, cancel, and the process may end. Assumed: one operation at a time, although `BeginOperation` only writes
a record and excludes nobody; both targets are selected on an uninstall; prerequisites are on the `PATH`; no provider
action; a registration stands for all the servers. Risk acceptances, modes, symlinks and directories are left out;
`retained` is what an uninstall moves aside, and `late` a history variable: the paths written since the operation took
their content.

### MemoryIndex

Each call is a process that loads the index under the session's lock, writes to Engram with the lock held, and saves.
`Abandon` ends it at any step: a refusal, a time-out, a failed save, a cancellation and a crash leave the same. Engram
is external: it stores an observation or answers with an equal one. Searching and listing only read, and resolving a
caller to its root session only refuses or picks the session.

### TUI

The event loop handles one message at a time. Each command answers from a goroutine of its own, over the unbuffered
channel the keys come through, so its message may come after any number of keys and after messages posted later: one
that only returns a value is in `prompt`, one that reads or waits in `late` (with what it read before), and a lifecycle
action runs beside them (`running`) until its result is delivered. `by`, a field of each request, is a history variable:
the flow that asked. The model has the steps of the install, upgrade, drift, uninstall, model and diagnostics flows,
with the screen of a picker whose data could not be read. Left out: rendering, progress, the picker's search and tabs,
installations newer than the build; what an action does to the disk is coarse here and detailed in `SetupDeploy`.

## 3. Runs

Bounds are constants of the modules. "States" are distinct states TLC found. A run is explored in *scenes*: its
`CONSTRAINT Scenes` is a disjunction of smaller state spaces, each named in the MC module for what it is about, which
together hold the cases the properties are about and overlap where they meet; their product would be out of reach.

| run | instance | states | what it shows |
|---|---|---|---|
| `flush_and_recover` | an ordinary claim alone with two contents, or with a cycle's claim over the same paths and one content; one path in the root, one in a directory to create; two user writes, two effects | 588 685 | Consolidation, recovery, discard and closure of ordinary and maintenance work, with an editor, failing steps and a crash between any two effects, implement the atomic store; the inductive invariant holds; and a pending manifest is resolved in the end although recoveries may fail for ever, but for a directory the user holds and for a discard that stopped after its clean-up, which nothing can complete. |
| `claims` | two units of a writing agent, two of a judging one, two paths, three keys, two revisions, two attempts | 390 414 | Claims, binds, hand-overs, readers, gates and verdicts of two writers and two judges through launches that stop at any save: claims keep their work and bases, readers and assigned claims exclude each other, and only the latest gate speaks for its judge. |
| `shell` | two units, two paths, one call of each kind, two keys, two revisions, two attempts | 476 509 | A shell command or native inspection that spans several processes, with claims, hand-overs, consolidations and retries of its unit between any two of them. |
| `gc_cycle` | one unit, two cycles, two deferrals, two revisions, starts that may fail; two stops where there is one cycle | 317 432 | Two cycles whose start may fail, and one whose process stops twice between any two saves of three stores: new work starts over a tree every cycle has settled or recorded as interrupted, what the barrier holds is dropped in the end, what is applied was judged, what is unwound is unwound in full, rollback state outlives the decision, a request is answered once starts succeed, and every cycle ends. |
| `gc_wedged` | one cycle, one stop | (violated) | A command that ends after the history recorded a completed cycle and before the coordinator is saved leaves a cycle that can never end. |
| `dispatch` | one root, two units, two specialists, three calls, two objectives, two attempts and journal rows, one exception, two plan versions, a round for either unit | 82 726 | Admission, lifecycle, bounded recoveries, exceptions, restoration and plan revisions of two units and two objectives, with two specialists, a strengthening round for either unit, the process stopping inside an accounting and the journal put back. |
| `delegation` | three calls of two units in one child, two instances, one death | 86 936 | Delegations of one or two units prepared, launched, observed and settled by two harness instances, one of which is late or dies, with commands stopping between their records. |
| `plan_cycle` | two units that need each other in turn, two plan versions | (violated) | A retried unit brings its prerequisites back into a plan that was revised without them: the standing plan is cyclic. |
| `setup` | a plain file and the JSON configuration, three operations, two user writes, two renderings | 2 805 163 | Installs, syncs, drift corrections, reassignments, uninstalls and restores of a plain file and the JSON configuration, with a user who edits, replaces and deletes them in between, failures, cancellations and crashes at every step: nothing the user wrote is lost beyond the losses KnownLoss names, a rolled-back batch leaves every path as it was but for what the user wrote there meanwhile, and every backup an entry names holds what was replaced. |
| `memory` | two sessions each in a workspace of its own, two calls at a time, four in all | 833 354 | Up to four calls, two at a time, that record, declare and close two sessions, each abandoned at any of its steps: what an index says is linked in Engram, what was reported recorded stays attributed, and waiting for a previous session never closes a cycle. |
| `tui` | one managed file, one agent, two models, two flows from the menu, three commands, two messages on their way, one edit | 1 151 491 | Two flows opened from the menu, with keys, posted messages, slow scans and an action that may be cancelled at any moment in every order: a flow has one action under way, a key or a late Back takes away neither a running action nor a draft, and every action that was asked for is answered. |
| `tui_jump` | as `tui` | (violated) | A jump that was posted before an action was asked for replaces the flow that waits for that action. |

Why the bounds suffice.

- `flush_and_recover`: two paths give every position of a stop relative to a path done, under way and untouched, and
  the directory of one of them gives creation and removal. Two user writes allow one before and one after the same
  check. Two effects let a cycle write a path twice, or an ordinary claim write over a cycle.
- `claims`: a partial hand-over that moves content needs two paths, both staged, so two revisions and two keys
  (`Handing`); two runs of one judge over one author need three keys (`Judging`); an acceptance that goes stale while
  the verdict still fails needs a second revision (`Retrying`); readers need two writers and selectors (`Writers`).
- `shell`: two attempts and two revisions let a call be prepared in one and completed in the other (`Capturing`); two
  paths let it be captured in part (`Scoping`); two units let one inspect what the other claims (`Reading`,
  `Querying`); `HandingOver` moves staged work under an inspection. One call at a time: two calls meet only through
  claims, which every scene moves freely.
- `gc_cycle`: two cycles let one meet what the last left; two stops let a restart be stopped as well; a second revision
  lets the collector write after it was judged; two deferrals let the barrier hold a cycle, a start fail, and the count
  begin again. The scenes are two cycles without a stop, and one cycle with two; a start may fail in both.
- `dispatch`: two objectives for disjoint scopes, two units, three calls (two of one unit, for retries), two journal
  rows, one exception, two plan versions. A strengthening round may be asked for either unit, and the budget grants one,
  or two by exception: it is the budget that stops the next. In `Sharing` two specialists work on one recovery, so that
  an admission meets rows of a call still in flight. `Recovering`, `TakingTurns`, `Planning` and `InFlights` divide the
  rest.
- `delegation`: `Retrying` has two calls of a unit by two instances, the first late or dead; `Sharing` two units in
  one child. Two dead instances would leave nobody to settle anything.
- `setup`: three operations are an install, what follows it and what follows that (an entry is written, refreshed and
  used); two user writes; two renderings; a part that breaks the JSON file.
- `memory`: a session and the one it continues, two calls at a time; a fourth call only where one author records,
  which is what attribution needs.
- `tui`: a second flow opened over the answers of the first, three commands (an action, and those before and after
  it), two messages on their way that any keys overtake and that come in either order. Edits are explored in one flow,
  and with the last command one message at a time.

The bounds only cut behaviours short. A run disables the deadlock check when it may stop at one (`claims`, `shell`,
`dispatch`, `delegation`, `setup`, `memory`, `tui`): it is out of keys, calls or writes there, and an idle project
rests. Symmetry is over units of one agent, paths no selector names, objectives, sessions and calls, and only in runs
without liveness.

Every property of a passing run has a mutant: a variant of a mapped definition, kept just before it under a comment
"Bug variant", that the property rejects under the same configuration.

### Fairness

- `flush_and_recover` (`PendingResolves`): a command that runs continues until it returns (`WF(Advance)`) and from some
  point on nothing stops it but its own failures (`Fails`), which may repeat for ever; a user whose workspace is blocked
  runs `vfs recover --restore` (`WF(RecoverBegin)`) or approves the offered repair (`WF(PreserveInterruptedFlush)`), as
  the refusal tells them to. The user's edits and new work are not fair. The property excepts two blocks nobody's
  persistence lifts: a directory the user holds, and what a stopped discard leaves (`CleanedUp`, see Disagreements).
- `gc_cycle`: a command runs on (`WF(Continue)`; after `MaxStops` none is stopped). The plugin ends a cycle whose lane
  sessions ended (`SF(StopAllAndAbort)`) and asks whether one is due whenever the session goes idle (`SF(Tick)`, of the
  ticks that need no declaration); strong, because other commands may take the lock first and a waiting one gets it in
  the end. That a start succeeds is not assumed of the system: it is the hypothesis of the one property that needs it
  (`DeclarationSucceeds` in `RequestIsAnswered`). The lanes are not fair: an agent may never finish.
- `delegation`: the lease timer (`takt-vfs.ts:2129`) reconciles every unsettled execution at each pass, so some instance
  reads each call again and again (`SF(Read)`) and asks to settle what it read (`WF(SettleEnded)`); a dead instance
  renews nothing, so its lease lapses (`WF(Lapse)`).
- `tui`: each goroutine gets its message through, since the loop goes on receiving and a channel serves its senders in
  turn (`WF(DeliverPrompt)` for each message), and the adapter's calls return. Keys are not fair.

### Disagreements between the code and what it says

Three have a run.

- `gc_wedged`. A command that ends after the history recorded the activity as completed and before the coordinator is
  saved closed (`cli/gc_coordinate.go:320`) leaves a cycle no lane may drive and no abort accepts, and so every later
  admission, which ends the cycle first, is refused. `gc/coordinator.go:199` says a cycle never gates ordinary
  dispatch.
- `plan_cycle`. `Revise` looks for cycles among planned and flying units only (`dispatch/plan.go:184`); the retry of a
  settled unit then brings its prerequisites back into a plan revised without them. `PRD_DAG.md:41` says cycles must
  be rejected.
- `tui_jump`. A jump (to the models, a repair or an upgrade) does not look at the flow it replaces (`tui/tui.go:398`).
  A user who leaves the flow that posted it and starts an action in another of that kind before it comes loses that
  flow while its action runs, or the choices made there. `tui/tui.go:481` says nothing navigates while an action runs.

The others were met while modelling. The properties named here are in the modules, not in a run: the code refutes them.

Store and claims. Each named property is refuted by TLC when it replaces the properties of the run in brackets.

- `RollbackPossible` [`flush_and_recover`]. Discarding a cycle removes its directories before the save that forgets the
  manifest (`vfs/cycle.go:204`). A stop in between leaves a manifest that rolls back into directories that are gone.
  Nobody but `takt` touched anything, and every recovery fails the same way: `PendingResolves` excepts this block by
  name (`CleanedUp`).
- `DiscardedMeansUndone` [`flush_and_recover`]. A discard whose directory clean-up fails has its "discarded" journal
  entries saved all the same (`vfs/recovery.go:129`), and recovery then brings the cycle's files back.
- `RecoveryKeepsExternalChange` [`flush_and_recover`]. Recovery checks all the paths, then restores them
  (`vfs/recovery.go:336`): a user write in between is overwritten. `cli/vfs.go:92` says incompatible external changes
  will not be.
- `ReadersExcludeClaims` [`claims`]. A unit whose pending claim was reassigned while it was starting binds afresh, and
  that claim does not look at readers in flight (`vfs/caller.go:228`), as every assignment does.
- `VerdictEvaluatedItsAttempt` [`claims`]. Reassigning work clears its verdicts and not what a gate last read
  (`vfs/claims.go:264`); the gate's verdict is then recorded on the new attempt (`vfs/verdict.go:114`). The content is
  the same; the attempt it is said to judge is not.
- `MovedWorkIsRefused` [`shell`]. A consolidation returns a binding to revision 0 and no delta, which is also what a
  call prepared over nothing saw: such a call is captured over what was consolidated meanwhile. `vfs/shell.go:306`
  says staged work that changed since preparation is never overwritten. The second way takes no consolidation of the
  call's own work: a running unit's claim is reassigned to it with one path more (`vfs/claims.go:194` admits it in
  flight, and the same attempt adopts the claim again), revision and hash stay as they were, and `captureLocked`
  (`vfs/shell.go:377`), which recomputes the scope, takes the file it never projected for a deletion and stages it,
  over what another unit may have consolidated there. That one needs two units and two paths, more than a scene of
  `shell` has; `CaptureOverwritesNothing` excepts both ways (`stale`), and its theorem says that there is no third.
- `EndedDeltaIsRetained` [`shell`]. `CompleteShell` removes the projection (`vfs/shell.go:372`) before the command
  saves what it imported: a stop in between leaves the delta nowhere. Elsewhere a delta that is not imported is
  "retained, unimported" (`vfs/shell.go:71`), so that a later call can import it.
- A consolidation applies the author's whole claim (`vfs/caller.go:459`); `PRD_VFS.md:25` wants the deltas of a declared
  recovery scope restored and unrelated progress kept, which nothing in the store tells apart.

Dispatch and delegation.

- `AbandonedUntilExcepted` [`dispatch`]. Declaring a recovery of an objective whose line was abandoned replaces its
  accounting (`dispatch/recovery.go:64` returns early only while one is open): the line is no longer superseded though
  nobody restored it or excepted the bound that abandoned it. By `PRD_DAG.md:55` the superseded set is recorded and
  named.
- `HeldSlotCanBeAbandoned` [`delegation`]. A refused admission tells the user to end the delegation that holds the
  unit with `dispatch_abandon` (`dispatch/dispatch.go:107`); a preparation that stopped before its execution record
  leaves an admission `abandonExecution` does not find (`cli/dispatch.go:249`). The same unit can only be called
  again.
- `dispatch/plan.go:310` takes a withdrawn unit a revision declares again for one of the plan, so a new unit may
  depend on withdrawn work; its refusal's text says new declarations depend only on planned or settled work.
- Consumption counts distinct calls past the established cursor: a call whose rows fall on both sides of a cursor is
  counted twice. `PRD_HARNESS.md:34` says duplicates consume neither allowance twice.

Maintenance. The names but the first two are assumptions of `MCGCFindings`, which state what the code does.

- `AdmissionEndsTheCycle` [`gc_cycle`]. An admission unwinds the cycle, is recorded in the history, and only then is
  the coordinator saved (`cli/dispatch.go:230`). A stop before that save leaves the unit in flight beside a coordinator
  that still holds the cycle, whose lanes attach and write on. `gc/coordinator.go:199` says an admitted delegation ends
  the cycle. `NewWorkOverSettledTree` allows this and no more: a cycle that is live beside new work is one the history
  records as interrupted.
- `FailedStartsAreCounted` [`gc_cycle`]. `gc/coordinator.go:258` says a start that fails is counted, so that the cycle
  is dropped after so many. But `Barrier` sets the count to 0 before each start (`gc/barrier.go:83`): it never
  passes 1, and a cycle that cannot start is tried again for ever. `DueIsBounded` bounds what the barrier itself holds.
- `NestedIsJudgedByTheOuter`. In Python and TypeScript sources the outer symbol is listed first, so a method added to an
  older class is judged as the class (`gc/snapshot.go:203`); `PRD_GC.md:32` says code the session introduced is pending.
- `RecreatedIsTakenForNew`. A path created again after a deletion counts as introduced for good (`gc/plan.go:123`), so
  an old file that is deleted, created and deleted leaves the delta of "the paths the session changed"
  (`gc/plan.go:88`).
- `VoidFlushIsADeletion`. A path created and deleted between two flushes is recorded as a deletion.
- A refutation recorded by `takt-ai gc refute` is not consulted when the coordinator authorizes a scope; `PRD_GC.md:51`
  says a refuted finding is discarded.

Installation and memory.

- `ForeignIsCopied` [`setup`]. Registering the servers refreshes the recorded digest of whatever is in the
  configuration (`lifecycle/lifecycle.go:554`, `refreshManagedOwnership`): an edit the user made since becomes Takt's
  content, and the next batch replaces it uncopied. `PRD_INSTALLATION.md:56` says it must be preservable in full.
  `EditsAreKept` holds but for the losses `KnownLoss` names: this one (`TakenOver`); a write between the last look at
  a path and its replacement (`Undetected`, which PR-INS-47 allows); one that a rollback, the undoing of an uninstall
  or a configuration patch replaces without looking again (`Unlooked`); what the user asked to remove (`Removed`); and
  content a batch merged and its rollback takes back (`Undone`).
- A stop, or a failed save, between the commit of a batch and the save of the ownership record leaves Takt's content
  unowned; the next installation takes it for content that was there before Takt.
- A reassignment's configuration patch backs up the bytes it was planned from (`setup/model_overrides.go:90`), not
  those it replaces: an edit "landing in between" is the one that is lost.
- `lifecycle/lifecycle.go:241` says a decision is taken under the operation lock; `BeginOperation` writes a record and
  excludes nobody.
- `DeclarationIsRevocable` [`memory`]. A first record that anchors the start and then finds the previous session open
  again fails, and the declaration can no longer be withdrawn. `memory/memory.go:311` says it stays revocable until the
  first entry is recorded.

The interface. These have no named property.

- Between the start of an action and the delivery of its request, the controller has nothing to cancel
  (`tui/tui.go:506`): a cancellation then is shown as requested and never dispatched, and further presses do nothing.
  `PRD_TUI.md:34` says it must be dispatched.
- With the logo image the end of the program is 50 ms late (`tui/tui.go:377`); an action started meanwhile is cut short.
- A scan or a model discovery that answers late can shorten the list under the cursor, and the next key indexes past
  it (`tui/drift/drift.go:274`, `tui/modelpicker/model_picker.go:204`).
- A guard that is open when a jump replaces its flow stays open, and Discard then discards the other flow. After a jump
  that took away a flow with a running action, a second action may start beside the first: `OneActionPerFlow` is
  what holds, an exclusion of any two actions is not.

## 4. Proofs

### VFSConsolidation

For every set of paths, contents, agents and cycles:

- `VFSConsolidationProofs!Invariance`: `Spec => []IInv`. `TypeOK` alone is not inductive: the value a step writes is a
  file only if the step's path is an item of the manifest. `IInv` adds what store, manifest and running operation
  agree on: work only inside a claim (`StoreInv`); both contents of every item (`ManifestInv`); a flush applies exactly
  its author's work over its bases and a discard its cycle's reverse (`PlanInv`); what a step has passed holds its
  final content unless the user wrote behind it (`StepInv`). The proof goes conjunct by conjunct, and under each,
  group by group of actions.
- `VFSConsolidationProofs!TypeCorrect`: `Spec => []TypeOK`, from the first.
- `VFSConsolidationProofs!Refinement`: `Spec => ImplementsAtomic`. The mapping shows, behind a pending manifest, the
  content before the effect for each touched path. Under `IInv` every step before the commit stutters, the commit is
  the atomic consolidation or discard, a rollback is `RolledBack`, and a user's write behind a manifest is one the
  mapping hides until then.

- `VFSConsolidationProofs!EffectInvariance` adds to `IInv` what an effect leaves (`EffectInv`): a temporary stands for
  an item of the manifest, there is none without one, and a running flush has at most the one it renames (`TempInv`); a
  check holds of the path it was made of until the user writes there (`RaceInv`); a directory the effect created that
  is there again when a recovery commits was brought back by the user (`DirsInv`).
  Three theorems read a run property off it: `TemporariesEnd` (`NoTemporaryOutlives`), `KnownContentOnly`
  (`OverwritesKnownContentOnly`) and `RollbacksRemoveDirs` (`RollbackRemovesDirs`).

Assumptions used: paths are finitely many numbers, the special values are no contents, the root is not a directory
to create, each claim works for a declared cycle or for none.

### VFSClaims

For every set of paths, contents, units, selectors and every bound on keys, revisions and attempts,
`VFSClaimsProofs!ClaimsInvariance` proves `Spec => []IInv`, and every property the run checks is a theorem. Four are
read off `IInv`: `StagedWorkIsOwned` (`StagedOwned`), `OwnedPathsAreBased` (`OwnedHasBase`), `BindsMeanOneClaim`
(`BindIsUnambiguous`) and `ReadersAndClaimsExclude` (`AssignedClaimsRespectReaders`); `ClaimsTypeCorrect` is its type
part. None of the four is inductive alone. `IInv` adds three parts:

- `AttemptInv`: a running unit has an attempt, no binding is ahead of its unit's attempt, a pending claim has no
  attempt. Without the second a launch, which moves a unit on to its next attempt, could bring an old binding back to
  life beside a reader; without the third `duplicateIdentity`, which compares attempts, would not see a pending claim.
- `GateInv`: only authors own paths, and gates judge authors and state no reads. Removing a cut-short launch's gates,
  with their deltas, therefore takes nothing that anyone owns.
- `CommandInv`: a launch under way names authors, so the gates it issues after a crash window are over authors still.

The proof sorts the steps into four kinds (`StepKinds`): those of claims, of staged work, of gates alone, and of the
attempts in the history; one lemma per conjunct goes through them. Staged work and bases are handled key by key and
path by path (`HoldsWork`).

Two action properties need only `IInv`: `StagedWorkIsKept` (`WorkIsKept`) goes through the ways a delta may move
(`DeltaMoves`), of which a hand-over is the delicate one: the key that takes the paths is new, so it had nothing
staged. `FailingWorkNeedsAcceptance` (`FailingNeedsAcceptance`) uses that a delta only leaves an author by a
consolidation.

The judges need a stronger invariant, `JudgeInv`, proved inductive with `IInv`. `LaunchInv` says that a command
preparing a launch has admitted it and that its gates, once issued, are over the authors it names, `PendingInv` that
the gates of an attempt not yet ready still await it, and `NewestInv` that of one judge's gates over one author only
the newest is not superseded. From it
`JudgesHoldDeclaredGates` (`GatesAreDeclared`), which survives a preparation cut short and made again with other
authors because `Surplus` removes what the repeat no longer names, and `NewestGateSpeaks` (`LatestGateSpeaks`).

Assumptions used: the bounds are natural numbers, and the value that stands for "no delta" is no delta.

### VFSShell

For every set of contents, units, calls and bounds and every finite set of paths, `VFSShellProofs!ShellInvariance`
proves `ShellSpec => []ShellInv`. `ShellInv` holds `IInv`, so all that `VFSClaims` promises survives the captures: a
step of the shell is a step of the claims (`ClaimsStepIsNext`) or a capture (`CaptureInv`). For each call it adds:

- `Recorded`, `ReadingIsRecorded`, `ConfirmedHasEnded`: the store's record, the host and the sandbox root tell one
  story, through every release, partial completion and end of an attempt. A native tool that still reads is on record.
- `ReadsNoClaim`: nothing a started inspection reads belongs to another unit. A claim grows only over paths no such
  inspection reads (`Spares`, from `guardInspectionClaimLocked`), and a path otherwise keeps its owner's unit
  (`OwnersMove`); a start reads nothing its plan hid, and the plan hid whatever is another's by then (`Continuable`).
- `SeenStands`: short of a consolidation or a reassignment of its work, what the command saw of a path its binding owns
  is the staged content at preparation over the workspace as it is now: the workspace moves under an owned path only
  with its owner's delta (`DiskMoves`, from `StagedOwned`).

Read off it: `InspectionsKeepClaimsOff` (`InspectionsExcludeClaims`), `CapturesKeepTheirAttempt`
(`CapturedByItsAttempt`) and `CapturesOverwriteNothing` (`CaptureOverwritesNothing`). The attempt to prove the last one
found the second refutation of `MovedWorkIsRefused` above: `SeenStands` is not inductive under a reassignment, and TLC
then reached the overwrite in a scene with two units and two paths. Every property of the run is a theorem.

Assumptions used: finitely many paths (a capture counts what it stages), an absent and an empty file are contents,
and the value that stands for "nothing" is no call and no root.

### GCCycle

`GCCycleProofs` proves that the three stores agree at each save, for every set of units and cycles and every bound.
`IInv` is `TypeOK`, `Records` (what the coordinator's blob, the vfs store, the lanes and the history say of one cycle
in each of its phases) and `InCommand` (what the saves made so far have made true of the running command).
`TypeCorrect`, `JudgedWorkOnly` (`OnlyJudgedWorkIsApplied`), `RecordedUnwoundIsUnwound` (`UnwoundInFull`) and
`RollbackOutlivesClosure` (`ReleasedOnlyWhenApplied`) hold whatever stops and fails.

So do two that speak of more than one cycle. `DeferralsAreBounded` (`DueIsBounded`) keeps `missed`, a history variable,
below the coordinator's own count (`Counted`). For `NewWorkYieldsMaintenance` (`NewWorkOverSettledTree`) a delegation
in flight finds no cycle but an interrupted one (`AdmittedOverNone`), and a cycle stays interrupted in the history for
as long as it is in flight (`InterruptedStays`).

### Dispatch

For any number of roots, units, objectives, calls and every policy.

`RecoveriesKeepApart`: `DSpec => []ScopesDisjoint`, which is inductive once the recoveries are known to be records
(`IInv` is `IsTable`, every recovery has its fields with Boolean flags, and `ScopesDisjoint`). The argument is that
every command but one only *continues* a recovery (`Continues`): it keeps the scope, and never makes a resolved
recovery unresolved. Accounting is such a step, whole or cut short, and so are an admission, a closure, a restoration,
an exception and the loss of the journal. What is left is the declaration of a new scope, whose guard compares it with
the scopes unresolved after accounting. An exception is the step one would fear: it reopens an abandoned recovery, but
an abandoned scope counts as unresolved until it is restored, so nobody took it meanwhile. No assumption on the
constants is used.

`StrengtheningIsBounded` (`RoundsAreBounded`) adds `RoundsInv`: the rounds are finitely many records and a unit is of
at most one round of its root, so an admission starts at most one and finds the budget that decides on it.
`AdmissionsCountTheJournal` (`AdmissionSeesConsumption`) follows from `ActionsInv`: the calls a recovery's cursor has
passed were counted, and its recorded actions never fall behind them, over an accounting cut short and a journal put
back. Both use that the policy's bounds are numbers.

### Delegation

`HInv` is inductive, for any number of calls, units, children and harness instances: units and executions are records
(`UnitRecords`, `Executions`, `Hosts`), a live execution holds its unit, a child runs one, and what an instance read of
a call stays true of it until it settles (`Readings`): a native call that was seen over does not come back. From it
`ExecutionsHoldTheirUnits` (`LiveExecutionHoldsItsUnit`), `ChildrenRunOne` (`ChildRunsOne`) and
`OnlyWhatIsOverIsSettled` (`OnlyOverWorkIsSettled`), in spite of late instances, repeated preparations and commands
that stop between two records.
`DelegationsKeepScopesApart` carries `ScopesDisjoint` over: every step of `Delegation` is one of `Dispatch` or keeps its
recoveries.

### SetupDeploy

For every sequence of managed paths, whatever the user writes, and every bound, `SetupProofs` proves the three
properties of the run from one inductive invariant (`Invariance`), whose parts are:

- `BackupInv`: an entry with a copy, in the manifest and among those an operation is about to record, finds in it the
  content recorded at takeover. It is inductive because the backups only grow (`BackUpEffect`): a copy with other
  content takes another name. `BackupsAreKept` (`BackupsHoldPriors`) is its half about the manifest.
- `BatchInv`: a path the batch has not reached holds what was captured, one it has replaced holds what was planned, or
  the user wrote there since (`late`); what was captured is missing, copied, or what the manifest says Takt installed.
  `RollbacksAreComplete` (`RolledBackLeavesNothing`) is its first part once nothing is left to undo.
- `ConfigInv` and `RemovalInv`: what was read to compute a registration or a patch still stands, and what an uninstall
  moved aside left its place empty and will be neither moved nor restored, or the user wrote there since.

`UserEditsAreKept` (`EditsAreKept`) goes through the steps that replace a file (`StepKeeps`): each keeps the user's
part, finds it among the copies, or is one of the losses `KnownLoss` names. What was moved aside is always one of them
(`StagedIsKnown`), so ending the process there loses nothing else.

Assumptions used: the order is a finite sequence of paths, and the special values are neither contents nor entries.

### MemoryIndex

For every set of sessions, host sessions, requests and calls in progress, `MemoryProofs!Invariance` proves
`Spec => []IInv`, and the three properties of the run follow. The parts of `IInv`:

- `LockInv`: a session's lock is held by the one call that works on that session.
- `CopyOK`: what such a call works on is the index on disk, or it with the start anchor just stored; so a save only
  extends what is there. `DoneOK`: by the step before a save, the call has stored and linked what the save will say.
- `IndexInv`: what an index says is stored and linked, and a closed session has no declaration pending.
- `PendingInv`: a session that is declared as the one continued, in an index or by a call between its check and its
  save, was closed once: it has a start and declares nothing (`Settled`), and no step takes that back, not even the
  record that opens it again.

`IndexesAreLinked` (`IndexIsLinked`) reads off `IndexInv`. `RecordsAreAttributed` (`RecordedIsAttributed`) is a part
of `IInv`: an absorbed write answers with an observation of its own author, and every save covers the index it
replaces (`Covers`). `WaitsAreAcyclic` (`NoWaitCycle`): who is waited for is settled, and who waits has a declaration
pending, so nobody waits for one who waits. The lemmas sort the steps by what they touch: a call moves on
(`WorksKeep`), saves (`SaverKeeps`), saves and ends (`LastSaveKeeps`), or touches neither store (`QuietKeeps`).

Assumptions used: the caller and relation of a request are among those declared, the bound is a natural number, and the
special values are no session, no index and no call.

### TUI

For any files, agents, models, and numbers of flows, commands, messages and edits, in whatever order messages come.
The invariant (`IInv`) follows each request from the key that asked for it to its result:

- `Control`: flows are numbered as they open, so one that was left never comes back; the menu asks for nothing; the
  guard opens over no flow that waits.
- `Waiting`: whatever is under way was asked for by a flow that was opened, and if that flow is on the stack it waits
  for exactly this. A flow that waits starts nothing, which gives `OneActionPerFlow`.
- `OnePlace`: a request is on its way or handed over, once; so a result ends it.

`FlowsAskOnce` (`OneActionPerFlow`) reads off it. `DraftsAreHeld` (`HeldUntilConsent`) is proved with it, step by step:
what leaves a flow is a key or a Back that asks (`leave`), the guard, or a jump. The proof sorts the steps by what
they do to the work under way (`SameWork`, `NoMoreWork`). It assumes only that the flows opened are those the menu has
and that the bounds are numbers.

### Only model-checked

- Liveness (`PendingResolves`, `RequestIsAnswered`, `CycleEnds`, `TerminationIsSettled`, `ActionsAreAnswered`): it
  rests on fairness and `ENABLED`, out of the prover's reach.
- What the functions of `GCFindings` compute: they fold over a journal, and induction over data is out of its reach.

## 5. Plan

Done: the workspace store from claims to consolidation, the shell over it, the maintenance cycle, dispatch and
delegation, deployment, memory, the interface. Left, in this order:

1. `VFSStore`: the handle over SQLite with its checkpoints and faults, and a refinement of the shell to a command that
   writes its whole projection at completion.
2. The conversation's hand-over between the orchestrator and a specialist (`dispatch/interlocutor.go`).
3. Several root sessions in `VFSClaims`, and the bindings of a maintenance cycle there instead of in `GCCycle`.

## 6. Not modelled, and why

`PROJECT.json` lists every part with its status and what a partly modelled one leaves out. Not modelled at all:

- `cli` front end: argument parsing and rendering.
- `session` and `obs`: append-only records and reports, with no protocol beyond one file lock.
- `doctor`, `verify`, `catalog`, `model`, `skills`, `codegraph`, `engram`, `internal`: checks that read the
  installation, static data, templates, wrappers of external commands.
- The shell command classifier and the glob matching: string analysis, whose result the models take as given.
- The external analysers a cycle runs, and the parsing of their output.
- Replaying and paging the history's files, and the SQLite encoding of the store.
- Packaging (`charts`, `deploy`, `development`, `.github`, `install.sh`).
