--------------------------------- MODULE TUI ---------------------------------
(***************************************************************************)
(* Takt's interactive application (takt/tui): a menu, one flow above it    *)
(* at a time, the guard over unapplied changes, and the lifecycle action   *)
(* a flow may have asked for.                                              *)
(*                                                                         *)
(* The event loop handles one message at a time; what a handler starts is  *)
(* a command, which runs beside the loop and answers with a message. A     *)
(* command that only returns a value has nothing to wait for (prompt), one *)
(* that reads files, asks a process or waits answers when it is done       *)
(* (late), and a lifecycle action is executed by the adapter (running).    *)
(* The commands and the reader of the keys send on one channel, each on    *)
(* its own: any number of keys, and any other message, may come before     *)
(* one that was posted.                                                    *)
(***************************************************************************)
EXTENDS Naturals, FiniteSets

CONSTANTS
    Files,         \* the managed files, numbered in the order they are listed
    Unrelated,     \* those no operation depends on
    Incompatible,  \* those that cannot be kept as the user has them
    Agents,        \* the specialists whose model may be reassigned
    Refs,          \* the models OpenCode may offer, in the order they are listed
    Kinds,         \* the flows that are opened
    MaxScreens,    \* bounds the flows opened
    MaxCommands,   \* bounds the slow commands and the requests issued
    MaxPrompt,     \* bounds the posted messages on their way
    MaxEdits,      \* bounds the user's edits of managed files
    NotRead

NoModel == 0

ASSUME TUIAssumption ==
    /\ Files \subseteq Nat \ {0} /\ Refs \subseteq Nat \ {NoModel}
    /\ Unrelated \subseteq Files /\ Incompatible \subseteq Files \ Unrelated
    /\ Kinds \subseteq {"install", "upgrade", "drift", "uninstall", "models", "diagnostics"}
    /\ {MaxScreens, MaxCommands, MaxPrompt, MaxEdits} \subseteq Nat

VARIABLES
    flow,      \* the flow on the stack, or the menu beneath it
    guard,     \* the overlay: closed, or what discarding would do
    prompt,    \* messages of commands that only return a value
    late,      \* commands that take time, with what they read
    running,   \* the actions handed to the adapter, until their result is delivered
    cancel,    \* the request whose context the controller can cancel, or 0
    alive,     \* up, gone, or ended by a panic
    disk,      \* which edit of a managed file is on disk, 0 for Takt's content
    accepted,  \* the edit recorded as an accepted risk
    home,      \* whether Takt is installed, and by this build
    deployed,  \* the model every agent runs on
    screens, commands, edits

vars == <<flow, guard, prompt, late, running, cancel, alive, disk, accepted, home, deployed,
          screens, commands, edits>>
world == <<disk, accepted, home, deployed, edits>>

\* by is the flow that asked.
NoRequest == [id |-> 0, by |-> 0, action |-> "none", arg |-> {}]

\* The menu keeps nothing; a flow keeps the fields of its own kind, the others as here.
Menu == [kind |-> "menu", id |-> 0, step |-> "menu", req |-> NoRequest, stop |-> FALSE,
         outcome |-> "none",
         configuring |-> FALSE, custom |-> FALSE, picked |-> FALSE, plan |-> <<>>, known |-> {},
         restore |-> {}, err |-> FALSE,
         result |-> NotRead, selected |-> {}, cursor |-> 1,
         modified |-> {}, keep |-> {}, drop |-> {}, engram |-> "leave",
         overrides |-> [a \in Agents |-> NoModel], base |-> [a \in Agents |-> NoModel],
         loading |-> FALSE, available |-> {}, failed |-> FALSE, agent |-> 0, at |-> 1,
         broken |-> FALSE]

\* Requests are numbered from 1.
Busy(s) == s.req.id # NoRequest.id

\* The n-th entry of a list; a list is shown in the order of its numbers.
Nth(S, n) == CHOOSE x \in S : Cardinality({y \in S : y <= x}) = n

(***************************************************************************)
(* The flows: what each one keeps, and the screen it opens on.             *)
(***************************************************************************)
Blank(kind) == [Menu EXCEPT !.kind = kind, !.id = screens + 1]

\* What the installed plans find changed on disk.
Conflicts == {f \in Files : disk[f] # 0}

\* The conflicts a plan asks about: not those unrelated to the operation nor
\* those accepted earlier and unchanged since.
Decisions(s) == {f \in DOMAIN s.plan : f \notin Unrelated \cup s.known}
Kept(s)      == DOMAIN s.plan \ s.restore
Blocked(s)   == Kept(s) \cap Incompatible # {}

\* The plan with what it finds on disk, or no plan at all.
PreviewPlan(s, fails) ==
    LET found == IF fails THEN {} ELSE Conflicts
    IN [s EXCEPT !.plan = [f \in found |-> disk[f]],
                 !.known = {f \in found : accepted[f] = disk[f]},
                 !.err = fails]

\* Resolving the plan again drops the choices about files it no longer asks
\* about, and opens on the files needing a decision, or on the review.
PreparePlan(s, fails) ==
    LET next == PreviewPlan(s, fails)
    IN [next EXCEPT !.restore = @ \cap Decisions(next),
                    !.step = IF Decisions(next) # {} THEN "conflicts" ELSE "review"]

NewInstall(kind, fails) ==
    PreparePlan([Blank(kind) EXCEPT !.configuring = home.installed, !.custom = home.installed],
                fails)

NewDrift == [Blank("drift") EXCEPT !.step = "report"]

\* The files an uninstall would leave to the user because they were edited.
PreviewUninstall(fails) == IF fails THEN {} ELSE Conflicts

NewUninstall(fails) ==
    LET modified == PreviewUninstall(fails)
    IN [Blank("uninstall") EXCEPT !.step = IF modified = {} THEN "engram" ELSE "modified",
                                  !.modified = modified, !.err = fails]

\* The draft starts from the deployed models; the offered ones are still asked for.
Preload(s) == [s EXCEPT !.overrides = deployed, !.base = deployed]

\* A picker that cannot be loaded stays as it was, beneath a screen that says so.
LoadPicker(s, fails) ==
    IF fails THEN [s EXCEPT !.step = "assignments", !.err = TRUE]
    ELSE [Preload(s) EXCEPT !.step = "assignments", !.loading = TRUE, !.available = {},
                            !.failed = FALSE, !.agent = 0, !.at = 1]
NewModels(fails) == LoadPicker(Blank("models"), fails)

NewDiagnostics == [Blank("diagnostics") EXCEPT !.step = "collecting"]

NewScreen(kind, fails) ==
    CASE kind \in {"install", "upgrade"} -> NewInstall(kind, fails)
      [] kind = "drift"                  -> NewDrift
      [] kind = "uninstall"              -> NewUninstall(fails)
      [] kind = "models"                 -> NewModels(fails)
      [] kind = "diagnostics"            -> NewDiagnostics

\* What a flow asks for when it opens.
Asking == {"drift", "models", "diagnostics"}
Reads(s) == CASE s.kind = "drift"              -> "scan"
              [] s.kind = "models" /\ ~s.err   -> "models"
              [] s.kind = "diagnostics"        -> "report"
              [] OTHER                         -> "nothing"

Changed(s) == {a \in Agents : s.overrides[a] # s.base[a]}

\* A flow is dirty while it holds changes that were not applied.
InstallDirty(s)   == ~Busy(s) /\ (s.picked \/ s.restore # {})
DriftDirty(s)     == ~Busy(s) /\ s.selected # {}
UninstallDirty(s) == s.keep \cup s.drop # {} \/ s.engram # "leave"
ModelsDirty(s)    == ~Busy(s) /\ Changed(s) # {}

Dirty(s) ==
    /\ s.step # "result"
    /\ CASE s.kind \in {"install", "upgrade"} -> InstallDirty(s)
         [] s.kind = "drift"                  -> DriftDirty(s)
         [] s.kind = "uninstall"              -> UninstallDirty(s)
         [] s.kind = "models"                 -> ModelsDirty(s)
         [] OTHER                             -> FALSE

(***************************************************************************)
(* Commands                                                                *)
(***************************************************************************)
\* A message that asks for no action.
Signal(type) == [type |-> type, req |-> NoRequest]

\* Messages on their way are told apart by a number that is free.
Post(m) ==
    \E n \in 1 .. MaxPrompt :
        /\ \A p \in prompt : p.n # n
        /\ \A k \in 1 .. n - 1 : \E p \in prompt : p.n = k
        /\ prompt' = prompt \cup {[n |-> n, type |-> m.type, req |-> m.req]}

\* A slow command is issued; what it reads it reads later.
Ask(type) ==
    IF type = "nothing" THEN UNCHANGED <<late, commands>>
    ELSE /\ commands' = commands + 1
         /\ late' = late \cup {[id |-> commands + 1, type |-> type, read |-> NotRead]}

\* A flow becomes the only one on the stack.
Show(kind) ==
    /\ screens' = screens + 1
    /\ \E fails \in BOOLEAN : LET next == NewScreen(kind, fails)
                             IN flow' = next /\ Ask(Reads(next))

\* Quitting frees the logo image first and ends a frame later.
ExitProgram == late' = late \cup {[id |-> 0, type |-> "quit", read |-> NotRead]}

Discard(quit) ==
    IF quit THEN ExitProgram /\ UNCHANGED flow
    ELSE flow' = Menu /\ UNCHANGED late

\* Bug variant: unapplied changes are not asked about.
LeaveUnasked(quit) ==
    \/ Busy(flow) /\ UNCHANGED <<flow, guard, late>>
    \/ ~Busy(flow) /\ Discard(quit) /\ UNCHANGED guard

\* Leaving waits for a running action and asks about unapplied changes; the
\* guard that is already open keeps what it asks.
Leave(quit) ==
    \/ Busy(flow) /\ UNCHANGED <<flow, guard, late>>
    \/ /\ ~Busy(flow) /\ Dirty(flow)
       /\ guard' = IF guard # "closed" THEN guard ELSE IF quit THEN "quit" ELSE "back"
       /\ UNCHANGED <<flow, late>>
    \/ ~Busy(flow) /\ ~Dirty(flow) /\ Discard(quit) /\ UNCHANGED guard

(***************************************************************************)
(* Keys: none reaches a flow while the guard is open, and a flow that is   *)
(* busy takes none but the cancellation.                                   *)
(***************************************************************************)
AtMenu == alive = "up" /\ guard = "closed" /\ flow.kind = "menu"

\* Bug variant: a busy flow goes on taking keys.
OnBusyToo(kinds, steps) == alive = "up" /\ guard = "closed" /\ flow.kind \in kinds /\ flow.step \in steps

On(kinds, steps) == /\ alive = "up" /\ guard = "closed" /\ ~Busy(flow)
                    /\ flow.kind \in kinds /\ flow.step \in steps

\* Each flow turns away the keys of a run that has not ended.
Installs == {"install", "upgrade"}
OnInstall(step)   == On(Installs, {step})
OnDrift(step)     == On({"drift"}, {step})
OnUninstall(step) == On({"uninstall"}, {step})
OnModels(step)    == On({"models"}, {step}) /\ ~flow.err

quiet == <<guard, running, cancel, alive, world>>

\* A handler that indexes a list past its end takes the program down.
Panics == /\ alive' = "panicked"
          /\ UNCHANGED <<flow, guard, prompt, late, running, cancel, world, screens, commands>>

\* A key that only changes the flow, one that posts a message as well, and one
\* that starts the action the flow asks for.
Edit(s)     == flow' = s /\ UNCHANGED <<quiet, prompt, late, screens, commands>>
Emit(s, m)  == flow' = s /\ Post(m) /\ UNCHANGED <<quiet, late, screens, commands>>
Start(s, action, arg) ==
    LET request == [id |-> commands + 1, by |-> s.id, action |-> action, arg |-> arg]
    IN /\ commands < MaxCommands /\ commands' = commands + 1
       /\ flow' = [s EXCEPT !.req = request, !.stop = FALSE]
       /\ Post([type |-> "request", req |-> request])
       /\ UNCHANGED <<quiet, late, screens>>
Back(s) == Emit(s, Signal("back"))
Quit(s) == flow' = s /\ ExitProgram /\ UNCHANGED <<quiet, prompt, screens, commands>>

Visible(kind) == kind = "install" \/ (home.installed /\ (kind = "upgrade" => ~home.current))

MenuOpens(kind) ==
    /\ AtMenu /\ Visible(kind)
    /\ screens < MaxScreens /\ (kind \in Asking => commands < MaxCommands)
    /\ Show(kind)
    /\ UNCHANGED <<quiet, prompt>>

MenuQuits == AtMenu /\ Quit(flow)

\* Ctrl+B leaves the flow, and Ctrl+C quits from it when no action is running.
LeaveKey(quit) ==
    /\ alive = "up" /\ guard = "closed" /\ flow.kind # "menu"
    /\ quit => ~Busy(flow)
    /\ Leave(quit)
    /\ UNCHANGED <<prompt, running, cancel, alive, world, screens, commands>>

\* While an action runs Ctrl+C and Enter ask to cancel it, once.
Cancel ==
    /\ alive = "up" /\ guard = "closed" /\ Busy(flow) /\ ~flow.stop
    /\ flow' = [flow EXCEPT !.stop = TRUE]
    /\ running' = {[a EXCEPT !.cancelled = @ \/ a.req.id = cancel] : a \in running}
    /\ cancel' = 0
    /\ UNCHANGED <<guard, prompt, late, alive, world, screens, commands>>

GuardKeeps ==
    /\ alive = "up" /\ guard # "closed" /\ guard' = "closed"
    /\ UNCHANGED <<flow, prompt, late, running, cancel, alive, world, screens, commands>>

GuardDiscards ==
    /\ alive = "up" /\ guard # "closed" /\ guard' = "closed"
    /\ Discard(guard = "quit")
    /\ UNCHANGED <<prompt, running, cancel, alive, world, screens, commands>>

(***************************************************************************)
(* Installing, configuring and upgrading                                   *)
(***************************************************************************)
InstallPrepares(s) == \E fails \in BOOLEAN : Edit(PreparePlan(s, fails))

\* The file under the cursor is replaced by Takt's, or kept as the user has it.
Choose(s, f, replace) == [s EXCEPT !.restore = IF replace THEN @ \cup {f} ELSE @ \ {f}]

\* Nothing goes on to the review with a kept file that cannot work.
ConflictsConfirm(s) == [s EXCEPT !.step = IF Blocked(s) THEN @ ELSE "review"]

\* Enter records the choice for one file and moves on, and past the last one.
InstallChooses(f, replace) ==
    /\ OnInstall("conflicts") /\ f \in Decisions(flow)
    /\ LET chosen == Choose(flow, f, replace)
       IN Edit(IF \A g \in Decisions(flow) : g <= f THEN ConflictsConfirm(chosen) ELSE chosen)

InstallLeavesConflicts ==
    /\ OnInstall("conflicts")
    /\ IF flow.custom /\ ~flow.configuring /\ flow.kind = "install"
       THEN Edit([flow EXCEPT !.step = "components"])
       ELSE Back(flow)

InstallToggles == OnInstall("components") /\ Edit([flow EXCEPT !.picked = ~@])

InstallLeavesComponents == OnInstall("components") /\ InstallPrepares(flow)

\* What the review offers: an upgrade keeps the recorded components, and only
\* it retries a plan that could not be prepared.
ReviewActions(s) ==
    (IF s.kind = "install" THEN {"personalize"} ELSE IF s.err THEN {"retry"} ELSE {})
        \cup (IF s.err THEN {} ELSE {"start"})

InstallPersonalizes ==
    /\ OnInstall("review") /\ "personalize" \in ReviewActions(flow)
    /\ Edit([flow EXCEPT !.custom = TRUE, !.step = "components"])

InstallRetries == OnInstall("review") /\ "retry" \in ReviewActions(flow) /\ InstallPrepares(flow)

\* Every conflict that was not chosen for replacement is preserved; the kept
\* ones Takt cannot vouch for are recorded as accepted.
InstallStarts ==
    /\ OnInstall("review") /\ "start" \in ReviewActions(flow)
    /\ Start(flow, "install",
             [keep  |-> Kept(flow),
              risks |-> [f \in Kept(flow) \ (Unrelated \cup Incompatible) |-> flow.plan[f]]])

InstallLeavesReview ==
    /\ OnInstall("review")
    /\ IF Decisions(flow) # {} THEN Edit([flow EXCEPT !.step = "conflicts"]) ELSE Back(flow)

\* Without a rollback, a failed or cut-short run is planned again.
ResultActions(s) ==
    {IF s.outcome = "completed" THEN "assign" ELSE "again", "menu", "quit"}

InstallEnds ==
    /\ OnInstall("result")
    /\ \E action \in ResultActions(flow) :
         CASE action = "again"  -> InstallPrepares(flow)
           [] action = "assign" -> Emit(flow, Signal("openModels"))
           [] action = "menu"   -> Back(flow)
           [] action = "quit"   -> Quit(flow)

(***************************************************************************)
(* Drift                                                                   *)
(***************************************************************************)
Scanned(s)      == s.result # NotRead
VersionDrift(s) == Scanned(s) /\ ~s.result.err /\ ~s.result.current
HasDrift(s)     == Scanned(s) /\ ~s.result.err /\ s.result.files # {}
Listed(s)       == IF Scanned(s) THEN s.result.files ELSE {}

\* What the report offers beside the menu. Another build's files are not
\* corrected but upgraded; an installation newer than this build is left out.
ReportActions(s) ==
    {"menu"} \cup (IF VersionDrift(s) THEN {"upgrade"} ELSE IF HasDrift(s) THEN {"select"} ELSE {})

DriftReports ==
    /\ OnDrift("report")
    /\ \E action \in ReportActions(flow) :
         CASE action = "menu"    -> Back(flow)
           [] action = "upgrade" -> Emit(flow, Signal("openUpgrade"))
           [] action = "select"  -> Edit([flow EXCEPT !.step = "select"])

DriftMoves == \E n \in 1 .. Cardinality(Listed(flow)) : Edit([flow EXCEPT !.cursor = n])

\* Toggling reads the entry beneath the cursor, whatever the list now holds.
DriftToggles ==
    IF flow.cursor > Cardinality(Listed(flow)) THEN Panics
    ELSE LET f == Nth(Listed(flow), flow.cursor)
         IN Edit([flow EXCEPT !.selected = IF f \in @ THEN @ \ {f} ELSE @ \cup {f}])

\* Enter completes the list only when something is selected.
DriftSelects ==
    /\ OnDrift("select")
    /\ \/ DriftMoves \/ DriftToggles
       \/ Edit([flow EXCEPT !.step = IF flow.selected = {} THEN @ ELSE "review"])
       \/ Edit([flow EXCEPT !.step = "report"])

DriftReviews ==
    /\ OnDrift("review")
    /\ \/ Edit([flow EXCEPT !.step = "select"])
       \/ Start(flow, "correct-drift", flow.selected)

\* A fresh scan starts from no selection at all.
DriftEnds ==
    /\ OnDrift("result")
    /\ \/ Back(flow)
       \/ /\ commands < MaxCommands /\ Ask("scan")
          /\ flow' = [flow EXCEPT !.result = NotRead, !.selected = {}, !.cursor = 1,
                                  !.step = "report"]
          /\ UNCHANGED <<quiet, prompt, screens>>

(***************************************************************************)
(* Uninstalling                                                            *)
(***************************************************************************)
Decided(s) == s.keep \cup s.drop

UninstallDecides(f, keep) ==
    /\ OnUninstall("modified") /\ f \in flow.modified
    /\ LET next == [flow EXCEPT !.keep = IF keep THEN @ \cup {f} ELSE @ \ {f},
                                !.drop = IF keep THEN @ \ {f} ELSE @ \cup {f}]
       IN Edit([next EXCEPT !.step = IF flow.modified \subseteq Decided(next) THEN "engram" ELSE @])

UninstallAnswers(answer) ==
    /\ OnUninstall("engram")
    /\ Edit([flow EXCEPT !.engram = answer, !.step = IF flow.err THEN @ ELSE "review"])

UninstallGoesBack ==
    \/ OnUninstall("modified") /\ Back(flow)
    \/ /\ OnUninstall("engram")
       /\ IF flow.modified = {} THEN Back(flow) ELSE Edit([flow EXCEPT !.step = "modified"])
    \/ OnUninstall("review") /\ Edit([flow EXCEPT !.step = "engram"])

\* The files decided one way and the other, and what becomes of Engram.
RetentionChoices(s) == [keep   |-> s.modified \cap s.keep,
                        drop   |-> s.modified \cap s.drop,
                        engram |-> s.engram]

UninstallStarts == OnUninstall("review") /\ Start(flow, "uninstall", RetentionChoices(flow))

UninstallEnds == OnUninstall("result") /\ (Back(flow) \/ Quit(flow))

(***************************************************************************)
(* Assigning models: the list of agents, the list of models, the result.   *)
(***************************************************************************)
AllAgents == 0

Assign(s, agent, ref) ==
    [s EXCEPT !.overrides = [a \in Agents |-> IF agent \in {a, AllAgents} THEN ref ELSE @[a]]]

\* What the selected agents run on, NoModel also when they differ.
Current(s) ==
    LET used == {s.overrides[a] : a \in IF s.agent = AllAgents THEN Agents ELSE {s.agent}}
    IN IF Cardinality(used) = 1 THEN CHOOSE ref \in used : TRUE ELSE NoModel

\* The cursor opens on the model in use, or on the first one.
PickerOpens(agent) ==
    /\ OnModels("assignments")
    /\ LET next == [flow EXCEPT !.agent = agent, !.step = "choosing"]
           ref  == Current(next)
       IN Edit([next EXCEPT !.at = IF ref \in flow.available
                                   THEN Cardinality({r \in flow.available : r <= ref}) ELSE 1])

PickerMoves ==
    /\ OnModels("choosing")
    /\ \E n \in 1 .. Cardinality(flow.available) : Edit([flow EXCEPT !.at = n])

\* Choosing reads the entry beneath the cursor, unless there is none to choose.
PickerChooses ==
    /\ OnModels("choosing") /\ ~flow.loading /\ flow.available # {}
    /\ IF flow.at > Cardinality(flow.available)
       THEN Panics
       ELSE Edit([Assign(flow, flow.agent, Nth(flow.available, flow.at)) EXCEPT !.step = "assignments"])

PickerResets(agent) ==
    OnModels("assignments") /\ Edit(Assign(flow, agent, NoModel))

\* A picker that could not be loaded offers the menu alone.
PickerUnavailable == On({"models"}, {"assignments"}) /\ flow.err /\ Back(flow)

PickerLeaves ==
    \/ OnModels("choosing") /\ Edit([flow EXCEPT !.step = "assignments"])
    \/ OnModels("assignments") /\ Back(flow)

\* A request names only the agents with a model of their own.
SparseOverrides(s) == [a \in {x \in Agents : s.overrides[x] # NoModel} |-> s.overrides[a]]

ModelsStarts ==
    /\ OnModels("assignments") /\ Changed(flow) # {}
    /\ Start(flow, "reassign-models", SparseOverrides(flow))

ModelsEnds ==
    /\ OnModels("result")
    /\ \/ Back(flow)
       \/ /\ commands < MaxCommands /\ Ask("models")
          /\ \E fails \in BOOLEAN : flow' = LoadPicker(flow, fails)
          /\ UNCHANGED <<quiet, prompt, screens>>

(***************************************************************************)
(* Diagnostics                                                             *)
(***************************************************************************)
\* Repairing is offered when a capability failed its check.
Repairable(s) == s.step = "report" /\ s.broken

DiagnosticsKey ==
    /\ On({"diagnostics"}, {"collecting", "report"})
    /\ \/ Back(flow)
       \/ Repairable(flow) /\ Emit(flow, Signal("openRepair"))

(***************************************************************************)
(* Messages                                                                *)
(***************************************************************************)
\* A jump to another flow replaces the stack, if it finds a flow of the kind that posts it.
Replace(from, kind) ==
    IF flow.kind \in from THEN Show(kind) /\ UNCHANGED guard
    ELSE UNCHANGED <<flow, guard, late, screens, commands>>

\* The controller gives the request a context it can cancel and hands it over.
UpdateRequest(request) ==
    /\ running' = running \cup {[req |-> request, cancelled |-> FALSE, end |-> "no"]}
    /\ cancel' = request.id

DeliverPrompt(m) ==
    /\ alive = "up"
    /\ prompt' = prompt \ {m}
    /\ LET stay == UNCHANGED <<running, cancel>>
       IN CASE m.type = "back"        -> Leave(FALSE) /\ stay /\ UNCHANGED <<screens, commands>>
            [] m.type = "openModels"  -> Replace(Installs, "models") /\ stay
            [] m.type = "openRepair"  -> Replace({"diagnostics"}, "install") /\ stay
            [] m.type = "openUpgrade" -> Replace({"drift"}, "upgrade") /\ stay
            [] m.type = "request"     -> /\ UpdateRequest(m.req)
                                         /\ UNCHANGED <<flow, guard, late, screens, commands>>
    /\ UNCHANGED <<alive, world>>

\* What a slow command finds, when it looks.
Found(type) ==
    CASE type = "scan"   -> {[files |-> IF e THEN {} ELSE Conflicts, current |-> home.current,
                              err |-> e] : e \in BOOLEAN}
      [] type = "models" -> {[available |-> A, err |-> A = {}] : A \in SUBSET Refs}
      [] type = "report" -> {[broken |-> b] : b \in BOOLEAN}

CommandReads(c) ==
    /\ c.type # "quit" /\ c.read = NotRead
    /\ \E found \in Found(c.type) : late' = (late \ {c}) \cup {[c EXCEPT !.read = found]}
    /\ UNCHANGED <<flow, guard, prompt, running, cancel, alive, world, screens, commands>>

\* A scan replaces the list under the cursor; so do the models OpenCode offers.
ShowScan(s, scan)       == [s EXCEPT !.result = scan]
ModelsLoaded(s, loaded) == [s EXCEPT !.available = loaded.available, !.failed = loaded.err,
                                     !.loading = FALSE]
ShowReport(s, report)   == [s EXCEPT !.broken = report.broken, !.step = "report"]

\* Whichever flow is on the stack gets the message, whoever asked for it.
DeliverLate(c) ==
    /\ alive = "up" /\ (c.read # NotRead \/ c.type = "quit")
    /\ late' = late \ {c}
    /\ alive' = IF c.type = "quit" THEN "gone" ELSE alive
    /\ flow' = CASE c.type = "scan" /\ flow.kind = "drift"         -> ShowScan(flow, c.read)
                 [] c.type = "models" /\ flow.kind = "models"      -> ModelsLoaded(flow, c.read)
                 [] c.type = "report" /\ flow.kind = "diagnostics" -> ShowReport(flow, c.read)
                 [] OTHER                                          -> flow
    /\ UNCHANGED <<guard, prompt, running, cancel, world, screens, commands>>

\* Bug variant: a run whose cancellation was asked for takes no result.
Uncancelled(s, a) == Busy(s) /\ ~s.stop /\ s.req = a.req

\* A result answers the flow that is busy with that very request.
Accepts(s, a) == Busy(s) /\ s.req = a.req

ShowResult(s, a) ==
    LET next == [s EXCEPT !.req = NoRequest, !.stop = FALSE, !.step = "result", !.outcome = a.end]
    IN IF s.kind = "uninstall" /\ a.end = "completed"
       THEN [next EXCEPT !.keep = {}, !.drop = {}, !.engram = "leave"] ELSE next

DeliverResult(a) ==
    /\ alive = "up" /\ a.end # "no"
    /\ running' = running \ {a}
    /\ cancel' = IF cancel = a.req.id THEN 0 ELSE cancel
    /\ flow' = IF Accepts(flow, a) THEN ShowResult(flow, a) ELSE flow
    /\ UNCHANGED <<guard, prompt, late, alive, world, screens, commands>>

(***************************************************************************)
(* The adapter and the user's disk                                         *)
(***************************************************************************)
Ends(a) == {"completed", "failed"} \cup (IF a.cancelled THEN {"nothing", "partial"} ELSE {})

\* The files an action may put back to Takt's content.
Writes(a) ==
    CASE a.req.action = "install"       -> Files \ a.req.arg.keep
      [] a.req.action = "correct-drift" -> IF home.current THEN a.req.arg ELSE {}
      [] OTHER                          -> {}

\* The agents whose model differs from the deployed one; one that is not named
\* loses the model of its own.
ChangedOverrides(before, after) ==
    {g \in Agents : before[g] # (IF g \in DOMAIN after THEN after[g] ELSE NoModel)}

Reassigned(before, after) ==
    [g \in Agents |-> IF g \notin ChangedOverrides(before, after) THEN before[g]
                      ELSE IF g \in DOMAIN after THEN after[g] ELSE NoModel]

ExecuteAction(a) ==
    /\ alive = "up" /\ a.end = "no"
    /\ \E end \in Ends(a), W \in SUBSET Writes(a) :
         /\ end = "completed" => W = Writes(a)
         /\ end = "nothing" => W = {}
         /\ a.req.action = "correct-drift" /\ ~home.current => end = "failed"
         /\ running' = (running \ {a}) \cup {[a EXCEPT !.end = end]}
         /\ disk' = [f \in Files |-> IF f \in W THEN 0 ELSE disk[f]]
         /\ IF end = "completed"
            THEN /\ home' = CASE a.req.action = "install" -> [installed |-> TRUE, current |-> TRUE]
                              [] a.req.action = "uninstall" -> [home EXCEPT !.installed = FALSE]
                              [] OTHER -> home
                 /\ accepted' = IF a.req.action # "install" THEN accepted
                                ELSE [f \in Files |-> IF f \in DOMAIN a.req.arg.risks
                                                      THEN a.req.arg.risks[f] ELSE accepted[f]]
                 /\ deployed' = IF a.req.action = "reassign-models"
                                THEN Reassigned(deployed, a.req.arg) ELSE deployed
            ELSE UNCHANGED <<home, accepted, deployed>>
    /\ UNCHANGED <<flow, guard, prompt, late, cancel, alive, edits, screens, commands>>

UserEdits(f) ==
    /\ alive = "up" /\ edits < MaxEdits
    /\ edits' = edits + 1
    /\ disk' = [disk EXCEPT ![f] = edits + 2]
    /\ UNCHANGED <<flow, guard, prompt, late, running, cancel, alive, accepted, home, deployed,
                   screens, commands>>

Init ==
    /\ flow = Menu /\ guard = "closed" /\ prompt = {} /\ late = {} /\ running = {}
    /\ cancel = 0 /\ alive = "up"
    /\ disk \in [Files -> {0, 1}] /\ accepted = [f \in Files |-> 0]
    /\ home \in [installed : BOOLEAN, current : BOOLEAN]
    /\ home.current => home.installed
    /\ deployed = [a \in Agents |-> NoModel]
    /\ screens = 0 /\ commands = 0 /\ edits = 0

Controller ==
    \/ \E kind \in Kinds : MenuOpens(kind)
    \/ MenuQuits \/ Cancel \/ GuardKeeps \/ GuardDiscards
    \/ \E quit \in BOOLEAN : LeaveKey(quit)

Flows ==
    \/ \E f \in Files, yes \in BOOLEAN : InstallChooses(f, yes) \/ UninstallDecides(f, yes)
    \/ InstallLeavesConflicts \/ InstallToggles \/ InstallLeavesComponents
    \/ InstallPersonalizes \/ InstallRetries \/ InstallStarts \/ InstallLeavesReview \/ InstallEnds
    \/ DriftReports \/ DriftSelects \/ DriftReviews \/ DriftEnds
    \/ \E answer \in {"leave", "remove"} : UninstallAnswers(answer)
    \/ UninstallGoesBack \/ UninstallStarts \/ UninstallEnds
    \/ \E agent \in Agents \cup {AllAgents} : PickerOpens(agent) \/ PickerResets(agent)
    \/ PickerMoves \/ PickerChooses \/ PickerUnavailable \/ PickerLeaves \/ ModelsStarts \/ ModelsEnds
    \/ DiagnosticsKey

Messages ==
    \/ \E m \in prompt : DeliverPrompt(m)
    \/ \E c \in late : CommandReads(c) \/ DeliverLate(c)
    \/ \E a \in running : DeliverResult(a)

Next ==
    \/ Controller \/ Flows \/ Messages
    \/ \E a \in running : ExecuteAction(a)
    \/ \E f \in Files : UserEdits(f)

Spec == Init /\ [][Next]_vars

\* Every command that only returns a value gets its message through: the loop goes on
\* receiving, and a channel serves its senders in turn. The adapter's calls return.
FairSpec ==
    /\ Spec
    /\ \A n \in 1 .. MaxPrompt : WF_vars(\E m \in prompt : m.n = n /\ DeliverPrompt(m))
    /\ WF_vars(\E a \in running : ExecuteAction(a) \/ DeliverResult(a))

(***************************************************************************)
(* Properties                                                              *)
(***************************************************************************)
\* The jumps, with the flows that post them and the flow they open.
Jumped == \E m \in prompt \ prompt' :
    \/ m.type = "openModels"  /\ flow.kind \in Installs        /\ flow'.kind = "models"
    \/ m.type = "openRepair"  /\ flow.kind = "diagnostics"     /\ flow'.kind = "install"
    \/ m.type = "openUpgrade" /\ flow.kind = "drift"           /\ flow'.kind = "upgrade"

\* A flow that waits for its action is not left, and one that holds changes nobody
\* applied is left only by choosing Discard in the guard: whatever was posted before
\* and comes late, no key and no Back takes it away (leave, cancel, dispatch). Only a
\* jump does, posted by a flow of that kind: it asks nobody (NothingNavigatesWhileRunning).
HeldUntilConsent ==
    [][flow'.id # flow.id =>
         \/ ~Busy(flow) /\ (~Dirty(flow) \/ (guard = "back" /\ guard' = "closed"))
         \/ Jumped]_vars

\* The actions asked for whose result was not delivered yet.
Asked    == {m \in prompt : m.type = "request"}
Underway == {m.req : m \in Asked} \cup {a.req : a \in running}

\* A flow has one action under way at most, from the key that asks for it to the result,
\* cancelled or not: a second one would run beside it over the same installation, since
\* nothing below the interface excludes two (Busy, cancel, Accepts).
OneActionPerFlow == \A p, q \in Underway : p.by = q.by => p = q

\* A flow that asked for an action is answered, or the program ends: with its result, or
\* by the jump that takes it away.
ActionsAreAnswered == Busy(flow) ~> (~Busy(flow) \/ alive # "up")

\* Claimed by a comment of leave: nothing navigates while an action runs.
NothingNavigatesWhileRunning == [][flow'.id # flow.id => ~Busy(flow)]_vars
=============================================================================
