------------------------------- MODULE TUIProofs -------------------------------
(***************************************************************************)
(* OneActionPerFlow and HeldUntilConsent hold of TUI for every value of    *)
(* its constants, in whatever order keys, messages and results come.       *)
(*                                                                         *)
(* Both rest on the request a flow waits for: an action that is under way  *)
(* was asked for by one flow, in one place (on its way or handed over),    *)
(* and while that flow is on the stack it waits for it.  A flow that was   *)
(* left never comes back, since flows are numbered as they open.           *)
(***************************************************************************)
EXTENDS TUI, TLAPS

\* The fields a step may count on, whatever else the flow keeps.
Fields == {"id", "kind", "step", "req"}

\* The menu asks for nothing, and the guard does not open over a running action.
Control ==
    /\ Fields \subseteq DOMAIN flow
    /\ commands \in Nat /\ screens \in Nat
    /\ flow.kind = "menu" => flow.id = 0 /\ ~Busy(flow)
    /\ flow.kind # "menu" => flow.id \in 1 .. screens
    /\ guard \in {"closed", "back", "quit"}
    /\ guard # "closed" => ~Busy(flow)

Signals == {"back", "openModels", "openRepair", "openUpgrade"}

Posted == \A m \in prompt : m.type \in Signals \cup {"request"}

\* A flow that was opened asked for the action, and waits for it while it is on the stack.
Waiting ==
    \A r \in Underway : r.by \in 1 .. screens /\ r.id # 0 /\ (r.by = flow.id => flow.req = r)

\* An action is under way in one place.
OnePlace ==
    /\ \A m, n \in Asked : m.req = n.req => m = n
    /\ \A a, b \in running : a.req = b.req => a = b
    /\ \A m \in Asked, a \in running : m.req # a.req
    /\ \A a \in running : {"req", "cancelled", "end"} \subseteq DOMAIN a

IInv == Control /\ Posted /\ Waiting /\ OneActionPerFlow /\ OnePlace

\* What a step may do to the flow on the stack.
Held ==
    flow'.id # flow.id =>
      \/ ~Busy(flow) /\ (~Dirty(flow) \/ (guard = "back" /\ guard' = "closed"))
      \/ Jumped

Sound == IInv' /\ Held

(***************************************************************************)
(* The steps, by what they touch                                           *)
(***************************************************************************)
\* The same actions are asked for and executing.
SameWork == Asked' = Asked /\ Posted' /\ UNCHANGED running

\* The actions under way are among those that were, each still in one place.
NoMoreWork == Underway' \subseteq Underway /\ OnePlace' /\ Posted'

LEMMA SameWorkIsNoMore == ASSUME IInv, SameWork PROVE NoMoreWork
<1>1. Underway' = Underway
    BY DEF SameWork, Underway
<1>2. OnePlace'
    BY DEF IInv, SameWork, OnePlace
<1> QED BY <1>1, <1>2 DEF SameWork, NoMoreWork

LEMMA PromptStays == ASSUME IInv, UNCHANGED <<prompt, running>> PROVE SameWork
BY DEF IInv, Posted, SameWork, Asked

\* The flow s is the one on the stack, and waits for what it waits for.
Alters(s) == Fields \subseteq DOMAIN s /\ s.id = flow.id /\ s.kind = flow.kind /\ s.req = flow.req

\* A step that leaves the flow on the stack.
LEMMA Stays ==
    ASSUME IInv, NoMoreWork, Alters(flow'), UNCHANGED screens, commands' \in Nat,
           guard' \in {guard, "closed", "back", "quit"},
           guard' \in {"back", "quit"} => ~Busy(flow) \/ guard' = guard
    PROVE  Sound
<1>1. Busy(flow)' <=> Busy(flow)
    BY DEF Alters, Busy
<1>2. Control'
    BY <1>1 DEF IInv, Control, Alters
<1>3. Waiting' /\ OneActionPerFlow'
    BY DEF IInv, Waiting, OneActionPerFlow, NoMoreWork, Alters
<1>4. Held
    BY DEF Held, Alters
<1> QED BY <1>2, <1>3, <1>4 DEF IInv, Sound, NoMoreWork

\* A flow as it opens.
Fresh(s, kind) ==
    Fields \subseteq DOMAIN s /\ s.kind = kind /\ s.id = screens + 1 /\ ~Busy(s)

\* A step that opens a flow: no action under way is its own.
LEMMA Opens ==
    ASSUME IInv, NoMoreWork, NEW kind, kind # "menu", Fresh(flow', kind), screens' = screens + 1,
           commands' \in Nat, UNCHANGED guard
    PROVE  IInv'
<1>1. flow'.id = screens + 1 /\ screens \in Nat /\ ~Busy(flow)'
    BY DEF Fresh, IInv, Control, Busy
<1>2. Control'
    BY <1>1 DEF IInv, Control, Fresh
<1>3. ASSUME NEW r \in Underway'
      PROVE  r.by \in 1 .. screens' /\ r.id # 0 /\ r.by # flow'.id
    <2>1. r \in Underway
        BY DEF NoMoreWork
    <2>2. r.by \in 1 .. screens /\ r.id # 0
        BY <2>1 DEF IInv, Waiting
    <2> QED BY <1>1, <2>2
<1>4. Waiting' /\ OneActionPerFlow'
    BY <1>3 DEF IInv, Waiting, OneActionPerFlow, NoMoreWork
<1> QED BY <1>2, <1>4 DEF IInv, NoMoreWork

\* A step that goes back to the menu, which asks for nothing.
LEMMA Closes ==
    ASSUME IInv, NoMoreWork, flow' = Menu, UNCHANGED <<screens, commands>>,
           guard' \in {guard, "closed"}
    PROVE  IInv'
<1>1. Fields \subseteq DOMAIN Menu /\ Menu.kind = "menu" /\ Menu.id = 0 /\ ~Busy(Menu)
    BY DEF Menu, Fields, Busy, NoRequest
<1>2. Control'
    BY <1>1 DEF IInv, Control, Busy
<1>3. \A r \in Underway' : r.by \in 1 .. screens' /\ r.id # 0 /\ r.by # 0
    BY DEF IInv, Control, Waiting, NoMoreWork
<1>4. Waiting' /\ OneActionPerFlow'
    BY <1>1, <1>3 DEF IInv, Waiting, OneActionPerFlow, NoMoreWork
<1> QED BY <1>2, <1>4 DEF IInv, NoMoreWork

(***************************************************************************)
(* What is posted                                                          *)
(***************************************************************************)
LEMMA SignalPosted ==
    ASSUME IInv, NEW type \in Signals, Post(Signal(type)), UNCHANGED running PROVE SameWork
<1>0. PICK k : prompt' = prompt \cup {[n |-> k, type |-> Signal(type).type, req |-> Signal(type).req]}
    BY Zenon DEF Post
<1> DEFINE p == [n |-> k, type |-> Signal(type).type, req |-> Signal(type).req]
<1>1. prompt' = prompt \cup {p} /\ p.type = type
    BY <1>0 DEF Signal
<1> HIDE DEF p
<1>2. p.type # "request" /\ p.type \in Signals
    BY <1>1 DEF Signals
<1> QED BY <1>1, <1>2 DEF IInv, Posted, SameWork, Asked

\* The request of a flow that waits for nothing is a new one, and the flow then waits for it.
LEMMA RequestPosted ==
    ASSUME IInv, ~Busy(flow), flow.kind # "menu", NEW request, request.id # 0, request.by = flow.id,
           Post([type |-> "request", req |-> request]), UNCHANGED <<running, guard, screens>>,
           guard = "closed", commands' \in Nat,
           Fields \subseteq DOMAIN flow', flow'.kind = flow.kind, flow'.id = flow.id,
           flow'.req = request
    PROVE  Sound
<1> DEFINE asking == [type |-> "request", req |-> request]
<1>0. PICK k : prompt' = prompt \cup {[n |-> k, type |-> asking.type, req |-> asking.req]}
    BY Zenon DEF Post
<1> DEFINE p == [n |-> k, type |-> asking.type, req |-> asking.req]
<1>1. prompt' = prompt \cup {p} /\ p.type = "request" /\ p.req = request
    BY <1>0
<1> HIDE DEF asking, p
<1>2. Asked' = Asked \cup {p} /\ Posted'
    BY <1>1 DEF Asked, IInv, Posted
<1>3. Underway' = Underway \cup {request}
    BY <1>1, <1>2 DEF Underway
<1>4. \A r \in Underway : r.by # flow.id
    BY DEF IInv, Waiting, Busy, NoRequest
<1>5. \A r \in Underway : r # request
    BY <1>4
<1>6. (\A m \in Asked : m.req # request) /\ (\A a \in running : a.req # request)
    BY <1>5 DEF Underway
<1>7. OnePlace'
    BY <1>1, <1>2, <1>6 DEF IInv, OnePlace
<1>8. flow.id \in 1 .. screens
    BY DEF IInv, Control
<1>9. Waiting'
    BY <1>3, <1>4, <1>8 DEF IInv, Waiting
<1>10. OneActionPerFlow'
    BY <1>3, <1>4 DEF IInv, OneActionPerFlow
<1>11. Control'
    BY DEF IInv, Control
<1>12. Held
    BY DEF Held
<1> QED BY <1>2, <1>7, <1>9, <1>10, <1>11, <1>12 DEF IInv, Sound

(***************************************************************************)
(* What the operations on a flow leave alone                               *)
(***************************************************************************)
LEMMA PreparePlanAlters ==
    ASSUME Control, NEW fails
    PROVE  Alters(PreparePlan(flow, fails))
<1> DEFINE next == PreviewPlan(flow, fails)
           s == PreparePlan(flow, fails)
<1>1. /\ Fields \subseteq DOMAIN next
      /\ next.id = flow.id /\ next.kind = flow.kind /\ next.req = flow.req
    BY DEF Control, PreviewPlan, Fields
<1>2. s = [next EXCEPT !.restore = @ \cap Decisions(next),
                       !.step = IF Decisions(next) # {} THEN "conflicts" ELSE "review"]
    BY DEF PreparePlan
<1> HIDE DEF next, s
<1>3. Fields \subseteq DOMAIN s /\ s.id = next.id /\ s.kind = next.kind /\ s.req = next.req
    BY <1>1, <1>2 DEF Fields
<1> QED BY <1>1, <1>3 DEF Alters, s

LEMMA AssignAlters ==
    ASSUME Control, NEW agent, NEW ref
    PROVE  Alters(Assign(flow, agent, ref))
BY DEF Control, Assign, Alters, Fields

LEMMA LoadPickerAlters ==
    ASSUME Control, NEW fails
    PROVE  Alters(LoadPicker(flow, fails))
<1>1. /\ Fields \subseteq DOMAIN Preload(flow)
      /\ Preload(flow).id = flow.id /\ Preload(flow).kind = flow.kind /\ Preload(flow).req = flow.req
    BY DEF Control, Preload, Fields
<1>2. Alters([flow EXCEPT !.step = "assignments", !.err = TRUE])
    BY DEF Control, Alters, Fields
<1> QED BY <1>1, <1>2 DEF LoadPicker, Alters, Fields

LEMMA BlankIsFresh == ASSUME NEW kind PROVE Fresh(Blank(kind), kind)
BY DEF Blank, Menu, Fresh, Fields, Busy, NoRequest

LEMMA InstallIsFresh == ASSUME NEW kind, NEW fails PROVE Fresh(NewInstall(kind, fails), kind)
<1> DEFINE opened == [Blank(kind) EXCEPT !.configuring = home.installed, !.custom = home.installed]
           next == PreviewPlan(opened, fails)
           s == PreparePlan(opened, fails)
<1>1. Fresh(opened, kind)
    BY BlankIsFresh DEF Fresh, Fields, Busy
<1> HIDE DEF opened
<1>2. Fresh(next, kind)
    BY <1>1 DEF PreviewPlan, Fresh, Fields, Busy
<1>3. s = [next EXCEPT !.restore = @ \cap Decisions(next),
                       !.step = IF Decisions(next) # {} THEN "conflicts" ELSE "review"]
    BY DEF PreparePlan
<1> HIDE DEF next, s
<1>4. Fresh(s, kind)
    BY <1>2, <1>3 DEF Fresh, Fields, Busy
<1> QED BY <1>4 DEF NewInstall, opened, s

LEMMA NewScreenIsFresh ==
    ASSUME NEW kind \in {"install", "upgrade", "drift", "uninstall", "models", "diagnostics"}, NEW fails
    PROVE  Fresh(NewScreen(kind, fails), kind)
<1>1. CASE kind \in {"install", "upgrade"}
    BY <1>1, InstallIsFresh DEF NewScreen
<1>2. CASE kind = "drift"
    <2>1. NewScreen(kind, fails) = [Blank(kind) EXCEPT !.step = "report"]
        BY <1>2 DEF NewScreen, NewDrift
    <2> QED BY <2>1, BlankIsFresh DEF Fresh, Fields, Busy
<1>3. CASE kind = "uninstall"
    <2>1. NewScreen(kind, fails)
            = [Blank(kind) EXCEPT !.step = IF PreviewUninstall(fails) = {} THEN "engram" ELSE "modified",
                                  !.modified = PreviewUninstall(fails), !.err = fails]
        BY <1>3 DEF NewScreen, NewUninstall
    <2> QED BY <2>1, BlankIsFresh DEF Fresh, Fields, Busy
<1>4. CASE kind = "models"
    <2>1. Fresh(Preload(Blank(kind)), kind)
        BY BlankIsFresh DEF Preload, Fresh, Fields, Busy
    <2>2. Fresh([Blank(kind) EXCEPT !.step = "assignments", !.err = TRUE], kind)
        BY BlankIsFresh DEF Fresh, Fields, Busy
    <2>3. Fresh(LoadPicker(Blank(kind), fails), kind)
        BY <2>1, <2>2 DEF LoadPicker, Fresh, Fields, Busy
    <2> QED BY <1>4, <2>3 DEF NewScreen, NewModels
<1>5. CASE kind = "diagnostics"
    <2>1. NewScreen(kind, fails) = [Blank(kind) EXCEPT !.step = "collecting"]
        BY <1>5 DEF NewScreen, NewDiagnostics
    <2> QED BY <2>1, BlankIsFresh DEF Fresh, Fields, Busy
<1> QED BY <1>1, <1>2, <1>3, <1>4, <1>5

(***************************************************************************)
(* The keys                                                                *)
(***************************************************************************)
LEMMA FlowAlters == ASSUME IInv PROVE Alters(flow)
BY DEF IInv, Control, Alters

LEMMA EditKept ==
    ASSUME IInv, NEW s, Alters(s), Edit(s) PROVE Sound
<1>1. flow' = s /\ UNCHANGED <<guard, prompt, running, screens, commands>>
    BY DEF Edit, quiet
<1>2. NoMoreWork
    BY <1>1, PromptStays, SameWorkIsNoMore
<1> QED BY <1>1, <1>2, Stays DEF IInv, Control

LEMMA EmitKept ==
    ASSUME IInv, NEW type \in Signals, Emit(flow, Signal(type)) PROVE Sound
<1>1. UNCHANGED <<flow, guard, running, screens, commands>> /\ Post(Signal(type))
    BY DEF Emit, quiet
<1>2. NoMoreWork
    BY <1>1, SignalPosted, SameWorkIsNoMore
<1> QED BY <1>1, <1>2, FlowAlters, Stays DEF IInv, Control

LEMMA BackKept == ASSUME IInv, Back(flow) PROVE Sound
BY EmitKept DEF Back, Signals

\* A step that leaves the flow, the messages and the runs where they are.
LEMMA StillKept ==
    ASSUME IInv, UNCHANGED <<flow, guard, prompt, running, screens, commands>> PROVE Sound
<1>1. NoMoreWork
    BY PromptStays, SameWorkIsNoMore
<1> QED BY <1>1, FlowAlters, Stays DEF IInv, Control

LEMMA QuitKept == ASSUME IInv, Quit(flow) PROVE Sound
BY StillKept DEF Quit, quiet

LEMMA PanicsKept == ASSUME IInv, Panics PROVE Sound
BY StillKept DEF Panics

LEMMA StartKept ==
    ASSUME IInv, guard = "closed", ~Busy(flow), flow.kind # "menu",
           NEW action, NEW arg, Start(flow, action, arg)
    PROVE  Sound
<1> DEFINE request == [id |-> commands + 1, by |-> flow.id, action |-> action, arg |-> arg]
<1>1. /\ commands' = commands + 1 /\ flow' = [flow EXCEPT !.req = request, !.stop = FALSE]
      /\ Post([type |-> "request", req |-> request]) /\ UNCHANGED <<guard, running, screens>>
    BY DEF Start, quiet
<1>2. commands' \in Nat /\ request.id # 0 /\ request.by = flow.id
    BY <1>1 DEF IInv, Control
<1> HIDE DEF request
<1>3. /\ Fields \subseteq DOMAIN flow' /\ flow'.kind = flow.kind /\ flow'.req = request
      /\ flow'.id = flow.id
    BY <1>1 DEF IInv, Control, Fields
<1> QED BY <1>1, <1>2, <1>3, RequestPosted

\* A flow starts over, and asks for something to be read.
LEMMA AnewKept ==
    ASSUME IInv, NEW s, Alters(s), flow' = s, NEW type, Ask(type), UNCHANGED <<quiet, prompt, screens>>
    PROVE  Sound
<1>1. UNCHANGED <<guard, prompt, running>>
    BY DEF quiet
<1>2. commands' \in Nat
    BY DEF IInv, Control, Ask
<1>3. NoMoreWork
    BY <1>1, PromptStays, SameWorkIsNoMore
<1> QED BY <1>1, <1>2, <1>3, Stays DEF IInv, Control

(***************************************************************************)
(* The controller                                                          *)
(***************************************************************************)
\* Whatever flow is shown opens with nothing under way.
LEMMA ShowOpens ==
    ASSUME IInv, NEW kind \in {"install", "upgrade", "drift", "uninstall", "models", "diagnostics"},
           Show(kind), NoMoreWork, UNCHANGED guard
    PROVE  IInv' /\ flow'.kind = kind
<1>1. screens' = screens + 1
    BY DEF Show
<1>2. PICK fails \in BOOLEAN : flow' = NewScreen(kind, fails) /\ Ask(Reads(NewScreen(kind, fails)))
    BY DEF Show
<1>3. Fresh(flow', kind)
    BY <1>2, NewScreenIsFresh
<1>4. commands' \in Nat
    BY <1>2 DEF IInv, Control, Ask
<1>5. kind # "menu"
    OBVIOUS
<1> QED BY <1>1, <1>3, <1>4, <1>5, Opens DEF Fresh

LEMMA MenuOpensKept == ASSUME IInv, NEW kind \in Kinds, MenuOpens(kind) PROVE Sound
<1>1. flow.kind = "menu" /\ UNCHANGED <<guard, prompt, running>> /\ Show(kind)
    BY DEF MenuOpens, AtMenu, quiet
<1>2. NoMoreWork
    BY <1>1, PromptStays, SameWorkIsNoMore
<1>3. IInv'
    BY <1>1, <1>2, TUIAssumption, ShowOpens
<1>4. ~Busy(flow) /\ ~Dirty(flow)
    BY <1>1 DEF IInv, Control, Dirty
<1> QED BY <1>3, <1>4 DEF Sound, Held

LEMMA CancelKept == ASSUME IInv, Cancel PROVE Sound
<1>1. UNCHANGED <<guard, prompt, screens, commands>> /\ Alters(flow')
    BY DEF IInv, Control, Cancel, Alters, Fields
<1>2. NoMoreWork
    <2> DEFINE Told(a) == [a EXCEPT !.cancelled = @ \/ a.req.id = cancel]
    <2>1. running' = {Told(a) : a \in running}
        BY DEF Cancel
    <2>2. \A a \in running : {"req", "cancelled", "end"} \subseteq DOMAIN a
        BY DEF IInv, OnePlace
    <2>3. \A a \in running : DOMAIN Told(a) = DOMAIN a /\ Told(a).req = a.req
        BY <2>2
    <2> HIDE DEF Told
    <2>4. Asked' = Asked /\ Posted'
        BY <1>1 DEF Asked, IInv, Posted
    <2>5. Underway' \subseteq Underway
        BY <2>1, <2>3, <2>4 DEF Underway
    <2>6. OnePlace'
        BY <2>1, <2>2, <2>3, <2>4 DEF IInv, OnePlace
    <2> QED BY <2>4, <2>5, <2>6 DEF NoMoreWork
<1> QED BY <1>1, <1>2, Stays DEF IInv, Control

\* Leaving, by a key or by a message.
LEMMA LeaveKept ==
    ASSUME IInv, NEW quit \in BOOLEAN, Leave(quit), NoMoreWork, UNCHANGED <<screens, commands>>
    PROVE  Sound
<1>0. commands' \in Nat
    BY DEF IInv, Control
<1>1. CASE Busy(flow) /\ UNCHANGED <<flow, guard, late>>
    BY <1>0, <1>1, FlowAlters, Stays DEF IInv, Control
<1>2. CASE ~Busy(flow) /\ Dirty(flow) /\ UNCHANGED flow /\ guard' \in {guard, "back", "quit"}
    BY <1>0, <1>2, FlowAlters, Stays DEF IInv, Control
<1>3. CASE ~Busy(flow) /\ ~Dirty(flow) /\ Discard(quit) /\ UNCHANGED guard
    <2>1. CASE quit
        BY <1>0, <1>3, <2>1, FlowAlters, Stays DEF Discard, IInv, Control
    <2>2. CASE ~quit
        BY <1>3, <2>2, Closes DEF Discard, Sound, Held
    <2> QED BY <2>1, <2>2
<1> QED BY <1>1, <1>2, <1>3 DEF Leave

LEMMA LeaveKeyKept == ASSUME IInv, NEW quit \in BOOLEAN, LeaveKey(quit) PROVE Sound
<1>1. Leave(quit) /\ UNCHANGED <<prompt, running, screens, commands>>
    BY DEF LeaveKey
<1> QED BY <1>1, PromptStays, SameWorkIsNoMore, LeaveKept

LEMMA GuardKept == ASSUME IInv, GuardKeeps \/ GuardDiscards PROVE Sound
<1>1. /\ guard # "closed" /\ guard' = "closed" /\ UNCHANGED <<prompt, running, screens, commands>>
      /\ flow' = flow \/ (flow' = Menu /\ guard # "quit")
    BY DEF GuardKeeps, GuardDiscards, Discard
<1>2. ~Busy(flow) /\ (guard # "quit" => guard = "back") /\ commands' \in Nat
    BY <1>1 DEF IInv, Control
<1>3. NoMoreWork
    BY <1>1, PromptStays, SameWorkIsNoMore
<1>4. CASE flow' = flow
    BY <1>1, <1>2, <1>3, <1>4, FlowAlters, Stays
<1>5. CASE flow' = Menu /\ guard # "quit"
    BY <1>1, <1>2, <1>3, <1>5, Closes DEF Sound, Held
<1> QED BY <1>1, <1>4, <1>5

LEMMA ControllerKept == ASSUME IInv, Controller PROVE Sound
<1>1. ASSUME MenuQuits PROVE Sound
    BY <1>1, QuitKept DEF MenuQuits
<1> QED BY <1>1, MenuOpensKept, CancelKept, GuardKept, LeaveKeyKept DEF Controller

(***************************************************************************)
(* The flows                                                               *)
(***************************************************************************)
LEMMA OnHolds ==
    ASSUME NEW kinds, NEW steps, On(kinds, steps)
    PROVE  guard = "closed" /\ ~Busy(flow) /\ flow.kind \in kinds /\ flow.step \in steps
BY DEF On

\* A flow that is not the menu starts an action.
LEMMA OnStartKept ==
    ASSUME IInv, NEW kinds, NEW steps, On(kinds, steps), "menu" \notin kinds,
           NEW action, NEW arg, Start(flow, action, arg)
    PROVE  Sound
BY OnHolds, StartKept

LEMMA InstallChoosesKept ==
    ASSUME IInv, NEW f, NEW replace, InstallChooses(f, replace) PROVE Sound
<1> DEFINE chosen == Choose(flow, f, replace)
           s == IF \A g \in Decisions(flow) : g <= f THEN ConflictsConfirm(chosen) ELSE chosen
<1>1. On(Installs, {"conflicts"}) /\ Edit(s)
    BY DEF InstallChooses, OnInstall
<1>2. Alters(chosen)
    BY DEF IInv, Control, Choose, Alters, Fields
<1> HIDE DEF chosen
<1>3. Alters(ConflictsConfirm(chosen))
    BY <1>2 DEF ConflictsConfirm, Alters, Fields
<1>4. Alters(s)
    BY <1>2, <1>3
<1> HIDE DEF s
<1> QED BY <1>1, <1>4, EditKept

LEMMA InstallPreparesKept == ASSUME IInv, InstallPrepares(flow) PROVE Sound
<1>1. PICK fails \in BOOLEAN : Edit(PreparePlan(flow, fails))
    BY DEF InstallPrepares
<1>2. Alters(PreparePlan(flow, fails))
    BY PreparePlanAlters DEF IInv
<1> QED BY <1>1, <1>2, EditKept

LEMMA InstallEndsKept == ASSUME IInv, InstallEnds PROVE Sound
<1>1. PICK action \in ResultActions(flow) :
         CASE action = "again"  -> InstallPrepares(flow)
           [] action = "assign" -> Emit(flow, Signal("openModels"))
           [] action = "menu"   -> Back(flow)
           [] action = "quit"   -> Quit(flow)
    BY DEF InstallEnds
<1>2. action \in {"again", "assign", "menu", "quit"}
    BY DEF ResultActions
<1>3. \/ InstallPrepares(flow) \/ Emit(flow, Signal("openModels")) \/ Back(flow) \/ Quit(flow)
    BY <1>1, <1>2
<1>4. "openModels" \in Signals
    BY DEF Signals
<1> QED BY <1>3, <1>4, InstallPreparesKept, EmitKept, BackKept, QuitKept

LEMMA InstallStartsKept == ASSUME IInv, InstallStarts PROVE Sound
<1>1. On(Installs, {"review"})
    BY DEF InstallStarts, OnInstall
<1>2. PICK arg : Start(flow, "install", arg)
    BY DEF InstallStarts
<1> QED BY <1>1, <1>2, OnStartKept DEF Installs

LEMMA InstallKept ==
    ASSUME IInv,
           \/ InstallLeavesConflicts \/ InstallToggles \/ InstallLeavesComponents
           \/ InstallPersonalizes \/ InstallRetries \/ InstallLeavesReview
    PROVE  Sound
<1>1. /\ Alters([flow EXCEPT !.step = "components"])
      /\ Alters([flow EXCEPT !.picked = ~@])
      /\ Alters([flow EXCEPT !.custom = TRUE, !.step = "components"])
      /\ Alters([flow EXCEPT !.step = "conflicts"])
    BY DEF IInv, Control, Alters, Fields
<1>2. CASE InstallLeavesConflicts
    BY <1>1, <1>2, EditKept, BackKept DEF InstallLeavesConflicts, OnInstall
<1>3. CASE InstallToggles
    BY <1>1, <1>3, EditKept DEF InstallToggles, OnInstall
<1>4. CASE InstallPersonalizes
    BY <1>1, <1>4, EditKept DEF InstallPersonalizes, OnInstall
<1>5. CASE InstallLeavesReview
    BY <1>1, <1>5, EditKept, BackKept DEF InstallLeavesReview, OnInstall
<1>6. CASE InstallLeavesComponents \/ InstallRetries
    BY <1>6, InstallPreparesKept DEF InstallLeavesComponents, InstallRetries
<1> QED BY <1>2, <1>3, <1>4, <1>5, <1>6

LEMMA DriftReportsKept == ASSUME IInv, DriftReports PROVE Sound
<1>1. PICK action \in ReportActions(flow) :
         CASE action = "menu"    -> Back(flow)
           [] action = "upgrade" -> Emit(flow, Signal("openUpgrade"))
           [] action = "select"  -> Edit([flow EXCEPT !.step = "select"])
    BY DEF DriftReports
<1>2. action \in {"menu", "upgrade", "select"}
    BY DEF ReportActions
<1>3. \/ Back(flow) \/ Emit(flow, Signal("openUpgrade")) \/ Edit([flow EXCEPT !.step = "select"])
    BY <1>1, <1>2
<1>4. Alters([flow EXCEPT !.step = "select"]) /\ "openUpgrade" \in Signals
    BY DEF IInv, Control, Alters, Fields, Signals
<1> QED BY <1>3, <1>4, BackKept, EmitKept, EditKept

LEMMA DriftSelectsKept == ASSUME IInv, DriftSelects PROVE Sound
<1>1. On({"drift"}, {"select"})
    BY DEF DriftSelects, OnDrift
<1>2. ASSUME DriftMoves PROVE Sound
    <2>1. PICK n : Edit([flow EXCEPT !.cursor = n])
        BY <1>2 DEF DriftMoves
    <2>2. Alters([flow EXCEPT !.cursor = n])
        BY DEF IInv, Control, Alters, Fields
    <2> QED BY <1>1, <2>1, <2>2, EditKept
<1>3. ASSUME DriftToggles PROVE Sound
    <2>1. CASE Panics
        BY <1>1, <2>1, OnHolds, PanicsKept
    <2>2. CASE ~Panics
        <3>1. PICK S : Edit([flow EXCEPT !.selected = S])
            BY <1>3, <2>2 DEF DriftToggles
        <3>2. Alters([flow EXCEPT !.selected = S])
            BY DEF IInv, Control, Alters, Fields
        <3> QED BY <1>1, <3>1, <3>2, EditKept
    <2> QED BY <2>1, <2>2
<1>4. ASSUME NEW step, Edit([flow EXCEPT !.step = step]) PROVE Sound
    <2>1. Alters([flow EXCEPT !.step = step])
        BY DEF IInv, Control, Alters, Fields
    <2> QED BY <1>1, <1>4, <2>1, EditKept
<1>5. Edit([flow EXCEPT !.step = IF flow.selected = {} THEN @ ELSE "review"]) =>
        \E step : Edit([flow EXCEPT !.step = step])
    OBVIOUS
<1> QED BY <1>2, <1>3, <1>4, <1>5 DEF DriftSelects

LEMMA DriftRunKept == ASSUME IInv, DriftReviews \/ DriftEnds PROVE Sound
<1>1. CASE DriftReviews
    <2>1. Alters([flow EXCEPT !.step = "select"])
        BY DEF IInv, Control, Alters, Fields
    <2>2. On({"drift"}, {"review"})
        BY <1>1 DEF DriftReviews, OnDrift
    <2> QED BY <1>1, <2>1, <2>2, EditKept, OnStartKept DEF DriftReviews
<1>2. CASE DriftEnds
    <2> DEFINE s == [flow EXCEPT !.result = NotRead, !.selected = {}, !.cursor = 1, !.step = "report"]
    <2>1. Alters(s)
        BY DEF IInv, Control, Alters, Fields
    <2>2. Back(flow) \/ (Ask("scan") /\ flow' = s /\ UNCHANGED <<quiet, prompt, screens>>)
        BY <1>2 DEF DriftEnds
    <2> HIDE DEF s
    <2> QED BY <2>1, <2>2, BackKept, AnewKept
<1> QED BY <1>1, <1>2

LEMMA UninstallKept ==
    ASSUME IInv,
           \/ \E f \in Files, yes \in BOOLEAN : UninstallDecides(f, yes)
           \/ \E answer \in {"leave", "remove"} : UninstallAnswers(answer)
           \/ UninstallGoesBack \/ UninstallStarts \/ UninstallEnds
    PROVE  Sound
<1>1. ASSUME NEW f, NEW keep, UninstallDecides(f, keep) PROVE Sound
    <2> DEFINE next == [flow EXCEPT !.keep = IF keep THEN @ \cup {f} ELSE @ \ {f},
                                    !.drop = IF keep THEN @ \ {f} ELSE @ \cup {f}]
               s == [next EXCEPT !.step = IF flow.modified \subseteq Decided(next) THEN "engram" ELSE @]
    <2>1. On({"uninstall"}, {"modified"}) /\ Edit(s)
        BY <1>1 DEF UninstallDecides, OnUninstall
    <2>2. Alters(next)
        BY DEF IInv, Control, Alters, Fields
    <2> HIDE DEF next
    <2>3. Alters(s)
        BY <2>2 DEF Alters, Fields
    <2> HIDE DEF s
    <2> QED BY <2>1, <2>3, EditKept
<1>2. ASSUME NEW answer, UninstallAnswers(answer) PROVE Sound
    <2> DEFINE s == [flow EXCEPT !.engram = answer, !.step = IF flow.err THEN @ ELSE "review"]
    <2>1. On({"uninstall"}, {"engram"}) /\ Edit(s)
        BY <1>2 DEF UninstallAnswers, OnUninstall
    <2>2. Alters(s)
        BY DEF IInv, Control, Alters, Fields
    <2> HIDE DEF s
    <2> QED BY <2>1, <2>2, EditKept
<1>3. CASE UninstallGoesBack
    <2>1. ASSUME NEW step PROVE Alters([flow EXCEPT !.step = step])
        BY DEF IInv, Control, Alters, Fields
    <2>2. PICK step : /\ On({"uninstall"}, {"modified", "engram", "review"})
                      /\ Back(flow) \/ Edit([flow EXCEPT !.step = step])
        BY <1>3 DEF UninstallGoesBack, OnUninstall, On
    <2> QED BY <2>1, <2>2, EditKept, BackKept
<1>4. CASE UninstallStarts
    BY <1>4, OnStartKept DEF UninstallStarts, OnUninstall
<1>5. CASE UninstallEnds
    BY <1>5, BackKept, QuitKept DEF UninstallEnds
<1> QED BY <1>1, <1>2, <1>3, <1>4, <1>5

LEMMA PickerKept ==
    ASSUME IInv,
           \/ \E agent \in Agents \cup {AllAgents} : PickerOpens(agent) \/ PickerResets(agent)
           \/ PickerMoves \/ PickerChooses \/ PickerLeaves
    PROVE  Sound
<1>1. ASSUME NEW agent, PickerOpens(agent) PROVE Sound
    <2> DEFINE next == [flow EXCEPT !.agent = agent, !.step = "choosing"]
               ref  == Current(next)
               s == [next EXCEPT !.at = IF ref \in flow.available
                                        THEN Cardinality({r \in flow.available : r <= ref}) ELSE 1]
    <2>1. On({"models"}, {"assignments"}) /\ Edit(s)
        BY <1>1 DEF PickerOpens, OnModels
    <2>2. Alters(next)
        BY DEF IInv, Control, Alters, Fields
    <2> HIDE DEF next, ref
    <2>3. Alters(s)
        BY <2>2 DEF Alters, Fields
    <2> HIDE DEF s
    <2> QED BY <2>1, <2>3, EditKept
<1>2. ASSUME NEW agent, PickerResets(agent) PROVE Sound
    <2>1. On({"models"}, {"assignments"}) /\ Edit(Assign(flow, agent, NoModel))
        BY <1>2 DEF PickerResets, OnModels
    <2>2. Alters(Assign(flow, agent, NoModel))
        BY AssignAlters DEF IInv
    <2> QED BY <2>1, <2>2, EditKept
<1>3. CASE PickerMoves
    <2>1. On({"models"}, {"choosing"})
        BY <1>3 DEF PickerMoves, OnModels
    <2>2. PICK n : Edit([flow EXCEPT !.at = n])
        BY <1>3 DEF PickerMoves
    <2>3. Alters([flow EXCEPT !.at = n])
        BY DEF IInv, Control, Alters, Fields
    <2> QED BY <2>1, <2>2, <2>3, EditKept
<1>4. CASE PickerChooses
    <2> DEFINE next == Assign(flow, flow.agent, Nth(flow.available, flow.at))
               s == [next EXCEPT !.step = "assignments"]
    <2>1. On({"models"}, {"choosing"}) /\ (Panics \/ Edit(s))
        BY <1>4 DEF PickerChooses, OnModels
    <2>2. Alters(next)
        BY AssignAlters DEF IInv
    <2> HIDE DEF next
    <2>3. Alters(s)
        BY <2>2 DEF Alters, Fields
    <2> HIDE DEF s
    <2> QED BY <2>1, <2>3, EditKept, OnHolds, PanicsKept
<1>5. CASE PickerLeaves
    <2>1. Alters([flow EXCEPT !.step = "assignments"])
        BY DEF IInv, Control, Alters, Fields
    <2>2. /\ On({"models"}, {"choosing"}) \/ On({"models"}, {"assignments"})
          /\ Back(flow) \/ Edit([flow EXCEPT !.step = "assignments"])
        BY <1>5 DEF PickerLeaves, OnModels
    <2> QED BY <2>1, <2>2, EditKept, BackKept
<1> QED BY <1>1, <1>2, <1>3, <1>4, <1>5

LEMMA ModelsRunKept == ASSUME IInv, ModelsStarts \/ ModelsEnds \/ PickerUnavailable PROVE Sound
<1>1. CASE ModelsStarts
    BY <1>1, OnStartKept DEF ModelsStarts, OnModels
<1>2. CASE ModelsEnds
    <2>1. ASSUME Ask("models"), NEW fails, flow' = LoadPicker(flow, fails),
                 UNCHANGED <<quiet, prompt, screens>>
          PROVE  Sound
        BY <2>1, LoadPickerAlters, AnewKept DEF IInv
    <2> QED BY <1>2, <2>1, BackKept DEF ModelsEnds
<1>3. CASE PickerUnavailable
    BY <1>3, BackKept DEF PickerUnavailable
<1> QED BY <1>1, <1>2, <1>3

LEMMA DiagnosticsKept == ASSUME IInv, DiagnosticsKey PROVE Sound
<1>1. "openRepair" \in Signals
    BY DEF Signals
<1> QED BY <1>1, BackKept, EmitKept DEF DiagnosticsKey

LEMMA FlowsKept == ASSUME IInv, Flows PROVE Sound
BY InstallChoosesKept, InstallKept, InstallStartsKept, InstallEndsKept,
   DriftReportsKept, DriftSelectsKept, DriftRunKept, UninstallKept, PickerKept, ModelsRunKept,
   DiagnosticsKept DEF Flows

(***************************************************************************)
(* The messages                                                            *)
(***************************************************************************)
\* A message that was delivered is on its way no more.
LEMMA Delivered ==
    ASSUME IInv, NEW m \in prompt, prompt' = prompt \ {m}
    PROVE  Asked' \subseteq Asked /\ Posted' /\ (UNCHANGED running => NoMoreWork)
<1>1. Asked' \subseteq Asked /\ Posted'
    BY DEF Asked, IInv, Posted
<1>2. UNCHANGED running => Underway' \subseteq Underway
    BY <1>1 DEF Underway
<1>3. UNCHANGED running => OnePlace'
    BY <1>1 DEF IInv, OnePlace
<1> QED BY <1>1, <1>2, <1>3 DEF NoMoreWork

\* A jump, where it finds a flow of the kind that posts it.
LEMMA JumpKept ==
    ASSUME IInv, NEW m \in prompt, prompt' = prompt \ {m}, UNCHANGED running,
           NEW from, NEW kind \in {"install", "upgrade", "models"}, Replace(from, kind),
           flow.kind \in from /\ flow'.kind = kind => Jumped
    PROVE  Sound
<1>1. NoMoreWork
    BY Delivered
<1>2. CASE flow.kind \in from
    <2>1. Show(kind) /\ UNCHANGED guard
        BY <1>2 DEF Replace
    <2>2. IInv' /\ flow'.kind = kind
        BY <1>1, <2>1, ShowOpens
    <2> QED BY <1>2, <2>2 DEF Sound, Held
<1>3. CASE flow.kind \notin from
    BY <1>1, <1>3, FlowAlters, Stays DEF Replace, IInv, Control
<1> QED BY <1>2, <1>3

\* A request that is handed over was on its way, and is so no more.
LEMMA RequestDelivered ==
    ASSUME IInv, NEW m \in prompt, prompt' = prompt \ {m}, m.type = "request",
           UpdateRequest(m.req), UNCHANGED <<flow, guard, screens, commands>>
    PROVE  Sound
<1> DEFINE b == [req |-> m.req, cancelled |-> FALSE, end |-> "no"]
<1>1. running' = running \cup {b}
    BY DEF UpdateRequest
<1>2. b.req = m.req /\ {"req", "cancelled", "end"} \subseteq DOMAIN b
    OBVIOUS
<1> HIDE DEF b
<1>3. m \in Asked /\ Asked' = Asked \ {m} /\ Posted'
    BY Delivered DEF Asked
<1>4. Underway' \subseteq Underway
    BY <1>1, <1>2, <1>3 DEF Underway
<1>5. \A n \in Asked' : n.req # m.req
    BY <1>3 DEF IInv, OnePlace
<1>6. \A a \in running : a.req # m.req
    BY <1>3 DEF IInv, OnePlace
<1>7. OnePlace'
    BY <1>1, <1>2, <1>3, <1>5, <1>6 DEF IInv, OnePlace
<1>8. NoMoreWork
    BY <1>3, <1>4, <1>7 DEF NoMoreWork
<1> QED BY <1>8, FlowAlters, Stays DEF IInv, Control

LEMMA DeliverPromptKept == ASSUME IInv, NEW m \in prompt, DeliverPrompt(m) PROVE Sound
<1>1. /\ prompt' = prompt \ {m} /\ m \in prompt \ prompt'
      /\ m.type \in Signals \cup {"request"}
    BY DEF DeliverPrompt, IInv, Posted
<1>2. CASE m.type = "back"
    <2>1. Leave(FALSE) /\ UNCHANGED <<running, screens, commands>>
        BY <1>2 DEF DeliverPrompt
    <2> QED BY <1>1, <2>1, Delivered, LeaveKept
<1>3. CASE m.type = "openModels"
    <2>1. Replace(Installs, "models") /\ UNCHANGED running
        BY <1>3 DEF DeliverPrompt
    <2>2. flow.kind \in Installs /\ flow'.kind = "models" => Jumped
        BY <1>1, <1>3 DEF Jumped
    <2> QED BY <1>1, <2>1, <2>2, JumpKept
<1>4. CASE m.type = "openRepair"
    <2>1. Replace({"diagnostics"}, "install") /\ UNCHANGED running
        BY <1>4 DEF DeliverPrompt
    <2>2. flow.kind \in {"diagnostics"} /\ flow'.kind = "install" => Jumped
        BY <1>1, <1>4 DEF Jumped
    <2> QED BY <1>1, <2>1, <2>2, JumpKept
<1>5. CASE m.type = "openUpgrade"
    <2>1. Replace({"drift"}, "upgrade") /\ UNCHANGED running
        BY <1>5 DEF DeliverPrompt
    <2>2. flow.kind \in {"drift"} /\ flow'.kind = "upgrade" => Jumped
        BY <1>1, <1>5 DEF Jumped
    <2> QED BY <1>1, <2>1, <2>2, JumpKept
<1>6. CASE m.type = "request"
    <2>1. UpdateRequest(m.req) /\ UNCHANGED <<flow, guard, screens, commands>>
        BY <1>6 DEF DeliverPrompt
    <2> QED BY <1>1, <1>6, <2>1, RequestDelivered
<1> QED BY <1>1, <1>2, <1>3, <1>4, <1>5, <1>6 DEF Signals

\* A flow that takes a result waits for nothing, and nothing it asked for is under way.
LEMMA Answered ==
    ASSUME IInv, NEW a \in running, running' = running \ {a}, a.req = flow.req,
           UNCHANGED <<guard, prompt, screens, commands>>,
           Fields \subseteq DOMAIN flow', flow'.id = flow.id, flow'.kind = flow.kind,
           ~Busy(flow)'
    PROVE  Sound
<1>1. Asked' = Asked /\ Posted'
    BY DEF Asked, IInv, Posted
<1>2. OnePlace'
    BY <1>1 DEF IInv, OnePlace
<1>3. \A r \in Underway' : r \in Underway /\ r # a.req
    BY <1>1 DEF Underway, IInv, OnePlace
<1>4. \A r \in Underway' : r.by # flow.id
    BY <1>3 DEF IInv, Waiting
<1>5. Waiting' /\ OneActionPerFlow'
    BY <1>3, <1>4 DEF IInv, Waiting, OneActionPerFlow
<1>6. Control'
    BY DEF IInv, Control
<1>7. Held
    BY DEF Held
<1> QED BY <1>1, <1>2, <1>5, <1>6, <1>7 DEF IInv, Sound

LEMMA ShowResultAlters ==
    ASSUME Control, NEW a
    PROVE  LET s == ShowResult(flow, a)
           IN Fields \subseteq DOMAIN s /\ s.id = flow.id /\ s.kind = flow.kind /\ s.req = NoRequest
<1> DEFINE next == [flow EXCEPT !.req = NoRequest, !.stop = FALSE, !.step = "result", !.outcome = a.end]
           s == ShowResult(flow, a)
<1>1. Fields \subseteq DOMAIN next /\ next.id = flow.id /\ next.kind = flow.kind /\ next.req = NoRequest
    BY DEF Control, Fields
<1>2. s \in {next, [next EXCEPT !.keep = {}, !.drop = {}, !.engram = "leave"]}
    BY DEF ShowResult
<1> HIDE DEF next, s
<1>3. Fields \subseteq DOMAIN s /\ s.id = flow.id /\ s.kind = flow.kind /\ s.req = NoRequest
    BY <1>1, <1>2 DEF Fields
<1> QED BY <1>3 DEF s

\* A result answers the flow that waits for it, or finds another one on the stack.
LEMMA DeliverResultKept == ASSUME IInv, NEW a \in running, DeliverResult(a) PROVE Sound
<1>1. running' = running \ {a} /\ UNCHANGED <<guard, prompt, screens, commands>>
    BY DEF DeliverResult
<1>2. CASE Accepts(flow, a)
    <2>1. flow' = ShowResult(flow, a) /\ a.req = flow.req
        BY <1>2 DEF DeliverResult, Accepts
    <2>2. /\ Fields \subseteq DOMAIN flow' /\ flow'.id = flow.id /\ flow'.kind = flow.kind
          /\ flow'.req = NoRequest
        BY <2>1, ShowResultAlters DEF IInv
    <2>3. ~Busy(flow)'
        BY <2>2 DEF Busy
    <2> QED BY <1>1, <2>1, <2>2, <2>3, Answered
<1>3. CASE ~Accepts(flow, a)
    <2>1. UNCHANGED flow
        BY <1>3 DEF DeliverResult
    <2>2. Asked' = Asked /\ Posted'
        BY <1>1 DEF Asked, IInv, Posted
    <2>3. Underway' \subseteq Underway
        BY <1>1, <2>2 DEF Underway
    <2>4. OnePlace'
        BY <1>1, <2>2 DEF IInv, OnePlace
    <2>5. NoMoreWork
        BY <2>2, <2>3, <2>4 DEF NoMoreWork
    <2> QED BY <1>1, <2>1, <2>5, FlowAlters, Stays DEF IInv, Control
<1> QED BY <1>2, <1>3

LEMMA DeliverLateKept == ASSUME IInv, NEW c, DeliverLate(c) PROVE Sound
<1>1. UNCHANGED <<guard, prompt, running, screens, commands>>
    BY DEF DeliverLate
<1>2. flow' \in {flow, ShowScan(flow, c.read), ModelsLoaded(flow, c.read), ShowReport(flow, c.read)}
    BY DEF DeliverLate
<1>3. Alters(flow')
    BY <1>2 DEF IInv, Control, Alters, Fields, ShowScan, ModelsLoaded, ShowReport
<1>4. NoMoreWork
    BY <1>1, PromptStays, SameWorkIsNoMore
<1> QED BY <1>1, <1>3, <1>4, Stays DEF IInv, Control

LEMMA ExecuteActionKept == ASSUME IInv, NEW a \in running, ExecuteAction(a) PROVE Sound
<1>1. UNCHANGED <<flow, guard, prompt, screens, commands>>
    BY DEF ExecuteAction
<1>2. PICK end : running' = (running \ {a}) \cup {[a EXCEPT !.end = end]}
    BY DEF ExecuteAction
<1> DEFINE b == [a EXCEPT !.end = end]
<1>3. DOMAIN b = DOMAIN a /\ b.req = a.req
    BY DEF IInv, OnePlace
<1>4. running' = (running \ {a}) \cup {b}
    BY <1>2
<1> HIDE DEF b
<1>5. Asked' = Asked /\ Posted'
    BY <1>1 DEF Asked, IInv, Posted
<1>6. Underway' \subseteq Underway
    BY <1>3, <1>4, <1>5 DEF Underway
<1>7. OnePlace'
    BY <1>3, <1>4, <1>5 DEF IInv, OnePlace
<1>8. NoMoreWork
    BY <1>5, <1>6, <1>7 DEF NoMoreWork
<1> QED BY <1>1, <1>8, FlowAlters, Stays DEF IInv, Control

LEMMA NextKept == IInv /\ [Next]_vars => Sound
<1> SUFFICES ASSUME IInv, [Next]_vars PROVE Sound
    OBVIOUS
<1>1. CASE UNCHANGED vars
    BY <1>1, StillKept DEF vars
<1>2. ASSUME NEW c, CommandReads(c) PROVE Sound
    BY <1>2, StillKept DEF CommandReads
<1>3. ASSUME NEW f, UserEdits(f) PROVE Sound
    BY <1>3, StillKept DEF UserEdits
<1>4. CASE Messages
    BY <1>2, <1>4, DeliverPromptKept, DeliverLateKept, DeliverResultKept DEF Messages
<1> QED BY <1>1, <1>3, <1>4, ControllerKept, FlowsKept, ExecuteActionKept DEF Next

LEMMA InitHolds == Init => IInv
<1> SUFFICES ASSUME Init PROVE IInv
    OBVIOUS
<1>1. /\ flow = Menu /\ guard = "closed" /\ prompt = {} /\ running = {}
      /\ commands = 0 /\ screens = 0
    BY DEF Init
<1>2. Fields \subseteq DOMAIN Menu /\ ~Busy(Menu) /\ Menu.kind = "menu" /\ Menu.id = 0
    BY DEF Menu, Fields, Busy, NoRequest
<1>3. Asked = {} /\ Underway = {}
    BY <1>1 DEF Asked, Underway
<1> QED BY <1>1, <1>2, <1>3 DEF IInv, Control, Posted, Waiting, OneActionPerFlow, OnePlace

\* An action that is under way is so in one place, asked for by a flow that was opened, and
\* that flow waits for it while it is on the stack; the guard never opens over it (tui.go
\* dispatch, leave, updateAction; runtime/run.go Run.Start, Run.Result).
THEOREM FlowsWaitForTheirActions == Spec => []IInv
<1>1. IInv /\ [Next]_vars => IInv'
    BY NextKept DEF Sound
<1> QED BY <1>1, InitHolds, PTL DEF Spec

\* A flow has one action under way at most, however keys, messages, cancellation and results
\* are ordered (runtime/run.go Busy, Run.Result; tui.go updateAction, which hands a request over
\* without looking for another).
THEOREM FlowsAskOnce == Spec => []OneActionPerFlow
BY FlowsWaitForTheirActions, PTL DEF IInv

\* Neither a key nor a Back that comes late takes away the flow that waits for its action, nor
\* one that holds changes nobody applied; a jump does (tui.go leave, routeTransitions).
THEOREM DraftsAreHeld == Spec => HeldUntilConsent
<1>1. IInv /\ [Next]_vars => [Held]_vars
    BY NextKept DEF Sound
<1> QED BY <1>1, FlowsWaitForTheirActions, PTL DEF Spec, HeldUntilConsent, Held
=============================================================================
