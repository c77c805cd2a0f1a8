------------------------------ MODULE GCCycle ------------------------------
(***************************************************************************)
(* A maintenance cycle (package gc, cli/gc_coordinate.go, and the yield of  *)
(* cli/dispatch.go): declared while the session is idle, driven by two      *)
(* native lanes through its phases, and closed as applied, without change,  *)
(* or unwound.  Its state lies in three stores saved one after the other:   *)
(* the coordinator blob and the claims of the vfs store, the execution      *)
(* history, and the workspace files.  One command runs at a time; it may    *)
(* end between any two of its saves.                                        *)
(***************************************************************************)
EXTENDS Naturals, FiniteSets

CONSTANTS
    Units,              \* ordinary work units of the root session
    MaxCycles,          \* bound: cycle identities ever drawn
    UnitsPerCycle,      \* trigger policy: admissions that alone make a cycle due
    MutationsPerCycle,  \* trigger policy: mutations that alone make a cycle due
    MaxDeferrals,       \* trigger policy: deferrals before a due cycle is dropped
    MaxRevision,        \* bound: writes of one collector
    StartFails,         \* whether declaring a due cycle may fail: a set of booleans
    MaxStops            \* bound: commands that end early

ASSUME GCAssumption ==
    /\ {MaxCycles, UnitsPerCycle, MutationsPerCycle, MaxDeferrals, MaxRevision, MaxStops} \subseteq Nat
    /\ UnitsPerCycle > 0 /\ MutationsPerCycle > 0 /\ MaxDeferrals > 0
    /\ StartFails \subseteq BOOLEAN

VARIABLES
    coordinator,   \* the saved coordinator blob
    pace,          \* what the journal and the history hold since the last closure
    units,         \* state of each ordinary unit in the history
    pending,       \* units with ordinary staged work not consolidated yet
    lanes,         \* per cycle and role, the lane's execution in the history
    activity,      \* per cycle, its maintenance activity in the history
    store,         \* per cycle, its claims, staged delta, verdict and retained rollback
    disk,          \* per cycle, the revision of its delta on disk, and whether it was edited since
    command,       \* the command under way: next save, coordinator in memory, what it is for
    missed,        \* how often in a row the barrier held a due cycle
    stops

vars == <<coordinator, pace, units, pending, lanes, activity, store, disk, command, missed, stops>>

-----------------------------------------------------------------------------
(* Types *)

Cycles  == 1 .. MaxCycles
NoCycle == 0
NoUnit  == "no unit"
Roles   == {"collector", "verifier"}
Phases  == {"none", "baseline", "investigate", "collect", "verify", "consolidating",
            "acceptance", "aborting", "blocked"}
Fates   == {"open", "applied", "no-change", "aborted", "preserved"}

Coordinator == [cycle : Cycles \cup {NoCycle}, phase : Phases, baseline : BOOLEAN,
                finding : {"none", "open", "confirmed", "refuted"}, requested : BOOLEAN,
                deferrals : 0 .. MaxDeferrals, fresh : BOOLEAN, fate : [Cycles -> Fates]]
Store       == [claimed : BOOLEAN, revision : 0 .. MaxRevision, judged : 0 .. MaxRevision,
                verdict : {"none", "pass", "fail"}, verified : 0 .. MaxRevision, kept : {"none", "open", "complete"},
                preserved : BOOLEAN]
Command     == [at : {"idle", "start", "discard", "drop", "settle", "admit", "intent",
                      "consolidate", "save", "release"},
                id : Cycles \cup {NoCycle}, mem : Coordinator, unit : Units \cup {NoUnit}, approved : BOOLEAN,
                reason : {"none", "aborted", "applied", "no-change"}]

NewCoordinator ==
    [cycle |-> NoCycle, phase |-> "none", baseline |-> FALSE, finding |-> "none", requested |-> FALSE,
     deferrals |-> 0, fresh |-> FALSE, fate |-> [c \in Cycles |-> "open"]]
NoStore == [claimed |-> FALSE, revision |-> 0, judged |-> 0, verdict |-> "none", verified |-> 0,
            kept |-> "none", preserved |-> FALSE]
Idle    == [at |-> "idle", id |-> NoCycle, mem |-> NewCoordinator, unit |-> NoUnit, approved |-> FALSE,
            reason |-> "none"]
Clean   == [revision |-> 0, edited |-> FALSE]

Init ==
    /\ coordinator = NewCoordinator
    /\ pace = [units |-> 0, mutations |-> 0]
    /\ units = [u \in Units |-> "none"]
    /\ pending = {}
    /\ lanes = [c \in Cycles |-> [r \in Roles |-> "none"]]
    /\ activity = [c \in Cycles |-> "none"]
    /\ store = [c \in Cycles |-> NoStore]
    /\ disk = [c \in Cycles |-> Clean]
    /\ command = Idle
    /\ missed = 0
    /\ stops = 0

-----------------------------------------------------------------------------
(* Commands and saves *)

cycle == coordinator.cycle
here  == command.id             \* the cycle the running command works on

AtMost(n, bound) == IF n < bound THEN n ELSE bound

(* gc.SaveCoordinator: the pace of a closed cycle starts over with what the command itself admitted. *)
Save(c) ==
    /\ coordinator' = [c EXCEPT !.fresh = FALSE]
    /\ pace' = IF c.fresh THEN [units |-> IF command.unit = NoUnit THEN 0 ELSE 1, mutations |-> 0] ELSE pace

(* The command goes on with the save called step, holding the coordinator c. *)
Go(step, c) == command' = [command EXCEPT !.at = step, !.mem = c]

(* A command begins its saves; the cycle it works on is the one of the coordinator it holds. *)
Enter(step, c, unit, approved, reason) ==
    command' = [at |-> step, id |-> c.cycle, mem |-> c, unit |-> unit, approved |-> approved,
                reason |-> reason]

(* The command ends, saving the coordinator it holds. *)
Return(c) == Save(c) /\ command' = Idle

(* Coordinator.Close: the retained record of the cycle, and the counters start over. *)
Closed(c, why) ==
    [NewCoordinator EXCEPT !.fresh = TRUE, !.fate = [c.fate EXCEPT ![c.cycle] = why]]

(* Coordinator.ObserveExecutions: the lanes are those of the cycle's unsettled executions. *)
Attached(c) == {r \in Roles : lanes[c][r] = "attached"}

(* Coordinator.Require: only a lane in flight of the current cycle drives its phases. *)
Drives(role, phase) ==
    /\ command = Idle
    /\ cycle # NoCycle
    /\ role \in Attached(cycle)
    /\ coordinator.phase = phase

-----------------------------------------------------------------------------
(* Ordinary work *)

Plan(u) ==
    /\ command = Idle /\ units[u] = "none"
    /\ units' = [units EXCEPT ![u] = "planned"]
    /\ UNCHANGED <<coordinator, pace, pending, lanes, activity, store, disk, command, missed, stops>>

Stage(u) ==
    /\ command = Idle /\ units[u] = "in flight"
    /\ pending' = pending \cup {u}
    /\ pace' = [pace EXCEPT !.mutations = AtMost(@ + 1, MutationsPerCycle)]
    /\ UNCHANGED <<coordinator, units, lanes, activity, store, disk, command, missed, stops>>

Finish(u) ==
    /\ command = Idle /\ units[u] = "in flight"
    /\ units' = [units EXCEPT ![u] = "settled"]
    /\ UNCHANGED <<coordinator, pace, pending, lanes, activity, store, disk, command, missed, stops>>

Consolidate(u) ==
    /\ command = Idle /\ u \in pending
    /\ pending' = pending \ {u}
    /\ UNCHANGED <<coordinator, pace, units, lanes, activity, store, disk, command, missed, stops>>

(* The user's editor changes a file the cycle consolidated. *)
Edit(c) ==
    /\ command = Idle /\ disk[c].revision > 0
    /\ disk' = [disk EXCEPT ![c].edited = TRUE]
    /\ UNCHANGED <<coordinator, pace, units, pending, lanes, activity, store, command, missed, stops>>

-----------------------------------------------------------------------------
(* The trigger and the barrier *)

(* Bug variant: a due cycle is deferred without end. *)
DecideAlwaysDue(c) ==
    IF c.cycle # NoCycle \/ pace.mutations = 0 THEN "skip" ELSE "run"

(* gc.Decide *)
Decide(c) ==
    LET due == \/ c.requested
               \/ pace.units * MutationsPerCycle + pace.mutations * UnitsPerCycle
                    >= UnitsPerCycle * MutationsPerCycle
    IN  CASE ~due                          -> "idle"
          [] due /\ c.deferrals >= MaxDeferrals -> "abort"
          [] due /\ c.deferrals < MaxDeferrals /\ c.cycle # NoCycle -> "skip"
          [] due /\ c.deferrals < MaxDeferrals /\ c.cycle = NoCycle /\ pace.mutations = 0 -> "skip"
          [] OTHER -> "run"

(* gc.Barrier: unfinished units, planned ones included, and ordinary deltas hold a due cycle. *)
Held == (\E u \in Units : units[u] \in {"planned", "in flight"}) \/ pending # {}

(* Bug variant: the request outlives its disposition. *)
ResetKeepingRequest(c) == [c EXCEPT !.deferrals = 0, !.fresh = TRUE]

(* Coordinator.reset, and the positions the next cycle counts from *)
Reset(c) == [c EXCEPT !.deferrals = 0, !.requested = FALSE, !.fresh = TRUE]

(* A cycle identity no record names yet. *)
Unused == {c \in Cycles : activity[c] = "none" /\ coordinator.fate[c] = "open" /\ cycle # c}

(* Coordinator.Advance, for `gc coordinate` request and tick. *)
Advance(asked) ==
    LET c == [coordinator EXCEPT !.requested = @ \/ asked]
        d == Decide(c)
    IN  /\ command = Idle
        /\ asked => Unused # {}
        /\ UNCHANGED <<units, pending, lanes, activity, store, disk, stops>>
        /\ \/ /\ cycle # NoCycle
              /\ Enter("start", c, NoUnit, FALSE, "none")
              /\ UNCHANGED <<coordinator, pace, missed>>
           \/ /\ cycle = NoCycle /\ d = "idle"
              /\ Return(c)
              /\ UNCHANGED missed
           \/ /\ cycle = NoCycle /\ d \in {"skip", "abort"}
              /\ Return(Reset(c))
              /\ missed' = 0
           \/ /\ cycle = NoCycle /\ d = "run" /\ Held
              /\ Return([c EXCEPT !.deferrals = @ + 1])
              /\ missed' = AtMost(missed + 1, MaxDeferrals + 1)
           \/ /\ cycle = NoCycle /\ d = "run" /\ ~Held
              /\ TRUE \in StartFails
              /\ Return([c EXCEPT !.deferrals = 1])
              /\ missed' = 0
           \/ /\ cycle = NoCycle /\ d = "run" /\ ~Held
              /\ \E new \in Unused :
                    /\ \A other \in Unused : new <= other
                    /\ Enter("start", [c EXCEPT !.deferrals = 0, !.cycle = new, !.phase = "baseline"],
                             NoUnit, FALSE, "none")
              /\ missed' = 0
              /\ UNCHANGED <<coordinator, pace>>

(* Bug variant: a closure the history already knows is not resumed. *)
CanStartOnce(c, phase) == activity[c] \in {"none", "started"}

(* startGCCycleActivity: an interrupted closure is resumed, a finished activity is never reopened. *)
CanStart(c, phase) ==
    \/ activity[c] \in {"none", "started"}
    \/ activity[c] = "interrupted" /\ phase \in {"aborting", "blocked"}

Started(c) == IF activity[c] = "none" THEN [activity EXCEPT ![c] = "started"] ELSE activity

(* coordinateAdvance: the history learns of the cycle before the coordinator is saved. *)
StartActivity ==
    /\ command.at = "start"
    /\ activity' = IF CanStart(here, command.mem.phase) THEN Started(here) ELSE activity
    /\ Go("save", command.mem)
    /\ UNCHANGED <<coordinator, pace, units, pending, lanes, store, disk, missed, stops>>

-----------------------------------------------------------------------------
(* The lanes *)

(* attachGCLane: a lane is recorded once per role; the fold ignores a second one. *)
Attach(role) ==
    /\ command = Idle /\ cycle # NoCycle
    /\ lanes[cycle][role] = "none"
    /\ lanes' = [lanes EXCEPT ![cycle][role] = "attached"]
    /\ UNCHANGED <<coordinator, pace, units, pending, activity, store, disk, command, missed, stops>>

(* coordinateBaseline: the phase moves on even if the analysis then fails, leaving no findings. *)
Baseline(pass, found) ==
    /\ Drives("verifier", "baseline")
    /\ Return([coordinator EXCEPT !.phase = "investigate", !.baseline = pass, !.finding = found])
    /\ UNCHANGED <<units, pending, lanes, activity, store, disk, missed, stops>>

(* coordinateInvestigation: evidence once recorded cannot be replaced. *)
Investigate(outcome) ==
    /\ Drives("collector", "investigate")
    /\ coordinator.finding = "open"
    /\ Return([coordinator EXCEPT !.finding = outcome])
    /\ UNCHANGED <<units, pending, lanes, activity, store, disk, missed, stops>>

(* AuthorizedScope: the files of the findings that were investigated and confirmed. *)
Authorized == coordinator.finding = "confirmed"

(* coordinateAuthorization: both claims are reserved together; a retry finds them reserved. *)
Authorize ==
    /\ Drives("collector", "investigate")
    /\ coordinator.baseline
    /\ Authorized
    /\ "verifier" \in Attached(cycle)
    /\ store' = [store EXCEPT ![cycle].claimed = TRUE]
    /\ Enter("save", [coordinator EXCEPT !.phase = "collect"], NoUnit, FALSE, "none")
    /\ UNCHANGED <<coordinator, pace, units, pending, lanes, activity, disk, missed, stops>>

(* A collector's vfs_write under the guard of guardMaintenanceLocked. *)
Write ==
    /\ Drives("collector", "collect")
    /\ store[cycle].claimed
    /\ store[cycle].revision < MaxRevision
    /\ store' = [store EXCEPT ![cycle].revision = @ + 1]
    /\ UNCHANGED <<coordinator, pace, units, pending, lanes, activity, disk, command, missed, stops>>

Collected ==
    /\ Drives("collector", "collect")
    /\ Return([coordinator EXCEPT !.phase = "verify"])
    /\ UNCHANGED <<units, pending, lanes, activity, store, disk, missed, stops>>

(* coordinateDelta, allowed in every phase: the verifier is handed the delta as it stands. *)
Judge ==
    /\ command = Idle /\ cycle # NoCycle
    /\ "verifier" \in Attached(cycle)
    /\ store[cycle].claimed
    /\ store' = [store EXCEPT ![cycle].judged = store[cycle].revision]
    /\ UNCHANGED <<coordinator, pace, units, pending, lanes, activity, disk, command, missed, stops>>

-----------------------------------------------------------------------------
(* Unwinding a cycle *)

(* Bug variant: a lane the host already stopped still counts as active. *)
UnwindOverSettledLanes(c, unit, approved) ==
    LET mem == [c EXCEPT !.phase = "aborting"]
    IN  IF \E r \in Roles : lanes'[c.cycle][r] \in {"attached", "stopped"}
        THEN Return(mem)
        ELSE /\ Enter("discard", mem, unit, approved, "aborted")
             /\ UNCHANGED <<coordinator, pace>>

(* abortGCCycle up to its check of active lanes, over lanes as stopped and reported. *)
Unwind(c, unit, approved) ==
    LET mem == IF c.phase \in {"aborting", "blocked"} THEN c ELSE [c EXCEPT !.phase = "aborting"]
    IN  IF \E r \in Roles : lanes'[c.cycle][r] = "attached"
        THEN Return(mem)
        ELSE /\ Enter("discard", mem, unit, approved, "aborted")
             /\ UNCHANGED <<coordinator, pace>>

(* recordLaneStops: the host stopped these sessions and names them exactly. *)
StopLanes(stopped) ==
    /\ stopped \subseteq Attached(cycle)
    /\ lanes' = [lanes EXCEPT ![cycle] = [r \in Roles |-> IF r \in stopped THEN "stopped" ELSE @[r]]]

(* coordinateAbort, for abort and recover. *)
Abort(stopped, approved) ==
    /\ command = Idle /\ cycle # NoCycle
    /\ StopLanes(stopped)
    /\ Unwind(coordinator, NoUnit, approved)
    /\ UNCHANGED <<units, pending, activity, store, disk, missed, stops>>

(* Bug variant: the admission does not end the cycle in flight. *)
AdmitOverCycle(u, stopped, approved) ==
    /\ command = Idle /\ units[u] # "in flight" /\ stopped = {}
    /\ Enter("admit", coordinator, u, approved, "none")
    /\ UNCHANGED <<coordinator, pace, units, pending, lanes, activity, store, disk, missed, stops>>

(* coordinateRoutine admit: a delegation the budgets allow ends the cycle in flight first, keeping what
   it changed where the user approved the repair. *)
Admit(u, stopped, approved) ==
    /\ command = Idle /\ units[u] # "in flight"
    /\ IF cycle = NoCycle
       THEN /\ stopped = {}
            /\ Enter("admit", coordinator, u, FALSE, "none")
            /\ UNCHANGED <<coordinator, pace, lanes>>
       ELSE /\ StopLanes(stopped)
            /\ Unwind(coordinator, u, approved)
    /\ UNCHANGED <<units, pending, activity, store, disk, missed, stops>>

(* Bug variant: a cycle whose files were edited is closed like one with nothing to discard. *)
DiscardUnlessEdited ==
    /\ command.at = "discard"
    /\ store' = [store EXCEPT ![here].kept = IF disk[here].edited THEN @ ELSE "none"]
    /\ disk' = IF disk[here].edited THEN disk ELSE [disk EXCEPT ![here] = Clean]
    /\ Go("drop", command.mem)
    /\ UNCHANGED <<coordinator, pace, units, pending, lanes, activity, missed, stops>>

(* DiscardCycle, or under the user's approval PreserveInterruptedCycle. *)
Discard ==
    /\ command.at = "discard"
    /\ LET s       == store[here]
           open    == s.kept = "open"
           edited  == disk[here].edited
           goesOn  == s.preserved \/ IF command.approved THEN open /\ edited ELSE ~open \/ ~edited
           mem     == IF edited /\ ~command.approved
                      THEN [command.mem EXCEPT !.phase = "blocked"] ELSE command.mem
       IN  IF goesOn
           THEN /\ Go("drop", command.mem)
                /\ IF s.preserved \/ ~open
                   THEN UNCHANGED <<store, disk>>
                   ELSE /\ store' = [store EXCEPT ![here].kept = "none", ![here].preserved = command.approved]
                        /\ disk' = IF command.approved THEN disk ELSE [disk EXCEPT ![here] = Clean]
                /\ UNCHANGED <<coordinator, pace>>
           ELSE /\ Return(mem)
                /\ UNCHANGED <<store, disk>>
    /\ UNCHANGED <<units, pending, lanes, activity, missed, stops>>

(* DropCycleStaging *)
DropStaging ==
    /\ command.at = "drop"
    /\ store' = [store EXCEPT ![here].claimed = FALSE, ![here].revision = 0, ![here].verdict = "none"]
    /\ Go("settle", command.mem)
    /\ UNCHANGED <<coordinator, pace, units, pending, lanes, activity, disk, missed, stops>>

-----------------------------------------------------------------------------
(* Closing a cycle *)

Outcome == IF command.reason = "aborted" THEN "interrupted" ELSE "completed"
Live(c) == {r \in Roles : lanes[c][r] \in {"attached", "stopped"}}

(* settleGCCycleActivity, one history entry at a time: the start, each lane, the finish. *)
Settle ==
    /\ command.at = "settle"
    /\ CanStart(here, command.mem.phase)
    /\ \/ /\ activity[here] = "none"
          /\ activity' = Started(here)
          /\ UNCHANGED <<lanes, command>>
       \/ /\ activity[here] # "none"
          /\ \E r \in Live(here) : lanes' = [lanes EXCEPT ![here][r] = "settled"]
          /\ UNCHANGED <<activity, command>>
       \/ /\ activity[here] # "none" /\ Live(here) = {}
          /\ activity' = [activity EXCEPT ![here] = Outcome]
          /\ Go(IF command.unit = NoUnit THEN "save" ELSE "admit",
                Closed(command.mem, IF store[here].preserved THEN "preserved" ELSE command.reason))
          /\ UNCHANGED lanes
    /\ UNCHANGED <<coordinator, pace, units, pending, store, disk, missed, stops>>

(* settleGCCycleActivity refused: the activity already finished otherwise. *)
SettleRefused ==
    /\ command.at = "settle"
    /\ ~CanStart(here, command.mem.phase)
    /\ Return(command.mem)
    /\ UNCHANGED <<units, pending, lanes, activity, store, disk, missed, stops>>

(* Coordinator.Admit, once no cycle is in flight. *)
RecordAdmission ==
    /\ command.at = "admit"
    /\ units' = [units EXCEPT ![command.unit] = "in flight"]
    /\ pace' = [pace EXCEPT !.units = AtMost(@ + 1, UnitsPerCycle)]
    /\ Go("save", command.mem)
    /\ UNCHANGED <<coordinator, pending, lanes, activity, store, disk, missed, stops>>

SaveCoordinator ==
    /\ command.at = "save"
    /\ Save(command.mem)
    /\ command' = IF command.reason = "applied" THEN [command EXCEPT !.at = "release"] ELSE Idle
    /\ UNCHANGED <<units, pending, lanes, activity, store, disk, missed, stops>>

(* CompleteCycle, after the closure is recorded. *)
Release ==
    /\ command.at = "release"
    /\ store' = [store EXCEPT ![here].kept = IF @ = "open" THEN "complete" ELSE @]
    /\ command' = Idle
    /\ UNCHANGED <<coordinator, pace, units, pending, lanes, activity, disk, missed, stops>>

-----------------------------------------------------------------------------
(* The verdict and the acceptance *)

(* Bug variant: the verdict is taken on whatever is staged when it arrives. *)
VerifiableAsStaged == store[cycle].revision > 0 /\ store[cycle].verdict = "none"

(* VerifyJudgedDelta: over the delta the verifier was handed, and once for the cycle. *)
Verifiable == store[cycle].judged = store[cycle].revision /\ store[cycle].revision > 0
                /\ store[cycle].verdict = "none"

(* coordinateVerdict *)
Verdict(pass) ==
    /\ Drives("verifier", "verify")
    /\ Verifiable
    /\ store' = [store EXCEPT ![cycle].verdict = IF pass THEN "pass" ELSE "fail",
                              ![cycle].verified = IF pass THEN store[cycle].judged ELSE 0]
    /\ UNCHANGED lanes
    /\ IF pass
       THEN /\ Enter("intent", [coordinator EXCEPT !.phase = "consolidating"], NoUnit, FALSE, "none")
            /\ UNCHANGED <<coordinator, pace>>
       ELSE Unwind(coordinator, NoUnit, FALSE)
    /\ UNCHANGED <<units, pending, activity, disk, missed, stops>>

(* The intent is saved before the physical effect. *)
SaveIntent ==
    /\ command.at = "intent"
    /\ Save(command.mem)
    /\ Go("consolidate", command.mem)
    /\ UNCHANGED <<units, pending, lanes, activity, store, disk, missed, stops>>

(* ConsolidateCheckpoint, or its refusal over a file that moved. *)
ConsolidateCycle ==
    /\ command.at = "consolidate"
    /\ UNCHANGED <<coordinator, pace, units, pending, lanes, activity, missed, stops>>
    /\ \/ /\ store[here].verdict = "pass"
          /\ disk' = [disk EXCEPT ![here] = [revision |-> store[here].revision, edited |-> FALSE]]
          /\ store' = [store EXCEPT ![here].kept = "open", ![here].revision = 0]
          /\ Go("save", [command.mem EXCEPT !.phase = "acceptance"])
       \/ /\ Go("save", command.mem)
          /\ UNCHANGED <<store, disk>>

(* Bug variant: the rollback state is released before the closure is recorded. *)
AcceptanceReleasing(pass) ==
    /\ Drives("verifier", "acceptance")
    /\ pass
    /\ store' = [store EXCEPT ![cycle].kept = "complete"]
    /\ Enter("settle", coordinator, NoUnit, FALSE, "applied")
    /\ UNCHANGED <<coordinator, pace, units, pending, lanes, activity, disk, missed, stops>>

(* coordinateAcceptance: the prepared checks run on the materialised workspace. *)
Acceptance(pass) ==
    /\ Drives("verifier", "acceptance")
    /\ UNCHANGED lanes
    /\ IF pass
       THEN /\ Enter("settle", coordinator, NoUnit, FALSE, "applied")
            /\ UNCHANGED <<coordinator, pace>>
       ELSE Unwind(coordinator, NoUnit, FALSE)
    /\ UNCHANGED <<units, pending, activity, store, disk, missed, stops>>

(* coordinateNoChange *)
NoChange ==
    /\ Drives("collector", "investigate")
    /\ Enter("settle", coordinator, NoUnit, FALSE, "no-change")
    /\ UNCHANGED <<coordinator, pace, units, pending, lanes, activity, store, disk, missed, stops>>

(* `gc acceptance`: without a managed cycle in flight, a user closes one by hand. *)
AcceptByHand(c, pass) ==
    /\ command = Idle /\ cycle = NoCycle
    /\ store[c].kept = "open"
    /\ \/ /\ pass
          /\ store' = [store EXCEPT ![c].kept = "complete"]
          /\ UNCHANGED disk
       \/ /\ ~pass /\ ~disk[c].edited
          /\ store' = [store EXCEPT ![c].kept = "none"]
          /\ disk' = [disk EXCEPT ![c] = Clean]
    /\ UNCHANGED <<coordinator, pace, units, pending, lanes, activity, command, missed, stops>>

(* The process ends between two saves. *)
Stop ==
    /\ command # Idle
    /\ stops < MaxStops
    /\ stops' = stops + 1
    /\ command' = Idle
    /\ UNCHANGED <<coordinator, pace, units, pending, lanes, activity, store, disk, missed>>

-----------------------------------------------------------------------------
Continue == StartActivity \/ Discard \/ DropStaging \/ Settle \/ SettleRefused \/ RecordAdmission
              \/ SaveCoordinator \/ Release \/ SaveIntent \/ ConsolidateCycle

OrdinaryStep == \E u \in Units : Plan(u) \/ Stage(u) \/ Finish(u) \/ Consolidate(u)
AdmitStep    == \E u \in Units, stopped \in SUBSET Roles, approved \in BOOLEAN : Admit(u, stopped, approved)
Request      == Advance(TRUE)
Tick         == Advance(FALSE)
LaneStep ==
    \/ \E r \in Roles : Attach(r)
    \/ \E pass \in BOOLEAN, found \in {"none", "open"} : Baseline(pass, found)
    \/ \E outcome \in {"confirmed", "refuted"} : Investigate(outcome)
    \/ Authorize \/ Write \/ Collected \/ Judge \/ NoChange
    \/ \E pass \in BOOLEAN : Verdict(pass) \/ Acceptance(pass)
AbortStep  == \E stopped \in SUBSET Roles, approved \in BOOLEAN : Abort(stopped, approved)
ByHandStep == \E c \in Cycles, pass \in BOOLEAN : AcceptByHand(c, pass)
EditStep   == \E c \in Cycles : Edit(c)

Next == \/ OrdinaryStep \/ AdmitStep \/ Request \/ Tick \/ LaneStep \/ AbortStep \/ ByHandStep
        \/ EditStep \/ Continue \/ Stop

Spec == Init /\ [][Next]_vars

(* The next tick declares a due cycle, which may fail. *)
Tries == cycle = NoCycle /\ ~Held /\ Decide(coordinator) = "run"

(* stopLanes: one lane that cannot be stopped fails the whole call, which is made again. *)
AllStopped(stopped) == stopped = Attached(cycle)

(* A command runs on, and one that waits for the workspace lock gets it in the end.  The plugin ends a
   cycle whose lane sessions ended without finishing their phase (watchIncompletePrompt, pumpGC), and
   asks whether a cycle is due whenever the session goes idle (startCycleWhenIdle); that the cycle can be
   declared then is not assumed. *)
StopAllAndAbort == \E stopped \in SUBSET Roles :
                      /\ cycle # NoCycle
                      /\ AllStopped(stopped)
                      /\ Abort(stopped, FALSE)
FairSpec == Spec /\ WF_vars(Continue) /\ SF_vars(StopAllAndAbort) /\ SF_vars(Tick /\ ~Tries)

-----------------------------------------------------------------------------
(* Properties *)

TypeOK ==
    /\ coordinator \in Coordinator
    /\ pace \in [units : 0 .. UnitsPerCycle, mutations : 0 .. MutationsPerCycle]
    /\ units \in [Units -> {"none", "planned", "in flight", "settled"}]
    /\ pending \subseteq Units
    /\ lanes \in [Cycles -> [Roles -> {"none", "attached", "stopped", "settled"}]]
    /\ activity \in [Cycles -> {"none", "started", "completed", "interrupted"}]
    /\ store \in [Cycles -> Store]
    /\ disk \in [Cycles -> [revision : 0 .. MaxRevision, edited : BOOLEAN]]
    /\ command \in Command
    /\ missed \in 0 .. MaxDeferrals + 1
    /\ stops \in 0 .. MaxStops

(* A cycle's content is on disk and may still be rolled back: nobody accepted it yet. *)
Unsettled(c) == store[c].kept = "open" /\ coordinator.fate[c] # "applied"

(* New work runs over no live maintenance changes (yieldGCCycle) but those of a cycle the history
   already calls interrupted: a command that ends between the record of an admission and the save of
   the coordinator leaves that cycle in flight, and a lane launched only then drives it on. *)
NewWorkOverSettledTree ==
    \A u \in Units, c \in Cycles :
        units[u] = "in flight" /\ Unsettled(c) => cycle = c /\ activity[c] = "interrupted"

(* An admitted delegation ends the cycle instead (Coordinator.Held): none writes under new work. *)
AdmissionEndsTheCycle == \A u \in Units, c \in Cycles : units[u] = "in flight" => ~Unsettled(c)

(* The content a cycle leaves on disk is the very revision its verifier was handed and passed
   (JudgeDelta, VerifyJudgedDelta), whatever the collector wrote in between. *)
OnlyJudgedWorkIsApplied ==
    \A c \in Cycles : disk[c].revision \in {0, store[c].verified}

(* A cycle recorded as unwound left nothing behind: no content, no claim, no lane in flight, and an
   interrupted activity; kept content is content the user approved keeping (abortGCCycle). *)
UnwoundInFull ==
    \A c \in Cycles : coordinator.fate[c] \in {"aborted", "preserved"} =>
        /\ disk[c].revision > 0 => store[c].preserved
        /\ ~store[c].claimed
        /\ Live(c) = {}
        /\ activity[c] = "interrupted"

(* The rollback state of a cycle is released only once its closure is durably recorded
   (coordinateAcceptance), and a recorded closure never loses its content but by the user's hand. *)
ReleasedOnlyWhenApplied ==
    \A c \in Cycles : store[c].kept = "complete" => coordinator.fate[c] = "applied" /\ disk[c].revision > 0

(* The barrier does not hold a due cycle more often in a row than the policy allows (PR-MNT-6): it is
   tried in the end, or dropped.  A try that fails starts the count over (Barrier, Advance). *)
DueIsBounded == missed <= MaxDeferrals

(* "The barrier cleared but the cycle still didn't start: a deterministic failure here must still count
   toward the abort valve" (Coordinator.Advance). *)
FailedStartsAreCounted ==
    [][\A asked \in BOOLEAN :
         /\ Advance(asked) /\ command' = Idle /\ ~Held
         /\ Decide([coordinator EXCEPT !.requested = @ \/ asked]) = "run"
         => coordinator'.deferrals > coordinator.deferrals]_vars

(* A cycle in flight ends, or is blocked on the user's decision; a restart of the process at any save
   only delays it, unless the history already calls the activity completed. *)
CycleEnds ==
    \A c \in Cycles :
        cycle = c ~> cycle # c \/ coordinator.phase = "blocked" \/ activity[c] = "completed"

(* A cycle in flight never gates ordinary dispatch (Coordinator.Held): it always ends, or asks the
   user about changes it cannot undo. *)
NeverHoldsDispatch ==
    \A c \in Cycles : cycle = c ~> cycle # c \/ coordinator.phase = "blocked"

(* A user's request is answered: a cycle runs and closes, or the request is dropped as not due or put
   off too often, if a due cycle's declaration does not fail for ever, and no stop wedged the cycle. *)
DeclarationSucceeds == SF_vars(Tick /\ Tries /\ command' # Idle)
RequestIsAnswered ==
    DeclarationSucceeds =>
        (coordinator.requested ~> \/ ~coordinator.requested \/ coordinator.phase = "blocked"
                                  \/ \E c \in Cycles : cycle = c /\ activity[c] = "completed")
=============================================================================
