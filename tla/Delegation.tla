----------------------------- MODULE Delegation -----------------------------
(***************************************************************************)
(* Delegations as the command line and the OpenCode plugin run them over   *)
(* the protocol of Dispatch: one locked command prepares a host subagent   *)
(* call, the host runs it outside the lock, and every harness instance     *)
(* reads the recorded executions, looks at the exact native call, and      *)
(* later asks the command line to settle what ended. Commands are atomic   *)
(* against one another; the process of any can stop between two records,   *)
(* and an instance can die with its calls and its lease.                   *)
(***************************************************************************)
EXTENDS Dispatch

CONSTANTS
    Children, ChildOf,       \* child sessions, and the one each call runs in
    Resuming,                \* calls that name their child when they are made
    Background,              \* calls that return as soon as they are launched
    Instances, InstanceOf,   \* harness instances, and the one each call is made in
    MaxCrashes               \* bound: instances that die

ASSUME DelegationAssumption ==
    /\ ChildOf \in [Calls -> Children] /\ InstanceOf \in [Calls -> Instances]
    /\ Resuming \subseteq Calls /\ Background \subseteq Calls
    /\ \A c, d \in Calls \ Resuming : ChildOf[c] = ChildOf[d] => c = d
    /\ None \notin Children /\ MaxCrashes \in Nat

VARIABLES
    exec,       \* history: the execution recorded for each call
    call,       \* host: each native call
    child,      \* host: each child session
    alive,      \* the instances whose process runs
    lapsed,     \* the instances whose lease lapsed
    view,       \* each instance: what it read of the calls it is about to settle
    abandoned   \* history variable: calls ended without a proof of termination

hvars == <<exec, call, child, alive, lapsed, view, abandoned>>
vars  == <<dvars, hvars>>

NoExecution == [recorded |-> FALSE, ready |-> FALSE, settled |-> FALSE, attempt |-> 0, child |-> None]
Reading     == [call : Calls, attempt : 0..MaxAdmissions, state : {"ended", "gone"}]

DelegationTypeOK ==
    /\ TypeOK
    /\ exec \in [Calls -> [recorded : BOOLEAN, ready : BOOLEAN, settled : BOOLEAN,
                           attempt : 0..MaxAdmissions, child : Children \union {None}]]
    /\ call \in [Calls -> {"unmade", "prepared", "open", "ended", "gone", "stranded"}]
    /\ child \in [Children -> {"none", "running", "idle", "deleted"}]
    /\ alive \subseteq Instances /\ lapsed \subseteq Instances
    /\ view \in [Instances -> SUBSET Reading]
    /\ abandoned \subseteq Calls

Init ==
    /\ DInit
    /\ exec = [c \in Calls |-> NoExecution]
    /\ call = [c \in Calls |-> "unmade"]
    /\ child = [h \in Children |-> "none"]
    /\ alive = Instances /\ lapsed = {}
    /\ view = [i \in Instances |-> {}]
    /\ abandoned = {}

-----------------------------------------------------------------------------
(* Preparing a call *)

Holds(c) == InFlight(CallUnit[c]) /\ unit[CallUnit[c]].call = c

Live(c) == exec[c].recorded /\ ~exec[c].settled

\* Bug variant of Attachable: the child of another unsettled execution is taken.
AttachableAnyway(c) == exec[c].child \in {None, ChildOf[c]}

\* A child executes one delegation at a time.
Attachable(c) ==
    /\ exec[c].child \in {None, ChildOf[c]}
    /\ \A d \in Calls \ {c} : exec[d].child = ChildOf[c] => exec[d].settled

\* Bug variant of Preparing: the execution is recorded under the next attempt.
PreparingNext(c, upto) ==
    /\ call[c] = "unmade" /\ InstanceOf[c] \in alive
    /\ c \in Resuming => child[ChildOf[c]] # "none"
    /\ ~exec[c].ready /\ ~exec[c].settled
    /\ IF Holds(c)
       THEN upto # "admitted" /\ recovery' = Account
            /\ UNCHANGED <<unit, version, budgets, bus, claim>>
       ELSE Admit(c)
    /\ upto = "ready" /\ c \in Resuming => Attachable(c)
    /\ exec' = IF upto = "admitted" THEN exec
               ELSE [exec EXCEPT ![c] = [recorded |-> TRUE, ready |-> upto \in {"prepared", "ready"}, settled |-> FALSE,
                       attempt |-> unit'[CallUnit[c]].attempt + 1,
                       child |-> IF upto = "ready" /\ c \in Resuming THEN ChildOf[c] ELSE None]]

\* The command's records, up to the one the process stopped after: the admission (already
\* there when an interrupted preparation is retried), the execution, its readiness, and the
\* child of a call that resumes one.
Preparing(c, upto) ==
    /\ call[c] = "unmade" /\ InstanceOf[c] \in alive
    /\ c \in Resuming => child[ChildOf[c]] # "none"
    /\ ~exec[c].ready /\ ~exec[c].settled
    /\ IF Holds(c)
       THEN upto # "admitted" /\ recovery' = Account
            /\ UNCHANGED <<unit, version, budgets, bus, claim>>
       ELSE Admit(c)
    /\ upto = "ready" /\ c \in Resuming => Attachable(c)
    /\ exec' = IF upto = "admitted" THEN exec
               ELSE [exec EXCEPT ![c] = [recorded |-> TRUE, ready |-> upto \in {"prepared", "ready"}, settled |-> FALSE,
                       attempt |-> unit'[CallUnit[c]].attempt,
                       child |-> IF upto = "ready" /\ c \in Resuming THEN ChildOf[c] ELSE None]]

\* The whole command: its answer lets the host launch the call.
Prepare(c) ==
    /\ Preparing(c, "ready")
    /\ call' = [call EXCEPT ![c] = "prepared"]
    /\ UNCHANGED <<child, alive, lapsed, view, abandoned>>

\* The process stops, or its answer is lost: the host call fails, or is prepared again.
PrepareInPart(c) ==
    /\ \E upto \in {"admitted", "recorded", "prepared", "ready"} : Preparing(c, upto)
    /\ \/ call' = call
       \/ call' = [call EXCEPT ![c] = "ended"]
    /\ UNCHANGED <<child, alive, lapsed, view, abandoned>>

\* Bug variant of SettleExecutions: an execution that never became ready is left.
SettleReady(u) ==
    exec' = [c \in Calls |->
               IF CallUnit[c] = u /\ exec[c].ready /\ exec[c].attempt = unit[u].attempt
               THEN [exec[c] EXCEPT !.settled = TRUE] ELSE exec[c]]

\* The unit's executions of the attempt that ended are settled with it.
SettleExecutions(u) ==
    exec' = [c \in Calls |->
               IF CallUnit[c] = u /\ exec[c].recorded /\ exec[c].attempt = unit[u].attempt
               THEN [exec[c] EXCEPT !.settled = TRUE] ELSE exec[c]]

Finish(u) == Terminated(u, FALSE) /\ SettleExecutions(u)

\* The preparation is refused after its admission: the attempt is closed.
Compensate(c) ==
    /\ call[c] = "unmade" /\ Holds(c) /\ ~exec[c].ready
    /\ Finish(CallUnit[c])
    /\ call' = [call EXCEPT ![c] = "ended"]
    /\ UNCHANGED <<child, alive, lapsed, view, abandoned>>

\* A retry of a call that is already prepared, or no longer to be, is not launched; nor is
\* one the admission denies.
Refuse(c) ==
    /\ call[c] = "unmade" /\ InstanceOf[c] \in alive
    /\ exec[c].ready \/ exec[c].settled \/ (~Holds(c) /\ ~Admissible(CallUnit[c], Account))
    /\ call' = [call EXCEPT ![c] = "ended"]
    /\ UNCHANGED <<dvars, exec, child, alive, lapsed, view, abandoned>>

-----------------------------------------------------------------------------
(* The host *)

Launched(c) ==
    /\ call[c] = "prepared" /\ InstanceOf[c] \in alive
    /\ child[ChildOf[c]] # "deleted"
    /\ call' = [call EXCEPT ![c] = "open"]
    /\ child' = [child EXCEPT ![ChildOf[c]] = "running"]
    /\ UNCHANGED <<dvars, exec, alive, lapsed, view, abandoned>>

\* A foreground call ends with its child's turn; a background one while the child runs on.
Ended(c) ==
    /\ call[c] \in {"prepared", "open"}
    /\ call' = [call EXCEPT ![c] = "ended"]
    /\ child' = IF c \in Background \/ call[c] = "prepared" \/ child[ChildOf[c]] = "deleted" THEN child
                ELSE [child EXCEPT ![ChildOf[c]] = "idle"]
    /\ UNCHANGED <<dvars, exec, alive, lapsed, view, abandoned>>

\* No call of the child is open in the foreground.
ChildStops(h, how) ==
    /\ child[h] = "running" /\ how \in {"idle", "deleted"}
    /\ \A c \in Calls : ChildOf[c] = h => call[c] # "open"
    /\ child' = [child EXCEPT ![h] = how]
    /\ UNCHANGED <<dvars, exec, call, alive, lapsed, view, abandoned>>

\* The session that made the call is deleted.
CallerGone(c) ==
    /\ call[c] \in {"unmade", "prepared", "open", "ended", "stranded"}
    /\ call[c] = "unmade" => Holds(c)
    /\ call' = [call EXCEPT ![c] = "gone"]
    /\ UNCHANGED <<dvars, exec, child, alive, lapsed, view, abandoned>>

\* A process dies with the turns it ran: the record of an open call stays open.
Crash(i) ==
    /\ i \in alive /\ Cardinality(Instances \ alive) < MaxCrashes
    /\ alive' = alive \ {i}
    /\ view' = [view EXCEPT ![i] = {}]
    /\ call' = [c \in Calls |-> IF InstanceOf[c] = i /\ call[c] \in {"unmade", "prepared", "open"}
                                THEN "stranded" ELSE call[c]]
    /\ child' = [h \in Children |->
         IF child[h] = "running" /\ \E c \in Calls : ChildOf[c] = h /\ InstanceOf[c] = i /\ exec[c].ready
         THEN "idle" ELSE child[h]]
    /\ UNCHANGED <<dvars, exec, lapsed, abandoned>>

\* A lease lapses when it is not renewed in time, its owner dead or only late.
Lapse(i) == i \notin lapsed /\ lapsed' = lapsed \union {i}
            /\ UNCHANGED <<dvars, exec, call, child, alive, view, abandoned>>
Renew(i) == i \in alive \cap lapsed /\ lapsed' = lapsed \ {i}
            /\ UNCHANGED <<dvars, exec, call, child, alive, view, abandoned>>

-----------------------------------------------------------------------------
(* Callbacks and reconciliation *)

\* An event of the child links it to its dispatch and records execution observed; the
\* process can stop between the two.
Attach(c, observed) ==
    LET u == CallUnit[c] IN
    /\ child[ChildOf[c]] = "running" /\ Live(c) /\ exec[c].ready
    /\ Attachable(c)
    /\ exec' = [exec EXCEPT ![c].child = ChildOf[c]]
    /\ IF ~observed THEN exec' # exec /\ UNCHANGED dvars
       ELSE /\ Holds(c) /\ exec[c].attempt = unit[u].attempt
            /\ Launch(u) \/ ReconcileRunning(u)
    /\ UNCHANGED <<call, child, alive, lapsed, view, abandoned>>

\* Bug variant of Mine: a lapsed lease frees nothing.
MineAlone(i, c) == InstanceOf[c] = i

Mine(i, c) == InstanceOf[c] = i \/ InstanceOf[c] \in lapsed

\* What the native call shows. A background call is over once its child is, which only an
\* instance that may wait on the child learns unless the child is deleted.
CallState(i, c) ==
    IF call[c] = "gone" THEN "gone"
    ELSE IF call[c] = "ended"
            /\ \/ c \notin Background \/ ~exec[c].recorded
               \/ exec[c].child # None /\ (child[ChildOf[c]] = "deleted"
                                           \/ (child[ChildOf[c]] = "idle" /\ Mine(i, c)))
    THEN "ended" ELSE "open"

\* The unsettled executions, and the admissions that have none.
Listed(c) == Live(c) \/ (Holds(c) /\ ~exec[c].recorded)

\* An instance lists them and reads their calls.
Read(i, c) ==
    LET seen == [call |-> c, attempt |-> unit[CallUnit[c]].attempt, state |-> CallState(i, c)] IN
    /\ i \in alive
    /\ Listed(c)
    /\ seen.state # "open" /\ ~\E v \in view[i] : v.call = c
    /\ view' = [view EXCEPT ![i] = @ \union {seen}]
    /\ UNCHANGED <<dvars, exec, call, child, alive, lapsed, abandoned>>

\* Bug variant of FinishObserved: whatever attempt holds the unit is finished.
FinishWhatever(c, attempt) ==
    IF InFlight(CallUnit[c]) THEN Finish(CallUnit[c]) ELSE UNCHANGED <<dvars, exec>>

\* finish: ignored unless this dispatch and attempt still hold the unit.
FinishObserved(c, attempt) ==
    IF Holds(c) /\ unit[CallUnit[c]].attempt = attempt THEN Finish(CallUnit[c])
    ELSE UNCHANGED <<dvars, exec>>

\* abandon: a cancellation request, then the finish; it names a recorded execution.
Abandoned(c) ==
    LET u == CallUnit[c] IN
    /\ exec[c].recorded
    /\ IF exec[c].settled THEN UNCHANGED <<dvars, exec>>
       ELSE IF ~Holds(c) \/ unit[u].attempt # exec[c].attempt
       THEN exec' = [exec EXCEPT ![c].settled = TRUE] /\ UNCHANGED dvars
       ELSE /\ unit' = [unit EXCEPT ![u].state = "settled", ![u].flight = "none", ![u].cancel = TRUE,
                          ![u].outcome = IF \E o \in Scopes(u, Account) : Account[o].backtracked
                                         THEN "backtracked" ELSE "interrupted"]
            /\ failed' = failed \union {<<u, unit[u].attempt>>}
            /\ recovery' = Account
            /\ SettleExecutions(u)
            /\ UNCHANGED <<version, allow, rounds, contests, bus, claim>>

\* The process stops after the cancellation request.
AbandonedInPart(c) == Live(c) /\ Holds(c) /\ Observe(CallUnit[c], "cancelling") /\ UNCHANGED exec

\* An instance asks to settle what it read, which others may have settled meanwhile.
SettleEnded(i, v) ==
    /\ v \in view[i] /\ v.state = "ended" /\ i \in alive
    /\ FinishObserved(v.call, v.attempt)
    /\ view' = [view EXCEPT ![i] = @ \ {v}]
    /\ UNCHANGED <<call, child, alive, lapsed, abandoned>>

\* A call whose caller is gone is abandoned, after an attempt to stop its child.
SettleGone(i, v) ==
    LET h == ChildOf[v.call] IN
    /\ v \in view[i] /\ v.state = "gone" /\ i \in alive
    /\ Abandoned(v.call) \/ AbandonedInPart(v.call)
       \/ (~exec[v.call].recorded /\ UNCHANGED <<dvars, exec>>)
    /\ child' \in {child, IF exec[v.call].child = h /\ child[h] = "running"
                          THEN [child EXCEPT ![h] = "idle"] ELSE child}
    /\ view' = [view EXCEPT ![i] = @ \ {v}]
    /\ abandoned' = abandoned \union {v.call}
    /\ UNCHANGED <<call, alive, lapsed>>

\* The user agrees that the delegation will never return.
UserAbandons(c) ==
    /\ Live(c)
    /\ Abandoned(c) \/ AbandonedInPart(c)
    /\ abandoned' = abandoned \union {c}
    /\ UNCHANGED <<call, child, alive, lapsed, view>>

\* The host stream is lost: what the instance watches is marked, never settled.
LoseCapture(i, c) ==
    /\ i \in alive /\ Mine(i, c) /\ Live(c) /\ Holds(c)
    /\ unit[CallUnit[c]].flight # "uncertain"
    /\ Observe(CallUnit[c], "unmonitored")
    /\ UNCHANGED hvars

-----------------------------------------------------------------------------
(* The system *)

\* A reconciliation that establishes the unit's execution never ran.
NonStart(u) ==
    /\ ReconcileNonStart(u) /\ SettleExecutions(u)
    /\ abandoned' = abandoned \union {unit[u].call}
    /\ UNCHANGED <<call, child, alive, lapsed, view>>

Host ==
    \/ \E c \in Calls : Launched(c) \/ Ended(c) \/ CallerGone(c)
    \/ \E h \in Children, how \in {"idle", "deleted"} : ChildStops(h, how)
    \/ \E i \in Instances : Crash(i) \/ Lapse(i) \/ Renew(i)

Delegating ==
    \/ \E c \in Calls : Prepare(c) \/ PrepareInPart(c) \/ Compensate(c) \/ Refuse(c) \/ UserAbandons(c)
    \/ \E c \in Calls, observed \in BOOLEAN : Attach(c, observed)
    \/ \E i \in Instances, c \in Calls : Read(i, c) \/ LoseCapture(i, c)
    \/ \E i \in Instances : \E v \in view[i] : SettleEnded(i, v) \/ SettleGone(i, v)
    \/ \E u \in Units : NonStart(u)

Next == (Protocol /\ UNCHANGED hvars) \/ Host \/ Delegating

Spec == Init /\ [][Next]_vars

\* Some instance reconciles every unsettled execution at each pass of its lease timer, and
\* asks to settle what it learnt. A dead instance renews nothing, so its lease lapses.
FairSpec ==
    /\ Spec
    /\ \A c \in Calls : SF_vars(\E i \in Instances : Read(i, c))
    /\ \A i \in Instances : /\ WF_vars(\E v \in view[i] : SettleEnded(i, v))
                           /\ WF_vars(i \notin alive /\ Lapse(i))

-----------------------------------------------------------------------------
(* Properties *)

\* The pair of records each dispatch leaves: while its execution is not settled, its unit
\* is in flight under exactly that dispatch and attempt, whatever stopped in between
\* (cli/execution.go prepareExecution, history/execution.go foldExecution).
LiveExecutionHoldsItsUnit ==
    \A c \in Calls : Live(c) => Holds(c) /\ exec[c].attempt = unit[CallUnit[c]].attempt

\* A child session runs one delegation at a time: no two unsettled executions are linked
\* to one child, resumed, observed or left behind by a dead instance (AttachChild).
ChildRunsOne ==
    \A c, d \in Calls : c # d /\ Live(c) /\ Live(d) /\ exec[c].child # None => exec[c].child # exec[d].child

\* The native call is over, for what its host shows: of a background one, its child too,
\* unless the child was launched for another.
Over(c) ==
    /\ call[c] \in {"ended", "gone"}
    /\ c \in Background /\ exec[c].child # None /\ child[ChildOf[c]] = "running"
         => \E d \in Calls \ {c} : ChildOf[d] = ChildOf[c] /\ call[d] \notin {"unmade", "prepared"}

\* A unit leaves flight only when the call that holds it is over or was given up: what an
\* instance read of an earlier call of the unit never ends a later one (the finish action
\* of cli/dispatch.go coordinateRoutine).
OnlyOverWorkIsSettled ==
    [][\A u \in Units : InFlight(u) /\ ~InFlight(u)' =>
         unit[u].call \in abandoned' \/ Over(unit[u].call)']_vars

\* Work whose call ended is settled and its slot returned, whichever instance dies, as
\* long as one lives (takt-vfs.ts reconcileStoredDelegations).
Returned(c) ==
    /\ Live(c) /\ exec[c].ready /\ call[c] = "ended"
    /\ c \in Background => exec[c].child # None /\ child[ChildOf[c]] \in {"idle", "deleted"}
TerminationIsSettled == \A c \in Calls : Returned(c) ~> ~Returned(c)

\* What a refused admission says of the dispatch that holds the unit: dispatch_abandon
\* ends it. Abandoning names a recorded execution.
HeldSlotCanBeAbandoned ==
    \A c \in Calls : Holds(c) /\ call[c] = "gone" => exec[c].recorded
=============================================================================
