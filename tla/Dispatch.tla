------------------------------ MODULE Dispatch ------------------------------
(***************************************************************************)
(* The admission and lifecycle protocol (takt/dispatch) over the execution *)
(* history (takt/history). The state is the projection the history folds   *)
(* to: every decision reads it, and what is recorded and changes nothing   *)
(* (a denial, an invalid revision, an escalation) is not a step. A unit or *)
(* an objective is named within its root session, so each is given here    *)
(* with the root it belongs to.                                            *)
(*                                                                         *)
(* Every command first accounts the bus (Account), then acts; the process  *)
(* can stop between the two, or between two records of the accounting.     *)
(***************************************************************************)
EXTENDS Integers, Sequences, FiniteSets, FiniteSetsExt, Functions

CONSTANTS
    Roots,             \* root sessions
    Units, RootOf,     \* work units, and the root each is named in
    Calls, CallUnit,   \* host subagent calls (dispatches), and the unit each names
    Objectives, ObjectiveRoot,
    Specialists,       \* policy: concurrent specialists
    UnplannedUnits,    \* policy: units admitted without plan coverage
    ContestLimit, RecoveryFailures, MaxActions, MaxAttempts,  \* policy
    None,
    PlanInputs,        \* bound: the plans, prerequisites by unit, that are declared
    RoundInputs,       \* bound: the members of strengthening rounds that are declared
    MaxAdmissions,     \* bound: attempts of one unit
    MaxBus,            \* bound: rows of the action journal
    MaxExceptions,     \* bound: exceptions the user grants
    MaxVersion         \* bound: plan versions of one root

Uncapped == {"concurrency", "unplanned", "contests"}      \* bounds of a root
Scoped   == {"failures", "actions", "attempts", "qa"}     \* bounds of an objective
Bounds   == (Uncapped \X Roots) \union (Scoped \X Objectives)

ASSUME DispatchAssumption ==
    /\ RootOf \in [Units -> Roots] /\ CallUnit \in [Calls -> Units]
    /\ ObjectiveRoot \in [Objectives -> Roots]
    /\ None \notin Calls \union Units
    /\ \A n \in {Specialists, UnplannedUnits, ContestLimit, RecoveryFailures, MaxActions,
                 MaxAttempts} : n \in Nat \ {0}
    /\ \A n \in {MaxAdmissions, MaxBus, MaxExceptions, MaxVersion} : n \in Nat

VARIABLES
    unit,       \* each unit as the replay derives it
    recovery,   \* each objective's bounded-recovery accounting
    allow,      \* what recorded exceptions granted, by bound and scope
    version,    \* each root's standing plan version; 0 before a commitment
    rounds,     \* the strengthening rounds plan versions declared
    failed,     \* attempts recorded as ended without completing
    contests,   \* attempts contested
    bus,        \* the action journal: rows of a unit's tool call
    claim       \* each unit's author claim: none, owned or staged

budgets == <<allow, rounds, failed, contests>>
dvars   == <<unit, recovery, version, budgets, bus, claim>>

Flights == {"none", "pending", "running", "suspended", "cancelling", "uncertain", "unmonitored"}

NoUnit == [state |-> "none", attempt |-> 0, call |-> None, flight |-> "none", outcome |-> "none",
           launched |-> FALSE, cancel |-> FALSE, committed |-> FALSE, needs |-> {}]

\* since is a history variable: the rows past it are all of the recovery's count.
NoRecovery == [open |-> FALSE, failures |-> 0, scope |-> {}, actions |-> 0, attempts |-> 0, used |-> 0,
               attempted |-> {}, cursor |-> 0, since |-> 0, unreconciled |-> FALSE, backtracked |-> FALSE,
               restored |-> FALSE, cause |-> "none"]

TypeOK ==
    /\ unit \in [Units ->
         [state : {"none", "planned", "in flight", "settled", "withdrawn"}, attempt : 0..MaxAdmissions,
          call : Calls \union {None}, flight : Flights,
          outcome : {"none", "completed", "interrupted", "backtracked"},
          launched : BOOLEAN, cancel : BOOLEAN, committed : BOOLEAN, needs : SUBSET Units]]
    /\ recovery \in [Objectives ->
         [open : BOOLEAN, failures : Nat, scope : SUBSET Units, actions : 0..MaxActions,
          attempts : 0..MaxAttempts, used : 0..MaxBus, attempted : SUBSET (Units \X (1..MaxAdmissions)),
          cursor : 0..MaxBus, since : 0..MaxBus, unreconciled : BOOLEAN, backtracked : BOOLEAN, restored : BOOLEAN,
          cause : {"none", "actions", "attempts"}]]
    /\ allow \in [Bounds -> 0..MaxExceptions]
    /\ version \in [Roots -> 0..MaxVersion]
    /\ rounds \subseteq [root : Roots, version : 1..MaxVersion, objective : Objectives,
                         units : SUBSET Units, started : BOOLEAN]
    /\ failed \subseteq Units \X (1..MaxAdmissions)
    /\ contests \subseteq failed
    /\ bus \in Seq(Units \X (1..MaxBus)) /\ Len(bus) <= MaxBus
    /\ claim \in [Units -> {"none", "owned", "staged"}]

DInit ==
    /\ unit = [u \in Units |-> NoUnit]
    /\ recovery = [o \in Objectives |-> NoRecovery]
    /\ allow = [b \in Bounds |-> 0]
    /\ version = [r \in Roots |-> 0]
    /\ rounds = {} /\ failed = {} /\ contests = {}
    /\ bus = <<>>
    /\ claim = [u \in Units |-> "none"]

-----------------------------------------------------------------------------
(* What the projection answers *)

Known(u)    == unit[u].state # "none"
InFlight(u) == unit[u].state = "in flight"
Running     == {u \in Units : InFlight(u)}

\* A unit of the root that no commitment covered when it was first admitted.
Uncovered(r) == {u \in Units : RootOf[u] = r /\ Known(u) /\ ~unit[u].committed}

Unresolved(rec) == rec.open \/ (rec.backtracked /\ ~rec.restored)

\* The unresolved recoveries whose declared scope contains the unit.
Scopes(u, rec) == {o \in Objectives : ObjectiveRoot[o] = RootOf[u] /\ Unresolved(rec[o]) /\ u \in rec[o].scope}

QARoundFor(u) == {q \in rounds : q.root = RootOf[u] /\ u \in q.units}

\* Rounds of the objective that started: attempts and plan revisions are not counted.
StrengtheningUsed(o) == Cardinality({q \in rounds : q.objective = o /\ q.started})

NextAttempt(u) == IF unit[u].state = "settled" THEN unit[u].attempt + 1 ELSE 1

-----------------------------------------------------------------------------
(* Accounting the bus before each command *)

\* Distinct calls of the scope's units recorded past the established cursor.
ScopeActions(o) ==
    {bus[i][2] : i \in {j \in DOMAIN bus : j > recovery[o].cursor /\ bus[j][1] \in recovery[o].scope}}

Exhausted(o, rec) ==
    \/ rec.used >= rec.actions + allow[<<"actions", o>>]
    \/ /\ Cardinality(rec.attempted) >= rec.attempts + allow[<<"attempts", o>>]
       /\ rec.scope \cap Running = {}

\* Forced backtracking: the scope is abandoned, its result undemonstrated.
Backtrack(o, rec) ==
    [rec EXCEPT !.open = FALSE, !.backtracked = TRUE, !.failures = @ + 1,
       !.cause = IF rec.used >= rec.actions + allow[<<"actions", o>>] THEN "actions" ELSE "attempts"]

Consumed(o) ==
    LET n == Cardinality(ScopeActions(o))
    IN  IF n = 0 THEN recovery[o] ELSE [recovery[o] EXCEPT !.used = @ + n, !.cursor = Len(bus)]

AccountRecovery(o) ==
    IF Len(bus) < recovery[o].cursor THEN [recovery[o] EXCEPT !.unreconciled = TRUE]
    ELSE IF Exhausted(o, Consumed(o)) THEN Backtrack(o, Consumed(o)) ELSE Consumed(o)

Accountable(o) == recovery[o].open /\ ~recovery[o].unreconciled

\* The recoveries as every command finds them once it has accounted the bus.
Account == [o \in Objectives |-> IF Accountable(o) THEN AccountRecovery(o) ELSE recovery[o]]

\* The tick command accounts and does nothing else.
Tick ==
    /\ Account # recovery
    /\ recovery' = Account
    /\ UNCHANGED <<unit, version, budgets, bus, claim>>

\* The process stops after it recorded the consumption of one scope and before the rest.
AccountInPart(o) ==
    /\ Accountable(o) /\ Len(bus) >= recovery[o].cursor
    /\ Consumed(o) # recovery[o]
    /\ recovery' = [recovery EXCEPT ![o] = Consumed(o)]
    /\ UNCHANGED <<unit, version, budgets, bus, claim>>

-----------------------------------------------------------------------------
(* Admission *)

\* Bug variant of Admissible: the strengthening budget is not compared.
AdmissibleAnyRound(u, rec) ==
    LET r == RootOf[u] IN
    /\ Cardinality(Running) < Specialists + allow[<<"concurrency", r>>]
    /\ unit[u].state \notin {"in flight", "withdrawn"}
    /\ Known(u) \/ Cardinality(Uncovered(r)) < UnplannedUnits + allow[<<"unplanned", r>>]
    /\ \A o \in Scopes(u, rec) :
          /\ rec[o].open /\ ~rec[o].unreconciled
          /\ Cardinality(rec[o].attempted) < rec[o].attempts + allow[<<"attempts", o>>]
          /\ rec[o].used < rec[o].actions + allow[<<"actions", o>>]

\* No bound denies the unit. rec is the accounting the command began with.
Admissible(u, rec) ==
    LET r == RootOf[u] IN
    /\ Cardinality(Running) < Specialists + allow[<<"concurrency", r>>]
    /\ unit[u].state \notin {"in flight", "withdrawn"}
    /\ Known(u) \/ Cardinality(Uncovered(r)) < UnplannedUnits + allow[<<"unplanned", r>>]
    /\ \A q \in QARoundFor(u) :
          q.started \/ StrengtheningUsed(q.objective) < MaxAttempts + allow[<<"qa", q.objective>>]
    /\ \A o \in Scopes(u, rec) :
          /\ rec[o].open /\ ~rec[o].unreconciled
          /\ Cardinality(rec[o].attempted) < rec[o].attempts + allow[<<"attempts", o>>]
          /\ rec[o].used < rec[o].actions + allow[<<"actions", o>>]

\* Bug variant of Admit: decided on the recovery as the last command left it.
AdmitUnaccounted(c) ==
    LET u == CallUnit[c]
        n == NextAttempt(u)
    IN  /\ unit[u].call # c \/ unit[u].state \in {"none", "planned"}
        /\ Admissible(u, recovery)
        /\ n <= MaxAdmissions
        /\ unit' = [unit EXCEPT ![u].state = "in flight", ![u].attempt = n, ![u].call = c,
                      ![u].flight = "pending", ![u].outcome = "none", ![u].launched = FALSE,
                      ![u].cancel = FALSE]
        /\ recovery' = [o \in Objectives |->
             IF o \in Scopes(u, recovery) THEN [recovery[o] EXCEPT !.attempted = @ \union {<<u, n>>}]
             ELSE Account[o]]
        /\ rounds' = (rounds \ QARoundFor(u)) \union {[q EXCEPT !.started = TRUE] : q \in QARoundFor(u)}
        /\ UNCHANGED <<version, allow, failed, contests, bus, claim>>

\* An admission consumes an attempt of the recovery it falls in and starts its QA round.
\* One whose call already holds the unit is a repeat and yields what is recorded.
Admit(c) ==
    LET u == CallUnit[c]
        n == NextAttempt(u)
        rec == Account
    IN  /\ unit[u].call # c \/ unit[u].state \in {"none", "planned"}
        /\ Admissible(u, rec)
        /\ n <= MaxAdmissions
        /\ unit' = [unit EXCEPT ![u].state = "in flight", ![u].attempt = n, ![u].call = c,
                      ![u].flight = "pending", ![u].outcome = "none", ![u].launched = FALSE,
                      ![u].cancel = FALSE]
        /\ recovery' = [o \in Objectives |->
             IF o \in Scopes(u, rec) THEN [rec[o] EXCEPT !.attempted = @ \union {<<u, n>>}] ELSE rec[o]]
        /\ rounds' = (rounds \ QARoundFor(u)) \union {[q EXCEPT !.started = TRUE] : q \in QARoundFor(u)}
        /\ UNCHANGED <<version, allow, failed, contests, bus, claim>>

-----------------------------------------------------------------------------
(* Lifecycle facts *)

UncertainFlight(u) == unit[u].flight \in {"uncertain", "unmonitored"}

\* What termination records: the end of work in an abandoned scope is backtracked, a
\* cancelled or uncertain one is interrupted.
Outcome(u, nonStart, rec) ==
    IF \E o \in Scopes(u, rec) : rec[o].backtracked THEN "backtracked"
    ELSE IF nonStart \/ unit[u].cancel \/ unit[u].flight = "uncertain" THEN "interrupted"
    ELSE "completed"

\* terminate, for Finish and for a reconciliation that establishes a non-start.
Terminated(u, nonStart) ==
    LET how == Outcome(u, nonStart, Account) IN
    /\ InFlight(u)
    /\ unit' = [unit EXCEPT ![u].state = "settled", ![u].flight = "none", ![u].outcome = how]
    /\ failed' = IF how = "completed" THEN failed ELSE failed \union {<<u, unit[u].attempt>>}
    /\ recovery' = Account
    /\ UNCHANGED <<version, allow, rounds, contests, bus, claim>>

Flight(u, kind) ==
    /\ InFlight(u)
    /\ unit' = [unit EXCEPT ![u].flight = kind, ![u].launched = @ \/ kind = "running",
                            ![u].cancel = @ \/ kind = "cancelling"]
    /\ recovery' = Account
    /\ UNCHANGED <<version, budgets, bus, claim>>

\* Launch is refused over an uncertain flight, which is reconciled first.
Launch(u) == ~unit[u].launched /\ ~UncertainFlight(u) /\ Flight(u, "running")

ReconcileRunning(u) == UncertainFlight(u) /\ Flight(u, "running")
ReconcileNonStart(u) == UncertainFlight(u) /\ Terminated(u, TRUE)

\* Observed facts that consume no budget.
Observe(u, kind) == kind \in {"suspended", "cancelling", "uncertain", "unmonitored"} /\ Flight(u, kind)

Withdraw(u) ==
    /\ unit[u].state = "planned"
    /\ unit' = [unit EXCEPT ![u].state = "withdrawn"]
    /\ recovery' = Account
    /\ UNCHANGED <<version, budgets, bus, claim>>

\* Each terminal failure is contested once, at most ContestLimit times in a root.
Contest(u, a) ==
    /\ <<u, a>> \in failed \ contests
    /\ Cardinality({x \in contests : RootOf[x[1]] = RootOf[u]})
         < ContestLimit + allow[<<"contests", RootOf[u]>>]
    /\ contests' = contests \union {<<u, a>>}
    /\ recovery' = Account
    /\ UNCHANGED <<unit, version, allow, rounds, failed, bus, claim>>

-----------------------------------------------------------------------------
(* Bounded recoveries *)

\* Bug variant of DeclareRecovery: only an open recovery owns its scope.
DeclareOverAbandoned(o, scope, actions, attempts) ==
    LET rec == Account IN
    /\ ~rec[o].open
    /\ scope # {} /\ \A u \in scope : RootOf[u] = ObjectiveRoot[o]
    /\ actions \in 1..MaxActions /\ attempts \in 1..MaxAttempts
    /\ \A u \in scope : \A p \in Scopes(u, rec) : ~rec[p].open
    /\ rec[o].failures < RecoveryFailures + allow[<<"failures", o>>]
    /\ recovery' = [rec EXCEPT ![o] =
         [NoRecovery EXCEPT !.open = TRUE, !.failures = rec[o].failures, !.scope = scope,
            !.actions = actions, !.attempts = attempts, !.cursor = Len(bus), !.since = Len(bus)]]
    /\ UNCHANGED <<unit, version, budgets, bus, claim>>

DeclareRecovery(o, scope, actions, attempts) ==
    LET rec == Account IN
    /\ ~rec[o].open
    /\ scope # {} /\ \A u \in scope : RootOf[u] = ObjectiveRoot[o]
    /\ actions \in 1..MaxActions /\ attempts \in 1..MaxAttempts
    /\ \A u \in scope : Scopes(u, rec) = {}
    /\ rec[o].failures < RecoveryFailures + allow[<<"failures", o>>]
    /\ recovery' = [rec EXCEPT ![o] =
         [NoRecovery EXCEPT !.open = TRUE, !.failures = rec[o].failures, !.scope = scope,
            !.actions = actions, !.attempts = attempts, !.cursor = Len(bus), !.since = Len(bus)]]
    /\ UNCHANGED <<unit, version, budgets, bus, claim>>

\* Only a demonstrated result clears the objective's streak of failures.
CloseRecovery(o, demonstrated) ==
    LET rec == Account IN
    /\ rec[o].open
    /\ recovery' = [rec EXCEPT ![o].open = FALSE, ![o].failures = IF demonstrated THEN 0 ELSE @ + 1]
    /\ UNCHANGED <<unit, version, budgets, bus, claim>>

\* An exception on actions reconciles the count from here; one on the bound that
\* abandoned a scope reopens it. Another bound of the recovery is refused.
Except(bound, x) ==
    LET rec    == Account
        r      == rec[x]
        spent  == bound \in {"actions", "attempts"}
        lifted == spent /\ r.backtracked /\ ~r.restored
        excepted == [r EXCEPT
            !.unreconciled = r.unreconciled /\ bound # "actions",
            !.cursor = IF bound = "actions" THEN Len(bus) ELSE r.cursor,
            !.since = IF bound = "actions" THEN Len(bus) ELSE r.since,
            !.open = r.open \/ lifted, !.backtracked = r.backtracked /\ ~lifted,
            !.cause = IF lifted THEN "none" ELSE r.cause,
            !.failures = IF lifted /\ r.failures > 0 THEN r.failures - 1 ELSE r.failures]
    IN  /\ <<bound, x>> \in Bounds
        /\ FoldFunction(+, 0, allow) < MaxExceptions
        /\ lifted => bound = r.cause
        /\ allow' = [allow EXCEPT ![<<bound, x>>] = @ + 1]
        /\ recovery' = IF spent THEN [rec EXCEPT ![x] = excepted] ELSE rec
        /\ UNCHANGED <<unit, version, rounds, failed, contests, bus, claim>>

\* Restore rolls back and revokes each author claim of the scope, one at a time; a store
\* failure, or a stop, leaves the ones done so far, and the restoration is recorded only
\* once every claim is released. A claim can be left rolled back and still owned.
Restore(o, released, rolledBack) ==
    LET rec  == Account
        held == {u \in rec[o].scope : claim[u] # "none"}
    IN  /\ ~rec[o].open /\ ~rec[o].restored /\ rec[o].backtracked
        /\ rec[o].scope \cap Running = {}
        /\ released \subseteq held
        /\ rolledBack \in {{}} \union {{u} : u \in held \ released}
        /\ claim' = [u \in Units |-> IF u \in released THEN "none"
                                     ELSE IF u \in rolledBack THEN "owned" ELSE claim[u]]
        /\ recovery' = [rec EXCEPT ![o].restored = (released = held)]
        /\ UNCHANGED <<unit, version, budgets, bus>>

-----------------------------------------------------------------------------
(* Plans: one version stands in a root; a plan maps units to prerequisites *)

Plans(r) == {plan \in PlanInputs : \A u \in DOMAIN plan : RootOf[u] = r}

\* Prerequisites form a cycle when every unit of some set waits on another of it.
Acyclic(plan) == \A S \in SUBSET DOMAIN plan : S # {} => \E u \in S : plan[u] \cap S = {}

ValidPlan(plan) ==
    /\ \A u \in DOMAIN plan : \A v \in plan[u] : v \in DOMAIN plan \/ Known(v)
    /\ Acyclic(plan)

\* The committed units still planned or admitted.
CurrentPlan(r) ==
    [u \in {v \in Units : RootOf[v] = r /\ unit[v].committed /\ unit[v].state \in {"planned", "in flight"}}
       |-> unit[u].needs]

\* What stands after the revision: withdrawals removed, declarations added or replaced.
Revised(r, adds, withdrawn) ==
    [u \in DOMAIN adds \union (DOMAIN CurrentPlan(r) \ withdrawn) |->
       IF u \in DOMAIN adds THEN adds[u] ELSE CurrentPlan(r)[u]]

\* A planned entry reaches only a unit that is unknown or still planned.
Plan(adds, withdrawn) ==
    [u \in Units |->
       IF u \in withdrawn THEN [unit[u] EXCEPT !.state = "withdrawn"]
       ELSE IF u \in DOMAIN adds /\ unit[u].state \in {"none", "planned"}
       THEN [unit[u] EXCEPT !.state = "planned", !.attempt = 1, !.committed = TRUE, !.needs = adds[u]]
       ELSE unit[u]]

\* A round's members are planned, not yet admitted, and of no earlier round.
ValidRound(r, new, members, plan) ==
    /\ \A q \in rounds : ~(q.root = r /\ q.version = new)
    /\ members \subseteq DOMAIN plan
    /\ \A u \in members : unit[u].state \in {"none", "planned"} /\ QARoundFor(u) = {}

\* members = {} declares no strengthening round.
WithRound(r, new, members, o, plan) ==
    /\ members # {} => ObjectiveRoot[o] = r /\ ValidRound(r, new, members, plan)
    /\ rounds' = IF members = {} THEN rounds
                 ELSE rounds \union {[root |-> r, version |-> new, objective |-> o,
                                      units |-> members, started |-> FALSE]}

\* The first declaration of a root commits its baseline.
Commit(r, new, adds, members, o) ==
    /\ version[r] = 0 /\ new \in 1..MaxVersion
    /\ DOMAIN adds # {} /\ ValidPlan(adds)
    /\ WithRound(r, new, members, o, adds)
    /\ unit' = Plan(adds, {})
    /\ version' = [version EXCEPT ![r] = new]
    /\ recovery' = Account
    /\ UNCHANGED <<allow, failed, contests, bus, claim>>

\* Admitted work is redeclared only unchanged.
AdmittedUnchanged(adds) ==
    \A u \in DOMAIN adds : unit[u].state \in {"none", "planned"} \/ (unit[u].committed /\ unit[u].needs = adds[u])

AddedPrerequisitesSettled(adds, resulting) ==
    \A u \in DOMAIN adds : \A v \in adds[u] : v \in DOMAIN resulting \/ unit[v].state = "settled"

\* A later declaration names the version it revises and applies as a whole, or not at all.
Revise(r, base, new, adds, withdrawn, members, o) ==
    LET resulting == Revised(r, adds, withdrawn) IN
    /\ version[r] # 0 /\ base = version[r] /\ new \in 1..MaxVersion
    /\ DOMAIN adds \cap withdrawn = {}
    /\ ValidPlan(resulting)
    /\ \A u \in withdrawn : unit[u].state = "planned"
    /\ AdmittedUnchanged(adds)
    /\ AddedPrerequisitesSettled(adds, resulting)
    /\ WithRound(r, new, members, o, resulting)
    /\ unit' = Plan(adds, withdrawn)
    /\ version' = [version EXCEPT ![r] = new]
    /\ recovery' = Account
    /\ UNCHANGED <<allow, failed, contests, bus, claim>>

-----------------------------------------------------------------------------
(* The store, as the protocol meets it *)

\* A running unit's tool call: one row under a fresh call, and possibly work staged.
Work(u) ==
    /\ InFlight(u) /\ Len(bus) < MaxBus
    /\ bus' = Append(bus, <<u, Max({0} \union {bus[i][2] : i \in DOMAIN bus}) + 1>>)
    /\ claim' = [claim EXCEPT ![u] = IF @ = "none" THEN @ ELSE "staged"]
    /\ UNCHANGED <<unit, recovery, version, budgets>>

\* A call repeated is refused, and the refusal is a row under the same call.
Repeat(i) ==
    /\ i \in DOMAIN bus /\ InFlight(bus[i][1]) /\ Len(bus) < MaxBus
    /\ bus' = Append(bus, bus[i])
    /\ UNCHANGED <<unit, recovery, version, budgets, claim>>

\* The journal is put back to an older copy: what was counted before is counted no more.
LoseJournal ==
    /\ bus # <<>>
    /\ bus' = SubSeq(bus, 1, Len(bus) - 1)
    /\ recovery' = [o \in Objectives |-> [recovery[o] EXCEPT !.since = IF @ > Len(bus) THEN @ ELSE Len(bus)]]
    /\ UNCHANGED <<unit, version, budgets, claim>>

\* The orchestrator assigns the unit its paths, and consolidates what it staged: the store
\* consults its own gates and never a recovery.
AssignClaim(u) ==
    /\ claim[u] = "none"
    /\ claim' = [claim EXCEPT ![u] = "owned"]
    /\ UNCHANGED <<unit, recovery, version, budgets, bus>>

Consolidate(u) ==
    /\ claim[u] = "staged"
    /\ claim' = [claim EXCEPT ![u] = "none"]
    /\ UNCHANGED <<unit, recovery, version, budgets, bus>>

-----------------------------------------------------------------------------
(* The system *)

\* Commands on the bounded recoveries.
RecoveryStep ==
    \/ Tick
    \/ \E o \in Objectives : AccountInPart(o)
    \/ \E o \in Objectives, scope \in SUBSET Units, m \in 1..MaxActions, n \in 1..MaxAttempts :
          DeclareRecovery(o, scope, m, n)
    \/ \E o \in Objectives, d \in BOOLEAN : CloseRecovery(o, d)
    \/ \E b \in Bounds : Except(b[1], b[2])
    \/ \E o \in Objectives : \E released, rolledBack \in SUBSET recovery[o].scope :
          Restore(o, released, rolledBack)

PlanStep ==
    \E r \in Roots : \E plan \in Plans(r), members \in RoundInputs, o \in Objectives, new \in 1..MaxVersion :
        \/ Commit(r, new, plan, members, o)
        \/ \E withdrawn \in SUBSET DOMAIN CurrentPlan(r) :
              Revise(r, version[r], new, plan, withdrawn, members, o)

\* Facts that consume no budget.
FactStep ==
    \/ \E u \in Units : \/ Withdraw(u) \/ ReconcileRunning(u)
                        \/ \E kind \in Flights : Observe(u, kind)
    \/ \E f \in failed : Contest(f[1], f[2])

\* What the store and its journal do meanwhile.
StoreStep ==
    \/ \E u \in Units : Work(u) \/ AssignClaim(u) \/ Consolidate(u)
    \/ \E i \in DOMAIN bus : Repeat(i)
    \/ LoseJournal

\* Steps that reach no execution.
Protocol == RecoveryStep \/ PlanStep \/ FactStep \/ StoreStep

\* Commands on the execution of a unit.
Lifecycle ==
    \/ \E c \in Calls : Admit(c)
    \/ \E u \in Units : Launch(u) \/ Terminated(u, FALSE) \/ ReconcileNonStart(u)

DNext == Protocol \/ Lifecycle
DSpec == DInit /\ [][DNext]_dvars

-----------------------------------------------------------------------------
(* Properties *)

\* A unit belongs to one unresolved recovery at most, so its actions and attempts are
\* counted against one: an abandoned scope stays taken until it is restored, since an
\* exception can reopen it (recovery.go scopeOwner).
ScopesDisjoint ==
    \A o, p \in Objectives :
      o # p /\ ObjectiveRoot[o] = ObjectiveRoot[p] /\ Unresolved(recovery[o]) /\ Unresolved(recovery[p])
        => recovery[o].scope \cap recovery[p].scope = {}

\* What the scope of a recovery did since it was declared, as the journal has it.
Consumption(o) ==
    {bus[i][2] : i \in {j \in DOMAIN bus : j > recovery[o].since /\ bus[j][1] \in recovery[o].scope}}

\* No attempt starts in a recovery whose actions are spent: the journal rows nothing has
\* accounted yet count against the admission (coordinate's Account before decide).
AdmissionSeesConsumption ==
    [][\A o \in Objectives, c \in Calls :
         unit'[CallUnit[c]].call = c /\ unit[CallUnit[c]].call # c /\ o \in Scopes(CallUnit[c], recovery)
           => Cardinality(Consumption(o)) < recovery[o].actions + allow[<<"actions", o>>]]_dvars

\* An objective starts no more strengthening rounds than its budget and its exceptions
\* allow, over every plan version (plan.go qaRoundEntries, dispatch.go decide).
RoundsAreBounded ==
    \A o \in Objectives : StrengtheningUsed(o) <= MaxAttempts + allow[<<"qa", o>>]

\* The harness never reactivates an abandoned line but by an exception on the bound that
\* abandoned it, or once its scope is restored.
AbandonedUntilExcepted ==
    [][\A o \in Objectives : recovery[o].backtracked /\ ~recovery[o].restored /\ ~recovery'[o].backtracked
         => allow' # allow]_dvars

\* The plan that stands is never cyclic.
PlanIsAcyclic == \A r \in Roots : Acyclic(CurrentPlan(r))
=============================================================================
