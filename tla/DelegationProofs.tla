--------------------------- MODULE DelegationProofs ---------------------------
(***************************************************************************)
(* What holds of Dispatch, and of Delegation built over it, for every value *)
(* of the constants: recoveries keep apart and within their budgets, and an *)
(* execution is settled only over work that is over.                       *)
(***************************************************************************)
EXTENDS Delegation, FiniteSetTheorems, SequenceTheorems, TLAPS

(***************************************************************************)
(* ScopesDisjoint, RoundsAreBounded and AdmissionSeesConsumption hold of    *)
(* Dispatch for every value of its constants.                              *)
(*                                                                         *)
(* A recovery becomes unresolved only when it is declared, over units no    *)
(* unresolved recovery of their root contains; every other command leaves   *)
(* the scopes as they are and resolves at most.  The accounting that begins *)
(* each command is one of those that keep: it may abandon a scope, which    *)
(* stays taken.  What a recovery counted is at least the calls of its scope *)
(* up to its cursor, and what is past the cursor is counted by the command  *)
(* that admits before it decides.                                          *)
(***************************************************************************)

\* A recovery has its fields, and those that say whether it is resolved are Booleans.
IsRecovery(r) ==
    /\ {"open", "scope", "backtracked", "restored"} \subseteq DOMAIN r
    /\ r.open \in BOOLEAN /\ r.backtracked \in BOOLEAN /\ r.restored \in BOOLEAN

\* r is what a command makes of the recovery q without declaring it anew.
Continues(r, q) ==
    /\ IsRecovery(r)
    /\ r.scope = q.scope
    /\ Unresolved(r) => Unresolved(q)

Recoveries == \A o \in Objectives : IsRecovery(recovery[o])

IsTable(rec) == rec = [o \in Objectives |-> rec[o]]

\* The inductive invariant.
IInv == IsTable(recovery) /\ Recoveries /\ ScopesDisjoint

-----------------------------------------------------------------------------
(* One recovery *)

LEMMA Reflexive ==
    ASSUME NEW r, IsRecovery(r) PROVE Continues(r, r)
BY DEF Continues

LEMMA Transitive ==
    ASSUME NEW p, NEW q, NEW r, Continues(p, q), Continues(q, r) PROVE Continues(p, r)
BY DEF Continues

\* Counting the journal changes no scope and resolves nothing.
LEMMA CountedContinues ==
    ASSUME NEW r, IsRecovery(r), NEW x, NEW y
    PROVE  Continues([r EXCEPT !.used = x, !.cursor = y], r)
BY DEF IsRecovery, Continues, Unresolved

LEMMA ConsumedContinues ==
    ASSUME NEW o \in Objectives, IsRecovery(recovery[o])
    PROVE  Continues(Consumed(o), recovery[o])
<1> DEFINE n == Cardinality(ScopeActions(o))
<1>1. CASE n = 0
    BY <1>1, Reflexive DEF Consumed
<1>2. CASE n # 0
    <2>1. Consumed(o) = [recovery[o] EXCEPT !.used = recovery[o].used + n, !.cursor = Len(bus)]
        BY <1>2 DEF Consumed
    <2>2. Continues([recovery[o] EXCEPT !.used = recovery[o].used + n, !.cursor = Len(bus)], recovery[o])
        BY CountedContinues
    <2> QED BY <2>1, <2>2
<1> QED BY <1>1, <1>2

\* Only an open recovery is abandoned, so what is taken afterwards was taken before.
LEMMA AbandonedContinues ==
    ASSUME NEW r, IsRecovery(r), r.open, NEW x, NEW why
    PROVE  Continues([r EXCEPT !.open = FALSE, !.backtracked = TRUE, !.failures = x, !.cause = why], r)
BY DEF IsRecovery, Continues, Unresolved

LEMMA BacktrackContinues ==
    ASSUME NEW o \in Objectives, NEW r, IsRecovery(r), r.open
    PROVE  Continues(Backtrack(o, r), r)
<1> DEFINE why == IF r.used >= r.actions + allow[<<"actions", o>>] THEN "actions" ELSE "attempts"
<1>1. Backtrack(o, r) = [r EXCEPT !.open = FALSE, !.backtracked = TRUE,
                                  !.failures = r.failures + 1, !.cause = why]
    BY DEF Backtrack
<1>2. Continues([r EXCEPT !.open = FALSE, !.backtracked = TRUE,
                          !.failures = r.failures + 1, !.cause = why], r)
    BY AbandonedContinues
<1> QED BY <1>1, <1>2

LEMMA AccountContinues ==
    ASSUME NEW o \in Objectives, IsRecovery(recovery[o])
    PROVE  Continues(Account[o], recovery[o])
<1>1. CASE ~Accountable(o)
    BY <1>1, Reflexive DEF Account
<1>2. CASE Accountable(o)
    <2>1. Account[o] = AccountRecovery(o)
        BY <1>2 DEF Account
    <2>2. CASE Len(bus) < recovery[o].cursor
        <3>1. AccountRecovery(o) = [recovery[o] EXCEPT !.unreconciled = TRUE]
            BY <2>2 DEF AccountRecovery
        <3> QED BY <2>1, <3>1 DEF Continues, IsRecovery, Unresolved
    <2>3. CASE ~(Len(bus) < recovery[o].cursor)
        <3>1. AccountRecovery(o) \in {Consumed(o), Backtrack(o, Consumed(o))}
            BY <2>3 DEF AccountRecovery
        <3>2. Continues(Consumed(o), recovery[o])
            BY ConsumedContinues
        <3>3. Consumed(o).open
            <4>1. recovery[o].open
                BY <1>2 DEF Accountable
            <4> QED BY <4>1 DEF Consumed, IsRecovery
        <3>4. Continues(Backtrack(o, Consumed(o)), Consumed(o))
            BY <3>2, <3>3, BacktrackContinues DEF Continues
        <3> QED BY <2>1, <3>1, <3>2, <3>4, Transitive
    <2> QED BY <2>2, <2>3
<1> QED BY <1>1, <1>2

-----------------------------------------------------------------------------
(* The table of recoveries *)

\* A step that continues every recovery keeps the invariant.
LEMMA ContinuesPreserves ==
    ASSUME IInv, IsTable(recovery'),
           \A o \in Objectives : Continues(recovery'[o], recovery[o])
    PROVE  IInv'
<1>1. Recoveries'
    BY DEF Recoveries, Continues
<1>2. ScopesDisjoint'
    BY DEF IInv, ScopesDisjoint, Continues
<1> QED BY <1>1, <1>2 DEF IInv

LEMMA AccountIsTable == IsTable(Account)
BY DEF IsTable, Account

\* What one command does to the recovery of one objective after the accounting.
LEMMA UpdatePreserves ==
    ASSUME IInv, NEW o \in Objectives, NEW r,
           Continues(r, Account[o]), recovery' = [Account EXCEPT ![o] = r]
    PROVE  IInv'
<1>1. IsTable(recovery')
    BY AccountIsTable DEF IsTable
<1>2. ASSUME NEW p \in Objectives PROVE Continues(recovery'[p], recovery[p])
    <2>1. Continues(Account[p], recovery[p])
        BY AccountContinues DEF IInv, Recoveries
    <2>2. recovery'[p] = IF p = o THEN r ELSE Account[p]
        BY AccountIsTable DEF IsTable
    <2> QED BY <2>1, <2>2, Transitive
<1> QED BY <1>1, <1>2, ContinuesPreserves

LEMMA AccountPreserves ==
    ASSUME IInv, recovery' = Account PROVE IInv'
<1>1. \A o \in Objectives : Continues(recovery'[o], recovery[o])
    BY AccountContinues DEF IInv, Recoveries
<1>2. IsTable(recovery')
    BY AccountIsTable
<1> QED BY <1>1, <1>2, ContinuesPreserves

LEMMA AccountedAreRecoveries ==
    ASSUME IInv PROVE \A o \in Objectives : IsRecovery(Account[o])
BY AccountContinues DEF IInv, Recoveries, Continues

-----------------------------------------------------------------------------
(* The commands that change a recovery beyond the accounting *)

LEMMA UnchangedPreserves ==
    ASSUME IInv, UNCHANGED recovery PROVE IInv'
<1>1. \A o \in Objectives : Continues(recovery'[o], recovery[o])
    BY Reflexive DEF IInv, Recoveries
<1> QED BY <1>1, ContinuesPreserves DEF IInv, IsTable

LEMMA AccountInPartPreserves ==
    ASSUME IInv, NEW o \in Objectives, AccountInPart(o) PROVE IInv'
<1>1. recovery' = [recovery EXCEPT ![o] = Consumed(o)]
    BY DEF AccountInPart
<1>2. IsTable(recovery')
    BY <1>1 DEF IInv, IsTable
<1>3. ASSUME NEW p \in Objectives PROVE Continues(recovery'[p], recovery[p])
    <2>1. recovery'[p] = IF p = o THEN Consumed(o) ELSE recovery[p]
        BY <1>1 DEF IInv, IsTable
    <2>2. IsRecovery(recovery[p])
        BY DEF IInv, Recoveries
    <2> QED BY <2>1, <2>2, ConsumedContinues, Reflexive
<1> QED BY <1>2, <1>3, ContinuesPreserves

\* An admission counts an attempt of each recovery it falls in.
LEMMA AdmitPreserves ==
    ASSUME IInv, NEW c \in Calls, Admit(c) PROVE IInv'
<1> DEFINE u == CallUnit[c]
           n == NextAttempt(u)
<1>1. recovery' = [o \in Objectives |->
          IF o \in Scopes(u, Account) THEN [Account[o] EXCEPT !.attempted = @ \union {<<u, n>>}]
          ELSE Account[o]]
    BY DEF Admit
<1> HIDE DEF u, n
<1>2. IsTable(recovery')
    BY <1>1 DEF IsTable
<1>3. ASSUME NEW o \in Objectives PROVE Continues(recovery'[o], recovery[o])
    <2>1. Continues(Account[o], recovery[o])
        BY AccountContinues DEF IInv, Recoveries
    <2>2. IsRecovery(Account[o])
        BY <2>1 DEF Continues
    <2>3. ASSUME NEW x PROVE Continues([Account[o] EXCEPT !.attempted = x], Account[o])
        <3> DEFINE r == Account[o]
        <3>1. IsRecovery(r)
            BY <2>2
        <3> HIDE DEF r
        <3>2. Continues([r EXCEPT !.attempted = x], r)
            BY <3>1 DEF Continues, IsRecovery, Unresolved
        <3> QED BY <3>2 DEF r
    <2>4. Continues([Account[o] EXCEPT !.attempted = Account[o].attempted \union {<<u, n>>}], Account[o])
        BY <2>3
    <2>5. Continues(recovery'[o], Account[o])
        BY <1>1, <2>2, <2>4, Reflexive
    <2> QED BY <2>1, <2>5, Transitive
<1> QED BY <1>2, <1>3, ContinuesPreserves

LEMMA CloseRecoveryPreserves ==
    ASSUME IInv, NEW o \in Objectives, NEW d, CloseRecovery(o, d) PROVE IInv'
<1> DEFINE r == Account[o]
           n == IF d THEN 0 ELSE r.failures + 1
<1>1. recovery' = [Account EXCEPT ![o] = [r EXCEPT !.open = FALSE, !.failures = n]]
    BY AccountIsTable DEF CloseRecovery, IsTable
<1>2. IsRecovery(r) /\ r.open
    BY AccountedAreRecoveries DEF CloseRecovery
<1>3. Continues([r EXCEPT !.open = FALSE, !.failures = n], r)
    <2> HIDE DEF r, n
    <2> QED BY <1>2 DEF Continues, IsRecovery, Unresolved
<1> QED
    <2> HIDE DEF r, n
    <2>1. Continues([r EXCEPT !.open = FALSE, !.failures = n], Account[o])
        BY <1>3 DEF r
    <2> QED BY <1>1, <2>1, UpdatePreserves

LEMMA RestorePreserves ==
    ASSUME IInv, NEW o \in Objectives, NEW released, NEW rolledBack, Restore(o, released, rolledBack)
    PROVE  IInv'
<1> DEFINE r == Account[o]
           all == released = {u \in r.scope : claim[u] # "none"}
<1>1. recovery' = [Account EXCEPT ![o] = [r EXCEPT !.restored = all]]
    BY AccountIsTable DEF Restore, IsTable
<1>2. IsRecovery(r) /\ r.backtracked /\ ~r.restored /\ all \in BOOLEAN
    BY AccountedAreRecoveries DEF Restore
<1>3. Continues([r EXCEPT !.restored = all], r)
    <2> HIDE DEF r, all
    <2> QED BY <1>2 DEF Continues, IsRecovery, Unresolved
<1> QED
    <2> HIDE DEF r, all
    <2>1. Continues([r EXCEPT !.restored = all], Account[o])
        BY <1>3 DEF r
    <2> QED BY <1>1, <2>1, UpdatePreserves

\* An exception reopens only a scope that is still taken.
LEMMA ExceptPreserves ==
    ASSUME IInv, NEW bound, NEW x, Except(bound, x) PROVE IInv'
<1> DEFINE spent == bound \in {"actions", "attempts"}
           r == Account[x]
           lifted == spent /\ r.backtracked /\ ~r.restored
           lift(un, cursor, since, cause, failures) ==
               [r EXCEPT !.unreconciled = un, !.cursor = cursor, !.since = since,
                         !.open = r.open \/ lifted, !.backtracked = r.backtracked /\ ~lifted,
                         !.cause = cause, !.failures = failures]
<1>1. CASE ~spent
    BY <1>1, AccountPreserves DEF Except
<1>2. CASE spent
    <2>1. x \in Objectives
        BY <1>2 DEF Except, Bounds, Uncapped, Scoped
    <2>2. IsRecovery(r)
        BY <2>1, AccountedAreRecoveries
    <2>3. PICK un, cursor, since, cause, failures :
              recovery' = [Account EXCEPT ![x] = lift(un, cursor, since, cause, failures)]
        <3> DEFINE un == r.unreconciled /\ bound # "actions"
                   cursor == IF bound = "actions" THEN Len(bus) ELSE r.cursor
                   since == IF bound = "actions" THEN Len(bus) ELSE r.since
                   cause == IF lifted THEN "none" ELSE r.cause
                   failures == IF lifted /\ r.failures > 0 THEN r.failures - 1 ELSE r.failures
        <3>1. recovery' = [Account EXCEPT ![x] = lift(un, cursor, since, cause, failures)]
            BY <1>2, Zenon DEF Except
        <3> HIDE DEF un, cursor, since, cause, failures
        <3> QED BY <3>1, Zenon
    <2>4. (lifted => Unresolved(r)) /\ lifted \in BOOLEAN
        BY DEF Unresolved
    <2> DEFINE q == lift(un, cursor, since, cause, failures)
    <2>5. Continues(q, Account[x])
        <3> HIDE DEF r, lifted
        <3>1. Continues(q, r)
            BY <2>2, <2>4 DEF Continues, IsRecovery, Unresolved
        <3> QED BY <3>1 DEF r
    <2> HIDE DEF q
    <2>6. recovery' = [Account EXCEPT ![x] = q]
        BY <2>3 DEF q
    <2> QED BY <2>1, <2>5, <2>6, UpdatePreserves
<1> QED BY <1>1, <1>2

\* The journal takes no scope with it.
LEMMA LoseJournalPreserves ==
    ASSUME IInv, LoseJournal PROVE IInv'
<1>1. IsTable(recovery')
    BY DEF LoseJournal, IsTable
<1>2. ASSUME NEW o \in Objectives PROVE Continues(recovery'[o], recovery[o])
    <2> DEFINE r == recovery[o]
    <2>1. PICK m : recovery'[o] = [r EXCEPT !.since = m]
        BY DEF LoseJournal
    <2>2. IsRecovery(r)
        BY DEF IInv, Recoveries
    <2> HIDE DEF r
    <2>3. Continues([r EXCEPT !.since = m], r)
        BY <2>2 DEF Continues, IsRecovery, Unresolved
    <2> QED BY <2>1, <2>3 DEF r
<1> QED BY <1>1, <1>2, ContinuesPreserves

\* A recovery takes units that no unresolved one of their root contains.
LEMMA DeclareRecoveryPreserves ==
    ASSUME IInv, NEW o \in Objectives, NEW scope, NEW m, NEW n, DeclareRecovery(o, scope, m, n)
    PROVE  IInv'
<1> DEFINE r == recovery'[o]
<1>1. IsTable(recovery')
    BY AccountIsTable DEF DeclareRecovery, IsTable
<1>2. IsRecovery(r) /\ r.scope = scope
    BY AccountIsTable DEF DeclareRecovery, IsTable, NoRecovery, IsRecovery
<1>3. \A p \in Objectives : p # o => recovery'[p] = Account[p]
    BY AccountIsTable DEF DeclareRecovery, IsTable
<1>4. \A p \in Objectives : Continues(Account[p], recovery[p])
    BY AccountContinues DEF IInv, Recoveries
<1>5. Recoveries'
    <2>1. ASSUME NEW p \in Objectives PROVE IsRecovery(recovery'[p])
        BY <1>2, <1>3, AccountedAreRecoveries
    <2> QED BY <2>1 DEF Recoveries
\* Nothing else of the root that is unresolved has a unit of the scope.
<1>6. ASSUME NEW p \in Objectives, p # o, ObjectiveRoot[p] = ObjectiveRoot[o], Unresolved(recovery'[p])
      PROVE  recovery'[p].scope \cap scope = {}
    <2>1. ASSUME NEW u \in scope PROVE u \notin Account[p].scope
        <3>1. RootOf[u] = ObjectiveRoot[o] /\ Scopes(u, Account) = {}
            BY DEF DeclareRecovery
        <3>2. Unresolved(Account[p])
            BY <1>3, <1>6
        <3> QED BY <1>6, <3>1, <3>2 DEF Scopes
    <2> QED BY <1>3, <1>6, <2>1
<1>7. ScopesDisjoint'
    <2>1. ASSUME NEW p \in Objectives, NEW q \in Objectives, p # q,
                 ObjectiveRoot[p] = ObjectiveRoot[q],
                 Unresolved(recovery'[p]), Unresolved(recovery'[q])
          PROVE  recovery'[p].scope \cap recovery'[q].scope = {}
        <3>1. CASE p = o
            BY <1>2, <1>6, <2>1, <3>1
        <3>2. CASE q = o
            BY <1>2, <1>6, <2>1, <3>2
        <3>3. CASE p # o /\ q # o
            BY <1>3, <1>4, <2>1, <3>3 DEF IInv, ScopesDisjoint, Continues
        <3> QED BY <3>1, <3>2, <3>3
    <2> QED BY <2>1 DEF ScopesDisjoint, Unresolved
<1> QED BY <1>1, <1>5, <1>7 DEF IInv

-----------------------------------------------------------------------------
(* The invariant *)

LEMMA InitEstablishes == DInit => IInv
<1> SUFFICES ASSUME DInit PROVE IInv
    OBVIOUS
<1>1. \A o \in Objectives : recovery[o] = NoRecovery
    BY DEF DInit
<1>2. IsTable(recovery)
    BY DEF DInit, IsTable
<1>3. IsRecovery(NoRecovery) /\ ~Unresolved(NoRecovery)
    BY DEF IsRecovery, Unresolved, NoRecovery
<1> QED BY <1>1, <1>2, <1>3 DEF IInv, Recoveries, ScopesDisjoint

LEMMA RecoveryStepPreserves == IInv /\ RecoveryStep => IInv'
<1> SUFFICES ASSUME IInv, RecoveryStep PROVE IInv'
    OBVIOUS
<1>1. CASE Tick
    BY <1>1, AccountPreserves DEF Tick
<1>2. CASE \E o \in Objectives : AccountInPart(o)
    BY <1>2, AccountInPartPreserves
<1>3. CASE \E o \in Objectives, scope \in SUBSET Units, m \in 1..MaxActions, n \in 1..MaxAttempts :
              DeclareRecovery(o, scope, m, n)
    BY <1>3, DeclareRecoveryPreserves
<1>4. CASE \E o \in Objectives, d \in BOOLEAN : CloseRecovery(o, d)
    BY <1>4, CloseRecoveryPreserves
<1>5. CASE \E b \in Bounds : Except(b[1], b[2])
    BY <1>5, ExceptPreserves
<1>6. CASE \E o \in Objectives : \E released, rolledBack \in SUBSET recovery[o].scope :
              Restore(o, released, rolledBack)
    BY <1>6, RestorePreserves
<1> QED BY <1>1, <1>2, <1>3, <1>4, <1>5, <1>6 DEF RecoveryStep

\* The other commands account, or leave the recoveries alone.
LEMMA PlanStepPreserves == IInv /\ PlanStep => IInv'
<1>1. PlanStep => recovery' = Account
    BY DEF PlanStep, Commit, Revise
<1> QED BY <1>1, AccountPreserves

LEMMA FactStepPreserves == IInv /\ FactStep => IInv'
<1>1. FactStep => recovery' = Account
    BY DEF FactStep, Withdraw, ReconcileRunning, Observe, Flight, Contest
<1> QED BY <1>1, AccountPreserves

LEMMA StoreStepPreserves == IInv /\ StoreStep => IInv'
<1>1. StoreStep => LoseJournal \/ UNCHANGED recovery
    BY DEF StoreStep, Work, AssignClaim, Consolidate, Repeat
<1> QED BY <1>1, LoseJournalPreserves, UnchangedPreserves

LEMMA ProtocolPreserves == IInv /\ Protocol => IInv'
BY RecoveryStepPreserves, PlanStepPreserves, FactStepPreserves, StoreStepPreserves DEF Protocol

LEMMA LifecyclePreserves == IInv /\ Lifecycle => IInv'
<1> SUFFICES ASSUME IInv, Lifecycle PROVE IInv'
    OBVIOUS
<1>1. ASSUME NEW c \in Calls, Admit(c) PROVE IInv'
    BY <1>1, AdmitPreserves
<1>2. ASSUME NEW u \in Units, Launch(u) PROVE IInv'
    BY <1>2, AccountPreserves DEF Launch, Flight
<1>3. ASSUME NEW u \in Units, NEW nonStart \in BOOLEAN, Terminated(u, nonStart) PROVE IInv'
    BY <1>3, AccountPreserves DEF Terminated
<1>4. ASSUME NEW u \in Units, ReconcileNonStart(u) PROVE IInv'
    BY <1>3, <1>4 DEF ReconcileNonStart
<1> QED BY <1>1, <1>2, <1>3, <1>4 DEF Lifecycle

LEMMA StepPreserves == IInv /\ [DNext]_dvars => IInv'
<1>1. IInv /\ UNCHANGED dvars => IInv'
    BY UnchangedPreserves DEF dvars
<1> QED BY <1>1, ProtocolPreserves, LifecyclePreserves DEF DNext

\* In every behaviour a unit's actions and attempts count against one recovery at most,
\* however often scopes are declared, exhausted, excepted, closed and restored
\* (recovery.go scopeOwner), for any number of roots, objectives and units.
THEOREM RecoveriesKeepApart == DSpec => []ScopesDisjoint
<1>1. IInv => ScopesDisjoint
    BY DEF IInv
<1> QED BY <1>1, InitEstablishes, StepPreserves, PTL DEF DSpec

-----------------------------------------------------------------------------
(* Units *)

UnitFields == {"state", "attempt", "call", "flight", "outcome", "launched", "cancel", "committed", "needs"}

\* Every unit has its fields.
UnitRecords ==
    /\ unit = [u \in Units |-> unit[u]]
    /\ \A u \in Units : UnitFields \subseteq DOMAIN unit[u]

\* The step leaves the flight of the unit, and what holds it, as they are.
Steady(u) ==
    /\ InFlight(u)' <=> InFlight(u)
    /\ unit'[u].call = unit[u].call
    /\ InFlight(u) => unit'[u].attempt = unit[u].attempt

LEMMA UnitUpdated ==
    ASSUME UnitRecords, NEW u \in Units, NEW s, UnitFields \subseteq DOMAIN s,
           unit' = [unit EXCEPT ![u] = s]
    PROVE  UnitRecords' /\ unit'[u] = s /\ \A w \in Units \ {u} : unit'[w] = unit[w]
BY DEF UnitRecords

LEMMA FlightKeeps ==
    ASSUME UnitRecords, NEW u \in Units, NEW kind, Flight(u, kind)
    PROVE  UnitRecords' /\ \A w \in Units : Steady(w)
<1> DEFINE x == unit[u]
           s == [x EXCEPT !.flight = kind, !.launched = x.launched \/ kind = "running",
                          !.cancel = x.cancel \/ kind = "cancelling"]
<1>1. UnitFields \subseteq DOMAIN x /\ x.state = "in flight"
    BY DEF UnitRecords, Flight, InFlight
<1>2. unit' = [unit EXCEPT ![u] = s]
    BY <1>1 DEF Flight, UnitRecords, UnitFields
<1>3. UnitFields \subseteq DOMAIN s /\ s.state = "in flight" /\ s.call = x.call /\ s.attempt = x.attempt
    <2> HIDE DEF x
    <2> QED BY <1>1 DEF UnitFields
<1> HIDE DEF s
<1>4. UnitRecords' /\ unit'[u] = s /\ \A w \in Units \ {u} : unit'[w] = unit[w]
    BY <1>2, <1>3, UnitUpdated
<1> QED BY <1>1, <1>3, <1>4 DEF Steady, InFlight

LEMMA WithdrawKeeps ==
    ASSUME UnitRecords, NEW u \in Units, Withdraw(u)
    PROVE  UnitRecords' /\ \A w \in Units : Steady(w)
<1> DEFINE s == [unit[u] EXCEPT !.state = "withdrawn"]
<1>1. unit[u].state = "planned" /\ unit' = [unit EXCEPT ![u] = s]
    BY DEF Withdraw, UnitRecords
<1>2. UnitFields \subseteq DOMAIN s /\ s.state = "withdrawn" /\ s.call = unit[u].call
    BY DEF UnitRecords, UnitFields
<1> HIDE DEF s
<1>3. UnitRecords' /\ unit'[u] = s /\ \A w \in Units \ {u} : unit'[w] = unit[w]
    BY <1>1, <1>2, UnitUpdated
<1> QED BY <1>1, <1>2, <1>3 DEF Steady, InFlight

\* A plan reaches no unit in flight.
LEMMA PlanKeeps ==
    ASSUME UnitRecords, NEW adds, NEW withdrawn, unit' = Plan(adds, withdrawn),
           \A u \in Units \cap withdrawn : unit[u].state = "planned"
    PROVE  UnitRecords' /\ \A w \in Units : Steady(w)
<1>1. ASSUME NEW u \in Units PROVE UnitFields \subseteq DOMAIN unit'[u] /\ Steady(u)
    <2> DEFINE x == unit[u]
    <2>1. UnitFields \subseteq DOMAIN x
        BY DEF UnitRecords
    <2>2. CASE u \in withdrawn
        <3>1. unit'[u] = [x EXCEPT !.state = "withdrawn"] /\ x.state = "planned"
            BY <2>2 DEF Plan
        <3>2. UnitFields \subseteq DOMAIN unit'[u] /\ unit'[u].state = "withdrawn" /\ unit'[u].call = x.call
            <4> HIDE DEF x
            <4> QED BY <2>1, <3>1 DEF UnitFields
        <3> QED BY <3>1, <3>2 DEF Steady, InFlight
    <2>3. CASE u \notin withdrawn /\ u \in DOMAIN adds /\ x.state \in {"none", "planned"}
        <3>1. unit'[u] = [x EXCEPT !.state = "planned", !.attempt = 1, !.committed = TRUE, !.needs = adds[u]]
            BY <2>3 DEF Plan
        <3>2. UnitFields \subseteq DOMAIN unit'[u] /\ unit'[u].state = "planned" /\ unit'[u].call = x.call
            <4> HIDE DEF x
            <4> QED BY <2>1, <3>1 DEF UnitFields
        <3> QED BY <2>3, <3>2 DEF Steady, InFlight
    <2>4. CASE u \notin withdrawn /\ ~(u \in DOMAIN adds /\ x.state \in {"none", "planned"})
        <3>1. unit'[u] = x
            BY <2>4 DEF Plan
        <3> QED BY <2>1, <3>1 DEF Steady, InFlight
    <2> QED BY <2>2, <2>3, <2>4
<1>2. unit' = [u \in Units |-> unit'[u]]
    BY DEF Plan
<1> QED BY <1>1, <1>2 DEF UnitRecords

LEMMA SameUnits ==
    ASSUME UnitRecords, UNCHANGED unit PROVE UnitRecords' /\ \A w \in Units : Steady(w)
BY DEF UnitRecords, Steady, InFlight

\* No other command reaches the flight of a unit.
LEMMA ProtocolKeeps ==
    ASSUME UnitRecords, Protocol PROVE UnitRecords' /\ \A w \in Units : Steady(w)
<1>1. CASE RecoveryStep
    <2>1. UNCHANGED unit
        BY <1>1 DEF RecoveryStep, Tick, AccountInPart, DeclareRecovery, CloseRecovery, Except, Restore
    <2> QED BY <2>1, SameUnits
<1>2. CASE PlanStep
    <2>1. PICK r \in Roots : \E plan \in Plans(r), members \in RoundInputs, o \in Objectives, new \in 1..MaxVersion :
              \/ Commit(r, new, plan, members, o)
              \/ \E withdrawn \in SUBSET DOMAIN CurrentPlan(r) :
                    Revise(r, version[r], new, plan, withdrawn, members, o)
        BY <1>2 DEF PlanStep
    <2>2. ASSUME NEW plan, NEW members, NEW o, NEW new, Commit(r, new, plan, members, o)
          PROVE  UnitRecords' /\ \A w \in Units : Steady(w)
        BY <2>2, PlanKeeps DEF Commit
    <2>3. ASSUME NEW plan, NEW members, NEW o, NEW new, NEW withdrawn,
                 Revise(r, version[r], new, plan, withdrawn, members, o)
          PROVE  UnitRecords' /\ \A w \in Units : Steady(w)
        BY <2>3, PlanKeeps DEF Revise
    <2> QED BY <2>1, <2>2, <2>3
<1>3. CASE FactStep
    <2>1. ASSUME NEW u \in Units, Withdraw(u) PROVE UnitRecords' /\ \A w \in Units : Steady(w)
        BY <2>1, WithdrawKeeps
    <2>2. ASSUME NEW u \in Units, NEW kind, Flight(u, kind) PROVE UnitRecords' /\ \A w \in Units : Steady(w)
        BY <2>2, FlightKeeps
    <2>3. ASSUME NEW f, Contest(f[1], f[2]) PROVE UnitRecords' /\ \A w \in Units : Steady(w)
        BY <2>3, SameUnits DEF Contest
    <2> QED BY <1>3, <2>1, <2>2, <2>3 DEF FactStep, ReconcileRunning, Observe
<1>4. CASE StoreStep
    <2>1. UNCHANGED unit
        BY <1>4 DEF StoreStep, Work, AssignClaim, Consolidate, Repeat, LoseJournal
    <2> QED BY <2>1, SameUnits
<1> QED BY <1>1, <1>2, <1>3, <1>4 DEF Protocol

LEMMA AdmitTakes ==
    ASSUME UnitRecords, NEW c \in Calls, Admit(c)
    PROVE  /\ UnitRecords'
           /\ ~InFlight(CallUnit[c]) /\ InFlight(CallUnit[c])' /\ unit'[CallUnit[c]].call = c
           /\ \A w \in Units \ {CallUnit[c]} : unit'[w] = unit[w]
<1> DEFINE u == CallUnit[c]
           x == unit[u]
           s == [x EXCEPT !.state = "in flight", !.attempt = NextAttempt(u), !.call = c, !.flight = "pending",
                          !.outcome = "none", !.launched = FALSE, !.cancel = FALSE]
<1>1. u \in Units
    BY DispatchAssumption
<1>2. UnitFields \subseteq DOMAIN x
    BY <1>1 DEF UnitRecords
<1>3. unit' = [unit EXCEPT ![u] = s]
    BY <1>1 DEF Admit, UnitRecords
<1>4. UnitFields \subseteq DOMAIN s /\ s.state = "in flight" /\ s.call = c
    <2> HIDE DEF x, u
    <2> QED BY <1>2 DEF UnitFields
<1> HIDE DEF s
<1>5. UnitRecords' /\ unit'[u] = s /\ \A w \in Units \ {u} : unit'[w] = unit[w]
    BY <1>1, <1>3, <1>4, UnitUpdated
<1>6. ~InFlight(u)
    BY DEF Admit, Admissible, InFlight
<1> QED BY <1>4, <1>5, <1>6 DEF InFlight

\* Whatever ends the attempt of a unit leaves the dispatch that held it recorded.
LEMMA EndedUnit ==
    ASSUME UnitRecords, NEW u \in Units, NEW s, unit' = [unit EXCEPT ![u] = s],
           UnitFields \subseteq DOMAIN s, s.state = "settled", s.call = unit[u].call
    PROVE  /\ UnitRecords'
           /\ ~InFlight(u)' /\ unit'[u].call = unit[u].call
           /\ \A w \in Units \ {u} : unit'[w] = unit[w]
BY UnitUpdated DEF InFlight

LEMMA TerminatedEnds ==
    ASSUME UnitRecords, NEW u \in Units, NEW nonStart, Terminated(u, nonStart)
    PROVE  /\ UnitRecords' /\ InFlight(u)
           /\ ~InFlight(u)' /\ unit'[u].call = unit[u].call
           /\ \A w \in Units \ {u} : unit'[w] = unit[w]
<1> DEFINE x == unit[u]
           how == Outcome(u, nonStart, Account)
           s == [x EXCEPT !.state = "settled", !.flight = "none", !.outcome = how]
<1>1. UnitFields \subseteq DOMAIN x
    BY DEF UnitRecords
<1>2. unit' = [unit EXCEPT ![u] = s] /\ InFlight(u)
    <2> HIDE DEF how
    <2>1. unit' = [unit EXCEPT ![u].state = "settled", ![u].flight = "none", ![u].outcome = how] /\ InFlight(u)
        BY Zenon DEF Terminated, how
    <2> QED BY <2>1 DEF UnitRecords
<1>3. UnitFields \subseteq DOMAIN s /\ s.state = "settled" /\ s.call = x.call
    <2> HIDE DEF x, how
    <2> QED BY <1>1 DEF UnitFields
<1> HIDE DEF s
<1> QED BY <1>2, <1>3, EndedUnit

LEMMA AbandonEnds ==
    ASSUME UnitRecords, NEW u \in Units, NEW how,
           unit' = [unit EXCEPT ![u].state = "settled", ![u].flight = "none", ![u].cancel = TRUE, ![u].outcome = how]
    PROVE  /\ UnitRecords'
           /\ ~InFlight(u)' /\ unit'[u].call = unit[u].call
           /\ \A w \in Units \ {u} : unit'[w] = unit[w]
<1> DEFINE x == unit[u]
           s == [x EXCEPT !.state = "settled", !.flight = "none", !.cancel = TRUE, !.outcome = how]
<1>1. UnitFields \subseteq DOMAIN x
    BY DEF UnitRecords
<1>2. unit' = [unit EXCEPT ![u] = s]
    BY DEF UnitRecords
<1>3. UnitFields \subseteq DOMAIN s /\ s.state = "settled" /\ s.call = x.call
    <2> HIDE DEF x
    <2> QED BY <1>1 DEF UnitFields
<1> HIDE DEF s
<1> QED BY <1>2, <1>3, EndedUnit

-----------------------------------------------------------------------------
(* Strengthening rounds *)

RoundFields == {"root", "version", "objective", "units", "started"}

\* The inductive invariant of the rounds: a unit is of one round of its root at most, so
\* an admission starts one at most, and finds the budget that decides on it.
RoundsInv ==
    /\ IsFiniteSet(rounds)
    /\ \A q \in rounds : DOMAIN q = RoundFields /\ q = [x \in RoundFields |-> q[x]] /\ q.started \in BOOLEAN
    /\ allow \in [Bounds -> Nat]
    /\ \A u \in Units : \A p, q \in QARoundFor(u) : p = q
    /\ RoundsAreBounded

Started(o) == {q \in rounds : q.objective = o /\ q.started}

LEMMA StartedIsFinite ==
    ASSUME IsFiniteSet(rounds), NEW o PROVE IsFiniteSet(Started(o)) /\ Cardinality(Started(o)) \in Nat
BY FS_Subset, FS_CardinalityType DEF Started

\* Budgets only grow.
LEMMA SameRoundsKeep ==
    ASSUME RoundsInv, UNCHANGED rounds, allow' \in [Bounds -> Nat], \A b \in Bounds : allow'[b] >= allow[b]
    PROVE  RoundsInv'
<1>1. RoundsAreBounded'
    <2>1. ASSUME NEW o \in Objectives PROVE StrengtheningUsed(o)' <= MaxAttempts + allow'[<<"qa", o>>]
        <3>1. StrengtheningUsed(o)' = Cardinality(Started(o)) /\ StrengtheningUsed(o) = Cardinality(Started(o))
            BY DEF StrengtheningUsed, Started, RoundsInv
        <3>2. Cardinality(Started(o)) \in Nat
            BY StartedIsFinite DEF RoundsInv
        <3>3. <<"qa", o>> \in Bounds
            BY DEF Bounds, Scoped
        <3>4. allow[<<"qa", o>>] \in Nat /\ allow'[<<"qa", o>>] \in Nat /\ MaxAttempts \in Nat
            BY <3>3, DispatchAssumption DEF RoundsInv
        <3>5. StrengtheningUsed(o) <= MaxAttempts + allow[<<"qa", o>>]
            BY DEF RoundsInv, RoundsAreBounded
        <3> QED BY <3>1, <3>2, <3>3, <3>4, <3>5
    <2> QED BY <2>1 DEF RoundsAreBounded
<1> QED BY <1>1 DEF RoundsInv, QARoundFor

LEMMA UnstartedRoundKeeps ==
    ASSUME RoundsInv, UNCHANGED allow, NEW q, DOMAIN q = RoundFields, q = [x \in RoundFields |-> q[x]],
           q.started = FALSE, rounds' = rounds \union {q}, \A u \in q.units : QARoundFor(u) = {}
    PROVE  RoundsInv'
<1>1. IsFiniteSet(rounds')
    BY FS_AddElement DEF RoundsInv
<1>2. \A p \in rounds' : DOMAIN p = RoundFields /\ p = [x \in RoundFields |-> p[x]] /\ p.started \in BOOLEAN
    BY DEF RoundsInv
<1>3. ASSUME NEW u \in Units, NEW p \in QARoundFor(u)', NEW r \in QARoundFor(u)' PROVE p = r
    <2>1. CASE u \in q.units
        BY <1>3, <2>1 DEF QARoundFor
    <2>2. CASE u \notin q.units
        BY <1>3, <2>2 DEF QARoundFor, RoundsInv
    <2> QED BY <2>1, <2>2
<1>4. ASSUME NEW o \in Objectives PROVE StrengtheningUsed(o)' = StrengtheningUsed(o)
    <2>1. {p \in rounds' : p.objective = o /\ p.started} = {p \in rounds : p.objective = o /\ p.started}
        OBVIOUS
    <2> QED BY <2>1 DEF StrengtheningUsed
<1>5. RoundsAreBounded'
    BY <1>4 DEF RoundsInv, RoundsAreBounded
<1> QED BY <1>1, <1>2, <1>3, <1>5 DEF RoundsInv

LEMMA WithRoundKeeps ==
    ASSUME RoundsInv, UNCHANGED allow, NEW r, NEW new, NEW members, NEW o, NEW plan,
           WithRound(r, new, members, o, plan)
    PROVE  RoundsInv'
<1>1. CASE members = {}
    <2>1. UNCHANGED rounds
        BY <1>1 DEF WithRound
    <2> QED BY <2>1 DEF RoundsInv, QARoundFor, RoundsAreBounded, StrengtheningUsed
<1>2. CASE members # {}
    <2> DEFINE q == [root |-> r, version |-> new, objective |-> o, units |-> members, started |-> FALSE]
    <2>1. rounds' = rounds \union {q} /\ \A u \in members : QARoundFor(u) = {}
        BY <1>2 DEF WithRound, ValidRound
    <2>2. DOMAIN q = RoundFields /\ q = [x \in RoundFields |-> q[x]] /\ q.started = FALSE /\ q.units = members
        BY DEF RoundFields
    <2> HIDE DEF q
    <2> QED BY <2>1, <2>2, UnstartedRoundKeeps
<1> QED BY <1>1, <1>2

LEMMA StartingARoundKeeps ==
    ASSUME RoundsInv, UNCHANGED allow, NEW u \in Units, NEW q \in QARoundFor(u), NEW s,
           DOMAIN s = RoundFields, s = [x \in RoundFields |-> s[x]], s.started = TRUE,
           s.root = q.root, s.units = q.units, s.objective = q.objective,
           q.objective \in Objectives => StrengtheningUsed(q.objective) < MaxAttempts + allow[<<"qa", q.objective>>],
           ~q.started, rounds' = (rounds \ {q}) \union {s}
    PROVE  RoundsInv'
<1>1. IsFiniteSet(rounds')
    BY FS_AddElement, FS_RemoveElement DEF RoundsInv
<1>2. \A p \in rounds' : DOMAIN p = RoundFields /\ p = [x \in RoundFields |-> p[x]] /\ p.started \in BOOLEAN
    BY DEF RoundsInv
<1>3. q \in rounds
    BY DEF QARoundFor
<1>4. ASSUME NEW w \in Units, NEW p \in QARoundFor(w)', NEW r \in QARoundFor(w)' PROVE p = r
    <2>1. ASSUME NEW t \in QARoundFor(w)', t # s PROVE t \in QARoundFor(w) /\ t # q
        BY <2>1 DEF QARoundFor
    <2>2. s \in QARoundFor(w)' => q \in QARoundFor(w)
        BY <1>3 DEF QARoundFor
    <2>3. \A x, y \in QARoundFor(w) : x = y
        BY DEF RoundsInv
    <2> QED BY <1>4, <2>1, <2>2, <2>3
<1>5. ASSUME NEW o \in Objectives PROVE StrengtheningUsed(o)' <= MaxAttempts + allow'[<<"qa", o>>]
    <2>1. StrengtheningUsed(o) = Cardinality(Started(o)) /\ StrengtheningUsed(o)' = Cardinality(Started(o)')
        BY DEF StrengtheningUsed, Started
    <2>2. IsFiniteSet(Started(o)) /\ Cardinality(Started(o)) \in Nat
        BY StartedIsFinite DEF RoundsInv
    <2>3. CASE o # q.objective
        <3>1. Started(o)' = Started(o)
            BY <1>3, <2>3 DEF Started
        <3> QED BY <2>1, <3>1 DEF RoundsInv, RoundsAreBounded
    <2>4. CASE o = q.objective
        <3>1. Started(o)' = Started(o) \union {s}
            BY <1>3, <2>4 DEF Started
        <3>2. Cardinality(Started(o)') \in {Cardinality(Started(o)), Cardinality(Started(o)) + 1}
            BY <2>2, <3>1, FS_AddElement
        <3>3. <<"qa", o>> \in Bounds
            BY DEF Bounds, Scoped
        <3>4. allow[<<"qa", o>>] \in Nat /\ MaxAttempts \in Nat
            BY <3>3, DispatchAssumption DEF RoundsInv
        <3> QED BY <2>1, <2>2, <2>4, <3>2, <3>4
    <2> QED BY <2>3, <2>4
<1> QED BY <1>1, <1>2, <1>4, <1>5 DEF RoundsInv, RoundsAreBounded

\* An admission starts the one round of its unit, which a bound decided on unless it had
\* started already.
LEMMA AdmitKeepsRounds ==
    ASSUME RoundsInv, NEW c \in Calls, Admit(c) PROVE RoundsInv'
<1> DEFINE u == CallUnit[c]
<1>1. u \in Units
    BY DispatchAssumption
<1>2. /\ UNCHANGED allow
      /\ rounds' = (rounds \ QARoundFor(u)) \union {[q EXCEPT !.started = TRUE] : q \in QARoundFor(u)}
      /\ \A q \in QARoundFor(u) : q.started \/ StrengtheningUsed(q.objective) < MaxAttempts + allow[<<"qa", q.objective>>]
    BY DEF Admit, Admissible
<1> HIDE DEF u
<1>3. CASE QARoundFor(u) = {}
    <2>1. UNCHANGED rounds
        BY <1>2, <1>3
    <2> QED BY <1>2, <2>1 DEF RoundsInv, QARoundFor, RoundsAreBounded, StrengtheningUsed
<1>4. ASSUME NEW q \in QARoundFor(u) PROVE RoundsInv'
    <2> DEFINE s == [q EXCEPT !.started = TRUE]
    <2>1. q \in rounds /\ DOMAIN q = RoundFields /\ q = [x \in RoundFields |-> q[x]] /\ q.started \in BOOLEAN
        BY DEF QARoundFor, RoundsInv
    <2>2. QARoundFor(u) = {q}
        BY <1>1 DEF RoundsInv
    <2>3. /\ DOMAIN s = RoundFields /\ s = [x \in RoundFields |-> s[x]] /\ s.started = TRUE
          /\ s.root = q.root /\ s.units = q.units /\ s.objective = q.objective
        BY <2>1 DEF RoundFields
    <2>4. q.started => s = q
        BY <2>1
    <2>5. rounds' = (rounds \ {q}) \union {s}
        BY <1>2, <2>2
    <2> HIDE DEF s
    <2>6. CASE q.started
        <3>1. UNCHANGED rounds
            BY <2>1, <2>4, <2>5, <2>6
        <3> QED BY <1>2, <3>1 DEF RoundsInv, QARoundFor, RoundsAreBounded, StrengtheningUsed
    <2>7. CASE ~q.started
        BY <1>1, <1>2, <2>3, <2>5, <2>7, StartingARoundKeeps
    <2> QED BY <2>6, <2>7
<1> QED BY <1>3, <1>4

LEMMA ExceptKeepsRounds ==
    ASSUME RoundsInv, NEW bound, NEW x, Except(bound, x) PROVE RoundsInv'
<1> DEFINE k == <<bound, x>>
<1>1. allow' = [allow EXCEPT ![k] = allow[k] + 1] /\ UNCHANGED rounds
    BY DEF Except
<1> HIDE DEF k
<1>2. allow \in [Bounds -> Nat]
    BY DEF RoundsInv
<1>3. \A b \in Bounds : allow'[b] = IF b = k THEN allow[b] + 1 ELSE allow[b]
    BY <1>1, <1>2
<1>4. \A b \in Bounds : allow'[b] \in Nat /\ allow'[b] >= allow[b]
    BY <1>2, <1>3
<1>5. allow' \in [Bounds -> Nat]
    BY <1>1, <1>2, <1>4
<1> QED BY <1>1, <1>4, <1>5, SameRoundsKeep

LEMMA OthersKeepRounds ==
    ASSUME RoundsInv, UNCHANGED <<rounds, allow>> PROVE RoundsInv'
BY DEF RoundsInv, QARoundFor, RoundsAreBounded, StrengtheningUsed

LEMMA RoundsStep == RoundsInv /\ [DNext]_dvars => RoundsInv'
<1> SUFFICES ASSUME RoundsInv, [DNext]_dvars PROVE RoundsInv'
    OBVIOUS
<1>1. CASE RecoveryStep
    <2>1. ASSUME NEW b \in Bounds, Except(b[1], b[2]) PROVE RoundsInv'
        BY <2>1, ExceptKeepsRounds
    <2>2. RecoveryStep => UNCHANGED <<rounds, allow>> \/ \E b \in Bounds : Except(b[1], b[2])
        BY DEF RecoveryStep, Tick, AccountInPart, DeclareRecovery, CloseRecovery, Restore, budgets
    <2> QED BY <1>1, <2>1, <2>2, OthersKeepRounds
<1>2. CASE PlanStep
    <2>1. ASSUME NEW r, NEW new, NEW plan, NEW members, NEW o, Commit(r, new, plan, members, o)
          PROVE  RoundsInv'
        BY <2>1, WithRoundKeeps DEF Commit
    <2>2. ASSUME NEW r, NEW base, NEW new, NEW plan, NEW withdrawn, NEW members, NEW o,
                 Revise(r, base, new, plan, withdrawn, members, o)
          PROVE  RoundsInv'
        BY <2>2, WithRoundKeeps DEF Revise
    <2> QED BY <1>2, <2>1, <2>2 DEF PlanStep
<1>3. CASE FactStep
    <2>1. UNCHANGED <<rounds, allow>>
        BY <1>3 DEF FactStep, Withdraw, ReconcileRunning, Observe, Flight, Contest, budgets
    <2> QED BY <2>1, OthersKeepRounds
<1>4. CASE StoreStep
    <2>1. UNCHANGED <<rounds, allow>>
        BY <1>4 DEF StoreStep, Work, AssignClaim, Consolidate, Repeat, LoseJournal, budgets
    <2> QED BY <2>1, OthersKeepRounds
<1>5. ASSUME NEW c \in Calls, Admit(c) PROVE RoundsInv'
    BY <1>5, AdmitKeepsRounds
<1>6. ASSUME NEW u \in Units, Launch(u) \/ Terminated(u, FALSE) \/ ReconcileNonStart(u) PROVE RoundsInv'
    <2>1. UNCHANGED <<rounds, allow>>
        BY <1>6 DEF Launch, Flight, Terminated, ReconcileNonStart, budgets
    <2> QED BY <2>1, OthersKeepRounds
<1>7. CASE UNCHANGED dvars
    BY <1>7, OthersKeepRounds DEF dvars, budgets
<1> QED BY <1>1, <1>2, <1>3, <1>4, <1>5, <1>6, <1>7 DEF DNext, Protocol, Lifecycle

LEMMA RoundsInit == DInit => RoundsInv
<1> SUFFICES ASSUME DInit PROVE RoundsInv
    OBVIOUS
<1>1. rounds = {} /\ allow \in [Bounds -> Nat]
    BY DEF DInit
<1>2. IsFiniteSet({}) /\ Cardinality({}) = 0
    BY FS_EmptySet
<1>3. ASSUME NEW o \in Objectives PROVE StrengtheningUsed(o) <= MaxAttempts + allow[<<"qa", o>>]
    <2>1. StrengtheningUsed(o) = 0
        <3>1. {q \in rounds : q.objective = o /\ q.started} = {}
            BY <1>1
        <3> QED BY <1>2, <3>1 DEF StrengtheningUsed
    <2>2. <<"qa", o>> \in Bounds
        BY DEF Bounds, Scoped
    <2>3. allow[<<"qa", o>>] \in Nat /\ MaxAttempts \in Nat
        BY <1>1, <2>2, DispatchAssumption
    <2> QED BY <2>1, <2>3
<1> QED BY <1>1, <1>2, <1>3 DEF RoundsInv, QARoundFor, RoundsAreBounded

\* However plans are declared and revised, and their rounds admitted, retried and excepted,
\* an objective starts no more strengthening rounds than its budget and its exceptions
\* allow (dispatch.go decide, plan.go qaRoundEntries), for any number of them.
THEOREM StrengtheningIsBounded == DSpec => []RoundsAreBounded
<1>1. RoundsInv => RoundsAreBounded
    BY DEF RoundsInv
<1> QED BY <1>1, RoundsInit, RoundsStep, PTL DEF DSpec

-----------------------------------------------------------------------------
(* The consumption of a recovery *)

\* Calls of the scope in the rows of journal b between where the count begins and the cursor.
Counted(r, b) == {b[i][2] : i \in {j \in DOMAIN b : j > r.since /\ j <= r.cursor /\ b[j][1] \in r.scope}}

\* The bookkeeping of a recovery: its fields, and that what it counted is all of the scope's
\* calls up to the cursor.  A cursor past the journal has nothing to count from.
Books(r) ==
    /\ {"open", "scope", "actions", "used", "cursor", "since", "backtracked", "restored", "unreconciled"}
         \subseteq DOMAIN r
    /\ {r.open, r.backtracked, r.restored, r.unreconciled} \subseteq BOOLEAN
    /\ {r.used, r.cursor, r.since, r.actions} \subseteq Nat
    /\ r.open => ~r.restored

Sound(r, b) ==
    /\ Books(r)
    /\ r.cursor <= Len(b) \/ r.cursor <= r.since
    /\ Cardinality(Counted(r, b)) <= r.used

IsJournal(b) == \E S : b \in Seq(S)

ActionsInv ==
    /\ IsTable(recovery)
    /\ IsJournal(bus)
    /\ \A o \in Objectives : Sound(recovery[o], bus)

LEMMA JournalLength ==
    ASSUME NEW b, IsJournal(b) PROVE Len(b) \in Nat /\ DOMAIN b = 1..Len(b)
<1>1. PICK S : b \in Seq(S)
    BY DEF IsJournal
<1> QED BY <1>1, LenProperties

\* The calls of finitely many rows are finitely many.
LEMMA CallsAreFinite ==
    ASSUME NEW b, IsJournal(b), NEW I \in SUBSET DOMAIN b
    PROVE  IsFiniteSet({b[i][2] : i \in I}) /\ Cardinality({b[i][2] : i \in I}) \in Nat
<1> DEFINE T == {b[i][2] : i \in I}
           f == [i \in I |-> b[i][2]]
<1>1. IsFiniteSet(I)
    BY JournalLength, FS_Interval, FS_Subset
<1>2. f \in Surjection(I, T)
    BY DEF Surjection
<1>3. IsFiniteSet(T)
    <2> HIDE DEF f, T
    <2> QED BY <1>1, <1>2, FS_Surjection
<1> QED BY <1>3, FS_CardinalityType

LEMMA CountedIsFinite ==
    ASSUME NEW r, NEW b, IsJournal(b)
    PROVE  IsFiniteSet(Counted(r, b)) /\ Cardinality(Counted(r, b)) \in Nat
<1> DEFINE I == {j \in DOMAIN b : j > r.since /\ j <= r.cursor /\ b[j][1] \in r.scope}
<1>1. I \in SUBSET DOMAIN b /\ Counted(r, b) = {b[i][2] : i \in I}
    BY DEF Counted
<1> HIDE DEF I
<1> QED BY <1>1, CallsAreFinite

\* What changes neither the count nor what it is of.
LEMMA SameCount ==
    ASSUME NEW q, NEW r, NEW b, Sound(q, b), Books(r),
           r.scope = q.scope, r.used = q.used, r.cursor = q.cursor, r.since = q.since
    PROVE  Sound(r, b)
<1>1. Counted(r, b) = Counted(q, b)
    BY DEF Counted
<1> QED BY <1>1 DEF Sound

\* A count that begins here has counted nothing.
LEMMA FreshCount ==
    ASSUME NEW r, NEW b, IsJournal(b), Books(r), r.cursor = Len(b), r.since = Len(b)
    PROVE  Sound(r, b)
<1>1. r.used \in Nat /\ Len(b) \in Nat /\ DOMAIN b = 1..Len(b)
    BY JournalLength DEF Books
<1>2. Counted(r, b) = {}
    BY <1>1 DEF Counted
<1> QED BY <1>1, <1>2, FS_EmptySet DEF Sound

-----------------------------------------------------------------------------
(* Accounting keeps the books *)

\* What the scope did is what was counted and what its next accounting will find.
LEMMA ConsumptionIsAccounted ==
    ASSUME ActionsInv, NEW o \in Objectives
    PROVE  /\ Consumption(o) \subseteq Counted(recovery[o], bus) \union ScopeActions(o)
           /\ IsFiniteSet(ScopeActions(o)) /\ Cardinality(ScopeActions(o)) \in Nat
           /\ IsFiniteSet(Consumption(o)) /\ Cardinality(Consumption(o)) \in Nat
           /\ Cardinality(Consumption(o)) <= recovery[o].used + Cardinality(ScopeActions(o))
<1> DEFINE r == recovery[o]
           I == {j \in DOMAIN bus : j > r.cursor /\ bus[j][1] \in r.scope}
           J == {j \in DOMAIN bus : j > r.since /\ bus[j][1] \in r.scope}
           C == Counted(r, bus)
           A == ScopeActions(o)
           D == Consumption(o)
<1>1. Sound(r, bus) /\ IsJournal(bus)
    BY DEF ActionsInv
<1>2. r.cursor \in Nat /\ r.used \in Nat /\ Len(bus) \in Nat /\ DOMAIN bus = 1..Len(bus)
    BY <1>1, JournalLength DEF Sound, Books
<1>3. D \subseteq C \union A
    BY <1>2 DEF Consumption, Counted, ScopeActions
<1>4. IsFiniteSet(A) /\ Cardinality(A) \in Nat
    <2>1. I \in SUBSET DOMAIN bus /\ A = {bus[i][2] : i \in I}
        BY DEF ScopeActions
    <2> HIDE DEF I, A
    <2> QED BY <1>1, <2>1, CallsAreFinite
<1>5. IsFiniteSet(D) /\ Cardinality(D) \in Nat
    <2>1. J \in SUBSET DOMAIN bus /\ D = {bus[i][2] : i \in J}
        BY DEF Consumption
    <2> HIDE DEF J, D
    <2> QED BY <1>1, <2>1, CallsAreFinite
<1>6. IsFiniteSet(C) /\ Cardinality(C) \in Nat /\ Cardinality(C) <= r.used
    BY <1>1, CountedIsFinite DEF Sound
<1>7. Cardinality(D) <= r.used + Cardinality(A)
    <2> HIDE DEF A, C, D, r
    <2>1. IsFiniteSet(C \union A) /\ Cardinality(C \union A) = Cardinality(C) + Cardinality(A) - Cardinality(C \cap A)
        BY <1>4, <1>6, FS_Union
    <2>2. Cardinality(D) <= Cardinality(C \union A)
        BY <1>3, <2>1, FS_Subset
    <2>3. Cardinality(C \cap A) \in Nat
        BY <1>6, FS_Intersection, FS_CardinalityType
    <2> QED BY <1>2, <1>4, <1>5, <1>6, <2>1, <2>2, <2>3
<1> QED BY <1>3, <1>4, <1>5, <1>7

LEMMA ConsumedSound ==
    ASSUME ActionsInv, NEW o \in Objectives
    PROVE  /\ Sound(Consumed(o), bus)
           /\ Consumed(o).open = recovery[o].open /\ Consumed(o).unreconciled = recovery[o].unreconciled
           /\ Consumed(o).scope = recovery[o].scope /\ Consumed(o).actions = recovery[o].actions
           /\ Consumed(o).restored = recovery[o].restored
           /\ Consumed(o).used = recovery[o].used + Cardinality(ScopeActions(o))
<1> DEFINE r == recovery[o]
           n == Cardinality(ScopeActions(o))
           m == r.used + n
           s == [r EXCEPT !.used = m, !.cursor = Len(bus)]
<1>1. Sound(r, bus) /\ IsJournal(bus)
    BY DEF ActionsInv
<1>2. n \in Nat /\ r.used \in Nat /\ m \in Nat /\ Len(bus) \in Nat /\ DOMAIN bus = 1..Len(bus)
    BY <1>1, ConsumptionIsAccounted, JournalLength DEF Sound, Books
<1>3. CASE n = 0
    BY <1>1, <1>2, <1>3 DEF Consumed
<1>4. CASE n # 0
    <2>1. Consumed(o) = s
        BY <1>4 DEF Consumed
    <2>2. /\ Books(s) /\ s.scope = r.scope /\ s.used = m /\ s.cursor = Len(bus) /\ s.since = r.since
          /\ s.open = r.open /\ s.unreconciled = r.unreconciled /\ s.actions = r.actions /\ s.restored = r.restored
        <3>1. Books(r)
            BY <1>1 DEF Sound
        <3> HIDE DEF r, m
        <3> QED BY <1>2, <3>1 DEF Books
    <2> HIDE DEF s
    <2>3. Counted(s, bus) = Consumption(o)
        BY <1>2, <2>2 DEF Counted, Consumption
    <2>4. Cardinality(Counted(s, bus)) <= m
        BY <2>3, ConsumptionIsAccounted
    <2>5. Sound(s, bus)
        BY <1>2, <2>2, <2>4 DEF Sound
    <2> QED BY <2>1, <2>2, <2>5
<1> QED BY <1>3, <1>4

\* The scope is abandoned with its count.
LEMMA BacktrackSound ==
    ASSUME NEW o \in Objectives, NEW r, NEW b, Sound(r, b)
    PROVE  /\ Sound(Backtrack(o, r), b) /\ ~Backtrack(o, r).open
           /\ Backtrack(o, r).scope = r.scope /\ Backtrack(o, r).backtracked
           /\ Backtrack(o, r).restored = r.restored
<1> DEFINE why == IF r.used >= r.actions + allow[<<"actions", o>>] THEN "actions" ELSE "attempts"
           m == r.failures + 1
           s == [r EXCEPT !.open = FALSE, !.backtracked = TRUE, !.failures = m, !.cause = why]
<1>1. Backtrack(o, r) = s
    BY DEF Backtrack
<1>2. /\ Books(s) /\ s.scope = r.scope /\ s.used = r.used /\ s.cursor = r.cursor /\ s.since = r.since
      /\ s.open = FALSE /\ s.backtracked = TRUE /\ s.restored = r.restored
    <2> HIDE DEF why, m
    <2> QED BY DEF Sound, Books
<1> HIDE DEF s
<1> QED BY <1>1, <1>2, SameCount

\* What a command finds: the books kept, no scope given up, and a recovery that still admits
\* fully counted.
LEMMA AccountSound ==
    ASSUME ActionsInv, NEW o \in Objectives
    PROVE  /\ Sound(Account[o], bus)
           /\ Account[o].scope = recovery[o].scope
           /\ Unresolved(recovery[o]) => Unresolved(Account[o])
           /\ Account[o].open /\ ~Account[o].unreconciled => Account[o] = Consumed(o)
<1> DEFINE r == recovery[o]
<1>1. Sound(r, bus) /\ Books(r)
    BY DEF ActionsInv, Sound
<1>2. CASE ~Accountable(o)
    BY <1>1, <1>2 DEF Account, Accountable
<1>3. CASE Accountable(o)
    <2>1. Account[o] = AccountRecovery(o) /\ r.open /\ ~r.restored /\ ~r.unreconciled
        BY <1>1, <1>3 DEF Account, Accountable, Books
    <2>2. CASE Len(bus) < r.cursor
        <3> DEFINE s == [r EXCEPT !.unreconciled = TRUE]
        <3>1. Account[o] = s
            BY <2>1, <2>2 DEF AccountRecovery
        <3>2. /\ Books(s) /\ s.scope = r.scope /\ s.used = r.used /\ s.cursor = r.cursor /\ s.since = r.since
              /\ s.open = r.open /\ s.unreconciled = TRUE
            <4> HIDE DEF r
            <4> QED BY <1>1 DEF Books
        <3> HIDE DEF s
        <3>3. Sound(s, bus)
            BY <1>1, <3>2, SameCount
        <3> QED BY <2>1, <3>1, <3>2, <3>3 DEF Unresolved
    <2>3. CASE ~(Len(bus) < r.cursor)
        <3> DEFINE q == Consumed(o)
        <3>1. Account[o] \in {q, Backtrack(o, q)}
            BY <2>1, <2>3 DEF AccountRecovery
        <3>2. Sound(q, bus) /\ q.open = r.open /\ q.scope = r.scope /\ q.restored = r.restored
            BY ConsumedSound
        <3> HIDE DEF q
        <3>3. CASE Account[o] = q
            BY <2>1, <3>2, <3>3 DEF Unresolved, q
        <3>4. CASE Account[o] = Backtrack(o, q)
            BY <2>1, <3>2, <3>4, BacktrackSound DEF Unresolved
        <3> QED BY <3>1, <3>3, <3>4
    <2> QED BY <2>2, <2>3
<1> QED BY <1>2, <1>3

\* A step that leaves the journal alone and keeps every set of books.
LEMMA SoundPreserves ==
    ASSUME ActionsInv, UNCHANGED bus, IsTable(recovery'), \A o \in Objectives : Sound(recovery'[o], bus)
    PROVE  ActionsInv'
BY DEF ActionsInv, IsTable

LEMMA AccountKeepsBooks ==
    ASSUME ActionsInv, UNCHANGED bus, recovery' = Account PROVE ActionsInv'
BY AccountSound, AccountIsTable, SoundPreserves

LEMMA UpdateKeepsBooks ==
    ASSUME ActionsInv, UNCHANGED bus, NEW o \in Objectives, NEW r, Sound(r, bus),
           recovery' = [Account EXCEPT ![o] = r]
    PROVE  ActionsInv'
<1>1. \A p \in Objectives : recovery'[p] = IF p = o THEN r ELSE Account[p]
    BY AccountIsTable DEF IsTable
<1>2. IsTable(recovery')
    BY AccountIsTable DEF IsTable
<1> QED BY <1>1, <1>2, AccountSound, SoundPreserves

LEMMA AccountInPartKeepsBooks ==
    ASSUME ActionsInv, NEW o \in Objectives, AccountInPart(o) PROVE ActionsInv'
<1>1. recovery' = [recovery EXCEPT ![o] = Consumed(o)] /\ UNCHANGED bus
    BY DEF AccountInPart
<1>2. IsTable(recovery')
    BY <1>1 DEF ActionsInv, IsTable
<1>3. \A p \in Objectives : recovery'[p] = IF p = o THEN Consumed(o) ELSE recovery[p]
    BY <1>1 DEF ActionsInv, IsTable
<1>4. \A p \in Objectives : Sound(recovery[p], bus)
    BY DEF ActionsInv
<1>5. Sound(Consumed(o), bus)
    BY ConsumedSound
<1> QED BY <1>1, <1>2, <1>3, <1>4, <1>5, SoundPreserves

LEMMA DeclareKeepsBooks ==
    ASSUME ActionsInv, NEW o \in Objectives, NEW scope, NEW m, NEW n, DeclareRecovery(o, scope, m, n)
    PROVE  ActionsInv'
<1> DEFINE k == Account[o].failures
           s == [NoRecovery EXCEPT !.open = TRUE, !.failures = k, !.scope = scope,
                    !.actions = m, !.attempts = n, !.cursor = Len(bus), !.since = Len(bus)]
<1>1. recovery' = [Account EXCEPT ![o] = s] /\ UNCHANGED bus /\ m \in 1..MaxActions
    BY DEF DeclareRecovery
<1>2. IsJournal(bus) /\ Len(bus) \in Nat
    BY JournalLength DEF ActionsInv
<1>3. m \in Nat
    BY <1>1, DispatchAssumption
<1>4. Books(s) /\ s.cursor = Len(bus) /\ s.since = Len(bus)
    <2> HIDE DEF k
    <2> QED BY <1>2, <1>3 DEF Books, NoRecovery
<1> HIDE DEF s
<1> QED BY <1>1, <1>2, <1>4, FreshCount, UpdateKeepsBooks

LEMMA CloseKeepsBooks ==
    ASSUME ActionsInv, NEW o \in Objectives, NEW d, CloseRecovery(o, d) PROVE ActionsInv'
<1> DEFINE r == Account[o]
           n == IF d THEN 0 ELSE r.failures + 1
           s == [r EXCEPT !.open = FALSE, !.failures = n]
<1>1. recovery' = [Account EXCEPT ![o] = s] /\ UNCHANGED bus
    BY AccountIsTable DEF CloseRecovery, IsTable
<1>2. Sound(r, bus)
    BY AccountSound
<1>3. Books(s) /\ s.scope = r.scope /\ s.used = r.used /\ s.cursor = r.cursor /\ s.since = r.since
    <2> HIDE DEF r, n
    <2> QED BY <1>2 DEF Sound, Books
<1> HIDE DEF s
<1>4. Sound(s, bus)
    BY <1>2, <1>3, SameCount
<1> QED BY <1>1, <1>4, UpdateKeepsBooks

LEMMA RestoreKeepsBooks ==
    ASSUME ActionsInv, NEW o \in Objectives, NEW released, NEW rolledBack, Restore(o, released, rolledBack)
    PROVE  ActionsInv'
<1> DEFINE r == Account[o]
           all == released = {u \in r.scope : claim[u] # "none"}
           s == [r EXCEPT !.restored = all]
<1>1. recovery' = [Account EXCEPT ![o] = s] /\ UNCHANGED bus /\ ~r.open /\ all \in BOOLEAN
    BY AccountIsTable DEF Restore, IsTable
<1>2. Sound(r, bus)
    BY AccountSound
<1>3. Books(s) /\ s.scope = r.scope /\ s.used = r.used /\ s.cursor = r.cursor /\ s.since = r.since
    <2> HIDE DEF r, all
    <2> QED BY <1>1, <1>2 DEF Sound, Books
<1> HIDE DEF s
<1>4. Sound(s, bus)
    BY <1>2, <1>3, SameCount
<1> QED BY <1>1, <1>4, UpdateKeepsBooks

\* An exception on actions counts from here; one on attempts leaves the count.
LEMMA ExceptKeepsBooks ==
    ASSUME ActionsInv, NEW bound, NEW x, Except(bound, x) PROVE ActionsInv'
<1> DEFINE spent == bound \in {"actions", "attempts"}
           r == Account[x]
           lifted == spent /\ r.backtracked /\ ~r.restored
           un == r.unreconciled /\ bound # "actions"
           cursor == IF bound = "actions" THEN Len(bus) ELSE r.cursor
           since == IF bound = "actions" THEN Len(bus) ELSE r.since
           cause == IF lifted THEN "none" ELSE r.cause
           failures == IF lifted /\ r.failures > 0 THEN r.failures - 1 ELSE r.failures
           open == r.open \/ lifted
           bt == r.backtracked /\ ~lifted
           s == [r EXCEPT !.unreconciled = un, !.cursor = cursor, !.since = since,
                          !.open = open, !.backtracked = bt, !.cause = cause, !.failures = failures]
<1>1. CASE ~spent
    BY <1>1, AccountKeepsBooks DEF Except
<1>2. CASE spent
    <2>1. x \in Objectives
        BY <1>2 DEF Except, Bounds, Uncapped, Scoped
    <2>2. Sound(r, bus)
        BY <2>1, AccountSound
    <2>3. recovery' = [Account EXCEPT ![x] = s] /\ UNCHANGED bus
        BY <1>2, Zenon DEF Except
    <2>4. IsJournal(bus) /\ Len(bus) \in Nat
        BY JournalLength DEF ActionsInv
    <2>5. un \in BOOLEAN /\ open \in BOOLEAN /\ bt \in BOOLEAN
        OBVIOUS
    <2>6. (open <=> r.open \/ lifted) /\ (lifted => ~r.restored)
        OBVIOUS
    <2>7. /\ DOMAIN s = DOMAIN r
          /\ s.scope = r.scope /\ s.used = r.used /\ s.actions = r.actions /\ s.restored = r.restored
          /\ s.cursor = cursor /\ s.since = since /\ s.open = open /\ s.backtracked = bt /\ s.unreconciled = un
        <3> HIDE DEF r, un, cursor, since, cause, failures, open, bt
        <3> QED BY <2>2 DEF Sound, Books
    <2> HIDE DEF s
    <2>8. CASE bound = "actions"
        <3>1. cursor = Len(bus) /\ since = Len(bus)
            BY <2>8
        <3>2. Books(s)
            <4> HIDE DEF un, cursor, since, open, bt, lifted, r
            <4> QED BY <2>2, <2>4, <2>5, <2>6, <2>7, <3>1 DEF Sound, Books
        <3>3. Sound(s, bus)
            BY <2>4, <2>7, <3>1, <3>2, FreshCount
        <3> QED BY <2>1, <2>3, <3>3, UpdateKeepsBooks
    <2>9. CASE bound # "actions"
        <3>1. cursor = r.cursor /\ since = r.since
            BY <2>9
        <3>2. Books(s)
            <4> HIDE DEF un, cursor, since, open, bt, lifted, r
            <4> QED BY <2>2, <2>5, <2>6, <2>7, <3>1 DEF Sound, Books
        <3>3. Sound(s, bus)
            BY <2>2, <2>7, <3>1, <3>2, SameCount
        <3> QED BY <2>1, <2>3, <3>3, UpdateKeepsBooks
    <2> QED BY <2>8, <2>9
<1> QED BY <1>1, <1>2

LEMMA AdmitKeepsBooks ==
    ASSUME ActionsInv, NEW c \in Calls, Admit(c) PROVE ActionsInv'
<1> DEFINE u == CallUnit[c]
           n == NextAttempt(u)
<1>1. recovery' = [o \in Objectives |->
          IF o \in Scopes(u, Account) THEN [Account[o] EXCEPT !.attempted = @ \union {<<u, n>>}]
          ELSE Account[o]] /\ UNCHANGED bus
    BY DEF Admit
<1> HIDE DEF u, n
<1>2. IsTable(recovery')
    BY <1>1 DEF IsTable
<1>3. ASSUME NEW o \in Objectives PROVE Sound(recovery'[o], bus)
    <2> DEFINE r == Account[o]
               x == r.attempted \union {<<u, n>>}
               s == [r EXCEPT !.attempted = x]
    <2>1. Sound(r, bus)
        BY AccountSound
    <2>2. recovery'[o] \in {r, s}
        BY <1>1
    <2>3. Books(s) /\ s.scope = r.scope /\ s.used = r.used /\ s.cursor = r.cursor /\ s.since = r.since
        <3> HIDE DEF r, x
        <3> QED BY <2>1 DEF Sound, Books
    <2> HIDE DEF s, r
    <2>4. Sound(s, bus)
        BY <2>1, <2>3, SameCount
    <2> QED BY <2>1, <2>2, <2>4
<1> QED BY <1>1, <1>2, <1>3, SoundPreserves

-----------------------------------------------------------------------------
(* What the journal does to the books *)

LEMMA AppendedIsJournal ==
    ASSUME NEW b, IsJournal(b), NEW row
    PROVE  /\ IsJournal(Append(b, row)) /\ Len(Append(b, row)) = Len(b) + 1
           /\ \A i \in 1..Len(b) : Append(b, row)[i] = b[i]
<1>1. PICK S : b \in Seq(S)
    BY DEF IsJournal
<1> DEFINE T == S \union {row}
<1>2. b \in Seq(T)
    <2>1. S \subseteq T
        OBVIOUS
    <2> HIDE DEF T
    <2> QED BY <1>1, <2>1, SeqMonotonic
<1>3. row \in T
    OBVIOUS
<1> HIDE DEF T
<1>4. Append(b, row) \in Seq(T)
    BY <1>2, <1>3, AppendProperties
<1> QED BY <1>2, <1>3, <1>4, AppendProperties DEF IsJournal

\* A new row is past every cursor that counts: it is left to the next accounting.
LEMMA AppendKeepsCount ==
    ASSUME NEW b, IsJournal(b), NEW row, NEW r, Sound(r, b) PROVE Sound(r, Append(b, row))
<1> DEFINE d == Append(b, row)
<1>1. IsJournal(d) /\ Len(d) = Len(b) + 1 /\ \A i \in 1..Len(b) : d[i] = b[i]
    BY AppendedIsJournal
<1> HIDE DEF d
<1>2. Len(b) \in Nat /\ DOMAIN b = 1..Len(b) /\ DOMAIN d = 1..(Len(b) + 1)
    BY <1>1, JournalLength
<1>3. r.cursor \in Nat /\ r.since \in Nat /\ (r.cursor <= Len(b) \/ r.cursor <= r.since)
    BY DEF Sound, Books
<1>4. Counted(r, d) = Counted(r, b)
    <2>1. ASSUME NEW j, j > r.since /\ j <= r.cursor
          PROVE  j \in DOMAIN d <=> j \in DOMAIN b
        BY <1>2, <1>3, <2>1
    <2>2. {j \in DOMAIN d : j > r.since /\ j <= r.cursor /\ d[j][1] \in r.scope}
            = {j \in DOMAIN b : j > r.since /\ j <= r.cursor /\ b[j][1] \in r.scope}
        BY <1>1, <1>2, <2>1
    <2>3. \A j \in DOMAIN b : d[j] = b[j]
        BY <1>1, <1>2
    <2> QED BY <2>2, <2>3 DEF Counted
<1>5. r.cursor <= Len(d) \/ r.cursor <= r.since
    BY <1>1, <1>2, <1>3
<1> QED BY <1>4, <1>5 DEF Sound, d

LEMMA AppendKeepsBooks ==
    ASSUME ActionsInv, UNCHANGED recovery, NEW row, bus' = Append(bus, row) PROVE ActionsInv'
<1>1. IsJournal(bus) /\ \A o \in Objectives : Sound(recovery[o], bus)
    BY DEF ActionsInv
<1>2. IsJournal(Append(bus, row)) /\ \A o \in Objectives : Sound(recovery[o], Append(bus, row))
    BY <1>1, AppendedIsJournal, AppendKeepsCount
<1> QED BY <1>2 DEF ActionsInv, IsTable

\* A journal put back has nothing left of what was counted.
LEMMA LoseJournalKeepsBooks ==
    ASSUME ActionsInv, LoseJournal PROVE ActionsInv'
<1> DEFINE k == Len(bus) - 1
<1>1. IsJournal(bus) /\ Len(bus) \in Nat /\ DOMAIN bus = 1..Len(bus)
    BY JournalLength DEF ActionsInv
<1>2. Len(bus) > 0
    <2>1. PICK S : bus \in Seq(S)
        BY <1>1 DEF IsJournal
    <2> QED BY <2>1, EmptySeq DEF LoseJournal
<1>3. k \in Nat /\ bus' = SubSeq(bus, 1, k)
    BY <1>1, <1>2 DEF LoseJournal
<1>4. IsJournal(bus') /\ Len(bus') = k
    <2>1. PICK S : bus \in Seq(S)
        BY <1>1 DEF IsJournal
    <2>2. \A i \in 1..k : bus[i] \in S
        BY <1>1, <2>1, ElementOfSeq
    <2> HIDE DEF k
    <2>3. SubSeq(bus, 1, k) \in Seq(S) /\ Len(SubSeq(bus, 1, k)) = IF 1 <= k THEN k - 1 + 1 ELSE 0
        BY <1>3, <2>2, SubSeqProperties
    <2> QED BY <1>3, <2>3 DEF IsJournal
<1>5. IsTable(recovery')
    BY DEF LoseJournal, IsTable
<1>6. ASSUME NEW o \in Objectives PROVE Sound(recovery'[o], bus')
    <2> DEFINE r == recovery[o]
               m == IF r.since > Len(bus) THEN r.since ELSE Len(bus)
               s == [r EXCEPT !.since = m]
    <2>1. recovery'[o] = s
        BY DEF LoseJournal
    <2>2. Books(r) /\ r.cursor \in Nat /\ r.since \in Nat /\ (r.cursor <= Len(bus) \/ r.cursor <= r.since)
        BY DEF ActionsInv, Sound, Books
    <2>3. m \in Nat /\ r.cursor <= m
        BY <1>1, <2>2
    <2>4. Books(s) /\ s.cursor = r.cursor /\ s.since = m
        <3> HIDE DEF r, m
        <3> QED BY <2>2, <2>3 DEF Books
    <2> HIDE DEF s, m
    <2>5. s.cursor <= s.since /\ s.used \in Nat /\ s.cursor \in Nat /\ s.since \in Nat
        BY <2>2, <2>3, <2>4 DEF Books
    <2>6. DOMAIN bus' = 1..Len(bus')
        BY <1>4, JournalLength
    <2>7. Counted(s, bus') = {}
        BY <1>3, <1>4, <2>5, <2>6 DEF Counted
    <2>8. Cardinality(Counted(s, bus')) <= s.used
        BY <2>5, <2>7, FS_EmptySet
    <2> QED BY <2>1, <2>4, <2>5, <2>8 DEF Sound
<1> QED BY <1>4, <1>5, <1>6 DEF ActionsInv

-----------------------------------------------------------------------------
(* The admission finds the consumption *)

LEMMA ActionsStep == ActionsInv /\ [DNext]_dvars => ActionsInv'
<1> SUFFICES ASSUME ActionsInv, [DNext]_dvars PROVE ActionsInv'
    OBVIOUS
<1>1. CASE RecoveryStep
    <2>1. CASE Tick
        BY <2>1, AccountKeepsBooks DEF Tick
    <2>2. ASSUME NEW o \in Objectives, AccountInPart(o) PROVE ActionsInv'
        BY <2>2, AccountInPartKeepsBooks
    <2>3. ASSUME NEW o \in Objectives, NEW scope, NEW m, NEW n, DeclareRecovery(o, scope, m, n) PROVE ActionsInv'
        BY <2>3, DeclareKeepsBooks
    <2>4. ASSUME NEW o \in Objectives, NEW d, CloseRecovery(o, d) PROVE ActionsInv'
        BY <2>4, CloseKeepsBooks
    <2>5. ASSUME NEW b, Except(b[1], b[2]) PROVE ActionsInv'
        BY <2>5, ExceptKeepsBooks
    <2>6. ASSUME NEW o \in Objectives, NEW released, NEW rolledBack, Restore(o, released, rolledBack) PROVE ActionsInv'
        BY <2>6, RestoreKeepsBooks
    <2> QED BY <1>1, <2>1, <2>2, <2>3, <2>4, <2>5, <2>6 DEF RecoveryStep
<1>2. CASE PlanStep
    <2>1. recovery' = Account /\ UNCHANGED bus
        BY <1>2 DEF PlanStep, Commit, Revise
    <2> QED BY <2>1, AccountKeepsBooks
<1>3. CASE FactStep
    <2>1. recovery' = Account /\ UNCHANGED bus
        BY <1>3 DEF FactStep, Withdraw, ReconcileRunning, Observe, Flight, Contest
    <2> QED BY <2>1, AccountKeepsBooks
<1>4. CASE StoreStep
    <2>1. ASSUME NEW u \in Units, Work(u) PROVE ActionsInv'
        BY <2>1, AppendKeepsBooks DEF Work
    <2>2. ASSUME NEW i, Repeat(i) PROVE ActionsInv'
        BY <2>2, AppendKeepsBooks DEF Repeat
    <2>3. ASSUME NEW u \in Units, AssignClaim(u) \/ Consolidate(u) PROVE ActionsInv'
        BY <2>3 DEF AssignClaim, Consolidate, ActionsInv, IsTable
    <2>4. ASSUME LoseJournal PROVE ActionsInv'
        BY <2>4, LoseJournalKeepsBooks
    <2> QED BY <1>4, <2>1, <2>2, <2>3, <2>4 DEF StoreStep
<1>5. ASSUME NEW c \in Calls, Admit(c) PROVE ActionsInv'
    BY <1>5, AdmitKeepsBooks
<1>6. ASSUME NEW u \in Units, Launch(u) \/ Terminated(u, FALSE) \/ ReconcileNonStart(u) PROVE ActionsInv'
    <2>1. recovery' = Account /\ UNCHANGED bus
        BY <1>6 DEF Launch, Flight, Terminated, ReconcileNonStart
    <2> QED BY <2>1, AccountKeepsBooks
<1>7. CASE UNCHANGED dvars
    BY <1>7 DEF dvars, ActionsInv, IsTable
<1> QED BY <1>1, <1>2, <1>3, <1>4, <1>5, <1>6, <1>7 DEF DNext, Protocol, Lifecycle

LEMMA ActionsInit == DInit => ActionsInv
<1> SUFFICES ASSUME DInit PROVE ActionsInv
    OBVIOUS
<1>1. IsTable(recovery) /\ \A o \in Objectives : recovery[o] = NoRecovery
    BY DEF DInit, IsTable
<1>2. IsJournal(bus) /\ Len(bus) = 0
    BY EmptySeq DEF DInit, IsJournal
<1>3. Sound(NoRecovery, bus)
    <2>1. Books(NoRecovery) /\ NoRecovery.cursor = 0 /\ NoRecovery.since = 0
        BY DEF Books, NoRecovery
    <2> QED BY <1>2, <2>1, FreshCount
<1> QED BY <1>1, <1>2, <1>3 DEF ActionsInv

LEMMA UnitsStep == UnitRecords /\ [DNext]_dvars => UnitRecords'
<1> SUFFICES ASSUME UnitRecords, [DNext]_dvars PROVE UnitRecords'
    OBVIOUS
<1>1. CASE Protocol
    BY <1>1, ProtocolKeeps
<1>2. ASSUME NEW c \in Calls, Admit(c) PROVE UnitRecords'
    BY <1>2, AdmitTakes
<1>3. ASSUME NEW u \in Units, Launch(u) PROVE UnitRecords'
    BY <1>3, FlightKeeps DEF Launch
<1>4. ASSUME NEW u \in Units, NEW nonStart, Terminated(u, nonStart) PROVE UnitRecords'
    BY <1>4, TerminatedEnds
<1>5. CASE UNCHANGED dvars
    BY <1>5, SameUnits DEF dvars
<1> QED BY <1>1, <1>2, <1>3, <1>4, <1>5 DEF DNext, Lifecycle, ReconcileNonStart

LEMMA UnitsInit == DInit => UnitRecords
BY DEF DInit, UnitRecords, UnitFields, NoUnit

\* Only the admission of a call gives its unit to it.
LEMMA CallsAreAdmitted ==
    ASSUME UnitRecords, [DNext]_dvars, NEW c \in Calls,
           unit'[CallUnit[c]].call = c, unit[CallUnit[c]].call # c
    PROVE  Admit(c)
<1> DEFINE w == CallUnit[c]
<1>1. w \in Units
    BY DispatchAssumption
<1>2. CASE Protocol
    BY <1>1, <1>2, ProtocolKeeps DEF Steady
<1>3. ASSUME NEW d \in Calls, Admit(d) PROVE Admit(c)
    <2>1. unit'[CallUnit[d]].call = d /\ \A x \in Units \ {CallUnit[d]} : unit'[x] = unit[x]
        BY <1>3, AdmitTakes
    <2>2. w = CallUnit[d]
        BY <1>1, <2>1
    <2>3. c = d
        BY <2>1, <2>2
    <2> QED BY <1>3, <2>3
<1>4. ASSUME NEW u \in Units, Launch(u) PROVE FALSE
    BY <1>1, <1>4, FlightKeeps DEF Launch, Steady
<1>5. ASSUME NEW u \in Units, NEW nonStart, Terminated(u, nonStart) PROVE FALSE
    <2>1. unit'[u].call = unit[u].call /\ \A x \in Units \ {u} : unit'[x] = unit[x]
        BY <1>5, TerminatedEnds
    <2> QED BY <1>1, <2>1
<1>6. CASE UNCHANGED dvars
    BY <1>6 DEF dvars
<1> QED BY <1>2, <1>3, <1>4, <1>5, <1>6 DEF DNext, Lifecycle, ReconcileNonStart

\* A recovery the unit was in is one the decision sees, with all the scope did counted.
LEMMA AdmissionIsCounted ==
    ASSUME ActionsInv, allow \in [Bounds -> Nat], NEW c \in Calls, Admit(c), NEW o \in Scopes(CallUnit[c], recovery)
    PROVE  Cardinality(Consumption(o)) < recovery[o].actions + allow[<<"actions", o>>]
<1> DEFINE u == CallUnit[c]
           q == Consumed(o)
           n == Cardinality(ScopeActions(o))
<1>1. o \in Objectives
    BY DEF Scopes
<1>2. o \in Scopes(u, Account)
    BY <1>1, AccountSound DEF Scopes
<1>3. Account[o].open /\ ~Account[o].unreconciled /\ Account[o].used < Account[o].actions + allow[<<"actions", o>>]
    BY <1>2 DEF Admit, Admissible
<1>4. Account[o] = q
    BY <1>1, <1>3, AccountSound
<1>5. q.used = recovery[o].used + n /\ q.actions = recovery[o].actions
    BY <1>1, ConsumedSound
<1>6. Cardinality(Consumption(o)) <= recovery[o].used + n /\ Cardinality(Consumption(o)) \in Nat /\ n \in Nat
    BY <1>1, ConsumptionIsAccounted
<1>7. recovery[o].used \in Nat /\ recovery[o].actions \in Nat
    BY <1>1 DEF ActionsInv, Sound, Books
<1>8. <<"actions", o>> \in Bounds
    BY <1>1 DEF Bounds, Scoped
<1>9. allow[<<"actions", o>>] \in Nat
    BY <1>8
<1> HIDE DEF q, n
<1> QED BY <1>3, <1>4, <1>5, <1>6, <1>7, <1>9

\* Whatever the journal gained, lost or was put back to, and wherever a process stopped in the
\* middle of an accounting, no attempt starts in a recovery whose actions are spent
\* (coordinate's Account before decide), for any number of recoveries, units and rows.
THEOREM AdmissionsCountTheJournal == DSpec => AdmissionSeesConsumption
<1> DEFINE Seen == \A o \in Objectives, c \in Calls :
         unit'[CallUnit[c]].call = c /\ unit[CallUnit[c]].call # c /\ o \in Scopes(CallUnit[c], recovery)
           => Cardinality(Consumption(o)) < recovery[o].actions + allow[<<"actions", o>>]
<1>1. ActionsInv /\ RoundsInv /\ UnitRecords /\ [DNext]_dvars => Seen
    <2> SUFFICES ASSUME ActionsInv, RoundsInv, UnitRecords, [DNext]_dvars, NEW o \in Objectives, NEW c \in Calls,
                        o \in Scopes(CallUnit[c], recovery),
                        unit'[CallUnit[c]].call = c, unit[CallUnit[c]].call # c
                 PROVE  Cardinality(Consumption(o)) < recovery[o].actions + allow[<<"actions", o>>]
        OBVIOUS
    <2>1. Admit(c)
        BY CallsAreAdmitted
    <2>2. allow \in [Bounds -> Nat]
        BY DEF RoundsInv
    <2> QED BY <2>1, <2>2, AdmissionIsCounted
<1>2. ActionsInv /\ RoundsInv /\ UnitRecords /\ [DNext]_dvars => [Seen]_dvars
    BY <1>1
<1> QED BY <1>2, ActionsInit, ActionsStep, RoundsInit, RoundsStep, UnitsInit, UnitsStep, PTL
        DEF DSpec, AdmissionSeesConsumption

(***************************************************************************)
(* LiveExecutionHoldsItsUnit, ChildRunsOne, OnlyOverWorkIsSettled and the   *)
(* ScopesDisjoint of the protocol below hold of Delegation for every value  *)
(* of its constants: any number of units, calls, children and instances.    *)
(*                                                                         *)
(* The first two need little more than the shape of the records.  The third *)
(* is about what an instance read and acts on later, so its invariant says  *)
(* what remains true of a call from the moment it was read as ended: it is  *)
(* never made again, its record is never written anew, and its child runs   *)
(* again only for another call.                                            *)
(***************************************************************************)

\* An execution is linked to the child of its call, and only once it is ready.
Executions ==
    /\ exec = [c \in Calls |-> exec[c]]
    /\ \A c \in Calls :
         /\ {"recorded", "ready", "settled", "attempt", "child"} \subseteq DOMAIN exec[c]
         /\ exec[c].recorded \in BOOLEAN /\ exec[c].ready \in BOOLEAN /\ exec[c].settled \in BOOLEAN
         /\ exec[c].child \in {None, ChildOf[c]}
         /\ exec[c].child # None => exec[c].recorded /\ exec[c].ready

Hosts ==
    /\ call = [c \in Calls |-> call[c]]
    /\ child = [h \in Children |-> child[h]]

\* The call was launched, or is beyond it.
Begun(c) == call[c] \notin {"unmade", "prepared"}

\* The call ended, and as a background one was unrecorded or is linked to a child that does
\* not run but for another call.
Ceased(c) ==
    /\ call[c] \in {"ended", "gone"}
    /\ \/ c \notin Background
       \/ ~exec[c].recorded
       \/ /\ exec[c].child # None
          /\ child[ChildOf[c]] = "running" => \E d \in Calls \ {c} : ChildOf[d] = ChildOf[c] /\ Begun(d)

\* What an instance read as ended has ceased, however long ago it read it.
Readings ==
    /\ view = [i \in Instances |-> view[i]]
    /\ \A i \in Instances : \A v \in view[i] : v.call \in Calls /\ (v.state = "ended" => Ceased(v.call))

\* The inductive invariant of the delegations.
HInv == UnitRecords /\ Executions /\ Hosts /\ LiveExecutionHoldsItsUnit /\ ChildRunsOne /\ Readings

-----------------------------------------------------------------------------
(* Executions and the units they hold *)

Held == UnitRecords /\ Executions /\ LiveExecutionHoldsItsUnit /\ ChildRunsOne

\* The execution is what it was, or settled.
Settles(c) ==
    \/ exec'[c] = exec[c]
    \/ exec'[c] = [exec[c] EXCEPT !.settled = TRUE]

LEMMA SettledRecord ==
    ASSUME Executions, NEW c \in Calls, NEW x, x = [exec[c] EXCEPT !.settled = TRUE]
    PROVE  /\ {"recorded", "ready", "settled", "attempt", "child"} \subseteq DOMAIN x
           /\ x.recorded = exec[c].recorded /\ x.ready = exec[c].ready /\ x.attempt = exec[c].attempt
           /\ x.child = exec[c].child /\ x.settled = TRUE
<1> DEFINE e == exec[c]
<1>1. {"recorded", "ready", "settled", "attempt", "child"} \subseteq DOMAIN e
    BY DEF Executions
<1> HIDE DEF e
<1>2. x = [e EXCEPT !.settled = TRUE]
    BY DEF e
<1>3. /\ {"recorded", "ready", "settled", "attempt", "child"} \subseteq DOMAIN x
      /\ x.recorded = e.recorded /\ x.ready = e.ready /\ x.attempt = e.attempt
      /\ x.child = e.child /\ x.settled = TRUE
    BY <1>1, <1>2
<1> QED BY <1>3 DEF e

LEMMA SettlesKeeps ==
    ASSUME Executions, NEW c \in Calls, Settles(c)
    PROVE  /\ {"recorded", "ready", "settled", "attempt", "child"} \subseteq DOMAIN exec'[c]
           /\ exec'[c].recorded = exec[c].recorded /\ exec'[c].ready = exec[c].ready
           /\ exec'[c].attempt = exec[c].attempt /\ exec'[c].child = exec[c].child
           /\ exec'[c].settled \in BOOLEAN /\ (exec[c].settled => exec'[c].settled)
<1>1. CASE exec'[c] = exec[c]
    BY <1>1 DEF Executions
<1>2. CASE exec'[c] = [exec[c] EXCEPT !.settled = TRUE]
    BY <1>2, SettledRecord
<1> QED BY <1>1, <1>2 DEF Settles

\* A step that settles at most writes no execution and links none.
LEMMA SettlingKeeps ==
    ASSUME Held, exec' = [c \in Calls |-> exec'[c]], \A c \in Calls : Settles(c)
    PROVE  Executions' /\ ChildRunsOne' /\ \A c \in Calls : Live(c)' => Live(c)
<1>1. Executions'
    <2> SUFFICES ASSUME NEW c \in Calls
                 PROVE  /\ {"recorded", "ready", "settled", "attempt", "child"} \subseteq DOMAIN exec'[c]
                        /\ exec'[c].recorded \in BOOLEAN /\ exec'[c].ready \in BOOLEAN /\ exec'[c].settled \in BOOLEAN
                        /\ exec'[c].child \in {None, ChildOf[c]}
                        /\ exec'[c].child # None => exec'[c].recorded /\ exec'[c].ready
        BY DEF Executions
    <2>1. Executions
        BY DEF Held
    <2> QED BY <2>1, SettlesKeeps DEF Executions
<1>2. ASSUME NEW c \in Calls, Live(c)' PROVE Live(c)
    <2>1. Executions
        BY DEF Held
    <2>2. exec'[c].recorded = exec[c].recorded /\ (exec[c].settled => exec'[c].settled)
        BY <2>1, SettlesKeeps
    <2> QED BY <1>2, <2>2 DEF Live
<1>3. ChildRunsOne'
    <2>1. Executions /\ ChildRunsOne
        BY DEF Held
    <2> SUFFICES ASSUME NEW c \in Calls, NEW d \in Calls, c # d, Live(c)', Live(d)', exec'[c].child # None
                 PROVE  exec'[c].child # exec'[d].child
        BY DEF ChildRunsOne, Live
    <2>2. exec'[c].child = exec[c].child /\ exec'[d].child = exec[d].child
        BY <2>1, SettlesKeeps
    <2>3. Live(c) /\ Live(d)
        BY <1>2
    <2> QED BY <2>1, <2>2, <2>3 DEF ChildRunsOne
<1> QED BY <1>1, <1>2, <1>3

\* The record is not written for the first time, and its link is kept.
RecordKept(c) ==
    /\ exec'[c].recorded => exec[c].recorded
    /\ exec[c].child # None => exec'[c].child # None

LEMMA SettlesRecordKept ==
    ASSUME Held, NEW c \in Calls, Settles(c) PROVE RecordKept(c)
BY SettlesKeeps DEF Held, RecordKept

\* Steps that leave the units in flight, and settle at most.
LEMMA SteadyHeld ==
    ASSUME Held, UnitRecords', \A u \in Units : Steady(u),
           exec' = [c \in Calls |-> exec'[c]], \A c \in Calls : Settles(c)
    PROVE  Held'
<1>1. Executions' /\ ChildRunsOne' /\ \A c \in Calls : Live(c)' => Live(c)
    BY SettlingKeeps
<1>2. LiveExecutionHoldsItsUnit'
    <2> SUFFICES ASSUME NEW c \in Calls, Live(c)'
                 PROVE  Holds(c)' /\ exec'[c].attempt = unit'[CallUnit[c]].attempt
        BY DEF LiveExecutionHoldsItsUnit
    <2>1. CallUnit[c] \in Units
        BY DispatchAssumption
    <2>2. Holds(c) /\ exec[c].attempt = unit[CallUnit[c]].attempt
        BY <1>1 DEF Held, LiveExecutionHoldsItsUnit
    <2>3. exec'[c].attempt = exec[c].attempt
        BY SettlesKeeps DEF Held
    <2> QED BY <2>1, <2>2, <2>3 DEF Holds, Steady
<1> QED BY <1>1, <1>2 DEF Held

LEMMA SameHeld ==
    ASSUME Held, UnitRecords', \A u \in Units : Steady(u), UNCHANGED exec
    PROVE  Held' /\ \A c \in Calls : RecordKept(c)
<1>1. exec' = [c \in Calls |-> exec'[c]] /\ \A c \in Calls : Settles(c)
    BY DEF Held, Executions, Settles
<1> QED BY <1>1, SteadyHeld, SettlesRecordKept

LEMMA IdleHeld ==
    ASSUME Held, UNCHANGED dvars, UNCHANGED exec
    PROVE  /\ Held' /\ \A c \in Calls : RecordKept(c)
           /\ \A u \in Units : Steady(u)
<1>1. UnitRecords' /\ \A u \in Units : Steady(u)
    BY SameUnits DEF Held, dvars
<1> QED BY <1>1, SameHeld

\* An attempt that ends takes its executions with it.
LEMMA EndingHeld ==
    ASSUME Held, NEW u \in Units, UnitRecords', SettleExecutions(u),
           \A w \in Units \ {u} : unit'[w] = unit[w]
    PROVE  Held' /\ \A c \in Calls : RecordKept(c)
<1>1. exec' = [c \in Calls |-> exec'[c]] /\ \A c \in Calls : Settles(c)
    BY DEF SettleExecutions, Settles
<1>2. Executions' /\ ChildRunsOne' /\ \A c \in Calls : Live(c)' => Live(c)
    BY <1>1, SettlingKeeps
<1>3. LiveExecutionHoldsItsUnit'
    <2> SUFFICES ASSUME NEW c \in Calls, Live(c)'
                 PROVE  Holds(c)' /\ exec'[c].attempt = unit'[CallUnit[c]].attempt
        BY DEF LiveExecutionHoldsItsUnit
    <2>1. Live(c) /\ CallUnit[c] \in Units
        BY <1>2, DispatchAssumption
    <2>2. Holds(c) /\ exec[c].attempt = unit[CallUnit[c]].attempt
        BY <2>1 DEF Held, LiveExecutionHoldsItsUnit
    <2>3. CallUnit[c] # u
        <3> SUFFICES ASSUME CallUnit[c] = u PROVE FALSE
            OBVIOUS
        <3>1. exec'[c] = [exec[c] EXCEPT !.settled = TRUE]
            BY <2>1, <2>2 DEF SettleExecutions, Live
        <3>2. exec'[c].settled
            BY <3>1, SettledRecord DEF Held
        <3> QED BY <3>2 DEF Live
    <2>4. exec'[c].attempt = exec[c].attempt
        BY <1>1, SettlesKeeps DEF Held
    <2> QED BY <2>1, <2>2, <2>3, <2>4 DEF Holds, InFlight
<1>4. \A c \in Calls : RecordKept(c)
    BY <1>1, SettlesRecordKept
<1> QED BY <1>2, <1>3, <1>4 DEF Held

LEMMA FinishHeld ==
    ASSUME Held, NEW u \in Units, NEW nonStart, Terminated(u, nonStart), SettleExecutions(u)
    PROVE  /\ Held' /\ \A c \in Calls : RecordKept(c)
           /\ unit'[u].call = unit[u].call /\ \A w \in Units \ {u} : Steady(w)
<1>1. /\ UnitRecords' /\ unit'[u].call = unit[u].call
      /\ \A w \in Units \ {u} : unit'[w] = unit[w]
    BY TerminatedEnds DEF Held
<1>2. \A w \in Units \ {u} : Steady(w)
    BY <1>1 DEF Steady, InFlight
<1> QED BY <1>1, <1>2, EndingHeld

\* What an abandonment, or a part of it, leaves.
LEMMA AbandonedHeld ==
    ASSUME Held, NEW c \in Calls, Abandoned(c) \/ AbandonedInPart(c)
    PROVE  /\ Held' /\ \A d \in Calls : RecordKept(d)
           /\ \A u \in Units : Steady(u) \/ (unit[u].call = c /\ unit'[u].call = c)
<1> DEFINE u == CallUnit[c]
<1>1. u \in Units
    BY DispatchAssumption
<1>2. CASE AbandonedInPart(c)
    <2>1. PICK kind : Flight(u, kind)
        BY <1>2 DEF AbandonedInPart, Observe
    <2>2. UnitRecords' /\ \A w \in Units : Steady(w)
        BY <1>1, <2>1, FlightKeeps DEF Held
    <2> QED BY <1>2, <2>2, SameHeld DEF AbandonedInPart
<1>3. CASE Abandoned(c) /\ exec[c].settled
    BY <1>3, IdleHeld DEF Abandoned
<1>4. CASE Abandoned(c) /\ ~exec[c].settled /\ (~Holds(c) \/ unit[u].attempt # exec[c].attempt)
    <2>1. Live(c)
        BY <1>4 DEF Abandoned, Live
    <2> QED BY <1>4, <2>1 DEF Held, LiveExecutionHoldsItsUnit
<1>5. CASE Abandoned(c) /\ ~exec[c].settled /\ Holds(c) /\ unit[u].attempt = exec[c].attempt
    <2>1. PICK how : unit' = [unit EXCEPT ![u].state = "settled", ![u].flight = "none", ![u].cancel = TRUE,
                                          ![u].outcome = how]
        BY <1>5 DEF Abandoned
    <2>2. SettleExecutions(u)
        BY <1>5 DEF Abandoned
    <2>3. /\ UnitRecords' /\ unit'[u].call = unit[u].call
          /\ \A w \in Units \ {u} : unit'[w] = unit[w]
        BY <1>1, <2>1, AbandonEnds DEF Held
    <2>4. \A w \in Units \ {u} : Steady(w)
        BY <2>3 DEF Steady, InFlight
    <2>5. unit[u].call = c
        BY <1>5 DEF Holds
    <2> QED BY <1>1, <2>2, <2>3, <2>4, <2>5, EndingHeld
<1> QED BY <1>2, <1>3, <1>4, <1>5

\* A link is written where no unsettled execution has it.
LEMMA AttachHeld ==
    ASSUME Held, NEW c \in Calls, NEW observed, Attach(c, observed)
    PROVE  /\ Held' /\ \A d \in Calls : RecordKept(d)
           /\ \A u \in Units : Steady(u)
<1> DEFINE e == exec[c]
           s == [e EXCEPT !.child = ChildOf[c]]
<1>1. /\ exec' = [exec EXCEPT ![c] = s] /\ e.recorded /\ e.ready /\ ~e.settled
      /\ \A d \in Calls \ {c} : exec[d].child = ChildOf[c] => exec[d].settled
    BY DEF Attach, Attachable, Live
<1>2. /\ {"recorded", "ready", "settled", "attempt", "child"} \subseteq DOMAIN e
      /\ e.recorded \in BOOLEAN /\ e.ready \in BOOLEAN /\ e.settled \in BOOLEAN
    BY DEF Held, Executions
<1>3. /\ {"recorded", "ready", "settled", "attempt", "child"} \subseteq DOMAIN s
      /\ s.recorded = e.recorded /\ s.ready = e.ready /\ s.settled = e.settled /\ s.attempt = e.attempt
      /\ s.child = ChildOf[c]
    <2> HIDE DEF e
    <2> QED BY <1>2
<1>4. exec'[c] = s /\ \A d \in Calls \ {c} : exec'[d] = exec[d]
    BY <1>1 DEF Held, Executions
<1>5. ChildOf[c] # None
    BY DelegationAssumption
<1> HIDE DEF s
<1>6. Executions'
    <2>1. exec' = [d \in Calls |-> exec'[d]]
        BY <1>1 DEF Held, Executions
    <2>2. ASSUME NEW d \in Calls
          PROVE  /\ {"recorded", "ready", "settled", "attempt", "child"} \subseteq DOMAIN exec'[d]
                 /\ exec'[d].recorded \in BOOLEAN /\ exec'[d].ready \in BOOLEAN /\ exec'[d].settled \in BOOLEAN
                 /\ exec'[d].child \in {None, ChildOf[d]}
                 /\ exec'[d].child # None => exec'[d].recorded /\ exec'[d].ready
        BY <1>1, <1>2, <1>3, <1>4 DEF Held, Executions
    <2> QED BY <2>1, <2>2 DEF Executions
<1>7. \A d \in Calls : RecordKept(d)
    BY <1>3, <1>4, <1>5 DEF RecordKept
<1>8. \A d \in Calls : (Live(d)' <=> Live(d)) /\ exec'[d].attempt = exec[d].attempt
    BY <1>3, <1>4 DEF Live
<1>9. ChildRunsOne'
    <2> SUFFICES ASSUME NEW a \in Calls, NEW b \in Calls, a # b, Live(a)', Live(b)', exec'[a].child # None
                 PROVE  exec'[a].child # exec'[b].child
        BY DEF ChildRunsOne, Live
    <2>1. Live(a) /\ Live(b)
        BY <1>8
    <2> QED BY <1>1, <1>3, <1>4, <2>1 DEF Held, ChildRunsOne, Live
<1>10. UnitRecords' /\ \A u \in Units : Steady(u)
    <2>1. CASE UNCHANGED dvars
        BY <2>1, SameUnits DEF Held, dvars
    <2>2. CASE \E kind : Flight(CallUnit[c], kind)
        <3>1. CallUnit[c] \in Units
            BY DispatchAssumption
        <3> QED BY <2>2, <3>1, FlightKeeps DEF Held
    <2> QED BY <2>1, <2>2 DEF Attach, Launch, ReconcileRunning
<1>11. LiveExecutionHoldsItsUnit'
    <2> SUFFICES ASSUME NEW d \in Calls, Live(d)'
                 PROVE  Holds(d)' /\ exec'[d].attempt = unit'[CallUnit[d]].attempt
        BY DEF LiveExecutionHoldsItsUnit
    <2>1. Holds(d) /\ exec[d].attempt = unit[CallUnit[d]].attempt
        BY <1>8 DEF Held, LiveExecutionHoldsItsUnit
    <2>2. CallUnit[d] \in Units
        BY DispatchAssumption
    <2> QED BY <1>8, <1>10, <2>1, <2>2 DEF Holds, Steady
<1> QED BY <1>6, <1>7, <1>9, <1>10, <1>11 DEF Held

\* A preparation records its execution under the attempt that holds the unit, which no
\* other unsettled execution is of, and takes only a child that none of them has.
LEMMA PreparingHeld ==
    ASSUME Held, NEW c \in Calls, NEW upto \in {"admitted", "recorded", "prepared", "ready"}, Preparing(c, upto)
    PROVE  /\ Held' /\ \A d \in Calls \ {c} : RecordKept(d)
           /\ \A u \in Units : InFlight(u) => Steady(u)
<1> DEFINE u == CallUnit[c]
           e == exec'[c]
<1>1. u \in Units /\ ChildOf[c] # None
    BY DispatchAssumption, DelegationAssumption
<1>2. /\ UnitRecords' /\ Holds(c)'
      /\ \A w \in Units : InFlight(w) => Steady(w)
      /\ ~Holds(c) => ~InFlight(u)
    <2>1. CASE Holds(c)
        <3>1. UNCHANGED unit
            BY <2>1 DEF Preparing
        <3>2. UnitRecords' /\ \A w \in Units : Steady(w)
            BY <3>1, SameUnits DEF Held
        <3> QED BY <2>1, <3>1, <3>2 DEF Holds, InFlight
    <2>2. CASE ~Holds(c)
        <3>1. Admit(c)
            BY <2>2 DEF Preparing
        <3>2. /\ UnitRecords' /\ ~InFlight(u) /\ InFlight(u)' /\ unit'[u].call = c
              /\ \A w \in Units \ {u} : unit'[w] = unit[w]
            BY <3>1, AdmitTakes DEF Held
        <3> QED BY <3>2 DEF Holds, Steady, InFlight
    <2> QED BY <2>1, <2>2
<1>3. \A d \in Calls \ {c} : exec'[d] = exec[d]
    BY DEF Preparing, Held, Executions
<1>4. exec' = [d \in Calls |-> exec'[d]]
    BY DEF Preparing, Held, Executions
<1>5. upto = "admitted" => exec' = exec /\ ~Live(c)
    <2>1. upto = "admitted" => exec' = exec /\ ~Holds(c)
        BY DEF Preparing
    <2> QED BY <2>1 DEF Held, LiveExecutionHoldsItsUnit
<1>6. ASSUME upto # "admitted"
      PROVE  e = [recorded |-> TRUE, ready |-> upto \in {"prepared", "ready"}, settled |-> FALSE,
                  attempt |-> unit'[u].attempt,
                  child |-> IF upto = "ready" /\ c \in Resuming THEN ChildOf[c] ELSE None]
    BY <1>6 DEF Preparing, Held, Executions
<1>7. (upto = "ready" /\ c \in Resuming) => \A d \in Calls \ {c} : exec[d].child = ChildOf[c] => exec[d].settled
    BY DEF Preparing, Attachable
<1> HIDE DEF e
<1>8. /\ {"recorded", "ready", "settled", "attempt", "child"} \subseteq DOMAIN e
      /\ e.recorded \in BOOLEAN /\ e.ready \in BOOLEAN /\ e.settled \in BOOLEAN
      /\ e.child \in {None, ChildOf[c]}
      /\ e.child # None => e.recorded /\ e.ready
    <2>1. CASE upto = "admitted"
        BY <1>5, <2>1 DEF Held, Executions, e
    <2>2. CASE upto # "admitted"
        <3> DEFINE ready == upto \in {"prepared", "ready"}
                   link  == IF upto = "ready" /\ c \in Resuming THEN ChildOf[c] ELSE None
        <3>1. ready \in BOOLEAN /\ link \in {None, ChildOf[c]} /\ (link # None => ready)
            OBVIOUS
        <3>2. e = [recorded |-> TRUE, ready |-> ready, settled |-> FALSE, attempt |-> unit'[u].attempt, child |-> link]
            BY <1>6, <2>2
        <3> HIDE DEF ready, link
        <3> QED BY <3>1, <3>2
    <2> QED BY <2>1, <2>2
<1>9. Executions'
    <2>1. ASSUME NEW d \in Calls
          PROVE  /\ {"recorded", "ready", "settled", "attempt", "child"} \subseteq DOMAIN exec'[d]
                 /\ exec'[d].recorded \in BOOLEAN /\ exec'[d].ready \in BOOLEAN /\ exec'[d].settled \in BOOLEAN
                 /\ exec'[d].child \in {None, ChildOf[d]}
                 /\ exec'[d].child # None => exec'[d].recorded /\ exec'[d].ready
        <3>1. CASE d = c
            BY <1>8, <3>1 DEF e
        <3>2. CASE d # c
            BY <1>3, <3>2 DEF Held, Executions
        <3> QED BY <3>1, <3>2
    <2> QED BY <1>4, <2>1 DEF Executions
<1>10. LiveExecutionHoldsItsUnit'
    <2> SUFFICES ASSUME NEW d \in Calls, Live(d)'
                 PROVE  Holds(d)' /\ exec'[d].attempt = unit'[CallUnit[d]].attempt
        BY DEF LiveExecutionHoldsItsUnit
    <2>1. CASE d = c
        <3>1. upto # "admitted"
            BY <1>5, <2>1 DEF Live
        <3> QED BY <1>2, <1>6, <2>1, <3>1 DEF e
    <2>2. CASE d # c
        <3>1. Live(d)
            BY <1>3, <2>2 DEF Live
        <3>2. Holds(d) /\ exec[d].attempt = unit[CallUnit[d]].attempt /\ CallUnit[d] \in Units
            BY <3>1, DispatchAssumption DEF Held, LiveExecutionHoldsItsUnit
        <3>3. Steady(CallUnit[d])
            BY <1>2, <3>2 DEF Holds
        <3> QED BY <1>3, <2>2, <3>2, <3>3 DEF Holds, Steady
    <2> QED BY <2>1, <2>2
<1>11. ChildRunsOne'
    <2>1. ASSUME upto = "admitted" PROVE ChildRunsOne'
        BY <1>5, <2>1 DEF Held, ChildRunsOne, Live
    <2>2. ASSUME upto # "admitted", NEW a \in Calls, NEW b \in Calls, a # b, Live(a)', Live(b)',
                 exec'[a].child # None
          PROVE  exec'[a].child # exec'[b].child
        <3>1. e.child # None => e.child = ChildOf[c] /\ \A d \in Calls \ {c} : exec[d].child = ChildOf[c] => exec[d].settled
            BY <1>6, <1>7, <2>2
        <3>2. CASE a = c
            BY <1>3, <2>2, <3>1, <3>2 DEF e, Live
        <3>3. CASE b = c
            <4>1. exec'[b].child = e.child /\ exec'[a] = exec[a] /\ a \in Calls \ {c} /\ ~exec[a].settled
                BY <1>3, <2>2, <3>3 DEF e, Live
            <4> QED BY <2>2, <3>1, <4>1
        <3>4. CASE a # c /\ b # c
            BY <1>3, <2>2, <3>4 DEF Held, ChildRunsOne, Live
        <3> QED BY <3>2, <3>3, <3>4
    <2> QED BY <2>1, <2>2 DEF ChildRunsOne, Live
<1>12. \A d \in Calls \ {c} : RecordKept(d)
    BY <1>3 DEF RecordKept
<1> QED BY <1>2, <1>9, <1>10, <1>11, <1>12 DEF Held

-----------------------------------------------------------------------------
(* What was read *)

\* Nothing of what was read as ended is undone: calls move on, the records of those that
\* ended stay, and a child runs again only by the launch of a call.
Onward ==
    /\ Hosts'
    /\ \A c \in Calls : /\ call[c] \in {"ended", "gone"} => call'[c] \in {"ended", "gone"} /\ RecordKept(c)
                        /\ Begun(c) => Begun(c)'
    /\ \A h \in Children : child'[h] = "running" /\ child[h] # "running" =>
         \E d \in Calls : ChildOf[d] = h /\ call[d] = "prepared" /\ Begun(d)'

LEMMA CeasedStays ==
    ASSUME Onward, NEW c \in Calls, Ceased(c) PROVE Ceased(c)'
<1>1. /\ call[c] \in {"ended", "gone"} /\ call'[c] \in {"ended", "gone"}
      /\ exec'[c].recorded => exec[c].recorded
      /\ exec[c].child # None => exec'[c].child # None
    BY DEF Onward, Ceased, RecordKept
<1>2. CASE c \notin Background \/ ~exec[c].recorded
    BY <1>1, <1>2 DEF Ceased
<1>3. CASE /\ exec[c].child # None
           /\ child[ChildOf[c]] = "running" => \E d \in Calls \ {c} : ChildOf[d] = ChildOf[c] /\ Begun(d)
    <2>1. ASSUME child'[ChildOf[c]] = "running"
          PROVE  \E d \in Calls \ {c} : ChildOf[d] = ChildOf[c] /\ Begun(d)'
        <3>1. CASE child[ChildOf[c]] = "running"
            BY <1>3, <3>1 DEF Onward
        <3>2. CASE child[ChildOf[c]] # "running"
            <4>1. ChildOf[c] \in Children
                BY DelegationAssumption
            <4>2. PICK d \in Calls : ChildOf[d] = ChildOf[c] /\ call[d] = "prepared" /\ Begun(d)'
                BY <2>1, <3>2, <4>1 DEF Onward
            <4>3. d # c
                BY <1>1, <4>2
            <4> QED BY <4>2, <4>3
        <3> QED BY <3>1, <3>2
    <2> QED BY <1>1, <1>3, <2>1 DEF Ceased
<1> QED BY <1>2, <1>3 DEF Ceased

\* An instance forgets what it read, and reads no more.
LEMMA ForgetsReadings ==
    ASSUME Readings, Onward, view' = [i \in Instances |-> view'[i]],
           \A i \in Instances : view'[i] \subseteq view[i]
    PROVE  Readings'
<1> SUFFICES ASSUME NEW i \in Instances, NEW v \in view'[i]
             PROVE  v.call \in Calls /\ (v.state = "ended" => Ceased(v.call)')
    BY DEF Readings, Ceased, Begun
<1>1. v.call \in Calls /\ (v.state = "ended" => Ceased(v.call))
    BY DEF Readings
<1> QED BY <1>1, CeasedStays

LEMMA SameReadings ==
    ASSUME Readings, Onward, UNCHANGED view PROVE Readings'
<1>1. view' = [i \in Instances |-> view'[i]] /\ \A i \in Instances : view'[i] \subseteq view[i]
    BY DEF Readings
<1> QED BY <1>1, ForgetsReadings

LEMMA AnsweredReadings ==
    ASSUME Readings, Onward, NEW i \in Instances, NEW v, view' = [view EXCEPT ![i] = @ \ {v}]
    PROVE  Readings'
<1>1. view' = [j \in Instances |-> view'[j]] /\ \A j \in Instances : view'[j] \subseteq view[j]
    BY DEF Readings
<1> QED BY <1>1, ForgetsReadings

\* What the call state says ended has ceased, whatever the lease it was read under.
LEMMA EndedIsCeased ==
    ASSUME NEW i \in Instances, NEW c \in Calls, CallState(i, c) = "ended" PROVE Ceased(c)
BY DEF CallState, Ceased

LEMMA ReadReadings ==
    ASSUME Readings, Onward, NEW i \in Instances, NEW c \in Calls, Read(i, c) PROVE Readings'
<1> DEFINE seen == [call |-> c, attempt |-> unit[CallUnit[c]].attempt, state |-> CallState(i, c)]
<1>1. view' = [view EXCEPT ![i] = view[i] \union {seen}]
    BY DEF Read, Readings
<1>2. seen.call = c /\ seen.state = CallState(i, c)
    OBVIOUS
<1> HIDE DEF seen
<1>3. view' = [j \in Instances |-> view'[j]]
    BY <1>1 DEF Readings
<1>4. ASSUME NEW j \in Instances, NEW v \in view'[j]
      PROVE  v.call \in Calls /\ (v.state = "ended" => Ceased(v.call)')
    <2>1. v \in view[j] \/ v = seen
        BY <1>1 DEF Readings
    <2>2. v.call \in Calls /\ (v.state = "ended" => Ceased(v.call))
        BY <1>2, <2>1, EndedIsCeased DEF Readings
    <2> QED BY <2>2, CeasedStays
<1> QED BY <1>3, <1>4 DEF Readings, Ceased, Begun

-----------------------------------------------------------------------------
(* Steps *)

\* A unit leaves flight only over a call that is over, or was given up.
LeavesOverOnly ==
    \A u \in Units : InFlight(u) /\ ~InFlight(u)' =>
      unit[u].call \in abandoned' \/ Over(unit[u].call)'

\* What each step keeps.
Kept == HInv' /\ LeavesOverOnly

LEMMA HInvHeld == HInv => Held
BY DEF HInv, Held

LEMMA SteadyKept ==
    ASSUME Held', Hosts', Readings', \A u \in Units : InFlight(u) => Steady(u) PROVE Kept
BY DEF Kept, HInv, Held, LeavesOverOnly, Steady

LEMMA EndingKept ==
    ASSUME Held', Hosts', Readings', NEW c, c \in abandoned' \/ Over(c)',
           \A u \in Units : Steady(u) \/ (unit[u].call = c /\ unit'[u].call = c)
    PROVE  Kept
<1>1. ASSUME NEW u \in Units, InFlight(u), ~InFlight(u)'
      PROVE  unit[u].call \in abandoned' \/ Over(unit[u].call)'
    <2>1. unit[u].call = c /\ unit'[u].call = c
        BY <1>1 DEF Steady
    <2> QED BY <2>1 DEF Over
<1> QED BY <1>1 DEF Kept, HInv, Held, LeavesOverOnly

\* A step of the calls and the children moves onward as the host does.
LEMMA OnwardHosts ==
    ASSUME Hosts', \A c \in Calls : RecordKept(c),
           \A c \in Calls : call'[c] = call[c] \/ (call[c] \notin {"ended", "gone"} /\ call'[c] \notin {"unmade", "prepared"})
                            \/ (call[c] = "unmade" /\ call'[c] \in {"prepared", "ended"}) \/ call'[c] = "gone",
           \A h \in Children : child'[h] = "running" => child[h] = "running"
    PROVE  Onward
BY DEF Onward, Begun

LEMMA SameHosts ==
    ASSUME Hosts, UNCHANGED <<call, child>>, \A c \in Calls : RecordKept(c)
    PROVE  Hosts' /\ Onward
<1>1. Hosts'
    BY DEF Hosts
<1> QED BY <1>1, OnwardHosts

\* The host moves calls and children, and reaches neither units nor executions.
LEMMA HostKept ==
    ASSUME HInv, UNCHANGED dvars, UNCHANGED exec, Hosts', Onward,
           view' = [i \in Instances |-> view'[i]], \A i \in Instances : view'[i] \subseteq view[i]
    PROVE  Kept
<1>1. Held' /\ \A u \in Units : Steady(u)
    BY HInvHeld, IdleHeld
<1>2. Readings'
    BY ForgetsReadings DEF HInv
<1> QED BY <1>1, <1>2, SteadyKept

LEMMA IdleRecords ==
    ASSUME HInv, UNCHANGED dvars, UNCHANGED exec PROVE \A c \in Calls : RecordKept(c)
BY HInvHeld, IdleHeld

LEMMA LaunchedKept ==
    ASSUME HInv, NEW c \in Calls, Launched(c) PROVE Kept
<1>1. UNCHANGED dvars /\ UNCHANGED <<exec, view>>
    BY DEF Launched
<1>2. Hosts'
    BY DEF Launched, HInv, Hosts
<1>3. Onward
    <2>1. \A d \in Calls : RecordKept(d)
        BY <1>1, IdleRecords
    <2>2. \A d \in Calls : call'[d] = IF d = c THEN "open" ELSE call[d]
        BY DEF Launched, HInv, Hosts
    <2>3. call[c] = "prepared"
        BY DEF Launched
    <2>4. \A h \in Children : h # ChildOf[c] => child'[h] = child[h]
        BY DEF Launched, HInv, Hosts
    <2> QED BY <1>2, <2>1, <2>2, <2>3, <2>4 DEF Onward, Begun
<1>4. view' = [i \in Instances |-> view'[i]] /\ \A i \in Instances : view'[i] \subseteq view[i]
    BY <1>1 DEF HInv, Readings
<1> QED BY <1>1, <1>2, <1>3, <1>4, HostKept

LEMMA EndedKept ==
    ASSUME HInv, NEW c \in Calls, Ended(c) PROVE Kept
<1>1. UNCHANGED dvars /\ UNCHANGED <<exec, view>>
    BY DEF Ended
<1>2. Hosts'
    BY DEF Ended, HInv, Hosts
<1>3. Onward
    <2>1. \A d \in Calls : RecordKept(d)
        BY <1>1, IdleRecords
    <2>2. \A d \in Calls : call'[d] = IF d = c THEN "ended" ELSE call[d]
        BY DEF Ended, HInv, Hosts
    <2>3. call[c] \in {"prepared", "open"}
        BY DEF Ended
    <2>4. \A h \in Children : child'[h] \in {child[h], "idle"}
        BY DEF Ended, HInv, Hosts
    <2> QED BY <1>2, <2>1, <2>2, <2>3, <2>4, OnwardHosts
<1>4. view' = [i \in Instances |-> view'[i]] /\ \A i \in Instances : view'[i] \subseteq view[i]
    BY <1>1 DEF HInv, Readings
<1> QED BY <1>1, <1>2, <1>3, <1>4, HostKept

LEMMA CallerGoneKept ==
    ASSUME HInv, NEW c \in Calls, CallerGone(c) PROVE Kept
<1>1. UNCHANGED dvars /\ UNCHANGED <<exec, view, child>>
    BY DEF CallerGone
<1>2. Hosts'
    BY DEF CallerGone, HInv, Hosts
<1>3. Onward
    <2>1. \A d \in Calls : RecordKept(d)
        BY <1>1, IdleRecords
    <2>2. \A d \in Calls : call'[d] = IF d = c THEN "gone" ELSE call[d]
        BY DEF CallerGone, HInv, Hosts
    <2> QED BY <1>1, <1>2, <2>1, <2>2, OnwardHosts
<1>4. view' = [i \in Instances |-> view'[i]] /\ \A i \in Instances : view'[i] \subseteq view[i]
    BY <1>1 DEF HInv, Readings
<1> QED BY <1>1, <1>2, <1>3, <1>4, HostKept

LEMMA ChildStopsKept ==
    ASSUME HInv, NEW h \in Children, NEW how, ChildStops(h, how) PROVE Kept
<1>1. UNCHANGED dvars /\ UNCHANGED <<exec, view, call>>
    BY DEF ChildStops
<1>2. Hosts'
    BY DEF ChildStops, HInv, Hosts
<1>3. Onward
    <2>1. \A d \in Calls : RecordKept(d)
        BY <1>1, IdleRecords
    <2>2. \A g \in Children : child'[g] \in {child[g], "idle", "deleted"}
        BY DEF ChildStops, HInv, Hosts
    <2> QED BY <1>1, <1>2, <2>1, <2>2, OnwardHosts
<1>4. view' = [i \in Instances |-> view'[i]] /\ \A i \in Instances : view'[i] \subseteq view[i]
    BY <1>1 DEF HInv, Readings
<1> QED BY <1>1, <1>2, <1>3, <1>4, HostKept

\* A dead instance forgets, and leaves the calls it made open.
LEMMA CrashKept ==
    ASSUME HInv, NEW i \in Instances, Crash(i) PROVE Kept
<1>1. UNCHANGED dvars /\ UNCHANGED exec
    BY DEF Crash
<1>2. Hosts'
    BY DEF Crash, Hosts
<1>3. Onward
    <2>1. \A d \in Calls : RecordKept(d)
        BY <1>1, IdleRecords
    <2>2. \A d \in Calls : call'[d] = call[d] \/ (call[d] \in {"unmade", "prepared", "open"} /\ call'[d] = "stranded")
        BY DEF Crash
    <2>3. \A h \in Children : child'[h] \in {child[h], "idle"}
        BY DEF Crash
    <2> QED BY <1>2, <2>1, <2>2, <2>3, OnwardHosts
<1>4. view' = [j \in Instances |-> view'[j]] /\ \A j \in Instances : view'[j] \subseteq view[j]
    BY DEF Crash, HInv, Readings
<1> QED BY <1>1, <1>2, <1>3, <1>4, HostKept

\* Steps of a lease, a refusal's stutter of the records, and the end of a step.
LEMMA StillKept ==
    ASSUME HInv, UNCHANGED dvars, UNCHANGED <<exec, call, child, view>> PROVE Kept
<1>1. Hosts' /\ Onward
    BY IdleRecords, SameHosts DEF HInv
<1>2. view' = [i \in Instances |-> view'[i]] /\ \A i \in Instances : view'[i] \subseteq view[i]
    BY DEF HInv, Readings
<1> QED BY <1>1, <1>2, HostKept

LEMMA HostStepKept ==
    ASSUME HInv, Host PROVE Kept
<1>1. ASSUME NEW i \in Instances, Lapse(i) \/ Renew(i) PROVE Kept
    BY <1>1, StillKept DEF Lapse, Renew
<1> QED BY <1>1, LaunchedKept, EndedKept, CallerGoneKept, ChildStopsKept, CrashKept DEF Host

\* The protocol's own commands reach no execution.
LEMMA ProtocolKept ==
    ASSUME HInv, Protocol, UNCHANGED hvars PROVE Kept
<1>1. UNCHANGED <<exec, call, child, view>>
    BY DEF hvars
<1>2. UnitRecords' /\ \A u \in Units : Steady(u)
    BY ProtocolKeeps DEF HInv
<1>3. Held' /\ \A c \in Calls : RecordKept(c)
    BY <1>1, <1>2, HInvHeld, SameHeld
<1>4. Hosts' /\ Onward
    BY <1>1, <1>3, SameHosts DEF HInv
<1>5. Readings'
    BY <1>1, <1>4, SameReadings DEF HInv
<1> QED BY <1>2, <1>3, <1>4, <1>5, SteadyKept

LEMMA PrepareKept ==
    ASSUME HInv, NEW c \in Calls, Prepare(c) \/ PrepareInPart(c) PROVE Kept
<1>1. PICK upto \in {"admitted", "recorded", "prepared", "ready"} : Preparing(c, upto)
    BY DEF Prepare, PrepareInPart
<1>2. UNCHANGED <<child, view>>
    BY DEF Prepare, PrepareInPart
<1>3. /\ Held' /\ \A d \in Calls \ {c} : RecordKept(d)
      /\ \A u \in Units : InFlight(u) => Steady(u)
    BY <1>1, HInvHeld, PreparingHeld
<1>4. call[c] = "unmade"
    BY <1>1 DEF Preparing
<1>5. \A d \in Calls \ {c} : call'[d] = call[d]
    BY DEF Prepare, PrepareInPart, HInv, Hosts
<1>6. Hosts'
    BY <1>2 DEF Prepare, PrepareInPart, HInv, Hosts
<1>7. Onward
    BY <1>2, <1>3, <1>4, <1>5, <1>6 DEF Onward, Begun
<1>8. Readings'
    BY <1>2, <1>7, SameReadings DEF HInv
<1> QED BY <1>3, <1>6, <1>8, SteadyKept

LEMMA FinishedKeepsRecords ==
    ASSUME Executions, NEW u, SettleExecutions(u), NEW c \in Calls
    PROVE  exec'[c].ready = exec[c].ready /\ exec'[c].child = exec[c].child
<1>1. Settles(c)
    BY DEF SettleExecutions, Settles
<1> QED BY <1>1, SettlesKeeps

LEMMA CompensateKept ==
    ASSUME HInv, NEW c \in Calls, Compensate(c) PROVE Kept
<1> DEFINE u == CallUnit[c]
<1>1. /\ u \in Units /\ unit[u].call = c /\ call[c] = "unmade" /\ ~exec[c].ready
      /\ Terminated(u, FALSE) /\ SettleExecutions(u) /\ UNCHANGED <<child, view>>
    BY DispatchAssumption DEF Compensate, Finish, Holds
<1>2. /\ Held' /\ \A d \in Calls : RecordKept(d)
      /\ unit'[u].call = unit[u].call /\ \A w \in Units \ {u} : Steady(w)
    BY <1>1, HInvHeld, FinishHeld
<1>3. \A d \in Calls : call'[d] = IF d = c THEN "ended" ELSE call[d]
    BY DEF Compensate, HInv, Hosts
<1>4. Hosts'
    BY <1>1 DEF Compensate, HInv, Hosts
<1>5. Onward
    BY <1>1, <1>2, <1>3, <1>4, OnwardHosts
<1>6. Readings'
    BY <1>1, <1>5, SameReadings DEF HInv
\* It never became ready, so no child runs it.
<1>7. Over(c)'
    <2>1. exec[c].child = None
        BY <1>1 DEF HInv, Executions
    <2>2. exec'[c].child = None
        BY <1>1, <2>1, FinishedKeepsRecords DEF HInv
    <2> QED BY <1>3, <2>2 DEF Over
<1>8. \A w \in Units : Steady(w) \/ (unit[w].call = c /\ unit'[w].call = c)
    BY <1>1, <1>2
<1> QED BY <1>2, <1>4, <1>6, <1>7, <1>8, EndingKept

LEMMA RefuseKept ==
    ASSUME HInv, NEW c \in Calls, Refuse(c) PROVE Kept
<1>1. UNCHANGED dvars /\ UNCHANGED <<exec, child, view>> /\ call[c] = "unmade"
    BY DEF Refuse
<1>2. Hosts'
    BY <1>1 DEF Refuse, HInv, Hosts
<1>3. \A d \in Calls : call'[d] = IF d = c THEN "ended" ELSE call[d]
    BY DEF Refuse, HInv, Hosts
<1>4. Onward
    BY <1>1, <1>2, <1>3, IdleRecords, OnwardHosts
<1>5. view' = [i \in Instances |-> view'[i]] /\ \A i \in Instances : view'[i] \subseteq view[i]
    BY <1>1 DEF HInv, Readings
<1> QED BY <1>1, <1>2, <1>4, <1>5, HostKept

LEMMA UserAbandonsKept ==
    ASSUME HInv, NEW c \in Calls, UserAbandons(c) PROVE Kept
<1>1. /\ Held' /\ \A d \in Calls : RecordKept(d)
      /\ \A u \in Units : Steady(u) \/ (unit[u].call = c /\ unit'[u].call = c)
    BY HInvHeld, AbandonedHeld DEF UserAbandons
<1>2. UNCHANGED <<call, child>> /\ UNCHANGED view /\ c \in abandoned'
    BY DEF UserAbandons
<1>3. Hosts' /\ Onward
    BY <1>1, <1>2, SameHosts DEF HInv
<1>4. Readings'
    BY <1>2, <1>3, SameReadings DEF HInv
<1> QED BY <1>1, <1>2, <1>3, <1>4, EndingKept

LEMMA AttachKept ==
    ASSUME HInv, NEW c \in Calls, NEW observed, Attach(c, observed) PROVE Kept
<1>1. Held' /\ (\A d \in Calls : RecordKept(d)) /\ \A u \in Units : Steady(u)
    BY HInvHeld, AttachHeld
<1>2. UNCHANGED <<call, child>> /\ UNCHANGED view
    BY DEF Attach
<1>3. Hosts' /\ Onward
    BY <1>1, <1>2, SameHosts DEF HInv
<1>4. Readings'
    BY <1>2, <1>3, SameReadings DEF HInv
<1> QED BY <1>1, <1>3, <1>4, SteadyKept

LEMMA ReadKept ==
    ASSUME HInv, NEW i \in Instances, NEW c \in Calls, Read(i, c) PROVE Kept
<1>1. UNCHANGED dvars /\ UNCHANGED exec /\ UNCHANGED <<call, child>>
    BY DEF Read
<1>2. Held' /\ (\A d \in Calls : RecordKept(d)) /\ \A u \in Units : Steady(u)
    BY <1>1, HInvHeld, IdleHeld
<1>3. Hosts' /\ Onward
    BY <1>1, <1>2, SameHosts DEF HInv
<1>4. Readings'
    BY <1>3, ReadReadings DEF HInv
<1> QED BY <1>2, <1>3, <1>4, SteadyKept

LEMMA LoseCaptureKept ==
    ASSUME HInv, NEW i \in Instances, NEW c \in Calls, LoseCapture(i, c) PROVE Kept
<1>1. UNCHANGED exec /\ UNCHANGED <<call, child>> /\ UNCHANGED view
    BY DEF LoseCapture, hvars
<1>2. UnitRecords' /\ \A w \in Units : Steady(w)
    BY FlightKeeps, DispatchAssumption DEF LoseCapture, Observe, HInv
<1>3. Held' /\ \A d \in Calls : RecordKept(d)
    BY <1>1, <1>2, HInvHeld, SameHeld
<1>4. Hosts' /\ Onward
    BY <1>1, <1>3, SameHosts DEF HInv
<1>5. Readings'
    BY <1>1, <1>4, SameReadings DEF HInv
<1> QED BY <1>2, <1>3, <1>4, <1>5, SteadyKept

\* A call that ceased is over.
LEMMA CeasedIsOver ==
    ASSUME Executions', NEW c \in Calls, Ceased(c)' PROVE Over(c)'
BY DEF Ceased, Over, Executions, Begun

\* What was read as ended has ceased since, and an answer that finishes the attempt holding
\* the unit is one about the call that holds it.
LEMMA SettleEndedKept ==
    ASSUME HInv, NEW i \in Instances, NEW v \in view[i], SettleEnded(i, v) PROVE Kept
<1> DEFINE c == v.call
           u == CallUnit[c]
<1>1. c \in Calls /\ Ceased(c) /\ u \in Units
    BY DispatchAssumption DEF SettleEnded, HInv, Readings
<1>2. /\ UNCHANGED <<call, child>>
      /\ view' = [view EXCEPT ![i] = @ \ {v}]
    BY DEF SettleEnded
<1>3. \/ Terminated(u, FALSE) /\ SettleExecutions(u) /\ unit[u].call = c
      \/ UNCHANGED dvars /\ UNCHANGED exec
    BY DEF SettleEnded, FinishObserved, Finish, Holds
<1>4. /\ Held' /\ \A d \in Calls : RecordKept(d)
      /\ \A w \in Units : Steady(w) \/ (unit[w].call = c /\ unit'[w].call = c)
    <2>1. CASE Terminated(u, FALSE) /\ SettleExecutions(u) /\ unit[u].call = c
        BY <1>1, <2>1, HInvHeld, FinishHeld
    <2>2. CASE UNCHANGED dvars /\ UNCHANGED exec
        BY <2>2, HInvHeld, IdleHeld
    <2> QED BY <1>3, <2>1, <2>2
<1>5. Hosts' /\ Onward
    BY <1>2, <1>4, SameHosts DEF HInv
<1>6. Readings'
    BY <1>2, <1>5, AnsweredReadings DEF HInv
<1>7. Over(c)'
    <2>1. Ceased(c)'
        BY <1>1, <1>5, CeasedStays
    <2> QED BY <1>1, <1>4, <2>1, CeasedIsOver DEF Held
<1> QED BY <1>4, <1>5, <1>6, <1>7, EndingKept

LEMMA SettleGoneKept ==
    ASSUME HInv, NEW i \in Instances, NEW v \in view[i], SettleGone(i, v) PROVE Kept
<1> DEFINE c == v.call
<1>1. c \in Calls
    BY DEF HInv, Readings
<1>2. /\ UNCHANGED call /\ c \in abandoned'
      /\ view' = [view EXCEPT ![i] = @ \ {v}]
    BY DEF SettleGone
<1>3. /\ Held' /\ \A d \in Calls : RecordKept(d)
      /\ \A w \in Units : Steady(w) \/ (unit[w].call = c /\ unit'[w].call = c)
    <2>1. CASE Abandoned(c) \/ AbandonedInPart(c)
        BY <1>1, <2>1, HInvHeld, AbandonedHeld
    <2>2. CASE UNCHANGED dvars /\ UNCHANGED exec
        BY <2>2, HInvHeld, IdleHeld
    <2> QED BY <2>1, <2>2 DEF SettleGone
<1>4. Hosts' /\ \A h \in Children : child'[h] \in {child[h], "idle"}
    BY <1>2 DEF SettleGone, HInv, Hosts
<1>5. Onward
    BY <1>2, <1>3, <1>4, OnwardHosts
<1>6. Readings'
    BY <1>2, <1>5, AnsweredReadings DEF HInv
<1> QED BY <1>2, <1>3, <1>4, <1>6, EndingKept

LEMMA NonStartKept ==
    ASSUME HInv, NEW u \in Units, NonStart(u) PROVE Kept
<1> DEFINE c == unit[u].call
<1>1. Terminated(u, TRUE) /\ SettleExecutions(u)
    BY DEF NonStart, ReconcileNonStart
<1>2. /\ Held' /\ \A d \in Calls : RecordKept(d)
      /\ unit'[u].call = unit[u].call /\ \A w \in Units \ {u} : Steady(w)
    BY <1>1, HInvHeld, FinishHeld
<1>3. UNCHANGED <<call, child>> /\ UNCHANGED view /\ c \in abandoned'
    BY DEF NonStart
<1>4. Hosts' /\ Onward
    BY <1>2, <1>3, SameHosts DEF HInv
<1>5. Readings'
    BY <1>3, <1>4, SameReadings DEF HInv
<1>6. \A w \in Units : Steady(w) \/ (unit[w].call = c /\ unit'[w].call = c)
    BY <1>2
<1> HIDE DEF c
<1> QED BY <1>2, <1>3, <1>4, <1>5, <1>6, EndingKept

-----------------------------------------------------------------------------
(* The specification *)

LEMMA InitHInv == Init => HInv
<1> SUFFICES ASSUME Init PROVE HInv
    OBVIOUS
<1>1. UnitRecords
    BY DEF Init, DInit, UnitRecords, NoUnit, UnitFields
<1>2. \A c \in Calls : exec[c] = NoExecution /\ ~Live(c)
    BY DEF Init, NoExecution, Live
<1>3. Executions
    BY <1>2 DEF Init, Executions, NoExecution
<1>4. Hosts /\ Readings
    BY DEF Init, Hosts, Readings
<1> QED BY <1>1, <1>2, <1>3, <1>4 DEF HInv, LiveExecutionHoldsItsUnit, ChildRunsOne

LEMMA DelegatingKept ==
    ASSUME HInv, Delegating PROVE Kept
BY PrepareKept, CompensateKept, RefuseKept, UserAbandonsKept, AttachKept, ReadKept, LoseCaptureKept,
   SettleEndedKept, SettleGoneKept, NonStartKept DEF Delegating

LEMMA NextKept == HInv /\ [Next]_vars => Kept
<1>1. ASSUME HInv, UNCHANGED vars PROVE Kept
    BY <1>1, StillKept DEF vars, hvars
<1> QED BY <1>1, ProtocolKept, HostStepKept, DelegatingKept DEF Next

\* While the execution of a dispatch is not settled, its unit is in flight under exactly
\* that dispatch and attempt, whatever stopped between two records and whichever instance
\* died (cli/execution.go prepareExecution, history/execution.go foldExecution).
THEOREM ExecutionsHoldTheirUnits == Spec => []LiveExecutionHoldsItsUnit
<1>1. HInv /\ [Next]_vars => HInv'
    BY NextKept DEF Kept
<1>2. HInv => LiveExecutionHoldsItsUnit
    BY DEF HInv
<1> QED BY <1>1, <1>2, InitHInv, PTL DEF Spec

\* No two unsettled executions are linked to one child session (history/execution.go
\* AttachChild), for any number of calls that resume it or are launched in it.
THEOREM ChildrenRunOne == Spec => []ChildRunsOne
<1>1. HInv /\ [Next]_vars => HInv'
    BY NextKept DEF Kept
<1>2. HInv => ChildRunsOne
    BY DEF HInv
<1> QED BY <1>1, <1>2, InitHInv, PTL DEF Spec

\* A unit leaves flight only over the call that holds it, which is over or was given up:
\* what an instance read of another call, or long ago, ends none that runs (the finish
\* action of cli/dispatch.go coordinateRoutine, takt-vfs.ts reconcileStoredDelegations).
THEOREM OnlyWhatIsOverIsSettled == Spec => OnlyOverWorkIsSettled
<1>1. HInv /\ [Next]_vars => HInv'
    BY NextKept DEF Kept
<1>2. HInv /\ [Next]_vars => [LeavesOverOnly]_vars
    BY NextKept DEF Kept
<1>3. Spec => [][LeavesOverOnly]_vars
    BY <1>1, <1>2, InitHInv, PTL DEF Spec
<1> QED BY <1>3 DEF OnlyOverWorkIsSettled, LeavesOverOnly

-----------------------------------------------------------------------------
(* The protocol below *)

\* The commands on a delegation admit a call, or account the recoveries, or leave them.
LEMMA DelegatingAccounts ==
    ASSUME Delegating
    PROVE  \/ \E c \in Calls : Admit(c)
           \/ recovery' = Account
           \/ UNCHANGED recovery
<1>1. ASSUME NEW u, NEW kind, Flight(u, kind) PROVE recovery' = Account
    BY <1>1 DEF Flight
<1>2. ASSUME NEW u, Finish(u) PROVE recovery' = Account
    BY <1>2 DEF Finish, Terminated
<1>3. ASSUME NEW c \in Calls, NEW upto, Preparing(c, upto) PROVE Admit(c) \/ recovery' = Account
    BY <1>3 DEF Preparing
<1>4. ASSUME NEW c, Abandoned(c) \/ AbandonedInPart(c) PROVE recovery' = Account \/ UNCHANGED recovery
    BY <1>1, <1>4 DEF Abandoned, AbandonedInPart, Observe, dvars
<1>5. ASSUME NEW c \in Calls, Prepare(c) \/ PrepareInPart(c) PROVE Admit(c) \/ recovery' = Account
    BY <1>3, <1>5 DEF Prepare, PrepareInPart
<1>6. ASSUME NEW c, Compensate(c) \/ Refuse(c) \/ UserAbandons(c) PROVE recovery' = Account \/ UNCHANGED recovery
    BY <1>2, <1>4, <1>6 DEF Compensate, Refuse, UserAbandons, dvars
<1>7. ASSUME NEW c, NEW observed, Attach(c, observed) PROVE recovery' = Account \/ UNCHANGED recovery
    BY <1>1, <1>7 DEF Attach, Launch, ReconcileRunning, dvars
<1>8. ASSUME NEW i, NEW c, Read(i, c) \/ LoseCapture(i, c) PROVE recovery' = Account \/ UNCHANGED recovery
    BY <1>1, <1>8 DEF Read, LoseCapture, Observe, dvars
<1>9. ASSUME NEW i, NEW v, SettleEnded(i, v) \/ SettleGone(i, v) PROVE recovery' = Account \/ UNCHANGED recovery
    BY <1>2, <1>4, <1>9 DEF SettleEnded, FinishObserved, SettleGone, dvars
<1>10. ASSUME NEW u, NonStart(u) PROVE recovery' = Account
    BY <1>10 DEF NonStart, ReconcileNonStart, Terminated
<1> QED BY <1>5, <1>6, <1>7, <1>8, <1>9, <1>10 DEF Delegating

\* A unit's actions and attempts count against one recovery at most when hosts, children and
\* instances run over the protocol, an abandonment settling in the one step it appends
\* (recovery.go scopeOwner, cli/dispatch.go abandonExecution).
THEOREM DelegationsKeepScopesApart == Spec => []ScopesDisjoint
<1>1. Init => IInv
    BY InitEstablishes DEF Init
<1>2. IInv /\ [Next]_vars => IInv'
    <2>1. ASSUME IInv, Host \/ UNCHANGED vars PROVE IInv'
        <3>1. UNCHANGED recovery
            BY <2>1 DEF Host, Launched, Ended, CallerGone, ChildStops, Crash, Lapse, Renew, vars, dvars
        <3> QED BY <2>1, <3>1, UnchangedPreserves
    <2>2. ASSUME IInv, Delegating PROVE IInv'
        BY <2>2, DelegatingAccounts, AdmitPreserves, AccountPreserves, UnchangedPreserves
    <2> QED BY <2>1, <2>2, ProtocolPreserves DEF Next
<1>3. IInv => ScopesDisjoint
    BY DEF IInv
<1> QED BY <1>1, <1>2, <1>3, PTL DEF Spec
=============================================================================
