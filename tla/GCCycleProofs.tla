--------------------------- MODULE GCCycleProofs ---------------------------
(***************************************************************************)
(* The safety of a maintenance cycle, for every number of units and cycles  *)
(* and every trigger policy, with the process ending between any two saves. *)
(*                                                                         *)
(* What the three stores say of a cycle only fits together through the      *)
(* command that is moving it from one save to the next, so the inductive    *)
(* invariant says, for each save still to come, what the earlier ones have  *)
(* already made true.                                                       *)
(***************************************************************************)
EXTENDS GCCycle, TLAPS

-----------------------------------------------------------------------------
(* The inductive invariant *)

fate == coordinator.fate
mem  == command.mem

\* Phases from which a cycle is not authorized, written or judged again, and those only a verifier reaches.
Late   == {"consolidating", "acceptance", "aborting", "blocked"}
Driven == {"investigate", "collect", "verify", "consolidating", "acceptance"}

\* The cycle in flight is not closed, and its phase was reached by a verifier.
InFlightIsOpen ==
    cycle # NoCycle =>
        /\ fate[cycle] = "open"
        /\ coordinator.phase \in Driven => lanes[cycle]["verifier"] # "none"

\* Content on disk is owned: it can be rolled back, was released, or was kept by the user.
ContentIsOwned(c) ==
    /\ disk[c].revision \in {0, store[c].verified}
    /\ disk[c].revision > 0 => store[c].preserved \/ store[c].kept # "none"
    /\ store[c].kept # "none" => disk[c].revision > 0 /\ ~store[c].preserved

\* Only an applied cycle, or the one in flight at its end, holds rollback state or kept content.
OwnerIsKnown(c) ==
    /\ store[c].kept = "complete" => fate[c] = "applied"
    /\ store[c].kept = "open" => fate[c] = "applied" \/ (cycle = c /\ coordinator.phase \in Late)
    /\ store[c].preserved => fate[c] = "preserved" \/ (cycle = c /\ coordinator.phase \in Late)
    /\ store[c].preserved \/ store[c].kept # "none" => lanes[c]["verifier"] # "none"
    /\ store[c].preserved => lanes[c]["verifier"] # "attached"

Unwound(c) ==
    /\ disk[c].revision > 0 => store[c].preserved
    /\ ~store[c].claimed
    /\ Live(c) = {}
    /\ activity[c] = "interrupted"

\* The staging and the files of the cycle are given up, which its record does not say yet.
GivenUp ==
    /\ command.reason = "aborted"
    /\ Attached(here) = {}
    /\ disk[here].revision > 0 => store[here].preserved
    /\ store[here].kept = "none"

\* The command holds the coordinator as saved, but for the phase of its cycle.
HoldsOpen ==
    /\ mem.cycle = here /\ mem.fate = fate
    /\ cycle \in {NoCycle, here}
    /\ here # NoCycle =>
        /\ fate[here] = "open"
        /\ mem.phase \in Driven => lanes[here]["verifier"] # "none"
        /\ cycle = here /\ coordinator.phase \in Late => mem.phase \in Late

\* The command holds the closure of its cycle, and why it may.
HoldsClosed ==
    /\ here # NoCycle /\ cycle = here
    /\ mem.cycle = NoCycle
    /\ \/ /\ GivenUp /\ ~store[here].claimed /\ Live(here) = {} /\ activity[here] = "interrupted"
          /\ mem.fate = [fate EXCEPT ![here] = IF store[here].preserved THEN "preserved" ELSE "aborted"]
       \/ /\ command.reason = "applied" /\ ~store[here].preserved
          /\ mem.fate = [fate EXCEPT ![here] = "applied"]
       \/ /\ command.reason = "no-change" /\ ~store[here].preserved /\ store[here].kept = "none"
          /\ mem.fate = [fate EXCEPT ![here] = "no-change"]

\* A delta the verifier passed as it stands, nothing of which is on disk yet.
Passed ==
    /\ store[here].verdict = "pass"
    /\ store[here].revision = store[here].verified
    /\ store[here].revision > 0
    /\ store[here].kept = "none" /\ ~store[here].preserved

\* What the saves made so far have made true of each command.
InCommand ==
    /\ command.at = "idle" => command = Idle
    /\ command.at \in {"start", "discard", "drop", "settle", "intent", "consolidate"} =>
        here # NoCycle /\ HoldsOpen
    /\ command.at \in {"discard", "drop", "settle", "intent", "consolidate"} => cycle = here
    /\ command.at \in {"discard", "drop"} =>
        command.reason = "aborted" /\ Attached(here) = {} /\ mem.phase \in Late
    /\ command.at = "drop" => GivenUp
    /\ command.at = "settle" =>
        \/ GivenUp /\ ~store[here].claimed
        \/ command.reason = "applied" /\ ~store[here].preserved
        \/ command.reason = "no-change" /\ ~store[here].preserved /\ store[here].kept = "none"
    /\ command.at \in {"intent", "consolidate"} => Passed /\ command.reason = "none" /\ mem.phase = "consolidating"
    /\ command.at = "consolidate" => coordinator.phase = "consolidating"
    /\ command.at = "start" => command.reason = "none"
    /\ command.at = "admit" => HoldsClosed \/ (HoldsOpen /\ here = NoCycle /\ command.reason = "none")
    /\ command.at = "save" => HoldsClosed \/ (HoldsOpen /\ command.reason = "none")
    /\ command.at = "release" => here # NoCycle /\ fate[here] = "applied"

\* What is saved of the cycles fits together.
Records ==
    /\ InFlightIsOpen
    /\ \A c \in Cycles : ContentIsOwned(c) /\ OwnerIsKnown(c)
    /\ \A c \in Cycles : fate[c] \in {"aborted", "preserved"} => Unwound(c)

IInv == TypeOK /\ Records /\ InCommand

-----------------------------------------------------------------------------
(* The saves *)

\* The bounds and the policy are numbers.
LEMMA Bounds ==
    /\ MaxCycles \in Nat /\ UnitsPerCycle \in Nat /\ MutationsPerCycle \in Nat
    /\ MaxDeferrals \in Nat /\ MaxRevision \in Nat /\ MaxStops \in Nat
    /\ UnitsPerCycle > 0 /\ MutationsPerCycle > 0 /\ MaxDeferrals > 0
BY GCAssumption

\* A record of the coordinator's type has the coordinator's fields, each of its type.
LEMMA CoordinatorFields ==
    ASSUME NEW c \in Coordinator
    PROVE  /\ c.cycle \in Cycles \cup {NoCycle} /\ c.phase \in Phases /\ c.baseline \in BOOLEAN
           /\ c.finding \in {"none", "open", "confirmed", "refuted"} /\ c.requested \in BOOLEAN
           /\ c.deferrals \in 0 .. MaxDeferrals /\ c.fresh \in BOOLEAN /\ c.fate \in [Cycles -> Fates]
BY DEF Coordinator

\* What the type invariant says of the parts most steps look at.
LEMMA Typed ==
    ASSUME TypeOK
    PROVE  /\ coordinator \in Coordinator /\ mem \in Coordinator
           /\ cycle \in Cycles \cup {NoCycle} /\ here \in Cycles \cup {NoCycle}
           /\ fate \in [Cycles -> Fates] /\ mem.fate \in [Cycles -> Fates]
           /\ NoCycle \notin Cycles
           /\ \A c \in Cycles : disk[c].revision \in Nat
<1>1. coordinator \in Coordinator /\ mem \in Coordinator /\ here \in Cycles \cup {NoCycle}
  BY DEF TypeOK, Command, mem, here
<1>2. \A c \in Cycles : disk[c].revision \in Nat
  <2> TAKE c \in Cycles
  <2>1. disk[c] \in [revision : 0 .. MaxRevision, edited : BOOLEAN]
    BY DEF TypeOK
  <2>2. disk[c].revision \in 0 .. MaxRevision
    BY <2>1
  <2> QED
    BY <2>2, Bounds
<1>3. NoCycle \notin Cycles
  BY Bounds DEF Cycles, NoCycle
<1> QED
  BY <1>1, <1>2, <1>3, CoordinatorFields DEF cycle, fate

\* A save writes the coordinator the command holds, and the pace stays within the policy.
LEMMA SaveWrites ==
    ASSUME TypeOK, NEW c \in Coordinator, Save(c)
    PROVE  /\ coordinator' \in Coordinator
           /\ coordinator'.cycle = c.cycle /\ coordinator'.phase = c.phase
           /\ coordinator'.fate = c.fate /\ coordinator'.deferrals = c.deferrals
           /\ pace' \in [units : 0 .. UnitsPerCycle, mutations : 0 .. MutationsPerCycle]
<1>1. coordinator' = [c EXCEPT !.fresh = FALSE]
  BY DEF Save
<1>2. /\ coordinator' \in Coordinator
      /\ coordinator'.cycle = c.cycle /\ coordinator'.phase = c.phase
      /\ coordinator'.fate = c.fate /\ coordinator'.deferrals = c.deferrals
  BY <1>1 DEF Coordinator
<1>3. pace' \in [units : 0 .. UnitsPerCycle, mutations : 0 .. MutationsPerCycle]
  <2> DEFINE n == IF command.unit = NoUnit THEN 0 ELSE 1
  <2>1. pace' = [units |-> n, mutations |-> 0] \/ pace' = pace
    BY DEF Save
  <2>2. n \in 0 .. UnitsPerCycle /\ 0 \in 0 .. MutationsPerCycle
    BY Bounds
  <2> HIDE DEF n
  <2>3. pace \in [units : 0 .. UnitsPerCycle, mutations : 0 .. MutationsPerCycle]
    BY DEF TypeOK
  <2> QED
    BY <2>1, <2>2, <2>3
<1> QED
  BY <1>2, <1>3

\* A command that begins its saves is of its type and says what it was begun for.
LEMMA EnterBegins ==
    ASSUME NEW step \in {"start", "discard", "settle", "admit", "intent", "save"}, NEW c \in Coordinator,
           NEW unit \in Units \cup {NoUnit}, NEW approved \in BOOLEAN,
           NEW reason \in {"none", "aborted", "applied", "no-change"},
           Enter(step, c, unit, approved, reason)
    PROVE  /\ command' \in Command
           /\ command'.at = step /\ command'.id = c.cycle /\ command'.mem = c
           /\ command'.unit = unit /\ command'.approved = approved /\ command'.reason = reason
BY CoordinatorFields DEF Enter, Command

\* A command that goes on keeps what it is for.
LEMMA GoKeeps ==
    ASSUME TypeOK, NEW c \in Coordinator,
           NEW step \in {"start", "discard", "drop", "settle", "admit", "intent", "consolidate", "save", "release"},
           Go(step, c)
    PROVE  /\ command' \in Command
           /\ command'.at = step /\ command'.id = here /\ command'.mem = c
           /\ command'.unit = command.unit /\ command'.approved = command.approved
           /\ command'.reason = command.reason
BY DEF Go, Command, TypeOK, here

\* Between two commands nothing is held.
LEMMA IdleHoldsNothing ==
    ASSUME command' = Idle
    PROVE  command' \in Command /\ InCommand'
<1>1. Idle \in Command /\ Idle.at = "idle"
  BY Bounds DEF Idle, Command, NewCoordinator, Coordinator, Phases, Fates, NoCycle
<1> QED
  BY <1>1 DEF InCommand

\* A closed coordinator has no cycle, and records how its cycle ended.
LEMMA ClosedForgets ==
    ASSUME NEW c \in Coordinator, NEW why \in Fates
    PROVE  /\ Closed(c, why) \in Coordinator
           /\ Closed(c, why).cycle = NoCycle
           /\ Closed(c, why).fate = [c.fate EXCEPT ![c.cycle] = why]
<1>1. [c.fate EXCEPT ![c.cycle] = why] \in [Cycles -> Fates]
  BY CoordinatorFields
<1> QED
  <2> DEFINE f == [c.fate EXCEPT ![c.cycle] = why]
  <2> HIDE DEF f
  <2>1. NewCoordinator \in Coordinator /\ NewCoordinator.cycle = NoCycle
    BY Bounds DEF NewCoordinator, Coordinator, Phases, Fates, NoCycle
  <2>2. f \in [Cycles -> Fates]
    BY <1>1 DEF f
  <2>3. \A r \in Coordinator : LET q == [r EXCEPT !.fresh = TRUE, !.fate = f]
                               IN  q \in Coordinator /\ q.cycle = r.cycle /\ q.fate = f
    BY <2>2 DEF Coordinator
  <2> QED
    BY <2>1, <2>3 DEF Closed, f

-----------------------------------------------------------------------------
(* What most steps leave alone *)

\* The records fit together after a step that closes no cycle, opens none, moves no content and takes no
\* rollback state: it may drive the cycle in flight, claim or release its files, judge a delta that is not
\* on disk, and attach, stop or settle the lanes of a cycle not closed.
LEMMA RecordsStay ==
    ASSUME IInv, TypeOK',
           coordinator'.cycle = cycle, coordinator'.fate = fate,
           cycle # NoCycle => /\ coordinator.phase \in Late => coordinator'.phase \in Late
                              /\ coordinator'.phase \in Driven =>
                                    coordinator.phase \in Driven \/ lanes[cycle]["verifier"] # "none",
           \A c \in Cycles :
              /\ disk'[c].revision = disk[c].revision
              /\ store'[c].kept = store[c].kept /\ store'[c].preserved = store[c].preserved
              /\ store'[c].verified = store[c].verified \/ disk[c].revision = 0
              /\ fate[c] = "open" \/ (store'[c].claimed = store[c].claimed /\ activity'[c] = activity[c]),
           \A c \in Cycles : \A r \in Roles :
              \/ lanes'[c][r] = lanes[c][r]
              \/ /\ fate[c] = "open"
                 /\ lanes'[c][r] # "none"
                 /\ lanes'[c][r] = "attached" => lanes[c][r] = "none"
    PROVE  Records'
<1>1. InFlightIsOpen'
  BY Typed DEF InFlightIsOpen, IInv, Records, Roles, Driven, fate, cycle
<1> SUFFICES ASSUME NEW c \in Cycles
             PROVE  /\ ContentIsOwned(c)' /\ OwnerIsKnown(c)'
                    /\ fate'[c] \in {"aborted", "preserved"} => Unwound(c)'
  BY <1>1 DEF Records
<1> USE DEF fate, cycle
<1>2. ContentIsOwned(c)'
  <2>1. ContentIsOwned(c)
    BY DEF IInv, Records
  <2> QED
    BY <2>1 DEF ContentIsOwned
<1>3. OwnerIsKnown(c)'
  <2>1. OwnerIsKnown(c) /\ c # NoCycle
    BY DEF IInv, Records, Cycles, NoCycle
  <2>2. lanes'[c]["verifier"] = lanes[c]["verifier"]
          \/ (lanes'[c]["verifier"] # "none"
                /\ (lanes'[c]["verifier"] = "attached" => lanes[c]["verifier"] = "none"))
    BY DEF Roles
  <2> QED
    BY <2>1, <2>2 DEF OwnerIsKnown
<1>4. fate'[c] \in {"aborted", "preserved"} => Unwound(c)'
  <2>1. fate[c] \in {"aborted", "preserved"} => Unwound(c) /\ fate[c] # "open"
    BY DEF IInv, Records
  <2> QED
    BY <2>1 DEF Unwound, Live
<1> QED
  BY <1>2, <1>3, <1>4

\* A step that changes no record of a cycle and no command is one the invariant does not see.
LEMMA UnseenStep ==
    ASSUME IInv, TypeOK', UNCHANGED <<coordinator, lanes, activity, store, disk, command>>
    PROVE  IInv'
BY DEF IInv, Records, InFlightIsOpen, ContentIsOwned, OwnerIsKnown, Unwound, InCommand, GivenUp, HoldsOpen,
       HoldsClosed, Passed, Attached, Live, fate, mem, cycle, here

\* A command that ends saves the coordinator it holds, which keeps the cycle and advances its phase.
LEMMA ReturnStays ==
    ASSUME IInv, NEW c \in Coordinator, Return(c),
           c.cycle = cycle, c.fate = fate,
           cycle # NoCycle => /\ coordinator.phase \in Late => c.phase \in Late
                              /\ c.phase \in Driven =>
                                    coordinator.phase \in Driven \/ lanes[cycle]["verifier"] # "none",
           UNCHANGED <<units, pending, activity, store, disk, stops>>,
           missed' \in 0 .. MaxDeferrals + 1,
           lanes' \in [Cycles -> [Roles -> {"none", "attached", "stopped", "settled"}]],
           \A d \in Cycles : \A r \in Roles :
              \/ lanes'[d][r] = lanes[d][r]
              \/ /\ fate[d] = "open"
                 /\ lanes'[d][r] # "none"
                 /\ lanes'[d][r] = "attached" => lanes[d][r] = "none"
    PROVE  IInv'
<1>1. TypeOK
  BY DEF IInv
<1>2. Save(c) /\ command' = Idle
  BY DEF Return
<1>3. command' \in Command /\ InCommand'
  BY <1>2, IdleHoldsNothing
<1>4. /\ coordinator' \in Coordinator
      /\ coordinator'.cycle = c.cycle /\ coordinator'.phase = c.phase /\ coordinator'.fate = c.fate
      /\ pace' \in [units : 0 .. UnitsPerCycle, mutations : 0 .. MutationsPerCycle]
  BY <1>1, <1>2, SaveWrites
<1>5. TypeOK'
  BY <1>1, <1>3, <1>4 DEF TypeOK
<1>6. Records'
  BY <1>4, <1>5, RecordsStay
<1> QED
  BY <1>3, <1>5, <1>6 DEF IInv

-----------------------------------------------------------------------------
(* Ordinary work, and the lanes up to the verdict *)

LEMMA OrdinaryPreserves ==
    ASSUME IInv, OrdinaryStep
    PROVE  IInv'
<1>1. PICK u \in Units : Plan(u) \/ Stage(u) \/ Finish(u) \/ Consolidate(u)
  BY DEF OrdinaryStep
<1>2. UNCHANGED <<coordinator, lanes, activity, store, disk, command>>
  BY <1>1 DEF Plan, Stage, Finish, Consolidate
<1>3. TypeOK
  BY DEF IInv
<1>4. CASE Stage(u)
  <2>1. [pace EXCEPT !.mutations = AtMost(@ + 1, MutationsPerCycle)]
            \in [units : 0 .. UnitsPerCycle, mutations : 0 .. MutationsPerCycle]
    <3>1. pace.mutations \in 0 .. MutationsPerCycle
      BY <1>3 DEF TypeOK
    <3>2. AtMost(pace.mutations + 1, MutationsPerCycle) \in 0 .. MutationsPerCycle
      BY <3>1, Bounds DEF AtMost
    <3> QED
      BY <1>3, <3>2 DEF TypeOK
  <2>2. TypeOK'
    BY <1>3, <1>4, <2>1 DEF TypeOK, Stage
  <2> QED
    BY <1>2, <2>2, UnseenStep
<1>5. CASE Plan(u) \/ Finish(u) \/ Consolidate(u)
  <2>1. TypeOK'
    BY <1>3, <1>5 DEF TypeOK, Plan, Finish, Consolidate
  <2> QED
    BY <1>2, <2>1, UnseenStep
<1> QED
  BY <1>1, <1>4, <1>5

LEMMA EditPreserves ==
    ASSUME IInv, EditStep
    PROVE  IInv'
<1>1. PICK c \in Cycles : Edit(c)
  BY DEF EditStep
<1>2. TypeOK'
  BY <1>1 DEF IInv, TypeOK, Edit
<1>3. \A d \in Cycles : disk'[d].revision = disk[d].revision
  BY <1>1 DEF IInv, TypeOK, Edit
<1>4. Records'
  BY <1>1, <1>2, <1>3, RecordsStay DEF Edit, fate, cycle
<1>5. InCommand'
  BY <1>1, IdleHoldsNothing DEF Edit
<1> QED
  BY <1>2, <1>4, <1>5 DEF IInv

LEMMA AttachPreserves ==
    ASSUME IInv, NEW role \in Roles, Attach(role)
    PROVE  IInv'
<1>1. cycle \in Cycles /\ fate[cycle] = "open"
  BY Typed DEF Attach, IInv, Records, InFlightIsOpen
<1> DEFINE g == [lanes[cycle] EXCEPT ![role] = "attached"]
<1>2. /\ g \in [Roles -> {"none", "attached", "stopped", "settled"}]
      /\ \A r \in Roles : g[r] = lanes[cycle][r] \/ (g[r] = "attached" /\ lanes[cycle][r] = "none")
      /\ lanes' = [lanes EXCEPT ![cycle] = g]
  BY <1>1 DEF IInv, TypeOK, Attach
<1> HIDE DEF g
<1>3. TypeOK'
  <2>1. lanes' \in [Cycles -> [Roles -> {"none", "attached", "stopped", "settled"}]]
    BY <1>1, <1>2 DEF IInv, TypeOK
  <2>2. UNCHANGED <<coordinator, pace, units, pending, activity, store, disk, command, missed, stops>>
    BY DEF Attach
  <2> QED
    BY <2>1, <2>2 DEF IInv, TypeOK
<1>4. \A c \in Cycles : \A r \in Roles :
         lanes'[c][r] = lanes[c][r] \/ (c = cycle /\ lanes'[c][r] = "attached" /\ lanes[c][r] = "none")
  BY <1>1, <1>2 DEF IInv, TypeOK
<1>5. Records'
  BY <1>1, <1>3, <1>4, RecordsStay DEF Attach, fate, cycle
<1>6. InCommand'
  BY IdleHoldsNothing DEF Attach
<1> QED
  BY <1>3, <1>5, <1>6 DEF IInv

\* A lane that drives a phase is one of the cycle in flight.
LEMMA DrivesInFlight ==
    ASSUME IInv, NEW role \in Roles, NEW phase, Drives(role, phase)
    PROVE  /\ command = Idle /\ coordinator.phase = phase
           /\ cycle \in Cycles /\ fate[cycle] = "open"
           /\ lanes[cycle][role] = "attached"
BY Typed DEF Drives, Attached, IInv, Records, InFlightIsOpen

LEMMA BaselinePreserves ==
    ASSUME IInv, NEW pass \in BOOLEAN, NEW found \in {"none", "open"}, Baseline(pass, found)
    PROVE  IInv'
<1> DEFINE c == [coordinator EXCEPT !.phase = "investigate", !.baseline = pass, !.finding = found]
<1>1. TypeOK /\ coordinator \in Coordinator
  BY Typed DEF IInv
<1>2. c \in Coordinator /\ c.cycle = cycle /\ c.fate = fate /\ c.phase = "investigate"
  BY <1>1 DEF Coordinator, Phases, cycle, fate
<1>3. coordinator.phase = "baseline" /\ lanes[cycle]["verifier"] = "attached"
  BY DrivesInFlight DEF Baseline, Roles
<1>4. Return(c) /\ UNCHANGED <<units, pending, lanes, activity, store, disk, missed, stops>>
  BY DEF Baseline
<1> HIDE DEF c
<1> QED
  BY <1>1, <1>2, <1>3, <1>4, ReturnStays DEF Late, TypeOK

LEMMA InvestigatePreserves ==
    ASSUME IInv, NEW outcome \in {"confirmed", "refuted"}, Investigate(outcome)
    PROVE  IInv'
<1> DEFINE c == [coordinator EXCEPT !.finding = outcome]
<1>1. TypeOK /\ coordinator \in Coordinator
  BY Typed DEF IInv
<1>2. c \in Coordinator /\ c.cycle = cycle /\ c.fate = fate /\ c.phase = coordinator.phase
  BY <1>1 DEF Coordinator, Phases, cycle, fate
<1>3. Return(c) /\ UNCHANGED <<units, pending, lanes, activity, store, disk, missed, stops>>
  BY DEF Investigate
<1> HIDE DEF c
<1> QED
  BY <1>1, <1>2, <1>3, ReturnStays DEF TypeOK

LEMMA CollectedPreserves ==
    ASSUME IInv, Collected
    PROVE  IInv'
<1> DEFINE c == [coordinator EXCEPT !.phase = "verify"]
<1>1. TypeOK /\ coordinator \in Coordinator
  BY Typed DEF IInv
<1>2. c \in Coordinator /\ c.cycle = cycle /\ c.fate = fate /\ c.phase = "verify"
  BY <1>1 DEF Coordinator, Phases, cycle, fate
<1>3. coordinator.phase = "collect"
  BY DEF Collected, Drives
<1>4. Return(c) /\ UNCHANGED <<units, pending, lanes, activity, store, disk, missed, stops>>
  BY DEF Collected
<1> HIDE DEF c
<1> QED
  BY <1>1, <1>2, <1>3, <1>4, ReturnStays DEF Late, Driven, TypeOK

\* The staged delta, its judgement and the claims are not what the records say of a cycle in flight.
LEMMA StagingStays ==
    ASSUME IInv, cycle \in Cycles, fate[cycle] = "open", NEW s \in Store,
           store' = [store EXCEPT ![cycle] = s],
           s.kept = store[cycle].kept, s.preserved = store[cycle].preserved,
           s.verified = store[cycle].verified \/ disk[cycle].revision = 0,
           TypeOK', UNCHANGED <<coordinator, lanes, activity, disk>>
    PROVE  Records'
<1>1. \A c \in Cycles : store'[c] = IF c = cycle THEN s ELSE store[c]
  BY DEF IInv, TypeOK
<1> QED
  BY <1>1, RecordsStay DEF fate, cycle

LEMMA WritePreserves ==
    ASSUME IInv, Write
    PROVE  IInv'
<1> DEFINE s == [store[cycle] EXCEPT !.revision = store[cycle].revision + 1]
<1>1. cycle \in Cycles /\ fate[cycle] = "open"
  BY DrivesInFlight DEF Write, Roles
<1>2. store[cycle] \in Store
  BY <1>1 DEF IInv, TypeOK
<1>3. store[cycle].revision + 1 \in 0 .. MaxRevision
  BY <1>2, Bounds DEF Write, Store
<1>4. s \in Store /\ s.kept = store[cycle].kept /\ s.preserved = store[cycle].preserved
      /\ s.verified = store[cycle].verified
  BY <1>2, <1>3 DEF Store
<1>5. store' = [store EXCEPT ![cycle] = s]
  BY DEF Write
<1> HIDE DEF s
<1>w. store' \in [Cycles -> Store]
  BY <1>4, <1>5 DEF IInv, TypeOK
<1>6. TypeOK'
  BY <1>w DEF IInv, TypeOK, Write
<1>7. Records'
  BY <1>1, <1>4, <1>5, <1>6, StagingStays DEF Write
<1>8. InCommand'
  BY IdleHoldsNothing DEF Write, Drives
<1> QED
  BY <1>6, <1>7, <1>8 DEF IInv

LEMMA JudgePreserves ==
    ASSUME IInv, Judge
    PROVE  IInv'
<1> DEFINE s == [store[cycle] EXCEPT !.judged = store[cycle].revision]
<1>1. cycle \in Cycles /\ fate[cycle] = "open"
  BY Typed DEF Judge, IInv, Records, InFlightIsOpen
<1>2. store[cycle] \in Store
  BY <1>1 DEF IInv, TypeOK
<1>3. s \in Store /\ s.kept = store[cycle].kept /\ s.preserved = store[cycle].preserved
      /\ s.verified = store[cycle].verified
  BY <1>2 DEF Store
<1>4. store' = [store EXCEPT ![cycle] = s]
  BY DEF Judge
<1> HIDE DEF s
<1>s. store' \in [Cycles -> Store]
  BY <1>3, <1>4 DEF IInv, TypeOK
<1>u. UNCHANGED <<coordinator, pace, units, pending, lanes, activity, disk, command, missed, stops>>
  BY DEF Judge
<1>5. TypeOK'
  BY <1>s, <1>u DEF IInv, TypeOK
<1>6. Records'
  BY <1>1, <1>3, <1>4, <1>5, StagingStays DEF Judge
<1>7. InCommand'
  BY IdleHoldsNothing DEF Judge
<1> QED
  BY <1>5, <1>6, <1>7 DEF IInv

-----------------------------------------------------------------------------
(* Commands that begin over the cycle in flight *)

\* The start of an unwinding: the phase is saved while lanes are active, else the discard follows.
LEMMA UnwindPreserves ==
    ASSUME IInv, cycle \in Cycles, NEW unit \in Units \cup {NoUnit}, NEW approved \in BOOLEAN,
           Unwind(coordinator, unit, approved),
           UNCHANGED <<units, pending, activity, disk, missed, stops>>,
           store' \in [Cycles -> Store],
           \A c \in Cycles :
              /\ store'[c].kept = store[c].kept /\ store'[c].preserved = store[c].preserved
              /\ store'[c].verified = store[c].verified \/ disk[c].revision = 0
              /\ store'[c].claimed = store[c].claimed,
           lanes' \in [Cycles -> [Roles -> {"none", "attached", "stopped", "settled"}]],
           \A c \in Cycles : \A r \in Roles :
              \/ lanes'[c][r] = lanes[c][r]
              \/ c = cycle /\ lanes'[c][r] = "stopped"
    PROVE  IInv'
<1> DEFINE m == IF coordinator.phase \in {"aborting", "blocked"} THEN coordinator
                ELSE [coordinator EXCEPT !.phase = "aborting"]
<1>1. TypeOK /\ coordinator \in Coordinator /\ fate[cycle] = "open" /\ cycle # NoCycle
  BY Typed DEF IInv, Records, InFlightIsOpen
<1>2. m \in Coordinator /\ m.cycle = cycle /\ m.fate = fate /\ m.phase \in {"aborting", "blocked"}
  BY <1>1 DEF Coordinator, Phases, cycle, fate
<1>3. \/ Return(m)
      \/ /\ ~\E r \in Roles : lanes'[cycle][r] = "attached"
         /\ Enter("discard", m, unit, approved, "aborted")
         /\ UNCHANGED <<coordinator, pace>>
  BY DEF Unwind, cycle
<1> HIDE DEF m
<1>4. CASE Return(m)
  <2>1. /\ coordinator' \in Coordinator
        /\ coordinator'.cycle = m.cycle /\ coordinator'.phase = m.phase /\ coordinator'.fate = m.fate
        /\ pace' \in [units : 0 .. UnitsPerCycle, mutations : 0 .. MutationsPerCycle]
    BY <1>1, <1>2, <1>4, SaveWrites DEF Return
  <2>2. command' \in Command /\ InCommand'
    BY <1>4, IdleHoldsNothing DEF Return
  <2>3. TypeOK'
    BY <1>1, <2>1, <2>2 DEF TypeOK
  <2>4. Records'
    BY <1>1, <1>2, <2>1, <2>3, RecordsStay DEF Late, Driven
  <2> QED
    BY <2>2, <2>3, <2>4 DEF IInv
<1>5. CASE /\ ~\E r \in Roles : lanes'[cycle][r] = "attached"
           /\ Enter("discard", m, unit, approved, "aborted")
           /\ UNCHANGED <<coordinator, pace>>
  <2>1. /\ command' \in Command
        /\ command'.at = "discard" /\ command'.id = cycle /\ command'.mem = m /\ command'.reason = "aborted"
    <3>1. Enter("discard", m, unit, approved, "aborted")
      BY <1>5
    <3>2. "discard" \in {"start", "discard", "settle", "admit", "intent", "save"}
             /\ "aborted" \in {"none", "aborted", "applied", "no-change"}
      OBVIOUS
    <3>3. m \in Coordinator /\ m.cycle = cycle
      BY <1>2
    <3>4. /\ command' \in Command
          /\ command'.at = "discard" /\ command'.id = m.cycle /\ command'.mem = m /\ command'.reason = "aborted"
      BY ONLY <3>1, <3>2, <3>3, EnterBegins, unit \in Units \cup {NoUnit}, approved \in BOOLEAN
    <3> QED
      BY <3>3, <3>4
  <2>2. TypeOK'
    BY <1>1, <1>5, <2>1 DEF TypeOK
  <2>3. Records'
    BY <1>1, <1>5, <2>2, RecordsStay DEF fate, cycle
  <2>4. cycle' = cycle /\ fate' = fate /\ here' = cycle /\ mem' = m
    BY <1>5, <2>1 DEF cycle, fate, here, mem
  <2>5. HoldsOpen' /\ Attached(here)' = {}
    BY <1>1, <1>2, <1>5, <2>4 DEF HoldsOpen, Attached, Late, Driven
  <2>6. InCommand'
    BY <1>1, <1>2, <2>1, <2>4, <2>5 DEF InCommand, Late
  <2> QED
    BY <2>2, <2>3, <2>6 DEF IInv
<1> QED
  BY <1>3, <1>4, <1>5

\* The host stops lanes of the cycle in flight and no others.
LEMMA StopLanesStops ==
    ASSUME TypeOK, cycle \in Cycles, NEW stopped, StopLanes(stopped)
    PROVE  /\ lanes' \in [Cycles -> [Roles -> {"none", "attached", "stopped", "settled"}]]
           /\ \A c \in Cycles : \A r \in Roles :
                 lanes'[c][r] = lanes[c][r] \/ (c = cycle /\ lanes'[c][r] = "stopped")
<1> DEFINE g == [r \in Roles |-> IF r \in stopped THEN "stopped" ELSE lanes[cycle][r]]
<1>1. lanes' = [lanes EXCEPT ![cycle] = g]
  BY DEF StopLanes
<1>2. /\ g \in [Roles -> {"none", "attached", "stopped", "settled"}]
      /\ \A r \in Roles : g[r] = lanes[cycle][r] \/ g[r] = "stopped"
  <2>1. lanes[cycle] \in [Roles -> {"none", "attached", "stopped", "settled"}]
    BY DEF TypeOK
  <2> QED
    BY <2>1
<1> HIDE DEF g
<1> QED
  BY <1>1, <1>2 DEF TypeOK

LEMMA AbortPreserves ==
    ASSUME IInv, NEW stopped \in SUBSET Roles, NEW approved \in BOOLEAN, Abort(stopped, approved)
    PROVE  IInv'
<1>1. TypeOK /\ cycle \in Cycles
  BY Typed DEF IInv, Abort
<1>2. StopLanes(stopped) /\ Unwind(coordinator, NoUnit, approved)
      /\ UNCHANGED <<units, pending, activity, store, disk, missed, stops>>
  BY DEF Abort
<1> QED
  BY <1>1, <1>2, StopLanesStops, UnwindPreserves DEF TypeOK

\* A command that begins with the coordinator as it is saved holds an open cycle or none.
LEMMA EnterHoldsOpen ==
    ASSUME IInv, NEW step \in {"start", "discard", "settle", "admit", "intent", "save"},
           NEW unit \in Units \cup {NoUnit}, NEW approved \in BOOLEAN,
           NEW reason \in {"none", "aborted", "applied", "no-change"}, NEW c \in Coordinator,
           c.cycle = cycle, c.fate = fate,
           cycle # NoCycle => /\ coordinator.phase \in Late => c.phase \in Late
                              /\ c.phase \in Driven => lanes[cycle]["verifier"] # "none",
           Enter(step, c, unit, approved, reason),
           UNCHANGED <<coordinator, lanes>>,
           \A d \in Cycles : store'[d].kept = store[d].kept /\ store'[d].preserved = store[d].preserved
    PROVE  /\ command' \in Command
           /\ command'.at = step /\ command'.reason = reason /\ mem' = c
           /\ here' = cycle /\ cycle' = cycle
           /\ HoldsOpen'
<1>1. /\ command' \in Command
      /\ command'.at = step /\ command'.id = c.cycle /\ command'.mem = c /\ command'.reason = reason
  BY EnterBegins
<1>2. mem' = c /\ here' = cycle /\ cycle' = cycle /\ fate' = fate
  BY <1>1 DEF mem, here, cycle, fate
<1>3. cycle # NoCycle => /\ cycle \in Cycles /\ fate[cycle] = "open" /\ OwnerIsKnown(cycle)
  BY Typed DEF IInv, Records, InFlightIsOpen
<1>4. HoldsOpen'
  BY <1>2, <1>3 DEF HoldsOpen, OwnerIsKnown
<1> QED
  BY <1>1, <1>2, <1>4

\* The end of a cycle that changed nothing, or whose changes were accepted.
LEMMA SettleBegins ==
    ASSUME IInv, cycle \in Cycles, NEW reason \in {"applied", "no-change"},
           Enter("settle", coordinator, NoUnit, FALSE, reason),
           ~store[cycle].preserved,
           reason = "no-change" => store[cycle].kept = "none",
           UNCHANGED <<coordinator, pace, units, pending, lanes, activity, store, disk, missed, stops>>
    PROVE  IInv'
<1>1. TypeOK /\ coordinator \in Coordinator /\ cycle # NoCycle
  BY Typed DEF IInv
<1>2. /\ command' \in Command
      /\ command'.at = "settle" /\ command'.reason = reason /\ mem' = coordinator
      /\ here' = cycle /\ cycle' = cycle
      /\ HoldsOpen'
  <2>1. "settle" \in {"start", "discard", "settle", "admit", "intent", "save"}
           /\ reason \in {"none", "aborted", "applied", "no-change"}
           /\ NoUnit \in Units \cup {NoUnit} /\ FALSE \in BOOLEAN
    OBVIOUS
  <2>2. cycle # NoCycle => (coordinator.phase \in Driven => lanes[cycle]["verifier"] # "none")
    BY DEF IInv, Records, InFlightIsOpen
  <2> QED
    BY <1>1, <2>1, <2>2, EnterHoldsOpen DEF cycle, fate
<1>3. TypeOK'
  BY <1>1, <1>2 DEF TypeOK
<1>4. Records'
  BY <1>1, <1>3, RecordsStay DEF fate, cycle
<1>5. InCommand'
  BY <1>1, <1>2 DEF InCommand
<1> QED
  BY <1>3, <1>4, <1>5 DEF IInv

LEMMA NoChangePreserves ==
    ASSUME IInv, NoChange
    PROVE  IInv'
<1>1. cycle \in Cycles /\ coordinator.phase = "investigate" /\ fate[cycle] = "open"
  BY DrivesInFlight DEF NoChange, Roles
<1>2. ~store[cycle].preserved /\ store[cycle].kept = "none"
  <2>1. OwnerIsKnown(cycle) /\ store[cycle].kept \in {"none", "open", "complete"}
    BY <1>1 DEF IInv, Records, TypeOK, Store
  <2> QED
    BY <1>1, <2>1 DEF OwnerIsKnown, Late
<1> QED
  BY <1>1, <1>2, SettleBegins DEF NoChange

LEMMA AcceptancePreserves ==
    ASSUME IInv, NEW pass \in BOOLEAN, Acceptance(pass)
    PROVE  IInv'
<1>1. TypeOK /\ cycle \in Cycles /\ lanes[cycle]["verifier"] = "attached"
  BY DrivesInFlight DEF Acceptance, Roles, IInv
<1>2. ~store[cycle].preserved
  BY <1>1 DEF IInv, Records, OwnerIsKnown
<1>3. CASE pass
  <2>1. /\ Enter("settle", coordinator, NoUnit, FALSE, "applied")
        /\ UNCHANGED <<coordinator, pace, units, pending, lanes, activity, store, disk, missed, stops>>
    BY <1>3 DEF Acceptance
  <2> QED
    BY <1>1, <1>2, <2>1, SettleBegins
<1>4. CASE ~pass
  <2>1. /\ Unwind(coordinator, NoUnit, FALSE)
        /\ UNCHANGED <<units, pending, lanes, activity, store, disk, missed, stops>>
    BY <1>4 DEF Acceptance
  <2> QED
    BY <1>1, <2>1, UnwindPreserves DEF TypeOK
<1> QED
  BY <1>3, <1>4

LEMMA AuthorizePreserves ==
    ASSUME IInv, Authorize
    PROVE  IInv'
<1> DEFINE s == [store[cycle] EXCEPT !.claimed = TRUE]
           c == [coordinator EXCEPT !.phase = "collect"]
<1>1. TypeOK /\ coordinator \in Coordinator
  BY Typed DEF IInv
<1>2. /\ cycle \in Cycles /\ cycle # NoCycle /\ fate[cycle] = "open"
      /\ coordinator.phase = "investigate" /\ lanes[cycle]["verifier"] = "attached"
  BY <1>1, DrivesInFlight, Typed DEF Authorize, Roles, Attached
<1>3. store[cycle] \in Store
  BY <1>1, <1>2 DEF TypeOK
<1>4. s \in Store /\ s.kept = store[cycle].kept /\ s.preserved = store[cycle].preserved
      /\ s.verified = store[cycle].verified
  BY <1>3 DEF Store
<1>5. c \in Coordinator /\ c.cycle = cycle /\ c.fate = fate /\ c.phase = "collect"
  BY <1>1 DEF Coordinator, Phases, cycle, fate
<1>6. /\ store' = [store EXCEPT ![cycle] = s] /\ Enter("save", c, NoUnit, FALSE, "none")
      /\ UNCHANGED <<coordinator, pace, units, pending, lanes, activity, disk, missed, stops>>
  BY DEF Authorize
<1> HIDE DEF s, c
<1>7. \A d \in Cycles : store'[d].kept = store[d].kept /\ store'[d].preserved = store[d].preserved
  BY <1>1, <1>2, <1>4, <1>6 DEF TypeOK
<1>8. /\ command' \in Command
      /\ command'.at = "save" /\ command'.reason = "none"
      /\ HoldsOpen'
  <2>1. /\ "save" \in {"start", "discard", "settle", "admit", "intent", "save"}
        /\ "none" \in {"none", "aborted", "applied", "no-change"}
        /\ NoUnit \in Units \cup {NoUnit} /\ FALSE \in BOOLEAN
    OBVIOUS
  <2>2. /\ coordinator.phase \in Late => c.phase \in Late
        /\ c.phase \in Driven => lanes[cycle]["verifier"] # "none"
    BY <1>2, <1>5 DEF Late
  <2> QED
    BY <1>5, <1>6, <1>7, <2>1, <2>2, EnterHoldsOpen
<1>9. TypeOK'
  BY <1>1, <1>2, <1>4, <1>6, <1>8 DEF TypeOK
<1>10. Records'
  BY <1>2, <1>4, <1>6, <1>9, StagingStays
<1>11. InCommand'
  BY <1>8 DEF InCommand
<1> QED
  BY <1>9, <1>10, <1>11 DEF IInv

\* Before its end a cycle has nothing on disk.
LEMMA NothingOnDisk ==
    ASSUME IInv, cycle \in Cycles, coordinator.phase \notin Late
    PROVE  disk[cycle].revision = 0 /\ store[cycle].kept = "none" /\ ~store[cycle].preserved
<1>1. /\ OwnerIsKnown(cycle) /\ ContentIsOwned(cycle) /\ fate[cycle] = "open"
      /\ store[cycle].kept \in {"none", "open", "complete"} /\ disk[cycle].revision \in Nat
  BY Typed DEF IInv, Records, InFlightIsOpen, TypeOK, Store
<1> QED
  BY <1>1 DEF OwnerIsKnown, ContentIsOwned

LEMMA VerdictPreserves ==
    ASSUME IInv, NEW pass \in BOOLEAN, Verdict(pass)
    PROVE  IInv'
<1> DEFINE s == [store[cycle] EXCEPT !.verdict = IF pass THEN "pass" ELSE "fail",
                                     !.verified = IF pass THEN store[cycle].judged ELSE 0]
           c == [coordinator EXCEPT !.phase = "consolidating"]
<1>1. TypeOK /\ coordinator \in Coordinator
  BY Typed DEF IInv
<1>2. /\ cycle \in Cycles /\ cycle # NoCycle /\ fate[cycle] = "open"
      /\ coordinator.phase = "verify" /\ lanes[cycle]["verifier"] = "attached"
  BY <1>1, DrivesInFlight, Typed DEF Verdict, Roles
<1>3. store[cycle] \in Store /\ disk[cycle].revision = 0 /\ store[cycle].kept = "none" /\ ~store[cycle].preserved
  BY <1>1, <1>2, NothingOnDisk DEF TypeOK, Late
<1>4. s \in Store /\ s.kept = store[cycle].kept /\ s.preserved = store[cycle].preserved
      /\ s.claimed = store[cycle].claimed /\ s.revision = store[cycle].revision
  <2>1. 0 \in 0 .. MaxRevision /\ store[cycle].judged \in 0 .. MaxRevision
    BY <1>3, Bounds DEF Store
  <2> QED
    BY <1>3, <2>1 DEF Store
<1>5. c \in Coordinator /\ c.cycle = cycle /\ c.fate = fate /\ c.phase = "consolidating"
  BY <1>1 DEF Coordinator, Phases, cycle, fate
<1>6. store' = [store EXCEPT ![cycle] = s]
  BY DEF Verdict
<1>7. ASSUME pass
      PROVE  s.verdict = "pass" /\ s.verified = store[cycle].judged
  BY <1>3, <1>7 DEF Store
<1>8. CASE pass /\ Enter("intent", c, NoUnit, FALSE, "none") /\ UNCHANGED <<coordinator, pace>>
  <2> HIDE DEF s, c
  <2>1. UNCHANGED <<coordinator, pace, units, pending, lanes, activity, disk, missed, stops>>
    BY <1>8 DEF Verdict
  <2>2. /\ store' \in [Cycles -> Store] /\ store'[cycle] = s
        /\ \A d \in Cycles : store'[d].kept = store[d].kept /\ store'[d].preserved = store[d].preserved
    BY <1>1, <1>2, <1>4, <1>6 DEF TypeOK
  <2>3. /\ command' \in Command
        /\ command'.at = "intent" /\ command'.reason = "none" /\ mem' = c
        /\ here' = cycle /\ cycle' = cycle
        /\ HoldsOpen'
    <3>1. /\ "intent" \in {"start", "discard", "settle", "admit", "intent", "save"}
          /\ "none" \in {"none", "aborted", "applied", "no-change"}
          /\ NoUnit \in Units \cup {NoUnit} /\ FALSE \in BOOLEAN
      OBVIOUS
    <3>2. /\ coordinator.phase \in Late => c.phase \in Late
          /\ c.phase \in Driven => lanes[cycle]["verifier"] # "none"
      BY <1>2, <1>5 DEF Late
    <3>3. Enter("intent", c, NoUnit, FALSE, "none") /\ UNCHANGED <<coordinator, lanes>>
      BY <1>8, <2>1
    <3> QED
      BY <1>5, <2>2, <3>1, <3>2, <3>3, EnterHoldsOpen
  <2>4. TypeOK'
    BY <1>1, <2>1, <2>2, <2>3 DEF TypeOK
  <2>5. Records'
    BY <1>2, <1>3, <1>4, <1>6, <2>1, <2>4, StagingStays
  <2>6. Passed'
    BY <1>3, <1>4, <1>8, <1>7, <2>2, <2>3 DEF Passed, Verdict, Verifiable
  <2>7. InCommand'
    BY <1>2, <1>5, <2>3, <2>6 DEF InCommand
  <2> QED
    BY <2>4, <2>5, <2>7 DEF IInv
<1>9. CASE Unwind(coordinator, NoUnit, FALSE)
  <2> HIDE DEF s, c
  <2>1. UNCHANGED <<units, pending, lanes, activity, disk, missed, stops>>
    BY DEF Verdict
  <2>2. /\ store' \in [Cycles -> Store]
        /\ \A d \in Cycles : store'[d] = IF d = cycle THEN s ELSE store[d]
    BY <1>1, <1>2, <1>4, <1>6 DEF TypeOK
  <2>3. \A d \in Cycles :
              /\ store'[d].kept = store[d].kept /\ store'[d].preserved = store[d].preserved
              /\ store'[d].verified = store[d].verified \/ disk[d].revision = 0
              /\ store'[d].claimed = store[d].claimed
    BY <1>3, <1>4, <2>2
  <2> QED
    BY <1>1, <1>2, <1>9, <2>1, <2>2, <2>3, UnwindPreserves DEF TypeOK
<1> QED
  BY <1>8, <1>9 DEF Verdict

-----------------------------------------------------------------------------
(* The trigger and the barrier *)

\* A cycle is only put off while the policy allows it.
LEMMA DecideWithinPolicy ==
    ASSUME NEW c \in Coordinator, Decide(c) = "run"
    PROVE  c.deferrals < MaxDeferrals
<1>1. c.deferrals \in Nat /\ MaxDeferrals \in Nat
  BY CoordinatorFields, Bounds
<1>2. ASSUME c.deferrals >= MaxDeferrals
      PROVE  Decide(c) # "run"
  BY <1>1, <1>2 DEF Decide
<1> QED
  BY <1>1, <1>2

LEMMA AdvancePreserves ==
    ASSUME IInv, NEW asked \in BOOLEAN, Advance(asked)
    PROVE  IInv'
<1> DEFINE c == [coordinator EXCEPT !.requested = coordinator.requested \/ asked]
<1>1. TypeOK /\ coordinator \in Coordinator /\ stops' = stops
      /\ UNCHANGED <<units, pending, lanes, activity, store, disk, stops>>
  BY Typed DEF IInv, Advance
<1>2. c \in Coordinator /\ c.cycle = cycle /\ c.fate = fate /\ c.phase = coordinator.phase
      /\ c.deferrals = coordinator.deferrals
  <2>1. (coordinator.requested \/ asked) \in BOOLEAN
    OBVIOUS
  <2> QED
    BY <1>1, <2>1 DEF Coordinator, cycle, fate
<1>3. \/ /\ cycle # NoCycle
         /\ Enter("start", c, NoUnit, FALSE, "none")
         /\ UNCHANGED <<coordinator, pace, missed>>
      \/ Return(c) /\ UNCHANGED missed
      \/ Return(Reset(c)) /\ missed' = 0
      \/ /\ cycle = NoCycle /\ Decide(c) = "run"
         /\ Return([c EXCEPT !.deferrals = c.deferrals + 1])
         /\ missed' = AtMost(missed + 1, MaxDeferrals + 1)
      \/ /\ cycle = NoCycle
         /\ Return([c EXCEPT !.deferrals = 1])
         /\ missed' = 0
      \/ /\ cycle = NoCycle
         /\ \E new \in Unused :
               Enter("start", [c EXCEPT !.deferrals = 0, !.cycle = new, !.phase = "baseline"],
                     NoUnit, FALSE, "none")
         /\ missed' = 0
         /\ UNCHANGED <<coordinator, pace>>
  BY DEF Advance
<1>4. missed' \in 0 .. MaxDeferrals + 1
  <2>1. missed \in 0 .. MaxDeferrals + 1 /\ MaxDeferrals \in Nat
    BY <1>1, Bounds DEF TypeOK
  <2>2. 0 \in 0 .. MaxDeferrals + 1 /\ AtMost(missed + 1, MaxDeferrals + 1) \in 0 .. MaxDeferrals + 1
    BY <2>1 DEF AtMost
  <2> QED
    BY <1>3, <2>1, <2>2
<1> HIDE DEF c
<1>5. CASE /\ cycle # NoCycle
           /\ Enter("start", c, NoUnit, FALSE, "none")
           /\ UNCHANGED <<coordinator, pace, missed>>
  <2>1. cycle # NoCycle => (coordinator.phase \in Driven => lanes[cycle]["verifier"] # "none")
    BY DEF IInv, Records, InFlightIsOpen
  <2>2. /\ command' \in Command
        /\ command'.at = "start" /\ command'.reason = "none"
        /\ here' = cycle /\ HoldsOpen'
    <3>1. /\ "start" \in {"start", "discard", "settle", "admit", "intent", "save"}
          /\ "none" \in {"none", "aborted", "applied", "no-change"}
          /\ NoUnit \in Units \cup {NoUnit} /\ FALSE \in BOOLEAN
      OBVIOUS
    <3> QED
      BY <1>1, <1>2, <1>5, <2>1, <3>1, EnterHoldsOpen
  <2>3. TypeOK'
    BY <1>1, <1>5, <2>2 DEF TypeOK
  <2>4. Records'
    BY <1>1, <1>5, <2>3, RecordsStay DEF fate, cycle
  <2>5. InCommand'
    BY <1>5, <2>2 DEF InCommand
  <2> QED
    BY <2>3, <2>4, <2>5 DEF IInv
<1>6. ASSUME NEW r \in Coordinator, r.cycle = cycle, r.fate = fate, r.phase = coordinator.phase, Return(r)
      PROVE  IInv'
  BY <1>1, <1>4, <1>6, ReturnStays DEF TypeOK
<1>7. CASE Return(c)
  BY <1>2, <1>6, <1>7
<1>8. CASE Return(Reset(c))
  <2>1. Reset(c) \in Coordinator /\ Reset(c).cycle = c.cycle /\ Reset(c).fate = c.fate /\ Reset(c).phase = c.phase
    <3>1. 0 \in 0 .. MaxDeferrals
      BY Bounds
    <3> QED
      BY <1>2, <3>1 DEF Reset, Coordinator
  <2> QED
    BY <1>2, <1>6, <1>8, <2>1
<1>9. ASSUME NEW n \in 0 .. MaxDeferrals, Return([c EXCEPT !.deferrals = n])
      PROVE  IInv'
  <2> DEFINE r == [c EXCEPT !.deferrals = n]
  <2>1. r \in Coordinator /\ r.cycle = c.cycle /\ r.fate = c.fate /\ r.phase = c.phase
    BY <1>2, <1>9 DEF Coordinator
  <2> HIDE DEF r
  <2> QED
    BY <1>2, <1>6, <1>9, <2>1 DEF r
<1>10. CASE cycle = NoCycle /\ Decide(c) = "run" /\ Return([c EXCEPT !.deferrals = c.deferrals + 1])
  <2>1. c.deferrals + 1 \in 0 .. MaxDeferrals
    <3>1. c.deferrals \in 0 .. MaxDeferrals /\ MaxDeferrals \in Nat
      BY <1>2, CoordinatorFields, Bounds
    <3> QED
      BY <1>2, <1>10, <3>1, DecideWithinPolicy
  <2> QED
    BY <1>9, <1>10, <2>1
<1>11. CASE Return([c EXCEPT !.deferrals = 1])
  BY <1>9, <1>11, Bounds
<1>12. ASSUME cycle = NoCycle, UNCHANGED <<coordinator, pace>>, NEW new \in Unused,
              Enter("start", [c EXCEPT !.deferrals = 0, !.cycle = new, !.phase = "baseline"],
                    NoUnit, FALSE, "none")
       PROVE  IInv'
  <2> DEFINE r == [c EXCEPT !.deferrals = 0, !.cycle = new, !.phase = "baseline"]
  <2>1. new \in Cycles /\ fate[new] = "open" /\ new # NoCycle
    BY <1>1, Typed DEF Unused, fate
  <2>2. r \in Coordinator /\ r.cycle = new /\ r.fate = fate /\ r.phase = "baseline"
    <3>1. 0 \in 0 .. MaxDeferrals
      BY Bounds
    <3> QED
      BY <1>2, <2>1, <3>1 DEF Coordinator, Phases
  <2> HIDE DEF r
  <2>3. Enter("start", r, NoUnit, FALSE, "none")
    BY <1>12 DEF r
  <2>4. /\ command' \in Command
        /\ command'.at = "start" /\ command'.id = r.cycle /\ command'.mem = r /\ command'.reason = "none"
    <3>1. /\ "start" \in {"start", "discard", "settle", "admit", "intent", "save"}
          /\ "none" \in {"none", "aborted", "applied", "no-change"}
          /\ NoUnit \in Units \cup {NoUnit} /\ FALSE \in BOOLEAN
      OBVIOUS
    <3> QED
      BY ONLY <2>2, <2>3, <3>1, EnterBegins
  <2>5. TypeOK'
    BY <1>1, <1>4, <1>12, <2>4 DEF TypeOK
  <2>6. Records'
    BY <1>1, <1>12, <2>5, RecordsStay DEF fate, cycle
  <2>7. here' = new /\ mem' = r /\ cycle' = NoCycle /\ fate' = fate
    BY <1>12, <2>2, <2>4 DEF here, mem, cycle, fate
  <2>8. store[new].kept # "open" /\ ~store[new].preserved
    BY <1>12, <2>1 DEF IInv, Records, OwnerIsKnown
  <2>9. HoldsOpen'
    BY <1>1, <2>1, <2>2, <2>7, <2>8 DEF HoldsOpen, Driven
  <2>10. InCommand'
    BY <2>1, <2>4, <2>7, <2>9 DEF InCommand
  <2> QED
    BY <2>5, <2>6, <2>10 DEF IInv
<1> QED
  BY <1>3, <1>5, <1>7, <1>8, <1>10, <1>11, <1>12

LEMMA AdmitPreserves ==
    ASSUME IInv, NEW u \in Units, NEW stopped \in SUBSET Roles, NEW approved \in BOOLEAN,
           Admit(u, stopped, approved)
    PROVE  IInv'
<1>1. TypeOK /\ coordinator \in Coordinator /\ cycle \in Cycles \cup {NoCycle}
      /\ UNCHANGED <<units, pending, activity, store, disk, missed, stops>>
  BY Typed DEF IInv, Admit
<1>2. CASE cycle = NoCycle
  <2>1. Enter("admit", coordinator, u, FALSE, "none") /\ UNCHANGED <<coordinator, pace, lanes>>
    BY <1>2 DEF Admit
  <2>2. /\ command' \in Command
        /\ command'.at = "admit" /\ command'.reason = "none"
        /\ here' = cycle /\ HoldsOpen'
    <3>1. /\ "admit" \in {"start", "discard", "settle", "admit", "intent", "save"}
          /\ "none" \in {"none", "aborted", "applied", "no-change"}
          /\ u \in Units \cup {NoUnit} /\ FALSE \in BOOLEAN
      OBVIOUS
    <3> QED
      BY <1>1, <1>2, <2>1, <3>1, EnterHoldsOpen DEF cycle, fate
  <2>3. TypeOK'
    BY <1>1, <2>1, <2>2 DEF TypeOK
  <2>4. Records'
    BY <1>1, <2>1, <2>3, RecordsStay DEF fate, cycle
  <2>5. InCommand'
    BY <1>2, <2>2 DEF InCommand, NoCycle, here
  <2> QED
    BY <2>3, <2>4, <2>5 DEF IInv
<1>3. CASE cycle # NoCycle
  <2>1. cycle \in Cycles /\ StopLanes(stopped) /\ Unwind(coordinator, u, approved)
    BY <1>1, <1>3 DEF Admit
  <2> QED
    BY <1>1, <2>1, StopLanesStops, UnwindPreserves DEF TypeOK
<1> QED
  BY <1>2, <1>3

-----------------------------------------------------------------------------
(* The saves of a command under way *)

\* The history learns of the cycle.
LEMMA StartActivityPreserves ==
    ASSUME IInv, StartActivity
    PROVE  IInv'
<1>1. /\ TypeOK /\ mem \in Coordinator /\ HoldsOpen /\ command.reason = "none"
      /\ here \in Cycles /\ fate[here] = "open"
  BY Typed DEF IInv, InCommand, StartActivity, HoldsOpen
<1>2. /\ activity' \in [Cycles -> {"none", "started", "completed", "interrupted"}]
      /\ \A c \in Cycles : c # here => activity'[c] = activity[c]
  BY <1>1 DEF TypeOK, StartActivity, Started
<1>3. Go("save", mem) /\ UNCHANGED <<coordinator, pace, units, pending, lanes, store, disk, missed, stops>>
  BY DEF StartActivity, mem
<1>4. command' \in Command /\ command'.at = "save" /\ here' = here /\ mem' = mem /\ command'.reason = "none"
  BY <1>1, <1>3, GoKeeps DEF here, mem
<1>5. TypeOK'
  BY <1>1, <1>2, <1>3, <1>4 DEF TypeOK
<1>6. Records'
  BY <1>1, <1>2, <1>3, <1>5, RecordsStay DEF fate, cycle
<1>7. HoldsOpen'
  BY <1>1, <1>3, <1>4 DEF HoldsOpen, cycle, fate
<1>8. InCommand'
  BY <1>4, <1>7 DEF InCommand
<1> QED
  BY <1>5, <1>6, <1>8 DEF IInv

\* The staging of the cycle is dropped and its claims are released.
LEMMA DropStagingPreserves ==
    ASSUME IInv, DropStaging
    PROVE  IInv'
<1> DEFINE s == [store[here] EXCEPT !.claimed = FALSE, !.revision = 0, !.verdict = "none"]
<1>1. /\ TypeOK /\ mem \in Coordinator /\ HoldsOpen /\ GivenUp /\ cycle = here /\ here # NoCycle
      /\ here \in Cycles /\ fate[here] = "open"
  BY Typed DEF IInv, InCommand, DropStaging, HoldsOpen
<1>2. s \in Store /\ s.kept = store[here].kept /\ s.preserved = store[here].preserved
      /\ s.verified = store[here].verified /\ ~s.claimed
  <2>1. store[here] \in Store
    BY <1>1 DEF TypeOK
  <2>2. 0 \in 0 .. MaxRevision
    BY Bounds
  <2> QED
    BY <2>1, <2>2 DEF Store
<1>3. store' = [store EXCEPT ![here] = s]
  BY DEF DropStaging
<1>4. Go("settle", mem) /\ UNCHANGED <<coordinator, pace, units, pending, lanes, activity, disk, missed, stops>>
  BY DEF DropStaging, mem
<1> HIDE DEF s
<1>5. /\ command' \in Command /\ command'.at = "settle" /\ here' = here /\ mem' = mem
      /\ command'.reason = command.reason
  BY <1>1, <1>4, GoKeeps DEF here, mem
<1>6. TypeOK' /\ store'[here] = s
  BY <1>1, <1>2, <1>3, <1>4, <1>5 DEF TypeOK
<1>7. Records'
  BY <1>1, <1>2, <1>3, <1>4, <1>6, StagingStays
<1>8. cycle' = cycle /\ HoldsOpen'
  BY <1>1, <1>2, <1>4, <1>5, <1>6 DEF HoldsOpen, cycle, fate
<1>9. GivenUp' /\ ~store'[here'].claimed
  BY <1>1, <1>2, <1>4, <1>5, <1>6 DEF GivenUp, Attached
<1>10. InCommand'
  BY <1>1, <1>5, <1>8, <1>9 DEF InCommand
<1> QED
  BY <1>6, <1>7, <1>10 DEF IInv

\* The content of the cycle is rolled back, or kept with the user's approval.
LEMMA DiscardUndoes ==
    ASSUME IInv, Discard, store[here].kept = "open", ~store[here].preserved,
           NEW s \in Store, store' = [store EXCEPT ![here] = s],
           s.kept = "none", s.preserved = command.approved, s.verified = store[here].verified,
           disk' = IF command.approved THEN disk ELSE [disk EXCEPT ![here] = Clean],
           Go("drop", mem), UNCHANGED <<coordinator, pace>>
    PROVE  IInv'
<1>1. /\ TypeOK /\ mem \in Coordinator /\ HoldsOpen /\ cycle = here /\ here # NoCycle
      /\ here \in Cycles /\ fate[here] = "open" /\ mem.phase \in Late
      /\ command.reason = "aborted" /\ Attached(here) = {}
      /\ command.approved \in BOOLEAN
  BY Typed DEF IInv, InCommand, Discard, HoldsOpen, TypeOK, Command
<1>2. UNCHANGED <<coordinator, pace, units, pending, lanes, activity, missed, stops>>
  BY DEF Discard
<1>3. /\ command' \in Command /\ command'.at = "drop" /\ here' = here /\ mem' = mem
      /\ command'.reason = command.reason
  BY <1>1, GoKeeps DEF here, mem
<1>4. /\ disk' \in [Cycles -> [revision : 0 .. MaxRevision, edited : BOOLEAN]]
      /\ \A c \in Cycles : c # here => disk'[c] = disk[c]
      /\ disk'[here] = IF command.approved THEN disk[here] ELSE Clean
  <2>1. Clean \in [revision : 0 .. MaxRevision, edited : BOOLEAN]
    BY Bounds DEF Clean
  <2> QED
    BY <1>1, <2>1 DEF TypeOK
<1>5. TypeOK' /\ store'[here] = s /\ \A c \in Cycles : c # here => store'[c] = store[c]
  BY <1>1, <1>2, <1>3, <1>4 DEF TypeOK
<1>6. /\ disk[here].revision > 0 /\ disk[here].revision = store[here].verified
      /\ coordinator.phase \in Late
      /\ lanes[here]["verifier"] \notin {"none", "attached"}
  <2>1. ContentIsOwned(here) /\ OwnerIsKnown(here)
    BY <1>1 DEF IInv, Records
  <2> QED
    BY <1>1, <2>1 DEF ContentIsOwned, OwnerIsKnown, Attached, Roles
<1>7. Records'
  <2>1. InFlightIsOpen'
    BY <1>2 DEF IInv, Records, InFlightIsOpen, cycle, fate
  <2>2. ASSUME NEW c \in Cycles, c # here
        PROVE  /\ ContentIsOwned(c)' /\ OwnerIsKnown(c)'
               /\ fate'[c] \in {"aborted", "preserved"} => Unwound(c)'
    <3>1. /\ ContentIsOwned(c) /\ OwnerIsKnown(c)
          /\ fate[c] \in {"aborted", "preserved"} => Unwound(c)
      BY DEF IInv, Records
    <3> QED
      BY <1>2, <1>4, <1>5, <2>2, <3>1 DEF ContentIsOwned, OwnerIsKnown, Unwound, Live, cycle, fate
  <2>3. ContentIsOwned(here)'
    BY <1>1, <1>3, <1>4, <1>5, <1>6 DEF ContentIsOwned, Clean
  <2>4. OwnerIsKnown(here)'
    BY <1>1, <1>2, <1>3, <1>5, <1>6 DEF OwnerIsKnown, cycle, fate
  <2>5. fate'[here] = "open"
    BY <1>1, <1>2 DEF fate
  <2> QED
    BY <1>3, <2>1, <2>2, <2>3, <2>4, <2>5 DEF Records
<1>8. cycle' = cycle /\ HoldsOpen'
  BY <1>1, <1>2, <1>3, <1>5 DEF HoldsOpen, cycle, fate
<1>9. GivenUp' /\ Attached(here)' = {}
  BY <1>1, <1>2, <1>3, <1>4, <1>5 DEF GivenUp, Attached, Clean
<1>10. InCommand'
  BY <1>1, <1>3, <1>8, <1>9 DEF InCommand
<1> QED
  BY <1>5, <1>7, <1>10 DEF IInv

LEMMA DiscardPreserves ==
    ASSUME IInv, Discard
    PROVE  IInv'
<1> DEFINE blocked == [mem EXCEPT !.phase = "blocked"]
           s == [store[here] EXCEPT !.kept = "none", !.preserved = command.approved]
<1>1. /\ TypeOK /\ mem \in Coordinator /\ HoldsOpen /\ cycle = here /\ here # NoCycle
      /\ here \in Cycles /\ fate[here] = "open" /\ mem.phase \in Late
      /\ command.reason = "aborted" /\ Attached(here) = {}
      /\ command.approved \in BOOLEAN
  BY Typed DEF IInv, InCommand, Discard, HoldsOpen, TypeOK, Command
<1>2. UNCHANGED <<units, pending, lanes, activity, missed, stops>>
  BY DEF Discard
<1>3. \/ /\ Go("drop", mem) /\ UNCHANGED <<coordinator, pace, store, disk>>
         /\ store[here].preserved \/ store[here].kept # "open"
      \/ /\ Go("drop", mem) /\ UNCHANGED <<coordinator, pace>>
         /\ ~store[here].preserved /\ store[here].kept = "open"
         /\ store' = [store EXCEPT ![here] = s]
         /\ disk' = IF command.approved THEN disk ELSE [disk EXCEPT ![here] = Clean]
      \/ Return(blocked) /\ UNCHANGED <<store, disk>>
      \/ Return(mem) /\ UNCHANGED <<store, disk>>
  BY DEF Discard, mem
<1>4. CASE /\ Go("drop", mem) /\ UNCHANGED <<coordinator, pace, store, disk>>
           /\ store[here].preserved \/ store[here].kept # "open"
  <2>1. /\ command' \in Command /\ command'.at = "drop" /\ here' = here /\ mem' = mem
        /\ command'.reason = command.reason
    BY <1>1, <1>4, GoKeeps DEF here, mem
  <2>2. TypeOK'
    BY <1>1, <1>2, <1>4, <2>1 DEF TypeOK
  <2>3. Records'
    BY <1>2, <1>4, <2>2, RecordsStay DEF fate, cycle
  <2>4. store[here].kept = "none" /\ (disk[here].revision > 0 => store[here].preserved)
    <3>1. /\ ContentIsOwned(here) /\ OwnerIsKnown(here)
          /\ store[here].kept \in {"none", "open", "complete"}
      BY <1>1 DEF IInv, Records, TypeOK, Store
    <3> QED
      BY <1>1, <1>4, <3>1 DEF ContentIsOwned, OwnerIsKnown
  <2>5. cycle' = cycle /\ HoldsOpen' /\ GivenUp' /\ Attached(here)' = {}
    BY <1>1, <1>2, <1>4, <2>1, <2>4 DEF HoldsOpen, GivenUp, Attached, cycle, fate
  <2>6. InCommand'
    BY <1>1, <2>1, <2>5 DEF InCommand
  <2> QED
    BY <2>2, <2>3, <2>6 DEF IInv
<1>5. CASE /\ Go("drop", mem) /\ UNCHANGED <<coordinator, pace>>
           /\ ~store[here].preserved /\ store[here].kept = "open"
           /\ store' = [store EXCEPT ![here] = s]
           /\ disk' = IF command.approved THEN disk ELSE [disk EXCEPT ![here] = Clean]
  <2>1. store[here] \in Store
    BY <1>1 DEF TypeOK
  <2>2. s \in Store /\ s.kept = "none" /\ s.preserved = command.approved /\ s.verified = store[here].verified
    BY <1>1, <2>1 DEF Store
  <2> HIDE DEF s
  <2> QED
    BY <1>5, <2>2, DiscardUndoes
<1>6. ASSUME NEW c \in Coordinator, c.cycle = here, c.fate = fate, c.phase \in Late,
             c.phase \in Driven => mem.phase = c.phase,
             Return(c), UNCHANGED <<store, disk>>
      PROVE  IInv'
  <2>1. c.phase \in Driven => lanes[cycle]["verifier"] # "none"
    BY <1>1, <1>6 DEF HoldsOpen
  <2> QED
    BY <1>1, <1>2, <1>6, <2>1, ReturnStays DEF TypeOK
<1>7. CASE Return(blocked) /\ UNCHANGED <<store, disk>>
  <2>1. blocked \in Coordinator /\ blocked.cycle = here /\ blocked.fate = fate /\ blocked.phase = "blocked"
    BY <1>1 DEF Coordinator, Phases, HoldsOpen
  <2> HIDE DEF blocked
  <2> QED
    BY <1>6, <1>7, <2>1 DEF Late, Driven
<1>8. CASE Return(mem) /\ UNCHANGED <<store, disk>>
  BY <1>1, <1>6, <1>8 DEF HoldsOpen
<1> QED
  BY <1>3, <1>4, <1>5, <1>7, <1>8

\* What a command that settles its cycle knows of it.
LEMMA SettlingKnows ==
    ASSUME IInv, command.at = "settle"
    PROVE  /\ TypeOK /\ mem \in Coordinator /\ HoldsOpen /\ cycle = here /\ here # NoCycle
           /\ here \in Cycles /\ fate[here] = "open"
           /\ \/ GivenUp /\ ~store[here].claimed
              \/ command.reason = "applied" /\ ~store[here].preserved
              \/ command.reason = "no-change" /\ ~store[here].preserved /\ store[here].kept = "none"
BY Typed DEF IInv, InCommand, HoldsOpen

\* The history is told of the start, or of the end of one lane; the command stays where it is.
LEMMA SettleGoesOn ==
    ASSUME IInv, command.at = "settle",
           UNCHANGED <<coordinator, pace, units, pending, store, disk, command, missed, stops>>,
           activity' \in [Cycles -> {"none", "started", "completed", "interrupted"}],
           \A c \in Cycles : c # here => activity'[c] = activity[c],
           lanes' \in [Cycles -> [Roles -> {"none", "attached", "stopped", "settled"}]],
           \A c \in Cycles : \A r \in Roles :
              lanes'[c][r] = lanes[c][r] \/ (c = here /\ lanes'[c][r] = "settled")
    PROVE  IInv'
<1>1. /\ TypeOK /\ mem \in Coordinator /\ HoldsOpen /\ cycle = here /\ here # NoCycle
      /\ here \in Cycles /\ fate[here] = "open"
  BY SettlingKnows
<1>2. TypeOK'
  BY <1>1 DEF TypeOK
<1>3. Records'
  BY <1>1, <1>2, RecordsStay DEF fate, cycle
<1>4. here' = here /\ mem' = mem /\ cycle' = cycle /\ fate' = fate
  BY DEF here, mem, cycle, fate
<1>5. HoldsOpen'
  BY <1>1, <1>4 DEF HoldsOpen, Roles
<1>6. \/ GivenUp' /\ ~store'[here'].claimed
      \/ command'.reason = "applied" /\ ~store'[here'].preserved
      \/ command'.reason = "no-change" /\ ~store'[here'].preserved /\ store'[here'].kept = "none"
  BY <1>1, <1>4, SettlingKnows DEF GivenUp, Attached
<1>7. InCommand'
  BY <1>1, <1>4, <1>5, <1>6 DEF InCommand
<1> QED
  BY <1>2, <1>3, <1>7 DEF IInv

\* The closure follows once every lane is settled, and says why the cycle ended.
LEMMA SettleCloses ==
    ASSUME IInv, command.at = "settle", Live(here) = {},
           NEW why, why = IF store[here].preserved THEN "preserved" ELSE command.reason,
           NEW outcome, outcome = IF command.reason = "aborted" THEN "interrupted" ELSE "completed",
           activity' = [activity EXCEPT ![here] = outcome],
           NEW step \in {"save", "admit"}, Go(step, Closed(mem, why)),
           UNCHANGED <<coordinator, pace, units, pending, lanes, store, disk, missed, stops>>
    PROVE  IInv'
<1>1. /\ TypeOK /\ mem \in Coordinator /\ HoldsOpen /\ cycle = here /\ here # NoCycle
      /\ here \in Cycles /\ fate[here] = "open" /\ mem.cycle = here /\ mem.fate = fate
      /\ \/ GivenUp /\ ~store[here].claimed
         \/ command.reason = "applied" /\ ~store[here].preserved
         \/ command.reason = "no-change" /\ ~store[here].preserved /\ store[here].kept = "none"
  BY SettlingKnows DEF HoldsOpen
<1>2. why \in Fates
  BY <1>1 DEF Fates, GivenUp
<1> DEFINE m == Closed(mem, why)
<1>3. m \in Coordinator /\ m.cycle = NoCycle /\ m.fate = [fate EXCEPT ![here] = why]
  BY <1>1, <1>2, ClosedForgets
<1> HIDE DEF m
<1>4. Go(step, m)
  BY DEF m
<1>5. /\ command' \in Command /\ command'.at = step /\ here' = here /\ mem' = m
      /\ command'.reason = command.reason
  <2>1. step \in {"start", "discard", "drop", "settle", "admit", "intent", "consolidate", "save", "release"}
    OBVIOUS
  <2> QED
    BY ONLY <1>1, <1>3, <1>4, <2>1, GoKeeps DEF here, mem
<1>6. /\ activity' \in [Cycles -> {"none", "started", "completed", "interrupted"}]
      /\ activity'[here] = outcome
      /\ \A c \in Cycles : c # here => activity'[c] = activity[c]
  BY <1>1 DEF TypeOK
<1>7. TypeOK'
  BY <1>1, <1>5, <1>6 DEF TypeOK
<1>8. Records'
  BY <1>1, <1>6, <1>7, RecordsStay DEF fate, cycle
<1>9. cycle' = cycle /\ fate' = fate
  BY DEF cycle, fate
<1>10. HoldsClosed'
  <2>1. CASE GivenUp /\ ~store[here].claimed
    <3>1. GivenUp' /\ ~store'[here'].claimed /\ Live(here)' = {} /\ activity'[here'] = "interrupted"
      BY <1>5, <1>6, <2>1 DEF GivenUp, Attached, Live
    <3>2. why = IF store[here].preserved THEN "preserved" ELSE "aborted"
      BY <2>1 DEF GivenUp
    <3> QED
      BY <1>1, <1>3, <1>5, <1>9, <3>1, <3>2 DEF HoldsClosed
  <2>2. CASE command.reason = "applied" /\ ~store[here].preserved
    BY <1>1, <1>3, <1>5, <1>9, <2>2 DEF HoldsClosed
  <2>3. CASE command.reason = "no-change" /\ ~store[here].preserved /\ store[here].kept = "none"
    BY <1>1, <1>3, <1>5, <1>9, <2>3 DEF HoldsClosed
  <2> QED
    BY <1>1, <2>1, <2>2, <2>3
<1>11. InCommand'
  BY <1>5, <1>10 DEF InCommand
<1> QED
  BY <1>7, <1>8, <1>11 DEF IInv

LEMMA SettlePreserves ==
    ASSUME IInv, Settle
    PROVE  IInv'
<1>1. /\ command.at = "settle" /\ TypeOK /\ here \in Cycles
      /\ UNCHANGED <<coordinator, pace, units, pending, store, disk, missed, stops>>
  BY SettlingKnows DEF Settle
<1>2. CASE /\ activity[here] = "none" /\ activity' = Started(here)
           /\ UNCHANGED <<lanes, command>>
  <2>1. /\ activity' \in [Cycles -> {"none", "started", "completed", "interrupted"}]
        /\ \A c \in Cycles : c # here => activity'[c] = activity[c]
    BY <1>1, <1>2 DEF TypeOK, Started
  <2> QED
    BY <1>1, <1>2, <2>1, SettleGoesOn DEF TypeOK
<1>3. CASE /\ \E r \in Live(here) : lanes' = [lanes EXCEPT ![here][r] = "settled"]
           /\ UNCHANGED <<activity, command>>
  <2>1. PICK r \in Live(here) : lanes' = [lanes EXCEPT ![here][r] = "settled"]
    BY <1>3
  <2> DEFINE g == [lanes[here] EXCEPT ![r] = "settled"]
  <2>2. /\ g \in [Roles -> {"none", "attached", "stopped", "settled"}]
        /\ \A q \in Roles : g[q] = lanes[here][q] \/ g[q] = "settled"
        /\ lanes' = [lanes EXCEPT ![here] = g]
    BY <1>1, <2>1 DEF TypeOK
  <2> HIDE DEF g
  <2>3. /\ lanes' \in [Cycles -> [Roles -> {"none", "attached", "stopped", "settled"}]]
        /\ \A c \in Cycles : \A q \in Roles :
              lanes'[c][q] = lanes[c][q] \/ (c = here /\ lanes'[c][q] = "settled")
    BY <1>1, <2>2 DEF TypeOK
  <2> QED
    BY <1>1, <1>3, <2>3, SettleGoesOn DEF TypeOK
<1>4. CASE /\ activity[here] # "none" /\ Live(here) = {}
           /\ activity' = [activity EXCEPT ![here] = Outcome]
           /\ Go(IF command.unit = NoUnit THEN "save" ELSE "admit",
                 Closed(command.mem, IF store[here].preserved THEN "preserved" ELSE command.reason))
           /\ UNCHANGED lanes
  <2> DEFINE why == IF store[here].preserved THEN "preserved" ELSE command.reason
             step == IF command.unit = NoUnit THEN "save" ELSE "admit"
  <2>1. step \in {"save", "admit"}
    OBVIOUS
  <2>2. Go(step, Closed(mem, why))
    BY <1>4 DEF mem
  <2>3. Outcome = IF command.reason = "aborted" THEN "interrupted" ELSE "completed"
    BY DEF Outcome
  <2> HIDE DEF why, step
  <2> QED
    BY <1>1, <1>4, <2>1, <2>2, <2>3, SettleCloses DEF why
<1> QED
  BY <1>2, <1>3, <1>4 DEF Settle

LEMMA SettleRefusedPreserves ==
    ASSUME IInv, SettleRefused
    PROVE  IInv'
<1>1. /\ TypeOK /\ mem \in Coordinator /\ HoldsOpen /\ cycle = here /\ here # NoCycle
  BY SettlingKnows DEF SettleRefused
<1>2. Return(mem) /\ UNCHANGED <<units, pending, lanes, activity, store, disk, missed, stops>>
  BY DEF SettleRefused, mem
<1> QED
  BY <1>1, <1>2, ReturnStays DEF HoldsOpen, TypeOK

\* The intent is saved before anything is written to the workspace.
LEMMA SaveIntentPreserves ==
    ASSUME IInv, SaveIntent
    PROVE  IInv'
<1>1. /\ TypeOK /\ mem \in Coordinator /\ HoldsOpen /\ cycle = here /\ here # NoCycle
      /\ here \in Cycles /\ fate[here] = "open" /\ mem.cycle = here /\ mem.fate = fate
      /\ Passed /\ command.reason = "none" /\ mem.phase = "consolidating"
  BY Typed DEF IInv, InCommand, HoldsOpen, SaveIntent
<1>2. /\ Save(mem) /\ Go("consolidate", mem)
      /\ UNCHANGED <<units, pending, lanes, activity, store, disk, missed, stops>>
  BY DEF SaveIntent, mem
<1>3. /\ coordinator' \in Coordinator
      /\ coordinator'.cycle = here /\ coordinator'.phase = "consolidating" /\ coordinator'.fate = fate
      /\ pace' \in [units : 0 .. UnitsPerCycle, mutations : 0 .. MutationsPerCycle]
  BY <1>1, <1>2, SaveWrites
<1>4. /\ command' \in Command /\ command'.at = "consolidate" /\ here' = here /\ mem' = mem
      /\ command'.reason = "none"
  BY <1>1, <1>2, GoKeeps DEF here, mem
<1>5. TypeOK'
  BY <1>1, <1>2, <1>3, <1>4 DEF TypeOK
<1>6. lanes[here]["verifier"] # "none"
  BY <1>1 DEF HoldsOpen, Driven
<1>7. Records'
  BY <1>1, <1>2, <1>3, <1>5, <1>6, RecordsStay DEF Late
<1>8. HoldsOpen' /\ Passed' /\ cycle' = here'
  BY <1>1, <1>2, <1>3, <1>4, <1>6 DEF HoldsOpen, Passed, Late, cycle, fate
<1>9. InCommand'
  BY <1>1, <1>3, <1>4, <1>8 DEF InCommand
<1> QED
  BY <1>5, <1>7, <1>9 DEF IInv

\* What the verifier passed is written to the workspace, and can be rolled back from then on.
LEMMA ContentIsApplied ==
    ASSUME IInv, command.at = "consolidate",
           NEW s \in Store, store' = [store EXCEPT ![here] = s],
           s.kept = "open", s.preserved = store[here].preserved, s.verified = store[here].verified,
           disk' = [disk EXCEPT ![here] = [revision |-> store[here].revision, edited |-> FALSE]],
           NEW m \in Coordinator, m.cycle = mem.cycle, m.fate = mem.fate, m.phase = "acceptance",
           Go("save", m),
           UNCHANGED <<coordinator, pace, units, pending, lanes, activity, missed, stops>>
    PROVE  IInv'
<1>1. /\ TypeOK /\ HoldsOpen /\ cycle = here /\ here # NoCycle
      /\ here \in Cycles /\ fate[here] = "open" /\ mem.cycle = here /\ mem.fate = fate
      /\ Passed /\ command.reason = "none" /\ coordinator.phase = "consolidating"
  BY Typed DEF IInv, InCommand, HoldsOpen
<1>2. lanes[here]["verifier"] # "none"
  BY <1>1 DEF IInv, Records, InFlightIsOpen, Driven
<1>3. /\ command' \in Command /\ command'.at = "save" /\ here' = here /\ mem' = m
      /\ command'.reason = "none"
  <2>1. "save" \in {"start", "discard", "drop", "settle", "admit", "intent", "consolidate", "save", "release"}
    OBVIOUS
  <2> QED
    BY <1>1, <2>1, GoKeeps DEF here, mem
<1>4. store[here].revision \in 0 .. MaxRevision /\ store[here].revision > 0
  BY <1>1 DEF TypeOK, Store, Passed
<1> DEFINE d == [revision |-> store[here].revision, edited |-> FALSE]
<1>5. d \in [revision : 0 .. MaxRevision, edited : BOOLEAN] /\ d.revision = store[here].revision
  BY <1>4
<1> HIDE DEF d
<1>6. /\ disk' \in [Cycles -> [revision : 0 .. MaxRevision, edited : BOOLEAN]]
      /\ disk'[here] = d /\ \A c \in Cycles : c # here => disk'[c] = disk[c]
  BY <1>1, <1>5 DEF TypeOK, d
<1>7. /\ store' \in [Cycles -> Store]
      /\ store'[here] = s /\ \A c \in Cycles : c # here => store'[c] = store[c]
  BY <1>1 DEF TypeOK
<1>8. TypeOK'
  BY <1>1, <1>3, <1>6, <1>7 DEF TypeOK
<1>9. Records'
  <2>1. InFlightIsOpen'
    BY DEF IInv, Records, InFlightIsOpen, cycle, fate
  <2>2. ASSUME NEW c \in Cycles, c # here
        PROVE  /\ ContentIsOwned(c)' /\ OwnerIsKnown(c)'
               /\ fate'[c] \in {"aborted", "preserved"} => Unwound(c)'
    <3>1. /\ ContentIsOwned(c) /\ OwnerIsKnown(c)
          /\ fate[c] \in {"aborted", "preserved"} => Unwound(c)
      BY DEF IInv, Records
    <3> QED
      BY <1>6, <1>7, <2>2, <3>1 DEF ContentIsOwned, OwnerIsKnown, Unwound, Live, cycle, fate
  <2>3. ContentIsOwned(here)'
    BY <1>1, <1>3, <1>4, <1>5, <1>6, <1>7 DEF ContentIsOwned, Passed
  <2>4. OwnerIsKnown(here)'
    BY <1>1, <1>2, <1>3, <1>7 DEF OwnerIsKnown, Passed, Late, cycle, fate
  <2>5. fate'[here] = "open"
    BY <1>1 DEF fate
  <2> QED
    BY <1>3, <2>1, <2>2, <2>3, <2>4, <2>5 DEF Records
<1>10. HoldsOpen'
  BY <1>1, <1>2, <1>3 DEF HoldsOpen, Late, cycle, fate
<1>11. InCommand'
  BY <1>3, <1>10 DEF InCommand
<1> QED
  BY <1>8, <1>9, <1>11 DEF IInv

LEMMA ConsolidateCyclePreserves ==
    ASSUME IInv, ConsolidateCycle
    PROVE  IInv'
<1>1. /\ TypeOK /\ mem \in Coordinator /\ HoldsOpen /\ cycle = here /\ here # NoCycle
      /\ here \in Cycles /\ command.reason = "none" /\ command.at = "consolidate"
  BY Typed DEF IInv, InCommand, HoldsOpen, ConsolidateCycle
<1>2. UNCHANGED <<coordinator, pace, units, pending, lanes, activity, missed, stops>>
  BY DEF ConsolidateCycle
<1>3. CASE /\ disk' = [disk EXCEPT ![here] = [revision |-> store[here].revision, edited |-> FALSE]]
           /\ store' = [store EXCEPT ![here].kept = "open", ![here].revision = 0]
           /\ Go("save", [command.mem EXCEPT !.phase = "acceptance"])
  <2> DEFINE s == [store[here] EXCEPT !.kept = "open", !.revision = 0]
             m == [mem EXCEPT !.phase = "acceptance"]
  <2>1. s \in Store /\ s.kept = "open" /\ s.preserved = store[here].preserved /\ s.verified = store[here].verified
    <3>1. store[here] \in Store
      BY <1>1 DEF TypeOK
    <3>2. 0 \in 0 .. MaxRevision
      BY Bounds
    <3> QED
      BY <3>1, <3>2 DEF Store
  <2>2. m \in Coordinator /\ m.cycle = mem.cycle /\ m.fate = mem.fate /\ m.phase = "acceptance"
    BY <1>1 DEF Coordinator, Phases
  <2>3. store' = [store EXCEPT ![here] = s] /\ Go("save", m)
    BY <1>3 DEF mem
  <2> HIDE DEF s, m
  <2> QED
    BY <1>1, <1>2, <1>3, <2>1, <2>2, <2>3, ContentIsApplied
<1>4. CASE Go("save", command.mem) /\ UNCHANGED <<store, disk>>
  <2>1. command' \in Command /\ command'.at = "save" /\ here' = here /\ mem' = mem /\ command'.reason = "none"
    BY <1>1, <1>4, GoKeeps DEF here, mem
  <2>2. TypeOK'
    BY <1>1, <1>2, <1>4, <2>1 DEF TypeOK
  <2>3. Records'
    BY <1>2, <1>4, <2>2, RecordsStay DEF fate, cycle
  <2>4. HoldsOpen'
    BY <1>1, <1>2, <2>1 DEF HoldsOpen, cycle, fate
  <2>5. InCommand'
    BY <2>1, <2>4 DEF InCommand
  <2> QED
    BY <2>2, <2>3, <2>5 DEF IInv
<1> QED
  BY <1>3, <1>4 DEF ConsolidateCycle

\* The delegation is recorded over a cycle that is closed in the command's own memory.
LEMMA RecordAdmissionPreserves ==
    ASSUME IInv, RecordAdmission
    PROVE  IInv'
<1>1. /\ TypeOK /\ mem \in Coordinator
      /\ HoldsClosed \/ (HoldsOpen /\ here = NoCycle /\ command.reason = "none")
  BY Typed DEF IInv, InCommand, RecordAdmission
<1>2. /\ Go("save", mem) /\ UNCHANGED <<coordinator, pending, lanes, activity, store, disk, missed, stops>>
      /\ units' = [units EXCEPT ![command.unit] = "in flight"]
      /\ pace' = [pace EXCEPT !.units = AtMost(pace.units + 1, UnitsPerCycle)]
  BY DEF RecordAdmission, mem
<1>3. /\ command' \in Command /\ command'.at = "save" /\ here' = here /\ mem' = mem
      /\ command'.reason = command.reason
  BY <1>1, <1>2, GoKeeps DEF here, mem
<1>4. pace' \in [units : 0 .. UnitsPerCycle, mutations : 0 .. MutationsPerCycle]
  <2>1. pace \in [units : 0 .. UnitsPerCycle, mutations : 0 .. MutationsPerCycle]
    BY <1>1 DEF TypeOK
  <2>2. AtMost(pace.units + 1, UnitsPerCycle) \in 0 .. UnitsPerCycle
    BY <2>1, Bounds DEF AtMost
  <2> QED
    BY <1>2, <2>1, <2>2
<1>5. TypeOK'
  BY <1>1, <1>2, <1>3, <1>4 DEF TypeOK
<1>6. Records'
  BY <1>2, <1>5, RecordsStay DEF fate, cycle
<1>7. cycle' = cycle /\ fate' = fate
  BY <1>2 DEF cycle, fate
<1>8. HoldsClosed' \/ (HoldsOpen' /\ command'.reason = "none")
  <2>1. CASE HoldsClosed
    BY <1>2, <1>3, <1>7, <2>1 DEF HoldsClosed, GivenUp, Attached, Live
  <2>2. CASE HoldsOpen /\ here = NoCycle /\ command.reason = "none"
    BY <1>2, <1>3, <1>7, <2>2 DEF HoldsOpen
  <2> QED
    BY <1>1, <2>1, <2>2
<1>9. InCommand'
  BY <1>3, <1>8 DEF InCommand
<1> QED
  BY <1>5, <1>6, <1>9 DEF IInv

\* The closure of a cycle becomes its record.
LEMMA ClosureIsSaved ==
    ASSUME IInv, HoldsClosed, Save(mem), TypeOK',
           UNCHANGED <<units, pending, lanes, activity, store, disk, missed, stops>>
    PROVE  Records' /\ (command.reason = "applied" => fate'[here] = "applied")
<1>1. TypeOK /\ mem \in Coordinator /\ cycle = here /\ here \in Cycles /\ fate \in [Cycles -> Fates]
  BY Typed DEF IInv, HoldsClosed
<1>2. coordinator'.cycle = NoCycle /\ coordinator'.fate = mem.fate
  BY <1>1, SaveWrites DEF HoldsClosed
<1>3. cycle' = NoCycle /\ fate' = mem.fate
  BY <1>2 DEF cycle, fate
<1>4. \A c \in Cycles : c # here => fate'[c] = fate[c]
  BY <1>1, <1>3 DEF HoldsClosed
<1>5. InFlightIsOpen'
  BY <1>3 DEF InFlightIsOpen
<1>6. ASSUME NEW c \in Cycles, c # here
      PROVE  /\ ContentIsOwned(c)' /\ OwnerIsKnown(c)'
             /\ fate'[c] \in {"aborted", "preserved"} => Unwound(c)'
  <2>1. /\ ContentIsOwned(c) /\ OwnerIsKnown(c)
        /\ fate[c] \in {"aborted", "preserved"} => Unwound(c)
    BY DEF IInv, Records
  <2> QED
    BY <1>1, <1>3, <1>4, <1>6, <2>1 DEF ContentIsOwned, OwnerIsKnown, Unwound, Live
<1>7. /\ ContentIsOwned(here) /\ OwnerIsKnown(here) /\ fate[here] = "open"
      /\ store[here].kept \in {"none", "open", "complete"}
  BY <1>1, Typed DEF IInv, Records, InFlightIsOpen, TypeOK, Store
<1>8. ASSUME NEW c \in Cycles, c = here
      PROVE  /\ ContentIsOwned(c)' /\ OwnerIsKnown(c)'
             /\ fate'[c] \in {"aborted", "preserved"} => Unwound(c)'
             /\ command.reason = "applied" => fate'[c] = "applied"
  <2>1. ContentIsOwned(c)'
    BY <1>7, <1>8 DEF ContentIsOwned
  <2>2. CASE /\ GivenUp /\ ~store[here].claimed /\ Live(here) = {} /\ activity[here] = "interrupted"
             /\ mem.fate = [fate EXCEPT ![here] = IF store[here].preserved THEN "preserved" ELSE "aborted"]
    <3>1. fate'[c] = IF store[c].preserved THEN "preserved" ELSE "aborted"
      BY <1>1, <1>3, <1>8, <2>2
    <3>2. Unwound(c)' /\ OwnerIsKnown(c)'
      BY <1>3, <1>7, <1>8, <2>2, <3>1 DEF Unwound, OwnerIsKnown, GivenUp, Live
    <3> QED
      BY <2>1, <2>2, <3>2 DEF GivenUp
  <2>3. CASE /\ command.reason = "applied" /\ ~store[here].preserved
             /\ mem.fate = [fate EXCEPT ![here] = "applied"]
    <3>1. fate'[c] = "applied"
      BY <1>1, <1>3, <1>8, <2>3
    <3> QED
      BY <1>7, <1>8, <2>1, <2>3, <3>1 DEF OwnerIsKnown
  <2>4. CASE /\ command.reason = "no-change" /\ ~store[here].preserved /\ store[here].kept = "none"
             /\ mem.fate = [fate EXCEPT ![here] = "no-change"]
    <3>1. fate'[c] = "no-change"
      BY <1>1, <1>3, <1>8, <2>4
    <3> QED
      BY <1>7, <1>8, <2>1, <2>4, <3>1 DEF OwnerIsKnown
  <2> QED
    BY <2>2, <2>3, <2>4 DEF HoldsClosed
<1> QED
  BY <1>1, <1>5, <1>6, <1>8 DEF Records

\* The coordinator of a cycle still in flight, or of none, is saved.
LEMMA ProgressIsSaved ==
    ASSUME IInv, HoldsOpen, Save(mem), TypeOK',
           UNCHANGED <<units, pending, lanes, activity, store, disk, missed, stops>>
    PROVE  Records'
<1>1. TypeOK /\ mem \in Coordinator /\ here \in Cycles \cup {NoCycle}
  BY Typed DEF IInv
<1>2. coordinator'.cycle = here /\ coordinator'.fate = fate /\ coordinator'.phase = mem.phase
  BY <1>1, SaveWrites DEF HoldsOpen
<1>3. cycle' = here /\ fate' = fate
  BY <1>2 DEF cycle, fate
<1>4. InFlightIsOpen'
  BY <1>2, <1>3 DEF InFlightIsOpen, HoldsOpen
<1>5. ASSUME NEW c \in Cycles
      PROVE  /\ ContentIsOwned(c)' /\ OwnerIsKnown(c)'
             /\ fate'[c] \in {"aborted", "preserved"} => Unwound(c)'
  <2>1. /\ ContentIsOwned(c) /\ OwnerIsKnown(c) /\ c # NoCycle
        /\ fate[c] \in {"aborted", "preserved"} => Unwound(c)
    BY Typed DEF IInv, Records
  <2>2. ContentIsOwned(c)' /\ (fate'[c] \in {"aborted", "preserved"} => Unwound(c)')
    BY <1>3, <2>1 DEF ContentIsOwned, Unwound, Live
  <2>3. cycle = c /\ coordinator.phase \in Late => cycle' = c /\ coordinator'.phase \in Late
    BY <1>2, <1>3, <2>1 DEF HoldsOpen
  <2>4. OwnerIsKnown(c)'
    BY <1>3, <2>1, <2>3 DEF OwnerIsKnown
  <2> QED
    BY <2>2, <2>4
<1> QED
  BY <1>4, <1>5 DEF Records

LEMMA SaveCoordinatorPreserves ==
    ASSUME IInv, SaveCoordinator
    PROVE  IInv'
<1>1. /\ TypeOK /\ mem \in Coordinator
      /\ HoldsClosed \/ (HoldsOpen /\ command.reason = "none")
  BY Typed DEF IInv, InCommand, SaveCoordinator
<1>2. Save(mem) /\ UNCHANGED <<units, pending, lanes, activity, store, disk, missed, stops>>
  BY DEF SaveCoordinator, mem
<1>3. /\ coordinator' \in Coordinator
      /\ pace' \in [units : 0 .. UnitsPerCycle, mutations : 0 .. MutationsPerCycle]
  BY <1>1, <1>2, SaveWrites
<1>4. CASE command.reason = "applied"
  <2>1. command' \in Command /\ command'.at = "release" /\ command'.id = here
    BY <1>1, <1>4 DEF SaveCoordinator, TypeOK, Command, here
  <2>2. TypeOK'
    BY <1>1, <1>2, <1>3, <2>1 DEF TypeOK
  <2>3. HoldsClosed
    BY <1>1, <1>4
  <2>4. Records' /\ fate'[here] = "applied" /\ here # NoCycle
    BY <1>2, <1>4, <2>2, <2>3, ClosureIsSaved DEF HoldsClosed
  <2>5. InCommand'
    BY <2>1, <2>4 DEF InCommand, here
  <2> QED
    BY <2>2, <2>4, <2>5 DEF IInv
<1>5. CASE command.reason # "applied"
  <2>1. command' \in Command /\ InCommand'
    BY <1>5, IdleHoldsNothing DEF SaveCoordinator
  <2>2. TypeOK'
    BY <1>1, <1>2, <1>3, <2>1 DEF TypeOK
  <2>3. Records'
    BY <1>1, <1>2, <2>2, ClosureIsSaved, ProgressIsSaved
  <2> QED
    BY <2>1, <2>2, <2>3 DEF IInv
<1> QED
  BY <1>4, <1>5

\* The rollback state of an applied cycle is released, or used by the user's hand.
LEMMA RollbackSettles ==
    ASSUME IInv, TypeOK', NEW c \in Cycles, fate[c] = "applied",
           NEW s \in Store, store' = [store EXCEPT ![c] = s],
           s.preserved = store[c].preserved, s.verified = store[c].verified,
           s.kept # "none" => store[c].kept # "none" /\ UNCHANGED disk,
           s.kept = "none" => \/ store[c].kept = "none" /\ UNCHANGED disk
                              \/ disk' = [disk EXCEPT ![c] = Clean],
           UNCHANGED <<coordinator, lanes, activity>>
    PROVE  Records'
<1>1. TypeOK /\ ContentIsOwned(c) /\ OwnerIsKnown(c) /\ cycle # c
  <2>1. TypeOK /\ Records /\ c # NoCycle
    BY Typed DEF IInv
  <2> QED
    BY <2>1 DEF Records, InFlightIsOpen
<1>2. store'[c] = s /\ \A d \in Cycles : d # c => store'[d] = store[d] /\ disk'[d] = disk[d]
  BY <1>1 DEF TypeOK
<1>3. disk'[c] = Clean \/ (disk'[c] = disk[c] /\ (s.kept = "none" <=> store[c].kept = "none"))
  BY <1>1 DEF TypeOK
<1>4. cycle' = cycle /\ fate' = fate
  BY DEF cycle, fate
<1>5. InFlightIsOpen'
  BY DEF IInv, Records, InFlightIsOpen, cycle, fate
<1>6. ContentIsOwned(c)' /\ OwnerIsKnown(c)'
  BY <1>1, <1>2, <1>3, <1>4 DEF ContentIsOwned, OwnerIsKnown, Clean
<1>7. ASSUME NEW d \in Cycles, d # c
      PROVE  /\ ContentIsOwned(d)' /\ OwnerIsKnown(d)'
             /\ fate'[d] \in {"aborted", "preserved"} => Unwound(d)'
  <2>1. /\ ContentIsOwned(d) /\ OwnerIsKnown(d)
        /\ fate[d] \in {"aborted", "preserved"} => Unwound(d)
    BY DEF IInv, Records
  <2> QED
    BY <1>2, <1>4, <1>7, <2>1 DEF ContentIsOwned, OwnerIsKnown, Unwound, Live
<1> QED
  BY <1>4, <1>5, <1>6, <1>7 DEF Records

LEMMA ReleasePreserves ==
    ASSUME IInv, Release
    PROVE  IInv'
<1> DEFINE s == [store[here] EXCEPT !.kept = IF store[here].kept = "open" THEN "complete" ELSE store[here].kept]
<1>1. TypeOK /\ here \in Cycles /\ fate[here] = "applied"
  BY Typed DEF IInv, InCommand, Release
<1>2. /\ s \in Store /\ s.preserved = store[here].preserved /\ s.verified = store[here].verified
      /\ s.kept = "none" <=> store[here].kept = "none"
  <2>1. store[here] \in Store
    BY <1>1 DEF TypeOK
  <2> QED
    BY <2>1 DEF Store
<1>3. store' = [store EXCEPT ![here] = s]
  BY DEF Release
<1>4. UNCHANGED <<coordinator, pace, units, pending, lanes, activity, disk, missed, stops>>
      /\ command' = Idle
  BY DEF Release
<1> HIDE DEF s
<1>5. command' \in Command /\ InCommand'
  BY <1>4, IdleHoldsNothing
<1>6. TypeOK'
  BY <1>1, <1>2, <1>3, <1>4, <1>5 DEF TypeOK
<1>7. Records'
  BY <1>1, <1>2, <1>3, <1>4, <1>6, RollbackSettles
<1> QED
  BY <1>5, <1>6, <1>7 DEF IInv

LEMMA AcceptByHandPreserves ==
    ASSUME IInv, NEW c \in Cycles, NEW pass \in BOOLEAN, AcceptByHand(c, pass)
    PROVE  IInv'
<1>1. TypeOK /\ store[c] \in Store /\ store[c].kept = "open" /\ fate[c] = "applied"
  <2>1. TypeOK /\ OwnerIsKnown(c) /\ c # NoCycle /\ cycle = NoCycle /\ store[c].kept = "open"
    BY Typed DEF IInv, Records, AcceptByHand
  <2> QED
    BY <2>1 DEF OwnerIsKnown, TypeOK
<1>2. UNCHANGED <<coordinator, pace, units, pending, lanes, activity, command, missed, stops>>
      /\ command' = Idle
  BY DEF AcceptByHand
<1>3. PICK s : /\ s \in Store /\ s.preserved = store[c].preserved /\ s.verified = store[c].verified
               /\ store' = [store EXCEPT ![c] = s]
               /\ \/ s.kept = "complete" /\ UNCHANGED disk
                  \/ s.kept = "none" /\ disk' = [disk EXCEPT ![c] = Clean]
  <2>1. CASE store' = [store EXCEPT ![c].kept = "complete"] /\ UNCHANGED disk
    <3> DEFINE s == [store[c] EXCEPT !.kept = "complete"]
    <3>1. s \in Store /\ s.preserved = store[c].preserved /\ s.verified = store[c].verified /\ s.kept = "complete"
      BY <1>1 DEF Store
    <3> QED
      BY <2>1, <3>1
  <2>2. CASE store' = [store EXCEPT ![c].kept = "none"] /\ disk' = [disk EXCEPT ![c] = Clean]
    <3> DEFINE s == [store[c] EXCEPT !.kept = "none"]
    <3>1. s \in Store /\ s.preserved = store[c].preserved /\ s.verified = store[c].verified /\ s.kept = "none"
      BY <1>1 DEF Store
    <3> QED
      BY <2>2, <3>1
  <2> QED
    BY <2>1, <2>2 DEF AcceptByHand
<1>4. command' \in Command /\ InCommand'
  BY <1>2, IdleHoldsNothing
<1>5. disk' \in [Cycles -> [revision : 0 .. MaxRevision, edited : BOOLEAN]]
  <2>1. Clean \in [revision : 0 .. MaxRevision, edited : BOOLEAN]
    BY Bounds DEF Clean
  <2> QED
    BY <1>1, <1>3, <2>1 DEF TypeOK
<1>6. TypeOK'
  BY <1>1, <1>2, <1>3, <1>4, <1>5 DEF TypeOK
<1>7. Records'
  BY <1>1, <1>2, <1>3, <1>6, RollbackSettles
<1> QED
  BY <1>4, <1>6, <1>7 DEF IInv

\* A command that ends between two saves leaves what it saved.
LEMMA StopPreserves ==
    ASSUME IInv, Stop
    PROVE  IInv'
<1>1. command' = Idle /\ UNCHANGED <<coordinator, pace, units, pending, lanes, activity, store, disk, missed>>
  BY DEF Stop
<1>2. command' \in Command /\ InCommand'
  BY <1>1, IdleHoldsNothing
<1>3. stops' \in 0 .. MaxStops
  <2>1. stops \in 0 .. MaxStops
    BY DEF IInv, TypeOK
  <2> QED
    BY <2>1, Bounds DEF Stop
<1>4. TypeOK'
  BY <1>1, <1>2, <1>3 DEF IInv, TypeOK
<1>5. Records'
  BY <1>1, <1>4, RecordsStay DEF fate, cycle
<1> QED
  BY <1>2, <1>4, <1>5 DEF IInv

-----------------------------------------------------------------------------
(* The invariant, and what it gives *)

LEMMA InitEstablishes ==
    ASSUME Init
    PROVE  IInv
<1>1. NewCoordinator \in Coordinator /\ NewCoordinator.cycle = NoCycle
      /\ NewCoordinator.fate = [c \in Cycles |-> "open"]
  BY Bounds DEF NewCoordinator, Coordinator, Phases, Fates, NoCycle
<1>2. Idle \in Command /\ Idle.at = "idle"
  BY <1>1 DEF Idle, Command, NoCycle
<1>3. /\ 0 \in 0 .. MaxRevision /\ 0 \in 0 .. MaxStops /\ 0 \in 0 .. MaxDeferrals + 1
      /\ 0 \in 0 .. UnitsPerCycle /\ 0 \in 0 .. MutationsPerCycle
  BY Bounds
<1>4. NoStore \in Store /\ Clean \in [revision : 0 .. MaxRevision, edited : BOOLEAN]
  BY <1>3 DEF NoStore, Store, Clean
<1>5. TypeOK
  BY <1>1, <1>2, <1>3, <1>4 DEF Init, TypeOK
<1>6. Records
  BY <1>1 DEF Init, Records, InFlightIsOpen, ContentIsOwned, OwnerIsKnown, NoStore, Clean, fate, cycle
<1>7. InCommand
  BY <1>2 DEF Init, InCommand
<1> QED
  BY <1>5, <1>6, <1>7 DEF IInv

LEMMA StutterPreserves ==
    ASSUME IInv, UNCHANGED vars
    PROVE  IInv'
BY UnseenStep DEF vars, IInv, TypeOK

LEMMA StepPreserves ==
    ASSUME IInv, [Next]_vars
    PROVE  IInv'
<1>1. CASE OrdinaryStep
  BY <1>1, OrdinaryPreserves
<1>2. CASE AdmitStep
  BY <1>2, AdmitPreserves DEF AdmitStep
<1>3. CASE Request \/ Tick
  BY <1>3, AdvancePreserves DEF Request, Tick
<1>4. CASE LaneStep
  BY <1>4, AttachPreserves, BaselinePreserves, InvestigatePreserves, AuthorizePreserves, WritePreserves,
     CollectedPreserves, JudgePreserves, NoChangePreserves, VerdictPreserves, AcceptancePreserves DEF LaneStep
<1>5. CASE AbortStep
  BY <1>5, AbortPreserves DEF AbortStep
<1>6. CASE ByHandStep
  BY <1>6, AcceptByHandPreserves DEF ByHandStep
<1>7. CASE EditStep
  BY <1>7, EditPreserves
<1>8. CASE Continue
  BY <1>8, StartActivityPreserves, DiscardPreserves, DropStagingPreserves, SettlePreserves,
     SettleRefusedPreserves, RecordAdmissionPreserves, SaveCoordinatorPreserves, ReleasePreserves,
     SaveIntentPreserves, ConsolidateCyclePreserves DEF Continue
<1>9. CASE Stop
  BY <1>9, StopPreserves
<1>10. CASE UNCHANGED vars
  BY <1>10, StutterPreserves
<1> QED
  BY <1>1, <1>2, <1>3, <1>4, <1>5, <1>6, <1>7, <1>8, <1>9, <1>10 DEF Next

LEMMA Invariance == Spec => []IInv
BY InitEstablishes, StepPreserves, PTL DEF Spec

\* Every store keeps its type, and every counter its bound, whatever order the saves come in.
THEOREM TypeCorrect == Spec => []TypeOK
BY Invariance, PTL DEF IInv

\* Whatever the collector wrote while the verifier judged, and wherever the process ended, a cycle
\* leaves on disk the very revision that was handed over and passed (JudgeDelta, VerifyJudgedDelta).
THEOREM JudgedWorkOnly == Spec => []OnlyJudgedWorkIsApplied
<1>1. IInv => OnlyJudgedWorkIsApplied
  BY DEF IInv, Records, ContentIsOwned, OnlyJudgedWorkIsApplied
<1> QED
  BY <1>1, Invariance, PTL

\* A cycle is recorded as unwound only when nothing of it is left: its claims are released, its lanes
\* settled, its activity interrupted, and its content undone unless the user approved keeping it
\* (abortGCCycle).  The record is the last of the saves, so this holds after a restart too.
THEOREM RecordedUnwoundIsUnwound == Spec => []UnwoundInFull
<1>1. IInv => UnwoundInFull
  BY DEF IInv, Records, Unwound, UnwoundInFull, fate
<1> QED
  BY <1>1, Invariance, PTL

\* The rollback state of a cycle is given up only after the closure is durably recorded as applied
\* (coordinateAcceptance), and what was applied stays on disk.
THEOREM RollbackOutlivesClosure == Spec => []ReleasedOnlyWhenApplied
<1>1. IInv => ReleasedOnlyWhenApplied
  BY Typed DEF IInv, Records, ContentIsOwned, OwnerIsKnown, ReleasedOnlyWhenApplied, fate
<1> QED
  BY <1>1, Invariance, PTL

-----------------------------------------------------------------------------
(* Between two cycles *)

\* What may happen while no cycle is in flight and no command works on one.
LEMMA BetweenCycles ==
    ASSUME IInv, Next, cycle = NoCycle, here = NoCycle
    PROVE  \/ \E asked \in BOOLEAN : Advance(asked)
           \/ UNCHANGED <<coordinator, command, missed, units>>
           \/ OrdinaryStep /\ UNCHANGED <<coordinator, command, missed>>
           \/ /\ UNCHANGED <<coordinator, missed, units>>
              /\ \E u \in Units : Enter("admit", coordinator, u, FALSE, "none")
           \/ RecordAdmission
           \/ SaveCoordinator /\ HoldsOpen /\ command.reason = "none"
           \/ Stop
<1>1. CASE OrdinaryStep
  BY <1>1 DEF OrdinaryStep, Plan, Stage, Finish, Consolidate
<1>2. CASE AdmitStep
  BY <1>2 DEF AdmitStep, Admit
<1>3. CASE Request \/ Tick
  BY <1>3 DEF Request, Tick
<1>4. CASE LaneStep
  BY <1>4 DEF LaneStep, Attach, Baseline, Investigate, Authorize, Write, Collected, Judge, NoChange, Verdict,
     Acceptance, Drives
<1>5. CASE AbortStep
  BY <1>5 DEF AbortStep, Abort
<1>6. CASE ByHandStep \/ EditStep
  BY <1>6 DEF ByHandStep, AcceptByHand, EditStep, Edit
<1>7. CASE Continue
  BY <1>7 DEF Continue, IInv, InCommand, HoldsClosed, StartActivity, Discard, DropStaging, Settle,
     SettleRefused, SaveCoordinator, Release, SaveIntent, ConsolidateCycle
<1> QED
  BY <1>1, <1>2, <1>3, <1>4, <1>5, <1>6, <1>7 DEF Next

\* A due cycle has been held no more often in a row than the saved coordinator, or the one held, counts.
Counted ==
    /\ cycle # NoCycle \/ here # NoCycle => missed = 0
    /\ missed <= coordinator.deferrals
    /\ command.at # "idle" => missed <= mem.deferrals

LEMMA CountedOverNoCycle ==
    ASSUME IInv, IInv', Counted, Next, cycle = NoCycle, here = NoCycle, missed' # 0
    PROVE  Counted'
<1>1. /\ TypeOK /\ coordinator \in Coordinator /\ mem \in Coordinator
      /\ missed \in Nat /\ coordinator.deferrals \in Nat /\ mem.deferrals \in Nat
  <2>1. TypeOK /\ coordinator \in Coordinator /\ mem \in Coordinator
    BY Typed DEF IInv
  <2>2. missed \in 0 .. MaxDeferrals + 1
    BY <2>1 DEF TypeOK
  <2> QED
    BY <2>1, <2>2, CoordinatorFields, Bounds
<1>2. missed <= coordinator.deferrals /\ (command.at # "idle" => missed <= mem.deferrals)
  BY DEF Counted
<1>3. Idle.at = "idle" /\ Idle.id = NoCycle
  BY DEF Idle
<1>4. ASSUME NEW asked \in BOOLEAN, Advance(asked)
      PROVE  Counted'
  <2> DEFINE c == [coordinator EXCEPT !.requested = coordinator.requested \/ asked]
  <2>1. c \in Coordinator /\ c.cycle = cycle /\ c.deferrals = coordinator.deferrals
    <3>1. (coordinator.requested \/ asked) \in BOOLEAN
      OBVIOUS
    <3> QED
      BY <1>1, <3>1 DEF Coordinator, cycle
  <2>2. \/ Return(c) /\ UNCHANGED missed
        \/ /\ Decide(c) = "run"
           /\ Return([c EXCEPT !.deferrals = c.deferrals + 1])
           /\ missed' = AtMost(missed + 1, MaxDeferrals + 1)
    BY <1>4 DEF Advance
  <2> HIDE DEF c
  <2>3. ASSUME NEW r \in Coordinator, r.cycle = NoCycle, missed' <= r.deferrals, Return(r)
        PROVE  Counted'
    <3>1. coordinator'.cycle = NoCycle /\ coordinator'.deferrals = r.deferrals /\ command' = Idle
      BY <1>1, <2>3, SaveWrites DEF Return
    <3> QED
      BY <1>3, <2>3, <3>1 DEF Counted, cycle, here
  <2>4. CASE Return(c) /\ UNCHANGED missed
    BY <1>2, <2>1, <2>3, <2>4
  <2>5. CASE /\ Decide(c) = "run"
             /\ Return([c EXCEPT !.deferrals = c.deferrals + 1])
             /\ missed' = AtMost(missed + 1, MaxDeferrals + 1)
    <3> DEFINE r == [c EXCEPT !.deferrals = c.deferrals + 1]
    <3>1. c.deferrals < MaxDeferrals /\ MaxDeferrals \in Nat
      BY <2>1, <2>5, DecideWithinPolicy, Bounds
    <3>2. c.deferrals + 1 \in 0 .. MaxDeferrals
      BY <1>1, <2>1, <3>1
    <3>3. r \in Coordinator /\ r.cycle = NoCycle /\ r.deferrals = c.deferrals + 1
      BY <2>1, <3>2 DEF Coordinator
    <3>4. missed' <= c.deferrals + 1
      BY <1>1, <1>2, <2>1, <2>5, <3>1 DEF AtMost
    <3>5. Return(r)
      BY <2>5
    <3> HIDE DEF r
    <3> QED
      BY <2>3, <3>3, <3>4, <3>5
  <2> QED
    BY <2>2, <2>4, <2>5
<1>5. CASE UNCHANGED <<coordinator, command, missed>>
  BY <1>5 DEF Counted, cycle, here, mem
<1>6. CASE UNCHANGED <<coordinator, missed>> /\ \E u \in Units : Enter("admit", coordinator, u, FALSE, "none")
  BY <1>2, <1>6 DEF Enter, Counted, cycle, here, mem
<1>7. CASE RecordAdmission
  <2>1. UNCHANGED <<coordinator, missed>> /\ command.at # "idle" /\ Go("save", mem)
    BY <1>7 DEF RecordAdmission, mem
  <2>2. here' = here /\ mem' = mem /\ cycle' = cycle
    BY <1>1, <2>1, GoKeeps DEF here, mem, cycle
  <2> QED
    BY <1>2, <2>1, <2>2 DEF Counted
<1>8. CASE SaveCoordinator /\ HoldsOpen /\ command.reason = "none"
  <2>1. Save(mem) /\ UNCHANGED missed /\ command.at # "idle" /\ command' = Idle
    BY <1>8 DEF SaveCoordinator, mem
  <2>2. coordinator'.cycle = NoCycle /\ coordinator'.deferrals = mem.deferrals
    BY <1>1, <1>8, <2>1, SaveWrites DEF HoldsOpen
  <2> QED
    BY <1>2, <1>3, <2>1, <2>2 DEF Counted, cycle, here
<1>9. CASE Stop
  BY <1>2, <1>3, <1>9 DEF Stop, Counted, cycle, here
<1> QED
  BY <1>4, <1>5, <1>6, <1>7, <1>8, <1>9, BetweenCycles

\* Only the trigger counts, and only between two cycles.
LEMMA OnlyAdvanceCounts ==
    ASSUME IInv, Next, cycle # NoCycle \/ here # NoCycle
    PROVE  UNCHANGED missed
<1>1. CASE Request \/ Tick
  <2>1. PICK asked \in BOOLEAN : Advance(asked)
    BY <1>1 DEF Request, Tick
  <2>2. command = Idle /\ here = NoCycle
    BY <2>1 DEF Advance, here, Idle
  <2> QED
    BY <2>1, <2>2 DEF Advance
<1>2. CASE OrdinaryStep \/ EditStep \/ ByHandStep \/ Stop
  BY <1>2 DEF OrdinaryStep, Plan, Stage, Finish, Consolidate, EditStep, Edit, ByHandStep, AcceptByHand, Stop
<1>3. CASE LaneStep
  BY <1>3 DEF LaneStep, Attach, Baseline, Investigate, Authorize, Write, Collected, Judge, NoChange, Verdict,
     Acceptance
<1>4. CASE AdmitStep \/ AbortStep
  BY <1>4 DEF AdmitStep, Admit, AbortStep, Abort
<1>5. CASE Continue
  BY <1>5 DEF Continue, StartActivity, Discard, DropStaging, Settle, SettleRefused, RecordAdmission,
     SaveCoordinator, Release, SaveIntent, ConsolidateCycle
<1> QED
  BY <1>1, <1>2, <1>3, <1>4, <1>5 DEF Next

LEMMA CountedStep ==
    ASSUME IInv, IInv', Counted, [Next]_vars
    PROVE  Counted'
<1>1. CASE missed' = 0
  <2>1. coordinator' \in Coordinator /\ command' \in Command
    BY DEF IInv, TypeOK
  <2>2. coordinator'.deferrals \in Nat /\ command'.mem.deferrals \in Nat
    BY <2>1, Bounds DEF Command, Coordinator
  <2> QED
    BY <1>1, <2>2 DEF Counted, mem
<1>2. CASE UNCHANGED vars
  BY <1>2 DEF vars, Counted, cycle, here, mem
<1>3. CASE Next /\ missed' # 0
  <2>1. cycle = NoCycle /\ here = NoCycle
    BY <1>3, OnlyAdvanceCounts DEF Counted
  <2> QED
    BY <1>3, <2>1, CountedOverNoCycle
<1> QED
  BY <1>1, <1>2, <1>3

\* The barrier holds a due cycle no more often in a row than the policy allows (gc.Decide, PR-MNT-6):
\* however many delegations hold it, and whichever declarations failed before, after MaxDeferrals of
\* them it is dropped.
THEOREM DeferralsAreBounded == Spec => []DueIsBounded
<1>1. Init => Counted
  BY Bounds DEF Init, Counted, NewCoordinator, Idle, NoCycle, cycle, here
<1>2. IInv /\ IInv' /\ Counted /\ [Next]_vars => Counted'
  BY CountedStep
<1>3. IInv /\ Counted => DueIsBounded
  <2> SUFFICES ASSUME IInv, Counted
               PROVE  DueIsBounded
    OBVIOUS
  <2>1. coordinator.deferrals \in 0 .. MaxDeferrals /\ missed \in 0 .. MaxDeferrals + 1
    BY CoordinatorFields DEF IInv, TypeOK
  <2> QED
    BY <2>1, Bounds DEF Counted, DueIsBounded
<1> QED
  BY <1>1, <1>2, <1>3, Invariance, PTL DEF Spec

-----------------------------------------------------------------------------
(* Delegations and the cycle *)

\* A delegation in flight finds no cycle but one the history calls interrupted.
AdmittedOverNone ==
    (\E u \in Units : units[u] = "in flight") =>
        \/ cycle = NoCycle /\ (here = NoCycle \/ command.at = "release")
        \/ cycle # NoCycle /\ activity[cycle] = "interrupted"

\* While a command runs nothing else does.
LEMMA CommandRunsAlone ==
    ASSUME Next, command # Idle
    PROVE  Continue \/ Stop
BY DEF Next, OrdinaryStep, Plan, Stage, Finish, Consolidate, AdmitStep, Admit, Request, Tick, Advance, LaneStep,
       Attach, Baseline, Investigate, Authorize, Write, Collected, Judge, NoChange, Verdict, Acceptance, Drives,
       AbortStep, Abort, ByHandStep, AcceptByHand, EditStep, Edit

\* Only the record of an admission puts a unit in flight.
LEMMA OnlyAdmissionsStart ==
    ASSUME IInv, Next, ~RecordAdmission, NEW u \in Units, units'[u] = "in flight"
    PROVE  units[u] = "in flight"
<1>1. units \in [Units -> {"none", "planned", "in flight", "settled"}]
  BY DEF IInv, TypeOK
<1>2. CASE OrdinaryStep
  BY <1>1, <1>2 DEF OrdinaryStep, Plan, Stage, Finish, Consolidate
<1>3. CASE AdmitStep \/ AbortStep \/ ByHandStep \/ EditStep \/ Stop \/ Request \/ Tick
  BY <1>3 DEF AdmitStep, Admit, AbortStep, Abort, ByHandStep, AcceptByHand, EditStep, Edit, Stop, Request, Tick,
     Advance
<1>4. CASE LaneStep
  BY <1>4 DEF LaneStep, Attach, Baseline, Investigate, Authorize, Write, Collected, Judge, NoChange, Verdict,
     Acceptance
<1>5. CASE Continue
  BY <1>5 DEF Continue, StartActivity, Discard, DropStaging, Settle, SettleRefused, SaveCoordinator, Release,
     SaveIntent, ConsolidateCycle
<1> QED
  BY <1>2, <1>3, <1>4, <1>5 DEF Next

\* Why a command ends a cycle, and for whom, is settled when it begins.
Purpose ==
    /\ command.reason \in {"applied", "no-change"} => command.unit = NoUnit
    /\ command.at = "admit" /\ here # NoCycle => command.reason = "aborted"

LEMMA PurposeStays ==
    ASSUME IInv, Purpose, Next
    PROVE  Purpose'
<1>1. TypeOK /\ mem \in Coordinator /\ command \in Command
  BY Typed DEF IInv, TypeOK
<1>2. CASE UNCHANGED command
  BY <1>2 DEF Purpose, here
<1>3. CASE command' = Idle
  BY <1>3 DEF Purpose, Idle
<1>4. ASSUME NEW step, NEW c, NEW approved, Enter(step, c, NoUnit, approved, "none"), step # "admit"
      PROVE  Purpose'
  BY <1>4 DEF Enter, Purpose
<1>5. ASSUME NEW c, NEW unit, NEW approved, Unwind(c, unit, approved)
      PROVE  Purpose'
  BY <1>5 DEF Unwind, Enter, Return, Purpose, Idle
<1>6. CASE OrdinaryStep \/ ByHandStep \/ EditStep
  BY <1>2, <1>6 DEF OrdinaryStep, Plan, Stage, Finish, Consolidate, ByHandStep, AcceptByHand, EditStep, Edit
<1>7. CASE AdmitStep
  <2>1. PICK u \in Units, stopped \in SUBSET Roles, approved \in BOOLEAN : Admit(u, stopped, approved)
    BY <1>7 DEF AdmitStep
  <2>2. CASE cycle = NoCycle
    <3>1. Enter("admit", coordinator, u, FALSE, "none") /\ coordinator.cycle = NoCycle
      BY <2>1, <2>2 DEF Admit, cycle
    <3>2. command'.reason = "none" /\ command'.id = NoCycle
      BY <3>1 DEF Enter
    <3> QED
      BY <3>2 DEF Purpose, here
  <2> QED
    BY <1>5, <2>1, <2>2 DEF Admit
<1>8. CASE Request \/ Tick
  <2>1. PICK asked \in BOOLEAN : Advance(asked)
    BY <1>8 DEF Request, Tick
  <2> QED
    BY <1>3, <1>4, <2>1 DEF Advance, Return
<1>9. CASE LaneStep
  <2>1. CASE \/ \E r \in Roles : Attach(r)
             \/ \E pass \in BOOLEAN, found \in {"none", "open"} : Baseline(pass, found)
             \/ \E outcome \in {"confirmed", "refuted"} : Investigate(outcome)
             \/ Write \/ Collected \/ Judge
    BY <1>2, <1>3, <2>1 DEF Attach, Baseline, Investigate, Write, Collected, Judge, Return
  <2>2. CASE Authorize
    BY <1>4, <2>2 DEF Authorize
  <2>3. CASE NoChange
    BY <2>3 DEF NoChange, Enter, Purpose
  <2>4. ASSUME NEW pass \in BOOLEAN, Verdict(pass)
        PROVE  Purpose'
    BY <1>4, <1>5, <2>4 DEF Verdict
  <2>5. ASSUME NEW pass \in BOOLEAN, Acceptance(pass)
        PROVE  Purpose'
    <3>1. Enter("settle", coordinator, NoUnit, FALSE, "applied") \/ Unwind(coordinator, NoUnit, FALSE)
      BY <2>5 DEF Acceptance
    <3>2. CASE Enter("settle", coordinator, NoUnit, FALSE, "applied")
      BY <3>2 DEF Enter, Purpose
    <3> QED
      BY <1>5, <3>1, <3>2
  <2> QED
    BY <1>9, <2>1, <2>2, <2>3, <2>4, <2>5 DEF LaneStep
<1>10. CASE AbortStep
  BY <1>5, <1>10 DEF AbortStep, Abort
<1>11. ASSUME NEW step \in {"discard", "drop", "settle", "consolidate", "save"}, NEW c, Go(step, c)
       PROVE  Purpose'
  BY <1>1, <1>11 DEF Go, Command, Purpose
<1>12. CASE Continue
  <2>1. CASE Settle
    <3>1. CASE UNCHANGED command
      BY <1>2, <3>1
    <3>2. CASE \E c : Go(IF command.unit = NoUnit THEN "save" ELSE "admit", c)
      <4>1. PICK c : Go(IF command.unit = NoUnit THEN "save" ELSE "admit", c)
        BY <3>2
      <4>2. /\ command'.reason = command.reason /\ command'.unit = command.unit
            /\ command'.at = "admit" => command.unit # NoUnit
        BY <1>1, <4>1 DEF Go, Command
      <4>3. command.reason \in {"aborted", "applied", "no-change"}
        BY <2>1, SettlingKnows DEF Settle, GivenUp
      <4> QED
        BY <4>2, <4>3 DEF Purpose
    <3> QED
      BY <2>1, <3>1, <3>2 DEF Settle
  <2>2. CASE StartActivity \/ Discard \/ DropStaging \/ RecordAdmission \/ SaveIntent \/ ConsolidateCycle
    BY <1>3, <1>11, <2>2 DEF StartActivity, Discard, DropStaging, RecordAdmission, SaveIntent, ConsolidateCycle,
       Return
  <2>3. CASE SettleRefused \/ Release
    BY <1>3, <2>3 DEF SettleRefused, Release, Return
  <2>4. CASE SaveCoordinator
    BY <1>1, <1>3, <2>4 DEF SaveCoordinator, Command, Purpose
  <2> QED
    BY <1>12, <2>1, <2>2, <2>3, <2>4 DEF Continue
<1>13. CASE Stop
  BY <1>3, <1>13 DEF Stop
<1> QED
  BY <1>6, <1>7, <1>8, <1>9, <1>10, <1>12, <1>13 DEF Next

\* Only a cycle that is unwound closes from a phase an interrupted activity may be resumed in.
ClosesFromItsPhase ==
    command.at = "settle" /\ command.reason # "aborted" => mem.phase \notin {"aborting", "blocked"}

LEMMA ClosesFromItsPhaseStays ==
    ASSUME IInv, ClosesFromItsPhase, Next
    PROVE  ClosesFromItsPhase'
<1>1. TypeOK /\ mem \in Coordinator /\ command \in Command
  BY Typed DEF IInv, TypeOK
<1>2. CASE UNCHANGED command
  BY <1>2 DEF ClosesFromItsPhase, mem
<1>3. CASE command'.at # "settle"
  BY <1>3 DEF ClosesFromItsPhase
<1>4. Idle.at # "settle"
  BY DEF Idle
<1>5. ASSUME NEW c, NEW unit, NEW approved, Unwind(c, unit, approved)
      PROVE  command'.at # "settle"
  BY <1>4, <1>5 DEF Unwind, Enter, Return
<1>6. CASE OrdinaryStep \/ ByHandStep \/ EditStep
  BY <1>2, <1>6 DEF OrdinaryStep, Plan, Stage, Finish, Consolidate, ByHandStep, AcceptByHand, EditStep, Edit
<1>7. CASE AdmitStep \/ AbortStep
  <2>1. ASSUME NEW u \in Units, NEW stopped \in SUBSET Roles, NEW approved \in BOOLEAN,
               Admit(u, stopped, approved)
        PROVE  command'.at # "settle"
    <3>1. CASE Enter("admit", coordinator, u, FALSE, "none")
      BY <3>1 DEF Enter
    <3> QED
      BY <1>5, <2>1, <3>1 DEF Admit
  <2>2. ASSUME NEW stopped \in SUBSET Roles, NEW approved \in BOOLEAN, Abort(stopped, approved)
        PROVE  command'.at # "settle"
    BY <1>5, <2>2 DEF Abort
  <2> QED
    BY <1>3, <1>7, <2>1, <2>2 DEF AdmitStep, AbortStep
<1>8. CASE Request \/ Tick
  <2>1. PICK asked \in BOOLEAN : Advance(asked)
    BY <1>8 DEF Request, Tick
  <2>2. CASE \E c : Enter("start", c, NoUnit, FALSE, "none")
    BY <1>3, <2>2 DEF Enter
  <2>3. CASE command' = Idle
    BY <1>3, <1>4, <2>3
  <2> QED
    BY <2>1, <2>2, <2>3 DEF Advance, Return
<1>9. CASE LaneStep
  <2>1. CASE \/ \E r \in Roles : Attach(r)
             \/ \E pass \in BOOLEAN, found \in {"none", "open"} : Baseline(pass, found)
             \/ \E outcome \in {"confirmed", "refuted"} : Investigate(outcome)
             \/ Write \/ Collected \/ Judge
    BY <1>2, <1>3, <1>4, <2>1 DEF Attach, Baseline, Investigate, Write, Collected, Judge, Return
  <2>2. CASE Authorize
    BY <1>3, <2>2 DEF Authorize, Enter
  <2>3. ASSUME coordinator.phase \in {"investigate", "acceptance"}, NEW reason,
               Enter("settle", coordinator, NoUnit, FALSE, reason)
        PROVE  ClosesFromItsPhase'
    BY <2>3 DEF Enter, ClosesFromItsPhase, mem
  <2>4. CASE NoChange
    BY <2>3, <2>4 DEF NoChange, Drives
  <2>5. ASSUME NEW pass \in BOOLEAN, Verdict(pass)
        PROVE  ClosesFromItsPhase'
    <3>1. \/ Enter("intent", [coordinator EXCEPT !.phase = "consolidating"], NoUnit, FALSE, "none")
          \/ Unwind(coordinator, NoUnit, FALSE)
      BY <2>5 DEF Verdict
    <3>2. CASE Enter("intent", [coordinator EXCEPT !.phase = "consolidating"], NoUnit, FALSE, "none")
      BY <1>3, <3>2 DEF Enter
    <3> QED
      BY <1>3, <1>5, <3>1, <3>2
  <2>6. ASSUME NEW pass \in BOOLEAN, Acceptance(pass)
        PROVE  ClosesFromItsPhase'
    BY <1>3, <1>5, <2>3, <2>6 DEF Acceptance, Drives
  <2> QED
    BY <1>9, <2>1, <2>2, <2>4, <2>5, <2>6 DEF LaneStep
<1>10. ASSUME NEW step, step # "settle", NEW c, Go(step, c)
       PROVE  ClosesFromItsPhase'
  BY <1>1, <1>3, <1>10 DEF Go, Command
<1>11. CASE DropStaging
  <2>1. command.reason = "aborted" /\ Go("settle", command.mem)
    BY <1>11 DEF DropStaging, IInv, InCommand
  <2> QED
    BY <1>1, <2>1 DEF Go, Command, ClosesFromItsPhase
<1>12. CASE Settle
  <2>1. \/ UNCHANGED command
        \/ \E c : Go(IF command.unit = NoUnit THEN "save" ELSE "admit", c)
    BY <1>12 DEF Settle
  <2> QED
    BY <1>2, <1>10, <2>1
<1>13. CASE StartActivity \/ Discard \/ RecordAdmission \/ SaveIntent \/ ConsolidateCycle
  BY <1>3, <1>4, <1>10, <1>13 DEF StartActivity, Discard, RecordAdmission, SaveIntent, ConsolidateCycle, Return
<1>14. CASE SettleRefused \/ Release \/ Stop
  BY <1>3, <1>4, <1>14 DEF SettleRefused, Release, Return, Stop
<1>15. CASE SaveCoordinator
  BY <1>1, <1>3, <1>4, <1>15 DEF SaveCoordinator, Command
<1> QED
  BY <1>6, <1>7, <1>8, <1>9, <1>11, <1>12, <1>13, <1>14, <1>15 DEF Next, Continue

\* An activity recorded as interrupted stays so, and its cycle in flight until it is recorded as closed.
LEMMA InterruptedStays ==
    ASSUME IInv, ClosesFromItsPhase, Next, cycle # NoCycle, activity[cycle] = "interrupted"
    PROVE  \/ cycle' = cycle /\ activity'[cycle] = "interrupted"
           \/ cycle' = NoCycle /\ (here' = NoCycle \/ command'.at = "release")
<1>1. /\ TypeOK /\ mem \in Coordinator /\ command \in Command /\ coordinator \in Coordinator
      /\ cycle \in Cycles
  BY Typed DEF IInv, TypeOK
<1>2. activity'[cycle] = "interrupted"
  <2>1. activity \in [Cycles -> {"none", "started", "completed", "interrupted"}]
    BY <1>1 DEF TypeOK
  <2>2. CASE StartActivity
    BY <1>1, <2>1, <2>2 DEF StartActivity, Started
  <2>3. CASE Settle
    <3>1. here = cycle /\ CanStart(here, mem.phase)
      BY <2>3 DEF Settle, IInv, InCommand, mem
    <3>2. command.reason = "aborted"
      BY <2>3, <3>1 DEF CanStart, ClosesFromItsPhase, Settle
    <3> QED
      BY <1>1, <2>1, <2>3, <3>1, <3>2 DEF Settle, Outcome, Started
  <2>4. CASE UNCHANGED activity
    BY <2>4
  <2>5. CASE ~StartActivity /\ ~Settle
    BY <2>4, <2>5
    DEF Next, OrdinaryStep, Plan, Stage, Finish, Consolidate, AdmitStep, Admit, Request, Tick, Advance, LaneStep,
        Attach, Baseline, Investigate, Authorize, Write, Collected, Judge, NoChange, Verdict, Acceptance,
        AbortStep, Abort, ByHandStep, AcceptByHand, EditStep, Edit, Continue, Discard, DropStaging, SettleRefused,
        RecordAdmission, SaveCoordinator, Release, SaveIntent, ConsolidateCycle, Stop
  <2> QED
    BY <2>2, <2>3, <2>5
<1>3. ASSUME NEW c \in Coordinator, c.cycle = cycle, Save(c)
      PROVE  cycle' = cycle
  BY <1>1, <1>3, SaveWrites DEF cycle
<1>4. ASSUME NEW unit, NEW approved, Unwind(coordinator, unit, approved)
      PROVE  cycle' = cycle
  <2> DEFINE m == [coordinator EXCEPT !.phase = "aborting"]
  <2>1. m \in Coordinator /\ m.cycle = cycle
    BY <1>1 DEF Coordinator, Phases, cycle
  <2>2. UNCHANGED coordinator \/ Save(coordinator) \/ Save(m)
    BY <1>4 DEF Unwind, Return
  <2> HIDE DEF m
  <2> QED
    BY <1>1, <1>3, <2>1, <2>2 DEF cycle
<1>5. ASSUME UNCHANGED coordinator PROVE cycle' = cycle
  BY <1>5 DEF cycle
<1>6. CASE OrdinaryStep \/ ByHandStep \/ EditStep \/ Stop
  BY <1>2, <1>5, <1>6 DEF OrdinaryStep, Plan, Stage, Finish, Consolidate, ByHandStep, AcceptByHand, EditStep, Edit, Stop
<1>7. CASE AdmitStep \/ AbortStep
  <2>1. ASSUME NEW u \in Units, NEW stopped \in SUBSET Roles, NEW approved \in BOOLEAN,
               Admit(u, stopped, approved)
        PROVE  cycle' = cycle
    BY <1>4, <1>5, <2>1 DEF Admit
  <2>2. ASSUME NEW stopped \in SUBSET Roles, NEW approved \in BOOLEAN, Abort(stopped, approved)
        PROVE  cycle' = cycle
    BY <1>4, <2>2 DEF Abort
  <2> QED
    BY <1>2, <1>7, <2>1, <2>2 DEF AdmitStep, AbortStep
<1>8. CASE Request \/ Tick
  BY <1>2, <1>5, <1>8 DEF Request, Tick, Advance
<1>9. CASE LaneStep
  <2>1. ASSUME NEW pass \in BOOLEAN, NEW found \in {"none", "open"}, Baseline(pass, found)
        PROVE  cycle' = cycle
    <3> DEFINE c == [coordinator EXCEPT !.phase = "investigate", !.baseline = pass, !.finding = found]
    <3>1. c \in Coordinator /\ c.cycle = cycle
      BY <1>1 DEF Coordinator, Phases, cycle
    <3>2. Save(c)
      BY <2>1 DEF Baseline, Return
    <3> HIDE DEF c
    <3> QED
      BY <1>3, <3>1, <3>2
  <2>2. ASSUME NEW outcome \in {"confirmed", "refuted"}, Investigate(outcome)
        PROVE  cycle' = cycle
    <3> DEFINE c == [coordinator EXCEPT !.finding = outcome]
    <3>1. c \in Coordinator /\ c.cycle = cycle
      BY <1>1 DEF Coordinator, cycle
    <3>2. Save(c)
      BY <2>2 DEF Investigate, Return
    <3> HIDE DEF c
    <3> QED
      BY <1>3, <3>1, <3>2
  <2>3. CASE Collected
    <3> DEFINE c == [coordinator EXCEPT !.phase = "verify"]
    <3>1. c \in Coordinator /\ c.cycle = cycle
      BY <1>1 DEF Coordinator, Phases, cycle
    <3>2. Save(c)
      BY <2>3 DEF Collected, Return
    <3> HIDE DEF c
    <3> QED
      BY <1>2, <1>3, <3>1, <3>2
  <2>4. CASE (\E r \in Roles : Attach(r)) \/ Authorize \/ Write \/ Judge \/ NoChange
    BY <1>2, <1>5, <2>4 DEF Attach, Authorize, Write, Judge, NoChange
  <2>5. ASSUME NEW pass \in BOOLEAN, Verdict(pass) \/ Acceptance(pass)
        PROVE  cycle' = cycle
    <3>1. UNCHANGED coordinator \/ Unwind(coordinator, NoUnit, FALSE)
      BY <2>5 DEF Verdict, Acceptance
    <3> QED
      BY <1>4, <1>5, <3>1
  <2> QED
    BY <1>2, <1>9, <2>1, <2>2, <2>3, <2>4, <2>5 DEF LaneStep
<1>10. CASE StartActivity \/ DropStaging \/ Settle \/ RecordAdmission \/ Release \/ ConsolidateCycle
  BY <1>2, <1>5, <1>10 DEF StartActivity, DropStaging, Settle, RecordAdmission, Release, ConsolidateCycle
<1>11. CASE HoldsOpen
  <2>1. mem.cycle = cycle
    BY <1>11 DEF HoldsOpen
  <2> DEFINE m == [mem EXCEPT !.phase = "blocked"]
  <2>2. m \in Coordinator /\ m.cycle = cycle
    BY <1>1, <2>1 DEF Coordinator, Phases
  <2>3. CASE UNCHANGED coordinator \/ Save(mem) \/ Save(m)
    <3> HIDE DEF m
    <3> QED
      BY <1>1, <1>2, <1>3, <1>5, <2>1, <2>2, <2>3
  <2>4. CASE Discard
    BY <2>3, <2>4 DEF Discard, Return, mem
  <2>5. CASE SettleRefused \/ SaveIntent \/ SaveCoordinator
    BY <2>3, <2>5 DEF SettleRefused, SaveIntent, SaveCoordinator, Return, mem
  <2> QED
    BY <1>10, <1>2, <1>5, <1>6, <1>7, <1>8, <1>9, <2>4, <2>5 DEF Next, Continue
<1>12. CASE SaveCoordinator /\ HoldsClosed
  <2>1. Save(mem) /\ mem.cycle = NoCycle /\ (command'.at = "release" \/ command' = Idle)
    BY <1>1, <1>12 DEF SaveCoordinator, HoldsClosed, mem, Command
  <2>2. cycle' = NoCycle
    BY <1>1, <2>1, SaveWrites DEF cycle
  <2> QED
    BY <2>1, <2>2 DEF here, Idle
<1>13. CASE Discard \/ SettleRefused \/ SaveIntent \/ SaveCoordinator
  BY <1>11, <1>12, <1>13 DEF Discard, SettleRefused, SaveIntent, SaveCoordinator, IInv, InCommand
<1> QED
  BY <1>2, <1>6, <1>7, <1>8, <1>9, <1>10, <1>13 DEF Next, Continue

LEMMA AdmittedOverNoneStep ==
    ASSUME IInv, IInv', Purpose, Purpose', ClosesFromItsPhase, AdmittedOverNone, Next
    PROVE  AdmittedOverNone'
<1>1. TypeOK /\ mem \in Coordinator
  BY Typed DEF IInv
<1>2. Idle.id = NoCycle /\ Idle.at = "idle"
  BY DEF Idle
<1>3. CASE RecordAdmission
  <2>1. Go("save", mem) /\ UNCHANGED coordinator /\ command.at = "admit"
    BY <1>3 DEF RecordAdmission, mem
  <2>2. command'.at = "save" /\ here' = here /\ cycle' = cycle /\ command'.reason = command.reason
    BY <1>1, <2>1, GoKeeps DEF here, cycle
  <2>3. CASE here = NoCycle
    <3>1. cycle = NoCycle
      BY <1>3, <2>3 DEF RecordAdmission, IInv, InCommand, HoldsOpen, HoldsClosed
    <3> QED
      BY <2>2, <2>3, <3>1 DEF AdmittedOverNone
  <2>4. CASE here # NoCycle
    <3>1. command'.reason = "aborted"
      BY <2>1, <2>2, <2>4 DEF Purpose
    <3>2. HoldsClosed'
      BY <2>2, <3>1 DEF IInv, InCommand
    <3> QED
      BY <3>1, <3>2 DEF AdmittedOverNone, HoldsClosed, GivenUp
  <2> QED
    BY <2>3, <2>4
<1>4. CASE ~RecordAdmission /\ ~\E u \in Units : units[u] = "in flight"
  BY <1>4, OnlyAdmissionsStart DEF AdmittedOverNone
<1>5. CASE ~RecordAdmission /\ cycle = NoCycle /\ here = NoCycle /\ \E u \in Units : units[u] = "in flight"
  <2> SUFFICES cycle' = NoCycle /\ here' = NoCycle
    BY DEF AdmittedOverNone
  <2>1. ASSUME NEW asked \in BOOLEAN, Advance(asked)
        PROVE  cycle' = NoCycle /\ here' = NoCycle
    <3> DEFINE c == [coordinator EXCEPT !.requested = coordinator.requested \/ asked]
    <3>1. c.cycle = cycle /\ Reset(c).cycle = cycle /\ c \in Coordinator /\ Reset(c) \in Coordinator
      <4>1. (coordinator.requested \/ asked) \in BOOLEAN /\ coordinator \in Coordinator
        BY <1>1 DEF TypeOK
      <4>2. c.cycle = cycle /\ c \in Coordinator
        BY <4>1 DEF Coordinator, cycle
      <4>3. 0 \in 0 .. MaxDeferrals
        BY Bounds
      <4> HIDE DEF c
      <4> QED
        BY <4>2, <4>3 DEF Reset, Coordinator
    <3>2. Held
      BY <1>5 DEF Held
    <3>3. \/ Return(c) \/ Return(Reset(c))
          \/ Decide(c) = "run" /\ Return([c EXCEPT !.deferrals = c.deferrals + 1])
      BY <1>5, <2>1, <3>2 DEF Advance
    <3> HIDE DEF c
    <3>4. ASSUME NEW r \in Coordinator, r.cycle = cycle, Return(r)
          PROVE  cycle' = NoCycle /\ here' = NoCycle
      BY <1>1, <1>2, <1>5, <3>4, SaveWrites DEF Return, cycle, here
    <3>5. CASE Decide(c) = "run" /\ Return([c EXCEPT !.deferrals = c.deferrals + 1])
      <4> DEFINE r == [c EXCEPT !.deferrals = c.deferrals + 1]
      <4>1. c.deferrals < MaxDeferrals /\ c.deferrals \in 0 .. MaxDeferrals /\ MaxDeferrals \in Nat
        BY <3>1, <3>5, DecideWithinPolicy, CoordinatorFields, Bounds
      <4>2. c.deferrals + 1 \in 0 .. MaxDeferrals
        BY <4>1
      <4>3. r \in Coordinator /\ r.cycle = cycle
        BY <3>1, <4>2 DEF Coordinator
      <4>4. Return(r)
        BY <3>5
      <4> HIDE DEF r
      <4> QED
        BY <3>4, <4>3, <4>4
    <3> QED
      BY <3>1, <3>3, <3>4, <3>5
  <2>2. CASE UNCHANGED <<coordinator, command>>
    BY <1>5, <2>2 DEF cycle, here
  <2>3. CASE \E u \in Units : Enter("admit", coordinator, u, FALSE, "none") /\ UNCHANGED coordinator
    <3>1. command'.id = coordinator.cycle /\ coordinator'.cycle = coordinator.cycle
      BY <2>3 DEF Enter
    <3> QED
      BY <1>5, <3>1 DEF cycle, here
  <2>4. CASE SaveCoordinator /\ HoldsOpen /\ command.reason = "none"
    <3>1. Save(mem) /\ command' = Idle
      BY <2>4 DEF SaveCoordinator, mem
    <3> QED
      BY <1>1, <1>2, <1>5, <2>4, <3>1, SaveWrites DEF HoldsOpen, cycle, here
  <2>5. CASE Stop
    BY <1>2, <1>5, <2>5 DEF Stop, cycle, here
  <2> QED
    BY <1>5, <2>1, <2>2, <2>3, <2>4, <2>5, BetweenCycles
<1>6. CASE cycle = NoCycle /\ command.at = "release"
  <2>1. Release \/ Stop
    BY <1>2, <1>6, CommandRunsAlone
    DEF Continue, StartActivity, Discard, DropStaging, Settle, SettleRefused, RecordAdmission, SaveCoordinator,
        SaveIntent, ConsolidateCycle
  <2>2. command' = Idle /\ UNCHANGED coordinator
    BY <2>1 DEF Release, Stop
  <2> QED
    BY <1>2, <1>6, <2>2 DEF AdmittedOverNone, cycle, here
<1>7. CASE cycle # NoCycle /\ activity[cycle] = "interrupted"
  BY <1>7, InterruptedStays DEF AdmittedOverNone
<1> QED
  BY <1>3, <1>4, <1>5, <1>6, <1>7 DEF AdmittedOverNone

\* New work runs over no live maintenance changes (yieldGCCycle, coordinateRoutine) but those of a cycle
\* the history calls interrupted, wherever commands end: while a delegation is in flight, what another
\* cycle wrote and may still roll back was accepted.
THEOREM NewWorkYieldsMaintenance == Spec => []NewWorkOverSettledTree
<1>1. Init => Purpose /\ ClosesFromItsPhase /\ AdmittedOverNone
  BY DEF Init, Purpose, ClosesFromItsPhase, AdmittedOverNone, Idle, NewCoordinator, cycle, here
<1>2. IInv /\ IInv' /\ Purpose /\ ClosesFromItsPhase /\ AdmittedOverNone /\ [Next]_vars
        => Purpose' /\ ClosesFromItsPhase' /\ AdmittedOverNone'
  <2> SUFFICES ASSUME IInv, IInv', Purpose, ClosesFromItsPhase, AdmittedOverNone, [Next]_vars
               PROVE  Purpose' /\ ClosesFromItsPhase' /\ AdmittedOverNone'
    OBVIOUS
  <2>1. CASE UNCHANGED vars
    BY <2>1 DEF vars, Purpose, ClosesFromItsPhase, AdmittedOverNone, mem, cycle, here
  <2>2. CASE Next
    BY <2>2, PurposeStays, ClosesFromItsPhaseStays, AdmittedOverNoneStep
  <2> QED
    BY <2>1, <2>2
<1>3. IInv /\ AdmittedOverNone => NewWorkOverSettledTree
  <2> SUFFICES ASSUME IInv, AdmittedOverNone, NEW u \in Units, NEW c \in Cycles,
                      units[u] = "in flight", Unsettled(c)
               PROVE  cycle = c /\ activity[c] = "interrupted"
    BY DEF NewWorkOverSettledTree
  <2>1. OwnerIsKnown(c) /\ c # NoCycle
    BY Typed DEF IInv, Records
  <2>2. cycle = c
    BY <2>1 DEF OwnerIsKnown, Unsettled, fate
  <2> QED
    BY <2>1, <2>2 DEF AdmittedOverNone
<1> QED
  BY <1>1, <1>2, <1>3, Invariance, PTL DEF Spec
=============================================================================
