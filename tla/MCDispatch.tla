---------------------------- MODULE MCDispatch ----------------------------
(* Instances of Dispatch: two units of one root, the first called twice, and *)
(* two objectives.                                                           *)
EXTENDS Dispatch, TLC

CONSTANTS r1, u1, u2, c1, c2, c3, o1, o2

MCRootOf        == u1 :> r1 @@ u2 :> r1
MCCallUnit      == c1 :> u1 @@ c2 :> u2 @@ c3 :> u1
MCObjectiveRoot == o1 :> r1 @@ o2 :> r1
MCPlanInputs    == UNION {[us -> {{}, {u1}}] : us \in SUBSET {u1, u2}}
MCCyclicInputs  == {u1 :> {u2} @@ u2 :> {}, u2 :> {u1}}
NoRounds        == {{}}
MCRoundInputs   == {{}, {u1}, {u2}}

SameObjectives == Permutations({o1, o2})

NoPlan       == \A r \in Roots : version[r] = 0
NoRecoveries == \A o \in Objectives : recovery[o] = NoRecovery
Allowed(bs)  == \A b \in Bounds : b[1] \notin bs => allow[b] = 0
NoClaim(us)  == \A u \in us : claim[u] = "none"
Flying(fs)   == \A u \in Units : unit[u].flight \in fs

\* Recovering: one objective over what the journal counts and the store holds.  Sharing: two
\* units of one recovery, in flight together.  TakingTurns: two objectives and what exhausts
\* attempts.  Planning: plan versions and strengthening rounds.  InFlights: the flights of one
\* unit, contested.
OneByOne    == Cardinality(Running) <= 1 /\ Cardinality(Uncovered(r1)) <= 1
OneAtMost   == \E o \in Objectives : recovery[o] = NoRecovery
Recovering  == /\ OneAtMost /\ NoClaim({u2}) /\ Allowed({"actions", "attempts"})
               /\ Len(bus) = 2 => NoClaim({u1})
               /\ OneByOne
Sharing     == OneAtMost /\ NoClaim(Units) /\ Allowed({}) /\ \A u \in Units : unit[u].attempt <= 1
TakingTurns == /\ bus = <<>> /\ NoClaim(Units) /\ Allowed({"attempts", "failures"})
               /\ \A o \in Objectives : recovery[o].used = 0 /\ recovery[o].cursor = 0
               /\ OneByOne
Planning    == /\ NoRecoveries /\ bus = <<>> /\ contests = {} /\ NoClaim(Units)
               /\ Flying({"none", "pending"}) /\ Allowed({"qa"}) /\ OneByOne
InFlights   == NoRecoveries /\ bus = <<>> /\ NoClaim(Units) /\ ~Known(u2)
Scenes      == \/ /\ NoPlan
                  /\ \/ InFlights
                     \/ /\ contests = {} /\ Flying({"none", "pending"})
                        /\ Recovering \/ Sharing \/ TakingTurns
               \/ Planning
===========================================================================
