--------------------------- MODULE MCDelegation ---------------------------
(* Instances of Delegation: a call and, by another harness instance, either a *)
(* second call of its unit or one of another unit, which resume its child.    *)
EXTENDS Delegation, TLC

CONSTANTS r1, u1, u2, c1, c2, c3, h1, i1, i2

MCRootOf        == u1 :> r1 @@ u2 :> r1
MCCallUnit      == c1 :> u1 @@ c2 :> u1 @@ c3 :> u2
MCObjectiveRoot == <<>>
MCChildOf       == [c \in Calls |-> h1]
MCInstanceOf    == c1 :> i1 @@ c2 :> i2 @@ c3 :> i2

Unmade(c)      == call[c] = "unmade" /\ ~Holds(c)
Flying(flights) == \A u \in Units : unit[u].flight \in flights \union {"none", "pending", "running"}
NoMore         == contests = {} /\ \A u \in Units : claim[u] = "none"

\* Retrying: two calls of the unit, the instance of the first late or dead.  Sharing: calls of two units in one child, on
\* instances that live.
Retrying == NoMore /\ Unmade(c3) /\ ~Known(u2) /\ Flying({}) /\ i2 \in alive \ lapsed
Sharing  == /\ NoMore /\ Unmade(c2) /\ Flying({"uncertain"})
            /\ alive = Instances /\ lapsed = {} /\ view[i2] = {}
            /\ \A u \in Units : unit[u].attempt <= 1
Scenes   == Retrying \/ Sharing
===========================================================================
