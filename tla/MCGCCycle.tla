----------------------------- MODULE MCGCCycle -----------------------------
(* Instances of GCCycle for TLC. *)
EXTENDS GCCycle, MCGCFindings, TLC

CONSTANTS u1, u2

OneUnit     == {u1}
TwoUnits    == {u1, u2}
Symmetry    == Permutations(TwoUnits)
AlwaysStart == {FALSE}
MayNotStart == BOOLEAN

\* The scenes the state space is explored in: two cycles one after the other, of commands that run to
\* their end; or one cycle, whose commands may stop.
OneCycle == activity[2] = "none" /\ cycle # 2 /\ here # 2
Scenes   == stops = 0 \/ OneCycle
=============================================================================
