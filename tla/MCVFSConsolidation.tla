------------------------- MODULE MCVFSConsolidation -------------------------
(* Instances of VFSConsolidation: path 1 in the workspace root and path 2   *)
(* in directory "d", an ordinary claim and a claim of maintenance cycle cyc.  *)
EXTENDS VFSConsolidation, TLC

CONSTANTS v1, v2, ordinary, upkeep, cyc

MCPaths   == {1, 2}
MCDirs    == {"d"}
MCDirOf   == 1 :> "root" @@ 2 :> "d"
MCCycleOf == [k \in Agents |-> IF k = upkeep THEN cyc ELSE NoCycle]

\* The scenes the state space is explored in: ordinary work alone, with two
\* contents; or ordinary and maintenance work together, with one, where the
\* user writes while one of them has a claim.
OrdinaryAlone == /\ journal = <<>> \/ (Len(journal) = 1 /\ op = Idle)
                 /\ base[upkeep] = Empty /\ closed = {}
OneContent    == /\ edits < MaxEdits /\ base[ordinary][2] = Unset
                 /\ edits = 0 \/ base[ordinary] = Empty \/ base[upkeep] = Empty
                 /\ \A p \in Paths : /\ disk[p] # v2 /\ base[ordinary][p] # v2 /\ base[upkeep][p] # v2
                                     /\ work[ordinary][p] # v2 /\ work[upkeep][p] # v2
                                     /\ \A c \in Cycles : found[c][p] # v2 /\ left[c][p] # v2
                                     /\ manifest # Null => manifest.before[p] # v2 /\ manifest.after[p] # v2
Scenes == OrdinaryAlone \/ OneContent
=============================================================================
