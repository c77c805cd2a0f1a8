---------------------------- MODULE MCVFSShell ----------------------------
(* Instances of VFSShell: two units of one writing agent and one or two      *)
(* calls, over paths that start absent.                                      *)
EXTENDS VFSShell, TLC

CONSTANTS pathA, pathB, text, code, docs, call1, call2, freely

MCAgentOf == code :> "dev" @@ docs :> "dev"
NoReads   == {{}}

SameShell == Permutations({code, docs}) \cup Permutations({pathA, pathB})
             \cup Permutations({call1, call2})

\* The scenes the state space is explored in.  Capturing: two attempts of one
\* unit over one path.  Scoping: one attempt over two paths.  Reading: two
\* units over one path with nothing staged.  Querying: the same over two.  HandingOver: one unit with staged work.
Within(keys, revisions, attempts) ==
  /\ issued <= keys
  /\ \A k \in Keys : DeltaOf(k).revision <= revisions
  /\ \A u \in Units : runs[u].attempt <= attempts
Only(modes) == /\ \A c \in Calls : calls[c] # Nothing => calls[c].mode \in modes
               /\ \A c \in Calls : host[c].native => "native" \in modes
\* Nothing can follow from a call once its record is gone, a native tool's excepted.
OnRecord(modes) == /\ Only(modes)
                   /\ \A c \in Calls : calls[c] = Nothing /\ host[c].state # "new"
                                       => host[c].native
OneUnit  == \E w \in Workers : /\ runs[w].state = "new" /\ command.unit # w
                               /\ \A k \in Issued : bindings[k].unit # w
OnePath  == \E p \in Paths : /\ disk[p] = Deleted
                             /\ \A k \in Keys : p \notin DeltaOf(k).bases
NoText   == \A p \in Paths : /\ disk[p] # text /\ \A c \in Calls : host[c].seen[p] # text
                            /\ \A k \in Keys : DeltaOf(k).files[p] # text
\* Whatever was planned ran: a call that never does is left to the other scenes.
Ran      == \A c \in Calls : host[c].state = "ended" /\ roots[c] # Nothing => roots[c].confirmed
Capturing   == Within(1, 2, 2) /\ Only({"capture", "inspect"}) /\ OneUnit /\ OnePath /\ Ran
Scoping     == disk = NoFiles /\ Within(1, 2, 1) /\ OnRecord({"capture"}) /\ OneUnit /\ NoText
Reading     == disk = NoFiles /\ Within(2, 0, 1) /\ OnRecord({"inspect", "native"}) /\ OnePath
Querying    == disk = NoFiles /\ Within(1, 0, 1) /\ OnRecord({"query"})
HandingOver == disk = NoFiles /\ Within(2, 1, 1) /\ OnRecord({"native"}) /\ OneUnit /\ NoText
Scenes == Capturing \/ Scoping \/ Reading \/ Querying \/ HandingOver
=============================================================================
