---------------------------- MODULE MCVFSClaims ----------------------------
(* Instances of VFSClaims: two units of one writing agent, and two units of *)
(* one judging agent, so that a judge can be delegated again while its      *)
(* earlier run is still in flight.                                          *)
EXTENDS VFSClaims, TLC

CONSTANTS pathA, pathB, text, code, docs, check1, check2, freely

MCAgentOf == code :> "dev" @@ docs :> "dev" @@ check1 :> "verify" @@ check2 :> "verify"
NoReads   == {{}}
SomeReads == {{pathA}, {freely}}

\* Units of one agent are alike, and so are paths no read selector names.
SameAgent == Permutations({code, docs}) \cup Permutations({check1, check2})
SamePaths == SameAgent \cup Permutations({pathA, pathB})

\* The scenes the state space is explored in.  Writers: two writing units over
\* two paths, with read selectors and nothing written;
\* the only one where a bind claims its paths itself.  Handing: one unit's staged work goes
\* to another.  Judging: two judging units over one author's
\* assigned work, no acceptance asked for yet.
\* Retrying: two attempts of one author and one judge.
Within(keys, revisions, attempts) ==
  /\ issued <= keys
  /\ \A k \in Keys : DeltaOf(k).revision <= revisions
  /\ \A u \in Units : runs[u].attempt <= attempts
Unlaunched(U) == \A u \in U : runs[u].state = "new" /\ command.unit # u
OneAuthor     == /\ owners[pathB] = NoKey
                 /\ \A k \in Issued : /\ Free \notin bindings[k].reads
                                      /\ bindings[k].unit # docs
                                      /\ Author(k) => k = 1
Writers  == Within(2, 0, 1) /\ Unlaunched(Judges)
Handing  == /\ Within(2, 2, 1) /\ Unlaunched(Judges \cup {docs})
            /\ \A k \in Issued : Free \notin bindings[k].reads
Judging  == asked = Nothing /\ Within(3, 1, 1) /\ Unlaunched({docs}) /\ OneAuthor
Retrying == (Within(2, 1, 2) \/ Within(2, 2, 1)) /\ Unlaunched({docs, check2}) /\ OneAuthor
Scenes == Writers \/ (direct = {} /\ (Handing \/ Judging \/ Retrying))
=============================================================================
