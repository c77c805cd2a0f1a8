------------------------------- MODULE MCMemory -------------------------------
EXTENDS MemoryIndex, TLC
CONSTANTS s1, s2, h1, h2, c1, c2

\* Every session in a workspace of its own, where the calls overlap most.
OwnWorkspaces == [s \in {s1, s2} |-> s]
Symmetry == Permutations({s1, s2}) \cup Permutations({c1, c2})
TheColumns == [Requirements |-> "qa", Owning |-> "tpm", Evidence |-> "verify"]

Request(author, caller, title, relation, personal) ==
    [author |-> author, caller |-> caller, title |-> title, relation |-> relation,
     personal |-> personal]

TheRequests ==
    { Request("qa", h1, "Matrix", "none", FALSE),
      Request("qa", h2, "Matrix", "none", FALSE),
      Request("tpm", h1, "Fact", "supplements", FALSE),
      Request("dev", NoCaller, "Fact", "none", TRUE) }

\* Scenes: three calls of any kind, and a fourth where one author records.
Scenes ==
    begun <= 3 \/ /\ \A o \in Range(obs) : o.author \in {"qa", "takt-harness"}
                  /\ \A c \in Calls : call[c].op = "record" => call[c].req.author = "qa"
=============================================================================
