----------------------------- MODULE MemoryIndex -----------------------------
(***************************************************************************)
(* The session index of takt/memory: which memories a session recorded in  *)
(* Engram, between which anchors, and which session it continues.          *)
(*                                                                         *)
(* A call is a process of its own. It loads the index of its session under *)
(* the session's file lock, talks to Engram over HTTP with the lock held   *)
(* and saves what it loaded with its changes in it. The index and Engram   *)
(* are two stores no transaction spans: a call may be refused, time out,   *)
(* be cancelled or die between any two of its writes.                      *)
(***************************************************************************)
EXTENDS Naturals, Sequences, Functions

CONSTANTS
    Sessions,      \* the root sessions
    Workspace,     \* the directory of a session, which is also its project
    Callers,       \* the host sessions that run the tool
    Requests,      \* what is asked to be recorded
    Calls,         \* the calls in progress at a time
    MaxCalls,      \* bounds the calls begun
    ColumnAuthor,  \* the sole author of every column of the traceability matrix
    Matrix,        \* the title of the matrix itself
    NoSession, NoIndex, NoCall, NoCaller, NoRequest, NoTitle, NoProject

Columns == DOMAIN ColumnAuthor
Closes  == {"close", "fallback"}
Relations == {"corrects", "supersedes", "supplements", "exception-to", "disputes"}

\* A request names its author, the host session it comes from, a title, the
\* tier, and how it relates to a memory, if it does.
ASSUME MemoryAssumption ==
    /\ MaxCalls \in Nat
    /\ \A r \in Requests :
          /\ r.caller \in Callers \cup {NoCaller}
          /\ r.relation \in Relations \cup {"none"}
          /\ r.personal \in BOOLEAN

Authors == {r.author : r \in Requests}
Titles  == {r.title : r \in Requests} \cup Columns

\* What an index holds of a memory, and an index.
IndexEntry == [id : Nat, author : Authors, callers : SUBSET Callers,
               relation : Relations \cup {"none"}, target : Nat]
Index == [start : Nat, end : Nat, continues : Sessions \cup {NoSession},
          pending : Sessions \cup {NoSession}, entries : Seq(IndexEntry)]

ASSUME ValuesAssumption ==
    NoSession \notin Sessions /\ NoIndex \notin Index /\ NoCall \notin Calls

VARIABLES
    obs,      \* Engram: the observations, their position is their id
    links,    \* Engram: the edges between observations
    index,    \* <session>.json
    created,  \* the sessions whose <session>.json.lock exists
    lock,     \* the call that holds a session's lock
    call,     \* the calls in progress
    acked,    \* the memories reported as recorded to their callers
    begun

vars == <<obs, links, index, created, lock, call, acked, begun>>
engram == <<obs, links>>

Idle  == [op |-> "none", pc |-> "idle", session |-> NoSession, req |-> NoRequest, target |-> 0,
          previous |-> NoSession, index |-> NoIndex, title |-> NoTitle, id |-> 0, linked |-> 0, end |-> 0]
Empty == [start |-> 0, end |-> 0, continues |-> NoSession, pending |-> NoSession, entries |-> <<>>]

Init ==
    /\ obs = <<>> /\ links = {} /\ acked = {} /\ begun = 0 /\ created = {}
    /\ index = [s \in Sessions |-> NoIndex]
    /\ lock  = [s \in Sessions |-> NoCall]
    /\ call  = [c \in Calls |-> Idle]

Observation == [session : Sessions, kind : {"start", "end", "entry"},
                author : Authors \cup {"takt-harness"}, title : Titles \cup {NoTitle},
                relation : Relations \cup {"none"}, target : Nat,
                project : {Workspace[s] : s \in Sessions} \cup {NoProject}]
LinkKinds == {"in-session", "session-end", "closed-in", "continues"} \cup Relations

\* The steps a call takes with its session's lock held.
Held == {"locked", "anchor", "saveStart", "continuity", "linkPrevious", "fix", "write",
         "link", "relate", "saveEntry", "linkEnd", "linkClosed"}
CallState == [op : {"none", "record", "continue"} \cup Closes,
              pc : Held \cup {"idle", "previous", "lock"},
              session : Sessions \cup {NoSession}, req : Requests \cup {NoRequest}, target : Nat,
              previous : Sessions \cup {NoSession}, index : Index \cup {NoIndex},
              title : Titles \cup {NoTitle}, id : Nat, linked : Nat, end : Nat]

TypeOK ==
    /\ obs \in Seq(Observation)
    /\ links \subseteq Nat \X Nat \X LinkKinds
    /\ index \in [Sessions -> Index \cup {NoIndex}]
    /\ created \subseteq Sessions
    /\ lock \in [Sessions -> Calls \cup {NoCall}]
    /\ call \in [Calls -> CallState]
    /\ acked \subseteq [session : Sessions, id : Nat, author : Authors, caller : Callers \cup {NoCaller}]
    /\ begun \in 0 .. MaxCalls

-----------------------------------------------------------------------------
(* The index of a session *)

Free(s)     == lock[s] = NoCall
Closed(s)   == index[s] # NoIndex /\ index[s].end # 0
HasEntry(l, id) == \E e \in Range(l.entries) : e.id = id
Position(l, id) == CHOOSE i \in DOMAIN l.entries : l.entries[i].id = id  \* indexed once
Loaded(s)   == IF index[s] = NoIndex THEN Empty ELSE index[s]
EmptyIndex(l) == l.entries = <<>>

AddCaller(l, id, caller) ==
    IF caller = NoCaller THEN l
    ELSE [l EXCEPT !.entries[Position(l, id)].callers = @ \cup {caller}]

\* The steps from an index with a start anchor to the first write of its call.
AfterStart(l) == IF l.pending = NoSession THEN "write" ELSE "continuity"
FirstStep(l)  == IF l.start = 0 THEN "anchor" ELSE AfterStart(l)

-----------------------------------------------------------------------------
(* What a memory may relate to *)

\* A global memory is bound to no project.
RecordProject(s, r) == IF r.personal THEN NoProject ELSE Workspace[s]

CheckRelatesTo(s, r, target) ==
    r.relation # "none" =>
        /\ target \in 1 .. Len(obs)
        /\ obs[target].kind = "entry"
        /\ obs[target].project = RecordProject(s, r)

TargetTitle(r, target) == IF r.relation = "none" THEN NoTitle ELSE obs[target].title
IsMatrixTitle(t)       == t \in Columns \cup {Matrix}

\* A column has one author, only the first author creates or revises the
\* matrix, and anyone may dispute.
OwnColumns(r) == {k \in Columns : ColumnAuthor[k] = r.author}

Unchecked(r, target) ==
    LET related == IsMatrixTitle(TargetTitle(r, target))
    IN \/ r.relation = "disputes"
       \/ ~IsMatrixTitle(r.title) /\ ~related
       \/ r.title = Matrix /\ ~related /\ r.author = ColumnAuthor["Requirements"]

CheckMatrixColumn(r, target) ==
    LET of == TargetTitle(r, target)
    IN \/ Unchecked(r, target)
       \/ /\ OwnColumns(r) # {}
          /\ of \in OwnColumns(r) \cup {Matrix}
          /\ of = Matrix => r.author = ColumnAuthor["Requirements"] \/ r.relation = "supplements"

\* The title an entry is stored under.
StoredTitle(r, target) ==
    IF Unchecked(r, target) THEN r.title ELSE CHOOSE k \in OwnColumns(r) : TRUE

-----------------------------------------------------------------------------
(* The calls *)

Begin(c, request) ==
    /\ call[c] = Idle
    /\ begun < MaxCalls
    /\ begun' = begun + 1
    /\ call' = [call EXCEPT ![c] = request]
    /\ UNCHANGED <<obs, links, index, created, lock, acked>>

\* A command of a workspace runs under that workspace's lock.
WorkspaceFree(s) ==
    \A c \in Calls : call[c] # Idle /\ call[c].op # "fallback" =>
                        Workspace[call[c].session] # Workspace[s]

BeginRecord(c, s, r, target) ==
    /\ WorkspaceFree(s)
    /\ Begin(c, [Idle EXCEPT !.op = "record", !.pc = "lock", !.session = s,
                             !.req = r, !.target = target])

BeginContinue(c, s, previous) ==
    /\ WorkspaceFree(s)
    /\ previous # s
    /\ Begin(c, [Idle EXCEPT !.op = "continue", !.session = s, !.previous = previous,
                             !.pc = IF previous = NoSession THEN "lock" ELSE "previous"])

BeginClose(c, s, op) ==
    /\ op = "close" => WorkspaceFree(s)
    /\ Begin(c, [Idle EXCEPT !.op = op, !.pc = "lock", !.session = s])

Step(c, pc) == call[c].pc = pc
Goto(c, to) == call' = [call EXCEPT ![c] = to]

\* A call ends: its lock is released with its file.
Finish(c) ==
    /\ call' = [call EXCEPT ![c] = Idle]
    /\ lock' = [s \in Sessions |-> IF lock[s] = c THEN NoCall ELSE lock[s]]

\* The call is refused, Engram does not answer, the lock is not obtained in
\* time, a write fails, or the process ends.
Abandon(c) ==
    /\ call[c] # Idle
    /\ Finish(c)
    /\ UNCHANGED <<obs, links, index, created, acked, begun>>

\* Bug variant: a wait that ended is taken for the lock.
LockedAnyway(c) ==
    LET s == call[c].session
    IN /\ Step(c, "lock")
       /\ call[c].op = "fallback" => s \in created
       /\ lock' = [lock EXCEPT ![s] = c]
       /\ created' = created \cup {s}
       /\ Goto(c, [call[c] EXCEPT !.pc = "locked", !.index = index[s]])
       /\ UNCHANGED <<obs, links, index, acked, begun>>

\* A fallback close makes no lock file.
LockSession(c) ==
    LET s == call[c].session
    IN /\ Step(c, "lock")
       /\ Free(s)
       /\ call[c].op = "fallback" => s \in created
       /\ lock' = [lock EXCEPT ![s] = c]
       /\ created' = created \cup {s}
       /\ Goto(c, [call[c] EXCEPT !.pc = "locked", !.index = index[s]])
       /\ UNCHANGED <<obs, links, index, acked, begun>>

-----------------------------------------------------------------------------
(* Declaring the session this one continues *)

\* Bug variant: the previous session is taken at its word.
AnyPrevious(s) == Free(s)

\* The end anchor of a previous session is read under its lock.
ClosedPreviousEnd(s) == s \in created /\ Free(s) /\ Closed(s)

CheckPrevious(c) ==
    /\ Step(c, "previous")
    /\ ClosedPreviousEnd(call[c].previous)
    /\ Goto(c, [call[c] EXCEPT !.pc = "lock"])
    /\ UNCHANGED <<obs, links, index, created, lock, acked, begun>>

Declarable(l) == l.continues = NoSession /\ l.start = 0

Declare(c) ==
    LET s == call[c].session
        l == Loaded(s)
    IN /\ Step(c, "locked") /\ call[c].op = "continue"
       /\ Declarable(l)
       /\ index[s] = NoIndex => call[c].previous # NoSession
       /\ index' = [index EXCEPT ![s] = [l EXCEPT !.pending = call[c].previous]]
       /\ Finish(c)
       /\ UNCHANGED <<obs, links, created, acked, begun>>

-----------------------------------------------------------------------------
(* The start of a session *)

\* Engram answers, and what the memory relates to is looked up there.
PrepareRecord(c) ==
    LET l == IF call[c].index = NoIndex THEN Empty ELSE call[c].index
        r == call[c].req
    IN /\ Step(c, "locked") /\ call[c].op = "record"
       /\ CheckRelatesTo(call[c].session, r, call[c].target)
       /\ CheckMatrixColumn(r, call[c].target)
       /\ Goto(c, [call[c] EXCEPT !.pc = FirstStep(l), !.index = l,
                                  !.title = StoredTitle(r, call[c].target)])
       /\ UNCHANGED <<obs, links, index, created, lock, acked, begun>>

\* An explicit close records a session that recorded nothing; a fallback does not.
PrepareClose(c) ==
    LET l == IF call[c].index = NoIndex THEN Empty ELSE call[c].index
    IN /\ Step(c, "locked") /\ call[c].op \in Closes
       /\ l.end = 0
       /\ call[c].op = "fallback" => ~EmptyIndex(l)
       /\ Goto(c, [call[c] EXCEPT !.pc = FirstStep(l), !.index = l])
       /\ UNCHANGED <<obs, links, index, created, lock, acked, begun>>

Anchor(s, kind) ==
    [session |-> s, kind |-> kind, author |-> "takt-harness", title |-> NoTitle,
     relation |-> "none", target |-> 0, project |-> Workspace[s]]

Save(c, l) == index' = [index EXCEPT ![call[c].session] = l]

AnchorStart(c) ==
    /\ Step(c, "anchor")
    /\ obs' = Append(obs, Anchor(call[c].session, "start"))
    /\ Goto(c, [call[c] EXCEPT !.pc = "saveStart", !.index.start = Len(obs')])
    /\ UNCHANGED <<links, index, created, lock, acked, begun>>

SaveStart(c) ==
    /\ Step(c, "saveStart")
    /\ Save(c, call[c].index)
    /\ Goto(c, [call[c] EXCEPT !.pc = AfterStart(call[c].index)])
    /\ UNCHANGED <<obs, links, created, lock, acked, begun>>

\* The previous session's lock is waited for with this one's held.
ReadPrevious(c) ==
    LET previous == call[c].index.pending
    IN /\ Step(c, "continuity")
       /\ ClosedPreviousEnd(previous)
       /\ Goto(c, [call[c] EXCEPT !.pc = "linkPrevious", !.end = Loaded(previous).end])
       /\ UNCHANGED <<obs, links, index, created, lock, acked, begun>>

LinkPrevious(c) ==
    /\ Step(c, "linkPrevious")
    /\ links' = links \cup {<<call[c].index.start, call[c].end, "continues">>}
    /\ Goto(c, [call[c] EXCEPT !.pc = "fix"])
    /\ UNCHANGED <<obs, index, created, lock, acked, begun>>

FixContinuity(c) ==
    LET l == [call[c].index EXCEPT !.continues = call[c].index.pending, !.pending = NoSession]
    IN /\ Step(c, "fix")
       /\ Save(c, l)
       /\ Goto(c, [call[c] EXCEPT !.pc = "write", !.index = l])
       /\ UNCHANGED <<obs, links, created, lock, acked, begun>>

-----------------------------------------------------------------------------
(* Recording *)

\* Engram stores an observation, or answers with an equal one it holds.
Entry(c) ==
    LET s == call[c].session
        r == call[c].req
    IN [session |-> s, kind |-> "entry", author |-> r.author, title |-> call[c].title,
        relation |-> r.relation, target |-> call[c].target, project |-> RecordProject(s, r)]

AddObservation(c, id) ==
    \/ obs' = Append(obs, Entry(c)) /\ id = Len(obs) + 1
    \/ id \in 1 .. Len(obs) /\ obs[id] = Entry(c) /\ UNCHANGED obs

Acknowledge(c, id) ==
    acked' = acked \cup {[session |-> call[c].session, id |-> id,
                          author |-> call[c].req.author, caller |-> call[c].req.caller]}

Write(c) ==
    /\ Step(c, "write") /\ call[c].op = "record"
    /\ \E id \in 1 .. Len(obs) + 1 :
          /\ AddObservation(c, id)
          /\ ~HasEntry(call[c].index, id)
          /\ Goto(c, [call[c] EXCEPT !.pc = "link", !.id = id])
    /\ UNCHANGED <<links, index, created, lock, acked, begun>>

\* A write absorbed by an indexed entry names its caller on that entry. The
\* session stays closed if it was.
Absorbed(c) ==
    /\ Step(c, "write") /\ call[c].op = "record"
    /\ \E id \in 1 .. Len(obs) :
          /\ AddObservation(c, id)
          /\ HasEntry(call[c].index, id)
          /\ Save(c, AddCaller(call[c].index, id, call[c].req.caller))
          /\ Acknowledge(c, id)
    /\ Finish(c)
    /\ UNCHANGED <<links, created, begun>>

Link(c) ==
    /\ Step(c, "link")
    /\ links' = links \cup {<<call[c].id, call[c].index.start, "in-session">>}
    /\ Goto(c, [call[c] EXCEPT !.pc = IF call[c].req.relation = "none" THEN "saveEntry" ELSE "relate"])
    /\ UNCHANGED <<obs, index, created, lock, acked, begun>>

Relate(c) ==
    /\ Step(c, "relate")
    /\ links' = links \cup {<<call[c].id, call[c].target, call[c].req.relation>>}
    /\ Goto(c, [call[c] EXCEPT !.pc = "saveEntry"])
    /\ UNCHANGED <<obs, index, created, lock, acked, begun>>

NewEntry(c) ==
    LET r == call[c].req
    IN [id |-> call[c].id, author |-> r.author, callers |-> {r.caller} \ {NoCaller},
        relation |-> r.relation, target |-> call[c].target]

\* Bug variant: a new entry leaves the session closed.
StillClosed(c) == [call[c].index EXCEPT !.entries = Append(@, NewEntry(c))]

\* A linked new entry reopens the session.
Reopened(c) == [call[c].index EXCEPT !.entries = Append(@, NewEntry(c)), !.end = 0]

SaveEntry(c) ==
    /\ Step(c, "saveEntry")
    /\ Save(c, Reopened(c))
    /\ Acknowledge(c, call[c].id)
    /\ Finish(c)
    /\ UNCHANGED <<obs, links, created, begun>>

-----------------------------------------------------------------------------
(* Closing *)

AnchorEnd(c) ==
    /\ Step(c, "write") /\ call[c].op \in Closes
    /\ obs' = Append(obs, Anchor(call[c].session, "end"))
    /\ Goto(c, [call[c] EXCEPT !.pc = "linkEnd", !.id = Len(obs')])
    /\ UNCHANGED <<links, index, created, lock, acked, begun>>

\* The end anchor is linked to the start, then every entry to the end anchor.
LinkEnd(c) ==
    /\ Step(c, "linkEnd")
    /\ links' = links \cup {<<call[c].id, call[c].index.start, "session-end">>}
    /\ Goto(c, [call[c] EXCEPT !.pc = "linkClosed", !.linked = 0])
    /\ UNCHANGED <<obs, index, created, lock, acked, begun>>

LinkClosed(c) ==
    LET next == call[c].linked + 1
    IN /\ Step(c, "linkClosed")
       /\ next <= Len(call[c].index.entries)
       /\ links' = links \cup {<<call[c].index.entries[next].id, call[c].id, "closed-in">>}
       /\ Goto(c, [call[c] EXCEPT !.linked = next])
       /\ UNCHANGED <<obs, index, created, lock, acked, begun>>

SaveEnd(c) ==
    /\ Step(c, "linkClosed")
    /\ call[c].linked = Len(call[c].index.entries)
    /\ Save(c, [call[c].index EXCEPT !.end = call[c].id])
    /\ Finish(c)
    /\ UNCHANGED <<obs, links, created, acked, begun>>

-----------------------------------------------------------------------------
Open(c) ==
    \/ \E s \in Sessions, r \in Requests :
          \E target \in IF r.relation = "none" THEN {0} ELSE 1 .. Len(obs) :
              BeginRecord(c, s, r, target)
    \/ \E s \in Sessions, previous \in Sessions \cup {NoSession} : BeginContinue(c, s, previous)
    \/ \E s \in Sessions, op \in Closes : BeginClose(c, s, op)

Progress(c) ==
    \/ LockSession(c) \/ CheckPrevious(c) \/ Declare(c)
    \/ PrepareRecord(c) \/ PrepareClose(c)
    \/ AnchorStart(c) \/ SaveStart(c) \/ ReadPrevious(c) \/ LinkPrevious(c) \/ FixContinuity(c)
    \/ Write(c) \/ Absorbed(c) \/ Link(c) \/ Relate(c) \/ SaveEntry(c)
    \/ AnchorEnd(c) \/ LinkEnd(c) \/ LinkClosed(c) \/ SaveEnd(c)

Next == \E c \in Calls : Open(c) \/ Progress(c) \/ Abandon(c)

Spec == Init /\ [][Next]_vars

-----------------------------------------------------------------------------
(* Properties *)

\* What an index says is in Engram as edges, after any failure: its start is
\* this session's anchor, every entry hangs from it and from what it relates
\* to, a closed session's entries hang from the end anchor, and a fixed
\* continuity reaches an end anchor of the previous session. The index is saved
\* after the edges it names (recordLinks, linkClosed, fixContinuity).
IndexIsLinked ==
    \A s \in Sessions : index[s] # NoIndex =>
        LET l == index[s]
        IN /\ l.start = 0 => l.end = 0 /\ l.entries = <<>> /\ l.continues = NoSession
           /\ l.start # 0 => obs[l.start] = Anchor(s, "start")
           /\ l.end # 0   => <<l.end, l.start, "session-end">> \in links
           /\ \A e \in Range(l.entries) :
                 /\ <<e.id, l.start, "in-session">> \in links
                 /\ e.relation # "none" => <<e.id, e.target, e.relation>> \in links
                 /\ l.end # 0 => <<e.id, l.end, "closed-in">> \in links
           /\ l.continues # NoSession =>
                 \E id \in 1 .. Len(obs) : /\ obs[id] = Anchor(l.continues, "end")
                                           /\ <<l.start, id, "continues">> \in links

\* A memory reported to its caller as recorded, stored or absorbed by an equal
\* one, stays in the session's index under its author and that caller, whatever
\* calls come after: the results a delivery names are checked against the index
\* (EntryIDsByAuthor, EntryIDsByCaller), so a lost entry refuses the delivery.
RecordedIsAttributed ==
    \A a \in acked :
        /\ index[a.session] # NoIndex
        /\ \E e \in Range(index[a.session].entries) :
              e.id = a.id /\ e.author = a.author /\ a.caller \in e.callers \cup {NoCaller}

\* The sessions a held session waits for.
WaitsFor(s, t) ==
    \E c \in Calls : /\ lock[s] = c
                     /\ Step(c, "continuity")
                     /\ call[c].index.pending = t

\* Taking the previous session's lock under the caller's own never waits in a
\* cycle (closedPreviousEnd): a session that was closed declares nothing any
\* more. In every group of sessions one waits for none of the group.
NoWaitCycle ==
    \A S \in (SUBSET Sessions) \ {{}} : \E s \in S : \A t \in S : ~WaitsFor(s, t)

\* A declaration not yet fixed can be withdrawn (fixContinuity: "the declaration
\* stays revocable until then"). It cannot once the first record anchored the
\* start and then found the previous session open again.
DeclarationIsRevocable ==
    \A s \in Sessions :
        index[s] # NoIndex /\ index[s].pending # NoSession /\ Free(s) => Declarable(index[s])
=============================================================================
