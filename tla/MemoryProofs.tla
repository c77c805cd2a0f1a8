------------------------------ MODULE MemoryProofs ------------------------------
(***************************************************************************)
(* Proofs about MemoryIndex, for every set of sessions, calls and requests *)
(* and every bound. A session's index is written by the one call that      *)
(* holds its lock, from the copy it read under that lock, and only after   *)
(* the edges it names (LockInv, CopyOK, DoneOK).                           *)
(***************************************************************************)
EXTENDS MemoryIndex, SequenceTheorems, TLAPS

Holding(d) == d.pc \in Held

LEMMA HeldSteps ==
  /\ "locked" \in Held /\ "anchor" \in Held /\ "saveStart" \in Held /\ "continuity" \in Held
  /\ "linkPrevious" \in Held /\ "fix" \in Held /\ "write" \in Held /\ "link" \in Held
  /\ "relate" \in Held /\ "saveEntry" \in Held /\ "linkEnd" \in Held /\ "linkClosed" \in Held
  BY DEF Held

\* A lock is held by the one call that works on its session.
LockInv ==
    /\ \A s \in Sessions : lock[s] # NoCall => Holding(call[lock[s]]) /\ call[lock[s]].session = s
    /\ \A c \in Calls : Holding(call[c]) => call[c].session \in Sessions /\ lock[call[c].session] = c

\* An observation is what was stored.
Stored(id, o) == id \in 1 .. Len(obs) /\ obs[id] = o

\* An entry is of a stored memory and linked.
EntryOK(l, e) ==
    /\ e.id \in 1 .. Len(obs)
    /\ obs[e.id].kind = "entry" /\ obs[e.id].author = e.author
    /\ <<e.id, l.start, "in-session">> \in links
    /\ e.relation # "none" => <<e.id, e.target, e.relation>> \in links
    /\ l.end # 0 => <<e.id, l.end, "closed-in">> \in links

\* What an index of session s says.
IndexOK(s, l) ==
    /\ l.start = 0 => l.end = 0 /\ l.entries = <<>> /\ l.continues = NoSession
    /\ l.start # 0 => Stored(l.start, Anchor(s, "start"))
    /\ l.end # 0 => /\ Stored(l.end, Anchor(s, "end"))
                    /\ <<l.end, l.start, "session-end">> \in links
                    /\ l.pending = NoSession
    /\ \A i \in 1 .. Len(l.entries) : EntryOK(l, l.entries[i])
    /\ l.continues # NoSession =>
          \E id \in 1 .. Len(obs) : /\ obs[id] = Anchor(l.continues, "end")
                                    /\ <<l.start, id, "continues">> \in links

IndexInv == \A s \in Sessions : index[s] # NoIndex => IndexOK(s, index[s])

\* A session that was closed once: it declares nothing any more.
Settled(t) == t \in Sessions /\ index[t] # NoIndex /\ index[t].start # 0 /\ index[t].pending = NoSession

PendingInv ==
    /\ \A s \in Sessions : index[s] # NoIndex /\ index[s].pending # NoSession => Settled(index[s].pending)
    /\ \A c \in Calls : call[c].op = "continue" /\ call[c].pc \in {"lock", "locked"}
                            /\ call[c].previous # NoSession => Settled(call[c].previous)

\* How the index a call works on relates to the one on disk.
CopyOK(d) ==
    LET s == d.session
        l == d.index
    IN /\ d.pc = "locked" => l = index[s]
       /\ d.pc # "locked" => l # NoIndex
       /\ d.pc = "anchor" => l = Loaded(s) /\ l.start = 0
       /\ d.pc = "saveStart" => /\ Loaded(s).start = 0 /\ l.start # 0
                                /\ l = [Loaded(s) EXCEPT !.start = l.start]
                                /\ Stored(l.start, Anchor(s, "start"))
       /\ d.pc \notin {"locked", "anchor", "saveStart"} => l = index[s] /\ l.start # 0
       /\ d.pc \in {"continuity", "linkPrevious", "fix"} => l.pending # NoSession
       /\ d.pc \in {"write", "link", "relate", "saveEntry", "linkEnd", "linkClosed"} => l.pending = NoSession
       /\ d.op \in Closes /\ d.pc # "locked" => l.end = 0

\* What a call has done by the step it is at.
DoneOK(d) ==
    LET s == d.session
        l == d.index
    IN /\ d.op = "record" => d.req \in Requests
       /\ d.pc \in {"previous", "lock"} => s \in Sessions
       /\ d.pc \in {"linkPrevious", "fix"} => Stored(d.end, Anchor(l.pending, "end"))
       /\ d.pc = "fix" => <<l.start, d.end, "continues">> \in links
       /\ d.pc \in {"link", "relate", "saveEntry"} =>
             /\ d.op = "record" /\ d.id \in 1 .. Len(obs)
             /\ obs[d.id].kind = "entry" /\ obs[d.id].author = d.req.author
       /\ d.pc \in {"relate", "saveEntry"} => <<d.id, l.start, "in-session">> \in links
       /\ d.pc = "relate" => d.req.relation # "none"
       /\ d.pc = "saveEntry" /\ d.req.relation # "none" => <<d.id, d.target, d.req.relation>> \in links
       /\ d.pc \in {"linkEnd", "linkClosed"} => d.op \in Closes /\ Stored(d.id, Anchor(s, "end"))
       /\ d.pc = "linkClosed" =>
             /\ <<d.id, l.start, "session-end">> \in links
             /\ d.linked <= Len(l.entries)
             /\ \A i \in 1 .. d.linked : <<l.entries[i].id, d.id, "closed-in">> \in links

CallsInv == \A c \in Calls : /\ Holding(call[c]) => CopyOK(call[c])
                             /\ DoneOK(call[c])

IInv == TypeOK /\ LockInv /\ IndexInv /\ PendingInv /\ CallsInv /\ RecordedIsAttributed

-----------------------------------------------------------------------------
(* Engram only grows *)

Grows ==
    /\ Len(obs) <= Len(obs') /\ \A id \in 1 .. Len(obs) : obs'[id] = obs[id]
    /\ links \subseteq links'

LEMMA AppendGrows ==
  ASSUME TypeOK, NEW o, obs' = Append(obs, o), links' = links
  PROVE  Grows /\ Len(obs') = Len(obs) + 1 /\ obs'[Len(obs')] = o
  BY DEF TypeOK, Grows

LEMMA LinkGrows ==
  ASSUME obs' = obs, links \subseteq links', TypeOK
  PROVE  Grows
  BY DEF TypeOK, Grows

LEMMA LinkType ==
  ASSUME TypeOK, NEW a \in Nat, NEW b \in Nat, NEW kind \in LinkKinds, links' = links \cup {<<a, b, kind>>}
  PROVE  links' \subseteq Nat \X Nat \X LinkKinds
  BY DEF TypeOK

LEMMA StoredGrows ==
  ASSUME TypeOK, TypeOK', Grows, NEW id, NEW o, Stored(id, o)
  PROVE  Stored(id, o)'
  BY DEF TypeOK, Grows, Stored

\* What holds of an index, and of what a call has done, holds of a larger Engram.
LEMMA IndexGrows ==
  ASSUME TypeOK, TypeOK', Grows, NEW s, NEW l \in Index, IndexOK(s, l)
  PROVE  IndexOK(s, l)'
<1>1. l.start # 0 => Stored(l.start, Anchor(s, "start"))'
  BY StoredGrows DEF IndexOK, Anchor
<1>2. l.end # 0 => Stored(l.end, Anchor(s, "end"))'
  BY StoredGrows DEF IndexOK, Anchor
<1>o. Len(obs) \in Nat /\ Len(obs') \in Nat
  BY DEF TypeOK
<1>3. ASSUME NEW i \in 1 .. Len(l.entries) PROVE EntryOK(l, l.entries[i])'
  <2>1. EntryOK(l, l.entries[i])
    BY <1>3 DEF IndexOK
  <2>2. l.entries[i].id \in 1 .. Len(obs')
    BY <2>1, <1>o DEF EntryOK, Grows
  <2> QED
    BY <2>1, <2>2 DEF EntryOK, Grows
<1>4. l.continues # NoSession =>
          \E id \in 1 .. Len(obs') : /\ obs'[id] = Anchor(l.continues, "end")
                                     /\ <<l.start, id, "continues">> \in links'
  <2> SUFFICES ASSUME l.continues # NoSession
               PROVE  \E id \in 1 .. Len(obs') : /\ obs'[id] = Anchor(l.continues, "end")
                                                 /\ <<l.start, id, "continues">> \in links'
    OBVIOUS
  <2>1. PICK id \in 1 .. Len(obs) : /\ obs[id] = Anchor(l.continues, "end")
                                    /\ <<l.start, id, "continues">> \in links
    BY DEF IndexOK
  <2>2. id \in 1 .. Len(obs') /\ obs'[id] = obs[id]
    BY <2>1, <1>o DEF Grows
  <2> QED
    BY <2>1, <2>2 DEF Grows
<1> QED
  BY <1>1, <1>2, <1>3, <1>4 DEF IndexOK, Anchor, Grows

LEMMA DoneGrows ==
  ASSUME TypeOK, TypeOK', Grows, NEW d \in CallState, DoneOK(d)
  PROVE  DoneOK(d)'
<1>1. d.pc \in {"linkPrevious", "fix"} => Stored(d.end, Anchor(d.index.pending, "end"))'
  BY StoredGrows DEF DoneOK, Anchor
<1>2. d.pc \in {"linkEnd", "linkClosed"} => Stored(d.id, Anchor(d.session, "end"))'
  BY StoredGrows DEF DoneOK, Anchor
<1>3. d.pc \in {"link", "relate", "saveEntry"} => d.id \in 1 .. Len(obs') /\ obs'[d.id] = obs[d.id]
  BY DEF DoneOK, Grows, TypeOK
<1> QED
  BY <1>1, <1>2, <1>3 DEF DoneOK, Grows

-----------------------------------------------------------------------------
(* What one call does leaves the others alone *)

LEMMA CopyStays ==
  ASSUME TypeOK, TypeOK', Grows, NEW d \in CallState, Holding(d), CopyOK(d),
         d.session \in Sessions, index'[d.session] = index[d.session]
  PROVE  CopyOK(d)'
<1>1. Loaded(d.session)' = Loaded(d.session)
  BY DEF Loaded
<1>2. d.pc = "saveStart" => Stored(d.index.start, Anchor(d.session, "start"))'
  BY StoredGrows DEF CopyOK, Anchor
<1> QED
  BY <1>1, <1>2 DEF CopyOK

Others(c) ==
    /\ \A x \in Calls \ {c} : call'[x] = call[x]
    /\ \A s \in Sessions : index'[s] # index[s] => lock[s] = c

LEMMA OthersKeep ==
  ASSUME IInv, TypeOK', Grows, NEW c \in Calls, Others(c), NEW x \in Calls \ {c}
  PROVE  (Holding(call[x]) => CopyOK(call[x]))' /\ DoneOK(call[x])'
<1>1. PICK d \in CallState : d = call[x]
  BY DEF IInv, TypeOK
<1>2. call'[x] = d
  BY <1>1 DEF Others
<1>3. DoneOK(d)'
  BY <1>1, DoneGrows DEF IInv, CallsInv
<1>4. ASSUME Holding(d) PROVE CopyOK(d)'
  <2>1. d.session \in Sessions /\ lock[d.session] = x
    BY <1>1, <1>4 DEF IInv, LockInv
  <2>2. index'[d.session] = index[d.session]
    BY <2>1 DEF Others
  <2> QED
    BY <1>1, <1>4, <2>1, <2>2, CopyStays DEF IInv, CallsInv
<1>5. (Holding(call[x]) => CopyOK(call[x]))'
  BY <1>2, <1>4 DEF Holding
<1> QED
  BY <1>2, <1>3, <1>5

LEMMA CallsKeep ==
  ASSUME IInv, TypeOK', Grows, NEW c \in Calls, Others(c), NEW d \in CallState, call'[c] = d,
         Holding(d) => CopyOK(d)', DoneOK(d)'
  PROVE  CallsInv'
<1>1. (Holding(call[c]) => CopyOK(call[c]))' /\ DoneOK(call[c])'
  BY DEF Holding
<1> QED
  BY <1>1, OthersKeep DEF CallsInv

\* A step that leaves the indexes alone.
LEMMA IndexesKeep ==
  ASSUME IInv, TypeOK', Grows, index' = index
  PROVE  IndexInv'
<1> SUFFICES ASSUME NEW s \in Sessions, index'[s] # NoIndex PROVE IndexOK(s, index[s])'
  BY DEF IndexInv
<1>1. PICK l \in Index : l = index[s]
  BY DEF IInv, TypeOK
<1> QED
  BY <1>1, IndexGrows DEF IInv, IndexInv

\* A step that saves the index of a session.
Saves(s, l) ==
    /\ index' = [index EXCEPT ![s] = l]
    /\ index[s] # NoIndex /\ index[s].start # 0 =>
          l.start # 0 /\ (index[s].pending = NoSession => l.pending = NoSession)
    /\ l.pending # NoSession => Settled(l.pending)

LEMMA SavesKeep ==
  ASSUME IInv, TypeOK', Grows, NEW s \in Sessions, NEW l \in Index, Saves(s, l), IndexOK(s, l)'
  PROVE  /\ IndexInv'
         /\ \A t : Settled(t) => Settled(t)'
         /\ \A t \in Sessions : index'[t] # NoIndex /\ index'[t].pending # NoSession
                                    => Settled(index[t].pending)'
<1>1. index'[s] = l /\ \A t \in Sessions \ {s} : index'[t] = index[t]
  BY DEF IInv, TypeOK, Saves
<1>2. ASSUME NEW t, Settled(t) PROVE Settled(t)'
  BY <1>1, <1>2, ValuesAssumption DEF Settled, Saves
<1>3. ASSUME NEW t \in Sessions, index'[t] # NoIndex PROVE IndexOK(t, index[t])'
  <2>1. CASE t = s
    BY <1>1, <2>1
  <2>2. CASE t # s
    <3>1. PICK k \in Index : k = index[t]
      BY <1>1, <1>3, <2>2 DEF IInv, TypeOK
    <3> QED
      BY <1>1, <2>2, <3>1, IndexGrows, ValuesAssumption DEF IInv, IndexInv
  <2> QED
    BY <2>1, <2>2
<1>4. ASSUME NEW t \in Sessions, index'[t] # NoIndex, index'[t].pending # NoSession
      PROVE  Settled(index[t].pending)'
  <2>1. PICK u : u = index'[t].pending
    OBVIOUS
  <2>2. Settled(u)
    BY <1>1, <1>4, <2>1 DEF Saves, IInv, PendingInv
  <2>3. Settled(u)'
    BY <1>2, <2>2
  <2> QED
    BY <2>1, <2>3
<1> QED
  BY <1>2, <1>3, <1>4 DEF IndexInv

LEMMA PendingKeeps ==
  ASSUME IInv, NEW c \in Calls, \A x \in Calls \ {c} : call'[x] = call[x],
         NEW d \in CallState, call'[c] = d,
         \A t : Settled(t) => Settled(t)',
         \A t \in Sessions : index'[t] # NoIndex /\ index'[t].pending # NoSession
                                 => Settled(index[t].pending)',
         d.op = "continue" /\ d.pc \in {"lock", "locked"} /\ d.previous # NoSession
             => Settled(d.previous)'
  PROVE  PendingInv'
<1>1. ASSUME NEW x \in Calls \ {c}, call'[x].op = "continue", call'[x].pc \in {"lock", "locked"},
             call'[x].previous # NoSession
      PROVE  Settled(call[x].previous)'
  <2>1. PICK t : t = call[x].previous
    OBVIOUS
  <2>2. call'[x] = call[x] /\ Settled(t)
    BY <1>1, <2>1 DEF IInv, PendingInv
  <2>3. Settled(t)'
    BY <2>2
  <2> QED
    BY <2>1, <2>2, <2>3
<1>2. ASSUME call'[c].op = "continue", call'[c].pc \in {"lock", "locked"}, call'[c].previous # NoSession
      PROVE  Settled(call[c].previous)'
  BY <1>2
<1> QED
  BY <1>1, <1>2 DEF PendingInv

\* The index of session s after a save still attributes what it did.
Covers(s, l) ==
    index[s] # NoIndex =>
        \A e \in Range(index[s].entries) : \E f \in Range(l.entries) :
            f.id = e.id /\ f.author = e.author /\ e.callers \subseteq f.callers

Attributed(l, a) ==
    \E e \in Range(l.entries) :
        e.id = a.id /\ e.author = a.author /\ a.caller \in e.callers \cup {NoCaller}

LEMMA AttributionKeeps ==
  ASSUME TypeOK, RecordedIsAttributed, NEW s \in Sessions, NEW l \in Index,
         index' = [index EXCEPT ![s] = l], Covers(s, l),
         \A a \in acked' : a \in acked \/ (a.session = s /\ Attributed(l, a))
  PROVE  RecordedIsAttributed'
<1>1. index'[s] = l /\ \A t \in Sessions \ {s} : index'[t] = index[t]
  BY DEF TypeOK
<1> SUFFICES ASSUME NEW a \in acked'
             PROVE  index'[a.session] # NoIndex /\ Attributed(index'[a.session], a)
  BY DEF RecordedIsAttributed, Attributed
<1>2. CASE a \in acked
  <2>1. a.session \in Sessions /\ index[a.session] # NoIndex /\ Attributed(index[a.session], a)
    BY <1>2 DEF TypeOK, RecordedIsAttributed, Attributed
  <2>2. CASE a.session # s
    BY <1>1, <2>1, <2>2
  <2>3. CASE a.session = s
    <3>1. PICK e \in Range(index[s].entries) :
              e.id = a.id /\ e.author = a.author /\ a.caller \in e.callers \cup {NoCaller}
      BY <2>1, <2>3 DEF Attributed
    <3>2. PICK f \in Range(l.entries) : f.id = e.id /\ f.author = e.author /\ e.callers \subseteq f.callers
      BY <2>1, <2>3, <3>1 DEF Covers
    <3> QED
      BY <1>1, <2>3, <3>1, <3>2, ValuesAssumption DEF Attributed
  <2> QED
    BY <2>2, <2>3
<1>3. CASE a.session = s /\ Attributed(l, a)
  BY <1>1, <1>3, ValuesAssumption
<1> QED
  BY <1>2, <1>3

-----------------------------------------------------------------------------
(* The locks *)

LEMMA LocksStay ==
  ASSUME TypeOK, LockInv, NEW c \in Calls, NEW d, call'[c] = d, \A x \in Calls \ {c} : call'[x] = call[x],
         lock' = lock, Holding(d) <=> Holding(call[c]), Holding(d) => d.session = call[c].session
  PROVE  LockInv'
<1>1. ASSUME NEW s \in Sessions, lock'[s] # NoCall
      PROVE  Holding(call[lock[s]])' /\ call'[lock'[s]].session = s
  <2>1. lock[s] \in Calls /\ Holding(call[lock[s]]) /\ call[lock[s]].session = s
    BY <1>1 DEF TypeOK, LockInv
  <2> QED
    BY <2>1 DEF Holding
<1>2. ASSUME NEW x \in Calls, Holding(call[x])'
      PROVE  call'[x].session \in Sessions /\ lock'[call'[x].session] = x
  BY <1>2 DEF LockInv, Holding
<1> QED
  BY <1>1, <1>2 DEF LockInv

LEMMA LocksTaken ==
  ASSUME TypeOK, LockInv, NEW c \in Calls, NEW d, call'[c] = d, \A x \in Calls \ {c} : call'[x] = call[x],
         ~Holding(call[c]), Holding(d), d.session \in Sessions, Free(d.session),
         lock' = [lock EXCEPT ![d.session] = c]
  PROVE  LockInv'
<1>1. lock'[d.session] = c /\ \A s \in Sessions \ {d.session} : lock'[s] = lock[s]
  BY DEF TypeOK
<1>2. \A s \in Sessions : lock[s] # c
  BY ValuesAssumption DEF LockInv
<1>3. ASSUME NEW s \in Sessions, lock'[s] # NoCall
      PROVE  Holding(call[lock[s]])' /\ call'[lock'[s]].session = s
  <2>1. CASE s = d.session
    BY <1>1, <2>1 DEF Holding
  <2>2. CASE s # d.session
    BY <1>1, <1>2, <1>3, <2>2 DEF LockInv, Holding, TypeOK
  <2> QED
    BY <2>1, <2>2
<1>4. ASSUME NEW x \in Calls, Holding(call[x])'
      PROVE  call'[x].session \in Sessions /\ lock'[call'[x].session] = x
  <2>1. CASE x = c
    BY <1>1, <2>1
  <2>2. CASE x # c
    BY <1>1, <1>4, <2>2, ValuesAssumption DEF LockInv, Holding, Free
  <2> QED
    BY <2>1, <2>2
<1> QED
  BY <1>3, <1>4 DEF LockInv

LEMMA LocksReleased ==
  ASSUME TypeOK, LockInv, NEW c \in Calls, Finish(c)
  PROVE  LockInv'
<1>1. call'[c] = Idle /\ \A x \in Calls \ {c} : call'[x] = call[x]
  BY DEF Finish, TypeOK
<1>2. \A s \in Sessions : lock'[s] = IF lock[s] = c THEN NoCall ELSE lock[s]
  BY DEF Finish
<1>3. ~Holding(Idle)
  BY DEF Holding, Held, Idle
<1>4. ASSUME NEW s \in Sessions, lock'[s] # NoCall
      PROVE  Holding(call[lock[s]])' /\ call'[lock'[s]].session = s
  <2>1. lock'[s] = lock[s] /\ lock[s] \in Calls \ {c}
    BY <1>2, <1>4 DEF TypeOK
  <2> QED
    BY <1>1, <1>4, <2>1 DEF LockInv, Holding
<1>5. ASSUME NEW x \in Calls, Holding(call[x])'
      PROVE  call'[x].session \in Sessions /\ lock'[call'[x].session] = x
  <2>1. x # c
    BY <1>1, <1>3, <1>5 DEF Holding
  <2> QED
    BY <1>1, <1>2, <1>5, <2>1 DEF LockInv, Holding
<1> QED
  BY <1>4, <1>5 DEF LockInv

-----------------------------------------------------------------------------
(* The kinds of steps *)

\* Call c moves on to d with the lock it holds.
MovesOn(c, d) ==
    /\ Holding(call[c]) /\ Holding(d) /\ d.pc # "locked" /\ d.session = call[c].session
    /\ call' = [call EXCEPT ![c] = d]
    /\ UNCHANGED <<created, lock, acked, begun>>
    /\ obs' \in Seq(Observation) /\ links' \subseteq Nat \X Nat \X LinkKinds
    /\ Grows

LEMMA MovesOnFrame ==
  ASSUME IInv, NEW c \in Calls, NEW d \in CallState, MovesOn(c, d)
  PROVE  /\ call'[c] = d /\ \A x \in Calls \ {c} : call'[x] = call[x]
         /\ LockInv'
         /\ d.session \in Sessions /\ lock[d.session] = c
<1>1. call'[c] = d /\ \A x \in Calls \ {c} : call'[x] = call[x]
  BY DEF IInv, TypeOK, MovesOn
<1>2. LockInv'
  BY <1>1, LocksStay DEF IInv, MovesOn
<1> QED
  BY <1>1, <1>2 DEF IInv, LockInv, MovesOn

\* It leaves the index of its session as it is.
LEMMA WorksKeep ==
  ASSUME IInv, NEW c \in Calls, NEW d \in CallState, MovesOn(c, d), index' = index,
         TypeOK' => CopyOK(d)' /\ DoneOK(d)'
  PROVE  IInv'
<1>1. /\ call'[c] = d /\ \A x \in Calls \ {c} : call'[x] = call[x]
      /\ LockInv'
  BY MovesOnFrame
<1>2. TypeOK'
  BY DEF IInv, TypeOK, MovesOn
<1>3. CallsInv'
  BY <1>1, <1>2, CallsKeep DEF MovesOn, Others
<1>4. IndexInv'
  BY <1>2, IndexesKeep DEF MovesOn
<1>5. \A t : Settled(t) => Settled(t)'
  BY DEF Settled
<1>6. \A t \in Sessions : index'[t] # NoIndex /\ index'[t].pending # NoSession
                              => Settled(index[t].pending)'
  BY DEF IInv, PendingInv, Settled
<1>7. PendingInv'
  BY <1>1, <1>5, <1>6, PendingKeeps DEF MovesOn, Holding, Held
<1>8. RecordedIsAttributed'
  BY DEF IInv, RecordedIsAttributed, MovesOn
<1> QED
  BY <1>1, <1>2, <1>3, <1>4, <1>7, <1>8 DEF IInv

\* It saves the index of its session, and records nothing.
LEMMA SaverKeeps ==
  ASSUME IInv, NEW c \in Calls, NEW d \in CallState, MovesOn(c, d), NEW l \in Index,
         Saves(d.session, l), TypeOK' => IndexOK(d.session, l)',
         index[d.session] # NoIndex => l.entries = index[d.session].entries,
         TypeOK' => CopyOK(d)' /\ DoneOK(d)'
  PROVE  IInv'
<1>1. /\ call'[c] = d /\ \A x \in Calls \ {c} : call'[x] = call[x]
      /\ LockInv' /\ d.session \in Sessions /\ lock[d.session] = c
  BY MovesOnFrame
<1>2. TypeOK'
  <2>1. index' \in [Sessions -> Index \cup {NoIndex}]
    BY <1>1 DEF IInv, TypeOK, Saves
  <2> QED
    BY <2>1 DEF IInv, TypeOK, MovesOn
<1>3. CallsInv'
  <2>1. \A s \in Sessions : index'[s] # index[s] => lock[s] = c
    BY <1>1 DEF IInv, TypeOK, Saves
  <2> QED
    BY <1>1, <1>2, <2>1, CallsKeep DEF MovesOn, Others
<1>4. /\ IndexInv'
      /\ \A t : Settled(t) => Settled(t)'
      /\ \A t \in Sessions : index'[t] # NoIndex /\ index'[t].pending # NoSession
                                 => Settled(index[t].pending)'
  BY <1>1, <1>2, SavesKeep DEF MovesOn
<1>7. PendingInv'
  BY <1>1, <1>4, PendingKeeps DEF MovesOn, Holding, Held
<1>8. RecordedIsAttributed'
  <2>1. Covers(d.session, l)
    BY DEF Covers
  <2> QED
    BY <1>1, <2>1, AttributionKeeps DEF IInv, Saves, MovesOn
<1> QED
  BY <1>1, <1>2, <1>3, <1>4, <1>7, <1>8 DEF IInv

LEMMA FinishFrame ==
  ASSUME IInv, NEW c \in Calls, Finish(c)
  PROVE  /\ call'[c] = Idle /\ \A x \in Calls \ {c} : call'[x] = call[x]
         /\ LockInv'
         /\ lock' \in [Sessions -> Calls \cup {NoCall}] /\ call' \in [Calls -> CallState]
         /\ Idle \in CallState /\ ~Holding(Idle) /\ Idle.op = "none"
         /\ TypeOK' => DoneOK(Idle)'
<1>1. LockInv'
  BY LocksReleased DEF IInv
<1>2. Idle \in CallState /\ ~Holding(Idle) /\ Idle.op = "none"
  BY DEF Idle, CallState, Holding, Held, Closes
<1>3. DoneOK(Idle)'
  BY <1>2 DEF DoneOK, Idle
<1>4. call' \in [Calls -> CallState] /\ call'[c] = Idle /\ \A x \in Calls \ {c} : call'[x] = call[x]
  BY <1>2 DEF IInv, TypeOK, Finish
<1>5. lock' \in [Sessions -> Calls \cup {NoCall}]
  BY DEF IInv, TypeOK, Finish
<1> QED
  BY <1>1, <1>2, <1>3, <1>4, <1>5

\* A call ends with a save of its session's index.
LEMMA LastSaveKeeps ==
  ASSUME IInv, NEW c \in Calls, Finish(c), Holding(call[c]), NEW s, s = call[c].session,
         NEW l \in Index, Saves(s, l), TypeOK' => IndexOK(s, l)',
         Covers(s, l), \A a \in acked' : a \in acked \/ (a.session = s /\ Attributed(l, a)),
         acked' \subseteq [session : Sessions, id : Nat, author : Authors, caller : Callers \cup {NoCaller}],
         obs' \in Seq(Observation), Grows, UNCHANGED <<links, created, begun>>
  PROVE  IInv'
<1>1. /\ call'[c] = Idle /\ \A x \in Calls \ {c} : call'[x] = call[x]
      /\ LockInv'
      /\ lock' \in [Sessions -> Calls \cup {NoCall}] /\ call' \in [Calls -> CallState]
      /\ Idle \in CallState /\ ~Holding(Idle) /\ Idle.op = "none"
      /\ TypeOK' => DoneOK(Idle)'
  BY FinishFrame
<1>s. s \in Sessions /\ lock[s] = c
  BY DEF IInv, LockInv
<1>2. TypeOK'
  <2>1. index' \in [Sessions -> Index \cup {NoIndex}]
    BY <1>s DEF IInv, TypeOK, Saves
  <2> QED
    BY <1>1, <2>1 DEF IInv, TypeOK
<1>3. CallsInv'
  <2>1. \A t \in Sessions : index'[t] # index[t] => lock[t] = c
    BY <1>s DEF IInv, TypeOK, Saves
  <2> QED
    BY <1>1, <1>2, <2>1, CallsKeep DEF Others
<1>4. /\ IndexInv'
      /\ \A t : Settled(t) => Settled(t)'
      /\ \A t \in Sessions : index'[t] # NoIndex /\ index'[t].pending # NoSession
                                 => Settled(index[t].pending)'
  BY <1>s, <1>2, SavesKeep
<1>7. PendingInv'
  BY <1>1, <1>4, PendingKeeps
<1>8. RecordedIsAttributed'
  BY <1>s, AttributionKeeps DEF IInv, Saves
<1> QED
  BY <1>1, <1>2, <1>3, <1>4, <1>7, <1>8 DEF IInv

-----------------------------------------------------------------------------
(* The steps that talk to Engram *)

LEMMA CallFacts ==
  ASSUME IInv, NEW c \in Calls
  PROVE  /\ call[c] \in CallState /\ DoneOK(call[c])
         /\ Holding(call[c]) => /\ CopyOK(call[c]) /\ call[c].session \in Sessions
                                /\ lock[call[c].session] = c
  BY DEF IInv, TypeOK, CallsInv, LockInv

LEMMA LinkKeeps ==
  ASSUME IInv, NEW c \in Calls, Link(c)
  PROVE  IInv'
<1>1. PICK k \in CallState : k = call[c]
  BY CallFacts
<1>2. /\ k.pc = "link" /\ Holding(k) /\ CopyOK(k) /\ DoneOK(k) /\ k.session \in Sessions
      /\ k.req \in Requests /\ k.index \in Index
  <2>1. k.pc = "link" /\ Holding(k)
    BY <1>1 DEF Link, Step, Holding, Held
  <2>2. CopyOK(k) /\ DoneOK(k) /\ k.session \in Sessions
    BY <1>1, <2>1, CallFacts
  <2> QED
    BY <2>1, <2>2 DEF CopyOK, DoneOK, CallState
<1>p. PICK next \in {"saveEntry", "relate"} :
          next = IF k.req.relation = "none" THEN "saveEntry" ELSE "relate"
  OBVIOUS
<1>3. PICK d \in CallState : d = [k EXCEPT !.pc = next]
  <2>1. next \in Held
    BY HeldSteps
  <2> QED
    BY <2>1 DEF CallState
<1>4. /\ d.pc \in {"saveEntry", "relate"} /\ (d.pc = "saveEntry" <=> k.req.relation = "none")
      /\ d.op = k.op /\ d.session = k.session /\ d.req = k.req /\ d.target = k.target
      /\ d.index = k.index /\ d.id = k.id
  BY <1>3, <1>p DEF CallState
<1>5. links' = links \cup {<<k.id, k.index.start, "in-session">>}
  BY <1>1 DEF Link
<1>6. MovesOn(c, d) /\ index' = index
  <2>1. links' \subseteq Nat \X Nat \X LinkKinds
    <3>1. k.id \in Nat /\ k.index.start \in Nat
      BY <1>2 DEF CallState, Index
    <3>2. "in-session" \in LinkKinds
      BY DEF LinkKinds
    <3> QED
      BY <3>1, <3>2, <1>5, LinkType DEF IInv
  <2>2. Grows
    BY <1>5, LinkGrows DEF Link, IInv
  <2>3. obs' \in Seq(Observation)
    BY DEF Link, IInv, TypeOK
  <2> QED
    BY <1>1, <1>2, <1>3, <1>4, <1>p, <2>1, <2>2, <2>3 DEF Link, Goto, MovesOn, Holding, Held
<1>7. CopyOK(d)'
  BY <1>2, <1>4, <1>6 DEF CopyOK
<1>8. DoneOK(d)'
  BY <1>2, <1>4, <1>5 DEF DoneOK, Link
<1> QED
  BY <1>6, <1>7, <1>8, WorksKeep

LEMMA RelateKeeps ==
  ASSUME IInv, NEW c \in Calls, Relate(c)
  PROVE  IInv'
<1>1. PICK k \in CallState : k = call[c]
  BY CallFacts
<1>2. /\ k.pc = "relate" /\ Holding(k) /\ CopyOK(k) /\ DoneOK(k) /\ k.session \in Sessions
      /\ k.req \in Requests /\ k.index \in Index
  <2>1. k.pc = "relate" /\ Holding(k)
    BY <1>1 DEF Relate, Step, Holding, Held
  <2>2. CopyOK(k) /\ DoneOK(k) /\ k.session \in Sessions
    BY <1>1, <2>1, CallFacts
  <2> QED
    BY <2>1, <2>2 DEF CopyOK, DoneOK, CallState
<1>3. PICK d \in CallState : d = [k EXCEPT !.pc = "saveEntry"]
  BY <1>1, HeldSteps DEF CallState
<1>4. /\ d.pc = "saveEntry" /\ d.op = k.op /\ d.session = k.session /\ d.req = k.req
      /\ d.target = k.target /\ d.index = k.index /\ d.id = k.id
  BY <1>3 DEF CallState
<1>5. links' = links \cup {<<k.id, k.target, k.req.relation>>}
  BY <1>1 DEF Relate
<1>6. MovesOn(c, d) /\ index' = index
  <2>1. links' \subseteq Nat \X Nat \X LinkKinds
    <3>1. k.req.relation \in LinkKinds
      BY <1>2, MemoryAssumption DEF DoneOK, LinkKinds
    <3>2. k.id \in Nat /\ k.target \in Nat
      BY DEF CallState
    <3> QED
      BY <3>1, <3>2, <1>5 DEF IInv, TypeOK
  <2>2. Grows
    BY <1>5, LinkGrows DEF Relate, IInv
  <2>3. obs' \in Seq(Observation)
    BY DEF Relate, IInv, TypeOK
  <2> QED
    BY <1>1, <1>2, <1>3, <1>4, <2>1, <2>2, <2>3 DEF Relate, Goto, MovesOn, Holding, Held
<1>7. CopyOK(d)'
  BY <1>2, <1>4, <1>6 DEF CopyOK
<1>8. DoneOK(d)'
  BY <1>2, <1>4, <1>5 DEF DoneOK, Relate
<1> QED
  BY <1>6, <1>7, <1>8, WorksKeep

LEMMA EmptyType == Empty \in Index
  BY DEF Empty, Index

LEMMA StoredTitleType ==
  ASSUME NEW r \in Requests, NEW target, CheckMatrixColumn(r, target)
  PROVE  StoredTitle(r, target) \in Titles
<1>1. CASE Unchecked(r, target)
  BY <1>1 DEF StoredTitle, Titles
<1>2. CASE ~Unchecked(r, target)
  <2>1. \E x \in OwnColumns(r) : TRUE
    BY <1>2 DEF CheckMatrixColumn
  <2>2. (CHOOSE x \in OwnColumns(r) : TRUE) \in OwnColumns(r)
    BY <2>1
  <2> QED
    BY <1>2, <2>2 DEF StoredTitle, Titles, OwnColumns
<1> QED
  BY <1>1, <1>2

\* A call starts on what it loaded.
LEMMA StartsKeep ==
  ASSUME IInv, NEW c \in Calls, call[c].pc = "locked",
         NEW l, l = IF call[c].index = NoIndex THEN Empty ELSE call[c].index,
         NEW t \in Titles \cup {NoTitle},
         call[c].op \in Closes => l.end = 0,
         call' = [call EXCEPT ![c] = [call[c] EXCEPT !.pc = FirstStep(l), !.index = l, !.title = t]],
         UNCHANGED <<obs, links, index, created, lock, acked, begun>>
  PROVE  IInv'
<1>1. PICK k \in CallState : k = call[c]
  BY CallFacts
<1>2. Holding(k) /\ CopyOK(k) /\ DoneOK(k) /\ k.session \in Sessions
  BY <1>1, CallFacts DEF Holding, Held
<1>3. l = Loaded(k.session) /\ l \in Index
  BY <1>1, <1>2, EmptyType DEF CopyOK, Loaded, CallState
<1>4. PICK next \in {"anchor", "write", "continuity"} : next = FirstStep(l)
  BY DEF FirstStep, AfterStart
<1>5. PICK d \in CallState : d = [k EXCEPT !.pc = next, !.index = l, !.title = t]
  <2>1. next \in Held
    BY <1>4 DEF Held
  <2> QED
    BY <1>3, <2>1 DEF CallState
<1>6. /\ d.pc = next /\ d.op = k.op /\ d.session = k.session /\ d.req = k.req /\ d.index = l
  BY <1>5 DEF CallState
<1>7. MovesOn(c, d) /\ index' = index
  <2>1. Grows
    BY LinkGrows DEF IInv
  <2> QED
    BY <1>1, <1>2, <1>4, <1>5, <1>6, <2>1 DEF MovesOn, Holding, Held, IInv, TypeOK
<1>8. CopyOK(d)'
  <2>1. Loaded(k.session)' = Loaded(k.session)
    BY DEF Loaded
  <2>2. next = "anchor" <=> l.start = 0
    BY <1>4 DEF FirstStep, AfterStart
  <2>3. next = "continuity" <=> l.start # 0 /\ l.pending # NoSession
    BY <1>4 DEF FirstStep, AfterStart
  <2>4. l.start # 0 => l = index[k.session]
    BY <1>3 DEF Loaded, Empty
  <2>5. d.op \in Closes => l.end = 0
    BY <1>1, <1>6
  <2>6. l # NoIndex
    BY <1>3, ValuesAssumption
  <2> QED
    BY <1>3, <1>4, <1>6, <2>1, <2>2, <2>3, <2>4, <2>5, <2>6 DEF CopyOK
<1>9. DoneOK(d)'
  BY <1>2, <1>4, <1>6 DEF DoneOK
<1> QED
  BY <1>7, <1>8, <1>9, WorksKeep

LEMMA PrepareRecordKeeps ==
  ASSUME IInv, NEW c \in Calls, PrepareRecord(c)
  PROVE  IInv'
<1>1. PICK l : l = IF call[c].index = NoIndex THEN Empty ELSE call[c].index
  OBVIOUS
<1>2. PICK t : t = StoredTitle(call[c].req, call[c].target)
  OBVIOUS
<1>3. t \in Titles
  BY <1>2, StoredTitleType, CallFacts DEF PrepareRecord, DoneOK
<1> QED
  BY <1>1, <1>2, <1>3, StartsKeep DEF PrepareRecord, Step, Goto, Closes

LEMMA PrepareCloseKeeps ==
  ASSUME IInv, NEW c \in Calls, PrepareClose(c)
  PROVE  IInv'
<1>1. PICK l : l = IF call[c].index = NoIndex THEN Empty ELSE call[c].index
  OBVIOUS
<1>2. PICK t \in Titles \cup {NoTitle} : t = call[c].title
  BY CallFacts DEF CallState
<1>3. [call[c] EXCEPT !.pc = FirstStep(l), !.index = l]
          = [call[c] EXCEPT !.pc = FirstStep(l), !.index = l, !.title = t]
  BY <1>2, CallFacts DEF CallState
<1> QED
  BY <1>1, <1>2, <1>3, StartsKeep DEF PrepareClose, Step, Goto

LEMMA AnchorType ==
  ASSUME NEW s \in Sessions, NEW kind \in {"start", "end"}
  PROVE  Anchor(s, kind) \in Observation
  BY DEF Anchor, Observation

LEMMA AnchorStartKeeps ==
  ASSUME IInv, NEW c \in Calls, AnchorStart(c)
  PROVE  IInv'
<1>1. PICK k \in CallState : k = call[c]
  BY CallFacts
<1>2. /\ k.pc = "anchor" /\ Holding(k) /\ CopyOK(k) /\ DoneOK(k) /\ k.session \in Sessions
      /\ k.index \in Index /\ k.index = Loaded(k.session) /\ k.index.start = 0
  <2>1. k.pc = "anchor" /\ Holding(k)
    BY <1>1 DEF AnchorStart, Step, Holding, Held
  <2>2. CopyOK(k) /\ DoneOK(k) /\ k.session \in Sessions
    BY <1>1, <2>1, CallFacts
  <2> QED
    BY <2>1, <2>2 DEF CopyOK, CallState
<1>3. /\ obs' = Append(obs, Anchor(k.session, "start")) /\ links' = links /\ index' = index
      /\ Grows /\ obs' \in Seq(Observation) /\ Len(obs') \in Nat \ {0}
      /\ Stored(Len(obs), Anchor(k.session, "start"))'
  <2>1. obs' = Append(obs, Anchor(k.session, "start")) /\ links' = links /\ index' = index
    BY <1>1 DEF AnchorStart
  <2>2. obs' \in Seq(Observation)
    BY <1>2, <2>1, AnchorType DEF IInv, TypeOK
  <2>3. Grows /\ Len(obs') = Len(obs) + 1 /\ obs'[Len(obs')] = Anchor(k.session, "start")
    BY <2>1, AppendGrows DEF IInv
  <2>4. Len(obs') \in Nat \ {0}
    BY <2>3 DEF IInv, TypeOK
  <2> QED
    BY <2>1, <2>2, <2>3, <2>4 DEF Stored, Anchor
<1>n. PICK n \in Nat \ {0} : n = Len(obs')
  BY <1>3
<1>m. PICK m \in Index : m = [k.index EXCEPT !.start = n]
  BY <1>2 DEF Index
<1>4. PICK d \in CallState : d = [k EXCEPT !.pc = "saveStart", !.index = m]
  BY HeldSteps DEF CallState
<1>5. /\ d.pc = "saveStart" /\ d.op = k.op /\ d.session = k.session /\ d.req = k.req /\ d.index = m
  BY <1>4 DEF CallState
<1>6. MovesOn(c, d) /\ index' = index
  <2>1. call' = [call EXCEPT ![c] = d]
    BY <1>1, <1>2, <1>4, <1>n, <1>m DEF AnchorStart, Goto, CallState
  <2> QED
    BY <1>1, <1>2, <1>3, <1>5, <2>1 DEF AnchorStart, MovesOn, Holding, Held, IInv, TypeOK
<1>7. CopyOK(d)'
  <2>1. Loaded(k.session)' = k.index
    BY <1>2, <1>3 DEF Loaded
  <2>2. m.start = n /\ m.end = k.index.end /\ m # NoIndex
    BY <1>2, <1>m, ValuesAssumption DEF Index
  <2>3. Stored(n, Anchor(k.session, "start"))'
    BY <1>3, <1>n DEF Stored, Anchor
  <2>4. m = [k.index EXCEPT !.start = m.start]
    BY <1>m, <2>2
  <2>5. d.op \in Closes => m.end = 0
    BY <1>2, <1>5, <2>2 DEF CopyOK
  <2> QED
    BY <1>2, <1>5, <2>1, <2>2, <2>3, <2>4, <2>5 DEF CopyOK
<1>8. DoneOK(d)'
  BY <1>2, <1>5 DEF DoneOK
<1> QED
  BY <1>6, <1>7, <1>8, WorksKeep

LEMMA SaveStartKeeps ==
  ASSUME IInv, NEW c \in Calls, SaveStart(c)
  PROVE  IInv'
<1>1. PICK k \in CallState : k = call[c]
  BY CallFacts
<1> DEFINE s == k.session
           l == k.index
<1>2. /\ k.pc = "saveStart" /\ Holding(k) /\ CopyOK(k) /\ DoneOK(k) /\ s \in Sessions /\ l \in Index
      /\ Loaded(s).start = 0 /\ l.start # 0 /\ l = [Loaded(s) EXCEPT !.start = l.start]
      /\ Stored(l.start, Anchor(s, "start"))
  <2>1. k.pc = "saveStart" /\ Holding(k)
    BY <1>1 DEF SaveStart, Step, Holding, Held
  <2>2. CopyOK(k) /\ DoneOK(k) /\ s \in Sessions
    BY <1>1, <2>1, CallFacts
  <2> QED
    BY <2>1, <2>2 DEF CopyOK, CallState
<1>3. PICK before \in Index : before = Loaded(s)
  BY <1>2, EmptyType DEF Loaded, IInv, TypeOK
<1>4. /\ before.start = 0 /\ before.end = 0 /\ before.entries = <<>> /\ before.continues = NoSession
      /\ index[s] # NoIndex => before = index[s]
      /\ before.pending # NoSession => Settled(before.pending)
  BY <1>2, <1>3 DEF Loaded, Empty, IInv, IndexInv, IndexOK, PendingInv
<1>5. /\ l.end = 0 /\ l.entries = <<>> /\ l.continues = NoSession /\ l.pending = before.pending
  BY <1>2, <1>3, <1>4 DEF Index
<1>6. UNCHANGED <<obs, links, created, lock, acked, begun>> /\ index' = [index EXCEPT ![s] = l]
  BY <1>1 DEF SaveStart, Save
<1>7. Saves(s, l)
  BY <1>2, <1>3, <1>4, <1>5, <1>6 DEF Saves
<1>8. IndexOK(s, l)'
  <2>1. Stored(l.start, Anchor(s, "start"))'
    BY <1>2, <1>6 DEF Stored, Anchor
  <2> QED
    BY <1>2, <1>5, <2>1 DEF IndexOK
<1>n. PICK next \in {"write", "continuity"} : next = AfterStart(l)
  BY DEF AfterStart
<1>9. PICK d \in CallState : d = [k EXCEPT !.pc = next]
  <2>1. next \in Held
    BY <1>n DEF Held
  <2> QED
    BY <2>1 DEF CallState
<1>10. d.pc = next /\ d.op = k.op /\ d.session = s /\ d.req = k.req /\ d.index = l
  BY <1>9 DEF CallState
<1>11. MovesOn(c, d)
  <2>1. Grows
    BY <1>6, LinkGrows DEF IInv
  <2>2. call' = [call EXCEPT ![c] = d]
    BY <1>1, <1>n, <1>9 DEF SaveStart, Goto
  <2>3. Holding(call[c]) /\ Holding(d) /\ d.pc # "locked"
    BY <1>1, <1>2, <1>n, <1>10 DEF Holding, Held
  <2> QED
    BY <1>1, <1>6, <1>10, <2>1, <2>2, <2>3 DEF MovesOn, IInv, TypeOK
<1>12. CopyOK(d)'
  <2>1. index'[s] = l /\ l # NoIndex
    BY <1>2, <1>6, ValuesAssumption DEF IInv, TypeOK
  <2>2. next = "write" <=> l.pending = NoSession
    BY <1>n DEF AfterStart
  <2> QED
    BY <1>2, <1>5, <1>n, <1>10, <2>1, <2>2 DEF CopyOK
<1>13. DoneOK(d)'
  BY <1>2, <1>n, <1>10 DEF DoneOK
<1>14. index[s] # NoIndex => l.entries = index[s].entries
  BY <1>4, <1>5
<1> QED
  BY <1>2, <1>7, <1>8, <1>10, <1>11, <1>12, <1>13, <1>14, SaverKeeps

LEMMA ReadPreviousKeeps ==
  ASSUME IInv, NEW c \in Calls, ReadPrevious(c)
  PROVE  IInv'
<1>1. PICK k \in CallState : k = call[c]
  BY CallFacts
<1>2. /\ k.pc = "continuity" /\ Holding(k) /\ CopyOK(k) /\ DoneOK(k) /\ k.session \in Sessions
      /\ k.index \in Index
  <2>1. k.pc = "continuity" /\ Holding(k)
    BY <1>1 DEF ReadPrevious, Step, Holding, Held
  <2>2. CopyOK(k) /\ DoneOK(k) /\ k.session \in Sessions
    BY <1>1, <2>1, CallFacts
  <2> QED
    BY <2>1, <2>2 DEF CopyOK, CallState
<1>3. PICK end \in Nat : end = Loaded(k.index.pending).end /\ Stored(end, Anchor(k.index.pending, "end"))
  <2> DEFINE t == k.index.pending
  <2>1. t \in Sessions /\ index[t] # NoIndex /\ index[t].end # 0
    BY <1>1 DEF ReadPrevious, ClosedPreviousEnd, Closed, IInv, TypeOK
  <2>2. IndexOK(t, index[t]) /\ index[t] \in Index
    BY <2>1 DEF IInv, TypeOK, IndexInv
  <2>3. index[t].end \in Nat /\ Loaded(t) = index[t]
    BY <2>1, <2>2 DEF Index, Loaded
  <2> QED
    BY <2>1, <2>2, <2>3 DEF IndexOK
<1>4. PICK d \in CallState : d = [k EXCEPT !.pc = "linkPrevious", !.end = end]
  BY HeldSteps DEF CallState
<1>5. /\ d.pc = "linkPrevious" /\ d.op = k.op /\ d.session = k.session /\ d.req = k.req
      /\ d.index = k.index /\ d.end = end
  BY <1>4 DEF CallState
<1>6. MovesOn(c, d) /\ index' = index
  <2>1. Grows
    BY LinkGrows DEF IInv, ReadPrevious
  <2>2. call' = [call EXCEPT ![c] = d]
    BY <1>1, <1>3, <1>4 DEF ReadPrevious, Goto
  <2> QED
    BY <1>1, <1>2, <1>5, <2>1, <2>2 DEF ReadPrevious, MovesOn, Holding, Held, IInv, TypeOK
<1>7. CopyOK(d)'
  BY <1>2, <1>5, <1>6 DEF CopyOK
<1>8. DoneOK(d)'
  <2>1. Stored(end, Anchor(k.index.pending, "end"))'
    BY <1>3 DEF ReadPrevious, Stored, Anchor
  <2> QED
    BY <1>2, <1>5, <2>1 DEF DoneOK
<1> QED
  BY <1>6, <1>7, <1>8, WorksKeep

LEMMA LinkPreviousKeeps ==
  ASSUME IInv, NEW c \in Calls, LinkPrevious(c)
  PROVE  IInv'
<1>1. PICK k \in CallState : k = call[c]
  BY CallFacts
<1>2. /\ k.pc = "linkPrevious" /\ Holding(k) /\ CopyOK(k) /\ DoneOK(k) /\ k.session \in Sessions
      /\ k.index \in Index
  <2>1. k.pc = "linkPrevious" /\ Holding(k)
    BY <1>1 DEF LinkPrevious, Step, Holding, Held
  <2>2. CopyOK(k) /\ DoneOK(k) /\ k.session \in Sessions
    BY <1>1, <2>1, CallFacts
  <2> QED
    BY <2>1, <2>2 DEF CopyOK, CallState
<1>3. PICK d \in CallState : d = [k EXCEPT !.pc = "fix"]
  BY HeldSteps DEF CallState
<1>4. /\ d.pc = "fix" /\ d.op = k.op /\ d.session = k.session /\ d.req = k.req
      /\ d.index = k.index /\ d.end = k.end
  BY <1>3 DEF CallState
<1>5. links' = links \cup {<<k.index.start, k.end, "continues">>} /\ obs' = obs
  BY <1>1 DEF LinkPrevious
<1>6. MovesOn(c, d) /\ index' = index
  <2>1. Grows
    BY <1>5, LinkGrows DEF IInv
  <2>2. call' = [call EXCEPT ![c] = d]
    BY <1>1, <1>3 DEF LinkPrevious, Goto
  <2>3. links' \subseteq Nat \X Nat \X LinkKinds
    <3>1. k.end \in Nat /\ k.index.start \in Nat
      BY <1>2 DEF CallState, Index
    <3>2. "continues" \in LinkKinds
      BY DEF LinkKinds
    <3> QED
      BY <3>1, <3>2, <1>5, LinkType DEF IInv
  <2> QED
    BY <1>1, <1>2, <1>4, <1>5, <2>1, <2>2, <2>3 DEF LinkPrevious, MovesOn, Holding, Held, IInv, TypeOK
<1>7. CopyOK(d)'
  BY <1>2, <1>4, <1>6 DEF CopyOK
<1>8. DoneOK(d)'
  <2>1. Stored(k.end, Anchor(k.index.pending, "end"))'
    BY <1>2, <1>5 DEF DoneOK, Stored, Anchor
  <2> QED
    BY <1>2, <1>4, <1>5, <2>1 DEF DoneOK
<1> QED
  BY <1>6, <1>7, <1>8, WorksKeep

LEMMA FixContinuityKeeps ==
  ASSUME IInv, NEW c \in Calls, FixContinuity(c)
  PROVE  IInv'
<1>1. PICK k \in CallState : k = call[c]
  BY CallFacts
<1> DEFINE s == k.session
           b == k.index
<1>2. /\ k.pc = "fix" /\ Holding(k) /\ CopyOK(k) /\ DoneOK(k) /\ s \in Sessions /\ b \in Index
      /\ index[s] = b /\ b.start # 0 /\ b.pending # NoSession
  <2>1. k.pc = "fix" /\ Holding(k)
    BY <1>1 DEF FixContinuity, Step, Holding, Held
  <2>2. CopyOK(k) /\ DoneOK(k) /\ s \in Sessions
    BY <1>1, <2>1, CallFacts
  <2> QED
    BY <2>1, <2>2 DEF CopyOK, CallState
<1>3. PICK l \in Index : l = [b EXCEPT !.continues = b.pending, !.pending = NoSession]
  BY <1>2 DEF Index
<1>4. /\ l.start = b.start /\ l.end = b.end /\ l.entries = b.entries
      /\ l.continues = b.pending /\ l.pending = NoSession
  BY <1>2, <1>3 DEF Index
<1>5. UNCHANGED <<obs, links, created, lock, acked, begun>> /\ index' = [index EXCEPT ![s] = l]
  BY <1>1, <1>3 DEF FixContinuity, Save
<1>6. Saves(s, l)
  BY <1>2, <1>4, <1>5 DEF Saves
<1>7. IndexOK(s, l)'
  <2>1. IndexOK(s, b)
    BY <1>2, ValuesAssumption DEF IInv, IndexInv
  <2>2. Stored(l.start, Anchor(s, "start"))'
    BY <1>2, <1>4, <1>5, <2>1 DEF IndexOK, Stored, Anchor
  <2>3. b.end = 0
    BY <1>2, <2>1 DEF IndexOK
  <2>4. ASSUME NEW i \in 1 .. Len(l.entries) PROVE EntryOK(l, l.entries[i])'
    <3>1. EntryOK(b, b.entries[i])
      BY <1>4, <2>1, <2>4 DEF IndexOK
    <3> QED
      BY <1>4, <1>5, <3>1 DEF EntryOK
  <2>5. \E id \in 1 .. Len(obs') : /\ obs'[id] = Anchor(l.continues, "end")
                                   /\ <<l.start, id, "continues">> \in links'
    BY <1>2, <1>4, <1>5 DEF DoneOK, Stored
  <2> QED
    BY <1>2, <1>4, <2>2, <2>3, <2>4, <2>5 DEF IndexOK, Anchor
<1>8. PICK d \in CallState : d = [k EXCEPT !.pc = "write", !.index = l]
  BY HeldSteps DEF CallState
<1>9. d.pc = "write" /\ d.op = k.op /\ d.session = s /\ d.req = k.req /\ d.index = l
  BY <1>8 DEF CallState
<1>10. MovesOn(c, d)
  <2>1. Grows
    BY <1>5, LinkGrows DEF IInv
  <2>2. call' = [call EXCEPT ![c] = d]
    BY <1>1, <1>3, <1>8 DEF FixContinuity, Goto
  <2> QED
    BY <1>1, <1>2, <1>5, <1>9, <2>1, <2>2 DEF MovesOn, Holding, Held, IInv, TypeOK
<1>11. CopyOK(d)'
  <2>1. index'[s] = l /\ l # NoIndex
    BY <1>2, <1>5, ValuesAssumption DEF IInv, TypeOK
  <2> QED
    BY <1>2, <1>4, <1>9, <2>1 DEF CopyOK
<1>12. DoneOK(d)'
  BY <1>2, <1>9 DEF DoneOK
<1> QED
  BY <1>2, <1>4, <1>6, <1>7, <1>9, <1>10, <1>11, <1>12, SaverKeeps

-----------------------------------------------------------------------------
(* Storing an entry, and the end of a session *)

LEMMA EntryType ==
  ASSUME IInv, NEW c \in Calls, call[c].req \in Requests, call[c].session \in Sessions
  PROVE  Entry(c) \in Observation /\ Entry(c).kind = "entry" /\ Entry(c).author = call[c].req.author
<1>1. RecordProject(call[c].session, call[c].req) \in {Workspace[s] : s \in Sessions} \cup {NoProject}
  BY DEF RecordProject
<1>2. call[c].req.author \in Authors /\ call[c].req.relation \in Relations \cup {"none"}
  BY MemoryAssumption DEF Authors
<1>3. call[c].title \in Titles \cup {NoTitle} /\ call[c].target \in Nat
  BY CallFacts DEF CallState
<1> QED
  BY <1>1, <1>2, <1>3 DEF Entry, Observation

\* An answer to a write: a new observation, or an equal one.
LEMMA AddGrows ==
  ASSUME IInv, NEW c \in Calls, call[c].req \in Requests, call[c].session \in Sessions,
         NEW id, AddObservation(c, id), links' = links
  PROVE  /\ obs' \in Seq(Observation) /\ Grows
         /\ id \in 1 .. Len(obs') /\ id \in Nat
         /\ obs'[id].kind = "entry" /\ obs'[id].author = call[c].req.author
<1>1. obs \in Seq(Observation) /\ TypeOK
  BY DEF IInv, TypeOK
<1>2. PICK o \in Observation : o = Entry(c) /\ o.kind = "entry" /\ o.author = call[c].req.author
  BY EntryType
<1>3. CASE obs' = Append(obs, Entry(c)) /\ id = Len(obs) + 1
  <2>1. Grows /\ Len(obs') = Len(obs) + 1 /\ obs'[Len(obs')] = o
    BY <1>1, <1>2, <1>3, AppendGrows
  <2>2. obs' \in Seq(Observation)
    BY <1>1, <1>2, <1>3
  <2> QED
    BY <1>1, <1>2, <1>3, <2>1, <2>2
<1>4. CASE id \in 1 .. Len(obs) /\ obs[id] = Entry(c) /\ UNCHANGED obs
  BY <1>1, <1>2, <1>4, LinkGrows
<1> QED
  BY <1>3, <1>4 DEF AddObservation

LEMMA WriteKeeps ==
  ASSUME IInv, NEW c \in Calls, Write(c)
  PROVE  IInv'
<1>1. PICK k \in CallState : k = call[c]
  BY CallFacts
<1>2. /\ k.pc = "write" /\ Holding(k) /\ CopyOK(k) /\ DoneOK(k) /\ k.session \in Sessions
      /\ k.op = "record" /\ k.req \in Requests /\ k.index \in Index
  <2>1. k.pc = "write" /\ Holding(k) /\ k.op = "record"
    BY <1>1 DEF Write, Step, Holding, Held
  <2>2. CopyOK(k) /\ DoneOK(k) /\ k.session \in Sessions
    BY <1>1, <2>1, CallFacts
  <2> QED
    BY <2>1, <2>2 DEF CopyOK, DoneOK, CallState
<1>3. PICK id \in 1 .. Len(obs) + 1 : /\ AddObservation(c, id)
                                     /\ Goto(c, [call[c] EXCEPT !.pc = "link", !.id = id])
  BY DEF Write
<1>4. UNCHANGED <<links, index, created, lock, acked, begun>>
  BY DEF Write
<1>5. /\ obs' \in Seq(Observation) /\ Grows /\ id \in 1 .. Len(obs') /\ id \in Nat
      /\ obs'[id].kind = "entry" /\ obs'[id].author = k.req.author
  BY <1>1, <1>2, <1>3, <1>4, AddGrows
<1>6. PICK d \in CallState : d = [k EXCEPT !.pc = "link", !.id = id]
  BY <1>5, HeldSteps DEF CallState
<1>7. /\ d.pc = "link" /\ d.op = k.op /\ d.session = k.session /\ d.req = k.req
      /\ d.index = k.index /\ d.id = id
  BY <1>6 DEF CallState
<1>8. MovesOn(c, d) /\ index' = index
  <2>1. call' = [call EXCEPT ![c] = d]
    BY <1>1, <1>3, <1>6 DEF Goto
  <2> QED
    BY <1>1, <1>2, <1>4, <1>5, <1>7, <2>1 DEF MovesOn, Holding, Held, IInv, TypeOK
<1>9. CopyOK(d)'
  BY <1>2, <1>4, <1>7 DEF CopyOK
<1>10. DoneOK(d)'
  BY <1>2, <1>5, <1>7 DEF DoneOK
<1> QED
  BY <1>8, <1>9, <1>10, WorksKeep

\* A caller is added to one entry, and nothing else of the index changes.
LEMMA AddCallerFacts ==
  ASSUME NEW l \in Index, NEW id, HasEntry(l, id), NEW caller \in Callers \cup {NoCaller},
         NEW m, m = AddCaller(l, id, caller)
  PROVE  /\ m \in Index
         /\ m.start = l.start /\ m.end = l.end /\ m.continues = l.continues /\ m.pending = l.pending
         /\ Len(m.entries) = Len(l.entries)
         /\ \A i \in 1 .. Len(l.entries) :
               /\ m.entries[i].id = l.entries[i].id /\ m.entries[i].author = l.entries[i].author
               /\ m.entries[i].relation = l.entries[i].relation
               /\ m.entries[i].target = l.entries[i].target
               /\ l.entries[i].callers \subseteq m.entries[i].callers
         /\ \E i \in 1 .. Len(l.entries) :
               m.entries[i].id = id /\ caller \in m.entries[i].callers \cup {NoCaller}
<1>1. l.entries \in Seq(IndexEntry)
  BY DEF Index
<1>2. PICK p \in 1 .. Len(l.entries) : p = Position(l, id) /\ l.entries[p].id = id
  <2>1. \E i \in DOMAIN l.entries : l.entries[i].id = id
    BY DEF HasEntry, Range
  <2>2. Position(l, id) \in DOMAIN l.entries /\ l.entries[Position(l, id)].id = id
    BY <2>1 DEF Position
  <2> QED
    BY <1>1, <2>2
<1>3. CASE caller = NoCaller
  BY <1>1, <1>2, <1>3 DEF AddCaller
<1>4. CASE caller # NoCaller
  <2>1. PICK e \in IndexEntry : e = l.entries[p]
    BY <1>1, <1>2
  <2>2. PICK f \in IndexEntry : f = [e EXCEPT !.callers = e.callers \cup {caller}]
    BY <1>4, <2>1 DEF IndexEntry
  <2>3. /\ f.id = e.id /\ f.author = e.author /\ f.relation = e.relation /\ f.target = e.target
        /\ f.callers = e.callers \cup {caller}
    BY <2>1, <2>2 DEF IndexEntry
  <2>4. PICK es \in Seq(IndexEntry) : es = [l.entries EXCEPT ![p] = f]
    BY <1>1, <1>2, ExceptSeq
  <2>5. Len(es) = Len(l.entries) /\ es[p] = f /\ \A i \in 1 .. Len(l.entries) : i # p => es[i] = l.entries[i]
    BY <1>1, <1>2, <2>4
  <2>6. m = [l EXCEPT !.entries = es]
    BY <1>2, <1>4, <2>1, <2>2, <2>4 DEF AddCaller
  <2>7. /\ m \in Index /\ m.entries = es
        /\ m.start = l.start /\ m.end = l.end /\ m.continues = l.continues /\ m.pending = l.pending
    BY <2>6 DEF Index
  <2>8. \A i \in 1 .. Len(l.entries) :
               /\ m.entries[i].id = l.entries[i].id /\ m.entries[i].author = l.entries[i].author
               /\ m.entries[i].relation = l.entries[i].relation
               /\ m.entries[i].target = l.entries[i].target
               /\ l.entries[i].callers \subseteq m.entries[i].callers
    BY <2>1, <2>3, <2>5, <2>7
  <2> QED
    BY <1>2, <2>1, <2>3, <2>5, <2>7, <2>8
<1> QED
  BY <1>3, <1>4

\* An index that says the same of more callers, or of more entries, covers it.
LEMMA CoversByPosition ==
  ASSUME NEW s \in Sessions, NEW l \in Index, index[s] = l, NEW m \in Index, Len(l.entries) <= Len(m.entries),
         \A i \in 1 .. Len(l.entries) :
             /\ m.entries[i].id = l.entries[i].id /\ m.entries[i].author = l.entries[i].author
             /\ l.entries[i].callers \subseteq m.entries[i].callers
  PROVE  Covers(s, m)
<1>1. l.entries \in Seq(IndexEntry) /\ m.entries \in Seq(IndexEntry)
  BY DEF Index
<1> SUFFICES ASSUME NEW e \in Range(l.entries)
             PROVE  \E f \in Range(m.entries) :
                        f.id = e.id /\ f.author = e.author /\ e.callers \subseteq f.callers
  BY DEF Covers
<1>2. PICK i \in 1 .. Len(l.entries) : e = l.entries[i]
  BY <1>1 DEF Range
<1>3. i \in DOMAIN m.entries
  BY <1>1, <1>2
<1>4. m.entries[i] \in Range(m.entries)
  BY <1>3 DEF Range
<1> QED
  BY <1>2, <1>4

LEMMA AbsorbedKeeps ==
  ASSUME IInv, NEW c \in Calls, Absorbed(c)
  PROVE  IInv'
<1>1. PICK k \in CallState : k = call[c]
  BY CallFacts
<1> DEFINE s == k.session
           l == k.index
<1>2. /\ k.pc = "write" /\ Holding(k) /\ CopyOK(k) /\ DoneOK(k) /\ s \in Sessions
      /\ k.op = "record" /\ k.req \in Requests /\ l \in Index /\ index[s] = l /\ l.start # 0
  <2>1. k.pc = "write" /\ Holding(k) /\ k.op = "record"
    BY <1>1 DEF Absorbed, Step, Holding, Held
  <2>2. CopyOK(k) /\ DoneOK(k) /\ s \in Sessions
    BY <1>1, <2>1, CallFacts
  <2> QED
    BY <2>1, <2>2 DEF CopyOK, DoneOK, CallState
<1>3. PICK id \in 1 .. Len(obs) : /\ AddObservation(c, id) /\ HasEntry(l, id)
                                 /\ Save(c, AddCaller(l, id, k.req.caller)) /\ Acknowledge(c, id)
  BY <1>1 DEF Absorbed
<1>4. Finish(c) /\ UNCHANGED <<links, created, begun>>
  BY DEF Absorbed
<1>5. obs' = obs /\ id \in Nat /\ obs[id].author = k.req.author
  <2>1. obs \in Seq(Observation)
    BY DEF IInv, TypeOK
  <2>2. id # Len(obs) + 1
    BY <1>3, <2>1
  <2> QED
    BY <1>1, <1>2, <1>3, <2>1, <2>2, EntryType DEF AddObservation
<1>6. k.req.caller \in Callers \cup {NoCaller} /\ k.req.author \in Authors
  BY <1>2, MemoryAssumption DEF Authors
<1>7. PICK m : m = AddCaller(l, id, k.req.caller)
  OBVIOUS
<1>8. /\ m \in Index
      /\ m.start = l.start /\ m.end = l.end /\ m.continues = l.continues /\ m.pending = l.pending
      /\ Len(m.entries) = Len(l.entries)
      /\ \A i \in 1 .. Len(l.entries) :
            /\ m.entries[i].id = l.entries[i].id /\ m.entries[i].author = l.entries[i].author
            /\ m.entries[i].relation = l.entries[i].relation
            /\ m.entries[i].target = l.entries[i].target
            /\ l.entries[i].callers \subseteq m.entries[i].callers
      /\ \E i \in 1 .. Len(l.entries) :
            m.entries[i].id = id /\ k.req.caller \in m.entries[i].callers \cup {NoCaller}
  <2> DEFINE caller == k.req.caller
  <2>1. /\ l \in Index /\ HasEntry(l, id) /\ caller \in Callers \cup {NoCaller}
        /\ m = AddCaller(l, id, caller) /\ caller = k.req.caller
    BY <1>2, <1>3, <1>6, <1>7
  <2> HIDE DEF l, caller
  <2> QED
    BY <2>1, AddCallerFacts
<1>9. IndexOK(s, l)
  BY <1>2, ValuesAssumption DEF IInv, IndexInv
<1>10. IndexOK(s, m)'
  <2>1. ASSUME NEW i \in 1 .. Len(m.entries) PROVE EntryOK(m, m.entries[i])'
    <3>1. EntryOK(l, l.entries[i])
      BY <1>8, <1>9, <2>1 DEF IndexOK
    <3> QED
      BY <1>4, <1>5, <1>8, <2>1, <3>1 DEF EntryOK
  <2>2. m.start # 0 => Stored(m.start, Anchor(s, "start"))'
    BY <1>5, <1>8, <1>9 DEF IndexOK, Stored, Anchor
  <2>3. m.end # 0 => Stored(m.end, Anchor(s, "end"))'
    BY <1>5, <1>8, <1>9 DEF IndexOK, Stored, Anchor
  <2> QED
    BY <1>2, <1>4, <1>5, <1>8, <1>9, <2>1, <2>2, <2>3 DEF IndexOK, Anchor
<1>11. Saves(s, m)
  <2>1. index' = [index EXCEPT ![s] = m]
    BY <1>1, <1>3, <1>7 DEF Save
  <2>2. l.pending # NoSession => Settled(l.pending)
    BY <1>2, ValuesAssumption DEF IInv, PendingInv
  <2> QED
    BY <1>2, <1>8, <2>1, <2>2 DEF Saves
<1>12. Covers(s, m)
  <2>1. Len(l.entries) \in Nat
    BY <1>2 DEF Index
  <2>2. /\ Len(l.entries) <= Len(m.entries)
        /\ \A i \in 1 .. Len(l.entries) :
              /\ m.entries[i].id = l.entries[i].id /\ m.entries[i].author = l.entries[i].author
              /\ l.entries[i].callers \subseteq m.entries[i].callers
    BY <1>8, <2>1
  <2>3. m \in Index /\ l \in Index /\ index[s] = l /\ s \in Sessions
    BY <1>2, <1>8
  <2> HIDE DEF l
  <2> QED
    BY <2>2, <2>3, CoversByPosition
<1>a. PICK a : a = [session |-> s, id |-> id, author |-> k.req.author, caller |-> k.req.caller]
  OBVIOUS
<1>13. acked' = acked \cup {a}
  BY <1>1, <1>3, <1>a DEF Acknowledge
<1>14. a.session = s /\ Attributed(m, a)
  <2>1. PICK i \in 1 .. Len(l.entries) :
            m.entries[i].id = id /\ k.req.caller \in m.entries[i].callers \cup {NoCaller}
    BY <1>8
  <2>2. m.entries[i] \in Range(m.entries)
    BY <1>8 DEF Index, Range
  <2>3. m.entries[i].author = k.req.author
    BY <1>5, <1>8, <1>9, <2>1 DEF IndexOK, EntryOK
  <2> QED
    BY <1>a, <2>1, <2>2, <2>3 DEF Attributed
<1>15. acked' \subseteq [session : Sessions, id : Nat, author : Authors, caller : Callers \cup {NoCaller}]
  BY <1>2, <1>5, <1>6, <1>a, <1>13 DEF IInv, TypeOK
<1>16. Grows /\ obs' \in Seq(Observation)
  BY <1>4, <1>5, LinkGrows DEF IInv, TypeOK
<1> QED
  BY <1>1, <1>2, <1>4, <1>8, <1>10, <1>11, <1>12, <1>13, <1>14, <1>15, <1>16, LastSaveKeeps

LEMMA SaveEntryKeeps ==
  ASSUME IInv, NEW c \in Calls, SaveEntry(c)
  PROVE  IInv'
<1>1. PICK k \in CallState : k = call[c]
  BY CallFacts
<1> DEFINE s == k.session
           l == k.index
<1>2. /\ k.pc = "saveEntry" /\ Holding(k) /\ CopyOK(k) /\ DoneOK(k) /\ s \in Sessions
      /\ k.req \in Requests /\ l \in Index /\ index[s] = l /\ l.start # 0 /\ l.pending = NoSession
  <2>1. k.pc = "saveEntry" /\ Holding(k)
    BY <1>1 DEF SaveEntry, Step, Holding, Held
  <2>2. CopyOK(k) /\ DoneOK(k) /\ s \in Sessions
    BY <1>1, <2>1, CallFacts
  <2> QED
    BY <2>1, <2>2 DEF CopyOK, DoneOK, CallState
<1>3. Finish(c) /\ UNCHANGED <<obs, links, created, begun>>
  BY DEF SaveEntry
<1>4. /\ k.req.caller \in Callers \cup {NoCaller} /\ k.req.author \in Authors
      /\ k.req.relation \in Relations \cup {"none"} /\ k.id \in Nat /\ k.target \in Nat
  BY <1>2, MemoryAssumption DEF Authors, CallState
<1>5. PICK e \in IndexEntry : e = NewEntry(c)
  BY <1>1, <1>4 DEF NewEntry, IndexEntry
<1>6. /\ e.id = k.id /\ e.author = k.req.author /\ e.relation = k.req.relation /\ e.target = k.target
      /\ e.callers = {k.req.caller} \ {NoCaller}
  BY <1>1, <1>5 DEF NewEntry
<1>7. PICK es \in Seq(IndexEntry) : es = Append(l.entries, e)
  <2>1. l.entries \in Seq(IndexEntry)
    BY <1>2 DEF Index
  <2>2. Append(l.entries, e) \in Seq(IndexEntry)
    BY <2>1, AppendProperties
  <2> QED
    BY <2>2
<1>8. PICK m \in Index : m = [l EXCEPT !.entries = es, !.end = 0]
  <2>1. [l EXCEPT !.entries = es, !.end = 0] \in Index
    BY <1>2, <1>7 DEF Index
  <2> QED
    BY <2>1
<1>9. /\ m.start = l.start /\ m.end = 0 /\ m.continues = l.continues /\ m.pending = NoSession
      /\ m.entries = es
  BY <1>2, <1>8 DEF Index
<1>10. /\ l.entries \in Seq(IndexEntry) /\ Len(es) = Len(l.entries) + 1 /\ es[Len(es)] = e
       /\ \A i \in 1 .. Len(l.entries) : es[i] = l.entries[i]
  BY <1>2, <1>7 DEF Index
<1>11. IndexOK(s, l)
  BY <1>2, ValuesAssumption DEF IInv, IndexInv
<1>12. IndexOK(s, m)'
  <2>1. ASSUME NEW i \in 1 .. Len(m.entries) PROVE EntryOK(m, m.entries[i])'
    <3>1. CASE i = Len(es)
      BY <1>2, <1>3, <1>6, <1>9, <1>10, <3>1 DEF EntryOK, DoneOK
    <3>2. CASE i # Len(es)
      <4>1. i \in 1 .. Len(l.entries)
        BY <1>9, <1>10, <2>1, <3>2
      <4>2. EntryOK(l, l.entries[i])
        BY <1>11, <4>1 DEF IndexOK
      <4> QED
        BY <1>3, <1>9, <1>10, <4>1, <4>2 DEF EntryOK
    <3> QED
      BY <3>1, <3>2
  <2>2. Stored(m.start, Anchor(s, "start"))'
    BY <1>2, <1>3, <1>9, <1>11 DEF IndexOK, Stored, Anchor
  <2> QED
    BY <1>2, <1>3, <1>9, <1>11, <2>1, <2>2 DEF IndexOK, Anchor
<1>13. Saves(s, m)
  <2>1. m = Reopened(c)
    BY <1>1, <1>5, <1>7, <1>8 DEF Reopened
  <2>2. index' = [index EXCEPT ![s] = m]
    BY <1>1, <2>1 DEF SaveEntry, Save
  <2> QED
    BY <1>2, <1>9, <2>2 DEF Saves
<1>14. Covers(s, m)
  <2>1. Len(l.entries) <= Len(m.entries)
    BY <1>9, <1>10
  <2>2. \A i \in 1 .. Len(l.entries) :
            /\ m.entries[i].id = l.entries[i].id /\ m.entries[i].author = l.entries[i].author
            /\ l.entries[i].callers \subseteq m.entries[i].callers
    BY <1>9, <1>10
  <2> QED
    BY <1>2, <2>1, <2>2, CoversByPosition
<1>a. PICK a : a = [session |-> s, id |-> k.id, author |-> k.req.author, caller |-> k.req.caller]
  OBVIOUS
<1>15. acked' = acked \cup {a}
  BY <1>1, <1>a DEF SaveEntry, Acknowledge
<1>16. a.session = s /\ Attributed(m, a)
  <2>1. e \in Range(m.entries)
    BY <1>9, <1>10 DEF Range
  <2> QED
    BY <1>6, <1>a, <2>1 DEF Attributed
<1>17. acked' \subseteq [session : Sessions, id : Nat, author : Authors, caller : Callers \cup {NoCaller}]
  BY <1>2, <1>4, <1>a, <1>15 DEF IInv, TypeOK
<1>18. Grows /\ obs' \in Seq(Observation)
  BY <1>3, LinkGrows DEF IInv, TypeOK
<1> QED
  BY <1>1, <1>2, <1>3, <1>12, <1>13, <1>14, <1>15, <1>16, <1>17, <1>18, LastSaveKeeps

LEMMA AnchorEndKeeps ==
  ASSUME IInv, NEW c \in Calls, AnchorEnd(c)
  PROVE  IInv'
<1>1. PICK k \in CallState : k = call[c]
  BY CallFacts
<1>2. /\ k.pc = "write" /\ Holding(k) /\ CopyOK(k) /\ DoneOK(k) /\ k.session \in Sessions
      /\ k.op \in Closes /\ k.index \in Index
  <2>1. k.pc = "write" /\ Holding(k) /\ k.op \in Closes
    BY <1>1 DEF AnchorEnd, Step, Holding, Held
  <2>2. CopyOK(k) /\ DoneOK(k) /\ k.session \in Sessions
    BY <1>1, <2>1, CallFacts
  <2> QED
    BY <2>1, <2>2 DEF CopyOK, CallState
<1>3. /\ obs' = Append(obs, Anchor(k.session, "end")) /\ links' = links /\ index' = index
      /\ Grows /\ obs' \in Seq(Observation)
      /\ Stored(Len(obs), Anchor(k.session, "end"))'
  <2>1. obs' = Append(obs, Anchor(k.session, "end")) /\ links' = links /\ index' = index
    BY <1>1 DEF AnchorEnd
  <2>2. obs' \in Seq(Observation)
    BY <1>2, <2>1, AnchorType DEF IInv, TypeOK
  <2>3. Grows /\ Len(obs') = Len(obs) + 1 /\ obs'[Len(obs')] = Anchor(k.session, "end")
    BY <2>1, AppendGrows DEF IInv
  <2>4. Len(obs') \in Nat \ {0}
    BY <2>3 DEF IInv, TypeOK
  <2> QED
    BY <2>1, <2>2, <2>3, <2>4 DEF Stored, Anchor
<1>n. PICK n \in Nat : n = Len(obs')
  BY <1>3
<1>4. PICK d \in CallState : d = [k EXCEPT !.pc = "linkEnd", !.id = n]
  BY HeldSteps DEF CallState
<1>5. /\ d.pc = "linkEnd" /\ d.op = k.op /\ d.session = k.session /\ d.req = k.req
      /\ d.index = k.index /\ d.id = n
  BY <1>4 DEF CallState
<1>6. MovesOn(c, d) /\ index' = index
  <2>1. call' = [call EXCEPT ![c] = d]
    BY <1>1, <1>4, <1>n DEF AnchorEnd, Goto
  <2> QED
    BY <1>1, <1>2, <1>3, <1>5, <2>1 DEF AnchorEnd, MovesOn, Holding, Held, IInv, TypeOK
<1>7. CopyOK(d)'
  BY <1>2, <1>3, <1>5 DEF CopyOK
<1>8. DoneOK(d)'
  <2>1. Stored(n, Anchor(k.session, "end"))'
    BY <1>3, <1>n DEF Stored, Anchor
  <2> QED
    BY <1>2, <1>5, <2>1 DEF DoneOK
<1> QED
  BY <1>6, <1>7, <1>8, WorksKeep

LEMMA LinkEndKeeps ==
  ASSUME IInv, NEW c \in Calls, LinkEnd(c)
  PROVE  IInv'
<1>1. PICK k \in CallState : k = call[c]
  BY CallFacts
<1>2. /\ k.pc = "linkEnd" /\ Holding(k) /\ CopyOK(k) /\ DoneOK(k) /\ k.session \in Sessions
      /\ k.index \in Index
  <2>1. k.pc = "linkEnd" /\ Holding(k)
    BY <1>1 DEF LinkEnd, Step, Holding, Held
  <2>2. CopyOK(k) /\ DoneOK(k) /\ k.session \in Sessions
    BY <1>1, <2>1, CallFacts
  <2> QED
    BY <2>1, <2>2 DEF CopyOK, CallState
<1>3. PICK d \in CallState : d = [k EXCEPT !.pc = "linkClosed", !.linked = 0]
  BY HeldSteps DEF CallState
<1>4. /\ d.pc = "linkClosed" /\ d.op = k.op /\ d.session = k.session /\ d.req = k.req
      /\ d.index = k.index /\ d.id = k.id /\ d.linked = 0
  BY <1>3 DEF CallState
<1>5. links' = links \cup {<<k.id, k.index.start, "session-end">>} /\ obs' = obs
  BY <1>1 DEF LinkEnd
<1>6. MovesOn(c, d) /\ index' = index
  <2>1. Grows
    BY <1>5, LinkGrows DEF IInv
  <2>2. call' = [call EXCEPT ![c] = d]
    BY <1>1, <1>3 DEF LinkEnd, Goto
  <2>3. links' \subseteq Nat \X Nat \X LinkKinds
    <3>1. k.id \in Nat /\ k.index.start \in Nat
      BY <1>2 DEF CallState, Index
    <3>2. "session-end" \in LinkKinds
      BY DEF LinkKinds
    <3> QED
      BY <3>1, <3>2, <1>5, LinkType DEF IInv
  <2> QED
    BY <1>1, <1>2, <1>4, <1>5, <2>1, <2>2, <2>3 DEF LinkEnd, MovesOn, Holding, Held, IInv, TypeOK
<1>7. CopyOK(d)'
  BY <1>2, <1>4, <1>6 DEF CopyOK
<1>8. DoneOK(d)'
  <2>1. Stored(k.id, Anchor(k.session, "end"))'
    BY <1>2, <1>5 DEF DoneOK, Stored, Anchor
  <2>2. 0 <= Len(k.index.entries)
    BY <1>2 DEF Index
  <2> QED
    BY <1>2, <1>4, <1>5, <2>1, <2>2 DEF DoneOK
<1> QED
  BY <1>6, <1>7, <1>8, WorksKeep

LEMMA LinkClosedKeeps ==
  ASSUME IInv, NEW c \in Calls, LinkClosed(c)
  PROVE  IInv'
<1>1. PICK k \in CallState : k = call[c]
  BY CallFacts
<1>2. /\ k.pc = "linkClosed" /\ Holding(k) /\ CopyOK(k) /\ DoneOK(k) /\ k.session \in Sessions
      /\ k.index \in Index /\ k.id \in Nat /\ k.linked \in Nat
  <2>1. k.pc = "linkClosed" /\ Holding(k)
    BY <1>1 DEF LinkClosed, Step, Holding, Held
  <2>2. CopyOK(k) /\ DoneOK(k) /\ k.session \in Sessions
    BY <1>1, <2>1, CallFacts
  <2> QED
    BY <2>1, <2>2 DEF CopyOK, CallState
<1>3. PICK next \in 1 .. Len(k.index.entries) : next = k.linked + 1
  BY <1>1, <1>2 DEF LinkClosed
<1>s. k.index.entries \in Seq(IndexEntry) /\ next \in Nat /\ k.index.entries[next] \in IndexEntry
  <2>1. k.index.entries \in Seq(IndexEntry)
    BY <1>2 DEF Index
  <2> QED
    BY <2>1
<1>4. PICK d \in CallState : d = [k EXCEPT !.linked = next]
  BY <1>s DEF CallState
<1>5. /\ d.pc = "linkClosed" /\ d.op = k.op /\ d.session = k.session /\ d.req = k.req
      /\ d.index = k.index /\ d.id = k.id /\ d.linked = next
  BY <1>2, <1>4 DEF CallState
<1>6. PICK x \in Nat : x = k.index.entries[next].id
  BY <1>s DEF IndexEntry
<1>7. links' = links \cup {<<x, k.id, "closed-in">>} /\ obs' = obs
  BY <1>1, <1>3, <1>6 DEF LinkClosed
<1>8. MovesOn(c, d) /\ index' = index
  <2>1. Grows
    BY <1>7, LinkGrows DEF IInv
  <2>2. call' = [call EXCEPT ![c] = d]
    BY <1>1, <1>3, <1>4 DEF LinkClosed, Goto
  <2>3. links' \subseteq Nat \X Nat \X LinkKinds
    BY <1>2, <1>7 DEF IInv, TypeOK, LinkKinds
  <2> QED
    BY <1>1, <1>2, <1>5, <1>7, <2>1, <2>2, <2>3 DEF LinkClosed, MovesOn, Holding, Held, IInv, TypeOK
<1>9. CopyOK(d)'
  BY <1>2, <1>5, <1>8 DEF CopyOK
<1>10. DoneOK(d)'
  <2>1. Stored(k.id, Anchor(k.session, "end"))'
    BY <1>2, <1>7 DEF DoneOK, Stored, Anchor
  <2>2. ASSUME NEW i \in 1 .. next PROVE <<k.index.entries[i].id, k.id, "closed-in">> \in links'
    BY <1>2, <1>3, <1>6, <1>7 DEF DoneOK
  <2> QED
    BY <1>2, <1>3, <1>5, <1>7, <2>1, <2>2 DEF DoneOK
<1> QED
  BY <1>8, <1>9, <1>10, WorksKeep

LEMMA SaveEndKeeps ==
  ASSUME IInv, NEW c \in Calls, SaveEnd(c)
  PROVE  IInv'
<1>1. PICK k \in CallState : k = call[c]
  BY CallFacts
<1> DEFINE s == k.session
           l == k.index
<1>2. /\ k.pc = "linkClosed" /\ Holding(k) /\ CopyOK(k) /\ DoneOK(k) /\ s \in Sessions
      /\ l \in Index /\ k.id \in Nat /\ index[s] = l /\ l.start # 0 /\ l.pending = NoSession
      /\ k.linked = Len(l.entries)
  <2>1. k.pc = "linkClosed" /\ Holding(k) /\ k.linked = Len(l.entries)
    BY <1>1 DEF SaveEnd, Step, Holding, Held
  <2>2. CopyOK(k) /\ DoneOK(k) /\ s \in Sessions
    BY <1>1, <2>1, CallFacts
  <2> QED
    BY <2>1, <2>2 DEF CopyOK, CallState
<1>3. Finish(c) /\ UNCHANGED <<obs, links, created, acked, begun>>
  BY DEF SaveEnd
<1>4. PICK m \in Index : m = [l EXCEPT !.end = k.id]
  BY <1>2 DEF Index
<1>5. /\ m.start = l.start /\ m.end = k.id /\ m.continues = l.continues /\ m.pending = NoSession
      /\ m.entries = l.entries
  BY <1>2, <1>4 DEF Index
<1>6. IndexOK(s, l)
  BY <1>2, ValuesAssumption DEF IInv, IndexInv
<1>7. IndexOK(s, m)'
  <2>1. ASSUME NEW i \in 1 .. Len(m.entries) PROVE EntryOK(m, m.entries[i])'
    <3>1. EntryOK(l, l.entries[i])
      BY <1>5, <1>6, <2>1 DEF IndexOK
    <3>2. <<l.entries[i].id, k.id, "closed-in">> \in links
      BY <1>2, <1>5, <2>1 DEF DoneOK
    <3> QED
      BY <1>3, <1>5, <3>1, <3>2 DEF EntryOK
  <2>2. Stored(m.start, Anchor(s, "start"))'
    BY <1>2, <1>3, <1>5, <1>6 DEF IndexOK, Stored, Anchor
  <2>3. Stored(m.end, Anchor(s, "end"))' /\ <<m.end, m.start, "session-end">> \in links'
    BY <1>2, <1>3, <1>5 DEF DoneOK, Stored, Anchor
  <2> QED
    BY <1>2, <1>3, <1>5, <1>6, <2>1, <2>2, <2>3 DEF IndexOK, Anchor
<1>8. Saves(s, m)
  <2>1. index' = [index EXCEPT ![s] = m]
    BY <1>1, <1>4 DEF SaveEnd, Save
  <2> QED
    BY <1>2, <1>5, <2>1 DEF Saves
<1>9. Covers(s, m)
  BY <1>2, <1>5 DEF Covers
<1>10. acked' \subseteq [session : Sessions, id : Nat, author : Authors, caller : Callers \cup {NoCaller}]
  BY <1>3 DEF IInv, TypeOK
<1>11. Grows /\ obs' \in Seq(Observation)
  BY <1>3, LinkGrows DEF IInv, TypeOK
<1> QED
  BY <1>1, <1>2, <1>3, <1>7, <1>8, <1>9, <1>10, <1>11, LastSaveKeeps

LEMMA DeclareKeeps ==
  ASSUME IInv, NEW c \in Calls, Declare(c)
  PROVE  IInv'
<1>1. PICK k \in CallState : k = call[c]
  BY CallFacts
<1> DEFINE s == k.session
<1>2. k.pc = "locked" /\ Holding(k) /\ k.op = "continue" /\ s \in Sessions
  BY <1>1, CallFacts DEF Declare, Step, Holding, Held
<1>3. Finish(c) /\ UNCHANGED <<obs, links, created, acked, begun>>
  BY DEF Declare
<1>4. PICK l \in Index : l = Loaded(s)
  BY <1>2, EmptyType DEF Loaded, IInv, TypeOK
<1>5. /\ l.start = 0 /\ l.end = 0 /\ l.entries = <<>> /\ l.continues = NoSession
      /\ index[s] # NoIndex => l = index[s]
  <2>1. l.start = 0 /\ l.continues = NoSession
    BY <1>1, <1>4 DEF Declare, Declarable
  <2>2. CASE index[s] = NoIndex
    BY <1>4, <2>2, <2>1 DEF Loaded, Empty
  <2>3. CASE index[s] # NoIndex
    BY <1>2, <1>4, <2>1, <2>3 DEF Loaded, IInv, IndexInv, IndexOK
  <2> QED
    BY <2>2, <2>3, <2>1
<1>6. PICK m \in Index : m = [l EXCEPT !.pending = k.previous]
  BY DEF Index, CallState
<1>7. /\ m.start = 0 /\ m.end = 0 /\ m.continues = NoSession /\ m.entries = <<>>
      /\ m.pending = k.previous
  BY <1>5, <1>6 DEF Index
<1>8. IndexOK(s, m)'
  BY <1>7 DEF IndexOK
<1>9. Saves(s, m)
  <2>1. index' = [index EXCEPT ![s] = m]
    BY <1>1, <1>4, <1>6 DEF Declare
  <2>2. k.previous # NoSession => Settled(k.previous)
    BY <1>1, <1>2 DEF IInv, PendingInv
  <2> QED
    BY <1>5, <1>7, <2>1, <2>2 DEF Saves
<1>10. Covers(s, m)
  BY <1>5, <1>7 DEF Covers
<1>11. acked' \subseteq [session : Sessions, id : Nat, author : Authors, caller : Callers \cup {NoCaller}]
  BY <1>3 DEF IInv, TypeOK
<1>12. Grows /\ obs' \in Seq(Observation)
  BY <1>3, LinkGrows DEF IInv, TypeOK
<1> QED
  BY <1>1, <1>2, <1>3, <1>8, <1>9, <1>10, <1>11, <1>12, LastSaveKeeps

-----------------------------------------------------------------------------
(* The steps that touch neither store *)

LEMMA QuietKeeps ==
  ASSUME IInv, NEW c \in Calls, NEW d \in CallState,
         call'[c] = d, \A x \in Calls \ {c} : call'[x] = call[x], call' \in [Calls -> CallState],
         UNCHANGED <<obs, links, index, acked>>,
         lock' \in [Sessions -> Calls \cup {NoCall}], created' \subseteq Sessions, begun' \in 0 .. MaxCalls,
         LockInv', Holding(d) => CopyOK(d)', DoneOK(d)',
         d.op = "continue" /\ d.pc \in {"lock", "locked"} /\ d.previous # NoSession => Settled(d.previous)
  PROVE  IInv'
<1>1. TypeOK'
  BY DEF IInv, TypeOK
<1>2. Grows
  BY LinkGrows DEF IInv
<1>3. CallsInv'
  BY <1>1, <1>2, CallsKeep DEF Others
<1>4. IndexInv'
  BY <1>1, <1>2, IndexesKeep
<1>5. \A t : Settled(t) => Settled(t)'
  BY DEF Settled
<1>6. \A t \in Sessions : index'[t] # NoIndex /\ index'[t].pending # NoSession
                              => Settled(index[t].pending)'
  BY DEF IInv, PendingInv, Settled
<1>7. PendingInv'
  BY <1>5, <1>6, PendingKeeps
<1>8. RecordedIsAttributed'
  BY DEF IInv, RecordedIsAttributed
<1> QED
  BY <1>1, <1>3, <1>4, <1>7, <1>8 DEF IInv

LEMMA BeginKeeps ==
  ASSUME IInv, NEW c \in Calls, NEW d \in CallState, Begin(c, d), ~Holding(d),
         d.op = "record" => d.req \in Requests, d.pc \in {"lock", "previous"}, d.session \in Sessions,
         d.op = "continue" /\ d.pc = "lock" => d.previous = NoSession
  PROVE  IInv'
<1>1. call'[c] = d /\ (\A x \in Calls \ {c} : call'[x] = call[x]) /\ call' \in [Calls -> CallState]
  BY DEF Begin, IInv, TypeOK
<1>2. UNCHANGED <<obs, links, index, created, lock, acked>> /\ begun' \in 0 .. MaxCalls
  BY MemoryAssumption DEF Begin, IInv, TypeOK
<1>3. ~Holding(call[c])
  BY DEF Begin, Idle, Holding, Held
<1>4. LockInv'
  BY <1>1, <1>2, <1>3, LocksStay DEF IInv
<1>5. DoneOK(d)'
  BY DEF DoneOK
<1>6. lock' \in [Sessions -> Calls \cup {NoCall}] /\ created' \subseteq Sessions
  BY <1>2 DEF IInv, TypeOK
<1> QED
  BY <1>1, <1>2, <1>4, <1>5, <1>6, QuietKeeps

LEMMA BeginRecordKeeps ==
  ASSUME IInv, NEW c \in Calls, NEW s \in Sessions, NEW r \in Requests, NEW target \in Nat,
         BeginRecord(c, s, r, target)
  PROVE  IInv'
<1>1. PICK d \in CallState : d = [Idle EXCEPT !.op = "record", !.pc = "lock", !.session = s,
                                            !.req = r, !.target = target]
  BY DEF Idle, CallState, Closes
<1>2. d.op = "record" /\ d.pc = "lock" /\ d.req = r /\ d.session = s
  BY <1>1 DEF Idle
<1>3. Begin(c, d)
  BY <1>1 DEF BeginRecord
<1> QED
  BY <1>2, <1>3, BeginKeeps DEF Holding, Held

LEMMA BeginContinueKeeps ==
  ASSUME IInv, NEW c \in Calls, NEW s \in Sessions, NEW previous \in Sessions \cup {NoSession},
         BeginContinue(c, s, previous)
  PROVE  IInv'
<1>p. PICK pc \in {"lock", "previous"} : pc = IF previous = NoSession THEN "lock" ELSE "previous"
  OBVIOUS
<1>1. PICK d \in CallState : d = [Idle EXCEPT !.op = "continue", !.session = s,
                                            !.previous = previous, !.pc = pc]
  BY DEF Idle, CallState, Closes
<1>2. d.op = "continue" /\ d.pc = pc /\ d.previous = previous /\ d.session = s
  BY <1>1 DEF Idle
<1>3. Begin(c, d)
  BY <1>1, <1>p DEF BeginContinue
<1> QED
  BY <1>p, <1>2, <1>3, BeginKeeps DEF Holding, Held

LEMMA BeginCloseKeeps ==
  ASSUME IInv, NEW c \in Calls, NEW s \in Sessions, NEW op \in Closes, BeginClose(c, s, op)
  PROVE  IInv'
<1>1. PICK d \in CallState : d = [Idle EXCEPT !.op = op, !.pc = "lock", !.session = s]
  BY DEF Idle, CallState, Closes
<1>2. d.op \in Closes /\ d.pc = "lock" /\ d.session = s
  BY <1>1 DEF Idle
<1>3. Begin(c, d)
  BY <1>1 DEF BeginClose
<1> QED
  BY <1>2, <1>3, BeginKeeps DEF Holding, Held, Closes

LEMMA LockSessionKeeps ==
  ASSUME IInv, NEW c \in Calls, LockSession(c)
  PROVE  IInv'
<1>1. PICK k \in CallState : k = call[c]
  BY CallFacts
<1> DEFINE s == k.session
<1>2. k.pc = "lock" /\ ~Holding(k) /\ DoneOK(k) /\ s \in Sessions
  BY <1>1, CallFacts DEF LockSession, Step, Holding, Held, DoneOK
<1>3. PICK l \in Index \cup {NoIndex} : l = index[s]
  BY <1>2 DEF IInv, TypeOK
<1>4. PICK d \in CallState : d = [k EXCEPT !.pc = "locked", !.index = l]
  <2>1. [k EXCEPT !.pc = "locked", !.index = l] \in CallState
    BY <1>3, HeldSteps DEF CallState
  <2> QED
    BY <2>1
<1>5. /\ d.pc = "locked" /\ d.op = k.op /\ d.session = s /\ d.req = k.req /\ d.index = l
      /\ d.previous = k.previous /\ Holding(d)
  BY <1>4 DEF CallState, Holding, Held
<1>6. /\ call' = [call EXCEPT ![c] = d] /\ lock' = [lock EXCEPT ![s] = c] /\ Free(s)
      /\ created' = created \cup {s} /\ UNCHANGED <<obs, links, index, acked, begun>>
  BY <1>1, <1>3, <1>4 DEF LockSession, Goto
<1>7. call'[c] = d /\ (\A x \in Calls \ {c} : call'[x] = call[x]) /\ call' \in [Calls -> CallState]
  BY <1>6 DEF IInv, TypeOK
<1>8. LockInv'
  BY <1>1, <1>2, <1>5, <1>6, <1>7, LocksTaken DEF IInv
<1>9. CopyOK(d)'
  BY <1>3, <1>5, <1>6 DEF CopyOK
<1>10. DoneOK(d)'
  BY <1>2, <1>5 DEF DoneOK
<1>11. d.op = "continue" /\ d.previous # NoSession => Settled(d.previous)
  BY <1>1, <1>2, <1>5 DEF IInv, PendingInv
<1>12. /\ lock' \in [Sessions -> Calls \cup {NoCall}] /\ created' \subseteq Sessions
       /\ begun' \in 0 .. MaxCalls
  BY <1>2, <1>6 DEF IInv, TypeOK
<1> QED
  BY <1>6, <1>7, <1>8, <1>9, <1>10, <1>11, <1>12, QuietKeeps

\* What closedPreviousEnd finds: the session was closed, and declares nothing.
LEMMA ClosedIsSettled ==
  ASSUME IInv, NEW s, ClosedPreviousEnd(s)
  PROVE  Settled(s)
<1>1. s \in Sessions /\ index[s] # NoIndex /\ index[s].end # 0
  BY DEF ClosedPreviousEnd, Closed, IInv, TypeOK
<1>2. IndexOK(s, index[s])
  BY <1>1 DEF IInv, IndexInv
<1> QED
  BY <1>1, <1>2 DEF IndexOK, Settled

LEMMA CheckPreviousKeeps ==
  ASSUME IInv, NEW c \in Calls, CheckPrevious(c)
  PROVE  IInv'
<1>1. PICK k \in CallState : k = call[c]
  BY CallFacts
<1>2. k.pc = "previous" /\ ~Holding(k) /\ DoneOK(k) /\ k.session \in Sessions
  BY <1>1, CallFacts DEF CheckPrevious, Step, Holding, Held, DoneOK
<1>3. PICK d \in CallState : d = [k EXCEPT !.pc = "lock"]
  BY DEF CallState
<1>4. /\ d.pc = "lock" /\ d.op = k.op /\ d.session = k.session /\ d.req = k.req
      /\ d.previous = k.previous /\ ~Holding(d)
  BY <1>3 DEF CallState, Holding, Held
<1>5. /\ call' = [call EXCEPT ![c] = d]
      /\ UNCHANGED <<obs, links, index, created, lock, acked, begun>>
  BY <1>1, <1>3 DEF CheckPrevious, Goto
<1>6. call'[c] = d /\ (\A x \in Calls \ {c} : call'[x] = call[x]) /\ call' \in [Calls -> CallState]
  BY <1>5 DEF IInv, TypeOK
<1>7. LockInv'
  BY <1>1, <1>2, <1>4, <1>5, <1>6, LocksStay DEF IInv
<1>8. DoneOK(d)'
  BY <1>2, <1>4 DEF DoneOK
<1>9. Settled(d.previous)
  BY <1>1, <1>4, ClosedIsSettled DEF CheckPrevious
<1>10. /\ lock' \in [Sessions -> Calls \cup {NoCall}] /\ created' \subseteq Sessions
       /\ begun' \in 0 .. MaxCalls
  BY <1>5 DEF IInv, TypeOK
<1> QED
  BY <1>4, <1>5, <1>6, <1>7, <1>8, <1>9, <1>10, QuietKeeps

LEMMA AbandonKeeps ==
  ASSUME IInv, NEW c \in Calls, Abandon(c)
  PROVE  IInv'
<1>1. Finish(c) /\ UNCHANGED <<obs, links, index, created, acked, begun>>
  BY DEF Abandon
<1>2. /\ call'[c] = Idle /\ \A x \in Calls \ {c} : call'[x] = call[x]
      /\ LockInv'
      /\ lock' \in [Sessions -> Calls \cup {NoCall}] /\ call' \in [Calls -> CallState]
      /\ Idle \in CallState /\ ~Holding(Idle) /\ Idle.op = "none"
      /\ TypeOK' => DoneOK(Idle)'
  BY <1>1, FinishFrame
<1>3. created' \subseteq Sessions /\ begun' \in 0 .. MaxCalls
  BY <1>1 DEF IInv, TypeOK
<1>4. TypeOK'
  BY <1>1, <1>2 DEF IInv, TypeOK
<1> QED
  BY <1>1, <1>2, <1>3, <1>4, QuietKeeps

-----------------------------------------------------------------------------
(* The invariant, and what follows from it *)

LEMMA InitEstablishes == Init => IInv
<1> SUFFICES ASSUME Init PROVE IInv
  OBVIOUS
<1>1. \A c \in Calls : call[c] = Idle
  BY DEF Init
<1>2. Idle \in CallState /\ ~Holding(Idle) /\ Idle.op = "none" /\ Idle.pc = "idle"
  BY DEF Idle, CallState, Holding, Held, Closes
<1>3. TypeOK
  BY <1>2, MemoryAssumption DEF Init, TypeOK
<1>4. LockInv
  BY <1>1, <1>2 DEF Init, LockInv
<1>5. IndexInv /\ PendingInv /\ RecordedIsAttributed
  BY <1>1, <1>2 DEF Init, IndexInv, PendingInv, RecordedIsAttributed
<1>6. CallsInv
  BY <1>1, <1>2 DEF CallsInv, DoneOK
<1> QED
  BY <1>3, <1>4, <1>5, <1>6 DEF IInv

LEMMA OpenKeeps ==
  ASSUME IInv, NEW c \in Calls, Open(c)
  PROVE  IInv'
<1>1. ASSUME NEW s \in Sessions, NEW r \in Requests,
             NEW target \in IF r.relation = "none" THEN {0} ELSE 1 .. Len(obs), BeginRecord(c, s, r, target)
      PROVE  IInv'
  <2>1. target \in Nat
    BY <1>1
  <2> QED
    BY <1>1, <2>1, BeginRecordKeeps
<1>2. ASSUME NEW s \in Sessions, NEW previous \in Sessions \cup {NoSession}, BeginContinue(c, s, previous)
      PROVE  IInv'
  BY <1>2, BeginContinueKeeps
<1>3. ASSUME NEW s \in Sessions, NEW op \in Closes, BeginClose(c, s, op)
      PROVE  IInv'
  BY <1>3, BeginCloseKeeps
<1> QED
  BY <1>1, <1>2, <1>3 DEF Open

LEMMA ProgressKeeps ==
  ASSUME IInv, NEW c \in Calls, Progress(c)
  PROVE  IInv'
  BY LockSessionKeeps, CheckPreviousKeeps, DeclareKeeps, PrepareRecordKeeps, PrepareCloseKeeps,
     AnchorStartKeeps, SaveStartKeeps, ReadPreviousKeeps, LinkPreviousKeeps, FixContinuityKeeps,
     WriteKeeps, AbsorbedKeeps, LinkKeeps, RelateKeeps, SaveEntryKeeps,
     AnchorEndKeeps, LinkEndKeeps, LinkClosedKeeps, SaveEndKeeps
  DEF Progress

LEMMA StepKeeps == IInv /\ [Next]_vars => IInv'
<1> SUFFICES ASSUME IInv, [Next]_vars PROVE IInv'
  OBVIOUS
<1>1. CASE UNCHANGED vars
  <2>1. UNCHANGED <<obs, links, index, created, lock, call, acked, begun>>
    BY <1>1 DEF vars
  <2>2. TypeOK' /\ Grows
    BY <2>1, LinkGrows DEF IInv, TypeOK
  <2>3. IndexInv'
    BY <2>1, <2>2, IndexesKeep
  <2>4. LockInv' /\ RecordedIsAttributed'
    BY <2>1 DEF IInv, LockInv, Holding, RecordedIsAttributed
  <2>5. PendingInv'
    BY <2>1 DEF IInv, PendingInv, Settled
  <2>6. ASSUME NEW c \in Calls PROVE (Holding(call[c]) => CopyOK(call[c]))' /\ DoneOK(call[c])'
    <3>1. PICK k \in CallState : k = call[c]
      BY CallFacts
    <3>2. DoneOK(k)' /\ (Holding(k) => CopyOK(k)')
      BY <2>1, <2>2, <3>1, CallFacts, DoneGrows, CopyStays DEF IInv
    <3> QED
      BY <2>1, <3>1, <3>2 DEF Holding
  <2> QED
    BY <2>2, <2>3, <2>4, <2>5, <2>6 DEF IInv, CallsInv
<1>2. CASE Next
  BY <1>2, OpenKeeps, ProgressKeeps, AbandonKeeps DEF Next
<1> QED
  BY <1>1, <1>2

\* The invariant of the session index: every call works on a copy of the index
\* no other call can change, and has linked what it is about to save
\* (Record, Continue, Close under lockSession).
THEOREM Invariance == Spec => []IInv
  BY InitEstablishes, StepKeeps, PTL DEF Spec

\* What an index says is in Engram as edges, whatever call stopped where
\* (recordLinks, linkClosed, fixContinuity save after they link).
THEOREM IndexesAreLinked == Spec => []IndexIsLinked
<1>1. ASSUME IInv PROVE IndexIsLinked
  <2> SUFFICES ASSUME NEW s \in Sessions, index[s] # NoIndex
               PROVE  LET l == index[s]
                      IN /\ l.start = 0 => l.end = 0 /\ l.entries = <<>> /\ l.continues = NoSession
                         /\ l.start # 0 => obs[l.start] = Anchor(s, "start")
                         /\ l.end # 0   => <<l.end, l.start, "session-end">> \in links
                         /\ \A e \in Range(l.entries) :
                               /\ <<e.id, l.start, "in-session">> \in links
                               /\ e.relation # "none" => <<e.id, e.target, e.relation>> \in links
                               /\ l.end # 0 => <<e.id, l.end, "closed-in">> \in links
                         /\ l.continues # NoSession =>
                               \E id \in 1 .. Len(obs) : /\ obs[id] = Anchor(l.continues, "end")
                                                         /\ <<l.start, id, "continues">> \in links
    BY DEF IndexIsLinked
  <2> DEFINE l == index[s]
  <2>1. l \in Index /\ IndexOK(s, l)
    BY <1>1 DEF IInv, TypeOK, IndexInv
  <2>2. ASSUME NEW e \in Range(l.entries) PROVE EntryOK(l, e)
    <3>1. PICK i \in 1 .. Len(l.entries) : e = l.entries[i]
      BY <2>1 DEF Range, Index
    <3> QED
      BY <2>1, <3>1 DEF IndexOK
  <2> QED
    BY <2>1, <2>2 DEF IndexOK, EntryOK, Stored
<1> QED
  BY <1>1, Invariance, PTL

\* A memory reported to its caller as recorded stays attributed to its author
\* and that caller, across closes, reopenings and calls cut short, because a
\* save only ever extends the index it loaded under the lock.
THEOREM RecordsAreAttributed == Spec => []RecordedIsAttributed
<1>1. IInv => RecordedIsAttributed
  BY DEF IInv
<1> QED
  BY <1>1, Invariance, PTL

\* Waiting for a previous session's lock under one's own never closes a cycle
\* (closedPreviousEnd): who is waited for was closed once, declares nothing any
\* more, and so waits for nobody.
THEOREM WaitsAreAcyclic == Spec => []NoWaitCycle
<1>1. ASSUME IInv, NEW s \in Sessions, NEW t, WaitsFor(s, t), NEW u, WaitsFor(t, u)
      PROVE  FALSE
  <2>1. PICK c \in Calls : lock[s] = c /\ call[c].pc = "continuity" /\ call[c].index.pending = t
    BY <1>1 DEF WaitsFor, Step
  <2>2. call[c].session = s /\ CopyOK(call[c])
    BY <1>1, <2>1, ValuesAssumption, CallFacts DEF IInv, LockInv, Holding, Held
  <2>3. index[s] = call[c].index /\ index[s] # NoIndex /\ t # NoSession
    BY <2>1, <2>2 DEF CopyOK
  <2>4. Settled(t)
    BY <1>1, <2>1, <2>3 DEF IInv, PendingInv
  <2>5. PICK d \in Calls : lock[t] = d /\ call[d].pc = "continuity"
    BY <1>1 DEF WaitsFor, Step
  <2>6. call[d].session = t /\ CopyOK(call[d])
    BY <1>1, <2>4, <2>5, ValuesAssumption, CallFacts DEF IInv, LockInv, Holding, Held, Settled
  <2>7. index[t].pending # NoSession
    BY <2>5, <2>6 DEF CopyOK
  <2> QED
    BY <2>4, <2>7 DEF Settled
<1>2. ASSUME IInv PROVE NoWaitCycle
  <2> SUFFICES ASSUME NEW S \in (SUBSET Sessions) \ {{}}
               PROVE  \E s \in S : \A t \in S : ~WaitsFor(s, t)
    BY DEF NoWaitCycle
  <2>1. PICK s \in Sessions : s \in S
    <3>1. S # {} /\ S \subseteq Sessions
      OBVIOUS
    <3> QED
      BY <3>1
  <2>2. CASE \A t \in S : ~WaitsFor(s, t)
    BY <2>1, <2>2
  <2>3. ASSUME NEW t \in S, WaitsFor(s, t) PROVE \A u \in S : ~WaitsFor(t, u)
    BY <1>1, <1>2, <2>1, <2>3
  <2> QED
    BY <2>2, <2>3
<1> QED
  BY <1>2, Invariance, PTL
=============================================================================
