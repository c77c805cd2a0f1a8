---------------------------- MODULE MCGCFindings ----------------------------
(* The functions of GCFindings against what they should compute, over bounded *)
(* inputs.  TLC evaluates the assumptions of this module with every run that   *)
(* extends it.                                                                *)
EXTENDS Naturals, Sequences, FiniteSets, SequencesExt

LOCAL F == INSTANCE GCFindings WITH MaxFindings <- 2, MaxFiles <- 1, MinWork <- 2

-----------------------------------------------------------------------------
(* Journals of one path *)

Operations == {"create", "patch", "delete", "rollback", "flush", "refused"}

\* The workspace and one author's staged work, under the operations the overlay admits.
World(start) ==
    [disk |-> start, staged |-> FALSE, view |-> start, legal |-> TRUE,
     touched |-> FALSE, flushed |-> FALSE, recreated |-> FALSE, void |-> FALSE, log |-> <<>>]

Legal(w, op) ==
    CASE op = "create"             -> ~w.view
      [] op \in {"patch", "delete"} -> w.view
      [] op \in {"rollback", "flush"} -> w.staged
      [] OTHER -> TRUE

Entry(w, op) ==
    [op |-> IF op = "refused" THEN "patch" ELSE op, refused |-> op = "refused",
     cycle |-> FALSE, mine |-> TRUE,
     before |-> IF op = "flush" THEN w.disk ELSE w.view,
     after  |-> IF op \in {"create", "patch"} THEN TRUE ELSE op = "flush" /\ w.view]

Perform(w, op) ==
    LET logged == [w EXCEPT !.legal = @ /\ Legal(w, op), !.log = Append(@, Entry(w, op))]
    IN  CASE op = "create"   -> [logged EXCEPT !.staged = TRUE, !.view = TRUE,
                                  !.recreated = @ \/ w.touched \/ w.disk]
          [] op = "patch"    -> [logged EXCEPT !.staged = TRUE]
          [] op = "delete"   -> [logged EXCEPT !.staged = TRUE, !.view = FALSE, !.touched = TRUE]
          [] op = "rollback" -> [logged EXCEPT !.staged = FALSE, !.view = w.disk]
          [] op = "flush"    -> [logged EXCEPT !.staged = FALSE, !.disk = w.view, !.flushed = TRUE,
                                  !.void = @ \/ (~w.disk /\ ~w.view)]
          [] OTHER -> logged

Journals(start) ==
    {w \in {FoldLeft(Perform, World(start), ops) : ops \in UNION {[1..n -> Operations] : n \in 0..5}} :
        w.legal}

\* What the session did to the path: nothing, unless its work is staged or was flushed
\* and the path exists before or after.
NetChange(start, w) ==
    IF (w.staged \/ w.flushed) /\ (start \/ w.view) THEN F!Change(~start, ~w.view) ELSE F!Untouched

\* The delta read back from the journal (plan.go SessionDelta) is the net change of the
\* path, whatever was staged, rolled back, refused or flushed on the way, as long as the
\* path was not created again after a deletion and no flush carried one that was created
\* and deleted since the last.
ASSUME DeltaIsNetChange ==
    \A start \in BOOLEAN : \A w \in Journals(start) :
        w.recreated \/ w.void \/ F!SessionDelta(w.log) = NetChange(start, w)

\* Created again it counts as introduced for good: a file older than the session that is
\* deleted, created and deleted leaves the delta although it is gone.
ASSUME RecreatedIsTakenForNew ==
    \E w \in Journals(TRUE) :
        /\ F!SessionDelta(w.log) = F!Untouched
        /\ NetChange(TRUE, w) = F!Change(FALSE, TRUE)

\* Flushed, a path created and deleted in one delta is recorded as a deletion.
ASSUME VoidFlushIsADeletion ==
    \E w \in Journals(FALSE) :
        ~w.recreated /\ ~w.view /\ F!SessionDelta(w.log) = F!Change(FALSE, TRUE)

\* Entries of a cycle, of another session and refused ones change nothing, wherever they
\* stand in the journal.
ASSUME OnlyTheSessionCounts ==
    \A w \in Journals(FALSE) : \A i \in 1..Len(w.log) + 1 :
        \A other \in {[Entry(w, "patch") EXCEPT !.cycle = TRUE], [Entry(w, "patch") EXCEPT !.mine = FALSE]} :
            F!SessionDelta(InsertAt(w.log, i, other)) = F!SessionDelta(w.log)

-----------------------------------------------------------------------------
(* The closure *)

Paths == {1, 2, 3}
Reaches == [Paths -> {[ok |-> FALSE, paths |-> {}]} \cup {[ok |-> TRUE, paths |-> s] : s \in SUBSET Paths}]

\* A closure always covers the delta, and a partial one is never taken for a complete
\* one (plan.go dependents): it is the delta alone unless every path was resolved.
ASSUME ClosureIsWholeOrDelta ==
    \A d \in SUBSET Paths : \A reach \in Reaches :
        LET delta == [p \in d |-> F!Change(FALSE, FALSE)]
            c     == F!Closure(delta, reach)
        IN  /\ d \subseteq c
            /\ c = d \/ \A p \in d : reach[p].ok /\ reach[p].paths \subseteq c

-----------------------------------------------------------------------------
(* Findings *)

Symbols == [name : {"f", "g"}, from : {1}, to : {2}, exported : BOOLEAN]
              \cup [name : {"h"}, from : {1, 2, 3}, to : {2, 3}, exported : {FALSE}]
Sources == UNION {[1..n -> Symbols] : n \in 0..2}

Flat(symbols) == \A i, j \in DOMAIN symbols :
                    i = j \/ symbols[i].to < symbols[j].from \/ symbols[j].to < symbols[i].from

Finding(line, mandate) ==
    [id |-> line, line |-> line, path |-> 1, mandate |-> mandate, status |-> "dead", sourced |-> TRUE,
     exported |-> FALSE, introduced |-> FALSE, proposal |-> FALSE]

\* The session introduced a declaration that encloses the line.
Inside(f, symbols, prior) ==
    \E s \in ToSet(symbols) : F!Encloses(s, f) /\ ~\E old \in prior : old.name = s.name

Removable(f, symbols, prior) ==
    F!EligibleFinding(F!Judged(F!ProtectFinding(f, symbols, prior)), {})

\* No code the session introduced is removable as dead (snapshot.go protectFinding,
\* PR-MNT-26), whatever the edits did to the lines, in a source without nested symbols.
ASSUME IntroducedIsPending ==
    \A symbols \in Sources : \A prior \in SUBSET ToSet(symbols) : \A line \in 1..3 :
        LET f == Finding(line, "dead-code")
        IN  Flat(symbols) /\ Inside(f, symbols, prior) => ~Removable(f, symbols, prior)

\* With nested symbols (a class and its methods, listed outermost first) the outer one
\* decides: a method added to an older class is removable.
ASSUME NestedIsJudgedByTheOuter ==
    \E symbols \in Sources : \E prior \in SUBSET ToSet(symbols) : \E line \in 1..3 :
        LET f == Finding(line, "dead-code")
        IN  Inside(f, symbols, prior) /\ Removable(f, symbols, prior)

Lines == [text : {1, 2}, silences : {TRUE}] \cup [text : {3}, silences : {FALSE}]
Texts == UNION {[1..n -> Lines] : n \in 0..3}
Occurrences(l, text) == Cardinality({i \in DOMAIN text : text[i] = l})

\* Exactly the surplus of each silencing line is reported (snapshot.go IntegrityFindings):
\* moving an old suppression is not a finding, repeating one is.
ASSUME SurplusIsReported ==
    \A before, after \in Texts : \A l \in Lines :
        LET found == F!Overrides(before, after)
            more  == Occurrences(l, after) - Occurrences(l, before)
        IN  Cardinality({i \in found : after[i] = l}) = IF l.silences /\ more > 0 THEN more ELSE 0

-----------------------------------------------------------------------------
(* Investigation and authorization *)

Report  == <<[Finding(1, "dead-code") EXCEPT !.id = 1], [Finding(2, "dead-code") EXCEPT !.id = 2],
             [Finding(3, "complexity") EXCEPT !.id = 3, !.path = 2]>>
Records == [finding : 1..4, outcome : {"confirmed", "refuted"}, evidence : {"", "seen"}]
Investigated == {FoldLeft(LAMBDA rs, r : F!Investigate(Report, rs, r), <<>>, calls) :
                    calls \in UNION {[1..n -> Records] : n \in 0..3}}

\* However the calls of gc_investigate come, a finding has one outcome, so none that was
\* refuted is ever authorized; and the scope stays within the policy.
ASSUME ScopeIsConfirmed ==
    \A rs \in Investigated :
        /\ \A i, j \in DOMAIN rs : rs[i].finding = rs[j].finding => i = j
        /\ \A demoted \in SUBSET {"dead-code", "complexity"} :
            LET scope == F!AuthorizedScope(Report, rs, demoted)
            IN  /\ Cardinality(scope) <= 1
                /\ \A p \in scope : \E f \in ToSet(Report) :
                    /\ f.path = p /\ f.mandate \notin demoted
                    /\ \E r \in ToSet(rs) : r.finding = f.id /\ r.outcome = "confirmed"
                    /\ ~\E r \in ToSet(rs) : r.finding = f.id /\ r.outcome = "refuted"

\* A refutation takes its finding from what is actionable and no later one replaces it.
ASSUME RefutedIsNotActionable ==
    \A a, b \in Records :
        LET refs == F!Refute(Report, F!Refute(Report, <<>>, a), b)
        IN  /\ \A f \in ToSet(F!Actionable(Report, refs)) : ~\E r \in ToSet(refs) : r.finding = f.id
            /\ F!Accepted(Report, a) => Head(refs) = a

-----------------------------------------------------------------------------
(* The reversion rate *)

Events == [op : {"flush", "reedit"}, cycle : {1, 2}, path : {1, 2}, mandate : {"dead-code"}]
            \cup [op : {"flush"}, cycle : {1}, path : {2}, mandate : {"complexity"}]
History == UNION {[1..n -> Events] : n \in 0..4}

\* Order and repetition do not move the decision, work of another class or never
\* registered does not count, and nothing is demoted on too little work
\* (investigation.go EvaluateMandateReversionRate).
ASSUME RateIsOfRegisteredWork ==
    \A log \in History :
        LET dead == SelectSeq(log, LAMBDA e : e.mandate = "dead-code")
            back == {e \in ToSet(dead) : e.op = "reedit"}
        IN  /\ F!Demoted(log, "dead-code") = F!Demoted(Reverse(log) \o log, "dead-code")
            /\ F!Demoted(log, "dead-code") = F!Demoted(dead, "dead-code")
            /\ F!Demoted(log, "dead-code") =>
                \E e \in back : \E w \in ToSet(dead) :
                    w.op = "flush" /\ w.cycle = e.cycle /\ w.path = e.path
            /\ F!Demoted(log, "dead-code") =>
                \E v, w \in ToSet(dead) : v.op = "flush" /\ w.op = "flush"
                                           /\ <<v.cycle, v.path>> # <<w.cycle, w.path>>
            /\ ~F!Demoted(log, "complexity")
=============================================================================
