----------------------------- MODULE GCFindings -----------------------------
(***************************************************************************)
(* What a maintenance cycle may touch (package gc): the delta the session   *)
(* made, read back from the journal; the causal closure declared over it;   *)
(* the findings judged against the declarations that predate the session;   *)
(* their investigation and the scope it authorizes; and the reversion rate  *)
(* that takes a mandate class its authority.  Pure functions of the journal *)
(* and the reports: MCGCFindings checks them against reference definitions. *)
(***************************************************************************)
EXTENDS Naturals, Sequences, FiniteSets, SequencesExt

CONSTANTS
    MaxFindings,   \* policy: findings one authorization covers
    MaxFiles,      \* policy: files one authorization covers
    MinWork        \* policy: registered work below which no rate counts

-----------------------------------------------------------------------------
(* The delta of one path, folded from its journal entries *)

Change(introduced, deleted) == [seen |-> TRUE, introduced |-> introduced, deleted |-> deleted]
Untouched == [seen |-> FALSE, introduced |-> FALSE, deleted |-> FALSE]

\* A refused operation, a maintenance cycle's and another session's are not this delta's.
SessionEntry(e) == ~e.refused /\ ~e.cycle /\ e.mine

Merge(prev, next) == [next EXCEPT !.introduced = @ \/ prev.introduced]

ApplyJournalEntry(d, e) ==
    CASE e.op \in {"create", "patch", "delete"} ->
            [d EXCEPT !.staged = Merge(@, Change(e.op = "create" /\ ~e.before, e.op = "delete"))]
      [] e.op = "rollback" -> [d EXCEPT !.staged = Untouched]
      [] e.op = "flush"    ->
            [staged  |-> Untouched,
             flushed |-> Merge(d.flushed, Change(~e.before /\ e.after, ~e.after))]
      [] OTHER -> d

\* What the session did to a path; a path it created and deleted again is left out.
SessionDelta(log) ==
    LET d == FoldLeft(ApplyJournalEntry, [staged |-> Untouched, flushed |-> Untouched],
                      SelectSeq(log, SessionEntry))
        all == IF d.staged.seen THEN Merge(d.flushed, d.staged) ELSE d.flushed
    IN  IF all.introduced /\ all.deleted THEN Untouched ELSE all

-----------------------------------------------------------------------------
(* The declaration *)

\* One path that cannot be resolved fails the whole closure.
Resolved(delta, reach) == \A p \in DOMAIN delta : reach[p].ok

Closure(delta, reach) ==
    DOMAIN delta \cup (IF Resolved(delta, reach)
                       THEN UNION {reach[p].paths : p \in DOMAIN delta} ELSE {})

\* Tests and deleted files are never analysed.
ExcludedPath(delta, tests, p) == p \in tests \/ (p \in DOMAIN delta /\ delta[p].deleted)

CollectFindings(delta, closure, tests, findings) ==
    {f \in findings : f.path \in closure /\ ~ExcludedPath(delta, tests, f.path)}

-----------------------------------------------------------------------------
(* A finding against the declarations that predate the session *)

Encloses(symbol, f) == symbol.from <= f.line /\ f.line <= symbol.to

\* The first symbol that encloses the line names the finding; one outside every symbol
\* is a proposal.
ProtectFinding(f, current, prior) ==
    LET at == SelectInSeq(current, LAMBDA s : Encloses(s, f))
        known == \E s \in prior : s.name = current[at].name
    IN  IF at = 0 THEN [f EXCEPT !.proposal = TRUE]
        ELSE LET named == [f EXCEPT !.exported = @ \/ current[at].exported,
                                    !.introduced = ~known]
             IN  IF f.mandate = "documentation"
                 THEN [named EXCEPT !.introduced = FALSE, !.proposal = @ \/ known]
                 ELSE named

\* Go dead code introduced by the session is pending, not dead.
Judged(f) == [f EXCEPT !.status = IF @ = "dead" /\ f.introduced THEN "pending" ELSE @]

\* Lines the session added that silence an analyser (a suppression, or any line of a
\* changed analyser configuration): each earlier line excuses one equal line after it.
Overrides(before, after) ==
    LET Count(l) == Cardinality({i \in DOMAIN before : before[i] = l})
        Step(acc, l) == IF acc.old[l] > 0
                        THEN [acc EXCEPT !.old[l] = @ - 1, !.at = @ + 1]
                        ELSE [acc EXCEPT !.at = @ + 1,
                                         !.found = IF l.silences THEN @ \cup {acc.at} ELSE @]
    IN  FoldLeft(Step, [old |-> [l \in ToSet(before) \cup ToSet(after) |-> Count(l)],
                        at |-> 1, found |-> {}], after).found

-----------------------------------------------------------------------------
(* Investigation and authorization *)

Accepted(findings, r) == r.evidence # "" /\ \E f \in ToSet(findings) : f.id = r.finding

\* Evidence is kept: a second record on a finding is dropped when it says the same and
\* refused when it does not.
Investigate(findings, prior, r) ==
    IF Accepted(findings, r) /\ ~\E p \in ToSet(prior) : p.finding = r.finding
    THEN Append(prior, r) ELSE prior

EligibleFinding(f, demoted) ==
    /\ ~f.proposal /\ ~f.introduced /\ ~f.exported
    /\ f.status # "pending" /\ f.sourced
    /\ f.mandate # "analyzer-integrity" /\ f.mandate \notin demoted

AuthorizedFinding(f, rs, demoted) ==
    /\ EligibleFinding(f, demoted)
    /\ \E r \in ToSet(rs) : r.finding = f.id /\ r.outcome = "confirmed" /\ r.evidence # ""

\* The files a collector may change: of the authorized findings in order, as many as the
\* policy covers, up to the first that would be one file too many.
AuthorizedScope(findings, rs, demoted) ==
    LET Step(acc, f) ==
            IF acc.full \/ acc.n >= MaxFindings
               \/ (f.path \notin acc.files /\ Cardinality(acc.files) >= MaxFiles)
            THEN [acc EXCEPT !.full = TRUE]
            ELSE [acc EXCEPT !.n = @ + 1, !.files = @ \cup {f.path}]
    IN  FoldLeft(Step, [n |-> 0, files |-> {}, full |-> FALSE],
                 SelectSeq(findings, LAMBDA f : AuthorizedFinding(f, rs, demoted))).files

\* A record of `gc refute`: the first one on a finding stands.
Refute(findings, existing, r) ==
    IF Accepted(findings, r) /\ ~\E e \in ToSet(existing) : e.finding = r.finding
    THEN Append(existing, r) ELSE existing

Actionable(findings, refs) ==
    SelectSeq(findings, LAMBDA f : f.status = "dead" /\ ~\E r \in ToSet(refs) : r.finding = f.id)

-----------------------------------------------------------------------------
(* The reversion rate of a mandate class, from the session's entries that took effect *)

Registered(log, mandate) ==
    {<<e.cycle, e.path>> : e \in {x \in ToSet(log) : x.op = "flush" /\ x.mandate = mandate}}

Reverted(log, mandate) ==
    {<<e.cycle, e.path>> : e \in {x \in ToSet(log) : x.op = "reedit" /\ x.mandate = mandate}}

\* A class is demoted when more than a quarter of enough registered work came back.
Demoted(log, mandate) ==
    LET work == Cardinality(Registered(log, mandate))
        back == Cardinality(Registered(log, mandate) \cap Reverted(log, mandate))
    IN  work >= MinWork /\ 4 * back > work
=============================================================================
