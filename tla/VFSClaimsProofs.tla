---------------------------- MODULE VFSClaimsProofs ----------------------------
(***************************************************************************)
(* Safety of VFSClaims for every set of paths, contents, units and bounds: *)
(* IInv is inductive, so staged work stays owned and based, a bind means   *)
(* one claim, and assigned claims and live readers exclude each other.     *)
(* JudgeInv adds what a launch under way has declared, and that a gate is  *)
(* superseded by a newer one only: a judge speaks through its newest gate. *)
(***************************************************************************)
EXTENDS VFSClaims, FiniteSetTheorems, TLAPS

-----------------------------------------------------------------------------
(* Values the actions build. *)

\* A binding that is no longer pending keeps what else it says.
LEMMA PendingCleared ==
  ASSUME NEW b \in Binding
  PROVE  LET r == [b EXCEPT !.prelaunch = FALSE, !.held = FALSE]
         IN /\ r \in Binding
            /\ r.unit = b.unit /\ r.attempt = b.attempt /\ r.over = b.over /\ r.reads = b.reads
            /\ r.prelaunch = FALSE /\ r.held = FALSE
            /\ r.superseded = b.superseded /\ r.judged = b.judged
  BY DEF Binding

\* A delta with nothing staged is a delta, whatever bases it holds.
LEMMA NoDeltaType ==
  /\ Empty \in Files
  /\ NoVerdicts \in [Agents -> Verdict \cup {Nothing}]
  /\ NoDelta \in Delta
  BY BoundsAssumption DEF Empty, Files, NoVerdicts, NoDelta, Delta

\* An issued key is a key.
LEMMA IssuedAreKeys == TypeOK => Issued \subseteq Keys /\ issued \in Nat
  BY BoundsAssumption DEF TypeOK, Issued, Keys

\* What a key has staged is a delta, the empty one when it has none.
LEMMA DeltaType ==
  ASSUME TypeOK, NEW k \in Keys
  PROVE  DeltaOf(k) \in Delta
  BY NoDeltaType DEF TypeOK, DeltaOf

\* A new author binding is a binding.
LEMMA FreshType ==
  ASSUME NEW u \in Units, NEW n \in 0..MaxAttempts, NEW R \in ReadSets \cup {{}}
  PROVE  FreshBinding(u, n, R) \in Binding
  BY DEF FreshBinding, Binding, NoKey

\* Both halves of a hand-over are files.
LEMMA HandOverType ==
  ASSUME TypeOK, NEW k \in Keys, staged[k] # Nothing, NEW S \in SUBSET Paths
  PROVE  MovedFiles(k, S) \in Files /\ KeptFiles(k, S) \in Files
  <1>1. staged[k].files \in Files
    BY DEF TypeOK, Delta
  <1> QED
    BY <1>1 DEF Files, MovedFiles, KeptFiles

\* Adding one binding keeps the map's type and adds one key.
LEMMA WithType ==
  ASSUME TypeOK, NEW k \in 1..(issued + 1), NEW b \in Binding, issued < MaxKeys
  PROVE  /\ DOMAIN With(bindings, k, b) \subseteq 1..(issued + 1)
         /\ \A i \in DOMAIN With(bindings, k, b) : With(bindings, k, b)[i] \in Binding
  BY BoundsAssumption DEF TypeOK, With

\* The initial state has the type.
LEMMA InitType == Init => TypeOK
  <1> SUFFICES ASSUME Init PROVE TypeOK
    OBVIOUS
  <1>1. DOMAIN bindings = {}
    BY DEF Init
  <1>2. runs \in [Units -> Run]
    BY BoundsAssumption DEF Init, Run
  <1> QED
    BY <1>1, <1>2, BoundsAssumption DEF Init, TypeOK, NoKey, Idle

-----------------------------------------------------------------------------
(* Type correctness. *)

\* Claims, reassignments, hand-overs and releases keep every variable's type.
LEMMA ClaimsType == TypeOK /\ Claims => TypeOK'
  <1> SUFFICES ASSUME TypeOK, Claims PROVE TypeOK'
    OBVIOUS
  <1>0. Issued \subseteq Keys /\ issued \in Nat
    BY IssuedAreKeys
  <1>1. ASSUME NEW u \in Workers, NEW S \in SUBSET Paths, NEW R \in ReadSets, AssignScope(u, S, R)
        PROVE  TypeOK'
    <2> DEFINE n == issued + 1
               b == FreshBinding(u, NoAttempt, R)
    <2>1. n \in Keys /\ n \in 1..n
      BY <1>0, <1>1, BoundsAssumption DEF AssignScope, Keys
    <2>2. b \in Binding
      BY FreshType, BoundsAssumption DEF Units, NoAttempt
    <2>3. bindings' = With(bindings, n, b) /\ issued' = n
      BY <1>1 DEF AssignScope, ClaimAs
    <2>4. DOMAIN bindings' \subseteq 1..issued' /\ \A i \in DOMAIN bindings' : bindings'[i] \in Binding
      BY <2>1, <2>2, <2>3, <1>1, WithType DEF AssignScope
    <2>5. DOMAIN staged' = Keys /\ \A i \in Keys : staged'[i] \in Delta \cup {Nothing}
      <3>1. [NoDelta EXCEPT !.bases = S] \in Delta
        BY NoDeltaType DEF NoDelta, Delta
      <3> QED
        BY <1>1, <3>1 DEF AssignScope, ClaimAs, TypeOK
    <2>6. owners' \in [Paths -> Keys \cup {NoKey}]
      BY <1>1, <2>1 DEF AssignScope, ClaimAs, TypeOK
    <2>7. issued' \in 0..MaxKeys
      BY <2>1, <2>3 DEF Keys
    <2> QED
      BY <1>1, <2>4, <2>5, <2>6, <2>7 DEF AssignScope, TypeOK
  <1>2. ASSUME NEW u \in Workers, NEW S \in SUBSET Paths, NEW R \in ReadSets, NEW k \in Issued,
               Rebind(k, u, S, R)
        PROVE  TypeOK'
    <2>1. k \in Keys
      BY <1>0
    <2>2. DOMAIN bindings' = DOMAIN bindings /\ \A i \in DOMAIN bindings' : bindings'[i] \in Binding
      <3>1. bindings[k] \in Binding
        BY DEF TypeOK, Issued
      <3>2. [bindings[k] EXCEPT !.unit = u, !.attempt = NoAttempt,
               !.prelaunch = TRUE, !.held = FALSE, !.reads = R] \in Binding
        <4>1. u \in Units /\ R \in ReadSets \cup {{}} /\ NoAttempt \in 0..MaxAttempts
          BY BoundsAssumption DEF Units, NoAttempt
        <4> QED
          BY <3>1, <4>1 DEF Binding
      <3> QED
        BY <1>2, <3>2 DEF Rebind, TypeOK, Issued
    <2>3. DOMAIN staged' = Keys /\ \A i \in Keys : staged'[i] \in Delta \cup {Nothing}
      <3> DEFINE d == [DeltaOf(k) EXCEPT !.bases = (@ \ (Owned(k) \ S)) \cup (S \ Owned(k)),
                                         !.verdicts = NoVerdicts]
      <3>1. DeltaOf(k) \in Delta
        BY <2>1, DeltaType
      <3>2. d \in Delta
        BY <3>1, NoDeltaType DEF Delta
      <3>3. staged' = [staged EXCEPT ![k] = d]
        BY <1>2 DEF Rebind
      <3> QED
        BY <3>2, <3>3 DEF TypeOK
    <2>4. owners' \in [Paths -> Keys \cup {NoKey}]
      BY <1>2, <2>1 DEF Rebind, TypeOK
    <2> QED
      BY <1>2, <2>2, <2>3, <2>4 DEF Rebind, TypeOK
  <1>3. ASSUME NEW u \in Workers, NEW S \in SUBSET Paths, NEW R \in ReadSets, NEW k \in Issued,
               HandOver(k, u, S, R)
        PROVE  TypeOK'
    <2> DEFINE n == issued + 1
               b == FreshBinding(u, NoAttempt, R)
               moved == S \cap Owned(k)
    <2>1. n \in Keys /\ n \in 1..n /\ issued < MaxKeys
      BY <1>0, <1>3, BoundsAssumption DEF HandOver, Keys
    <2>2. b \in Binding
      BY FreshType, BoundsAssumption DEF Units, NoAttempt
    <2>3. bindings' = With(bindings, n, b) /\ issued' = n
      BY <1>3 DEF HandOver
    <2>4. DOMAIN bindings' \subseteq 1..issued' /\ \A i \in DOMAIN bindings' : bindings'[i] \in Binding
      BY <2>1, <2>2, <2>3, WithType
    <2>5. DOMAIN staged' = Keys /\ \A i \in Keys : staged'[i] \in Delta \cup {Nothing}
      <3>1. k \in Keys /\ staged[k] # Nothing
        BY <1>0, <1>3 DEF HandOver, DeltaOf, NoDelta, Set, Empty
      <3>2. staged[k] \in Delta
        BY <3>1 DEF TypeOK
      <3>3. [NoDelta EXCEPT !.files = MovedFiles(k, S),
               !.bases = (S \ moved) \cup (moved \cap staged[k].bases)] \in Delta
        BY <3>1, NoDeltaType, HandOverType DEF NoDelta, Delta
      <3>4. [staged[k] EXCEPT !.files = KeptFiles(k, S), !.bases = @ \ moved] \in Delta
        BY <3>1, <3>2, HandOverType DEF Delta
      <3>5. k # n
        BY <1>0, <2>1 DEF TypeOK, Issued
      <3>6. staged' = [staged EXCEPT
               ![n] = [NoDelta EXCEPT !.files = MovedFiles(k, S),
                         !.bases = (S \ moved) \cup (moved \cap staged[k].bases)],
               ![k] = [staged[k] EXCEPT !.files = KeptFiles(k, S), !.bases = @ \ moved]]
        BY <1>3, <3>1, <3>2, <3>5, <2>1 DEF HandOver, TypeOK, Delta
      <3> QED
        BY <3>1, <3>3, <3>4, <3>6, <2>1 DEF TypeOK
    <2>6. owners' \in [Paths -> Keys \cup {NoKey}]
      BY <1>3, <2>1 DEF HandOver, TypeOK
    <2>7. issued' \in 0..MaxKeys
      BY <2>1, <2>3 DEF Keys
    <2> QED
      BY <1>3, <2>4, <2>5, <2>6, <2>7 DEF HandOver, TypeOK
  <1>4. ASSUME NEW k \in Issued, ReleaseClaim(k) PROVE TypeOK'
    <2>1. DOMAIN bindings' = DOMAIN bindings /\ \A i \in DOMAIN bindings' : bindings'[i] \in Binding
      <3>0. bindings[k] \in Binding
        BY DEF TypeOK, Issued
      <3>1. [bindings[k] EXCEPT !.prelaunch = FALSE, !.held = FALSE] \in Binding
        BY <3>0, PendingCleared
      <3> QED
        BY <1>4, <3>1 DEF ReleaseClaim, Revoke, TypeOK, Issued
    <2>2. owners' \in [Paths -> Keys \cup {NoKey}]
      BY <1>4 DEF ReleaseClaim, Revoke, TypeOK
    <2> QED
      BY <1>4, <2>1, <2>2 DEF ReleaseClaim, Revoke, TypeOK
  <1> QED
    BY <1>1, <1>2, <1>3, <1>4 DEF Claims

\* A verdict leaves a delta with the files and bases it had.
LEMMA VerdictEffect ==
  ASSUME TypeOK, GateInv,
         NEW u \in Judges, NEW g \in Issued, NEW pass \in BOOLEAN, Verify(u, g, pass)
  PROVE  LET k == bindings[g].over IN
         /\ k \in Keys /\ staged[k] \in Delta
         /\ \E d \in Delta : /\ staged' = [staged EXCEPT ![k] = d]
                             /\ d.files = staged[k].files /\ d.bases = staged[k].bases
  <1> DEFINE k == bindings[g].over
             read == bindings[g].judged
             v == [pass |-> pass, revision |-> read.revision, files |-> read.files,
                   unit |-> bindings[k].unit, attempt |-> bindings[k].attempt,
                   subject |-> read.subject]
             d == [staged[k] EXCEPT !.verdicts[AgentOf[u]] = v]
  <1>1. bindings[g] \in Binding /\ read \in Read
    BY DEF Verify, TypeOK, Issued, Binding
  <1>2. k \in Issued /\ k \in Keys
    BY IssuedAreKeys DEF Verify, GateInv, Author
  <1>3. staged[k] \in Delta
    BY <1>2 DEF Verify, TypeOK
  <1>4. v \in Verdict
    BY <1>1, <1>2 DEF TypeOK, Issued, Binding, Read, Verdict
  <1>5. AgentOf[u] \in Agents
    BY DEF Agents, Units
  <1>6. d \in Delta
    BY <1>3, <1>4, <1>5 DEF Delta
  <1>7. staged' = [staged EXCEPT ![k] = d]
    BY <1>3 DEF Verify, Delta
  <1>8. d.files = staged[k].files /\ d.bases = staged[k].bases
    BY <1>3 DEF Delta
  <1> HIDE DEF d
  <1> QED
    BY <1>2, <1>3, <1>6, <1>7, <1>8

\* What the children do keeps every variable's type.
LEMMA ChildrenType == TypeOK /\ GateInv /\ Children => TypeOK'
  <1> SUFFICES ASSUME TypeOK, GateInv, Children PROVE TypeOK'
    OBVIOUS
  <1>0. Issued \subseteq Keys /\ issued \in Nat
    BY IssuedAreKeys
  <1>1. ASSUME NEW u \in Workers, NEW k \in Issued, BindAdopt(u, k) PROVE TypeOK'
    <2>1. [bindings[k] EXCEPT !.attempt = runs[u].attempt,
             !.prelaunch = FALSE, !.held = TRUE] \in Binding
      <3>1. bindings[k] \in Binding /\ runs[u].attempt \in 0..MaxAttempts
        BY DEF TypeOK, Issued, Run, Units
      <3> QED
        BY <3>1 DEF Binding
    <2>2. DOMAIN bindings' = DOMAIN bindings /\ \A i \in DOMAIN bindings' : bindings'[i] \in Binding
      BY <1>1, <2>1 DEF BindAdopt, TypeOK, Issued
    <2> QED
      BY <1>1, <2>2 DEF BindAdopt, TypeOK
  <1>2. ASSUME NEW u \in Workers, NEW S \in SUBSET Paths, BindFresh(u, S) PROVE TypeOK'
    <2> DEFINE n == issued + 1
               b == FreshBinding(u, runs[u].attempt, {})
    <2>1. n \in Keys /\ n \in 1..n /\ issued < MaxKeys
      BY <1>0, <1>2, BoundsAssumption DEF BindFresh, Keys
    <2>2. b \in Binding
      <3>1. u \in Units /\ runs[u].attempt \in 0..MaxAttempts
        BY DEF TypeOK, Run, Units
      <3> QED
        BY <3>1, FreshType
    <2>3. bindings' = With(bindings, n, b) /\ issued' = n
      BY <1>2 DEF BindFresh, ClaimAs
    <2>4. DOMAIN bindings' \subseteq 1..issued' /\ \A i \in DOMAIN bindings' : bindings'[i] \in Binding
      BY <2>1, <2>2, <2>3, WithType
    <2>5. DOMAIN staged' = Keys /\ \A i \in Keys : staged'[i] \in Delta \cup {Nothing}
      <3>1. [NoDelta EXCEPT !.bases = S] \in Delta
        BY NoDeltaType DEF NoDelta, Delta
      <3> QED
        BY <1>2, <3>1 DEF BindFresh, ClaimAs, TypeOK
    <2>6. owners' \in [Paths -> Keys \cup {NoKey}] /\ issued' \in 0..MaxKeys
      BY <1>2, <2>1, <2>3 DEF BindFresh, ClaimAs, TypeOK, Keys
    <2> QED
      BY <1>2, <2>1, <2>4, <2>5, <2>6 DEF BindFresh, TypeOK
  <1>3. ASSUME NEW u \in Workers, NEW k \in Issued, NEW p \in Paths, NEW v \in Content, Write(u, k, p, v)
        PROVE  TypeOK'
    <2> DEFINE d == [DeltaOf(k) EXCEPT !.files[p] = v, !.revision = @ + 1,
                                       !.bases = @ \cup {p}, !.verdicts = NoVerdicts]
    <2>1. DeltaOf(k) \in Delta /\ k \in Keys
      BY <1>0, DeltaType
    <2>2. d \in Delta
      <3>1. DeltaOf(k).revision + 1 \in 0..MaxRevision
        BY <1>3, <2>1, BoundsAssumption DEF Write, Delta
      <3>2. [DeltaOf(k).files EXCEPT ![p] = v] \in Files
        BY <2>1 DEF Delta, Files
      <3> QED
        BY <2>1, <3>1, <3>2, NoDeltaType DEF Delta
    <2>3. staged' = [staged EXCEPT ![k] = d]
      BY <1>3 DEF Write
    <2> QED
      BY <1>3, <2>1, <2>2, <2>3 DEF Write, TypeOK
  <1>4. ASSUME NEW u \in Judges, AdoptGates(u) PROVE TypeOK'
    <2>1. \A g \in Issued : [bindings[g] EXCEPT !.prelaunch = FALSE, !.held = TRUE] \in Binding
      <3>1. \A b \in Binding : [b EXCEPT !.prelaunch = FALSE, !.held = TRUE] \in Binding
        BY DEF Binding
      <3> QED
        BY <3>1 DEF TypeOK, Issued
    <2>2. DOMAIN bindings' = DOMAIN bindings /\ \A i \in DOMAIN bindings' : bindings'[i] \in Binding
      BY <1>4, <2>1 DEF AdoptGates, TypeOK, Issued
    <2> QED
      BY <1>4, <2>2 DEF AdoptGates, TypeOK
  <1>5. ASSUME NEW u \in Judges, NEW g \in Issued, GateRead(u, g) PROVE TypeOK'
    <2> DEFINE k == bindings[g].over
               r == [revision |-> DeltaOf(k).revision, files |-> DeltaOf(k).files,
                     subject |-> SubjectOf(k)]
    <2>1. k \in Issued /\ k \in Keys
      BY <1>0, <1>5 DEF GateRead, GateInv, Author
    <2>2. r \in Read
      <3>1. DeltaOf(k) \in Delta
        BY <2>1, DeltaType
      <3>2. SubjectOf(k) \in Subject
        BY <2>1 DEF TypeOK, Issued, Binding, SubjectOf, Subject
      <3> QED
        BY <3>1, <3>2 DEF Delta, Read
    <2>3. [bindings[g] EXCEPT !.judged = r] \in Binding
      BY <2>2 DEF TypeOK, Issued, Binding
    <2>4. DOMAIN bindings' = DOMAIN bindings /\ \A i \in DOMAIN bindings' : bindings'[i] \in Binding
      BY <1>5, <2>3 DEF GateRead, TypeOK, Issued
    <2> QED
      BY <1>5, <2>4 DEF GateRead, TypeOK
  <1>6. ASSUME NEW u \in Judges, NEW g \in Issued, NEW pass \in BOOLEAN, Verify(u, g, pass)
        PROVE  TypeOK'
    <2>1. DOMAIN staged' = Keys /\ \A i \in Keys : staged'[i] \in Delta \cup {Nothing}
      BY <1>6, VerdictEffect DEF TypeOK
    <2> QED
      BY <1>6, <2>1 DEF Verify, TypeOK
  <1> QED
    BY <1>1, <1>2, <1>3, <1>4, <1>5, <1>6 DEF Children

\* Consolidations, discards and refusals keep every variable's type.
LEMMA ClosingType == TypeOK /\ Closing => TypeOK'
  <1> SUFFICES ASSUME TypeOK, Closing PROVE TypeOK'
    OBVIOUS
  <1>0. Issued \subseteq Keys
    BY IssuedAreKeys
  <1>1. ASSUME NEW k \in Issued, ConsolidateRefused(k) PROVE TypeOK'
    <2>1. StagedState(k) \in [key : Keys, revision : 0..MaxRevision, files : Files]
      BY <1>0, DeltaType DEF StagedState, Delta
    <2> QED
      BY <1>1, <2>1 DEF ConsolidateRefused, store, TypeOK
  <1>2. ASSUME NEW k \in Issued, NEW accepted, Consolidate(k, accepted) PROVE TypeOK'
    BY <1>0, <1>2 DEF Consolidate, Closed, TypeOK
  <1>3. ASSUME NEW k \in Issued, Discard(k) PROVE TypeOK'
    <2>1. DOMAIN staged' = Keys /\ \A i \in Keys : staged'[i] \in Delta \cup {Nothing}
      <3>1. CASE staged[k] = Nothing
        BY <1>3, <3>1 DEF Discard, TypeOK
      <3>2. CASE staged[k] # Nothing
        <4>1. [NoDelta EXCEPT !.revision = staged[k].revision + 1] \in Delta
          <5>1. staged[k].revision \in 0..MaxRevision /\ staged[k].revision < MaxRevision
            BY <1>0, <1>3, <3>2 DEF Discard, TypeOK, Delta
          <5> QED
            BY <5>1, NoDeltaType, BoundsAssumption DEF NoDelta, Delta
        <4> QED
          BY <1>3, <3>2, <4>1 DEF Discard, TypeOK
      <3> QED
        BY <3>1, <3>2
    <2> QED
      BY <1>3, <2>1 DEF Discard, TypeOK
  <1> QED
    BY <1>1, <1>2, <1>3 DEF Closing

\* New gates take the keys that follow the issued ones.
LEMMA GateKeyRange ==
  ASSUME TypeOK, NEW N \in SUBSET Keys, NEW k \in N
  PROVE  /\ Cardinality(N) \in Nat
         /\ GateKey(N, k) \in (issued + 1)..(issued + Cardinality(N))
  <1> DEFINE upTo == {n \in N : n <= k}
  <1>1. IsFiniteSet(N)
    <2>1. IsFiniteSet(Keys)
      BY FS_Interval, BoundsAssumption DEF Keys
    <2> QED
      BY <2>1, FS_Subset
  <1>2. IsFiniteSet(upTo) /\ Cardinality(upTo) <= Cardinality(N)
    BY <1>1, FS_Subset
  <1>3. Cardinality(upTo) \in Nat /\ Cardinality(N) \in Nat
    BY <1>1, <1>2, FS_CardinalityType
  <1>4. Cardinality(upTo) # 0
    <2>1. k \in upTo
      BY BoundsAssumption DEF Keys
    <2> QED
      BY <1>2, <2>1, FS_EmptySet
  <1> QED
    BY <1>2, <1>3, <1>4, IssuedAreKeys DEF GateKey

\* What issuing gates does to the maps: old bindings stay or retire, the ones
\* that go are gates, and every new one is a gate of this launch.
LEMMA IssueGatesEffect ==
  ASSUME TypeOK, CommandInv, IssueGates
  PROVE  /\ issued' \in issued..MaxKeys
         /\ DOMAIN bindings' \subseteq 1..issued'
         /\ \A g \in Issued \ DOMAIN bindings' : Gate(g)
         /\ \A g \in DOMAIN bindings' \cap Issued :
              bindings'[g] = bindings[g] \/ (Gate(g) /\ bindings'[g] = Retire(bindings[g]))
         /\ \A g \in DOMAIN bindings' \ Issued :
              \E k \in command.authors : bindings'[g] = NewGate(command.unit, k)
         /\ DOMAIN staged' = Keys
         /\ \A g \in Keys : \/ staged'[g] = staged[g]
                            \/ g \notin Issued /\ staged'[g] = NoDelta
                            \/ Gate(g) /\ staged'[g] = Nothing
  <1> DEFINE u == command.unit
             N == ToIssue(u, command.authors)
             gone == Surplus(u, command.authors)
             old == Superseded(u, N)
             new == {GateKey(N, k) : k \in N}
             AuthorOf(g) == CHOOSE k \in N : GateKey(N, k) = g
  <1>1. N \in SUBSET Keys
    BY IssuedAreKeys DEF CommandInv, Author, ToIssue
  <1>2. \A k \in N : GateKey(N, k) \in (issued + 1)..(issued + Cardinality(N))
    BY <1>1, GateKeyRange
  <1>3. /\ issued' = issued + Cardinality(N) /\ issued + Cardinality(N) <= MaxKeys
        /\ bindings' = [g \in (Issued \ gone) \cup new |->
             IF g \in new THEN NewGate(u, AuthorOf(g))
             ELSE IF g \in old THEN Retire(bindings[g]) ELSE bindings[g]]
        /\ staged' = [g \in Keys |-> IF g \in gone THEN Nothing
                                     ELSE IF g \in new THEN NoDelta ELSE staged[g]]
    BY DEF IssueGates
  <1>4. issued \in Nat /\ Issued \subseteq 1..issued
    BY IssuedAreKeys DEF TypeOK, Issued
  <1>5. issued' \in issued..MaxKeys
    <2>1. N = {} \/ N # {}
      OBVIOUS
    <2>2. Cardinality(N) \in Nat
      <3>1. IsFiniteSet(Keys)
        BY FS_Interval, BoundsAssumption DEF Keys
      <3> QED
        BY <1>1, <3>1, FS_Subset, FS_CardinalityType
    <2> QED
      BY <1>3, <1>4, <2>2, BoundsAssumption
  <1>6. \A g \in new : g \in (issued + 1)..issued'
    BY <1>2, <1>3
  <1>7. new \cap Issued = {}
    BY <1>4, <1>6
  <1>8. DOMAIN bindings' = (Issued \ gone) \cup new
    BY <1>3
  <1>9. gone \subseteq Issued /\ \A g \in gone \cup old : Gate(g)
    BY DEF Surplus, AttemptGates, Superseded
  <1> HIDE DEF gone, old, new
  <1>10. DOMAIN bindings' \subseteq 1..issued'
    <2>1. issued' \in Nat /\ issued <= issued'
      BY <1>4, <1>5, BoundsAssumption
    <2>2. Issued \subseteq 1..issued' /\ new \subseteq 1..issued'
      BY <1>4, <1>6, <2>1
    <2> QED
      BY <1>8, <2>2
  <1>11. \A g \in Issued \ DOMAIN bindings' : Gate(g)
    BY <1>8, <1>9
  <1>12. \A g \in DOMAIN bindings' \cap Issued :
            bindings'[g] = bindings[g] \/ (Gate(g) /\ bindings'[g] = Retire(bindings[g]))
    BY <1>3, <1>7, <1>8, <1>9
  <1>13. ASSUME NEW g \in DOMAIN bindings' \ Issued
         PROVE  \E k \in command.authors : bindings'[g] = NewGate(command.unit, k)
    <2>1. g \in new
      BY <1>8
    <2>2. PICK k \in N : GateKey(N, k) = g
      BY <2>1 DEF new
    <2>3. AuthorOf(g) \in N
      BY <2>2
    <2>4. bindings'[g] = NewGate(u, AuthorOf(g))
      BY <1>3, <2>1
    <2> QED
      BY <2>3, <2>4 DEF ToIssue
  <1>14. DOMAIN staged' = Keys
    BY <1>3
  <1>15. ASSUME NEW g \in Keys
         PROVE  \/ staged'[g] = staged[g]
                \/ g \notin Issued /\ staged'[g] = NoDelta
                \/ Gate(g) /\ staged'[g] = Nothing
    <2>1. staged'[g] = IF g \in gone THEN Nothing ELSE IF g \in new THEN NoDelta ELSE staged[g]
      BY <1>3
    <2> QED
      BY <1>7, <1>9, <2>1
  <1> QED
    BY <1>5, <1>10, <1>11, <1>12, <1>13, <1>14, <1>15

\* Launching and finishing keep every variable's type.
LEMMA LaunchingType == TypeOK /\ CommandInv /\ Launching => TypeOK'
  <1> SUFFICES ASSUME TypeOK, CommandInv, Launching PROVE TypeOK'
    OBVIOUS
  <1>0. Issued \subseteq Keys /\ issued \in Nat
    BY IssuedAreKeys
  <1>1. ASSUME NEW u \in Units, NEW A \in SUBSET Issued, Launch(u, A) PROVE TypeOK'
    <2>1. runs' \in [Units -> Run]
      BY <1>1, BoundsAssumption DEF Launch, TypeOK, Run
    <2> QED
      BY <1>0, <1>1, <2>1 DEF Launch, store, TypeOK
  <1>2. ASSUME IssueGates PROVE TypeOK'
    <2>1. \A g \in DOMAIN bindings' : bindings'[g] \in Binding
      <3>1. ASSUME NEW g \in DOMAIN bindings' \cap Issued PROVE bindings'[g] \in Binding
        <4>0. bindings[g] \in Binding
          BY DEF TypeOK, Issued
        <4>1. Retire(bindings[g]) \in Binding
          BY <4>0 DEF Binding, Retire
        <4> QED
          BY <1>2, <4>0, <4>1, IssueGatesEffect
      <3>2. ASSUME NEW g \in DOMAIN bindings' \ Issued PROVE bindings'[g] \in Binding
        <4>1. PICK k \in command.authors : bindings'[g] = NewGate(command.unit, k)
          BY <1>2, IssueGatesEffect
        <4>2. k \in Keys /\ command.unit \in Units
          BY <1>0, <1>2 DEF CommandInv, Author, IssueGates
        <4>3. runs[command.unit].attempt \in 0..MaxAttempts
          BY <4>2 DEF TypeOK, Run
        <4> QED
          BY <4>1, <4>2, <4>3 DEF NewGate, Binding
      <3> QED
        BY <3>1, <3>2
    <2>2. \A g \in Keys : staged'[g] \in Delta \cup {Nothing}
      BY <1>2, IssueGatesEffect, NoDeltaType DEF TypeOK
    <2>3. issued' \in 0..MaxKeys /\ DOMAIN bindings' \subseteq 1..issued' /\ DOMAIN staged' = Keys
      BY <1>0, <1>2, IssueGatesEffect
    <2>4. command' \in [unit : Units \cup {Nothing}, authors : SUBSET Keys,
                        next : {"none", "gates", "ready", "finish"}]
      BY <1>2 DEF IssueGates, TypeOK
    <2> QED
      BY <1>2, <2>1, <2>2, <2>3, <2>4 DEF IssueGates, TypeOK
  <1>3. ASSUME MarkReady PROVE TypeOK'
    <2>1. runs' \in [Units -> Run]
      <3> DEFINE u == command.unit
                 r == [runs[u] EXCEPT !.step = "ready"]
      <3>1. runs' = [runs EXCEPT ![u] = r]
        BY <1>3 DEF MarkReady
      <3>2. u \in Units => r \in Run
        <4> SUFFICES ASSUME u \in Units PROVE r \in Run
          OBVIOUS
        <4>1. runs[u] \in Run
          BY DEF TypeOK
        <4> QED
          BY <4>1 DEF Run
      <3> HIDE DEF u, r
      <3> QED
        BY <3>1, <3>2 DEF TypeOK
    <2>2. declared' \in [Judges -> SUBSET Keys]
      BY <1>3 DEF MarkReady, TypeOK
    <2> QED
      BY <1>3, <2>1, <2>2 DEF MarkReady, store, TypeOK, Idle
  <1>4. ASSUME NEW u \in Units, Finish(u) PROVE TypeOK'
    BY <1>4 DEF Finish, Cancel, TypeOK, Issued
  <1>5. ASSUME Compensate PROVE TypeOK'
    <2>1. command' \in [unit : Units \cup {Nothing}, authors : SUBSET Keys,
                        next : {"none", "gates", "ready", "finish"}]
      BY <1>5 DEF Compensate, TypeOK
    <2> QED
      BY <1>5, <2>1 DEF Compensate, Cancel, store, TypeOK, Issued
  <1>6. ASSUME Settle PROVE TypeOK'
    <2>1. runs' \in [Units -> Run]
      <3> DEFINE u == command.unit
                 r == [runs[u] EXCEPT !.state = "settled", !.step = "none"]
      <3>1. runs' = [runs EXCEPT ![u] = r]
        BY <1>6 DEF Settle
      <3>2. u \in Units => r \in Run
        <4> SUFFICES ASSUME u \in Units PROVE r \in Run
          OBVIOUS
        <4>1. runs[u] \in Run
          BY DEF TypeOK
        <4> QED
          BY <4>1 DEF Run
      <3> HIDE DEF u, r
      <3> QED
        BY <3>1, <3>2 DEF TypeOK
    <2> QED
      BY <1>6, <2>1 DEF Settle, store, TypeOK, Idle
  <1>7. ASSUME Stop PROVE TypeOK'
    BY <1>7 DEF Stop, store, TypeOK, Idle
  <1> QED
    BY <1>1, <1>2, <1>3, <1>4, <1>5, <1>6, <1>7 DEF Launching

\* Every step keeps every variable's type.
LEMMA TypeStep == TypeOK /\ CommandInv /\ GateInv /\ [Next]_vars => TypeOK'
  <1> SUFFICES ASSUME TypeOK, CommandInv, GateInv, [Next]_vars PROVE TypeOK'
    OBVIOUS
  <1>1. CASE UNCHANGED vars
    BY <1>1 DEF vars, TypeOK
  <1> QED
    BY <1>1, ClaimsType, ChildrenType, ClosingType, LaunchingType DEF Next

-----------------------------------------------------------------------------
(* What each action does to the bindings. *)

\* A new key was never issued and leaves the issued ones alone.
LEMMA NewKeyEffect ==
  ASSUME TypeOK, NEW b, issued < MaxKeys, bindings' = With(bindings, issued + 1, b)
  PROVE  /\ issued + 1 \in Keys \ Issued
         /\ Issued' = Issued \cup {issued + 1}
         /\ bindings'[issued + 1] = b
         /\ \A i \in Issued : bindings'[i] = bindings[i]
  <1>1. issued + 1 \in Keys \ Issued
    BY BoundsAssumption DEF TypeOK, Issued, Keys
  <1> QED
    BY <1>1 DEF With, Issued

\* A reassigned key keeps its place; its target, attempt and reads are new.
LEMMA RebindEffect ==
  ASSUME TypeOK, NEW k \in Issued, NEW u, NEW S, NEW R, Rebind(k, u, S, R)
  PROVE  /\ Issued' = Issued
         /\ \A i \in Issued \ {k} : bindings'[i] = bindings[i]
         /\ bindings'[k].unit = u /\ bindings'[k].attempt = NoAttempt
         /\ bindings'[k].prelaunch /\ bindings'[k].reads = R
         /\ bindings'[k].over = bindings[k].over
  <1>1. bindings[k] \in Binding
    BY DEF TypeOK, Issued
  <1> QED
    BY <1>1 DEF Rebind, Issued, Binding

LEMMA ReleaseEffect ==
  ASSUME TypeOK, NEW k \in Issued, ReleaseClaim(k)
  PROVE  /\ Issued' = Issued
         /\ \A i \in Issued \ {k} : bindings'[i] = bindings[i]
         /\ bindings'[k] = [bindings[k] EXCEPT !.prelaunch = FALSE, !.held = FALSE]
         /\ bindings[k] \in Binding
  BY DEF ReleaseClaim, Revoke, TypeOK, Issued

\* A released key only stops being pending.
LEMMA ReleaseFields ==
  ASSUME TypeOK, NEW k \in Issued, ReleaseClaim(k)
  PROVE  /\ bindings'[k].unit = bindings[k].unit /\ bindings'[k].attempt = bindings[k].attempt
         /\ bindings'[k].over = bindings[k].over /\ bindings'[k].reads = bindings[k].reads
         /\ bindings'[k].prelaunch = FALSE /\ bindings'[k].held = FALSE
         /\ bindings'[k].superseded = bindings[k].superseded /\ bindings'[k].judged = bindings[k].judged
  <1> DEFINE b == bindings[k]
             r == [b EXCEPT !.prelaunch = FALSE, !.held = FALSE]
  <1>1. b \in Binding /\ bindings'[k] = r
    BY ReleaseEffect
  <1>2. /\ r.unit = b.unit /\ r.attempt = b.attempt /\ r.over = b.over /\ r.reads = b.reads
        /\ r.prelaunch = FALSE /\ r.held = FALSE
        /\ r.superseded = b.superseded /\ r.judged = b.judged
    <2> HIDE DEF b
    <2> QED
      BY <1>1, PendingCleared
  <1> HIDE DEF r
  <1> QED
    BY <1>1, <1>2

\* An adopted claim takes its unit's attempt.
LEMMA AdoptEffect ==
  ASSUME TypeOK, NEW u, NEW k \in Issued, BindAdopt(u, k)
  PROVE  /\ Issued' = Issued
         /\ \A i \in Issued \ {k} : bindings'[i] = bindings[i]
         /\ bindings'[k].unit = u /\ bindings[k].unit = u
         /\ bindings'[k].attempt = runs[u].attempt
         /\ ~bindings'[k].prelaunch
         /\ bindings'[k].over = bindings[k].over
         /\ bindings'[k].reads = bindings[k].reads
  <1>1. bindings[k] \in Binding
    BY DEF TypeOK, Issued
  <1> QED
    BY <1>1 DEF BindAdopt, Issued, Binding

\* A step of the gates alone: claims, owners and attempts stay as they were.
GatesOnly ==
  /\ UNCHANGED <<owners, runs, direct>>
  /\ \A k \in Issued : Author(k) => k \in Issued' /\ bindings'[k] = bindings[k]
  /\ \A g \in Issued' :
       \/ Author(g)
       \/ /\ bindings'[g].over # NoKey
          /\ Author(bindings'[g].over)
          /\ bindings'[g].reads = {}
          /\ bindings'[g].attempt <= runs[bindings'[g].unit].attempt
  /\ \A k \in Keys : \/ staged'[k] = staged[k]
                     \/ ~Author(k) /\ staged'[k] \in {Nothing, NoDelta}

\* Removing an attempt's pending gates is a step of the gates alone.
LEMMA CancelOnly ==
  ASSUME TypeOK, GateInv, AttemptInv, NEW u, Cancel(u), UNCHANGED <<runs, direct>>
  PROVE  GatesOnly
  <1>1. /\ Issued' = Issued \ AttemptGates(u) /\ UNCHANGED owners
        /\ \A g \in Issued' : bindings'[g] = bindings[g]
    BY DEF Cancel, Issued
  <1>2. \A g \in AttemptGates(u) : ~Author(g)
    BY DEF AttemptGates, Gate, Author
  <1>3. \A g \in Keys : staged'[g] = staged[g] \/ (g \in AttemptGates(u) /\ staged'[g] = Nothing)
    BY DEF Cancel
  <1>4. \A g \in Issued' : Author(g) \/ (bindings[g].over # NoKey /\ Gate(g))
    BY <1>1 DEF Author, Gate
  <1> QED
    BY <1>1, <1>2, <1>3, <1>4 DEF GatesOnly, GateInv, AttemptInv, Author, Gate

\* Issuing a delegation's gates is a step of the gates alone.
LEMMA IssueOnly ==
  ASSUME TypeOK, CommandInv, GateInv, AttemptInv, IssueGates
  PROVE  GatesOnly
  <1>1. UNCHANGED <<owners, runs, direct>>
    BY DEF IssueGates
  <1>2. \A k \in Issued : Author(k) => k \in Issued' /\ bindings'[k] = bindings[k]
    BY IssueGatesEffect DEF Author, Gate, Issued
  <1>3. ASSUME NEW g \in Issued', ~Author(g)
        PROVE  /\ bindings'[g].over # NoKey
               /\ Author(bindings'[g].over)
               /\ bindings'[g].reads = {}
               /\ bindings'[g].attempt <= runs[bindings'[g].unit].attempt
    <2>1. CASE g \in Issued
      <3>1. Gate(g) /\ bindings[g] \in Binding
        BY <1>3, <2>1 DEF Gate, Author, TypeOK, Issued
      <3>2. bindings'[g] = bindings[g] \/ bindings'[g] = Retire(bindings[g])
        BY <2>1, IssueGatesEffect DEF Issued
      <3>3. /\ bindings'[g].over = bindings[g].over /\ bindings'[g].reads = bindings[g].reads
            /\ bindings'[g].attempt = bindings[g].attempt /\ bindings'[g].unit = bindings[g].unit
        BY <3>1, <3>2 DEF Retire, Binding
      <3> QED
        BY <2>1, <3>1, <3>3 DEF GateInv, AttemptInv, Gate
    <2>2. CASE g \notin Issued
      <3>1. PICK k \in command.authors : bindings'[g] = NewGate(command.unit, k)
        BY <2>2, IssueGatesEffect DEF Issued
      <3>2. Author(k) /\ k # NoKey /\ command.unit \in Units
        BY IssuedAreKeys DEF CommandInv, Author, Keys, NoKey, IssueGates
      <3>3. runs[command.unit].attempt <= runs[command.unit].attempt
        BY <3>2, BoundsAssumption DEF TypeOK, Run
      <3> QED
        BY <3>1, <3>2, <3>3 DEF NewGate
    <2> QED
      BY <2>1, <2>2
  <1>4. \A k \in Keys : \/ staged'[k] = staged[k]
                        \/ ~Author(k) /\ staged'[k] \in {Nothing, NoDelta}
    BY IssueGatesEffect DEF Author, Gate
  <1> QED
    BY <1>1, <1>2, <1>3, <1>4 DEF GatesOnly

\* Adopting gates and reading through them are steps of the gates alone.
LEMMA JudgeOnly ==
  ASSUME TypeOK, GateInv, AttemptInv, NEW u,
         AdoptGates(u) \/ \E g \in Issued : GateRead(u, g)
  PROVE  GatesOnly
  <1>1. Issued' = Issued /\ UNCHANGED <<owners, runs, direct, staged>>
    BY DEF AdoptGates, GateRead, Issued
  <1>2. \A g \in Issued : bindings[g] \in Binding
    BY DEF TypeOK, Issued
  <1>3. ASSUME NEW g \in Issued
        PROVE  \/ bindings'[g] = bindings[g]
               \/ /\ Gate(g)
                  /\ bindings'[g].over = bindings[g].over
                  /\ bindings'[g].reads = bindings[g].reads
                  /\ bindings'[g].attempt = bindings[g].attempt
                  /\ bindings'[g].unit = bindings[g].unit
    <2>1. CASE AdoptGates(u)
      BY <1>2, <1>3, <2>1 DEF AdoptGates, Issued, Binding
    <2>2. CASE \E h \in Issued : GateRead(u, h)
      BY <1>2, <1>3, <2>2 DEF GateRead, Issued, Binding
    <2> QED
      BY <2>1, <2>2
  <1>4. \A g \in Issued : Author(g) \/ Gate(g)
    BY DEF Author, Gate
  <1>5. \A g \in Issued : ~(Author(g) /\ Gate(g))
    BY DEF Author, Gate
  <1> QED
    BY <1>1, <1>3, <1>4, <1>5 DEF GatesOnly, GateInv, AttemptInv, Gate

\* The claims' steps and the children's binds are those that change authors.
AuthorStep ==
  \/ \E u \in Workers, S \in SUBSET Paths, R \in ReadSets :
       \/ AssignScope(u, S, R)
       \/ \E k \in Issued : Rebind(k, u, S, R) \/ HandOver(k, u, S, R)
  \/ \E k \in Issued : ReleaseClaim(k)
  \/ \E u \in Workers :
       \/ \E k \in Issued : BindAdopt(u, k)
       \/ \E S \in SUBSET Paths : BindFresh(u, S)
\* A step of staged work: no binding changes, and owners only let go.
StagedStep ==
  \/ \E u \in Workers, k \in Issued, p \in Paths, v \in Content : Write(u, k, p, v)
  \/ \E u \in Judges, g \in Issued, pass \in BOOLEAN : Verify(u, g, pass)
  \/ Closing
\* A step of the attempts: the store stays as it was.
RunStep ==
  /\ UNCHANGED <<store, direct>>
  /\ \/ \E u \in Units, A \in SUBSET Issued : Launch(u, A)
     \/ MarkReady \/ Settle
     \/ UNCHANGED runs

\* Every step is one of claims, of staged work, of gates or of attempts.
LEMMA StepKinds ==
  ASSUME TypeOK, CommandInv, AttemptInv, GateInv, [Next]_vars
  PROVE  AuthorStep \/ StagedStep \/ GatesOnly \/ RunStep
  <1>1. CASE Claims
    BY <1>1 DEF Claims, AuthorStep
  <1>2. CASE Children
    BY <1>2, JudgeOnly DEF Children, AuthorStep, StagedStep
  <1>3. CASE Closing
    BY <1>3 DEF StagedStep
  <1>4. CASE Launching
    <2>1. ASSUME NEW u \in Units, Finish(u) PROVE GatesOnly
      BY <2>1, CancelOnly DEF Finish
    <2>2. ASSUME Compensate PROVE GatesOnly \/ RunStep
      <3>1. CASE Cancel(command.unit)
        BY <2>2, <3>1, CancelOnly DEF Compensate
      <3>2. CASE UNCHANGED store
        BY <2>2, <3>2 DEF Compensate, RunStep
      <3> QED
        BY <2>2, <3>1, <3>2 DEF Compensate
    <2>3. ASSUME NEW u \in Units, NEW A \in SUBSET Issued, Launch(u, A) PROVE RunStep
      BY <2>3 DEF Launch, RunStep
    <2>4. ASSUME MarkReady \/ Settle \/ Stop PROVE RunStep
      BY <2>4 DEF MarkReady, Settle, Stop, RunStep
    <2> QED
      BY <1>4, <2>1, <2>2, <2>3, <2>4, IssueOnly DEF Launching
  <1>5. CASE UNCHANGED vars
    BY <1>5 DEF vars, store, RunStep
  <1> QED
    BY <1>1, <1>2, <1>3, <1>4, <1>5 DEF Next

\* A step of staged work keeps bindings and attempts and takes no path.
LEMMA StagedStepEffect ==
  ASSUME StagedStep, TypeOK
  PROVE  /\ UNCHANGED <<bindings, runs, direct>>
         /\ \A p \in Paths : owners'[p] = owners[p] \/ owners'[p] = NoKey
  <1>1. UNCHANGED <<bindings, runs, direct>>
    BY DEF StagedStep, Write, Verify, Closing, ConsolidateRefused, Consolidate, Closed,
           Discard, store
  <1>2. \A p \in Paths : owners'[p] = owners[p] \/ owners'[p] = NoKey
    BY DEF StagedStep, Write, Verify, Closing, ConsolidateRefused, Consolidate, Closed,
           Discard, store, TypeOK
  <1> QED
    BY <1>1, <1>2

-----------------------------------------------------------------------------
(* The inductive step, one conjunct at a time. *)

\* A command's unit and authors stay real until its last save.
LEMMA CommandStep == IInv /\ [Next]_vars => CommandInv'
  <1> SUFFICES ASSUME IInv, [Next]_vars PROVE CommandInv'
    OBVIOUS
  <1> USE DEF IInv
  <1>1. CASE command' = command /\ Ready
    BY <1>1 DEF CommandInv, Ready, Idle
  <1>2. CASE command' = Idle
    BY <1>2 DEF CommandInv, Idle
  <1>3. ASSUME NEW u \in Units, NEW A \in SUBSET Issued, Launch(u, A) PROVE CommandInv'
    BY <1>3 DEF Launch, Preparable, CommandInv, store, Author, Issued
  <1>4. CASE IssueGates
    <2>1. command'.unit = command.unit /\ command'.authors = command.authors
      BY <1>4 DEF IssueGates, TypeOK
    <2>2. \A k \in Issued : Author(k) => Author(k)'
      BY <1>4, IssueOnly DEF GatesOnly, Author
    <2> QED
      BY <1>4, <2>1, <2>2 DEF IssueGates, CommandInv, Author
  <1>5. ASSUME NEW u \in Units, Finish(u) PROVE CommandInv'
    BY <1>5 DEF Finish, CommandInv
  <1>6. CASE Compensate
    BY <1>6 DEF Compensate, CommandInv, TypeOK
  <1>7. CASE UNCHANGED vars
    BY <1>7 DEF vars, CommandInv, Author, Issued
  <1>8. ASSUME Claims \/ Children \/ Closing PROVE command' = command /\ Ready
    <2>1. CASE Claims
      <3>1. ASSUME NEW u, NEW S, NEW R, AssignScope(u, S, R) PROVE command' = command /\ Ready
        BY <3>1 DEF AssignScope
      <3>2. ASSUME NEW k, NEW u, NEW S, NEW R, Rebind(k, u, S, R) \/ HandOver(k, u, S, R)
            PROVE  command' = command /\ Ready
        BY <3>2 DEF Rebind, HandOver, Reassignable
      <3>3. ASSUME NEW k, ReleaseClaim(k) PROVE command' = command /\ Ready
        BY <3>3 DEF ReleaseClaim, Revoke
      <3> QED
        BY <2>1, <3>1, <3>2, <3>3 DEF Claims
    <2>2. CASE Children
      BY <2>2 DEF Children, BindAdopt, BindFresh, Write, AdoptGates, GateRead, Verify
    <2>3. CASE Closing
      BY <2>3 DEF Closing, ConsolidateRefused, Consolidate, Closed, Discard
    <2> QED
      BY <1>8, <2>1, <2>2, <2>3
  <1>9. ASSUME MarkReady \/ Settle \/ Stop PROVE command' = Idle
    BY <1>9 DEF MarkReady, Settle, Stop
  <1> QED
    BY <1>1, <1>2, <1>3, <1>4, <1>5, <1>6, <1>7, <1>8, <1>9 DEF Next, Launching

\* No binding gets ahead of its unit's attempt, and a pending claim has none.
LEMMA AttemptStep == IInv /\ [Next]_vars => AttemptInv'
  <1> SUFFICES ASSUME IInv, [Next]_vars PROVE AttemptInv'
    OBVIOUS
  <1> USE DEF IInv
  <1>0. /\ \A k \in Issued : bindings[k] \in Binding
        /\ \A u \in Units : runs[u] \in Run /\ runs[u].attempt \in Nat
        /\ 0 \in Nat /\ NoAttempt = 0
    BY BoundsAssumption DEF TypeOK, Issued, Run, NoAttempt
  <1>1. ASSUME UNCHANGED runs, NEW k \in Issued',
               \A i \in Issued' \ {k} : i \in Issued /\ bindings'[i] = bindings[i],
               bindings'[k].attempt <= runs[bindings'[k].unit].attempt,
               bindings'[k].over # NoKey \/ ~bindings'[k].prelaunch \/ bindings'[k].attempt = NoAttempt
        PROVE  AttemptInv'
    <2>1. \A u \in Units : InFlight(u)' => runs'[u].attempt # NoAttempt
      BY <1>1 DEF AttemptInv, InFlight
    <2>2. \A i \in Issued' : bindings'[i].attempt <= runs'[bindings'[i].unit].attempt
      BY <1>1 DEF AttemptInv
    <2>3. \A i \in Issued' : Author(i)' /\ bindings'[i].prelaunch => bindings'[i].attempt = NoAttempt
      BY <1>1 DEF AttemptInv, Author
    <2> QED
      BY <2>1, <2>2, <2>3 DEF AttemptInv
  <1>2. ASSUME AuthorStep PROVE AttemptInv'
    <2>0. ASSUME NEW n, NEW u \in Units, NEW a \in {NoAttempt, runs[u].attempt}, NEW R,
                 bindings' = With(bindings, n, FreshBinding(u, a, R)), n = issued + 1,
                 issued < MaxKeys, UNCHANGED runs
          PROVE  AttemptInv'
      <3> DEFINE b == FreshBinding(u, a, R)
      <3>1. Issued' = Issued \cup {n} /\ bindings'[n] = b /\ \A i \in Issued : bindings'[i] = bindings[i]
        BY <2>0, NewKeyEffect
      <3>2. b.attempt = a /\ b.unit = u /\ (b.prelaunch => a = NoAttempt)
        BY DEF FreshBinding
      <3>3. a <= runs[u].attempt
        BY <1>0
      <3> QED
        BY <1>1, <2>0, <3>1, <3>2, <3>3
    <2>1. ASSUME NEW u \in Workers, NEW S \in SUBSET Paths, NEW R \in ReadSets, AssignScope(u, S, R)
          PROVE  AttemptInv'
      BY <2>1, <2>0 DEF AssignScope, ClaimAs, Units
    <2>2. ASSUME NEW u \in Workers, NEW S \in SUBSET Paths, NEW R \in ReadSets, NEW k \in Issued,
                 Rebind(k, u, S, R)
          PROVE  AttemptInv'
      <3>1. UNCHANGED runs /\ u \in Units
        BY <2>2 DEF Rebind, Units
      <3>2. NoAttempt <= runs[u].attempt
        BY <1>0, <3>1
      <3> QED
        BY <1>1, <2>2, <3>1, <3>2, RebindEffect
    <2>3. ASSUME NEW u \in Workers, NEW S \in SUBSET Paths, NEW R \in ReadSets, NEW k \in Issued,
                 HandOver(k, u, S, R)
          PROVE  AttemptInv'
      BY <2>3, <2>0 DEF HandOver, Units
    <2>4. ASSUME NEW k \in Issued, ReleaseClaim(k) PROVE AttemptInv'
      <3>1. UNCHANGED runs
        BY <2>4 DEF ReleaseClaim, Revoke
      <3>2. bindings'[k].attempt <= runs[bindings'[k].unit].attempt /\ ~bindings'[k].prelaunch
        BY <2>4, ReleaseFields DEF AttemptInv
      <3> QED
        BY <1>1, <2>4, <3>1, <3>2, ReleaseEffect
    <2>5. ASSUME NEW u \in Workers, NEW k \in Issued, BindAdopt(u, k) PROVE AttemptInv'
      <3>1. UNCHANGED runs /\ bindings[k].unit = u /\ u \in Units
        BY <2>5 DEF BindAdopt, Units
      <3>2. bindings'[k].attempt <= runs[bindings'[k].unit].attempt /\ ~bindings'[k].prelaunch
        <4>1. runs[u].attempt \in Nat
          BY <1>0, <3>1
        <4> QED
          BY <2>5, <4>1, AdoptEffect
      <3> QED
        BY <1>1, <2>5, <3>1, <3>2, AdoptEffect
    <2>6. ASSUME NEW u \in Workers, NEW S \in SUBSET Paths, BindFresh(u, S) PROVE AttemptInv'
      BY <2>6, <2>0 DEF BindFresh, ClaimAs, Units
    <2> QED
      BY <1>2, <2>1, <2>2, <2>3, <2>4, <2>5, <2>6 DEF AuthorStep
  <1>3. ASSUME StagedStep PROVE AttemptInv'
    BY <1>3, StagedStepEffect DEF AttemptInv, Author, InFlight, Issued
  <1>4. ASSUME GatesOnly PROVE AttemptInv'
    BY <1>4 DEF GatesOnly, AttemptInv, Author, InFlight
  <1>5. ASSUME RunStep PROVE AttemptInv'
    <2>1. UNCHANGED bindings
      BY <1>5 DEF RunStep, store
    <2>2. ASSUME NEW u \in Units
          PROVE  /\ runs[u].attempt <= runs'[u].attempt
                 /\ InFlight(u)' => InFlight(u) \/ runs'[u].attempt # NoAttempt
      <3>1. CASE \E w \in Units, A \in SUBSET Issued : Launch(w, A)
        BY <1>0, <3>1 DEF Launch, TypeOK, InFlight, Run
      <3>2. CASE MarkReady
        BY <1>0, <3>2 DEF MarkReady, TypeOK, InFlight, Run
      <3>3. CASE Settle
        BY <1>0, <3>3 DEF Settle, TypeOK, InFlight, Run
      <3>4. CASE UNCHANGED runs
        BY <1>0, <3>4 DEF InFlight
      <3> QED
        BY <1>5, <3>1, <3>2, <3>3, <3>4 DEF RunStep
    <2>3. \A u \in Units : runs'[u].attempt \in Nat
      <3>1. TypeOK'
        BY TypeStep
      <3> QED
        BY <3>1, BoundsAssumption DEF TypeOK, Run
    <2> QED
      BY <1>0, <2>1, <2>2, <2>3 DEF AttemptInv, Author, Issued, Binding
  <1> QED
    BY <1>2, <1>3, <1>4, <1>5, StepKinds

\* Gates keep judging authors, and only authors own paths.
LEMMA GateStep == IInv /\ [Next]_vars => GateInv'
  <1> SUFFICES ASSUME IInv, [Next]_vars PROVE GateInv'
    OBVIOUS
  <1> USE DEF IInv
  <1>0. /\ \A k \in Issued : bindings[k] \in Binding /\ k # NoKey
        /\ \A p \in Paths : owners[p] \in Keys \cup {NoKey}
    BY IssuedAreKeys DEF TypeOK, Issued, Keys, NoKey
  <1>a. TypeOK'
    BY TypeStep
  <1>1. ASSUME NEW n,
               \A k \in Issued : Author(k) => k \in Issued' /\ bindings'[k].over = NoKey,
               \A p \in Paths : owners'[p] \in {owners[p], n, NoKey},
               n = NoKey \/ (n \in Issued' /\ bindings'[n].over = NoKey),
               \A g \in Issued' \ {n} : bindings'[g].over # NoKey =>
                 /\ Gate(g)
                 /\ bindings'[g].over = bindings[g].over
                 /\ bindings'[g].reads = bindings[g].reads
        PROVE  GateInv'
    <2>1. \A p \in Paths : owners'[p] # NoKey =>
             owners'[p] \in Issued' /\ bindings'[owners'[p]].over = NoKey
      BY <1>1 DEF GateInv, Author
    <2>2. \A g \in Issued' : bindings'[g].over # NoKey =>
             /\ bindings'[g].over \in Issued' /\ bindings'[bindings'[g].over].over = NoKey
             /\ bindings'[g].reads = {}
      <3>1. \A g \in Issued' : g = n => bindings'[g].over = NoKey \/ n = NoKey
        BY <1>1
      <3>2. ASSUME NEW g \in Issued' \ {n}, bindings'[g].over # NoKey
            PROVE  /\ bindings'[g].over \in Issued' /\ bindings'[bindings'[g].over].over = NoKey
                   /\ bindings'[g].reads = {}
        <4>1. Gate(g) /\ bindings'[g].over = bindings[g].over /\ bindings'[g].reads = bindings[g].reads
          BY <1>1, <3>2
        <4>2. Author(bindings[g].over) /\ bindings[g].over \in Issued /\ bindings[g].reads = {}
          BY <4>1 DEF GateInv, Gate, Author
        <4> QED
          BY <1>1, <4>1, <4>2
      <3>3. NoKey \notin Issued'
        BY <1>a DEF TypeOK, Issued, NoKey
      <3> QED
        BY <1>1, <3>1, <3>2, <3>3
    <2> QED
      BY <2>1, <2>2 DEF GateInv, Author, Gate
  <1>2. ASSUME AuthorStep PROVE GateInv'
    <2>0. ASSUME NEW n, NEW u, NEW a, NEW R, NEW S,
                 bindings' = With(bindings, n, FreshBinding(u, a, R)), n = issued + 1,
                 issued < MaxKeys,
                 owners' = [p \in Paths |-> IF p \in S THEN n ELSE owners[p]]
          PROVE  GateInv'
      <3> DEFINE b == FreshBinding(u, a, R)
      <3>1. n \in Keys \ Issued /\ Issued' = Issued \cup {n} /\ bindings'[n] = b
            /\ \A i \in Issued : bindings'[i] = bindings[i]
        BY <2>0, NewKeyEffect
      <3>2. b.over = NoKey
        BY DEF FreshBinding
      <3> QED
        BY <1>1, <2>0, <3>1, <3>2 DEF Author, Gate
    <2>1. ASSUME NEW u \in Workers, NEW S \in SUBSET Paths, NEW R \in ReadSets, AssignScope(u, S, R)
          PROVE  GateInv'
      BY <2>0, <2>1 DEF AssignScope, ClaimAs
    <2>2. ASSUME NEW u \in Workers, NEW S \in SUBSET Paths, NEW R \in ReadSets, NEW k \in Issued,
                 Rebind(k, u, S, R)
          PROVE  GateInv'
      <3>1. \A p \in Paths : owners'[p] \in {owners[p], k, NoKey}
        BY <2>2 DEF Rebind
      <3>2. Author(k)
        BY <2>2 DEF Rebind, Reassignable
      <3> QED
        <4>1. \A g \in Issued : Author(g) => bindings[g].over = NoKey
          BY DEF Author
        <4>2. \A g \in Issued : bindings[g].over # NoKey => Gate(g)
          BY DEF Gate
        <4>3. /\ Issued' = Issued /\ bindings'[k].over = NoKey
              /\ \A i \in Issued \ {k} : bindings'[i] = bindings[i]
          BY <2>2, <3>2, <4>1, RebindEffect
        <4>4. \A i \in Issued : Author(i) => i \in Issued' /\ bindings'[i].over = NoKey
          BY <4>1, <4>3
        <4> QED
          BY <1>1, <3>1, <4>2, <4>3, <4>4
    <2>3. ASSUME NEW u \in Workers, NEW S \in SUBSET Paths, NEW R \in ReadSets, NEW k \in Issued,
                 HandOver(k, u, S, R)
          PROVE  GateInv'
      BY <2>0, <2>3 DEF HandOver
    <2>4. ASSUME NEW k \in Issued, ReleaseClaim(k) PROVE GateInv'
      <3>1. \A p \in Paths : owners'[p] \in {owners[p], NoKey}
        BY <2>4 DEF ReleaseClaim, Revoke
      <3>2. bindings'[k].over = bindings[k].over /\ bindings'[k].reads = bindings[k].reads
        BY <2>4, ReleaseFields
      <3>3. \A i \in Issued : bindings'[i].over = bindings[i].over /\ bindings'[i].reads = bindings[i].reads
        BY <2>4, <3>2, ReleaseEffect
      <3> QED
        BY <1>1, <2>4, <3>1, <3>3, ReleaseEffect DEF Author, Gate
    <2>5. ASSUME NEW u \in Workers, NEW k \in Issued, BindAdopt(u, k) PROVE GateInv'
      <3>1. UNCHANGED owners
        BY <2>5 DEF BindAdopt
      <3> QED
        BY <1>1, <2>5, <3>1, AdoptEffect DEF Author, Gate
    <2>6. ASSUME NEW u \in Workers, NEW S \in SUBSET Paths, BindFresh(u, S) PROVE GateInv'
      BY <2>0, <2>6 DEF BindFresh, ClaimAs
    <2> QED
      BY <1>2, <2>1, <2>2, <2>3, <2>4, <2>5, <2>6 DEF AuthorStep
  <1>3. ASSUME StagedStep PROVE GateInv'
    BY <1>3, StagedStepEffect DEF GateInv, Author, Gate, Issued
  <1>4. ASSUME GatesOnly PROVE GateInv'
    <2>1. \A p \in Paths : owners'[p] # NoKey =>
             owners'[p] \in Issued' /\ bindings'[owners'[p]].over = NoKey
      BY <1>4 DEF GatesOnly, GateInv, Author
    <2>2. \A g \in Issued' : bindings'[g].over # NoKey =>
             /\ bindings'[g].over \in Issued' /\ bindings'[bindings'[g].over].over = NoKey
             /\ bindings'[g].reads = {}
      BY <1>4 DEF GatesOnly, Author
    <2> QED
      BY <2>1, <2>2 DEF GateInv, Author, Gate
  <1>5. ASSUME RunStep PROVE GateInv'
    BY <1>5 DEF RunStep, store, GateInv, Author, Gate, Issued
  <1> QED
    BY <1>2, <1>3, <1>4, <1>5, StepKinds

\* Key by key and path by path: what is staged is owned, what is owned is based.
HoldsWork(k, p) ==
  /\ DeltaOf(k).files[p] # Unset => owners[p] = k
  /\ owners[p] = k => p \in DeltaOf(k).bases

\* StagedOwned and OwnedHasBase give HoldsWork for every key and path.
LEMMA WorkIsHeld ==
  ASSUME StagedOwned, OwnedHasBase, NEW k \in Keys, NEW p \in Paths
  PROVE  HoldsWork(k, p)
  BY DEF StagedOwned, OwnedHasBase, HoldsWork, Set, Owned, Keys, NoKey

\* Whatever a step does to a key's delta and to its paths, staged content stays
\* owned and owned paths stay based.
LEMMA WorkStep == IInv /\ [Next]_vars => StagedOwned' /\ OwnedHasBase'
  <1> SUFFICES ASSUME IInv, [Next]_vars PROVE StagedOwned' /\ OwnedHasBase'
    OBVIOUS
  <1> USE DEF IInv
  <1>a. TypeOK' /\ GateInv'
    BY TypeStep, GateStep
  <1> SUFFICES ASSUME NEW k \in Keys, NEW p \in Paths PROVE HoldsWork(k, p)'
    BY <1>a DEF TypeOK, GateInv, Author, StagedOwned, OwnedHasBase, HoldsWork, Set, Owned
  <1>0. /\ Issued \subseteq Keys /\ k # NoKey
        /\ owners[p] # NoKey => owners[p] \in Issued
        /\ DeltaOf(k) \in Delta /\ DOMAIN staged = Keys /\ owners \in [Paths -> Keys \cup {NoKey}]
    BY IssuedAreKeys, DeltaType DEF OwnedHasBase, Keys, NoKey, TypeOK
  <1>1. HoldsWork(k, p)
    BY WorkIsHeld
  <1>2. ASSUME staged'[k] = staged[k], owners'[p] = k <=> owners[p] = k PROVE HoldsWork(k, p)'
    BY <1>1, <1>2 DEF HoldsWork, DeltaOf
  <1>3. ASSUME NEW d \in Delta, staged'[k] = d,
               d.files[p] # Unset => owners'[p] = k, owners'[p] = k => p \in d.bases
        PROVE  HoldsWork(k, p)'
    BY <1>3, NothingAssumption DEF HoldsWork, DeltaOf
  <1>4. ASSUME staged'[k] = Nothing \/ staged'[k] = NoDelta, owners'[p] # k PROVE HoldsWork(k, p)'
    BY <1>4 DEF HoldsWork, DeltaOf, NoDelta, Empty
  <1>5. ASSUME NEW n, NEW b, NEW S \in SUBSET Paths, n = issued + 1, ClaimAs(n, b, S),
               Unclaimed(S), issued < MaxKeys
        PROVE  HoldsWork(k, p)'
    <2>1. n \in Keys \ Issued
      BY <1>5, NewKeyEffect DEF ClaimAs
    <2>2. owners'[p] = IF p \in S THEN n ELSE owners[p]
      BY <1>5 DEF ClaimAs
    <2>3. CASE k = n
      <3> DEFINE d == [NoDelta EXCEPT !.bases = S]
      <3>1. d \in Delta /\ d.bases = S /\ d.files[p] = Unset
        BY NoDeltaType DEF NoDelta, Delta, Empty
      <3>2. staged'[k] = d
        BY <1>0, <1>5, <2>3 DEF ClaimAs
      <3> QED
        BY <1>0, <1>3, <2>1, <2>2, <2>3, <3>1, <3>2
    <2>4. CASE k # n
      <3>1. staged'[k] = staged[k]
        BY <1>0, <1>5, <2>4 DEF ClaimAs
      <3>2. p \in S => owners[p] # k
        BY <1>0, <1>5 DEF Unclaimed
      <3> QED
        BY <1>2, <2>2, <2>4, <3>1, <3>2
    <2> QED
      BY <2>3, <2>4
  <1>6. ASSUME NEW u, NEW S \in SUBSET Paths, NEW R, NEW j \in Issued, Rebind(j, u, S, R)
        PROVE  HoldsWork(k, p)'
    <2>1. owners'[p] = IF p \in S THEN j ELSE IF owners[p] = j THEN NoKey ELSE owners[p]
      BY <1>6 DEF Rebind
    <2>2. p \in S => owners[p] \in {NoKey, j}
      BY <1>6 DEF Rebind, Reassignable, Unclaimed, Owned
    <2>3. CASE k = j
      <3> DEFINE d == [DeltaOf(j) EXCEPT !.bases = (@ \ (Owned(j) \ S)) \cup (S \ Owned(j)),
                                         !.verdicts = NoVerdicts]
      <3>1. staged'[k] = d
        BY <1>0, <1>6, <2>3 DEF Rebind
      <3>2. /\ d \in Delta /\ d.files = DeltaOf(k).files
            /\ d.bases = (DeltaOf(k).bases \ (Owned(k) \ S)) \cup (S \ Owned(k))
        BY <1>0, <2>3, NoDeltaType DEF Delta
      <3>3. d.files[p] # Unset => owners'[p] = k
        BY <1>6, <2>1, <2>3, <3>2 DEF Rebind, Set
      <3>4. owners'[p] = k => p \in d.bases
        BY <1>0, <1>1, <2>1, <2>3, <3>2 DEF HoldsWork, Owned
      <3> QED
        BY <1>3, <3>1, <3>2, <3>3, <3>4
    <2>4. CASE k # j
      <3>1. staged'[k] = staged[k]
        BY <1>0, <1>6, <2>4 DEF Rebind
      <3> QED
        BY <1>0, <1>2, <2>1, <2>2, <2>4, <3>1
    <2> QED
      BY <2>3, <2>4
  <1>7. ASSUME NEW u, NEW S \in SUBSET Paths, NEW R, NEW j \in Issued, HandOver(j, u, S, R)
        PROVE  HoldsWork(k, p)'
    <2> DEFINE n == issued + 1
               moved == S \cap Owned(j)
    <2>1. n \in Keys \ Issued
      BY <1>7, NewKeyEffect DEF HandOver
    <2>2. owners'[p] = IF p \in S THEN n ELSE owners[p]
      BY <1>7 DEF HandOver
    <2>3. p \in S => owners[p] \in {NoKey, j}
      BY <1>7 DEF HandOver, Reassignable, Unclaimed, Owned
    <2>4. j \in Keys /\ staged[j] # Nothing /\ staged[j] \in Delta /\ DeltaOf(j) = staged[j]
      BY <1>0, <1>7 DEF HandOver, DeltaOf, NoDelta, Set, Empty, TypeOK
    <2>5. MovedFiles(j, S) \in Files /\ KeptFiles(j, S) \in Files
      BY <2>4, HandOverType
    <2>6. CASE k = n
      <3> DEFINE d == [NoDelta EXCEPT !.files = MovedFiles(j, S),
                         !.bases = (S \ moved) \cup (moved \cap staged[j].bases)]
      <3>1. staged'[k] = d
        BY <1>0, <1>7, <2>1, <2>6 DEF HandOver
      <3>2. /\ d \in Delta /\ d.files = MovedFiles(j, S)
            /\ d.bases = (S \ moved) \cup (moved \cap staged[j].bases)
        BY <2>5, NoDeltaType DEF NoDelta, Delta
      <3>3. d.files[p] # Unset => owners'[p] = k
        BY <2>2, <2>6, <3>2 DEF MovedFiles
      <3>4. owners'[p] = k => p \in S
        BY <1>0, <2>1, <2>2, <2>6
      <3>5. owners'[p] = k => p \in d.bases
        <4>1. HoldsWork(j, p)
          BY <2>4, WorkIsHeld
        <4> QED
          BY <2>4, <3>2, <3>4, <4>1 DEF HoldsWork, Owned
      <3> QED
        BY <1>3, <3>1, <3>2, <3>3, <3>5
    <2>7. CASE k = j
      <3> DEFINE d == [staged[j] EXCEPT !.files = KeptFiles(j, S), !.bases = @ \ moved]
      <3>1. staged'[k] = d
        BY <1>0, <1>7, <2>1, <2>4, <2>7 DEF HandOver, Delta
      <3>2. d \in Delta /\ d.files = KeptFiles(j, S) /\ d.bases = DeltaOf(k).bases \ moved
        BY <2>4, <2>5, <2>7 DEF Delta
      <3>3. d.files[p] # Unset => owners'[p] = k
        BY <1>1, <2>2, <2>4, <2>7, <3>2 DEF KeptFiles, HoldsWork, Owned
      <3>4. owners'[p] = k => p \in d.bases
        BY <1>1, <2>1, <2>2, <2>7, <3>2 DEF HoldsWork, Owned
      <3> QED
        BY <1>3, <3>1, <3>2, <3>3, <3>4
    <2>8. CASE k # n /\ k # j
      <3>1. staged'[k] = staged[k]
        BY <1>0, <1>7, <2>1, <2>8 DEF HandOver
      <3> QED
        BY <1>0, <1>2, <2>2, <2>3, <2>8, <3>1
    <2> QED
      BY <2>6, <2>7, <2>8
  <1>8. ASSUME NEW j \in Issued, ReleaseClaim(j) PROVE HoldsWork(k, p)'
    <2>1. owners'[p] = IF owners[p] = j THEN NoKey ELSE owners[p]
      BY <1>8 DEF ReleaseClaim, Revoke
    <2>2. staged' = staged /\ Set(DeltaOf(j).files) = {}
      BY <1>8 DEF ReleaseClaim, Revoke, HasStaged
    <2> QED
      BY <1>0, <1>1, <2>1, <2>2 DEF HoldsWork, DeltaOf, Set
  <1>9. CASE AuthorStep
    <2>1. ASSUME NEW u \in Workers, NEW S \in SUBSET Paths, NEW R \in ReadSets, AssignScope(u, S, R)
          PROVE  HoldsWork(k, p)'
      BY <1>5, <2>1 DEF AssignScope
    <2>2. ASSUME NEW u \in Workers, NEW S \in SUBSET Paths, BindFresh(u, S)
          PROVE  HoldsWork(k, p)'
      BY <1>5, <2>2 DEF BindFresh
    <2>3. ASSUME NEW u \in Workers, NEW j \in Issued, BindAdopt(u, j) PROVE HoldsWork(k, p)'
      BY <1>2, <2>3 DEF BindAdopt
    <2> QED
      BY <1>6, <1>7, <1>8, <1>9, <2>1, <2>2, <2>3 DEF AuthorStep
  <1>10. CASE GatesOnly
    <2>1. owners' = owners
      BY <1>10 DEF GatesOnly
    <2>2. CASE staged'[k] = staged[k]
      BY <1>2, <2>1, <2>2
    <2>3. CASE ~Author(k) /\ staged'[k] \in {Nothing, NoDelta}
      BY <1>0, <1>4, <2>1, <2>3 DEF GateInv
    <2> QED
      BY <1>10, <2>2, <2>3 DEF GatesOnly
  <1>11. CASE RunStep
    BY <1>2, <1>11 DEF RunStep, store
  <1>12. ASSUME NEW u, NEW j \in Issued, NEW q \in Paths, NEW v \in Content, Write(u, j, q, v)
         PROVE  HoldsWork(k, p)'
    <2>1. owners' = owners /\ owners[q] = j
      BY <1>12 DEF Write
    <2>2. CASE k = j
      <3> DEFINE d == [DeltaOf(j) EXCEPT !.files[q] = v, !.revision = @ + 1,
                                         !.bases = @ \cup {q}, !.verdicts = NoVerdicts]
      <3>1. staged'[k] = d
        BY <1>0, <1>12, <2>2 DEF Write
      <3>2. d \in Delta
        <4>1. DeltaOf(j) \in Delta /\ DeltaOf(j).revision < MaxRevision
          BY <1>0, <1>12, <2>2 DEF Write
        <4>2. DeltaOf(j).revision + 1 \in 0..MaxRevision
          BY <4>1, BoundsAssumption DEF Delta
        <4>3. [DeltaOf(j).files EXCEPT ![q] = v] \in Files
          BY <4>1 DEF Delta, Files
        <4> QED
          BY <4>1, <4>2, <4>3, NoDeltaType DEF Delta
      <3>3. /\ d.files = [DeltaOf(k).files EXCEPT ![q] = v]
            /\ d.bases = DeltaOf(k).bases \cup {q} /\ DeltaOf(k).files \in Files
        BY <1>0, <2>2 DEF Delta
      <3>4. d.files[p] # Unset => owners'[p] = k
        <4>1. CASE p = q
          BY <2>1, <2>2, <4>1
        <4>2. CASE p # q
          BY <1>1, <2>1, <3>3, <4>2 DEF HoldsWork, Files
        <4> QED
          BY <4>1, <4>2
      <3>5. owners'[p] = k => p \in d.bases
        BY <1>1, <2>1, <3>3 DEF HoldsWork
      <3> QED
        BY <1>3, <3>1, <3>2, <3>4, <3>5
    <2>3. CASE k # j
      <3>1. staged'[k] = staged[k]
        BY <1>0, <1>12, <2>3 DEF Write
      <3> QED
        BY <1>2, <2>1, <3>1
    <2> QED
      BY <2>2, <2>3
  <1>13. ASSUME NEW u \in Judges, NEW g \in Issued, NEW pass \in BOOLEAN, Verify(u, g, pass)
         PROVE  HoldsWork(k, p)'
    <2> DEFINE j == bindings[g].over
    <2>1. owners' = owners
      BY <1>13 DEF Verify
    <2>2. CASE k = j
      <3>1. PICK d \in Delta : /\ staged' = [staged EXCEPT ![j] = d]
                               /\ d.files = staged[j].files /\ d.bases = staged[j].bases
        BY <1>13, VerdictEffect
      <3>2. staged'[k] = d /\ DeltaOf(k) = staged[k]
        BY <1>0, <1>13, <2>2, <3>1 DEF Verify, DeltaOf
      <3> QED
        BY <1>1, <1>3, <2>1, <2>2, <3>1, <3>2 DEF HoldsWork
    <2>3. CASE k # j
      <3>1. staged'[k] = staged[k]
        BY <1>0, <1>13, <2>3 DEF Verify
      <3> QED
        BY <1>2, <2>1, <3>1
    <2> QED
      BY <2>2, <2>3
  <1>14. ASSUME Closing PROVE HoldsWork(k, p)'
    <2>1. ASSUME NEW j \in Issued, ConsolidateRefused(j) PROVE HoldsWork(k, p)'
      BY <1>2, <2>1 DEF ConsolidateRefused, store
    <2>2. ASSUME NEW j \in Issued, NEW accepted, Consolidate(j, accepted)
          PROVE  HoldsWork(k, p)'
      <3>1. owners'[p] = IF owners[p] = j THEN NoKey ELSE owners[p]
        BY <2>2 DEF Consolidate, Closed
      <3>2. staged'[k] = IF k = j THEN Nothing ELSE staged[k]
        BY <1>0, <2>2 DEF Consolidate, Closed
      <3> QED
        BY <1>0, <1>2, <1>4, <3>1, <3>2
    <2>3. ASSUME NEW j \in Issued, Discard(j) PROVE HoldsWork(k, p)'
      <3>1. owners'[p] = IF owners[p] = j THEN NoKey ELSE owners[p]
        BY <2>3 DEF Discard
      <3>2. CASE k = j /\ staged[k] # Nothing
        <4> DEFINE d == [NoDelta EXCEPT !.revision = staged[k].revision + 1]
        <4>1. staged'[k] = d
          BY <1>0, <2>3, <3>2 DEF Discard
        <4>2. d \in Delta /\ d.files = Empty
          <5>1. staged[k] \in Delta /\ staged[k].revision < MaxRevision
            BY <2>3, <3>2 DEF Discard, TypeOK
          <5>2. staged[k].revision + 1 \in 0..MaxRevision
            BY <5>1, BoundsAssumption DEF Delta
          <5> QED
            BY <5>2, NoDeltaType DEF NoDelta, Delta
        <4> QED
          BY <1>0, <1>3, <3>1, <3>2, <4>1, <4>2 DEF Empty
      <3>3. CASE k = j /\ staged[k] = Nothing
        BY <1>0, <1>4, <2>3, <3>1, <3>3 DEF Discard
      <3>4. CASE k # j
        BY <1>0, <1>2, <2>3, <3>1, <3>4 DEF Discard
      <3> QED
        BY <3>2, <3>3, <3>4
    <2> QED
      BY <1>14, <2>1, <2>2, <2>3 DEF Closing
  <1> QED
    BY <1>9, <1>10, <1>11, <1>12, <1>13, <1>14, StepKinds DEF StagedStep

\* What ~duplicateIdentity says of the other authors of the unit.
LEMMA NotDuplicate ==
  ASSUME AttemptInv, NEW u, NEW n, NEW self, ~Duplicate(u, n, self),
         NEW i \in Issued \ {self}, Author(i), bindings[i].unit = u
  PROVE  IF n = NoAttempt THEN ~bindings[i].prelaunch ELSE bindings[i].attempt # n
  BY DEF AttemptInv, Duplicate, Author

\* Bindings of one unit stay distinguishable.
LEMMA BindStep == IInv /\ [Next]_vars => BindIsUnambiguous'
  <1> SUFFICES ASSUME IInv, [Next]_vars PROVE BindIsUnambiguous'
    OBVIOUS
  <1> USE DEF IInv
  <1>1. ASSUME NEW k,
               \A i \in Issued' \ {k} : bindings'[i].over = NoKey =>
                 Author(i) /\ bindings'[i] = bindings[i],
               \A i \in Issued \ {k} : Author(i) /\ bindings[i].unit = bindings'[k].unit /\ k \in Issued' =>
                 /\ ~(bindings[i].prelaunch /\ bindings'[k].prelaunch)
                 /\ bindings[i].attempt = bindings'[k].attempt => bindings[i].attempt = NoAttempt
        PROVE  BindIsUnambiguous'
    <2> SUFFICES ASSUME NEW i \in Issued', NEW j \in Issued', i # j,
                        bindings'[i].over = NoKey, bindings'[j].over = NoKey,
                        bindings'[i].unit = bindings'[j].unit
                 PROVE  /\ ~(bindings'[i].prelaunch /\ bindings'[j].prelaunch)
                        /\ bindings'[i].attempt = bindings'[j].attempt =>
                             bindings'[i].attempt = NoAttempt
      BY DEF BindIsUnambiguous, Author
    <2>1. CASE i = k
      BY <1>1, <2>1 DEF Author
    <2>2. CASE j = k
      BY <1>1, <2>2 DEF Author
    <2>3. CASE i # k /\ j # k
      <3>1. Author(i) /\ Author(j) /\ bindings'[i] = bindings[i] /\ bindings'[j] = bindings[j]
        BY <1>1, <2>3
      <3>2. i \in Issued /\ j \in Issued
        BY <3>1 DEF Author
      <3> QED
        BY <3>1, <3>2 DEF BindIsUnambiguous
    <2> QED
      BY <2>1, <2>2, <2>3
  <1>2. ASSUME UNCHANGED bindings PROVE BindIsUnambiguous'
    BY <1>2 DEF BindIsUnambiguous, Author, Issued
  <1>3. CASE AuthorStep
    <2>0. ASSUME NEW n, NEW u, NEW a, NEW R, n = issued + 1, issued < MaxKeys,
                 bindings' = With(bindings, n, FreshBinding(u, a, R)), ~Duplicate(u, a, NoKey)
          PROVE  BindIsUnambiguous'
      <3> DEFINE b == FreshBinding(u, a, R)
      <3>1. /\ Issued' = Issued \cup {n} /\ bindings'[n] = b
            /\ \A i \in Issued : bindings'[i] = bindings[i]
        BY <2>0, NewKeyEffect
      <3>2. b.unit = u /\ b.attempt = a /\ (b.prelaunch => a = NoAttempt)
        BY DEF FreshBinding
      <3>3. \A i \in Issued : i # NoKey
        BY IssuedAreKeys DEF Keys, NoKey
      <3>4. \A i \in Issued : Author(i) /\ bindings[i].unit = u =>
               IF a = NoAttempt THEN ~bindings[i].prelaunch ELSE bindings[i].attempt # a
        BY <2>0, <3>3, NotDuplicate
      <3>5. \A i \in Issued' \ {n} : bindings'[i].over = NoKey => Author(i) /\ bindings'[i] = bindings[i]
        BY <3>1 DEF Author
      <3> HIDE DEF b
      <3> QED
        BY <1>1, <3>1, <3>2, <3>4, <3>5
    <2>1. ASSUME NEW u \in Workers, NEW S \in SUBSET Paths, NEW R \in ReadSets, AssignScope(u, S, R)
          PROVE  BindIsUnambiguous'
      BY <2>0, <2>1 DEF AssignScope, ClaimAs
    <2>2. ASSUME NEW u \in Workers, NEW S \in SUBSET Paths, NEW R \in ReadSets, NEW k \in Issued,
                 Rebind(k, u, S, R)
          PROVE  BindIsUnambiguous'
      <3>1. \A i \in Issued \ {k} : Author(i) /\ bindings[i].unit = u => ~bindings[i].prelaunch
        BY <2>2, NotDuplicate DEF Rebind, Reassignable
      <3>2. \A i \in Issued' \ {k} : bindings'[i].over = NoKey => Author(i) /\ bindings'[i] = bindings[i]
        BY <2>2, RebindEffect DEF Author
      <3>3. bindings'[k].unit = u /\ bindings'[k].attempt = NoAttempt
        BY <2>2, RebindEffect
      <3> QED
        BY <1>1, <3>1, <3>2, <3>3
    <2>3. ASSUME NEW u \in Workers, NEW S \in SUBSET Paths, NEW R \in ReadSets, NEW k \in Issued,
                 HandOver(k, u, S, R)
          PROVE  BindIsUnambiguous'
      BY <2>0, <2>3 DEF HandOver
    <2>4. ASSUME NEW k \in Issued, ReleaseClaim(k) PROVE BindIsUnambiguous'
      <3>1. /\ Issued' = Issued /\ \A i \in Issued \ {k} : bindings'[i] = bindings[i]
            /\ bindings'[k].unit = bindings[k].unit /\ bindings'[k].attempt = bindings[k].attempt
            /\ ~bindings'[k].prelaunch /\ bindings'[k].over = bindings[k].over
        BY <2>4, ReleaseEffect DEF Binding
      <3> QED
        BY <3>1 DEF BindIsUnambiguous, Author
    <2>5. ASSUME NEW u \in Workers, NEW k \in Issued, BindAdopt(u, k) PROVE BindIsUnambiguous'
      <3>1. ~Duplicate(u, runs[u].attempt, k) /\ runs[u].attempt # NoAttempt
        BY <2>5 DEF BindAdopt, Current, AttemptInv, Units
      <3>2. \A i \in Issued \ {k} : Author(i) /\ bindings[i].unit = u => bindings[i].attempt # runs[u].attempt
        BY <3>1, NotDuplicate
      <3>3. \A i \in Issued' \ {k} : bindings'[i].over = NoKey => Author(i) /\ bindings'[i] = bindings[i]
        BY <2>5, AdoptEffect DEF Author
      <3> QED
        BY <1>1, <2>5, <3>2, <3>3, AdoptEffect
    <2>6. ASSUME NEW u \in Workers, NEW S \in SUBSET Paths, BindFresh(u, S) PROVE BindIsUnambiguous'
      BY <2>0, <2>6 DEF BindFresh, ClaimAs
    <2> QED
      BY <1>3, <2>1, <2>2, <2>3, <2>4, <2>5, <2>6 DEF AuthorStep
  <1>4. CASE GatesOnly
    <2>1. \A i \in Issued' : bindings'[i].over = NoKey => Author(i) /\ bindings'[i] = bindings[i]
      BY <1>4 DEF GatesOnly, Author
    <2>2. NoKey \notin Issued'
      <3>1. TypeOK'
        BY TypeStep
      <3> QED
        BY <3>1 DEF TypeOK, Issued, NoKey
    <2> QED
      BY <1>1, <2>1, <2>2
  <1> QED
    BY <1>2, <1>3, <1>4, StagedStepEffect, StepKinds DEF RunStep, store

\* A unit in flight that reads what another assigned claim may write: no step
\* makes two live bindings collide unless the claim was a direct bind.
LEMMA ReaderStep == IInv /\ [Next]_vars => AssignedClaimsRespectReaders'
  <1> SUFFICES ASSUME IInv, [Next]_vars PROVE AssignedClaimsRespectReaders'
    OBVIOUS
  <1> USE DEF IInv
  <1>0. /\ \A i \in Issued : i # NoKey /\ bindings[i] \in Binding
        /\ owners \in [Paths -> Keys \cup {NoKey}]
    BY IssuedAreKeys DEF TypeOK, Issued, Keys, NoKey
  <1> SUFFICES ASSUME NEW k \in Issued', NEW r \in Issued',
                      bindings'[k].unit # bindings'[r].unit, Live(k)', Live(r)',
                      NEW p \in Paths, p \in bindings'[r].reads, owners'[p] = k
               PROVE  k \in direct'
    BY DEF AssignedClaimsRespectReaders, Collides, Owned
  <1>1. ASSUME k \in Issued, r \in Issued, direct \subseteq direct',
               bindings'[k].unit = bindings[k].unit, bindings'[r].unit = bindings[r].unit,
               Live(k), Live(r), p \in bindings[r].reads, owners[p] = k
        PROVE  k \in direct'
    BY <1>1 DEF AssignedClaimsRespectReaders, Collides, Owned
  <1>2. ASSUME NEW i \in Issued, bindings'[i] = bindings[i], Live(i)', UNCHANGED runs PROVE Live(i)
    BY <1>2 DEF Live, InFlight
  \* A new claim n of unit u over S that reads R, admitted beside the others.
  <1>3. ASSUME NEW n, NEW u, NEW S \in SUBSET Paths, NEW R,
               AdmitReads(u, R), GuardReaders(u, S),
               bindings'[n].unit = u, bindings'[n].reads = R,
               \A i \in Issued' \ {n} : i \in Issued /\ bindings'[i] = bindings[i],
               owners'[p] = n => p \in S,
               \A i \in Issued \ {n} : owners'[p] = i => owners[p] = i,
               UNCHANGED <<runs, direct>>
        PROVE  k \in direct'
    <2>1. CASE k = n
      <3>1. r # n /\ r \in Issued /\ bindings'[r] = bindings[r] /\ Live(r)
        BY <1>2, <1>3, <2>1
      <3>2. S \cap bindings[r].reads = {}
        BY <1>3, <2>1, <3>1 DEF GuardReaders
      <3> QED
        BY <1>3, <2>1, <3>1, <3>2
    <2>2. CASE r = n
      <3>1. k # n /\ k \in Issued /\ bindings'[k] = bindings[k] /\ Live(k)
        BY <1>2, <1>3, <2>2
      <3>2. owners[p] = k /\ p \in R \cap Paths
        BY <1>3, <2>2, <3>1
      <3> QED
        BY <1>0, <1>3, <2>2, <3>1, <3>2 DEF AdmitReads
    <2>3. CASE k # n /\ r # n
      <3>1. /\ k \in Issued /\ bindings'[k] = bindings[k] /\ Live(k)
            /\ r \in Issued /\ bindings'[r] = bindings[r] /\ Live(r)
        BY <1>2, <1>3, <2>3
      <3> QED
        BY <1>1, <1>3, <2>3, <3>1
    <2> QED
      BY <2>1, <2>2, <2>3
  <1>4. CASE AuthorStep
    <2>0. ASSUME NEW n, NEW b, NEW S \in SUBSET Paths, n = issued + 1, issued < MaxKeys,
                 bindings' = With(bindings, n, b),
                 owners' = [q \in Paths |-> IF q \in S THEN n ELSE owners[q]]
          PROVE  /\ bindings'[n] = b
                 /\ \A i \in Issued' \ {n} : i \in Issued /\ bindings'[i] = bindings[i]
                 /\ owners'[p] = n => p \in S
                 /\ \A i \in Issued \ {n} : owners'[p] = i => owners[p] = i
      <3>1. /\ n \in Keys \ Issued /\ Issued' = Issued \cup {n} /\ bindings'[n] = b
            /\ \A i \in Issued : bindings'[i] = bindings[i]
        BY <2>0, NewKeyEffect
      <3>2. owners[p] # n
        BY <3>1 DEF OwnedHasBase, Keys, NoKey
      <3> QED
        BY <2>0, <3>1, <3>2
    <2>1. ASSUME NEW u \in Workers, NEW S \in SUBSET Paths, NEW R \in ReadSets, AssignScope(u, S, R)
          PROVE  k \in direct'
      <3> DEFINE b == FreshBinding(u, NoAttempt, R)
      <3>1. b.unit = u /\ b.reads = R
        BY DEF FreshBinding
      <3>2. AdmitReads(u, R) /\ GuardReaders(u, S) /\ UNCHANGED <<runs, direct>>
        BY <2>1 DEF AssignScope
      <3>3. /\ issued < MaxKeys /\ bindings' = With(bindings, issued + 1, b)
            /\ owners' = [q \in Paths |-> IF q \in S THEN issued + 1 ELSE owners[q]]
        BY <2>1 DEF AssignScope, ClaimAs
      <3> HIDE DEF b
      <3> QED
        BY <1>3, <2>0, <3>1, <3>2, <3>3
    <2>2. ASSUME NEW u \in Workers, NEW S \in SUBSET Paths, NEW R \in ReadSets, NEW j \in Issued,
                 Rebind(j, u, S, R)
          PROVE  k \in direct'
      <3>1. AdmitReads(u, R) /\ GuardReaders(u, S) /\ UNCHANGED <<runs, direct>>
        BY <2>2 DEF Rebind, Reassignable
      <3>2. /\ bindings'[j].unit = u /\ bindings'[j].reads = R
            /\ \A i \in Issued' \ {j} : i \in Issued /\ bindings'[i] = bindings[i]
        BY <2>2, RebindEffect
      <3>3. owners'[p] = IF p \in S THEN j ELSE IF owners[p] = j THEN NoKey ELSE owners[p]
        BY <2>2 DEF Rebind
      <3>4. owners'[p] = j => p \in S
        BY <1>0, <3>3
      <3>5. \A i \in Issued \ {j} : owners'[p] = i => owners[p] = i
        BY <1>0, <3>3
      <3> QED
        BY <1>3, <3>1, <3>2, <3>4, <3>5
    <2>3. ASSUME NEW u \in Workers, NEW S \in SUBSET Paths, NEW R \in ReadSets, NEW j \in Issued,
                 HandOver(j, u, S, R)
          PROVE  k \in direct'
      <3> DEFINE b == FreshBinding(u, NoAttempt, R)
      <3>1. b.unit = u /\ b.reads = R
        BY DEF FreshBinding
      <3>2. AdmitReads(u, R) /\ GuardReaders(u, S) /\ UNCHANGED <<runs, direct>>
        BY <2>3 DEF HandOver, Reassignable
      <3>3. /\ issued < MaxKeys /\ bindings' = With(bindings, issued + 1, b)
            /\ owners' = [q \in Paths |-> IF q \in S THEN issued + 1 ELSE owners[q]]
        BY <2>3 DEF HandOver
      <3> HIDE DEF b
      <3> QED
        BY <1>3, <2>0, <3>1, <3>2, <3>3
    <2>4. ASSUME NEW j \in Issued, ReleaseClaim(j) PROVE k \in direct'
      <3>1. /\ UNCHANGED <<runs, direct>> /\ Issued' = Issued
            /\ owners'[p] \in {owners[p], NoKey}
        BY <2>4 DEF ReleaseClaim, Revoke, Issued
      <3>2. ASSUME NEW i \in Issued, Live(i)'
            PROVE  /\ bindings'[i].unit = bindings[i].unit
                   /\ bindings'[i].reads = bindings[i].reads
                   /\ Live(i)
        <4>1. CASE i = j
          BY <2>4, <3>1, <3>2, <4>1, ReleaseFields DEF Live, InFlight
        <4>2. CASE i # j
          BY <1>2, <2>4, <3>1, <3>2, <4>2, ReleaseEffect
        <4> QED
          BY <4>1, <4>2
      <3> QED
        BY <1>0, <1>1, <3>1, <3>2
    <2>5. ASSUME NEW u \in Workers, NEW j \in Issued, BindAdopt(u, j) PROVE k \in direct'
      <3>1. UNCHANGED <<runs, direct, owners>> /\ Live(j)
        BY <2>5 DEF BindAdopt, Live
      <3>2. ASSUME NEW i \in Issued, Live(i)'
            PROVE  /\ bindings'[i].unit = bindings[i].unit
                   /\ bindings'[i].reads = bindings[i].reads
                   /\ Live(i)
        <4>1. CASE i = j
          BY <2>5, <3>1, <4>1, AdoptEffect
        <4>2. CASE i # j
          BY <1>2, <2>5, <3>1, <3>2, <4>2, AdoptEffect
        <4> QED
          BY <4>1, <4>2
      <3>3. Issued' = Issued
        BY <2>5, AdoptEffect
      <3> QED
        BY <1>1, <3>1, <3>2, <3>3
    <2>6. ASSUME NEW u \in Workers, NEW S \in SUBSET Paths, BindFresh(u, S) PROVE k \in direct'
      <3> DEFINE n == issued + 1
                 b == FreshBinding(u, runs[u].attempt, {})
      <3>1. b.reads = {}
        BY DEF FreshBinding
      <3>2. UNCHANGED runs /\ direct' = direct \cup {n}
        BY <2>6 DEF BindFresh
      <3>3. /\ issued < MaxKeys /\ bindings' = With(bindings, n, b)
            /\ owners' = [q \in Paths |-> IF q \in S THEN n ELSE owners[q]]
        BY <2>6 DEF BindFresh, ClaimAs
      <3> HIDE DEF b
      <3>4. /\ bindings'[n] = b
            /\ \A i \in Issued' \ {n} : i \in Issued /\ bindings'[i] = bindings[i]
            /\ \A i \in Issued \ {n} : owners'[p] = i => owners[p] = i
        BY <2>0, <3>3
      <3>5. r # n
        BY <3>1, <3>4
      <3>6. CASE k # n
        <4>1. /\ k \in Issued /\ bindings'[k] = bindings[k] /\ Live(k)
              /\ r \in Issued /\ bindings'[r] = bindings[r] /\ Live(r)
          BY <1>2, <3>2, <3>4, <3>5, <3>6
        <4> QED
          BY <1>1, <3>2, <3>4, <3>6, <4>1
      <3> QED
        BY <3>2, <3>6
    <2> QED
      BY <1>4, <2>1, <2>2, <2>3, <2>4, <2>5, <2>6 DEF AuthorStep
  <1>5. CASE StagedStep
    <2>1. /\ UNCHANGED <<bindings, runs, direct>> /\ Issued' = Issued
          /\ owners'[p] \in {owners[p], NoKey}
      BY <1>5, StagedStepEffect DEF Issued
    <2>2. Live(k) /\ Live(r) /\ owners[p] = k
      BY <1>0, <1>2, <2>1
    <2> QED
      BY <1>1, <2>1, <2>2
  <1>6. CASE GatesOnly
    <2>1. Author(r) /\ bindings'[r] = bindings[r]
      BY <1>6 DEF GatesOnly, Author
    <2>2. k # NoKey
      <3>1. TypeOK'
        BY TypeStep
      <3> QED
        BY <3>1 DEF TypeOK, Issued, NoKey
    <2>3. UNCHANGED <<runs, owners, direct>>
      BY <1>6 DEF GatesOnly
    <2>4. Author(k) /\ bindings'[k] = bindings[k]
      BY <1>6, <2>2, <2>3 DEF GatesOnly, GateInv, Author
    <2>5. k \in Issued /\ r \in Issued
      BY <2>1, <2>4 DEF Author
    <2>6. Live(k) /\ Live(r)
      BY <1>2, <2>1, <2>3, <2>4, <2>5
    <2> QED
      BY <1>1, <2>1, <2>3, <2>4, <2>5, <2>6
  <1>7. CASE RunStep
    <2>1. UNCHANGED <<bindings, owners, direct>> /\ Issued' = Issued
      BY <1>7 DEF RunStep, store, Issued
    <2>2. ASSUME NEW i \in Issued, Live(i)' PROVE Live(i)
      <3> DEFINE u == bindings[i].unit
                 a == bindings[i].attempt
      <3>1. u \in Units /\ a \in Nat /\ runs[u].attempt \in Nat /\ a <= runs[u].attempt
        BY <1>0, BoundsAssumption DEF Binding, AttemptInv, TypeOK, Run
      <3>2. \/ InFlight(u)' => InFlight(u) /\ runs'[u].attempt = runs[u].attempt
            \/ runs'[u].attempt = runs[u].attempt + 1
        <4>1. runs[u] \in Run
          BY <3>1 DEF TypeOK
        <4>2. CASE \E w \in Units, A \in SUBSET Issued : Launch(w, A)
          BY <2>1, <3>1, <4>1, <4>2 DEF Launch, TypeOK, InFlight, Run
        <4>3. CASE MarkReady
          BY <2>1, <3>1, <4>1, <4>3 DEF MarkReady, TypeOK, InFlight, Run
        <4>4. CASE Settle
          BY <2>1, <3>1, <4>1, <4>4 DEF Settle, TypeOK, InFlight, Run
        <4>5. CASE UNCHANGED runs
          BY <2>1, <4>5 DEF InFlight
        <4> QED
          BY <1>7, <4>2, <4>3, <4>4, <4>5 DEF RunStep
      <3>3. bindings[i].prelaunch \/ (InFlight(u)' /\ a # NoAttempt /\ runs'[u].attempt = a)
        BY <2>1, <2>2 DEF Live
      <3>4. runs'[u].attempt = runs[u].attempt + 1 => runs'[u].attempt # a
        BY <3>1
      <3> HIDE DEF u, a
      <3>5. bindings[i].prelaunch \/ (InFlight(u) /\ a # NoAttempt /\ runs[u].attempt = a)
        BY <3>2, <3>3, <3>4
      <3> QED
        BY <3>5 DEF Live, u, a
    <2> QED
      BY <1>1, <2>1, <2>2
  <1> QED
    BY <1>4, <1>5, <1>6, <1>7, StepKinds

-----------------------------------------------------------------------------
(* The theorems. *)

\* The invariant holds before anything is claimed.
LEMMA InitInv == Init => IInv
  <1> SUFFICES ASSUME Init PROVE IInv
    OBVIOUS
  <1>1. Issued = {} /\ \A p \in Paths : owners[p] = NoKey
    BY DEF Init, Issued
  <1>2. TypeOK
    BY InitType
  <1>3. CommandInv
    BY DEF Init, Idle, CommandInv
  <1>4. AttemptInv
    BY <1>1 DEF Init, AttemptInv, InFlight
  <1>5. StagedOwned
    BY DEF Init, StagedOwned, DeltaOf, NoDelta, Set, Empty
  <1> QED
    BY <1>1, <1>2, <1>3, <1>4, <1>5
       DEF IInv, GateInv, OwnedHasBase, BindIsUnambiguous, AssignedClaimsRespectReaders

\* The invariant is inductive.
LEMMA InvStep == IInv /\ [Next]_vars => IInv'
  <1> SUFFICES ASSUME IInv, [Next]_vars PROVE IInv'
    OBVIOUS
  <1>1. TypeOK'
    BY TypeStep DEF IInv
  <1> QED
    BY <1>1, CommandStep, AttemptStep, GateStep, WorkStep, BindStep, ReaderStep DEF IInv

\* Claims, gates and attempts agree in every reachable state: the inductive
\* invariant the other theorems are read off.
THEOREM ClaimsInvariance == Spec => []IInv
  BY InitInv, InvStep, PTL DEF Spec

\* Every variable keeps its type.
THEOREM ClaimsTypeCorrect == Spec => []TypeOK
  <1>1. IInv => TypeOK
    BY DEF IInv
  <1> QED
    BY <1>1, ClaimsInvariance, PTL

\* Whatever a key has staged, it still owns: no hand-over, release, discard or
\* interrupted launch leaves a delta consolidateLocked could only refuse.
THEOREM StagedWorkIsOwned == Spec => []StagedOwned
  <1>1. IInv => StagedOwned
    BY DEF IInv
  <1> QED
    BY <1>1, ClaimsInvariance, PTL

\* Every owned path has the base captured when it was claimed.
THEOREM OwnedPathsAreBased == Spec => []OwnedHasBase
  <1>1. IInv => OwnedHasBase
    BY DEF IInv
  <1> QED
    BY <1>1, ClaimsInvariance, PTL

\* adoptPrelaunchLocked and the attempt lookup can each find one claim only.
THEOREM BindsMeanOneClaim == Spec => []BindIsUnambiguous
  <1>1. IInv => BindIsUnambiguous
    BY DEF IInv
  <1> QED
    BY <1>1, ClaimsInvariance, PTL

\* Assigned claims and live explicit readers exclude each other.
THEOREM ReadersAndClaimsExclude == Spec => []AssignedClaimsRespectReaders
  <1>1. IInv => AssignedClaimsRespectReaders
    BY DEF IInv
  <1> QED
    BY <1>1, ClaimsInvariance, PTL

-----------------------------------------------------------------------------
(* What a step may do to the delta of one key. *)

\* A fresh key takes an empty delta, or what a hand-over moves to it.
Starts(k) == k \notin Issued /\ staged'[k] \in Delta /\ staged'[k].verdicts = NoVerdicts
\* A reassignment keeps the files and drops the verdicts.
Reassigns(k) ==
  staged'[k] \in Delta /\ staged'[k].files = DeltaOf(k).files /\ staged'[k].verdicts = NoVerdicts
\* What leaves the key of a hand-over is whole under the key that takes the path.
HandsOver(k) ==
  /\ staged'[k] \in Delta /\ staged'[k].verdicts = DeltaOf(k).verdicts
  /\ \E n \in Keys \ {k} :
       /\ staged'[n] \in Delta
       /\ \A p \in Paths : \/ staged'[k].files[p] = DeltaOf(k).files[p]
                           \/ owners'[p] = n /\ staged'[n].files[p] = DeltaOf(k).files[p]
\* A write and a discard are a revision of their own.
Revises(k) ==
  /\ staged'[k] \in Delta /\ staged'[k].verdicts = NoVerdicts
  /\ staged'[k].revision = DeltaOf(k).revision + 1
IsJudged(k) ==
  \E u \in Judges, g \in Issued, pass \in BOOLEAN :
    /\ Verify(u, g, pass) /\ bindings[g].over = k
    /\ staged'[k] \in Delta /\ staged'[k].files = DeltaOf(k).files
Closes(k)  == \E accepted \in {asked, Nothing} : Consolidate(k, accepted) /\ staged'[k] = Nothing
Clears(k)  == ~Author(k) /\ staged'[k] \in {Nothing, NoDelta}

\* A delta changes in one of these ways only.
DeltaMoves(k) ==
  \/ staged'[k] = staged[k]
  \/ Starts(k) \/ Reassigns(k) \/ HandsOver(k) \/ Revises(k) \/ IsJudged(k) \/ Closes(k) \/ Clears(k)

\* A fresh claim leaves every other delta as it was.
LEMMA ClaimMoves ==
  ASSUME TypeOK, NEW b, NEW S \in SUBSET Paths, ClaimAs(issued + 1, b, S), issued < MaxKeys, NEW k \in Keys
  PROVE  DeltaMoves(k)
  <1> DEFINE d == [NoDelta EXCEPT !.bases = S]
  <1>1. issued + 1 \in Keys \ Issued
    BY NewKeyEffect DEF ClaimAs
  <1>2. d \in Delta /\ d.verdicts = NoVerdicts
    BY NoDeltaType DEF NoDelta, Delta
  <1>3. staged' = [staged EXCEPT ![issued + 1] = d]
    BY DEF ClaimAs
  <1> HIDE DEF d
  <1> QED
    BY <1>1, <1>2, <1>3 DEF DeltaMoves, Starts, TypeOK

\* The two keys of a hand-over divide what the first had staged.
LEMMA HandOverMoves ==
  ASSUME TypeOK, NEW u, NEW S \in SUBSET Paths, NEW R, NEW j \in Issued, HandOver(j, u, S, R), NEW k \in Keys
  PROVE  DeltaMoves(k)
  <1> DEFINE n == issued + 1
             moved == S \cap Owned(j)
             taken == [NoDelta EXCEPT !.files = MovedFiles(j, S),
                         !.bases = (S \ moved) \cup (moved \cap staged[j].bases)]
             left  == [staged[j] EXCEPT !.files = KeptFiles(j, S), !.bases = @ \ moved]
  <1>1. n \in Keys \ Issued
    BY NewKeyEffect DEF HandOver
  <1>2. j \in Keys /\ j # n /\ staged[j] \in Delta /\ DeltaOf(j) = staged[j] /\ staged[j] # Nothing
    BY <1>1, IssuedAreKeys DEF HandOver, DeltaOf, NoDelta, Set, Empty, TypeOK
  <1>3. MovedFiles(j, S) \in Files /\ KeptFiles(j, S) \in Files
    BY <1>2, HandOverType
  <1>4. taken \in Delta /\ taken.files = MovedFiles(j, S) /\ taken.verdicts = NoVerdicts
    BY <1>2, <1>3, NoDeltaType DEF NoDelta, Delta
  <1>5. left \in Delta /\ left.files = KeptFiles(j, S) /\ left.verdicts = staged[j].verdicts
    BY <1>2, <1>3 DEF Delta
  <1>6. staged' = [staged EXCEPT ![n] = taken, ![j] = left]
    BY <1>1, <1>2 DEF HandOver, TypeOK, Delta
  <1> HIDE DEF taken, left
  <1>7. staged'[n] = taken /\ staged'[j] = left /\ \A i \in Keys \ {n, j} : staged'[i] = staged[i]
    BY <1>1, <1>2, <1>6 DEF TypeOK
  <1>8. CASE k = n
    BY <1>1, <1>4, <1>7, <1>8 DEF DeltaMoves, Starts
  <1>9. CASE k = j
    <2>1. \A p \in Paths : \/ KeptFiles(j, S)[p] = staged[j].files[p]
                           \/ owners'[p] = n /\ MovedFiles(j, S)[p] = staged[j].files[p]
      BY DEF HandOver, KeptFiles, MovedFiles
    <2>2. HandsOver(k)
      BY <1>1, <1>2, <1>4, <1>5, <1>7, <1>9, <2>1 DEF HandsOver
    <2> QED
      BY <2>2 DEF DeltaMoves
  <1> QED
    BY <1>7, <1>8, <1>9 DEF DeltaMoves

\* A step of the claims starts, reassigns or hands over.
LEMMA AuthorStepMoves ==
  ASSUME TypeOK, AuthorStep, NEW k \in Keys PROVE DeltaMoves(k)
  <1>1. ASSUME NEW u \in Workers, NEW S \in SUBSET Paths, NEW R \in ReadSets, AssignScope(u, S, R)
        PROVE  DeltaMoves(k)
    BY <1>1, ClaimMoves DEF AssignScope
  <1>2. ASSUME NEW u \in Workers, NEW S \in SUBSET Paths, NEW R \in ReadSets, NEW j \in Issued,
               Rebind(j, u, S, R)
        PROVE  DeltaMoves(k)
    <2> DEFINE d == [DeltaOf(j) EXCEPT !.bases = (@ \ (Owned(j) \ S)) \cup (S \ Owned(j)),
                                       !.verdicts = NoVerdicts]
    <2>1. j \in Keys /\ DeltaOf(j) \in Delta
      BY IssuedAreKeys, DeltaType
    <2>2. d \in Delta /\ d.files = DeltaOf(j).files /\ d.verdicts = NoVerdicts
      BY <2>1, NoDeltaType DEF Delta
    <2>3. staged' = [staged EXCEPT ![j] = d]
      BY <1>2 DEF Rebind
    <2> HIDE DEF d
    <2> QED
      BY <2>1, <2>2, <2>3 DEF DeltaMoves, Reassigns, TypeOK
  <1>3. ASSUME NEW u \in Workers, NEW S \in SUBSET Paths, BindFresh(u, S) PROVE DeltaMoves(k)
    BY <1>3, ClaimMoves DEF BindFresh
  <1>4. ASSUME NEW u, NEW j \in Issued, BindAdopt(u, j) \/ ReleaseClaim(j) PROVE DeltaMoves(k)
    BY <1>4 DEF BindAdopt, ReleaseClaim, Revoke, DeltaMoves
  <1> QED
    BY <1>1, <1>2, <1>3, <1>4, HandOverMoves DEF AuthorStep

\* A write, a verdict and the end of a delta concern one key.
LEMMA StagedStepMoves ==
  ASSUME TypeOK, GateInv, StagedStep, NEW k \in Keys PROVE DeltaMoves(k)
  <1>1. ASSUME NEW u, NEW j \in Issued, NEW q \in Paths, NEW v \in Content, Write(u, j, q, v)
        PROVE  DeltaMoves(k)
    <2> DEFINE d == [DeltaOf(j) EXCEPT !.files[q] = v, !.revision = @ + 1,
                                       !.bases = @ \cup {q}, !.verdicts = NoVerdicts]
    <2>1. j \in Keys /\ DeltaOf(j) \in Delta /\ DeltaOf(j).revision < MaxRevision
      BY <1>1, IssuedAreKeys, DeltaType DEF Write
    <2>2. d \in Delta /\ d.revision = DeltaOf(j).revision + 1 /\ d.verdicts = NoVerdicts
      <3>1. DeltaOf(j).revision + 1 \in 0..MaxRevision
        BY <2>1, BoundsAssumption DEF Delta
      <3>2. [DeltaOf(j).files EXCEPT ![q] = v] \in Files
        BY <2>1 DEF Delta, Files
      <3> QED
        BY <2>1, <3>1, <3>2, NoDeltaType DEF Delta
    <2>3. staged' = [staged EXCEPT ![j] = d]
      BY <1>1 DEF Write
    <2> HIDE DEF d
    <2> QED
      BY <2>1, <2>2, <2>3 DEF DeltaMoves, Revises, TypeOK
  <1>2. ASSUME NEW u \in Judges, NEW g \in Issued, NEW pass \in BOOLEAN, Verify(u, g, pass)
        PROVE  DeltaMoves(k)
    <2> DEFINE j == bindings[g].over
    <2>1. j \in Keys
      BY <1>2, VerdictEffect
    <2>2. PICK d \in Delta : staged' = [staged EXCEPT ![j] = d] /\ d.files = staged[j].files
      BY <1>2, VerdictEffect
    <2>3. DeltaOf(j) = staged[j]
      BY <1>2 DEF Verify, DeltaOf
    <2>4. CASE k = j
      <3>1. IsJudged(k)
        BY <1>2, <2>1, <2>2, <2>3, <2>4 DEF IsJudged, TypeOK
      <3> QED
        BY <3>1 DEF DeltaMoves
    <2> QED
      BY <2>1, <2>2, <2>4 DEF DeltaMoves, TypeOK
  <1>3. ASSUME NEW j \in Issued, Discard(j) PROVE DeltaMoves(k)
    <2>1. CASE k = j /\ staged[k] # Nothing
      <3> DEFINE d == [NoDelta EXCEPT !.revision = staged[k].revision + 1]
      <3>1. staged'[k] = d
        BY <1>3, <2>1 DEF Discard, TypeOK
      <3>2. d \in Delta /\ d.revision = DeltaOf(k).revision + 1 /\ d.verdicts = NoVerdicts
        <4>1. staged[k] \in Delta /\ staged[k].revision < MaxRevision
          BY <1>3, <2>1 DEF Discard, TypeOK
        <4>2. staged[k].revision + 1 \in 0..MaxRevision
          BY <4>1, BoundsAssumption DEF Delta
        <4> QED
          BY <2>1, <4>2, NoDeltaType DEF NoDelta, Delta, DeltaOf
      <3> QED
        BY <3>1, <3>2 DEF DeltaMoves, Revises
    <2> QED
      BY <1>3, <2>1 DEF Discard, DeltaMoves, TypeOK
  <1>4. ASSUME NEW j \in Issued, NEW accepted \in {asked, Nothing}, Consolidate(j, accepted) PROVE DeltaMoves(k)
    <2>1. j \in Keys /\ staged' = [staged EXCEPT ![j] = Nothing]
      BY <1>4, IssuedAreKeys DEF Consolidate, Closed
    <2>2. CASE k = j
      BY <1>4, <2>1, <2>2 DEF DeltaMoves, Closes, TypeOK
    <2> QED
      BY <2>1, <2>2 DEF DeltaMoves, TypeOK
  <1>5. ASSUME NEW j \in Issued, ConsolidateRefused(j) PROVE DeltaMoves(k)
    BY <1>5 DEF ConsolidateRefused, store, DeltaMoves
  <1> QED
    BY <1>1, <1>2, <1>3, <1>4, <1>5 DEF StagedStep, Closing

LEMMA DeltaStep == IInv /\ [Next]_vars => \A k \in Keys : DeltaMoves(k)
  <1> SUFFICES ASSUME IInv, [Next]_vars, NEW k \in Keys PROVE DeltaMoves(k)
    OBVIOUS
  <1>1. ASSUME GatesOnly PROVE DeltaMoves(k)
    BY <1>1 DEF GatesOnly, DeltaMoves, Clears
  <1>2. ASSUME RunStep PROVE DeltaMoves(k)
    BY <1>2 DEF RunStep, store, DeltaMoves
  <1> QED
    BY <1>1, <1>2, AuthorStepMoves, StagedStepMoves, StepKinds DEF IInv

\* What is staged under a key is an author's.
LEMMA StagedIsAuthored ==
  ASSUME IInv, NEW k \in Keys, NEW p \in Paths, DeltaOf(k).files[p] # Unset
  PROVE  owners[p] = k /\ Author(k)
  BY DEF IInv, StagedOwned, GateInv, Set, Owned, Keys, NoKey

\* Staged content leaves a key only by its holder's write, by a hand-over that
\* carries it whole, or by the orchestrator closing the delta (stageLocked,
\* handOverLocked, consolidateLocked, rollbackLocked).
THEOREM StagedWorkIsKept == Spec => WorkIsKept
  <1> DEFINE Keeps ==
        \A k \in Keys, p \in Paths :
          DeltaOf(k).files[p] # Unset /\ DeltaOf(k)'.files[p] # DeltaOf(k).files[p] =>
            \/ DeltaOf(k)'.revision = DeltaOf(k).revision + 1
            \/ staged'[k] = Nothing
            \/ \E n \in Keys \ {k} :
                 owners'[p] = n /\ DeltaOf(n)'.files[p] = DeltaOf(k).files[p]
  <1>1. IInv /\ [Next]_vars => Keeps
    <2> SUFFICES ASSUME IInv, [Next]_vars, NEW k \in Keys, NEW p \in Paths,
                        DeltaOf(k).files[p] # Unset, DeltaOf(k)'.files[p] # DeltaOf(k).files[p],
                        staged'[k] # Nothing, DeltaOf(k)'.revision # DeltaOf(k).revision + 1
                 PROVE  \E n \in Keys \ {k} :
                          owners'[p] = n /\ DeltaOf(n)'.files[p] = DeltaOf(k).files[p]
      OBVIOUS
    <2>1. Author(k) /\ DeltaOf(k)' = staged'[k]
      BY StagedIsAuthored DEF DeltaOf
    <2>2. DeltaMoves(k)
      BY DeltaStep
    <2>3. HandsOver(k)
      BY <2>1, <2>2 DEF DeltaMoves, Starts, Reassigns, Revises, IsJudged, Closes, Clears, Author, DeltaOf
    <2>4. PICK n \in Keys \ {k} : staged'[n] \in Delta /\ owners'[p] = n /\ staged'[n].files[p] = DeltaOf(k).files[p]
      BY <2>1, <2>3 DEF HandsOver
    <2>5. DeltaOf(n)' = staged'[n]
      BY <2>4, NothingAssumption DEF DeltaOf
    <2> QED
      BY <2>4, <2>5
  <1>2. Spec => [][Keeps]_vars
    BY <1>1, ClaimsInvariance, PTL DEF Spec
  <1> QED
    BY <1>2 DEF WorkIsKept

\* Work with a failing current verdict leaves by consolidation only after the
\* user was shown this very staged state (verdict.go errStaleAcceptance).
THEOREM FailingWorkNeedsAcceptance == Spec => FailingNeedsAcceptance
  <1> DEFINE Accepted ==
        \A k \in Keys :
          staged[k] # Nothing /\ staged'[k] = Nothing /\ Author(k) /\ Failing(k)
            => asked = StagedState(k)
  <1>1. IInv /\ [Next]_vars => Accepted
    <2> SUFFICES ASSUME IInv, [Next]_vars, NEW k \in Keys,
                        staged[k] # Nothing, staged'[k] = Nothing, Author(k), Failing(k)
                 PROVE  asked = StagedState(k)
      OBVIOUS
    <2>1. Closes(k)
      BY DeltaStep, NothingAssumption
         DEF DeltaMoves, Starts, Reassigns, HandsOver, Revises, IsJudged, Clears
    <2>2. PICK accepted \in {asked, Nothing} : Consolidate(k, accepted)
      BY <2>1 DEF Closes
    <2> QED
      BY <2>2 DEF Consolidate
  <1>2. Spec => [][Accepted]_vars
    BY <1>1, ClaimsInvariance, PTL DEF Spec
  <1> QED
    BY <1>2 DEF FailingNeedsAcceptance

-----------------------------------------------------------------------------
(* The gates of a launch, and the newest gate of a judge.                  *)

\* A gate of the unit's present attempt that no later one replaced.
GateOf(u, g) ==
  /\ Gate(g) /\ bindings[g].unit = u
  /\ bindings[g].attempt = runs[u].attempt /\ ~bindings[g].superseded

\* The command that prepares a launch has admitted it; once it has issued the
\* gates they are over the authors it names.
LaunchInv ==
  /\ command.next \in {"gates", "ready"} =>
       InFlight(command.unit) /\ runs[command.unit].step = "admitted"
  /\ command.next = "ready" =>
       \A g \in Issued : GateOf(command.unit, g) => bindings[g].over \in command.authors

\* The gates of an attempt that is not ready await it: nobody adopted them.
PendingInv ==
  \A u \in Units, g \in Issued :
    InFlight(u) /\ runs[u].step = "admitted" /\ GateOf(u, g) => bindings[g].prelaunch

\* A gate that was not replaced is its judge's newest over that author.
NewestInv ==
  \A g, h \in Issued :
    /\ Gate(g) /\ Gate(h) /\ bindings[g].over = bindings[h].over
    /\ AgentOf[bindings[g].unit] = AgentOf[bindings[h].unit]
    /\ ~bindings[g].superseded
    => h <= g

\* The inductive invariant of the gates.
JudgeInv == IInv /\ LaunchInv /\ PendingInv /\ NewestInv /\ GatesAreDeclared

\* Outside IssueGates, a gate keeps its author, unit and attempt, and stops
\* pending only when its unit adopts it or is not running.
GatesKept ==
  \A g \in Issued' : bindings'[g].over # NoKey =>
    /\ Gate(g)
    /\ bindings'[g].over = bindings[g].over /\ bindings'[g].unit = bindings[g].unit
    /\ bindings'[g].attempt = bindings[g].attempt /\ bindings'[g].superseded = bindings[g].superseded
    /\ bindings[g].prelaunch /\ ~bindings'[g].prelaunch =>
         Current(bindings[g].unit) \/ ~InFlight(bindings[g].unit)

\* A step that changes no gate.
LEMMA UntouchedGates ==
  ASSUME TypeOK, \A g \in Issued' : (g \in Issued /\ bindings'[g] = bindings[g]) \/ bindings'[g].over = NoKey
  PROVE  GatesKept
  BY DEF GatesKept, Gate

LEMMA SameBindings ==
  ASSUME TypeOK, UNCHANGED bindings PROVE GatesKept
  BY UntouchedGates DEF Issued

LEMMA ClaimGates ==
  ASSUME TypeOK, AuthorStep PROVE GatesKept
  <1>1. ASSUME NEW u, NEW n, NEW R, issued < MaxKeys, bindings' = With(bindings, issued + 1, FreshBinding(u, n, R))
        PROVE  GatesKept
    <2>1. FreshBinding(u, n, R).over = NoKey
      BY DEF FreshBinding
    <2> QED
      BY <1>1, <2>1, NewKeyEffect, UntouchedGates
  <1>2. ASSUME NEW u, NEW S, NEW R, AssignScope(u, S, R) PROVE GatesKept
    BY <1>1, <1>2 DEF AssignScope, ClaimAs
  <1>3. ASSUME NEW u, NEW S, BindFresh(u, S) PROVE GatesKept
    BY <1>1, <1>3 DEF BindFresh, ClaimAs
  <1>4. ASSUME NEW u, NEW S, NEW R, NEW k \in Issued, HandOver(k, u, S, R) PROVE GatesKept
    BY <1>1, <1>4 DEF HandOver
  <1>5. ASSUME NEW u, NEW S, NEW R, NEW k \in Issued, Rebind(k, u, S, R) PROVE GatesKept
    <2>1. bindings[k].over = NoKey
      BY <1>5 DEF Rebind, Reassignable, Author
    <2> QED
      BY <1>5, <2>1, RebindEffect, UntouchedGates
  <1>6. ASSUME NEW u, NEW k \in Issued, BindAdopt(u, k) PROVE GatesKept
    <2>1. bindings[k].over = NoKey
      BY <1>6 DEF BindAdopt, Author
    <2> QED
      BY <1>6, <2>1, AdoptEffect, UntouchedGates
  <1>7. ASSUME NEW k \in Issued, ReleaseClaim(k) PROVE GatesKept
    <2>1. /\ Issued' = Issued /\ \A i \in Issued \ {k} : bindings'[i] = bindings[i]
          /\ bindings'[k] = [bindings[k] EXCEPT !.prelaunch = FALSE, !.held = FALSE]
          /\ bindings[k] \in Binding
      BY <1>7, ReleaseEffect
    <2>2. ~InFlight(bindings[k].unit)
      BY <1>7 DEF ReleaseClaim
    <2>3. /\ bindings'[k].over = bindings[k].over /\ bindings'[k].unit = bindings[k].unit
          /\ bindings'[k].attempt = bindings[k].attempt /\ bindings'[k].superseded = bindings[k].superseded
      BY <2>1 DEF Binding
    <2> QED
      BY <2>1, <2>2, <2>3 DEF GatesKept, Gate
  <1> QED
    BY <1>2, <1>3, <1>4, <1>5, <1>6, <1>7 DEF AuthorStep

LEMMA ChildrenGates ==
  ASSUME TypeOK, Children PROVE GatesKept
  <1>1. ASSUME NEW u, AdoptGates(u) PROVE GatesKept
    <2> DEFINE mine == {g \in Issued : /\ Gate(g) /\ bindings[g].prelaunch
                                       /\ bindings[g].unit = u
                                       /\ bindings[g].attempt = runs[u].attempt}
    <2>1. Current(u)
      BY <1>1 DEF AdoptGates
    <2>2. /\ Issued' = Issued
          /\ \A g \in Issued : bindings'[g] = IF g \in mine THEN [bindings[g] EXCEPT !.prelaunch = FALSE, !.held = TRUE]
                                              ELSE bindings[g]
      BY <1>1 DEF AdoptGates, Issued
    <2>3. ASSUME NEW g \in mine
          PROVE  /\ bindings'[g].over = bindings[g].over /\ bindings'[g].unit = bindings[g].unit
                 /\ bindings'[g].attempt = bindings[g].attempt /\ bindings'[g].superseded = bindings[g].superseded
                 /\ Gate(g) /\ bindings[g].unit = u
      <3>1. bindings[g] \in Binding
        BY DEF TypeOK, Issued
      <3>2. bindings'[g] = [bindings[g] EXCEPT !.prelaunch = FALSE, !.held = TRUE]
        BY <2>2
      <3> QED
        BY <3>1, <3>2 DEF Binding
    <2> HIDE DEF mine
    <2> QED
      BY <2>1, <2>2, <2>3 DEF GatesKept, Gate
  <1>2. ASSUME NEW u, NEW h \in Issued, GateRead(u, h) PROVE GatesKept
    <2>1. PICK r : bindings' = [bindings EXCEPT ![h].judged = r]
      BY <1>2 DEF GateRead
    <2>2. bindings[h] \in Binding
      BY DEF TypeOK, Issued
    <2>3. Issued' = Issued /\ \A i \in Issued \ {h} : bindings'[i] = bindings[i]
      BY <2>1 DEF Issued
    <2>4. /\ bindings'[h].over = bindings[h].over /\ bindings'[h].unit = bindings[h].unit
          /\ bindings'[h].attempt = bindings[h].attempt /\ bindings'[h].superseded = bindings[h].superseded
          /\ bindings'[h].prelaunch = bindings[h].prelaunch
      BY <2>1, <2>2 DEF Issued, Binding
    <2> QED
      BY <2>3, <2>4 DEF GatesKept, Gate
  <1>3. ASSUME NEW u \in Workers, \/ \E k \in Issued : BindAdopt(u, k)
                                  \/ \E S \in SUBSET Paths : BindFresh(u, S)
        PROVE  GatesKept
    BY <1>3, ClaimGates DEF AuthorStep
  <1>4. ASSUME NEW u, NEW k, NEW p, NEW v, Write(u, k, p, v) PROVE GatesKept
    BY <1>4, SameBindings DEF Write
  <1>5. ASSUME NEW u, NEW g, NEW pass, Verify(u, g, pass) PROVE GatesKept
    BY <1>5, SameBindings DEF Verify
  <1> QED
    BY <1>1, <1>2, <1>3, <1>4, <1>5 DEF Children

LEMMA ClosingGates ==
  ASSUME TypeOK, Closing PROVE GatesKept
  <1>1. UNCHANGED bindings
    BY DEF Closing, ConsolidateRefused, Consolidate, Closed, Discard, store
  <1> QED
    BY <1>1, SameBindings

LEMMA CancelGates ==
  ASSUME TypeOK, NEW u, Cancel(u) PROVE GatesKept
  <1>1. Issued' \subseteq Issued /\ \A g \in Issued' : bindings'[g] = bindings[g]
    BY DEF Cancel, Issued
  <1> QED
    BY <1>1, UntouchedGates

\* The new gates are the newest keys, one of each author that had none pending;
\* of the old ones those they replace are superseded, and those the launch does
\* not name are gone.
LEMMA IssuedGates ==
  ASSUME TypeOK, CommandInv, IssueGates
  PROVE  LET u == command.unit
             N == ToIssue(u, command.authors)
         IN /\ \A g \in Issued' \cap Issued :
                 /\ g \notin Surplus(u, command.authors)
                 /\ bindings'[g] = IF g \in Superseded(u, N) THEN Retire(bindings[g]) ELSE bindings[g]
            /\ \A g \in Issued' \ Issued :
                 /\ g > issued
                 /\ \E k \in N : g = GateKey(N, k) /\ bindings'[g] = NewGate(u, k)
  <1> DEFINE u == command.unit
             N == ToIssue(u, command.authors)
             gone == Surplus(u, command.authors)
             old == Superseded(u, N)
             new == {GateKey(N, k) : k \in N}
             AuthorOf(g) == CHOOSE k \in N : GateKey(N, k) = g
  <1>1. N \in SUBSET Keys /\ issued \in Nat /\ Issued \subseteq 1..issued
    BY IssuedAreKeys DEF CommandInv, Author, ToIssue, TypeOK, Issued
  <1>2. \A k \in N : GateKey(N, k) \in (issued + 1)..(issued + Cardinality(N)) /\ Cardinality(N) \in Nat
    BY <1>1, GateKeyRange
  <1>3. bindings' = [g \in (Issued \ gone) \cup new |->
          IF g \in new THEN NewGate(u, AuthorOf(g))
          ELSE IF g \in old THEN Retire(bindings[g]) ELSE bindings[g]]
    BY DEF IssueGates
  <1>4. \A g \in new : g \in Nat /\ g > issued
    BY <1>1, <1>2
  <1>5. new \cap Issued = {}
    BY <1>1, <1>4
  <1> HIDE DEF gone, old, new
  <1>6. Issued' = (Issued \ gone) \cup new
    BY <1>3 DEF Issued
  <1>7. \A g \in Issued' \cap Issued : g \notin gone /\ bindings'[g] = IF g \in old THEN Retire(bindings[g]) ELSE bindings[g]
    BY <1>3, <1>5, <1>6
  <1>8. ASSUME NEW g \in Issued' \ Issued
        PROVE  g > issued /\ \E k \in N : g = GateKey(N, k) /\ bindings'[g] = NewGate(u, k)
    <2>1. g \in new
      BY <1>6
    <2>2. PICK k \in N : GateKey(N, k) = g
      BY <2>1 DEF new
    <2>3. AuthorOf(g) \in N /\ GateKey(N, AuthorOf(g)) = g
      BY <2>2
    <2>4. bindings'[g] = NewGate(u, AuthorOf(g))
      BY <1>3, <2>1
    <2> HIDE DEF AuthorOf
    <2> QED
      BY <1>4, <2>1, <2>3, <2>4
  <1> QED
    BY <1>7, <1>8 DEF gone, old

LEMMA GatesStep == IInv /\ [Next]_vars => GatesKept \/ IssueGates
  <1> SUFFICES ASSUME IInv, [Next]_vars PROVE GatesKept \/ IssueGates
    OBVIOUS
  <1> USE DEF IInv
  <1>1. CASE Claims
    BY <1>1, ClaimGates DEF Claims, AuthorStep
  <1>2. CASE Launching
    <2>1. ASSUME NEW u, Finish(u) PROVE GatesKept
      BY <2>1, CancelGates DEF Finish
    <2>2. ASSUME Compensate PROVE GatesKept
      BY <2>2, CancelGates, SameBindings DEF Compensate, store
    <2>3. ASSUME MarkReady \/ Settle \/ Stop \/ \E u \in Units, A \in SUBSET Issued : Launch(u, A) PROVE GatesKept
      BY <2>3, SameBindings DEF MarkReady, Settle, Stop, Launch, store
    <2> QED
      BY <1>2, <2>1, <2>2, <2>3 DEF Launching
  <1>3. CASE UNCHANGED vars
    BY <1>3, SameBindings DEF vars
  <1> QED
    BY <1>1, <1>2, <1>3, ChildrenGates, ClosingGates DEF Next

\* The steps that start, prepare and settle an attempt; nothing else reaches it.
LEMMA RunKinds ==
  ASSUME [Next]_vars
  PROVE  \/ UNCHANGED <<runs, declared>>
         \/ MarkReady \/ Settle
         \/ \E u \in Units, A \in SUBSET Issued : Launch(u, A)
  <1>1. Claims => UNCHANGED <<runs, declared>>
    <2>1. ASSUME NEW u, NEW S, NEW R, AssignScope(u, S, R) PROVE UNCHANGED <<runs, declared>>
      BY <2>1 DEF AssignScope
    <2>2. ASSUME NEW u, NEW S, NEW R, NEW k, Rebind(k, u, S, R) PROVE UNCHANGED <<runs, declared>>
      BY <2>2 DEF Rebind
    <2>3. ASSUME NEW u, NEW S, NEW R, NEW k, HandOver(k, u, S, R) PROVE UNCHANGED <<runs, declared>>
      BY <2>3 DEF HandOver
    <2>4. ASSUME NEW k, ReleaseClaim(k) PROVE UNCHANGED <<runs, declared>>
      BY <2>4 DEF ReleaseClaim, Revoke
    <2> QED
      BY <2>1, <2>2, <2>3, <2>4 DEF Claims
  <1>2. Children => UNCHANGED <<runs, declared>>
    BY DEF Children, BindAdopt, BindFresh, Write, AdoptGates, GateRead, Verify
  <1>3. Closing => UNCHANGED <<runs, declared>>
    BY DEF Closing, ConsolidateRefused, Consolidate, Closed, Discard
  <1>4. IssueGates \/ Compensate \/ Stop \/ (\E u \in Units : Finish(u)) => UNCHANGED <<runs, declared>>
    BY DEF IssueGates, Finish, Compensate, Stop
  <1> QED
    BY <1>1, <1>2, <1>3, <1>4 DEF vars, Next, Launching

\* A gate of after the step was one before it, of the same attempt of its unit.
LEMMA GateBefore ==
  ASSUME GatesKept, NEW u, NEW g \in Issued', GateOf(u, g)', runs'[u].attempt = runs[u].attempt
  PROVE  GateOf(u, g) /\ bindings'[g].over = bindings[g].over
  BY DEF GatesKept, GateOf, Gate

\* The gates an issue leaves as they were, the ones it replaces, and the new.
LEMMA GateIssued ==
  ASSUME IInv, IssueGates, NEW g \in Issued', ~bindings'[g].superseded
  PROVE  \/ /\ g \in Issued /\ bindings'[g] = bindings[g]
            /\ g \notin Surplus(command.unit, command.authors)
            /\ g \notin Superseded(command.unit, ToIssue(command.unit, command.authors))
         \/ /\ g \notin Issued /\ g > issued
            /\ \E k \in ToIssue(command.unit, command.authors) :
                 /\ g = GateKey(ToIssue(command.unit, command.authors), k)
                 /\ bindings'[g] = NewGate(command.unit, k)
  <1>1. \A i \in Issued : Retire(bindings[i]).superseded
    <2> SUFFICES ASSUME NEW i \in Issued PROVE Retire(bindings[i]).superseded
      OBVIOUS
    <2>1. bindings[i] \in Binding
      BY DEF IInv, TypeOK, Issued
    <2> QED
      BY <2>1 DEF Retire, Binding
  <1> QED
    BY <1>1, IssuedGates DEF IInv

\* A replaced gate stays replaced, and a new one is over an author of its own.
LEMMA NewestStep == IInv /\ NewestInv /\ [Next]_vars => NewestInv'
  <1> SUFFICES ASSUME IInv, NewestInv, [Next]_vars, NEW g \in Issued', NEW h \in Issued',
                      Gate(g)', Gate(h)', bindings'[g].over = bindings'[h].over,
                      AgentOf[bindings'[g].unit] = AgentOf[bindings'[h].unit],
                      ~bindings'[g].superseded
               PROVE  h <= g
    BY DEF NewestInv
  <1>1. CASE GatesKept
    BY <1>1 DEF GatesKept, Gate, NewestInv
  <1>2. CASE IssueGates
    <2> DEFINE u == command.unit
               N == ToIssue(u, command.authors)
    <2>1. issued \in Nat /\ Issued \subseteq 1..issued /\ Issued' \subseteq Nat
      <3>1. TypeOK'
        BY TypeStep DEF IInv
      <3> QED
        BY <3>1, IssuedAreKeys DEF IInv, TypeOK, Issued
    <2>2. \A i \in Issued : bindings[i] \in Binding
      BY DEF IInv, TypeOK, Issued
    <2>3. \/ h \in Issued /\ bindings'[h].over = bindings[h].over /\ bindings'[h].unit = bindings[h].unit
          \/ h > issued /\ \E k \in N : h = GateKey(N, k) /\ bindings'[h] = NewGate(u, k)
      <3>1. CASE h \in Issued
        <4>1. bindings'[h] = bindings[h] \/ bindings'[h] = Retire(bindings[h])
          BY <1>2, <3>1, IssuedGates DEF IInv
        <4> QED
          BY <2>2, <3>1, <4>1 DEF Retire, Binding
      <3>2. CASE h \notin Issued
        BY <1>2, <3>2, IssuedGates DEF IInv
      <3> QED
        BY <3>1, <3>2
    <2>4. CASE g \in Issued /\ bindings'[g] = bindings[g] /\ g \notin Superseded(u, N)
      <3>1. CASE h \in Issued /\ bindings'[h].over = bindings[h].over /\ bindings'[h].unit = bindings[h].unit
        BY <2>4, <3>1 DEF NewestInv, Gate
      <3>2. CASE \E k \in N : bindings'[h] = NewGate(u, k)
        <4>1. PICK k \in N : bindings'[h] = NewGate(u, k)
          BY <3>2
        <4>2. bindings'[h].over = k /\ bindings'[h].unit = u
          BY <4>1 DEF NewGate
        <4>3. g \in Superseded(u, N)
          BY <2>4, <4>2 DEF Superseded, Gate
        <4> QED
          BY <2>4, <4>3
      <3> QED
        BY <2>3, <3>1, <3>2
    <2>5. CASE g > issued /\ \E k \in N : g = GateKey(N, k) /\ bindings'[g] = NewGate(u, k)
      <3>1. PICK k \in N : g = GateKey(N, k) /\ bindings'[g] = NewGate(u, k)
        BY <2>5
      <3>2. bindings'[g].over = k
        BY <3>1 DEF NewGate
      <3>3. CASE h \in Issued
        BY <2>1, <2>5, <3>3
      <3>4. CASE \E j \in N : h = GateKey(N, j) /\ bindings'[h] = NewGate(u, j)
        <4>1. PICK j \in N : h = GateKey(N, j) /\ bindings'[h] = NewGate(u, j)
          BY <3>4
        <4>2. bindings'[h].over = j
          BY <4>1 DEF NewGate
        <4>3. h = g
          BY <3>1, <3>2, <4>1, <4>2
        <4> QED
          BY <2>1, <4>3
      <3> QED
        BY <2>3, <3>3, <3>4
    <2> QED
      BY <1>2, <2>4, <2>5, GateIssued
  <1> QED
    BY <1>1, <1>2, GatesStep

\* Nobody adopts the gates of an attempt that is not ready, and an attempt that
\* starts has none.
LEMMA PendingStep == IInv /\ LaunchInv /\ PendingInv /\ [Next]_vars => PendingInv'
  <1> SUFFICES ASSUME IInv, PendingInv, [Next]_vars, NEW u \in Units, NEW g \in Issued',
                      InFlight(u)', runs'[u].step = "admitted", GateOf(u, g)'
               PROVE  bindings'[g].prelaunch
    BY DEF PendingInv
  <1>1. CASE IssueGates
    <2>1. UNCHANGED runs
      BY <1>1 DEF IssueGates
    <2>2. CASE g \in Issued /\ bindings'[g] = bindings[g]
      BY <2>1, <2>2 DEF PendingInv, GateOf, Gate, InFlight
    <2>3. CASE \E k : bindings'[g] = NewGate(command.unit, k)
      BY <2>3 DEF NewGate
    <2> QED
      BY <1>1, <2>2, <2>3, GateIssued DEF GateOf
  <1>2. CASE GatesKept /\ runs'[u] = runs[u]
    <2>1. GateOf(u, g)
      BY <1>2, GateBefore
    <2>2. InFlight(u) /\ runs[u].step = "admitted" /\ g \in Issued
      BY <1>2, <2>1 DEF InFlight, GateOf, Gate
    <2>3. bindings[g].prelaunch
      BY <2>1, <2>2 DEF PendingInv
    <2> QED
      BY <1>2, <2>1, <2>2, <2>3 DEF GatesKept, GateOf, Gate, Current
  <1>3. CASE GatesKept /\ runs'[u] # runs[u]
    <2>1. runs \in [Units -> Run] /\ u \in Units
      BY DEF IInv, TypeOK
    <2>2. ~MarkReady /\ ~Settle
      BY <1>3, <2>1 DEF MarkReady, Settle, InFlight, Run
    <2>3. PICK w \in Units, A \in SUBSET Issued : Launch(w, A)
      BY <1>3, <2>2, RunKinds
    <2>4. runs'[u].attempt = runs[u].attempt + 1 /\ runs[u].attempt \in Nat
      BY <1>3, <2>1, <2>3, BoundsAssumption DEF Launch, Run
    <2>5. Gate(g) /\ bindings[g].unit = u /\ bindings[g].attempt = runs[u].attempt + 1
      BY <1>3, <2>4 DEF GateOf, GatesKept, Gate
    <2>6. bindings[g].attempt <= runs[u].attempt
      BY <2>5 DEF IInv, AttemptInv, Gate
    <2> QED
      BY <2>4, <2>5, <2>6
  <1> QED
    BY <1>1, <1>2, <1>3, GatesStep

\* The gates a launch has issued are over the authors it names: those an
\* interrupted preparation left and it does not name are gone.
LEMMA LaunchStep == IInv /\ LaunchInv /\ PendingInv /\ [Next]_vars => LaunchInv'
  <1> SUFFICES ASSUME IInv, LaunchInv, PendingInv, [Next]_vars PROVE LaunchInv'
    OBVIOUS
  <1>1. ASSUME NEW u \in Units, NEW A \in SUBSET Issued, Launch(u, A) PROVE LaunchInv'
    <2>1. command'.unit = u /\ command'.next = "gates"
      BY <1>1 DEF Launch
    <2>2. InFlight(u)' /\ runs'[u].step = "admitted"
      BY <1>1 DEF Launch, InFlight, IInv, TypeOK
    <2> QED
      BY <2>1, <2>2 DEF LaunchInv, InFlight
  <1>2. ASSUME IssueGates PROVE LaunchInv'
    <2> DEFINE u == command.unit
    <2>1. /\ command'.unit = u /\ command'.authors = command.authors /\ command'.next = "ready"
          /\ UNCHANGED runs
      BY <1>2 DEF IssueGates, IInv, TypeOK
    <2>2. InFlight(u) /\ runs[u].step = "admitted" /\ u \in Units
      BY <1>2 DEF IssueGates, LaunchInv, IInv, CommandInv
    <2>3. ASSUME NEW g \in Issued', GateOf(u, g)' PROVE bindings'[g].over \in command.authors
      <3>1. CASE g \in Issued /\ bindings'[g] = bindings[g] /\ g \notin Surplus(u, command.authors)
        <4>1. GateOf(u, g)
          BY <2>1, <2>3, <3>1 DEF GateOf, Gate
        <4>2. g \in AttemptGates(u)
          BY <2>2, <3>1, <4>1 DEF PendingInv, GateOf, AttemptGates
        <4> QED
          BY <3>1, <4>2 DEF Surplus
      <3>2. CASE \E k \in ToIssue(u, command.authors) : bindings'[g] = NewGate(u, k)
        BY <3>2 DEF ToIssue, NewGate
      <3> QED
        BY <1>2, <2>3, <3>1, <3>2, GateIssued DEF GateOf
    <2>4. (\A g \in Issued : GateOf(command.unit, g) => bindings[g].over \in command.authors)'
      BY <2>1, <2>3 DEF GateOf, Gate
    <2> QED
      BY <2>1, <2>2, <2>4 DEF LaunchInv, InFlight
  <1>3. ASSUME MarkReady \/ Settle \/ Stop PROVE LaunchInv'
    BY <1>3 DEF MarkReady, Settle, Stop, Idle, LaunchInv
  <1>4. ASSUME Compensate \/ \E u \in Units : Finish(u) PROVE LaunchInv'
    <2>1. ASSUME Compensate PROVE command'.next = "finish"
      <3>1. {"authors", "next"} \subseteq DOMAIN command
        BY DEF IInv, TypeOK
      <3>2. command' = [command EXCEPT !.authors = {}, !.next = "finish"]
        BY <2>1 DEF Compensate
      <3> QED
        BY <3>1, <3>2
    <2>2. ASSUME NEW u, Finish(u) PROVE command'.next = "finish"
      BY <2>2 DEF Finish
    <2> QED
      BY <1>4, <2>1, <2>2 DEF LaunchInv
  <1>5. ASSUME Claims \/ Children \/ Closing PROVE LaunchInv'
    <2>1. Claims => command' = command /\ Ready
      <3>1. ASSUME NEW u, NEW S, NEW R, AssignScope(u, S, R) PROVE command' = command /\ Ready
        BY <3>1 DEF AssignScope
      <3>2. ASSUME NEW u, NEW S, NEW R, NEW k, Rebind(k, u, S, R) PROVE command' = command /\ Ready
        BY <3>2 DEF Rebind, Reassignable
      <3>3. ASSUME NEW u, NEW S, NEW R, NEW k, HandOver(k, u, S, R) PROVE command' = command /\ Ready
        BY <3>3 DEF HandOver, Reassignable
      <3>4. ASSUME NEW k, ReleaseClaim(k) PROVE command' = command /\ Ready
        BY <3>4 DEF ReleaseClaim, Revoke
      <3> QED
        BY <3>1, <3>2, <3>3, <3>4 DEF Claims
    <2>2. Children => command' = command /\ Ready
      BY DEF Children, BindAdopt, BindFresh, Write, AdoptGates, GateRead, Verify
    <2>3. Closing => command' = command /\ Ready
      BY DEF Closing, ConsolidateRefused, Consolidate, Closed, Discard
    <2>4. command'.next = "none"
      BY <1>5, <2>1, <2>2, <2>3 DEF Ready, Idle
    <2> QED
      BY <2>4 DEF LaunchInv
  <1>6. ASSUME UNCHANGED vars PROVE LaunchInv'
    <2>1. UNCHANGED <<command, runs, bindings>>
      BY <1>6 DEF vars
    <2> QED
      BY <2>1 DEF LaunchInv, InFlight, GateOf, Gate, Issued
  <1> QED
    BY <1>1, <1>2, <1>3, <1>4, <1>5, <1>6 DEF Next, Launching

\* What a judge's launch declares are its gates, and a running attempt gains none.
LEMMA DeclaredStep == JudgeInv /\ [Next]_vars => GatesAreDeclared'
  <1> SUFFICES ASSUME JudgeInv, [Next]_vars, NEW u \in Judges, NEW g \in Issued', Current(u)', GateOf(u, g)'
               PROVE  bindings'[g].over \in declared'[u]
    BY DEF GatesAreDeclared, GateOf
  <1> USE DEF JudgeInv
  <1>0. u \in Units /\ runs \in [Units -> Run] /\ declared \in [Judges -> SUBSET Keys]
    BY DEF IInv, TypeOK, Units
  <1>1. CASE IssueGates
    <2>1. UNCHANGED <<runs, declared>>
      BY <1>1 DEF IssueGates
    <2>2. runs[command.unit].step = "admitted"
      BY <1>1 DEF IssueGates, LaunchInv
    <2>3. CASE g \in Issued /\ bindings'[g] = bindings[g]
      BY <2>1, <2>3 DEF GatesAreDeclared, GateOf, Gate, Current, InFlight
    <2>4. CASE \E k : bindings'[g] = NewGate(command.unit, k)
      <3>1. u = command.unit
        BY <2>4 DEF GateOf, NewGate
      <3> QED
        BY <2>1, <2>2, <3>1 DEF Current
    <2> QED
      BY <1>1, <2>3, <2>4, GateIssued DEF GateOf
  <1>2. CASE GatesKept /\ runs'[u] = runs[u] /\ declared'[u] = declared[u]
    <2>1. GateOf(u, g) /\ bindings'[g].over = bindings[g].over
      BY <1>2, GateBefore
    <2>2. Current(u) /\ g \in Issued
      BY <1>2, <2>1 DEF Current, InFlight, GateOf, Gate
    <2> QED
      BY <1>2, <2>1, <2>2 DEF GatesAreDeclared, GateOf
  <1>3. CASE GatesKept /\ MarkReady
    <2>1. CASE u = command.unit
      <3>1. declared'[u] = command.authors /\ runs'[u].attempt = runs[u].attempt
        BY <1>0, <1>3, <2>1 DEF MarkReady, Run
      <3>2. GateOf(u, g) /\ bindings'[g].over = bindings[g].over
        BY <1>3, <3>1, GateBefore
      <3> QED
        BY <1>3, <2>1, <3>1, <3>2 DEF LaunchInv, MarkReady, GateOf, Gate
    <2>2. CASE u # command.unit
      BY <1>0, <1>2, <1>3, <2>2 DEF MarkReady
    <2> QED
      BY <2>1, <2>2
  <1>4. CASE GatesKept /\ Settle
    <2>1. CASE u = command.unit
      <3>1. runs'[u].state = "settled"
        BY <1>0, <1>4, <2>1 DEF Settle, Run
      <3> QED
        BY <3>1 DEF Current, InFlight
    <2>2. CASE u # command.unit
      BY <1>0, <1>2, <1>4, <2>2 DEF Settle
    <2> QED
      BY <2>1, <2>2
  <1>5. CASE GatesKept /\ \E w \in Units, A \in SUBSET Issued : Launch(w, A)
    <2>1. PICK w \in Units, A \in SUBSET Issued : Launch(w, A)
      BY <1>5
    <2>2. declared' = declared /\ (runs'[u] = runs[u] \/ runs'[u].step = "admitted")
      BY <1>0, <2>1 DEF Launch
    <2> QED
      BY <1>2, <1>5, <2>2 DEF Current
  <1> QED
    BY <1>1, <1>2, <1>3, <1>4, <1>5, GatesStep, RunKinds

LEMMA JudgeInit == Init => JudgeInv
  <1> SUFFICES ASSUME Init PROVE JudgeInv
    OBVIOUS
  <1>1. Issued = {} /\ command.next = "none"
    BY DEF Init, Issued, Idle
  <1> QED
    BY <1>1, InitInv DEF JudgeInv, LaunchInv, PendingInv, NewestInv, GatesAreDeclared

LEMMA JudgeStep == JudgeInv /\ [Next]_vars => JudgeInv'
  BY InvStep, LaunchStep, PendingStep, NewestStep, DeclaredStep DEF JudgeInv

\* A running judge's live gates are those its launch declared: an interrupted
\* preparation of the same attempt, retried with other authors, leaves it none
\* (execution.go PrepareDelegation, caller.go AdoptGates).
THEOREM JudgesHoldDeclaredGates == Spec => []GatesAreDeclared
  <1>1. JudgeInv => GatesAreDeclared
    BY DEF JudgeInv
  <1> QED
    BY <1>1, JudgeInit, JudgeStep, PTL DEF Spec

\* A verdict lands only through the newest gate of its judge over the author,
\* which has read the very state the verdict names, however many units of the
\* judge run at once (verdict.go issueVerifierLocked, VerifyAs).
THEOREM NewestGateSpeaks == Spec => LatestGateSpeaks
  <1> DEFINE Speaks ==
        \A k \in Keys, a \in Agents :
          LET v == DeltaOf(k)'.verdicts[a] IN
          v # Nothing /\ v # DeltaOf(k).verdicts[a] =>
            \E g \in GatesOf(a, k) :
              /\ \A h \in GatesOf(a, k) : h <= g
              /\ bindings[g].judged # Nothing
              /\ bindings[g].judged.files = v.files
  <1>1. JudgeInv /\ [Next]_vars => Speaks
    <2> SUFFICES ASSUME JudgeInv, [Next]_vars, NEW k \in Keys, NEW a \in Agents,
                        DeltaOf(k)'.verdicts[a] # Nothing,
                        DeltaOf(k)'.verdicts[a] # DeltaOf(k).verdicts[a]
                 PROVE  \E g \in GatesOf(a, k) :
                          /\ \A h \in GatesOf(a, k) : h <= g
                          /\ bindings[g].judged # Nothing
                          /\ bindings[g].judged.files = DeltaOf(k)'.verdicts[a].files
      OBVIOUS
    <2>1. NoVerdicts[a] = Nothing /\ NoDelta.verdicts = NoVerdicts /\ Nothing \notin Delta
      BY NothingAssumption DEF NoVerdicts, NoDelta
    <2>2. staged'[k] \in Delta => DeltaOf(k)' = staged'[k]
      BY <2>1 DEF DeltaOf
    <2>3. staged'[k] \in {Nothing, NoDelta} => DeltaOf(k)'.verdicts[a] = Nothing
      BY <2>1 DEF DeltaOf
    <2>4. staged'[k] # staged[k]
      BY DEF DeltaOf
    <2>5. IsJudged(k)
      BY <2>1, <2>2, <2>3, <2>4, DeltaStep
         DEF JudgeInv, DeltaMoves, Starts, Reassigns, HandsOver, Revises, Closes, Clears
    <2>6. PICK u \in Judges, g \in Issued, pass \in BOOLEAN :
             Verify(u, g, pass) /\ bindings[g].over = k /\ staged'[k] \in Delta
      BY <2>5 DEF IsJudged
    <2> DEFINE read == bindings[g].judged
               v == [pass |-> pass, revision |-> read.revision, files |-> read.files,
                     unit |-> bindings[k].unit, attempt |-> bindings[k].attempt,
                     subject |-> read.subject]
    <2>7. /\ staged[k] # Nothing /\ staged[k] \in Delta
          /\ staged' = [staged EXCEPT ![k].verdicts[AgentOf[u]] = v]
          /\ read # Nothing
      BY <2>6 DEF Verify, JudgeInv, IInv, TypeOK
    <2>8. staged'[k].verdicts = [staged[k].verdicts EXCEPT ![AgentOf[u]] = v] /\ DeltaOf(k) = staged[k]
      <3> HIDE DEF v
      <3> QED
        BY <2>7 DEF JudgeInv, IInv, TypeOK, Delta, DeltaOf
    <2>9. a = AgentOf[u] /\ DeltaOf(k)'.verdicts[a] = v
      <3> HIDE DEF v
      <3> QED
        BY <2>2, <2>6, <2>7, <2>8 DEF Delta
    <2>10. v.files = read.files
      OBVIOUS
    <2>11. g \in GatesOf(a, k) /\ ~bindings[g].superseded
      BY <2>6, <2>9 DEF GatesOf, Verify, Holds
    <2>12. \A h \in GatesOf(a, k) : h <= g
      BY <2>11 DEF GatesOf, JudgeInv, NewestInv
    <2> QED
      BY <2>7, <2>9, <2>10, <2>11, <2>12
  <1>2. Spec => [][Speaks]_vars
    BY <1>1, JudgeInit, JudgeStep, PTL DEF Spec
  <1> QED
    BY <1>2 DEF LatestGateSpeaks
=============================================================================
