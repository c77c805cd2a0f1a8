----------------------------- MODULE SetupProofs -----------------------------
(***************************************************************************)
(* What SetupDeploy promises of the files it deploys, for every sequence   *)
(* of managed paths, every content and every bound: the backups the        *)
(* manifest refers to hold what was replaced, a batch that is rolled back  *)
(* leaves the paths as they were, and no step destroys the last copy of    *)
(* what the user wrote, but for the losses KnownLoss names.                *)
(*                                                                         *)
(* One inductive invariant serves the three: what the manifest, the        *)
(* backups and the operation in progress say of one another at each place  *)
(* the operation may be stopped.                                           *)
(***************************************************************************)
EXTENDS SetupDeploy, WellFoundedInduction, TLAPS

PCs == {"idle", "plan", "prior", "inspect", "commit", "rename", "rollback", "save", "read",
        "write", "refresh", "patch", "reassigned", "items", "aside", "restores", "put",
        "unstage", "finish", "retain"}

Ops == [kind : Kinds \cup {"none"}, pc : PCs, skip : SUBSET Paths, new : [Paths -> Files],
        orig : [Paths -> Files], entries : [Paths -> Entries \cup {NoEntry}],
        pending : SUBSET Paths, done : SUBSET Paths, cancel : BOOLEAN, stuck : SUBSET Paths,
        staged : [Paths -> Files], read : Files, target : [Paths -> 0 .. MaxRendering]]

FilesOK ==
    /\ disk \in [Paths -> Files]
    /\ first \in [Paths -> Files]
    /\ others \in [Paths -> SUBSET Contents]
    /\ retained \in [Paths -> SUBSET Contents]
    /\ manifest \in [Paths -> Entries \cup {NoEntry}]
    /\ recorded \in {"none", "current", "older"}
    /\ rendering \in [Paths -> 0 .. MaxRendering]
    /\ late \subseteq Paths
    /\ writes \in Nat /\ ops \in Nat

TypeOK == FilesOK /\ op \in Ops

\* The copy an entry refers to holds what the entry says was replaced.
Holds(p, e) ==
    e # NoEntry /\ e.backup # NoRef => e.prior \in Contents /\ Resolve(p, e.backup) = e.prior

BackupInv == \A p \in Paths : Holds(p, manifest[p]) /\ Holds(p, op.entries[p])

\* A path still holds c, unless the user wrote it after the operation took it.
Still(p, c) == disk[p] = c \/ p \in late

\* A copy of c was made of path p.
Copied(p, c) == c = first[p] \/ c \in others[p]

\* A batch deploys contents over what it found, which was copied if Takt had not
\* installed it; what it has not reached is as it was, and what it has holds what
\* was installed.
BatchInv ==
    /\ op.pc \in {"plan", "prior"} => op.pending = {} /\ op.done = {} /\ op.stuck = {}
    /\ op.pc = "prior" => \A p \in Paths \ op.skip : op.new[p] \in Contents
    /\ op.pc \in {"inspect", "commit", "rename", "rollback"} =>
          /\ op.done \subseteq op.pending /\ op.pending \subseteq Paths \ op.skip
          /\ \A p \in Paths \ (op.done \cup op.stuck) : Still(p, op.orig[p])
          /\ \A p \in op.done : Still(p, op.new[p])
          /\ \A p \in Paths \ op.skip :
                \/ op.orig[p] = NoFile \/ Copied(p, op.orig[p])
                \/ manifest[p] # NoEntry /\ manifest[p].sha = op.orig[p]
    /\ op.pc = "inspect" => op.done = {}
    /\ op.pc \in {"inspect", "commit", "rename"} => op.stuck = {}
    /\ op.pc = "rename" => op.pending \ op.done # {}

\* The configuration is what was read of it to compute what replaces it.
ConfigInv ==
    /\ op.pc \in {"read", "write", "finish"} => op.kind # "reassign"
    /\ op.pc = "write" => Still(Config, op.read)
    /\ op.pc = "patch" => op.kind = "reassign" /\ op.read # NoFile
    /\ op.kind = "reassign" /\ op.read # NoFile =>
          /\ op.skip = Paths /\ op.pc \in {"plan", "prior", "inspect", "save", "patch", "reassigned"}
          /\ op.pc # "reassigned" => Still(Config, op.read)

\* What an uninstall moved aside left its place empty, and is neither to be moved
\* nor to be restored; a restoration replaces nothing but what Takt installed.
RemovalInv ==
    /\ \A p \in Paths : op.staged[p] # NoFile =>
          /\ op.pc \in {"items", "aside", "restores", "put", "unstage"}
          /\ manifest[p] # NoEntry /\ Still(p, NoFile)
          /\ p \notin op.pending \cup op.done
    /\ op.pc \in {"items", "aside", "restores", "put"} =>
          /\ \A p \in op.pending \cup op.done : manifest[p] # NoEntry
          /\ op.pending \cap op.done = {}
    /\ op.pc = "aside" => op.pending # {}
    /\ op.pc = "put" => /\ op.done # {}
                        /\ LET p == Next1(op.done)
                           IN Still(p, NoFile) \/ Still(p, manifest[p].sha)

IInv == TypeOK /\ BackupInv /\ BatchInv /\ ConfigInv /\ RemovalInv

-----------------------------------------------------------------------------
(* The operators of the model *)

\* A managed path is a place in the order.
LEMMA OrderFacts ==
    /\ DOMAIN Order = 1 .. Len(Order) /\ Len(Order) \in Nat
    /\ \A p \in Paths : \E i \in DOMAIN Order : Order[i] = p
    /\ \A i \in DOMAIN Order : Order[i] \in Paths
  BY SetupAssumption DEF Paths

\* A nonempty set of numbers has a least one.
LEMMA LeastNumber ==
    ASSUME NEW T \in SUBSET Nat, T # {}
    PROVE  \E i \in T : \A j \in T : i <= j
<1> DEFINE R == {ss \in Nat \X Nat : ss[1] < ss[2]}
<1>1. IsWellFoundedOn(R, Nat)
  BY NatLessThanWellFounded, Zenon DEF OpToRel
<1>2. \E i \in T : \A j \in T : ~(<<j, i>> \in R)
  <2> HIDE DEF R
  <2> QED
    BY <1>1, WFMin
<1>3. ASSUME NEW i \in T, NEW j \in T, j < i PROVE <<j, i>> \in R
  <2> DEFINE s == <<j, i>>
  <2>1. s \in Nat \X Nat /\ s[1] = j /\ s[2] = i
    OBVIOUS
  <2> HIDE DEF s
  <2> QED
    BY <1>3, <2>1
<1>4. PICK i \in T : \A j \in T : ~(<<j, i>> \in R)
  BY <1>2
<1>5. ASSUME NEW j \in T PROVE i <= j
  <2>1. ~(j < i)
    BY <1>3, <1>4
  <2>2. i \in Nat /\ j \in Nat
    OBVIOUS
  <2> QED
    BY <2>1, <2>2
<1> QED
  BY <1>5

\* The next path of a set is in it, and so is the last.
LEMMA NextMember ==
    ASSUME NEW S \in SUBSET Paths, S # {}
    PROVE  Next1(S) \in S
<1> DEFINE T == {i \in DOMAIN Order : Order[i] \in S}
<1>1. T \in SUBSET Nat /\ T # {}
  BY OrderFacts
<1>2. PICK i \in T : \A j \in T : i <= j
  BY <1>1, LeastNumber
<1>3. \A q \in S : \E j \in T : Order[j] = q
  BY OrderFacts
<1>4. \A q \in S : \E k, j \in DOMAIN Order : Order[k] = Order[i] /\ Order[j] = q /\ k <= j
  BY <1>2, <1>3
<1> QED
  BY <1>4 DEF Next1

LEMMA LastMember ==
    ASSUME NEW S \in SUBSET Paths, S # {}
    PROVE  Last1(S) \in S
<1> DEFINE T == {i \in DOMAIN Order : Order[i] \in S}
           U == {n \in Nat : \E i \in T : n = Len(Order) - i}
<1>1. U \in SUBSET Nat /\ U # {}
  BY OrderFacts
<1>2. PICK n \in U : \A m \in U : n <= m
  BY <1>1, LeastNumber
<1>3. PICK i \in T : n = Len(Order) - i
  BY <1>2
<1>4. \A j \in T : i >= j
  <2> TAKE j \in T
  <2>1. Len(Order) - j \in U
    BY OrderFacts
  <2> QED
    BY <1>2, <1>3, <2>1, OrderFacts
<1>5. \A q \in S : \E j \in T : Order[j] = q
  BY OrderFacts
<1>6. \A q \in S : \E k, j \in DOMAIN Order : Order[k] = Order[i] /\ Order[j] = q /\ k >= j
  BY <1>4, <1>5
<1> QED
  BY <1>6 DEF Last1

\* What is deployed at a path is a content.
LEMMA MergedType ==
    ASSUME FilesOK, NEW p \in Paths, NEW v \in 0 .. MaxRendering
    PROVE  Merged(p, v) \in Contents
<1> DEFINE plain == [own |-> NoPart, takt |-> v, mcp |-> FALSE]
           merged == [plain EXCEPT !.own = disk[p].own]
<1>1. plain \in Contents
  BY DEF Contents
<1>2. ~Missing(p) => disk[p] \in Contents
  BY DEF FilesOK, Files, Missing
<1>3. ~Missing(p) => merged \in Contents
  BY <1>2 DEF Contents
<1>4. ASSUME NEW c \in Contents PROVE Carried(p, c) \in Contents
  <2>1. ~Missing(p) => [c EXCEPT !.mcp = disk[p].mcp] \in Contents
    BY <1>2 DEF Contents
  <2> QED
    BY <2>1 DEF Carried
<1> HIDE DEF plain, merged
<1>5. Merged(p, v) \in {Carried(p, plain), Carried(p, merged)} /\ (Missing(p) => Merged(p, v) = Carried(p, plain))
  BY DEF Merged, plain, merged
<1> QED
  BY <1>1, <1>3, <1>4, <1>5

-----------------------------------------------------------------------------
(* The backups *)

StoreGrows ==
    \A p \in Paths : /\ first[p] # NoFile => first'[p] = first[p]
                     /\ others[p] \subseteq others'[p]

\* A copy is never replaced, and what is copied can be found under its name.
LEMMA BackUpEffect ==
    ASSUME FilesOK, NEW S \in SUBSET Paths, NEW read, \A p \in S : read[p] \in Contents, BackUp(S, read)
    PROVE  /\ first' \in [Paths -> Files] /\ others' \in [Paths -> SUBSET Contents]
           /\ StoreGrows
           /\ \A p \in S : Copied(p, read[p])'
<1>1. first' \in [Paths -> Files]
  BY DEF BackUp, FilesOK, Files
<1>2. others' \in [Paths -> SUBSET Contents]
  BY DEF BackUp, FilesOK
<1>3. StoreGrows
  BY ValuesAssumption DEF BackUp, StoreGrows, RefFor, FilesOK
<1>4. ASSUME NEW p \in S PROVE read[p] = first'[p] \/ read[p] \in others'[p]
  BY <1>4 DEF BackUp
<1> QED
  BY <1>1, <1>2, <1>3, <1>4 DEF Copied

LEMMA CopyIsNamed ==
    ASSUME FilesOK, FilesOK', NEW S \in SUBSET Paths, NEW read, NEW p \in S, read[p] \in Contents,
           BackUp(S, read), NEW ref, ref = RefFor(p, read[p])
    PROVE  Resolve(p, ref)' = read[p] /\ ref \in Refs
<1>1. CASE ref = BaseRef
  <2>1. first'[p] = read[p]
    BY <1>1 DEF BackUp
  <2>2. BaseRef \notin others'[p]
    BY ValuesAssumption DEF FilesOK
  <2> QED
    BY <1>1, <2>1, <2>2 DEF Resolve, Refs
<1>2. CASE ref # BaseRef
  <2>1. ref = read[p] /\ read[p] \in others'[p]
    BY <1>2 DEF BackUp, RefFor
  <2> QED
    BY <1>2, <2>1 DEF Resolve, Refs
<1> QED
  BY <1>1, <1>2

\* An entry holds its copy for as long as the backups only grow.
LEMMA HoldsStays ==
    ASSUME FilesOK, FilesOK', StoreGrows, NEW p \in Paths, NEW e, Holds(p, e)
    PROVE  Holds(p, e)'
<1> SUFFICES ASSUME e # NoEntry, e.backup # NoRef PROVE e.prior \in Contents /\ Resolve(p, e.backup)' = e.prior
  BY DEF Holds
<1>1. e.prior \in Contents /\ Resolve(p, e.backup) = e.prior
  BY DEF Holds
<1>2. e.prior # NoFile
  BY <1>1, ValuesAssumption
<1>3. BaseRef \notin others[p] /\ BaseRef \notin others'[p]
  BY ValuesAssumption DEF FilesOK
<1>4. CASE e.backup = BaseRef
  BY <1>1, <1>2, <1>3, <1>4 DEF Resolve, StoreGrows
<1>5. CASE e.backup # BaseRef /\ e.backup \in others[p]
  BY <1>1, <1>5 DEF Resolve, StoreGrows
<1> QED
  BY <1>1, <1>2, <1>4, <1>5 DEF Resolve

-----------------------------------------------------------------------------
(* Beginning and ending an operation *)

LEMMA NoOpFacts ==
    ASSUME FilesOK
    PROVE  /\ NoOp \in Ops
           /\ NoOp.kind = "none" /\ NoOp.pc = "idle" /\ NoOp.read = NoFile
           /\ NoOp.pending = {} /\ NoOp.done = {} /\ NoOp.stuck = {} /\ NoOp.skip = {}
           /\ \A p \in Paths : NoOp.staged[p] = NoFile /\ NoOp.entries[p] = NoEntry
<1>1. NoFiles \in [Paths -> Files] /\ NoFile \in Files
  BY DEF NoFiles, Files
<1>2. [p \in Paths |-> NoEntry] \in [Paths -> Entries \cup {NoEntry}]
  OBVIOUS
<1>3. rendering \in [Paths -> 0 .. MaxRendering]
  BY DEF FilesOK
<1>4. NoOp \in Ops
  BY <1>1, <1>2, <1>3 DEF NoOp, Ops, PCs
<1>5. \A p \in Paths : NoFiles[p] = NoFile
  BY DEF NoFiles
<1>6. NoOp.staged = NoFiles /\ NoOp.entries = [p \in Paths |-> NoEntry]
  BY DEF NoOp
<1> QED
  BY <1>4, <1>5, <1>6 DEF NoOp

LEMMA NoEntryHolds == \A p : Holds(p, NoEntry)
  BY DEF Holds

\* Between operations nothing but the backups is at stake.
LEMMA EndedPreserves ==
    ASSUME FilesOK, FilesOK', NEW t \in [Paths -> 0 .. MaxRendering], op' = NoOp \/ op' = [NoOp EXCEPT !.target = t],
           \A p \in Paths : Holds(p, manifest[p])'
    PROVE  IInv'
<1>1. op' \in Ops /\ op'.pc = "idle" /\ op'.kind = "none"
      /\ \A p \in Paths : op'.staged[p] = NoFile /\ op'.entries[p] = NoEntry
  BY NoOpFacts DEF Ops
<1>2. \A p \in Paths : Holds(p, NoEntry)'
  BY DEF Holds
<1>3. BackupInv'
  <2>1. ASSUME NEW p \in Paths PROVE Holds(p, op.entries[p])'
    BY <1>1, <1>2 DEF Holds
  <2> QED
    BY <2>1 DEF BackupInv
<1>4. BatchInv' /\ ConfigInv' /\ RemovalInv'
  BY <1>1 DEF BatchInv, ConfigInv, RemovalInv
<1> QED
  BY <1>1, <1>3, <1>4 DEF IInv, TypeOK

\* An operation that ends and writes nothing but, perhaps, to a path.
LEMMA FinishPreserves ==
    ASSUME IInv, Finish, disk' \in [Paths -> Files],
           UNCHANGED <<first, others, retained, rendering, writes, ops>>,
           recorded' \in {"none", "current", "older"}, manifest' \in [Paths -> Entries \cup {NoEntry}],
           \A p \in Paths : Holds(p, manifest'[p])
    PROVE  IInv'
<1>1. FilesOK /\ FilesOK'
  BY DEF IInv, TypeOK, FilesOK, Finish
<1>2. op' = NoOp
  BY DEF Finish
<1>3. ASSUME NEW p \in Paths PROVE Holds(p, manifest[p])'
  BY <1>3 DEF Holds, Resolve
<1>4. rendering \in [Paths -> 0 .. MaxRendering]
  BY <1>1 DEF FilesOK
<1> QED
  BY <1>1, <1>2, <1>3, <1>4, EndedPreserves

\* The backups of an operation that leaves them, the manifest and the entries.
LEMMA BackupsStay ==
    ASSUME IInv, UNCHANGED <<first, others, manifest>>, op'.entries = op.entries
    PROVE  BackupInv'
  BY DEF IInv, BackupInv, Holds, Resolve

\* An operation that begins has done nothing.
LEMMA BegunPreserves ==
    ASSUME IInv, FilesOK', UNCHANGED <<first, others, manifest>>,
           op' \in Ops, op'.pending = {}, op'.done = {}, op'.stuck = {}, \A p \in Paths : op'.staged[p] = NoFile /\ op'.entries[p] = NoEntry,
           op'.pc = "plan", op'.kind = "reassign" => op'.read = NoFile \/ (op'.skip = Paths /\ op'.read = disk'[Config])
    PROVE  IInv'
<1>1. \A p \in Paths : Holds(p, op'.entries[p])
  BY NoEntryHolds
<1>2. BackupInv'
  BY <1>1 DEF IInv, BackupInv, Holds, Resolve
<1>3. BatchInv' /\ ConfigInv' /\ RemovalInv'
  BY DEF BatchInv, ConfigInv, RemovalInv, Still
<1> QED
  BY <1>2, <1>3 DEF IInv, TypeOK

LEMMA BeginApplyPreserves ==
    ASSUME IInv, NEW kind \in {"install", "sync"}, NEW keep \in KeepSets, BeginApply(kind, keep)
    PROVE  IInv'
<1>1. FilesOK /\ FilesOK' /\ UNCHANGED <<disk, first, others, manifest>> /\ kind \in Kinds
  BY DEF IInv, TypeOK, FilesOK, store, BeginApply, Begin
<1>2. op' = [NoOp EXCEPT !.kind = kind, !.pc = "plan", !.skip = keep] /\ keep \in SUBSET Paths
  BY SetupAssumption DEF BeginApply
<1>3. op' \in Ops /\ op'.pc = "plan" /\ op'.kind = kind /\ op'.staged = NoOp.staged /\ op'.entries = NoOp.entries
      /\ op'.pending = {} /\ op'.done = {} /\ op'.stuck = {}
  BY <1>1, <1>2, NoOpFacts DEF Ops, PCs
<1> QED
  BY <1>1, <1>3, NoOpFacts, BegunPreserves

LEMMA BeginCorrectDriftPreserves ==
    ASSUME IInv, NEW selected \in KeepSets, BeginCorrectDrift(selected)
    PROVE  IInv'
<1>1. FilesOK /\ FilesOK' /\ UNCHANGED <<disk, first, others, manifest>> /\ "drift" \in Kinds
  BY DEF IInv, TypeOK, FilesOK, store, BeginCorrectDrift, Begin
<1>2. op' = [NoOp EXCEPT !.kind = "drift", !.pc = "plan", !.skip = Paths \ selected]
  BY DEF BeginCorrectDrift
<1>3. op' \in Ops /\ op'.pc = "plan" /\ op'.kind = "drift" /\ op'.staged = NoOp.staged /\ op'.entries = NoOp.entries
      /\ op'.pending = {} /\ op'.done = {} /\ op'.stuck = {}
  BY <1>1, <1>2, NoOpFacts DEF Ops, PCs
<1> QED
  BY <1>1, <1>3, NoOpFacts, BegunPreserves

LEMMA BeginReassignPreserves ==
    ASSUME IInv, BeginReassign
    PROVE  IInv'
<1> DEFINE edited == Edited(manifest, Config)
           target == [rendering EXCEPT ![Config] = @ + 1]
           skip   == IF edited THEN Paths ELSE Paths \ {Config}
           read   == IF edited THEN disk[Config] ELSE NoFile
<1>1. FilesOK /\ FilesOK' /\ UNCHANGED <<disk, first, others, manifest>> /\ "reassign" \in Kinds
  BY DEF IInv, TypeOK, FilesOK, store, BeginReassign, Begin
<1>2. op' = [NoOp EXCEPT !.kind = "reassign", !.pc = "plan", !.target = target, !.skip = skip, !.read = read]
  BY DEF BeginReassign
<1>3. target \in [Paths -> 0 .. MaxRendering] /\ skip \in SUBSET Paths /\ read \in Files
      /\ (read = NoFile \/ (skip = Paths /\ read = disk[Config]))
  BY <1>1, SetupAssumption DEF FilesOK, Files, BeginReassign
<1> HIDE DEF target, skip, read
<1>4. /\ op' \in Ops /\ op'.pc = "plan" /\ op'.kind = "reassign" /\ op'.staged = NoOp.staged
      /\ op'.entries = NoOp.entries /\ op'.skip = skip /\ op'.read = read
      /\ op'.pending = {} /\ op'.done = {} /\ op'.stuck = {}
  BY <1>1, <1>2, <1>3, NoOpFacts DEF Ops, PCs
<1> QED
  BY <1>1, <1>3, <1>4, NoOpFacts, BegunPreserves

LEMMA BeginUninstallPreserves ==
    ASSUME IInv, BeginUninstall
    PROVE  IInv'
<1> DEFINE pc == IF Managed(manifest) = {} THEN "read" ELSE "items"
<1>1. FilesOK /\ FilesOK' /\ UNCHANGED <<disk, first, others, manifest, late>> /\ "uninstall" \in Kinds
  BY DEF IInv, TypeOK, FilesOK, store, BeginUninstall, Begin
<1>2. op' = [NoOp EXCEPT !.kind = "uninstall", !.entries = manifest, !.pc = pc, !.pending = Managed(manifest)]
  BY DEF BeginUninstall
<1>3. pc \in {"read", "items"} /\ Managed(manifest) \in SUBSET Paths
      /\ \A p \in Managed(manifest) : manifest[p] # NoEntry
  BY DEF Managed
<1> HIDE DEF pc
<1>4. /\ op' \in Ops /\ op'.pc = pc /\ op'.kind = "uninstall" /\ op'.staged = NoOp.staged
      /\ op'.entries = manifest /\ op'.pending = Managed(manifest) /\ op'.done = {}
  BY <1>1, <1>2, <1>3, NoOpFacts DEF Ops, PCs, FilesOK
<1>5. BackupInv'
  BY <1>1, <1>4 DEF IInv, BackupInv, Holds, Resolve
<1>6. BatchInv' /\ ConfigInv' /\ RemovalInv'
  BY <1>1, <1>3, <1>4, NoOpFacts DEF BatchInv, ConfigInv, RemovalInv
<1> QED
  BY <1>1, <1>4, <1>5, <1>6 DEF IInv, TypeOK

LEMMA BeginRestorePreserves ==
    ASSUME IInv, BeginRestore
    PROVE  IInv'
<1> DEFINE S == {p \in Managed(manifest) : manifest[p].backup # NoRef}
<1>1. FilesOK /\ FilesOK' /\ UNCHANGED <<disk, first, others, manifest, late>> /\ "restore" \in Kinds
  BY DEF IInv, TypeOK, FilesOK, store, BeginRestore, Begin
<1>2. op' = [NoOp EXCEPT !.kind = "restore", !.pc = "restores", !.done = S]
  BY DEF BeginRestore
<1>3. S \in SUBSET Paths /\ \A p \in S : manifest[p] # NoEntry
  BY DEF Managed
<1> HIDE DEF S
<1>4. /\ op' \in Ops /\ op'.pc = "restores" /\ op'.kind = "restore" /\ op'.staged = NoOp.staged
      /\ op'.entries = NoOp.entries /\ op'.pending = {} /\ op'.done = S
  BY <1>1, <1>2, <1>3, NoOpFacts DEF Ops, PCs
<1>5. \A p \in Paths : Holds(p, op'.entries[p])
  BY <1>1, <1>4, NoOpFacts, NoEntryHolds
<1>6. BackupInv'
  BY <1>1, <1>5 DEF IInv, BackupInv, Holds, Resolve
<1>7. BatchInv' /\ ConfigInv' /\ RemovalInv'
  BY <1>1, <1>3, <1>4, NoOpFacts DEF BatchInv, ConfigInv, RemovalInv
<1> QED
  BY <1>1, <1>4, <1>6, <1>7 DEF IInv, TypeOK

-----------------------------------------------------------------------------
(* The user, the build and the end of the process *)

\* What the user writes is marked as written, so what an operation relies on
\* still stands.
LEMMA WritesPreserves ==
    ASSUME IInv, NEW p \in Paths, NEW c \in Files, Writes(p, c)
    PROVE  IInv'
<1>1. FilesOK' /\ UNCHANGED <<first, others, manifest, op>>
  BY DEF IInv, TypeOK, FilesOK, store, Writes
<1>2. BackupInv'
  BY <1>1, BackupsStay
<1>3. CASE Idle
  BY <1>1, <1>2, <1>3 DEF IInv, TypeOK, BatchInv, ConfigInv, RemovalInv, Idle
<1>4. CASE ~Idle
  <2>1. \A q \in Paths \ {p} : disk'[q] = disk[q]
    BY DEF Writes, IInv, TypeOK, FilesOK
  <2>2. late' = late \cup {p}
    BY <1>4 DEF Writes
  <2>3. \A q \in Paths : \A d : Still(q, d) => Still(q, d)'
    BY <2>1, <2>2 DEF Still
  <2>4. BatchInv'
    BY <1>1, <2>1, <2>2 DEF IInv, BatchInv, Still, Copied
  <2>5. ConfigInv'
    BY <1>1, <2>1, <2>2, SetupAssumption DEF IInv, ConfigInv, Still
  <2>6. RemovalInv'
    <3>1. ASSUME op.pc = "put" PROVE Next1(op.done) \in Paths
      BY <3>1, NextMember DEF IInv, TypeOK, Ops, RemovalInv
    <3> QED
      BY <1>1, <2>1, <2>2, <3>1 DEF IInv, RemovalInv, Still, Next1
  <2> QED
    BY <1>1, <1>2, <2>4, <2>5, <2>6 DEF IInv, TypeOK
<1> QED
  BY <1>3, <1>4

LEMMA UserPreserves ==
    ASSUME IInv, User
    PROVE  IInv'
<1>1. ASSUME NEW p \in Paths, NEW u \in Parts, UserEdits(p, u) PROVE IInv'
  <2> DEFINE c == [disk[p] EXCEPT !.own = u]
  <2>1. disk[p] \in Contents
    BY <1>1 DEF UserEdits, Missing, IInv, TypeOK, FilesOK, Files
  <2>2. c \in Files
    BY <2>1 DEF Contents, Files
  <2>3. Writes(p, c)
    BY <1>1 DEF UserEdits
  <2> QED
    BY <2>2, <2>3, WritesPreserves
<1>2. ASSUME NEW p \in Paths, NEW u \in Parts, UserReplaces(p, u) PROVE IInv'
  <2>1. [own |-> u, takt |-> 0, mcp |-> FALSE] \in Files
    BY SetupAssumption DEF Contents, Files
  <2> QED
    BY <1>2, <2>1, WritesPreserves DEF UserReplaces
<1>3. ASSUME NEW p \in Paths, UserDeletes(p) PROVE IInv'
  BY <1>3, WritesPreserves DEF UserDeletes, Files
<1> QED
  BY <1>1, <1>2, <1>3 DEF User

LEMMA NewBuildPreserves ==
    ASSUME IInv, NewBuild
    PROVE  IInv'
<1>1. rendering' \in [Paths -> 0 .. MaxRendering]
  BY SetupAssumption DEF IInv, TypeOK, FilesOK, NewBuild
<1>2. FilesOK /\ FilesOK' /\ UNCHANGED <<first, others, manifest>>
  BY <1>1 DEF IInv, TypeOK, FilesOK, store, NewBuild
<1>3. op' = [NoOp EXCEPT !.target = rendering']
  BY DEF NewBuild
<1>4. ASSUME NEW p \in Paths PROVE Holds(p, manifest[p])'
  BY <1>2 DEF IInv, BackupInv, Holds, Resolve
<1> QED
  BY <1>1, <1>2, <1>3, <1>4, EndedPreserves

LEMMA UserCancelsPreserves ==
    ASSUME IInv, UserCancels
    PROVE  IInv'
<1>1. FilesOK' /\ UNCHANGED <<disk, first, others, manifest, late>>
  BY DEF IInv, TypeOK, FilesOK, store, UserCancels
<1>2. /\ op' \in Ops /\ op'.pc = op.pc /\ op'.kind = op.kind /\ op'.skip = op.skip
      /\ op'.new = op.new /\ op'.orig = op.orig /\ op'.entries = op.entries
      /\ op'.pending = op.pending /\ op'.done = op.done /\ op'.stuck = op.stuck
      /\ op'.staged = op.staged /\ op'.read = op.read
  BY DEF UserCancels, IInv, TypeOK, Ops
<1>3. BackupInv'
  BY <1>1, <1>2, BackupsStay
<1>4. BatchInv'
  BY <1>1, <1>2 DEF IInv, BatchInv, Still, Copied
<1>5. ConfigInv'
  BY <1>1, <1>2 DEF IInv, ConfigInv, Still
<1>6. RemovalInv'
  BY <1>1, <1>2 DEF IInv, RemovalInv, Still, Next1
<1> QED
  BY <1>1, <1>2, <1>3, <1>4, <1>5, <1>6 DEF IInv, TypeOK

\* What an operation that only ends leaves.
LEMMA LeavesPreserves ==
    ASSUME IInv, Finish, disk' \in [Paths -> Files], Kept
    PROVE  IInv'
<1>1. UNCHANGED <<first, others, retained, manifest, recorded, rendering, writes, ops>>
  BY DEF Kept, store
<1>2. recorded' \in {"none", "current", "older"} /\ manifest' \in [Paths -> Entries \cup {NoEntry}]
  BY <1>1 DEF IInv, TypeOK, FilesOK
<1>3. \A p \in Paths : Holds(p, manifest'[p])
  BY <1>1 DEF IInv, BackupInv
<1> QED
  BY <1>1, <1>2, <1>3, FinishPreserves

LEMMA CrashPreserves ==
    ASSUME IInv, Crash
    PROVE  IInv'
  BY LeavesPreserves DEF Crash, Kept, store, IInv, TypeOK, FilesOK

-----------------------------------------------------------------------------
(* Deploying *)

LEMMA PlanPreserves ==
    ASSUME IInv, Plan
    PROVE  IInv'
<1> DEFINE skip == op.skip \cup (IF op.kind = "sync" THEN LocalEdits ELSE {})
           new  == [p \in Paths |-> IF p \in skip THEN NoFile ELSE Merged(p, op.target[p])]
<1>1. FilesOK /\ FilesOK' /\ op \in Ops /\ op.pc = "plan" /\ UNCHANGED <<disk, first, others, manifest>>
  BY DEF IInv, TypeOK, FilesOK, store, Plan, At, Kept
<1>2. late' = late \cap op.skip
  BY DEF Plan
<1>3. op' = [op EXCEPT !.pc = "prior", !.skip = skip, !.entries = manifest, !.new = new]
  BY DEF Plan
<1>4. skip \in SUBSET Paths /\ op.skip \subseteq skip
  BY <1>1 DEF LocalEdits, Ops
<1>5. \A p \in Paths \ skip : new[p] \in Contents
  BY <1>1, MergedType DEF Ops
<1>6. new \in [Paths -> Files]
  BY <1>5 DEF Files
<1> HIDE DEF skip, new
<1>7. /\ op' \in Ops /\ op'.pc = "prior" /\ op'.kind = op.kind /\ op'.skip = skip /\ op'.new = new
      /\ op'.entries = manifest /\ op'.pending = op.pending /\ op'.done = op.done
      /\ op'.stuck = op.stuck /\ op'.staged = op.staged /\ op'.read = op.read
  BY <1>1, <1>3, <1>4, <1>6 DEF Ops, PCs, FilesOK
<1>8. BackupInv'
  BY <1>1, <1>7 DEF IInv, BackupInv, Holds, Resolve
<1>9. BatchInv'
  BY <1>1, <1>5, <1>7 DEF IInv, BatchInv
<1>10. ConfigInv'
  BY <1>1, <1>2, <1>4, <1>7, SetupAssumption DEF IInv, ConfigInv, Still
<1>11. RemovalInv'
  BY <1>1, <1>7 DEF IInv, RemovalInv
<1> QED
  BY <1>1, <1>7, <1>8, <1>9, <1>10, <1>11 DEF IInv, TypeOK

\* The entry prepared for a path holds the copy made with it.
LEMMA EntryForHolds ==
    ASSUME FilesOK, FilesOK', NEW p \in Paths, op.new[p] \in Contents, Holds(p, manifest[p]),
           NEW S \in SUBSET Paths, \A q \in S : disk[q] \in Contents, BackUp(S, disk),
           Foreign(p) => p \in S, NEW e, e = EntryFor(p)
    PROVE  e \in Entries /\ Holds(p, e)'
<1> DEFINE was == PriorOf(p)
       changed == Edited(manifest, p) /\ ~manifest[p].pre
<1>r. PICK ref : ref = RefFor(p, disk[p])
  OBVIOUS
<1>1. e = [sha |-> op.new[p], pre |-> was.pre, prior |-> was.prior, backup |-> was.backup]
  BY DEF EntryFor
<1>2. StoreGrows
  BY BackUpEffect
<1>3. Foreign(p) => disk[p] \in Contents /\ Resolve(p, ref)' = disk[p] /\ ref \in Refs
  BY <1>r, CopyIsNamed
<1>4. CASE manifest[p] = NoEntry /\ Missing(p)
  <2>1. was.pre \in BOOLEAN /\ was.prior = NoFile /\ was.backup = NoRef
    BY <1>4 DEF PriorOf, Edited
  <2> HIDE DEF was
  <2>2. e.backup = NoRef
    BY <1>1, <2>1
  <2>3. Holds(p, e)'
    BY <2>2 DEF Holds
  <2>4. e \in Entries
    BY <1>1, <2>1 DEF Entries, Files, Refs
  <2> QED
    BY <2>3, <2>4
<1>5. CASE (manifest[p] = NoEntry /\ ~Missing(p)) \/ changed
  <2>1. Foreign(p)
    BY <1>5 DEF Foreign, Edited, Missing
  <2>2. was.pre \in BOOLEAN /\ was.prior = disk[p] /\ was.backup = ref
    BY <1>5, <1>r DEF PriorOf, Edited
  <2> HIDE DEF was
  <2>3. e \in Entries
    BY <1>1, <1>3, <2>1, <2>2 DEF Entries, Files
  <2>4. e.prior = disk[p] /\ e.backup = ref
    BY <1>1, <2>2
  <2>5. Holds(p, e)'
    BY <1>3, <2>1, <2>4 DEF Holds, Resolve
  <2> QED
    BY <2>3, <2>5
<1>6. CASE manifest[p] # NoEntry /\ ~changed
  <2> DEFINE m == manifest[p]
  <2>1. was.pre = m.pre /\ was.prior = m.prior /\ was.backup = m.backup
    BY <1>6 DEF PriorOf, Edited
  <2> HIDE DEF was
  <2>2. m \in Entries
    BY <1>6 DEF FilesOK
  <2>3. e \in Entries /\ e.prior = m.prior /\ e.backup = m.backup
    BY <1>1, <2>1, <2>2 DEF Entries
  <2>4. ASSUME NEW n, n = m PROVE Holds(p, n)'
    BY <1>2, <2>4, HoldsStays
  <2>5. Holds(p, e)'
    BY <1>6, <2>3, <2>4 DEF Holds, Resolve
  <2> QED
    BY <2>3, <2>5
<1> HIDE DEF changed
<1> QED
  BY <1>4, <1>5, <1>6

LEMMA CapturePriorsPreserves ==
    ASSUME IInv, CapturePriors
    PROVE  IInv'
<1> DEFINE active  == Paths \ op.skip
           foreign == {p \in active : Foreign(p)}
<1>1. /\ FilesOK /\ op \in Ops /\ op.pc = "prior" /\ UNCHANGED disk
      /\ UNCHANGED <<retained, manifest, recorded, rendering, writes, ops>>
  BY DEF IInv, TypeOK, CapturePriors, At
<1>2. foreign \in SUBSET Paths /\ \A p \in foreign : disk[p] \in Contents
  BY <1>1 DEF Foreign, Missing, FilesOK, Files
<1>3. CASE \E copied \in (SUBSET foreign) \ {foreign} : BackUp(copied, disk) /\ Finish
  <2>1. PICK copied \in SUBSET foreign : BackUp(copied, disk) /\ Finish
    BY <1>3
  <2>2. first' \in [Paths -> Files] /\ others' \in [Paths -> SUBSET Contents] /\ StoreGrows
    BY <1>1, <1>2, <2>1, BackUpEffect
  <2>3. FilesOK' /\ op' = NoOp
    BY <1>1, <2>1, <2>2 DEF FilesOK, Finish
  <2>4. ASSUME NEW p \in Paths PROVE Holds(p, manifest[p])'
    <3>1. ASSUME NEW e, e = manifest[p] PROVE Holds(p, e)'
      BY <1>1, <2>2, <2>3, <3>1, HoldsStays DEF IInv, BackupInv
    <3> QED
      BY <1>1, <3>1 DEF Holds, Resolve
  <2>5. rendering \in [Paths -> 0 .. MaxRendering]
    BY <1>1 DEF FilesOK
  <2> QED
    BY <1>1, <2>3, <2>4, <2>5, EndedPreserves
<1>4. CASE /\ BackUp(foreign, disk)
           /\ op' = [op EXCEPT !.pc = "inspect", !.orig = disk,
                               !.entries = [p \in Paths |-> IF p \in active THEN EntryFor(p) ELSE @[p]]]
           /\ late' = late \ active
  <2> DEFINE entries == [p \in Paths |-> IF p \in active THEN EntryFor(p) ELSE op.entries[p]]
  <2>1. /\ first' \in [Paths -> Files] /\ others' \in [Paths -> SUBSET Contents] /\ StoreGrows
        /\ \A p \in foreign : Copied(p, disk[p])'
    BY <1>1, <1>2, <1>4, BackUpEffect
  <2>2. FilesOK'
    BY <1>1, <1>4, <2>1 DEF FilesOK
  <2>3. ASSUME NEW p \in active, NEW e, e = EntryFor(p) PROVE e \in Entries /\ Holds(p, e)'
    <3>1. op.new[p] \in Contents /\ Holds(p, manifest[p])
      BY <1>1 DEF IInv, BatchInv, BackupInv
    <3>2. Foreign(p) => p \in foreign
      OBVIOUS
    <3> HIDE DEF foreign
    <3> QED
      BY <1>1, <1>2, <1>4, <2>2, <2>3, <3>1, <3>2, EntryForHolds
  <2>4. ASSUME NEW p \in Paths \ active, NEW e, e = op.entries[p]
        PROVE  e \in Entries \cup {NoEntry} /\ Holds(p, e)'
    <3>1. Holds(p, e)
      BY <2>4 DEF IInv, BackupInv
    <3> QED
      BY <1>1, <2>1, <2>2, <2>4, <3>1, HoldsStays DEF Ops
  <2>5. ASSUME NEW p \in Paths, NEW e, e = entries[p]
        PROVE  e \in Entries \cup {NoEntry} /\ Holds(p, e)'
    BY <2>3, <2>4, <2>5
  <2>6. entries \in [Paths -> Entries \cup {NoEntry}]
    BY <2>5
  <2>7. op' = [op EXCEPT !.pc = "inspect", !.orig = disk, !.entries = entries]
    BY <1>4
  <2> HIDE DEF entries
  <2>8. /\ op' \in Ops /\ op'.pc = "inspect" /\ op'.kind = op.kind /\ op'.skip = op.skip
        /\ op'.orig = disk /\ op'.entries = entries /\ op'.pending = op.pending
        /\ op'.done = op.done /\ op'.stuck = op.stuck /\ op'.staged = op.staged /\ op'.read = op.read
    BY <1>1, <2>6, <2>7 DEF Ops, PCs, FilesOK
  <2>9. BackupInv'
    <3>1. ASSUME NEW p \in Paths, NEW e, e = manifest[p] PROVE Holds(p, e)'
      BY <1>1, <2>1, <2>2, <3>1, HoldsStays DEF IInv, BackupInv
    <3> QED
      BY <1>1, <2>5, <2>8, <3>1 DEF BackupInv, Holds, Resolve
  <2>10. BatchInv'
    <3>1. op.pending = {} /\ op.done = {} /\ op.stuck = {}
      BY <1>1 DEF IInv, BatchInv
    <3>2. \A p \in active : \/ disk[p] = NoFile \/ Copied(p, disk[p])'
                            \/ manifest[p] # NoEntry /\ manifest[p].sha = disk[p]
      BY <2>1 DEF Foreign, Edited, Missing
    <3> QED
      BY <1>1, <2>8, <3>1, <3>2 DEF BatchInv, Still, Copied
  <2>11. ConfigInv'
    BY <1>1, <1>4, <2>8, SetupAssumption DEF IInv, ConfigInv, Still
  <2>12. RemovalInv'
    BY <1>1, <2>8 DEF IInv, RemovalInv
  <2> QED
    BY <2>2, <2>8, <2>9, <2>10, <2>11, <2>12 DEF IInv, TypeOK
<1> QED
  BY <1>3, <1>4 DEF CapturePriors

LEMMA InspectPreserves ==
    ASSUME IInv, Inspect
    PROVE  IInv'
<1> DEFINE active  == Paths \ op.skip
           pending == {p \in active : disk[p] # op.new[p]}
           pc      == IF pending = {} THEN "save" ELSE "commit"
<1>1. FilesOK /\ op \in Ops /\ op.pc = "inspect" /\ UNCHANGED <<disk, first, others, manifest>> /\ Kept
  BY DEF IInv, TypeOK, Inspect, At, Kept, store
<1>2. CASE Finish
  BY <1>1, <1>2, LeavesPreserves DEF FilesOK
<1>3. CASE /\ \A p \in active : disk[p] = op.orig[p]
           /\ op' = [op EXCEPT !.pending = pending, !.pc = pc]
           /\ late' = late \ active
  <2>1. FilesOK'
    BY <1>1, <1>3 DEF FilesOK, Kept, store
  <2>2. pending \in SUBSET active /\ pc \in {"save", "commit"} /\ (pending = {} => pc = "save")
    OBVIOUS
  <2>3. \A p \in Paths : disk[p] = op.orig[p] \/ p \in late \ active
    BY <1>1, <1>3 DEF IInv, BatchInv, Still
  <2>4. op' = [op EXCEPT !.pending = pending, !.pc = pc]
    BY <1>3
  <2> HIDE DEF pending, pc
  <2>5. /\ op' \in Ops /\ op'.pc = pc /\ op'.kind = op.kind /\ op'.skip = op.skip
        /\ op'.new = op.new /\ op'.orig = op.orig /\ op'.entries = op.entries
        /\ op'.pending = pending /\ op'.done = op.done /\ op'.stuck = op.stuck
        /\ op'.staged = op.staged /\ op'.read = op.read
    BY <1>1, <2>2, <2>4 DEF Ops, PCs
  <2>6. BackupInv'
    BY <1>1, <2>5, BackupsStay
  <2>7. BatchInv'
    BY <1>1, <1>3, <2>2, <2>3, <2>5 DEF IInv, BatchInv, Still, Copied
  <2>8. ConfigInv'
    BY <1>1, <1>3, <2>2, <2>5, SetupAssumption DEF IInv, ConfigInv, Still
  <2>9. RemovalInv'
    BY <1>1, <2>2, <2>5 DEF IInv, RemovalInv
  <2> QED
    BY <2>1, <2>5, <2>6, <2>7, <2>8, <2>9 DEF IInv, TypeOK
<1> QED
  BY <1>2, <1>3 DEF Inspect

-----------------------------------------------------------------------------
(* Committing a batch and rolling it back *)

LEMMA GotoEffect ==
    ASSUME op \in Ops, NEW pc \in PCs, Goto(pc)
    PROVE  /\ op' \in Ops /\ op'.pc = pc /\ op'.kind = op.kind /\ op'.skip = op.skip
           /\ op'.new = op.new /\ op'.orig = op.orig /\ op'.entries = op.entries
           /\ op'.pending = op.pending /\ op'.done = op.done /\ op'.stuck = op.stuck
           /\ op'.cancel = op.cancel /\ op'.staged = op.staged /\ op'.read = op.read
           /\ op'.target = op.target
  BY DEF Goto, Ops

LEMMA CheckPreserves ==
    ASSUME IInv, Check
    PROVE  IInv'
<1> DEFINE p == Next1(op.pending \ op.done)
<1>1. /\ FilesOK /\ op \in Ops /\ op.pc = "commit" /\ op.pending \ op.done # {}
      /\ UNCHANGED <<disk, first, others, manifest>> /\ Kept
  BY DEF IInv, TypeOK, Check, At, Kept, store
<1>2. p \in op.pending \ op.done
  BY <1>1, NextMember DEF Ops
<1>3. CASE Finish
  BY <1>1, <1>3, LeavesPreserves DEF FilesOK
<1>4. ASSUME NEW pc \in {"save", "rollback"}, Goto(pc), UNCHANGED late PROVE IInv'
  <2>1. FilesOK'
    BY <1>1, <1>4 DEF FilesOK, Kept, store
  <2>2. BackupInv'
    BY <1>1, <1>4, BackupsStay, GotoEffect DEF PCs
  <2>3. BatchInv' /\ ConfigInv' /\ RemovalInv'
    BY <1>1, <1>4, GotoEffect DEF PCs, IInv, BatchInv, ConfigInv, RemovalInv, Still, Copied
  <2> QED
    BY <1>1, <1>4, <2>1, <2>2, <2>3, GotoEffect DEF IInv, TypeOK, PCs
<1>5. CASE disk[p] = op.orig[p] /\ Goto("rename") /\ Looked(p)
  <2>0. late' = late \ {p}
    BY <1>5 DEF Looked
  <2>1. FilesOK'
    BY <1>1, <2>0 DEF FilesOK, Kept, store
  <2>2. BackupInv'
    BY <1>1, <1>5, BackupsStay, GotoEffect DEF PCs
  <2> HIDE DEF p
  <2>3. BatchInv'
    BY <1>1, <1>2, <1>5, <2>0, GotoEffect DEF PCs, IInv, BatchInv, Still, Copied
  <2>4. ConfigInv' /\ RemovalInv'
    BY <1>1, <1>5, GotoEffect DEF PCs, IInv, ConfigInv, RemovalInv
  <2> QED
    BY <1>1, <1>5, <2>1, <2>2, <2>3, <2>4, GotoEffect DEF IInv, TypeOK, PCs
<1> QED
  BY <1>3, <1>4, <1>5 DEF Check

LEMMA InstallPreserves ==
    ASSUME IInv, Install
    PROVE  IInv'
<1> DEFINE p == Next1(op.pending \ op.done)
<1>1. FilesOK /\ op \in Ops /\ op.pc = "rename" /\ UNCHANGED <<first, others, manifest>> /\ Kept
  BY DEF IInv, TypeOK, Install, At, Kept, store
<1>2. p \in op.pending \ op.done /\ p \in Paths
  BY <1>1, NextMember DEF Ops, IInv, BatchInv
<1>3. CASE Goto("rollback") /\ UNCHANGED <<disk, late>>
  <2>1. FilesOK'
    BY <1>1, <1>3 DEF FilesOK, Kept, store
  <2>2. BackupInv'
    BY <1>1, <1>3, BackupsStay, GotoEffect DEF PCs
  <2>3. BatchInv' /\ ConfigInv' /\ RemovalInv'
    BY <1>1, <1>3, GotoEffect DEF PCs, IInv, BatchInv, ConfigInv, RemovalInv, Still, Copied
  <2> QED
    BY <1>1, <1>3, <2>1, <2>2, <2>3, GotoEffect DEF IInv, TypeOK, PCs
<1>4. ASSUME NEW pc \in {"commit", "rollback"}, disk' = [disk EXCEPT ![p] = op.new[p]],
             op' = [op EXCEPT !.done = @ \cup {p}, !.pc = pc], Looked(p)
      PROVE  IInv'
  <2> HIDE DEF p
  <2>0. late' = late \ {p}
    BY <1>4 DEF Looked
  <2>1. disk' \in [Paths -> Files] /\ disk'[p] = op.new[p] /\ \A q \in Paths \ {p} : disk'[q] = disk[q]
    BY <1>1, <1>2, <1>4 DEF FilesOK, Ops
  <2>2. FilesOK'
    BY <1>1, <2>0, <2>1 DEF FilesOK, Kept, store
  <2>3. /\ op' \in Ops /\ op'.pc = pc /\ op'.kind = op.kind /\ op'.skip = op.skip
        /\ op'.new = op.new /\ op'.orig = op.orig /\ op'.entries = op.entries
        /\ op'.pending = op.pending /\ op'.done = op.done \cup {p} /\ op'.stuck = op.stuck
        /\ op'.staged = op.staged /\ op'.read = op.read
    BY <1>1, <1>2, <1>4 DEF Ops, PCs
  <2>4. BackupInv'
    BY <1>1, <2>3, BackupsStay
  <2>5. BatchInv'
    BY <1>1, <1>2, <1>4, <2>0, <2>1, <2>3 DEF IInv, BatchInv, Still, Copied
  <2>6. ConfigInv' /\ RemovalInv'
    BY <1>1, <1>4, <2>3 DEF IInv, ConfigInv, RemovalInv
  <2> QED
    BY <2>2, <2>3, <2>4, <2>5, <2>6 DEF IInv, TypeOK
<1>5. CASE /\ disk' = [disk EXCEPT ![p] = op.new[p]]
           /\ \E pc \in {"commit", "rollback"} : op' = [op EXCEPT !.done = @ \cup {p}, !.pc = pc]
           /\ Looked(p)
  BY <1>4, <1>5
<1> QED
  BY <1>3, <1>5 DEF Install

LEMMA CommittedPreserves ==
    ASSUME IInv, Committed
    PROVE  IInv'
<1>1. /\ FilesOK /\ op \in Ops /\ op.pc = "commit"
      /\ UNCHANGED <<disk, first, others, manifest>> /\ Kept
  BY DEF IInv, TypeOK, Committed, At, Kept, store
<1>2. CASE Finish
  BY <1>1, <1>2, LeavesPreserves DEF FilesOK
<1>3. ASSUME NEW pc \in {"save", "rollback"}, Goto(pc), UNCHANGED late PROVE IInv'
  <2>1. FilesOK'
    BY <1>1, <1>3 DEF FilesOK, Kept, store
  <2>2. BackupInv'
    BY <1>1, <1>3, BackupsStay, GotoEffect DEF PCs
  <2>3. BatchInv' /\ ConfigInv' /\ RemovalInv'
    BY <1>1, <1>3, GotoEffect DEF PCs, IInv, BatchInv, ConfigInv, RemovalInv, Still, Copied
  <2> QED
    BY <1>1, <1>3, <2>1, <2>2, <2>3, GotoEffect DEF IInv, TypeOK, PCs
<1> QED
  BY <1>2, <1>3 DEF Committed

\* Putting a path back leaves it as it was; one that cannot be put back is stuck.
LEMMA RollBackPreserves ==
    ASSUME IInv, RollBack
    PROVE  IInv'
<1> DEFINE p == Last1(op.done)
<1>1. FilesOK /\ op \in Ops /\ op.pc = "rollback" /\ UNCHANGED <<first, others, manifest>> /\ Kept
  BY DEF IInv, TypeOK, RollBack, At, Kept, store
<1>2. p \in op.done /\ p \in Paths
  BY <1>1, LastMember DEF RollBack, Ops
<1>3. late' = late \ {p}
  BY DEF RollBack, Looked
<1>4. ASSUME NEW stuck \in SUBSET {p},
             \/ stuck = {} /\ op' = [op EXCEPT !.done = @ \ {p}]
             \/ stuck = {p} /\ op' = [op EXCEPT !.done = @ \ {p}, !.stuck = @ \cup {p}],
             disk' \in [Paths -> Files], \A q \in Paths \ {p} : disk'[q] = disk[q],
             p \in stuck \/ disk'[p] = op.orig[p]
      PROVE  IInv'
  <2> HIDE DEF p
  <2>1. FilesOK'
    BY <1>1, <1>3, <1>4 DEF FilesOK, Kept, store
  <2>2. /\ op' \in Ops /\ op'.pc = op.pc /\ op'.kind = op.kind /\ op'.skip = op.skip
        /\ op'.new = op.new /\ op'.orig = op.orig /\ op'.entries = op.entries
        /\ op'.pending = op.pending /\ op'.done = op.done \ {p} /\ op'.stuck = op.stuck \cup stuck
        /\ op'.staged = op.staged /\ op'.read = op.read
    <3>1. CASE stuck = {} /\ op' = [op EXCEPT !.done = @ \ {p}]
      BY <1>1, <1>2, <3>1 DEF Ops
    <3>2. CASE stuck = {p} /\ op' = [op EXCEPT !.done = @ \ {p}, !.stuck = @ \cup {p}]
      BY <1>1, <1>2, <3>2 DEF Ops
    <3> QED
      BY <1>4, <3>1, <3>2
  <2>3. BackupInv'
    BY <1>1, <2>2, BackupsStay
  <2>4. BatchInv'
    BY <1>1, <1>2, <1>3, <1>4, <2>2 DEF IInv, BatchInv, Still, Copied
  <2>5. ConfigInv' /\ RemovalInv'
    BY <1>1, <2>2 DEF IInv, ConfigInv, RemovalInv
  <2> QED
    BY <2>1, <2>2, <2>3, <2>4, <2>5 DEF IInv, TypeOK
<1>5. CASE disk' = [disk EXCEPT ![p] = op.orig[p]] /\ op' = [op EXCEPT !.done = @ \ {p}]
  <2> HIDE DEF p
  <2>2. disk' \in [Paths -> Files] /\ disk'[p] = op.orig[p] /\ \A q \in Paths \ {p} : disk'[q] = disk[q]
    BY <1>1, <1>2, <1>5 DEF FilesOK, Ops
  <2> QED
    <3> DEFINE none == {}
    <3>1. none \in SUBSET {p} /\ none = {}
      OBVIOUS
    <3> HIDE DEF none
    <3> QED
      BY <1>4, <1>5, <2>2, <3>1
<1>6. CASE /\ disk' \in {disk, [disk EXCEPT ![p] = NoFile]}
           /\ op' = [op EXCEPT !.done = @ \ {p}, !.stuck = @ \cup {p}]
  <2> HIDE DEF p
  <2>1. disk' \in [Paths -> Files] /\ \A q \in Paths \ {p} : disk'[q] = disk[q]
    BY <1>1, <1>2, <1>6 DEF FilesOK, Files
  <2> QED
    BY <1>4, <1>6, <2>1
<1> QED
  BY <1>5, <1>6 DEF RollBack

LEMMA RolledBackPreserves ==
    ASSUME IInv, RolledBack
    PROVE  IInv'
  BY LeavesPreserves DEF RolledBack, IInv, TypeOK, FilesOK

-----------------------------------------------------------------------------
(* After the deployment *)

LEMMA SaveManifestPreserves ==
    ASSUME IInv, SaveManifest
    PROVE  IInv'
<1> DEFINE applied == {p \in Paths \ op.skip : p \in op.pending => p \in op.done}
           saved   == [p \in Paths |-> IF p \in applied THEN op.entries[p] ELSE manifest[p]]
<1>1. /\ FilesOK /\ op \in Ops /\ op.pc = "save"
      /\ UNCHANGED <<disk, first, others, retained, recorded, rendering, writes, ops>>
  BY DEF IInv, TypeOK, SaveManifest, At, store
<1>2. saved \in [Paths -> Entries \cup {NoEntry}] /\ \A p \in Paths : Holds(p, saved[p])
  BY <1>1 DEF FilesOK, Ops, IInv, BackupInv
<1>3. manifest \in [Paths -> Entries \cup {NoEntry}] /\ \A p \in Paths : Holds(p, manifest[p])
  BY <1>1 DEF FilesOK, IInv, BackupInv
<1>4. manifest' \in {manifest, saved}
  BY DEF SaveManifest
<1> HIDE DEF saved
<1>5. CASE Finish
  BY <1>1, <1>2, <1>3, <1>4, <1>5, FinishPreserves DEF FilesOK
<1>6. ASSUME NEW pc \in {"reassigned", "patch", "read"}, Goto(pc), UNCHANGED late,
             pc = "read" <=> op.kind # "reassign", pc = "patch" => op.read # NoFile
      PROVE  IInv'
  <2>1. FilesOK'
    BY <1>1, <1>2, <1>3, <1>4, <1>6 DEF FilesOK
  <2>2. BackupInv'
    BY <1>1, <1>2, <1>3, <1>4, <1>6, GotoEffect DEF PCs, IInv, BackupInv, Holds, Resolve
  <2>3. BatchInv'
    BY <1>1, <1>6, GotoEffect DEF PCs, BatchInv
  <2>4. ConfigInv'
    BY <1>1, <1>6, GotoEffect DEF PCs, IInv, ConfigInv, Still
  <2>5. RemovalInv'
    BY <1>1, <1>6, GotoEffect DEF PCs, IInv, RemovalInv
  <2> QED
    BY <1>1, <1>6, <2>1, <2>2, <2>3, <2>4, <2>5, GotoEffect DEF IInv, TypeOK, PCs
<1>7. \/ Finish
      \/ \E pc \in {"reassigned", "patch", "read"} :
            /\ Goto(pc) /\ UNCHANGED late
            /\ pc = "read" <=> op.kind # "reassign"
            /\ pc = "patch" => op.read # NoFile
  BY DEF SaveManifest
<1> QED
  BY <1>5, <1>6, <1>7

LEMMA ReadConfigPreserves ==
    ASSUME IInv, ReadConfig
    PROVE  IInv'
<1>1. /\ FilesOK /\ op \in Ops /\ op.pc = "read" /\ Config \in Paths
      /\ UNCHANGED <<disk, first, others, manifest>> /\ Kept
  BY SetupAssumption DEF IInv, TypeOK, ReadConfig, At, Kept, store
<1>2. CASE Finish
  BY <1>1, <1>2, LeavesPreserves DEF FilesOK
<1>3. CASE op' = [op EXCEPT !.read = disk[Config], !.pc = "write"] /\ Looked(Config)
  <2>1. FilesOK'
    BY <1>1, <1>3 DEF FilesOK, Kept, store, Looked
  <2>2. /\ op' \in Ops /\ op'.pc = "write" /\ op'.kind = op.kind /\ op'.entries = op.entries
        /\ op'.staged = op.staged /\ op'.read = disk[Config]
    BY <1>1, <1>3 DEF Ops, PCs, FilesOK
  <2>3. BackupInv'
    BY <1>1, <2>2, BackupsStay
  <2>4. BatchInv' /\ RemovalInv'
    BY <1>1, <2>2 DEF IInv, BatchInv, RemovalInv
  <2>5. ConfigInv'
    BY <1>1, <2>2 DEF IInv, ConfigInv, Still
  <2> QED
    BY <2>1, <2>2, <2>3, <2>4, <2>5 DEF IInv, TypeOK
<1> QED
  BY <1>2, <1>3 DEF ReadConfig

LEMMA WithServersType ==
    ASSUME NEW c \in Files
    PROVE  WithServers(c) \in Files /\ WithoutServers(c) \in Files
<1>1. CASE c = NoFile
  BY <1>1, SetupAssumption DEF WithServers, WithoutServers, Files, Contents
<1>2. CASE c # NoFile
  <2>1. c \in Contents
    BY <1>2 DEF Files
  <2>2. [c EXCEPT !.mcp = TRUE] \in Contents /\ [c EXCEPT !.mcp = FALSE] \in Contents
    BY <2>1 DEF Contents
  <2> QED
    BY <1>2, <2>1, <2>2 DEF WithServers, WithoutServers, Files
<1> QED
  BY <1>1, <1>2

LEMMA WriteConfigPreserves ==
    ASSUME IInv, WriteConfig
    PROVE  IInv'
<1>1. /\ FilesOK /\ op \in Ops /\ op.pc = "write" /\ late' = late \ {Config}
      /\ UNCHANGED <<first, others, retained, manifest, rendering, writes, ops>>
  BY DEF IInv, TypeOK, WriteConfig, At, store, Looked
<1>2. op.read \in Files
  BY <1>1 DEF Ops
<1>3. disk' \in [Paths -> Files] /\ recorded' \in {"none", "current", "older"}
  BY <1>1, <1>2, WithServersType DEF WriteConfig, RemoveServers, InjectServers, FilesOK
<1>4. PICK pc \in {"refresh", "retain"} : Goto(pc)
  BY DEF WriteConfig, RemoveServers, InjectServers
<1>5. FilesOK'
  BY <1>1, <1>3 DEF FilesOK
<1>6. BackupInv'
  BY <1>1, <1>4, BackupsStay, GotoEffect DEF PCs
<1>7. BatchInv' /\ ConfigInv' /\ RemovalInv'
  BY <1>1, <1>4, GotoEffect DEF PCs, IInv, BatchInv, ConfigInv, RemovalInv
<1> QED
  BY <1>1, <1>4, <1>5, <1>6, <1>7, GotoEffect DEF IInv, TypeOK, PCs

LEMMA RefreshPreserves ==
    ASSUME IInv, Refresh
    PROVE  IInv'
<1> DEFINE e == [manifest[Config] EXCEPT !.sha = disk[Config]]
<1>1. FilesOK /\ op \in Ops /\ Config \in Paths
  BY SetupAssumption DEF IInv, TypeOK
<1>2. manifest' = manifest \/ (manifest[Config] # NoEntry /\ ~Missing(Config) /\ manifest' = [manifest EXCEPT ![Config] = e])
  BY DEF Refresh, RefreshOwnership
<1>3. manifest[Config] # NoEntry /\ ~Missing(Config) =>
        e \in Entries /\ e.prior = manifest[Config].prior /\ e.backup = manifest[Config].backup
  BY <1>1 DEF FilesOK, Files, Missing, Entries
<1> HIDE DEF e
<1>4. manifest' \in [Paths -> Entries \cup {NoEntry}]
  BY <1>1, <1>2, <1>3 DEF FilesOK
<1>5. ASSUME NEW p \in Paths PROVE Holds(p, manifest'[p])
  <2>1. Holds(p, manifest[p])
    BY DEF IInv, BackupInv
  <2> QED
    BY <1>1, <1>2, <1>3, <2>1 DEF FilesOK, Holds
<1>6. recorded' \in {"none", "current", "older"}
  BY <1>1 DEF Refresh, RecordInstalled, FilesOK
<1>7. Finish /\ disk' \in [Paths -> Files] /\ UNCHANGED <<first, others, retained, rendering, writes, ops>>
  BY <1>1 DEF Refresh, store, FilesOK
<1> QED
  BY <1>4, <1>5, <1>6, <1>7, FinishPreserves

\* The patched configuration was copied as it was read.
LEMMA PatchPreserves ==
    ASSUME IInv, Patch
    PROVE  IInv'
<1> DEFINE read == [p \in Paths |-> op.read]
           c    == [op.read EXCEPT !.takt = op.target[Config]]
<1>1. /\ FilesOK /\ op \in Ops /\ op.pc = "patch" /\ Config \in Paths /\ Goto("reassigned")
      /\ BackUp({Config}, read) /\ disk' = [disk EXCEPT ![Config] = c] /\ late' = late \ {Config}
      /\ UNCHANGED <<retained, manifest, recorded, rendering, writes, ops>>
  BY SetupAssumption DEF IInv, TypeOK, Patch, At, Looked
<1>2. op.kind = "reassign" /\ op.read \in Contents
  BY <1>1 DEF IInv, ConfigInv, Ops, Files
<1>3. c \in Files
  BY <1>1, <1>2 DEF Ops, Contents, Files
<1>4. \A p \in {Config} : read[p] \in Contents
  BY <1>1, <1>2
<1> HIDE DEF read, c
<1>5. first' \in [Paths -> Files] /\ others' \in [Paths -> SUBSET Contents] /\ StoreGrows
  BY <1>1, <1>4, BackUpEffect
<1>6. FilesOK'
  BY <1>1, <1>3, <1>5 DEF FilesOK
<1>7. BackupInv'
  <2>1. ASSUME NEW p \in Paths, NEW e, e \in {manifest[p], op.entries[p]} PROVE Holds(p, e)'
    BY <1>1, <1>5, <1>6, <2>1, HoldsStays DEF IInv, BackupInv
  <2> QED
    BY <1>1, <2>1, GotoEffect DEF BackupInv, PCs, Holds, Resolve
<1>8. BatchInv' /\ ConfigInv' /\ RemovalInv'
  BY <1>1, <1>2, GotoEffect DEF PCs, IInv, BatchInv, ConfigInv, RemovalInv
<1> QED
  BY <1>1, <1>6, <1>7, <1>8, GotoEffect DEF IInv, TypeOK, PCs

LEMMA ReassignedPreserves ==
    ASSUME IInv, Reassigned
    PROVE  IInv'
<1>1. FilesOK /\ op \in Ops /\ op.target \in [Paths -> 0 .. MaxRendering]
  BY DEF IInv, TypeOK, Ops
<1>2. FilesOK' /\ UNCHANGED <<first, others, manifest>> /\ op' = [NoOp EXCEPT !.target = op.target]
  BY <1>1 DEF Reassigned, FilesOK, store
<1>3. ASSUME NEW p \in Paths PROVE Holds(p, manifest[p])'
  BY <1>2 DEF IInv, BackupInv, Holds, Resolve
<1>4. ASSUME NEW t, t = op.target PROVE IInv'
  BY <1>1, <1>2, <1>3, <1>4, EndedPreserves
<1> QED
  BY <1>4

-----------------------------------------------------------------------------
(* Uninstalling, and restoring what was there before *)

\* Striking an entry keeps what is said of the others.
LEMMA StruckEntries ==
    ASSUME IInv, NEW p \in Paths, NEW entries, entries = [op.entries EXCEPT ![p] = NoEntry]
    PROVE  /\ entries \in [Paths -> Entries \cup {NoEntry}]
           /\ \A q \in Paths : Holds(q, entries[q])
<1>1. op.entries \in [Paths -> Entries \cup {NoEntry}]
  BY DEF IInv, TypeOK, Ops
<1>2. ASSUME NEW q \in Paths PROVE Holds(q, entries[q])
  BY <1>1, NoEntryHolds DEF IInv, BackupInv
<1> QED
  BY <1>1, <1>2

LEMMA ItemPreserves ==
    ASSUME IInv, Item
    PROVE  IInv'
<1> DEFINE p == Next1(op.pending)
           e == op.entries[p]
           entries == [op.entries EXCEPT ![p] = NoEntry]
<1>1. FilesOK /\ op \in Ops /\ op.pc = "items" /\ UNCHANGED <<disk, first, others, manifest>> /\ Kept
  BY DEF IInv, TypeOK, Item, At, Kept, store
<1>2. CASE Goto("restores") /\ UNCHANGED late
  <2>1. FilesOK'
    BY <1>1, <1>2 DEF FilesOK, Kept, store
  <2>2. BackupInv'
    BY <1>1, <1>2, BackupsStay, GotoEffect DEF PCs
  <2>3. BatchInv' /\ ConfigInv' /\ RemovalInv'
    BY <1>1, <1>2, GotoEffect DEF PCs, IInv, BatchInv, ConfigInv, RemovalInv, Still
  <2> QED
    BY <1>1, <1>2, <2>1, <2>2, <2>3, GotoEffect DEF IInv, TypeOK, PCs
<1>3. CASE op.pending # {} /\ late' = late \ {p} /\ (PreservePreExisting(p) \/ StageRemoval(p))
  <2>1. p \in op.pending /\ p \in Paths
    BY <1>1, <1>3, NextMember DEF Ops
  <2>2. FilesOK'
    BY <1>1, <1>3 DEF FilesOK, Kept, store
  <2>3. CASE Goto("aside")
    <3>1. BackupInv'
      BY <1>1, <2>3, BackupsStay, GotoEffect DEF PCs
    <3> HIDE DEF p
    <3>2. BatchInv' /\ ConfigInv' /\ RemovalInv'
      BY <1>1, <1>3, <2>1, <2>3, GotoEffect DEF PCs, IInv, BatchInv, ConfigInv, RemovalInv, Still
    <3> QED
      BY <1>1, <2>2, <2>3, <3>1, <3>2, GotoEffect DEF IInv, TypeOK, PCs
  <2>4. ASSUME NEW done \in {op.done, op.done \cup {p}}, NEW f \in {op.entries, entries},
               op' = [op EXCEPT !.pending = @ \ {p}, !.entries = f, !.done = done]
        PROVE  IInv'
    <3>1. f \in [Paths -> Entries \cup {NoEntry}] /\ \A q \in Paths : Holds(q, f[q])
      BY <1>1, <2>1, <2>4, StruckEntries DEF Ops, IInv, BackupInv
    <3> HIDE DEF p, entries
    <3>2. /\ op' \in Ops /\ op'.pc = op.pc /\ op'.kind = op.kind /\ op'.pending = op.pending \ {p}
          /\ op'.done = done /\ op'.entries = f /\ op'.staged = op.staged /\ op'.read = op.read
      <4>1. done \in SUBSET Paths /\ op.pending \ {p} \in SUBSET Paths
        BY <1>1, <2>1 DEF Ops
      <4> QED
        BY <1>1, <2>4, <3>1, <4>1 DEF Ops
    <3>3. BackupInv'
      BY <1>1, <3>1, <3>2 DEF IInv, BackupInv, Holds, Resolve
    <3>4. BatchInv' /\ ConfigInv'
      BY <1>1, <3>2 DEF IInv, BatchInv, ConfigInv
    <3>5. RemovalInv'
      BY <1>1, <1>3, <2>1, <3>2 DEF IInv, RemovalInv, Still
    <3> QED
      BY <2>2, <3>2, <3>3, <3>4, <3>5 DEF IInv, TypeOK
  <2>5. CASE op' = [op EXCEPT !.pending = @ \ {p}]
    <3>1. op' = [op EXCEPT !.pending = @ \ {p}, !.entries = op.entries, !.done = op.done]
      BY <1>1, <2>5 DEF Ops
    <3> QED
      BY <2>4, <3>1
  <2>6. CASE op' = [op EXCEPT !.pending = @ \ {p}, !.entries[p] = NoEntry]
    <3>1. op' = [op EXCEPT !.pending = @ \ {p}, !.entries = entries, !.done = op.done]
      BY <1>1, <2>6 DEF Ops
    <3> QED
      BY <2>4, <3>1
  <2>7. CASE PreservePreExisting(p)
    <3> DEFINE done == IF Restorable(p, e) THEN op.done \cup {p} ELSE op.done
    <3>1. op' = [op EXCEPT !.pending = @ \ {p}, !.entries = entries, !.done = done]
      BY <1>1, <2>7 DEF PreservePreExisting
    <3>2. done \in {op.done, op.done \cup {p}}
      OBVIOUS
    <3> HIDE DEF done
    <3> QED
      BY <2>4, <3>1, <3>2
  <2>8. StageRemoval(p) => \/ Goto("aside") \/ op' = [op EXCEPT !.pending = @ \ {p}]
                           \/ op' = [op EXCEPT !.pending = @ \ {p}, !.entries[p] = NoEntry]
    BY DEF StageRemoval, Removal
  <2>9. PreservePreExisting(p) \/ StageRemoval(p)
    BY <1>3
  <2> QED
    BY <2>3, <2>5, <2>6, <2>7, <2>8, <2>9
<1>4. \/ Goto("restores") /\ UNCHANGED late
      \/ op.pending # {} /\ late' = late \ {p} /\ (PreservePreExisting(p) \/ StageRemoval(p))
  BY DEF Item, Looked
<1> QED
  BY <1>2, <1>3, <1>4

LEMMA MoveAsidePreserves ==
    ASSUME IInv, MoveAside
    PROVE  IInv'
<1> DEFINE p == Next1(op.pending)
           entries == [op.entries EXCEPT ![p] = NoEntry]
           staged  == [op.staged EXCEPT ![p] = disk[p]]
<1>1. /\ FilesOK /\ op \in Ops /\ op.pc = "aside" /\ op.pending # {}
      /\ UNCHANGED <<first, others, manifest>> /\ Kept
  BY DEF IInv, TypeOK, RemovalInv, MoveAside, At, Kept, store
<1>2. p \in op.pending /\ p \in Paths
  BY <1>1, NextMember DEF Ops
<1>3. CASE Goto("unstage") /\ UNCHANGED <<disk, late>>
  <2>1. FilesOK'
    BY <1>1, <1>3 DEF FilesOK, Kept, store
  <2>2. BackupInv'
    BY <1>1, <1>3, BackupsStay, GotoEffect DEF PCs
  <2>3. BatchInv' /\ ConfigInv' /\ RemovalInv'
    BY <1>1, <1>3, GotoEffect DEF PCs, IInv, BatchInv, ConfigInv, RemovalInv, Still
  <2> QED
    BY <1>1, <1>3, <2>1, <2>2, <2>3, GotoEffect DEF IInv, TypeOK, PCs
<1>4. CASE /\ disk' = [disk EXCEPT ![p] = NoFile]
           /\ op' = [op EXCEPT !.pc = "items", !.pending = @ \ {p}, !.entries[p] = NoEntry,
                               !.staged[p] = disk[p]]
           /\ Looked(p)
  <2>1. entries \in [Paths -> Entries \cup {NoEntry}] /\ \A q \in Paths : Holds(q, entries[q])
    BY <1>2, StruckEntries
  <2>2. staged \in [Paths -> Files] /\ \A q \in Paths \ {p} : staged[q] = op.staged[q]
    BY <1>1, <1>2 DEF Ops, FilesOK
  <2>3. op' = [op EXCEPT !.pc = "items", !.pending = @ \ {p}, !.entries = entries, !.staged = staged]
    BY <1>1, <1>4 DEF Ops
  <2>4. disk' \in [Paths -> Files] /\ disk'[p] = NoFile /\ \A q \in Paths \ {p} : disk'[q] = disk[q]
    BY <1>1, <1>2, <1>4 DEF FilesOK, Files
  <2>5. late' = late \ {p}
    BY <1>4 DEF Looked
  <2> HIDE DEF p, entries, staged
  <2>6. /\ op' \in Ops /\ op'.pc = "items" /\ op'.kind = op.kind /\ op'.pending = op.pending \ {p}
        /\ op'.done = op.done /\ op'.entries = entries /\ op'.staged = staged /\ op'.read = op.read
    BY <1>1, <2>1, <2>2, <2>3 DEF Ops, PCs
  <2>7. FilesOK'
    BY <1>1, <2>4, <2>5 DEF FilesOK, Kept, store
  <2>8. BackupInv'
    BY <1>1, <2>1, <2>6 DEF IInv, BackupInv, Holds, Resolve
  <2>9. BatchInv' /\ ConfigInv'
    BY <1>1, <2>6 DEF IInv, BatchInv, ConfigInv
  <2>10. RemovalInv'
    BY <1>1, <1>2, <2>2, <2>4, <2>5, <2>6 DEF IInv, RemovalInv, Still
  <2> QED
    BY <2>6, <2>7, <2>8, <2>9, <2>10 DEF IInv, TypeOK
<1> QED
  BY <1>3, <1>4 DEF MoveAside

LEMMA ClassifyPreserves ==
    ASSUME IInv, Classify
    PROVE  IInv'
<1> DEFINE p == Next1(op.done)
<1>1. /\ FilesOK /\ op \in Ops /\ op.pc = "restores" /\ op.done # {}
      /\ UNCHANGED <<disk, first, others, manifest>> /\ Kept /\ late' = late \ {p}
  BY DEF IInv, TypeOK, Classify, At, Kept, store, Looked
<1>2. p \in op.done /\ p \in Paths
  BY <1>1, NextMember DEF Ops
<1>3. FilesOK'
  BY <1>1 DEF FilesOK, Kept, store
<1>4. CASE op' = [op EXCEPT !.done = @ \ {p}]
  <2> HIDE DEF p
  <2>1. /\ op' \in Ops /\ op'.pc = op.pc /\ op'.kind = op.kind /\ op'.pending = op.pending
        /\ op'.done = op.done \ {p} /\ op'.entries = op.entries /\ op'.staged = op.staged
        /\ op'.read = op.read
    BY <1>1, <1>4 DEF Ops
  <2>2. BackupInv'
    BY <1>1, <2>1, BackupsStay
  <2>3. BatchInv' /\ ConfigInv'
    BY <1>1, <2>1 DEF IInv, BatchInv, ConfigInv
  <2>4. RemovalInv'
    BY <1>1, <1>2, <2>1 DEF IInv, RemovalInv, Still
  <2> QED
    BY <1>3, <2>1, <2>2, <2>3, <2>4 DEF IInv, TypeOK
<1>5. CASE Goto("unstage")
  <2>1. BackupInv'
    BY <1>1, <1>5, BackupsStay, GotoEffect DEF PCs
  <2> HIDE DEF p
  <2>2. BatchInv' /\ ConfigInv' /\ RemovalInv'
    BY <1>1, <1>2, <1>5, GotoEffect DEF PCs, IInv, BatchInv, ConfigInv, RemovalInv, Still
  <2> QED
    BY <1>1, <1>3, <1>5, <2>1, <2>2, GotoEffect DEF IInv, TypeOK, PCs
<1>6. CASE ~Edited(manifest, p) /\ Goto("put")
  <2>1. BackupInv'
    BY <1>1, <1>6, BackupsStay, GotoEffect DEF PCs
  <2>2. BatchInv' /\ ConfigInv'
    BY <1>1, <1>6, GotoEffect DEF PCs, IInv, BatchInv, ConfigInv
  <2>3. disk[p] \in {NoFile, manifest[p].sha} /\ p = Next1(op'.done)
    BY <1>1, <1>2, <1>6, GotoEffect DEF PCs, Edited, IInv, RemovalInv
  <2> HIDE DEF p
  <2>4. RemovalInv'
    BY <1>1, <1>2, <1>6, <2>3, GotoEffect DEF PCs, IInv, RemovalInv, Still
  <2> QED
    BY <1>1, <1>3, <1>6, <2>1, <2>2, <2>4, GotoEffect DEF IInv, TypeOK, PCs
<1> QED
  BY <1>4, <1>5, <1>6 DEF Classify

LEMMA PutBackPreserves ==
    ASSUME IInv, PutBack
    PROVE  IInv'
<1> DEFINE p == Next1(op.done)
<1>1. /\ FilesOK /\ op \in Ops /\ op.pc = "put" /\ op.done # {}
      /\ UNCHANGED <<first, others, manifest>> /\ Kept /\ late' = late \ {p}
  BY DEF IInv, TypeOK, RemovalInv, PutBack, At, Kept, store, Looked
<1>2. p \in op.done /\ p \in Paths /\ manifest[p] \in Entries
  BY <1>1, NextMember DEF Ops, IInv, RemovalInv, FilesOK
<1>3. disk' = disk \/ disk' = [disk EXCEPT ![p] = manifest[p].prior]
  BY DEF PutBack
<1> HIDE DEF p
<1>4. disk' \in [Paths -> Files] /\ \A q \in Paths \ {p} : disk'[q] = disk[q]
  BY <1>1, <1>2, <1>3 DEF FilesOK, Entries
<1>5. FilesOK'
  BY <1>1, <1>4 DEF FilesOK, Kept, store
<1>6. CASE op' = [op EXCEPT !.pc = "restores", !.done = @ \ {p}]
  <2>1. /\ op' \in Ops /\ op'.pc = "restores" /\ op'.kind = op.kind /\ op'.pending = op.pending
        /\ op'.done = op.done \ {p} /\ op'.entries = op.entries /\ op'.staged = op.staged
        /\ op'.read = op.read
    BY <1>1, <1>6 DEF Ops, PCs
  <2>2. BackupInv'
    BY <1>1, <2>1, BackupsStay
  <2>3. BatchInv' /\ ConfigInv'
    BY <1>1, <2>1 DEF IInv, BatchInv, ConfigInv
  <2>4. RemovalInv'
    BY <1>1, <1>2, <1>4, <2>1 DEF IInv, RemovalInv, Still
  <2> QED
    BY <1>5, <2>1, <2>2, <2>3, <2>4 DEF IInv, TypeOK
<1>7. CASE Goto("unstage")
  <2>1. BackupInv'
    BY <1>1, <1>7, BackupsStay, GotoEffect DEF PCs
  <2>2. BatchInv' /\ ConfigInv' /\ RemovalInv'
    BY <1>1, <1>2, <1>4, <1>7, GotoEffect DEF PCs, IInv, BatchInv, ConfigInv, RemovalInv, Still
  <2> QED
    BY <1>1, <1>5, <1>7, <2>1, <2>2, GotoEffect DEF IInv, TypeOK, PCs
<1> QED
  BY <1>6, <1>7 DEF PutBack, p

LEMMA RestoredPreserves ==
    ASSUME IInv, Restored
    PROVE  IInv'
  BY LeavesPreserves DEF Restored, IInv, TypeOK, FilesOK

LEMMA UnstagePreserves ==
    ASSUME IInv, Unstage
    PROVE  IInv'
<1>1. FilesOK /\ op \in Ops
  BY DEF IInv, TypeOK
<1>2. disk' \in [Paths -> Files] /\ Finish /\ Kept
  BY <1>1 DEF Unstage, FilesOK, Ops
<1> QED
  BY <1>2, LeavesPreserves

LEMMA PurgePreserves ==
    ASSUME IInv, Purge
    PROVE  IInv'
<1>1. FilesOK /\ op \in Ops /\ UNCHANGED <<disk, late, first, others, manifest>> /\ Kept
      /\ op' = [op EXCEPT !.pc = "finish", !.staged = NoFiles]
  BY DEF IInv, TypeOK, Purge, Kept, store
<1>2. NoFiles \in [Paths -> Files] /\ \A p \in Paths : NoFiles[p] = NoFile
  BY DEF NoFiles, Files
<1>3. /\ op' \in Ops /\ op'.pc = "finish" /\ op'.kind = op.kind /\ op'.entries = op.entries
      /\ op'.staged = NoFiles /\ op'.read = op.read
  BY <1>1, <1>2 DEF Ops, PCs
<1>4. FilesOK'
  BY <1>1 DEF FilesOK, Kept, store
<1>5. BackupInv'
  BY <1>1, <1>3, BackupsStay
<1>6. op.kind # "reassign"
  BY DEF Purge
<1>7. BatchInv' /\ ConfigInv' /\ RemovalInv'
  BY <1>2, <1>3, <1>6 DEF BatchInv, ConfigInv, RemovalInv
<1> QED
  BY <1>3, <1>4, <1>5, <1>7 DEF IInv, TypeOK

LEMMA FinishUninstallPreserves ==
    ASSUME IInv, FinishUninstall
    PROVE  IInv'
<1>1. /\ FilesOK /\ op \in Ops /\ op.pc = "finish"
      /\ UNCHANGED <<disk, first, others, retained, recorded, rendering, writes, ops>>
      /\ manifest' \in {manifest, op.entries}
  BY DEF IInv, TypeOK, FinishUninstall, At, store
<1>2. manifest' \in [Paths -> Entries \cup {NoEntry}] /\ \A p \in Paths : Holds(p, manifest'[p])
  BY <1>1 DEF FilesOK, Ops, IInv, BackupInv
<1>3. CASE Finish
  BY <1>1, <1>2, <1>3, FinishPreserves DEF FilesOK
<1>4. CASE Goto("read") /\ UNCHANGED late
  <2>1. FilesOK'
    BY <1>1, <1>2, <1>4 DEF FilesOK
  <2>2. BackupInv'
    BY <1>1, <1>2, <1>4, GotoEffect DEF PCs, IInv, BackupInv, Holds, Resolve
  <2>4. BatchInv' /\ RemovalInv'
    BY <1>1, <1>4, GotoEffect DEF PCs, IInv, BatchInv, RemovalInv
  <2>5. ConfigInv'
    BY <1>1, <1>4, GotoEffect DEF PCs, IInv, ConfigInv
  <2> QED
    BY <1>1, <1>4, <2>1, <2>2, <2>4, <2>5, GotoEffect DEF IInv, TypeOK, PCs
<1> QED
  BY <1>3, <1>4 DEF FinishUninstall

LEMMA RetainPreserves ==
    ASSUME IInv, NEW p \in Paths, NEW keep \in BOOLEAN, Retain(p, keep)
    PROVE  IInv'
<1> DEFINE entries == [op.entries EXCEPT ![p] = NoEntry]
<1>1. /\ FilesOK /\ op \in Ops /\ op.pc = "retain" /\ late' = late \ {p}
      /\ UNCHANGED <<first, others, manifest, recorded, rendering, writes, ops>>
  BY DEF IInv, TypeOK, Retain, At, Looked
<1>2. retained' \in [Paths -> SUBSET Contents]
  <2>1. CASE retained' = retained
    BY <1>1, <2>1 DEF FilesOK
  <2>2. CASE retained' # retained
    <3>1. disk[p] \in Contents /\ retained' = [retained EXCEPT ![p] = @ \cup {disk[p]}]
      BY <1>1, <2>2 DEF Retain, Missing, FilesOK, Files
    <3> QED
      BY <1>1, <3>1 DEF FilesOK
  <2> QED
    BY <2>1, <2>2
<1>3. disk' \in [Paths -> Files]
  BY <1>1 DEF Retain, FilesOK, Files
<1>4. FilesOK'
  BY <1>1, <1>2, <1>3 DEF FilesOK
<1>5. entries \in [Paths -> Entries \cup {NoEntry}] /\ \A q \in Paths : Holds(q, entries[q])
  BY StruckEntries
<1>6. op' = [op EXCEPT !.entries = entries]
  BY <1>1 DEF Retain, Ops
<1> HIDE DEF entries
<1>7. /\ op' \in Ops /\ op'.pc = op.pc /\ op'.kind = op.kind /\ op'.entries = entries
      /\ op'.staged = op.staged /\ op'.read = op.read
  BY <1>1, <1>5, <1>6 DEF Ops
<1>8. BackupInv'
  BY <1>1, <1>5, <1>7 DEF IInv, BackupInv, Holds, Resolve
<1>9. BatchInv' /\ ConfigInv' /\ RemovalInv'
  BY <1>1, <1>7 DEF IInv, BatchInv, ConfigInv, RemovalInv
<1> QED
  BY <1>4, <1>7, <1>8, <1>9 DEF IInv, TypeOK

LEMMA RetainedPreserves ==
    ASSUME IInv, Retained
    PROVE  IInv'
<1>1. /\ FilesOK /\ op \in Ops /\ manifest' \in {manifest, op.entries} /\ Finish
      /\ UNCHANGED <<disk, first, others, retained, recorded, rendering, writes, ops>>
  BY DEF IInv, TypeOK, Retained, store
<1>2. manifest' \in [Paths -> Entries \cup {NoEntry}] /\ \A p \in Paths : Holds(p, manifest'[p])
  BY <1>1 DEF FilesOK, Ops, IInv, BackupInv
<1> QED
  BY <1>1, <1>2, FinishPreserves DEF FilesOK

-----------------------------------------------------------------------------
(* The invariant *)

LEMMA InitHolds ==
    ASSUME Init
    PROVE  IInv
<1>1. NoFiles \in [Paths -> Files]
  BY DEF NoFiles, Files
<1>2. disk \in [Paths -> Files]
  <2>1. 0 \in 0 .. MaxRendering
    BY SetupAssumption
  <2>2. ASSUME NEW c \in [own : Parts, takt : {0}, mcp : {FALSE}] PROVE c \in Contents
    BY <2>1 DEF Contents
  <2> QED
    BY <2>2 DEF Init, Files
<1>3. rendering \in [Paths -> 0 .. MaxRendering]
  BY SetupAssumption DEF Init
<1>4. FilesOK
  BY <1>1, <1>2, <1>3 DEF Init, FilesOK
<1>5. /\ op \in Ops /\ op.pc = "idle" /\ op.kind = "none"
      /\ \A p \in Paths : op.staged[p] = NoFile /\ op.entries[p] = NoEntry
  BY <1>4, NoOpFacts DEF Init
<1>6. BackupInv
  BY <1>5, NoEntryHolds DEF Init, BackupInv
<1> QED
  BY <1>4, <1>5, <1>6 DEF IInv, TypeOK, BatchInv, ConfigInv, RemovalInv

LEMMA StutterPreserves ==
    ASSUME IInv, UNCHANGED vars
    PROVE  IInv'
<1>1. UNCHANGED <<disk, first, others, retained, manifest, recorded, rendering, op, late, writes, ops>>
  BY DEF vars
<1>2. TypeOK'
  BY <1>1 DEF IInv, TypeOK, FilesOK, Ops
<1>3. BackupInv' /\ BatchInv' /\ ConfigInv'
  BY <1>1 DEF IInv, BackupInv, Holds, Resolve, BatchInv, ConfigInv, Still, Copied
<1>4. RemovalInv'
  BY <1>1 DEF IInv, RemovalInv, Still, Next1
<1> QED
  BY <1>2, <1>3, <1>4 DEF IInv

LEMMA StepPreserves ==
    ASSUME IInv, Next
    PROVE  IInv'
<1>1. CASE Apply
  BY <1>1, BeginApplyPreserves, BeginCorrectDriftPreserves, BeginReassignPreserves, PlanPreserves,
     CapturePriorsPreserves, InspectPreserves, CheckPreserves, InstallPreserves, CommittedPreserves,
     RollBackPreserves, RolledBackPreserves, SaveManifestPreserves, ReadConfigPreserves,
     WriteConfigPreserves, RefreshPreserves, PatchPreserves, ReassignedPreserves DEF Apply
<1>2. CASE Remove
  BY <1>2, BeginUninstallPreserves, ItemPreserves, MoveAsidePreserves, UnstagePreserves,
     PurgePreserves, FinishUninstallPreserves, BeginRestorePreserves, ClassifyPreserves,
     PutBackPreserves, RestoredPreserves, RetainPreserves, RetainedPreserves DEF Remove
<1> QED
  BY <1>1, <1>2, UserPreserves, NewBuildPreserves, UserCancelsPreserves, CrashPreserves DEF Next

\* Manifest, backups and the operation in progress agree in every state, whatever the user writes
\* meanwhile, whatever fails and wherever the process ends.
THEOREM Invariance == Spec => []IInv
<1>1. IInv /\ [Next]_vars => IInv'
  BY StepPreserves, StutterPreserves
<1> QED
  BY InitHolds, <1>1, PTL DEF Spec

\* The copy every entry of the manifest refers to holds what Takt replaced there: a copy with
\* another content is made under another name (setup/backup.go).
THEOREM BackupsAreKept == Spec => []BackupsHoldPriors
<1>1. IInv => BackupsHoldPriors
  BY DEF IInv, BackupInv, Holds, Managed, BackupsHoldPriors
<1> QED
  BY <1>1, Invariance, PTL

\* A batch that is rolled back leaves every path as it found it, but for what the user wrote
\* meanwhile and what could not be put back (deployObserved).
THEOREM RollbacksAreComplete == Spec => RolledBackLeavesNothing
<1>1. IInv /\ [Next]_vars =>
        [At("rollback") /\ Idle' /\ op.done = {} =>
            \A p \in Paths \ op.stuck : disk[p] = op.orig[p] \/ p \in late]_vars
  BY DEF IInv, BatchInv, Still, At
<1> QED
  BY <1>1, Invariance, PTL DEF Spec, RolledBackLeavesNothing

-----------------------------------------------------------------------------
(* What the user wrote *)

\* What the copies hold they hold for good.
CopiesStay ==
    \A p \in Paths : /\ first[p] # NoFile => first'[p] = first[p]
                     /\ others[p] \subseteq others'[p] /\ retained[p] \subseteq retained'[p]

\* What a path holds of the user's is still there, or is among the copies, or its
\* loss is known.
DiskKept ==
    \A p \in Paths : disk[p] # NoFile /\ disk[p].own # NoPart =>
        \/ disk'[p] # NoFile /\ disk'[p].own = disk[p].own
        \/ disk[p] \in {first'[p], op'.staged[p]} \cup others'[p] \cup retained'[p]
        \/ KnownLoss(p)

\* What was moved aside is Takt's, or its loss is known.
LEMMA StagedIsKnown ==
    ASSUME IInv, NEW p \in Paths, op.staged[p] # NoFile, op.staged[p].own # NoPart
    PROVE  KnownLoss(p)
<1>1. manifest[p] # NoEntry
  BY DEF IInv, RemovalInv
<1>2. CASE op.staged[p] = manifest[p].sha
  BY <1>1, <1>2 DEF KnownLoss, TakenOver
<1>3. CASE op.staged[p] # manifest[p].sha
  BY <1>3 DEF KnownLoss, Removed
<1> QED
  BY <1>2, <1>3

\* A step that keeps the copies and what the paths hold keeps every part.
LEMMA PartsAreKept ==
    ASSUME IInv, CopiesStay, DiskKept
    PROVE  \A p \in Paths : \A u \in Surviving(p) \ {NoPart} : u \in Surviving(p)' \/ KnownLoss(p)
<1> SUFFICES ASSUME NEW p \in Paths, NEW u \in Surviving(p) \ {NoPart}
             PROVE  u \in Surviving(p)' \/ KnownLoss(p)
  OBVIOUS
<1> DEFINE now  == {disk[p], first[p], op.staged[p]} \cup others[p] \cup retained[p]
           then == {disk'[p], first'[p], op'.staged[p]} \cup others'[p] \cup retained'[p]
<1>1. PICK c \in now : c # NoFile /\ u = c.own
  BY DEF Surviving
<1>2. \A d \in then : d # NoFile => d.own \in Surviving(p)'
  BY DEF Surviving
<1>3. CASE c = disk[p]
  BY <1>1, <1>2, <1>3 DEF DiskKept
<1>4. CASE c = op.staged[p]
  BY <1>1, <1>4, StagedIsKnown
<1>5. CASE c = first[p] \/ c \in others[p] \cup retained[p]
  <2>1. c \in then
    BY <1>1, <1>5 DEF CopiesStay
  <2> QED
    BY <1>1, <1>2, <2>1
<1> QED
  BY <1>1, <1>3, <1>4, <1>5

\* A batch replaces what it copied, what Takt installed, or what came too late.
LEMMA InstallKeeps ==
    ASSUME IInv, Install
    PROVE  DiskKept
<1> DEFINE p == Next1(op.pending \ op.done)
<1>1. FilesOK /\ op \in Ops /\ op.pc = "rename" /\ UNCHANGED <<first, others, manifest>>
  BY DEF IInv, TypeOK, Install, At, Kept, store
<1>2. p \in op.pending \ op.done /\ p \in Paths \ op.skip /\ p \notin op.stuck
  BY <1>1, NextMember DEF Ops, IInv, BatchInv
<1>3. \A q \in Paths \ {p} : disk'[q] = disk[q]
  BY <1>1 DEF Install, FilesOK
<1> HIDE DEF p
<1>4. CASE p \in late
  BY <1>1, <1>3, <1>4 DEF DiskKept, KnownLoss, Undetected
<1>5. CASE p \notin late
  <2>1. disk[p] = op.orig[p]
    BY <1>1, <1>2, <1>5 DEF IInv, BatchInv, Still
  <2>2. disk[p] = NoFile \/ Copied(p, disk[p]) \/ (manifest[p] # NoEntry /\ manifest[p].sha = disk[p])
    BY <1>1, <1>2, <2>1 DEF IInv, BatchInv
  <2> QED
    BY <1>1, <1>3, <2>2 DEF DiskKept, KnownLoss, TakenOver, Copied
<1> QED
  BY <1>4, <1>5

\* A rollback takes back what the batch put there, or what came since.
LEMMA RollBackKeeps ==
    ASSUME IInv, RollBack
    PROVE  DiskKept
<1> DEFINE p == Last1(op.done)
<1>1. FilesOK /\ op \in Ops /\ op.pc = "rollback"
  BY DEF IInv, TypeOK, RollBack, At
<1>2. p \in op.done
  BY <1>1, LastMember DEF RollBack, Ops
<1>3. \A q \in Paths \ {p} : disk'[q] = disk[q]
  BY <1>1 DEF RollBack, FilesOK
<1>4. disk[p] = op.new[p] \/ p \in late
  BY <1>1, <1>2 DEF IInv, BatchInv, Still
<1> HIDE DEF p
<1> QED
  BY <1>1, <1>3, <1>4 DEF DiskKept, KnownLoss, Undone, Unlooked

\* Registering the servers, or striking them out, keeps the user's part of what
\* was read.
LEMMA WriteConfigKeeps ==
    ASSUME IInv, WriteConfig
    PROVE  DiskKept
<1>1. FilesOK /\ op \in Ops /\ op.pc = "write" /\ Config \in Paths
  BY SetupAssumption DEF IInv, TypeOK, WriteConfig, At
<1>2. disk' = disk \/ \E c \in {WithServers(op.read), WithoutServers(op.read)} : disk' = [disk EXCEPT ![Config] = c]
  BY DEF WriteConfig, RemoveServers, InjectServers
<1>3. disk[Config] = op.read \/ Config \in late
  BY <1>1 DEF IInv, ConfigInv, Still
<1>4. ASSUME op.read # NoFile, NEW c \in {WithServers(op.read), WithoutServers(op.read)}
      PROVE  c # NoFile /\ c.own = op.read.own
  <2>1. op.read \in Contents
    BY <1>1, <1>4 DEF Ops, Files
  <2>2. c \in {op.read, [op.read EXCEPT !.mcp = TRUE], [op.read EXCEPT !.mcp = FALSE]}
    BY <1>4 DEF WithServers, WithoutServers
  <2>3. c \in Contents /\ c.own = op.read.own
    BY <2>1, <2>2 DEF Contents
  <2> QED
    BY <2>3, ValuesAssumption
<1>5. \A q \in Paths \ {Config} : disk'[q] = disk[q]
  BY <1>1, <1>2 DEF FilesOK
<1>6. disk[Config] = op.read /\ op.read # NoFile => disk'[Config] # NoFile /\ disk'[Config].own = disk[Config].own
  BY <1>1, <1>2, <1>4 DEF FilesOK
<1> QED
  BY <1>1, <1>3, <1>5, <1>6 DEF DiskKept, KnownLoss, Undetected

LEMMA PatchKeeps ==
    ASSUME IInv, Patch
    PROVE  DiskKept
<1> DEFINE c == [op.read EXCEPT !.takt = op.target[Config]]
<1>1. FilesOK /\ op \in Ops /\ op.pc = "patch" /\ Config \in Paths /\ disk' = [disk EXCEPT ![Config] = c]
  BY SetupAssumption DEF IInv, TypeOK, Patch, At
<1>2. op.read \in Contents /\ (disk[Config] = op.read \/ Config \in late)
  BY <1>1 DEF IInv, ConfigInv, Ops, Files, Still
<1>3. c \in Contents /\ c.own = op.read.own
  BY <1>1, <1>2 DEF Contents, Ops
<1> HIDE DEF c
<1>4. disk'[Config] # NoFile /\ disk'[Config].own = op.read.own /\ \A q \in Paths \ {Config} : disk'[q] = disk[q]
  BY <1>1, <1>3, ValuesAssumption DEF FilesOK
<1> QED
  BY <1>1, <1>2, <1>4 DEF DiskKept, KnownLoss, Unlooked

LEMMA MoveAsideKeeps ==
    ASSUME IInv, MoveAside
    PROVE  DiskKept
<1> DEFINE p == Next1(op.pending)
<1>1. FilesOK /\ op \in Ops
  BY DEF IInv, TypeOK
<1>2. CASE UNCHANGED disk
  BY <1>2 DEF DiskKept
<1>3. CASE disk' = [disk EXCEPT ![p] = NoFile] /\ op'.staged[p] = disk[p]
  BY <1>1, <1>3 DEF DiskKept, FilesOK
<1>4. ASSUME disk' # disk PROVE disk' = [disk EXCEPT ![p] = NoFile] /\ op'.staged[p] = disk[p]
  <2> DEFINE staged == [op.staged EXCEPT ![p] = disk[p]]
  <2>1. p \in Paths
    BY <1>1, NextMember DEF MoveAside, At, IInv, RemovalInv, Ops
  <2>2. op'.staged = staged /\ disk' = [disk EXCEPT ![p] = NoFile]
    BY <1>1, <1>4 DEF MoveAside, Ops
  <2>3. staged[p] = disk[p]
    BY <1>1, <2>1 DEF Ops
  <2> QED
    BY <2>2, <2>3
<1> QED
  BY <1>2, <1>3, <1>4

\* A restoration replaces what Takt installed, or what came too late.
LEMMA PutBackKeeps ==
    ASSUME IInv, PutBack
    PROVE  DiskKept
<1> DEFINE p == Next1(op.done)
<1>1. FilesOK /\ op \in Ops /\ op.pc = "put" /\ op.done # {}
  BY DEF IInv, TypeOK, RemovalInv, PutBack, At
<1>2. p \in Paths /\ p \in op.done /\ manifest[p] # NoEntry
  BY <1>1, NextMember DEF Ops, IInv, RemovalInv
<1>3. \A q \in Paths \ {p} : disk'[q] = disk[q]
  BY <1>1 DEF PutBack, FilesOK
<1>4. disk[p] = NoFile \/ disk[p] = manifest[p].sha \/ p \in late
  BY <1>1 DEF IInv, RemovalInv, Still
<1> HIDE DEF p
<1> QED
  BY <1>1, <1>2, <1>3, <1>4 DEF DiskKept, KnownLoss, TakenOver, Undetected

LEMMA UnstageKeeps ==
    ASSUME IInv, Unstage
    PROVE  DiskKept
<1>1. op.pc = "unstage"
  BY DEF Unstage, At
<1>2. \A p \in Paths : disk'[p] = disk[p] \/ op.staged[p] # NoFile
  BY DEF Unstage
<1>3. \A p \in Paths : op.staged[p] # NoFile => disk[p] = NoFile \/ p \in late
  BY DEF IInv, RemovalInv, Still
<1> QED
  BY <1>1, <1>2, <1>3 DEF DiskKept, KnownLoss, Unlooked

LEMMA RetainKeeps ==
    ASSUME IInv, NEW p \in Paths, NEW keep \in BOOLEAN, Retain(p, keep)
    PROVE  DiskKept /\ CopiesStay
<1>1. DiskKept
  BY DEF Retain, At, DiskKept, KnownLoss, Removed
<1>2. CopiesStay
  BY DEF Retain, CopiesStay, IInv, TypeOK, FilesOK
<1> QED
  BY <1>1, <1>2

LEMMA StillKeeps ==
    ASSUME UNCHANGED disk
    PROVE  DiskKept
  BY DEF DiskKept

LEMMA StoreKeeps ==
    ASSUME UNCHANGED store
    PROVE  CopiesStay
  BY DEF CopiesStay, store

LEMMA CapturePriorsKeeps ==
    ASSUME IInv, CapturePriors
    PROVE  CopiesStay /\ DiskKept
<1> DEFINE foreign == {p \in Paths \ op.skip : Foreign(p)}
<1>1. \A p \in foreign : disk[p] \in Contents
  BY DEF Foreign, Missing, IInv, TypeOK, FilesOK, Files
<1>2. PICK S \in SUBSET foreign : BackUp(S, disk)
  BY DEF CapturePriors
<1>3. StoreGrows
  BY <1>1, <1>2, BackUpEffect DEF IInv, TypeOK
<1> QED
  BY <1>3, StillKeeps DEF CapturePriors, CopiesStay, StoreGrows

LEMMA PatchCopies ==
    ASSUME IInv, Patch
    PROVE  CopiesStay
<1> DEFINE read == [p \in Paths |-> op.read]
<1>1. op.read \in Contents /\ Config \in Paths /\ BackUp({Config}, read) /\ UNCHANGED retained
  BY SetupAssumption DEF Patch, At, IInv, TypeOK, ConfigInv, Ops, Files
<1>2. \A p \in {Config} : read[p] \in Contents
  BY <1>1
<1> HIDE DEF read
<1>3. StoreGrows
  BY <1>1, <1>2, BackUpEffect DEF IInv, TypeOK
<1> QED
  BY <1>1, <1>3 DEF CopiesStay, StoreGrows

\* Every step keeps the copies, and every step but the user's what the paths hold.
LEMMA StepKeeps ==
    ASSUME IInv, [Next]_vars
    PROVE  CopiesStay /\ (writes' = writes => DiskKept)
<1>1. CASE UNCHANGED <<disk, store>>
  BY <1>1, StillKeeps, StoreKeeps
<1>2. ASSUME NEW p, NEW c, Writes(p, c) PROVE CopiesStay /\ writes' # writes
  BY <1>2, StoreKeeps DEF Writes, IInv, TypeOK, FilesOK
<1>3. CASE User
  BY <1>2, <1>3 DEF User, UserEdits, UserReplaces, UserDeletes
<1>4. CASE Apply
  <2>1. CASE \/ \E kind \in {"install", "sync"}, keep \in KeepSets : BeginApply(kind, keep)
             \/ \E selected \in KeepSets : BeginCorrectDrift(selected)
             \/ BeginReassign
    BY <1>1, <2>1 DEF BeginApply, BeginCorrectDrift, BeginReassign, Begin
  <2>2. CASE Plan \/ Inspect \/ Check \/ Committed \/ RolledBack \/ ReadConfig
    BY <1>1, <2>2 DEF Plan, Inspect, Check, Committed, RolledBack, ReadConfig, Kept
  <2>3. CASE SaveManifest \/ Refresh \/ Reassigned
    BY <1>1, <2>3 DEF SaveManifest, Refresh, Reassigned
  <2>4. CASE CapturePriors
    BY <2>4, CapturePriorsKeeps
  <2>5. CASE Install
    BY <2>5, InstallKeeps, StoreKeeps DEF Install, Kept
  <2>6. CASE RollBack
    BY <2>6, RollBackKeeps, StoreKeeps DEF RollBack, Kept
  <2>7. CASE WriteConfig
    BY <2>7, WriteConfigKeeps, StoreKeeps DEF WriteConfig
  <2>8. CASE Patch
    BY <2>8, PatchKeeps, PatchCopies
  <2> QED
    BY <1>4, <2>1, <2>2, <2>3, <2>4, <2>5, <2>6, <2>7, <2>8 DEF Apply
<1>5. CASE Remove
  <2>1. CASE BeginUninstall \/ BeginRestore
    BY <1>1, <2>1 DEF BeginUninstall, BeginRestore, Begin
  <2>2. CASE Item \/ Purge \/ Classify \/ Restored
    BY <1>1, <2>2 DEF Item, Purge, Classify, Restored, Kept
  <2>3. CASE FinishUninstall \/ Retained
    BY <1>1, <2>3 DEF FinishUninstall, Retained
  <2>4. CASE MoveAside
    BY <2>4, MoveAsideKeeps, StoreKeeps DEF MoveAside, Kept
  <2>5. CASE PutBack
    BY <2>5, PutBackKeeps, StoreKeeps DEF PutBack, Kept
  <2>6. CASE Unstage
    BY <2>6, UnstageKeeps, StoreKeeps DEF Unstage, Kept
  <2>7. CASE \E p \in Paths, keep \in BOOLEAN : Retain(p, keep)
    BY <2>7, RetainKeeps
  <2> QED
    BY <1>5, <2>1, <2>2, <2>3, <2>4, <2>5, <2>6, <2>7 DEF Remove
<1>6. CASE NewBuild \/ UserCancels \/ Crash
  BY <1>1, <1>6 DEF NewBuild, UserCancels, Crash
<1>7. CASE UNCHANGED vars
  BY <1>1, <1>7 DEF vars, store
<1> QED
  BY <1>3, <1>4, <1>5, <1>6, <1>7 DEF Next

\* No step of Takt destroys the last copy of something the user wrote, but for the losses that
\* KnownLoss names, whatever operations, failures and ends of the process came before.
THEOREM UserEditsAreKept == Spec => EditsAreKept
<1>1. IInv /\ [Next]_vars =>
        [writes' = writes => \A p \in Paths : \A u \in Surviving(p) \ {NoPart} :
            u \in Surviving(p)' \/ KnownLoss(p)]_vars
  BY StepKeeps, PartsAreKept
<1> QED
  BY <1>1, Invariance, PTL DEF Spec, EditsAreKept
=============================================================================
