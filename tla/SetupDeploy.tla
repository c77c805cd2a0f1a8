----------------------------- MODULE SetupDeploy -----------------------------
(***************************************************************************)
(* Installing, syncing, uninstalling and restoring the files Takt deploys  *)
(* beneath a root the user keeps editing: takt/setup with the sequence     *)
(* takt/lifecycle runs it in.                                              *)
(*                                                                         *)
(* A file's content is what the properties tell apart: the part the user   *)
(* wrote in it, the rendering Takt wrote in it, and whether the memory     *)
(* servers are registered in it. Two digests are equal when the contents   *)
(* are. One operation runs at a time; every file it reads and every file   *)
(* it replaces is a step of its own, so the user may write in between, and *)
(* the process may end after any of them.                                  *)
(***************************************************************************)
EXTENDS Integers, Sequences, TLC

CONSTANTS
    Order,         \* the managed paths in the order they are deployed
    Config,        \* the one JSON file among them, merged and injected into
    Parts,         \* what the user may write in a file
    Junk,          \* the parts that make a file unreadable as JSON
    KeepSets,       \* the sets of paths the user may ask to keep
    Kinds,         \* the operations that are run
    MaxRendering,  \* bounds the renderings of a path
    MaxWrites,     \* bounds the user's writes
    MaxOps,        \* bounds the operations begun
    NoPart, NoFile, NoEntry, NoRef, BaseRef

Paths == {Order[i] : i \in DOMAIN Order}

ASSUME SetupAssumption ==
    /\ Order \in Seq(Paths) /\ Config \in Paths
    /\ Junk \subseteq Parts /\ NoPart \notin Parts
    /\ KeepSets \subseteq SUBSET Paths
    /\ Kinds \subseteq {"install", "sync", "reassign", "drift", "uninstall", "restore"}
    /\ {MaxRendering, MaxWrites, MaxOps} \subseteq Nat
    /\ MaxRendering > 0

VARIABLES
    disk,       \* the content at every managed path
    first,      \* .takt-backups/<path>: the first copy taken of a path
    others,     \* .takt-backups/<path>.<hash>: the copies of other contents
    retained,   \* takt-retained/<time>/<path>
    manifest,   \* .takt-manifest.json
    recorded,   \* .takt-installed-config.json: the build that wrote it
    rendering,  \* what the recorded request renders at every path
    op,         \* the operation in progress
    late,       \* the paths written since the operation last took their content
    writes, ops

vars == <<disk, first, others, retained, manifest, recorded, rendering, op, late, writes, ops>>
store == <<first, others, retained>>

Contents == [own : Parts \cup {NoPart}, takt : 0 .. MaxRendering, mcp : BOOLEAN]
Files    == Contents \cup {NoFile}
Refs     == Contents \cup {NoRef, BaseRef}

\* What a manifest says of one path: the content Takt installed, whether a file
\* was there before, the content that was replaced and where its copy is.
Entries == [sha : Contents, pre : BOOLEAN, prior : Files, backup : Refs]

ASSUME ValuesAssumption ==
    /\ {NoFile, NoRef, BaseRef} \cap Contents = {} /\ NoRef # BaseRef
    /\ NoEntry \notin Entries

Managed(m)  == {p \in Paths : m[p] # NoEntry}
Unreadable(c) == c.own \in Junk

-----------------------------------------------------------------------------
(* Reading a managed path *)

Missing(p)      == disk[p] = NoFile
Edited(m, p)    == m[p] # NoEntry /\ disk[p] \notin {NoFile, m[p].sha}

\* A conflict is shown before an install or a sync; the user may keep its path.
Conflicted(p) ==
    LET wanted == [own |-> NoPart, takt |-> rendering[p], mcp |-> FALSE]
    IN IF manifest[p] # NoEntry
       THEN Missing(p) \/ (Edited(manifest, p) /\ disk[p] # wanted)
       ELSE ~Missing(p) /\ disk[p] # wanted /\ (p = Config => Unreadable(disk[p]))

\* Keeping the configuration away, or unreadable, cannot work with the servers
\* registered in it afterwards.
Incompatible(p) ==
    p = Config /\ Conflicted(p) /\ (Missing(p) \/ Unreadable(disk[p]))

Rejected(kind, keep) ==
    \E p \in Paths : /\ Incompatible(p)
                     /\ p \in keep \/ (kind = "sync" /\ Edited(manifest, p))

\* A sync keeps what the user edited in a managed file.
LocalEdits == {p \in Paths : Edited(manifest, p)}

\* The servers registered in the file on disk are carried into what replaces it.
Carried(p, c) ==
    IF p = Config /\ ~Missing(p) /\ ~Unreadable(disk[p]) THEN [c EXCEPT !.mcp = disk[p].mcp] ELSE c

\* What is deployed at a path: merged over a JSON file that predates Takt.
Merged(p, version) ==
    LET merges   == p = Config /\ manifest[p] = NoEntry /\ ~Missing(p) /\ ~Unreadable(disk[p])
        rendered == [own |-> NoPart, takt |-> version, mcp |-> FALSE]
    IN Carried(p, IF merges THEN [rendered EXCEPT !.own = disk[p].own] ELSE rendered)

-----------------------------------------------------------------------------
(* The backups *)

\* Bug variant: the copy of a path is always the same file.
OneCopyRef(p, c) == BaseRef

\* Where a copy of c goes: a copy with other content is never replaced.
RefFor(p, c) == IF first[p] \in {NoFile, c} THEN BaseRef ELSE c

Resolve(p, ref) ==
    CASE ref = BaseRef          -> first[p]
      [] ref \in others[p]      -> ref
      [] OTHER                  -> NoFile

\* Copying the contents of the paths in ps, as read now, to the backups.
BackUp(ps, read) ==
    /\ first'  = [p \in Paths |->
                    IF p \in ps /\ RefFor(p, read[p]) = BaseRef THEN read[p] ELSE first[p]]
    /\ others' = [p \in Paths |->
                    IF p \in ps /\ RefFor(p, read[p]) # BaseRef THEN others[p] \cup {read[p]}
                    ELSE others[p]]

\* What the entry of a path will say of the content replaced at it.
PriorOf(p) ==
    LET e      == manifest[p]
        copied == [pre |-> TRUE, prior |-> disk[p], backup |-> RefFor(p, disk[p])]
    IN CASE e = NoEntry /\ Missing(p)  -> [pre |-> FALSE, prior |-> NoFile, backup |-> NoRef]
         [] e = NoEntry /\ ~Missing(p) -> copied
         [] Edited(manifest, p) /\ ~e.pre -> [copied EXCEPT !.pre = FALSE]
         [] OTHER                      -> [pre |-> e.pre, prior |-> e.prior, backup |-> e.backup]

\* Bug variant: only the files that were there before Takt are copied.
ForeignWhenUnowned(p) == ~Missing(p) /\ manifest[p] = NoEntry

\* The entry that will be recorded of a path once it is deployed.
EntryFor(p) ==
    LET was == PriorOf(p)
    IN [sha |-> op.new[p], pre |-> was.pre, prior |-> was.prior, backup |-> was.backup]

\* The contents Takt did not install are copied before anything is replaced.
Foreign(p) == ~Missing(p) /\ (manifest[p] = NoEntry \/ Edited(manifest, p))

-----------------------------------------------------------------------------
(* The operation in progress *)

NoFiles == [p \in Paths |-> NoFile]

NoOp == [kind |-> "none", pc |-> "idle", skip |-> {}, new |-> NoFiles, orig |-> NoFiles,
         entries |-> [p \in Paths |-> NoEntry], pending |-> {}, done |-> {}, cancel |-> FALSE,
         stuck |-> {}, staged |-> NoFiles, read |-> NoFile, target |-> rendering]

Idle     == op.pc = "idle"
At(pc)   == op.pc = pc
Next1(S) == CHOOSE p \in S : \A q \in S : \E i, j \in DOMAIN Order : Order[i] = p /\ Order[j] = q /\ i <= j
Last1(S) == CHOOSE p \in S : \A q \in S : \E i, j \in DOMAIN Order : Order[i] = p /\ Order[j] = q /\ i >= j

Goto(pc)  == op' = [op EXCEPT !.pc = pc]
Finish    == op' = NoOp /\ late' = {}
Looked(p) == late' = late \ {p}
Kept      == UNCHANGED <<store, manifest, recorded, rendering, writes, ops>>
Applies   == op.kind \in {"install", "sync", "reassign", "drift"}

Init ==
    /\ disk \in [Paths -> {NoFile} \cup [own : Parts, takt : {0}, mcp : {FALSE}]]
    /\ first = NoFiles
    /\ others = [p \in Paths |-> {}]
    /\ retained = [p \in Paths |-> {}]
    /\ manifest = [p \in Paths |-> NoEntry]
    /\ recorded = "none"
    /\ rendering = [p \in Paths |-> 1]
    /\ op = NoOp
    /\ late = {}
    /\ writes = 0
    /\ ops = 0

-----------------------------------------------------------------------------
(* The user and the build *)

Writes(p, c) ==
    /\ writes < MaxWrites
    /\ disk[p] # c
    /\ disk' = [disk EXCEPT ![p] = c]
    /\ writes' = writes + 1
    /\ late' = IF Idle THEN {} ELSE late \cup {p}
    /\ UNCHANGED <<store, manifest, recorded, rendering, op, ops>>

\* The user edits what is there, writes a file of their own, or deletes it.
UserEdits(p, u) ==
    /\ ~Missing(p) /\ u \notin Junk
    /\ Writes(p, [disk[p] EXCEPT !.own = u])

UserReplaces(p, u) == Writes(p, [own |-> u, takt |-> 0, mcp |-> FALSE])

UserDeletes(p) == Writes(p, NoFile)

\* Another build, which renders every path anew.
NewBuild ==
    /\ Idle /\ \A p \in Paths : rendering[p] < MaxRendering
    /\ rendering' = [p \in Paths |-> rendering[p] + 1]
    /\ op' = [NoOp EXCEPT !.target = rendering']
    /\ recorded' = IF recorded = "none" THEN "none" ELSE "older"
    /\ UNCHANGED <<disk, store, manifest, late, writes, ops>>

UserCancels ==
    /\ Applies \/ op.kind = "uninstall"
    /\ ~op.cancel
    /\ op' = [op EXCEPT !.cancel = TRUE]
    /\ UNCHANGED <<disk, store, manifest, recorded, rendering, late, writes, ops>>

\* The process ends wherever it is; what it staged aside stays where it is.
Crash ==
    /\ ~Idle
    /\ Finish
    /\ UNCHANGED <<disk, store, manifest, recorded, rendering, writes, ops>>

-----------------------------------------------------------------------------
(* Deploying *)

Begin(kind) ==
    /\ Idle /\ kind \in Kinds /\ ops < MaxOps
    /\ ops' = ops + 1
    /\ UNCHANGED <<disk, store, manifest, recorded, rendering, late, writes>>

BeginApply(kind, keep) ==
    /\ kind \in {"install", "sync"} /\ Begin(kind)
    /\ \A p \in keep : Conflicted(p)
    /\ ~Rejected(kind, keep)
    /\ op' = [NoOp EXCEPT !.kind = kind, !.pc = "plan", !.skip = keep]

\* A reassignment of models renders the configuration anew and keeps the rest;
\* a configuration the user edited is patched instead of deployed.
BeginReassign ==
    LET e == manifest[Config] IN
    /\ Begin("reassign") /\ recorded # "none"
    /\ rendering[Config] < MaxRendering
    /\ Edited(manifest, Config) => ~Unreadable(disk[Config]) /\ disk[Config].takt > 0
    /\ op' = [NoOp EXCEPT !.kind = "reassign", !.pc = "plan",
                          !.target = [rendering EXCEPT ![Config] = @ + 1],
                          !.skip = IF Edited(manifest, Config) THEN Paths ELSE Paths \ {Config},
                          !.read = IF Edited(manifest, Config) THEN disk[Config] ELSE NoFile]

\* Correcting the drift of the paths the user selected, under the build that
\* installed them.
BeginCorrectDrift(selected) ==
    /\ Begin("drift") /\ recorded = "current"
    /\ selected # {} /\ \A p \in selected : Conflicted(p)
    /\ op' = [NoOp EXCEPT !.kind = "drift", !.pc = "plan", !.skip = Paths \ selected]

\* prepareApply: a sync also keeps what the user edited.
Plan ==
    /\ At("plan")
    /\ LET skip == op.skip \cup (IF op.kind = "sync" THEN LocalEdits ELSE {})
       IN op' = [op EXCEPT !.pc = "prior", !.skip = skip, !.entries = manifest,
                           !.new = [p \in Paths |-> IF p \in skip THEN NoFile
                                                    ELSE Merged(p, op.target[p])]]
    /\ late' = late \cap op.skip
    /\ UNCHANGED disk /\ Kept

\* collectPriorStates and buildOwnershipEntries: the entries to record later.
\* A copy that fails ends the operation with the copies made before it.
CapturePriors ==
    LET active == Paths \ op.skip
        foreign == {p \in active : Foreign(p)}
    IN /\ At("prior")
       /\ \/ /\ BackUp(foreign, disk)
             /\ op' = [op EXCEPT !.pc = "inspect", !.orig = disk,
                                 !.entries = [p \in Paths |->
                                     IF p \in active THEN EntryFor(p) ELSE @[p]]]
             /\ late' = late \ active
          \/ /\ \E copied \in (SUBSET foreign) \ {foreign} : BackUp(copied, disk)
             /\ Finish
       /\ UNCHANGED <<disk, retained, manifest, recorded, rendering, writes, ops>>

\* inspectDeployments and stage: a destination that no longer holds what was
\* captured stops the batch, as does a temporary that cannot be written.
Inspect ==
    LET active  == Paths \ op.skip
        pending == {p \in active : disk[p] # op.new[p]}
    IN /\ At("inspect")
       /\ \/ /\ \A p \in active : disk[p] = op.orig[p]
             /\ op' = [op EXCEPT !.pending = pending, !.pc = IF pending = {} THEN "save" ELSE "commit"]
             /\ late' = late \ active
          \/ Finish
       /\ UNCHANGED disk /\ Kept

-----------------------------------------------------------------------------
(* Committing a batch and rolling it back *)

\* Before each replacement: a cancellation stops here and keeps what is
\* installed, a destination that changed since the inspection rolls back.
Check ==
    LET left == op.pending \ op.done
        p    == Next1(left)
    IN /\ At("commit") /\ left # {}
       /\ IF op.cancel
          THEN IF op.done = {} THEN Finish ELSE Goto("save") /\ UNCHANGED late
          ELSE IF disk[p] = op.orig[p]
          THEN Goto("rename") /\ Looked(p)
          ELSE Goto("rollback") /\ UNCHANGED late
       /\ UNCHANGED disk /\ Kept

\* Bug variant: a file counts as installed once its directory is flushed.
InstallNotedAtFlush ==
    LET p == Next1(op.pending \ op.done)
    IN /\ At("rename")
       /\ \/ /\ disk' = [disk EXCEPT ![p] = op.new[p]]
             /\ \/ op' = [op EXCEPT !.done = @ \cup {p}, !.pc = "commit"]
                \/ Goto("rollback")
             /\ Looked(p)
          \/ Goto("rollback") /\ UNCHANGED <<disk, late>>
       /\ Kept

\* The rename, and the flush of its directory that may fail after it.
Install ==
    LET p == Next1(op.pending \ op.done)
    IN /\ At("rename")
       /\ \/ /\ disk' = [disk EXCEPT ![p] = op.new[p]]
             /\ \E pc \in {"commit", "rollback"} :
                  op' = [op EXCEPT !.done = @ \cup {p}, !.pc = pc]
             /\ Looked(p)
          \/ Goto("rollback") /\ UNCHANGED <<disk, late>>
       /\ Kept

\* The batch is in place: the new directories are flushed, the temporaries are
\* removed. Only then is the ownership recorded.
Committed ==
    /\ At("commit") /\ op.pending = op.done
    /\ \/ Goto("rollback") /\ UNCHANGED late
       \/ Goto("save") /\ UNCHANGED late
       \/ Finish
    /\ UNCHANGED disk /\ Kept

\* Installed files are put back in reverse order, whatever they hold by now.
RollBack ==
    /\ At("rollback") /\ op.done # {}
    /\ LET p == Last1(op.done)
       IN /\ \/ /\ disk' = [disk EXCEPT ![p] = op.orig[p]]
                /\ op' = [op EXCEPT !.done = @ \ {p}]
             \/ /\ disk' \in {disk, [disk EXCEPT ![p] = NoFile]}
                /\ op' = [op EXCEPT !.done = @ \ {p}, !.stuck = @ \cup {p}]
          /\ Looked(p)
    /\ Kept

RolledBack ==
    /\ At("rollback") /\ op.done = {}
    /\ Finish
    /\ UNCHANGED disk /\ Kept

\* A deployment that was not applied in full ends here and is not recorded as
\* installed; a correction of drift goes on whenever it changed a file.
EndsUnrecorded == IF op.kind = "drift" THEN op.done = {} ELSE op.pending # op.done

\* Recording the ownership of what was applied.
SaveManifest ==
    LET applied == {p \in Paths \ op.skip : p \in op.pending => p \in op.done}
        saved   == [p \in Paths |-> IF p \in applied THEN op.entries[p] ELSE manifest[p]]
    IN /\ At("save")
       /\ \/ /\ manifest' = saved
             /\ IF EndsUnrecorded THEN Finish
                ELSE IF op.kind = "reassign"
                THEN Goto(IF op.read = NoFile THEN "reassigned" ELSE "patch") /\ UNCHANGED late
                ELSE Goto("read") /\ UNCHANGED late
          \/ manifest' \in {manifest, saved} /\ Finish
       /\ UNCHANGED <<disk, store, recorded, rendering, writes, ops>>

-----------------------------------------------------------------------------
(* After the deployment *)

\* The configuration is read, its servers registered or struck out, and written.
ReadConfig ==
    /\ At("read")
    /\ IF ~Missing(Config) /\ Unreadable(disk[Config]) /\ op.kind # "uninstall"
       THEN Finish
       ELSE /\ op' = [op EXCEPT !.read = disk[Config], !.pc = "write"]
            /\ Looked(Config)
    /\ UNCHANGED disk /\ Kept

WithServers(c) ==
    IF c = NoFile THEN [own |-> NoPart, takt |-> 0, mcp |-> TRUE] ELSE [c EXCEPT !.mcp = TRUE]

WithoutServers(c) ==
    IF c = NoFile THEN NoFile ELSE IF Unreadable(c) THEN c ELSE [c EXCEPT !.mcp = FALSE]

InjectServers ==
    /\ disk' = [disk EXCEPT ![Config] = WithServers(op.read)]
    /\ Goto("refresh") /\ UNCHANGED recorded

\* Nothing is written when no server is found; then the installation is forgotten.
RemoveServers ==
    /\ disk' = IF WithoutServers(op.read) = op.read THEN disk
               ELSE [disk EXCEPT ![Config] = WithoutServers(op.read)]
    /\ Goto("retain") /\ recorded' = "none"

WriteConfig ==
    /\ At("write")
    /\ Looked(Config)
    /\ IF op.kind = "uninstall" THEN RemoveServers ELSE InjectServers
    /\ UNCHANGED <<store, manifest, rendering, writes, ops>>

\* The digest of the entry follows what is on disk.
RefreshOwnership ==
    manifest' = IF manifest[Config] = NoEntry \/ Missing(Config) THEN manifest
                ELSE [manifest EXCEPT ![Config].sha = disk[Config]]

\* The installation is recorded last, unless what comes before it fails; a
\* correction of drift records nothing.
RecordInstalled == recorded' \in {recorded} \cup IF op.kind = "drift" THEN {} ELSE {"current"}

Refresh ==
    /\ At("refresh")
    /\ RefreshOwnership
    /\ RecordInstalled
    /\ Finish
    /\ UNCHANGED <<disk, store, rendering, writes, ops>>

\* The patch of an edited configuration: the bytes it was computed from are
\* copied, and whatever is on disk is replaced.
Patch ==
    /\ At("patch")
    /\ BackUp({Config}, [p \in Paths |-> op.read])
    /\ disk' = [disk EXCEPT ![Config] = [op.read EXCEPT !.takt = op.target[Config]]]
    /\ Looked(Config)
    /\ Goto("reassigned")
    /\ UNCHANGED <<retained, manifest, recorded, rendering, writes, ops>>

Reassigned ==
    /\ At("reassigned")
    /\ rendering' = op.target
    /\ op' = [NoOp EXCEPT !.target = op.target] /\ late' = {}
    /\ UNCHANGED <<disk, store, manifest, recorded, writes, ops>>

-----------------------------------------------------------------------------
(* Uninstalling, and restoring what was there before *)

\* What an uninstall does with the file of an entry.
Restorable(p, e) == e.pre /\ disk[p] = e.sha /\ Resolve(p, e.backup) # NoFile

Removal(p, e) ==
    IF Missing(p) THEN "missing" ELSE IF disk[p] = e.sha THEN "clean" ELSE "edited"

\* The entries, taken in order; the manifest on disk is left for the end.
BeginUninstall ==
    /\ Begin("uninstall")
    /\ op' = [NoOp EXCEPT !.kind = "uninstall", !.entries = manifest,
                          !.pc = IF Managed(manifest) = {} THEN "read" ELSE "items",
                          !.pending = Managed(manifest)]

\* A file that was there before Takt is left, or restored later when untouched.
PreservePreExisting(p) ==
    op' = [op EXCEPT !.pending = @ \ {p}, !.entries[p] = NoEntry,
                     !.done = IF Restorable(p, op.entries[p]) THEN @ \cup {p} ELSE @]

\* A file Takt created is moved aside; one edited since stays, with its entry.
StageRemoval(p) ==
    CASE Removal(p, op.entries[p]) = "missing" ->
           op' = [op EXCEPT !.pending = @ \ {p}, !.entries[p] = NoEntry]
      [] Removal(p, op.entries[p]) = "edited"  -> op' = [op EXCEPT !.pending = @ \ {p}]
      [] OTHER                                 -> Goto("aside")

Item ==
    LET p == Next1(op.pending)
    IN /\ At("items")
       /\ IF op.pending = {} \/ op.cancel
          THEN Goto("restores") /\ UNCHANGED late
          ELSE /\ Looked(p)
               /\ IF op.entries[p].pre THEN PreservePreExisting(p) ELSE StageRemoval(p)
       /\ UNCHANGED disk /\ Kept

MoveAside ==
    LET p == Next1(op.pending)
    IN /\ At("aside")
       /\ \/ /\ ~Missing(p)
             /\ disk' = [disk EXCEPT ![p] = NoFile]
             /\ op' = [op EXCEPT !.pc = "items", !.pending = @ \ {p}, !.entries[p] = NoEntry,
                                 !.staged[p] = disk[p]]
             /\ Looked(p)
          \/ Goto("unstage") /\ UNCHANGED <<disk, late>>
       /\ Kept

\* The restore command takes every entry with a copy, and changes no entry.
BeginRestore ==
    /\ Begin("restore") /\ Managed(manifest) # {}
    /\ op' = [NoOp EXCEPT !.kind = "restore", !.pc = "restores",
                          !.done = {p \in Managed(manifest) : manifest[p].backup # NoRef}]

\* classifyRestoreEntry: only the content recorded at takeover, over a file that
\* is missing or holds what Takt installed. Uninstalling undoes itself otherwise.
Classify ==
    LET p == Next1(op.done)
        e == manifest[p]
        copied == Resolve(p, e.backup) = e.prior
    IN /\ At("restores") /\ op.done # {}
       /\ Looked(p)
       /\ IF copied /\ disk[p] = e.prior THEN op' = [op EXCEPT !.done = @ \ {p}]
          ELSE IF copied /\ ~Edited(manifest, p) THEN Goto("put")
          ELSE IF op.kind = "restore" THEN op' = [op EXCEPT !.done = @ \ {p}]
          ELSE Goto("unstage")
       /\ UNCHANGED disk /\ Kept

\* The rename may have put the file back even where the call fails: it fails
\* as well when the directory cannot be synced afterwards.
PutBack ==
    LET p == Next1(op.done)
        back == [disk EXCEPT ![p] = manifest[p].prior]
    IN /\ At("put")
       /\ \/ /\ disk' = back
             /\ op' = [op EXCEPT !.pc = "restores", !.done = @ \ {p}]
             /\ Looked(p)
          \/ /\ disk' \in {disk, back} /\ Looked(p)
             /\ IF op.kind = "restore" THEN op' = [op EXCEPT !.pc = "restores", !.done = @ \ {p}]
                ELSE Goto("unstage")
       /\ Kept

Restored ==
    /\ At("restores") /\ op.done = {} /\ op.kind = "restore"
    /\ Finish
    /\ UNCHANGED disk /\ Kept

\* Failing, an uninstall moves back what it moved aside, best effort, and clears
\* its staging directory.
Unstage ==
    /\ At("unstage")
    /\ \E back \in SUBSET {p \in Paths : op.staged[p] # NoFile} :
         disk' = [p \in Paths |-> IF p \in back THEN op.staged[p] ELSE disk[p]]
    /\ Finish /\ Kept

\* The files moved aside are deleted, then the entries are saved.
Purge ==
    /\ At("restores") /\ op.done = {} /\ op.kind = "uninstall"
    /\ op' = [op EXCEPT !.pc = "finish", !.staged = NoFiles]
    /\ UNCHANGED <<disk, late>> /\ Kept

FinishUninstall ==
    /\ At("finish")
    /\ \/ /\ manifest' = op.entries
          /\ IF op.pending # {} THEN Finish ELSE Goto("read") /\ UNCHANGED late
       \/ manifest' \in {manifest, op.entries} /\ Finish
    /\ UNCHANGED <<disk, store, recorded, rendering, writes, ops>>

\* The user's choices about the edited files an uninstall left.
Retain(p, keep) ==
    /\ At("retain") /\ op.entries[p] # NoEntry
    /\ keep => ~Missing(p)
    /\ retained' = IF keep THEN [retained EXCEPT ![p] = @ \cup {disk[p]}] ELSE retained
    /\ disk' = [disk EXCEPT ![p] = NoFile]
    /\ op' = [op EXCEPT !.entries[p] = NoEntry]
    /\ Looked(p)
    /\ UNCHANGED <<first, others, manifest, recorded, rendering, writes, ops>>

Retained ==
    /\ At("retain")
    /\ manifest' \in {manifest, op.entries}
    /\ Finish
    /\ UNCHANGED <<disk, store, recorded, rendering, writes, ops>>

-----------------------------------------------------------------------------
User == \/ \E p \in Paths, u \in Parts : UserEdits(p, u) \/ UserReplaces(p, u)
        \/ \E p \in Paths : UserDeletes(p)

Apply ==
    \/ \E kind \in {"install", "sync"}, keep \in KeepSets : BeginApply(kind, keep)
    \/ \E selected \in KeepSets : BeginCorrectDrift(selected)
    \/ BeginReassign \/ Plan \/ CapturePriors \/ Inspect
    \/ Check \/ Install \/ Committed \/ RollBack \/ RolledBack \/ SaveManifest
    \/ ReadConfig \/ WriteConfig \/ Refresh \/ Patch \/ Reassigned

Remove ==
    \/ BeginUninstall \/ Item \/ MoveAside \/ Unstage \/ Purge \/ FinishUninstall
    \/ BeginRestore \/ Classify \/ PutBack \/ Restored
    \/ \E p \in Paths, keep \in BOOLEAN : Retain(p, keep)
    \/ Retained

Next == User \/ NewBuild \/ UserCancels \/ Crash \/ Apply \/ Remove

Spec == Init /\ [][Next]_vars

-----------------------------------------------------------------------------
(* Properties *)

\* The parts of a path's user that are somewhere: in place, in a copy, kept at
\* uninstall, or moved aside for the time an uninstall runs.
Surviving(p) ==
    {c.own : c \in ({disk[p], first[p], op.staged[p]} \cup others[p] \cup retained[p]) \ {NoFile}}

\* What is known to lose a user's write. A write landing between the last look
\* at a path and its replacement is not detected (PRD_INSTALLATION, PR-INS-47).
Undetected(p) == p \in late /\ op.pc \in {"rename", "aside", "put", "write"}

\* Undoing a batch, undoing an uninstall and patching an edited configuration
\* replace a path without looking at it again.
Unlooked(p) == p \in late /\ op.pc \in {"rollback", "unstage", "patch"}

\* Recording the digest of a configuration the user edited takes it for Takt's.
TakenOver(p) ==
    /\ manifest[p] # NoEntry /\ manifest[p].sha \in {disk[p], op.staged[p]}
    /\ manifest[p].sha.own \notin {NoPart}

\* What the user asked to remove, and what was written to a path after the last
\* look and then moved aside.
Removed(p) == op.pc = "retain" \/ (op.staged[p] # NoFile /\ op.staged[p] # manifest[p].sha)

\* The content a batch merged is Takt's to take back.
Undone(p) == op.pc = "rollback" /\ disk[p] = op.new[p]

KnownLoss(p) == Undetected(p) \/ Unlooked(p) \/ TakenOver(p) \/ Removed(p) \/ Undone(p)

\* No step of Takt destroys the last copy of something the user wrote: what is
\* overwritten, merged, moved or deleted was copied before, whatever operations,
\* failures and crashes came in between (setup/operations.go:777, :938).
EditsAreKept ==
    [][writes' = writes => \A p \in Paths : \A u \in Surviving(p) \ {NoPart} :
           u \in Surviving(p)' \/ KnownLoss(p)]_vars

\* A batch that is rolled back leaves every path as it was, but for what the user
\* wrote meanwhile and what could not be put back (deployObserved,
\* setup/deploy.go:118).
RolledBackLeavesNothing ==
    [][At("rollback") /\ Idle' /\ op.done = {} =>
           \A p \in Paths \ op.stuck : disk[p] = op.orig[p] \/ p \in late]_vars

\* The copy an entry refers to is there and holds the content recorded at
\* takeover: no later copy ever replaces it (setup/restore.go:195).
BackupsHoldPriors ==
    \A p \in Managed(manifest) :
        manifest[p].backup # NoRef => Resolve(p, manifest[p].backup) = manifest[p].prior

\* A batch replaces nothing the user wrote, and that was there when it looked,
\* without a copy (PRD_INSTALLATION.md:20). Refuted: registering the servers
\* in an edited configuration takes the edit for Takt's own content, and the
\* next batch replaces it (README, Disagreements).
ForeignIsCopied ==
    [][At("rename") /\ writes' = writes =>
           \A p \in Paths \ late : Missing(p) \/ disk[p].own \in Surviving(p)' \cup {NoPart}]_vars
=============================================================================
