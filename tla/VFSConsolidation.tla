-------------------------- MODULE VFSConsolidation --------------------------
(***************************************************************************)
(* The effect side of takt/vfs: how staged work reaches the workspace, how *)
(* a flush that stops halfway is rolled back, and how a maintenance cycle  *)
(* is retained and undone (recovery.go, cycle.go, repair.go).              *)
(*                                                                         *)
(* An operation holds the store's lock, so no two operations interleave;   *)
(* what interleaves with every step of one is the user's editor, and the   *)
(* end of the process.  Memory and the SQLite store differ only inside one *)
(* step here: a failed save faults the store, which refuses every          *)
(* operation until it is opened again from what was saved, so `Stop`       *)
(* stands for a crash, an I/O failure and a failed save alike.             *)
(***************************************************************************)
EXTENDS Naturals, Sequences, FiniteSets

CONSTANTS Paths,      \* workspace-relative paths, numbered in flush order
          Content,    \* what a present file holds: its bytes and mode
          Absent,     \* the state of a path with no file
          Unset,      \* a path that is not staged, claimed, planned or retained
          Dirs,       \* directories a flush may have to create
          Root,       \* the workspace root, always there
          DirOf,      \* the directory of each path
          Agents,     \* claim keys
          Cycles,     \* maintenance cycles
          NoCycle,    \* ordinary work
          CycleOf,    \* the cycle a claim key works for
          Null,       \* no manifest
          MaxEdits,   \* bound: writes of the user
          MaxJournal  \* bound: effects started

File  == Content \cup {Absent}
Slots == [Paths -> File \cup {Unset}]
Empty == [p \in Paths |-> Unset]
Set(f) == {p \in Paths : f[p] # Unset}

ASSUME PathsAssumption == Paths \subseteq Nat \ {0} /\ IsFiniteSet(Paths)
ASSUME ValuesAssumption ==
  /\ Absent \notin Content
  /\ Unset \notin File
  /\ DirOf \in [Paths -> Dirs \cup {Root}]
  /\ Root \notin Dirs
ASSUME CyclesAssumption ==
  /\ NoCycle \notin Cycles
  /\ CycleOf \in [Agents -> Cycles \cup {NoCycle}]
ASSUME NullAssumption ==
  Null \notin [author : Agents, before : Slots, after : Slots,
               intent : Nat, dirs : SUBSET Dirs]
ASSUME BoundsAssumption == MaxEdits \in Nat /\ MaxJournal \in Nat

VARIABLES
  disk,      \* the file at each path
  dirs,      \* directories that exist
  temps,     \* paths whose private sibling temporary exists
  strays,    \* temporaries an approved closure left behind
  base,      \* store: content captured for each claimed path
  work,      \* store: staged files
  manifest,  \* store: the recovery manifest, or Null
  found,     \* store: per cycle, content before its first consolidation
  left,      \* store: per cycle, content after its last consolidation
  madeDirs,  \* store: per cycle, directories its flushes created
  lastAgent, \* store: per cycle, the claim that consolidated last
  closed,    \* store: cycles completed, discarded or archived
  archive,   \* store: approved interrupted closures
  journal,   \* store: one entry per finished effect
  op,        \* the operation holding the lock, and the step it is at
  edits,     \* writes of the user so far
  hidden,    \* history: paths the user wrote behind the pending manifest
  raced      \* history: paths the user wrote since the operation checked them

store  == <<base, work, manifest, found, left, madeDirs, lastAgent,
            closed, archive, journal>>
claims == <<base, work>>
cycles == <<found, left, madeDirs, lastAgent, closed>>
tree   == <<disk, dirs, temps, strays>>
vars   == <<disk, dirs, temps, strays, base, work, manifest, found, left, madeDirs,
            lastAgent, closed, archive, journal, op, edits, hidden, raced>>

Manifest == [author : Agents, before : Slots, after : Slots,
             intent : Nat, dirs : SUBSET Dirs]
Entry == [outcome : {"flushed", "discarded", "restored", "interrupted"},
          subject : Agents \cup Cycles]
Idle == [kind |-> "idle", phase |-> "none", at |-> 0, cycle |-> NoCycle]

TypeOK ==
  /\ disk \in [Paths -> File]
  /\ dirs \subseteq Dirs
  /\ temps \subseteq Paths
  /\ strays \subseteq Paths
  /\ base \in [Agents -> Slots]
  /\ work \in [Agents -> Slots]
  /\ manifest \in Manifest \cup {Null}
  /\ found \in [Cycles -> Slots]
  /\ left \in [Cycles -> Slots]
  /\ madeDirs \in [Cycles -> SUBSET Dirs]
  /\ lastAgent \in [Cycles -> Agents \cup {Null}]
  /\ closed \subseteq Cycles
  /\ archive \in Nat
  /\ journal \in Seq(Entry)
  /\ op \in [kind : {"idle", "flush", "discard", "recover"},
             phase : {"none", "dirs", "items", "write", "rename", "confirm", "commit"},
             at : Nat, cycle : Cycles \cup {NoCycle}]
  /\ edits \in Nat
  /\ hidden \subseteq Paths
  /\ raced \subseteq Paths

-----------------------------------------------------------------------------
(* Helpers *)

Items(m)   == Set(m.before)
\* m.Items[:m.Intent]: what recovery may have to restore.
Touched(m) == {p \in Items(m) : p <= m.intent}
\* The next of S after n, in flush order.
IsNext(p, S, n) == p \in S /\ p > n /\ \A q \in S : q > n => p <= q
Done(S, n) == \A q \in S : q <= n

Exists(d) == d = Root \/ d \in dirs
\* Directory d holds a file or one of the temporaries T.
Holds(d, T) == \E p \in Paths : DirOf[p] = d /\ (disk[p] # Absent \/ p \in T \cup strays)
\* Bug variant: the workspace root is taken for a directory to create.
MissingOrRoot(S) == {DirOf[p] : p \in S} \ dirs
Missing(S) == {DirOf[p] : p \in S} \ (dirs \cup {Root})

Over(f, g) == [p \in Paths |-> IF g[p] = Unset THEN f[p] ELSE g[p]]
Only(f, S) == [p \in Paths |-> IF p \in S THEN f[p] ELSE Unset]

\* readyLocked: an operation starts on no pending manifest.
Ready == op = Idle /\ manifest = Null
Log(outcome, subject) ==
  journal' = Append(journal, [outcome |-> outcome, subject |-> subject])
\* guardMaintenanceLocked: nothing more is done for a cycle that is over.
CycleActive(a) == CycleOf[a] \notin closed
\* The operation returns; what it saved stays.
Return == op' = Idle /\ raced' = {}
At(kind, phase) == op.kind = kind /\ op.phase = phase
Flushing(phase) == op.kind \in {"flush", "discard"} /\ op.phase = phase

-----------------------------------------------------------------------------
Init ==
  /\ disk \in [Paths -> File]
  /\ dirs = {DirOf[p] : p \in {q \in Paths : disk[q] # Absent}} \ {Root}
  /\ temps = {}
  /\ strays = {}
  /\ base = [a \in Agents |-> Empty]
  /\ work = [a \in Agents |-> Empty]
  /\ manifest = Null
  /\ found = [c \in Cycles |-> Empty]
  /\ left = [c \in Cycles |-> Empty]
  /\ madeDirs = [c \in Cycles |-> {}]
  /\ lastAgent = [c \in Cycles |-> Null]
  /\ closed = {}
  /\ archive = 0
  /\ journal = <<>>
  /\ op = Idle
  /\ edits = 0
  /\ hidden = {}
  /\ raced = {}

-----------------------------------------------------------------------------
(* Staging: claims are exclusive and capture a base for every path.        *)

Claim(a, S) ==
  /\ Ready
  /\ S # {}
  /\ Set(base[a]) = {}
  /\ CycleActive(a)
  /\ \A b \in Agents : Set(base[b]) \cap S = {}
  /\ base' = [base EXCEPT ![a] = Only(disk, S)]
  /\ UNCHANGED <<tree, work, manifest, cycles, archive, journal,
                 op, edits, hidden, raced>>

Stage(a, p, v) ==
  /\ Ready
  /\ base[a][p] # Unset
  /\ work' = [work EXCEPT ![a][p] = v]
  /\ UNCHANGED <<tree, base, manifest, cycles, archive, journal,
                 op, edits, hidden, raced>>

\* The orchestrator discards staged work, or a cycle's unconsolidated work.
Drop(a) ==
  /\ Ready
  /\ base' = [base EXCEPT ![a] = Empty]
  /\ work' = [work EXCEPT ![a] = Empty]
  /\ UNCHANGED <<tree, manifest, cycles, archive, journal, op,
                 edits, hidden, raced>>

-----------------------------------------------------------------------------
(* Consolidation: check every base, save the manifest, replace in order.   *)

\* Bug variant: the claim's captured bases are not checked again.
ConsolidateUnchecked(a) ==
  /\ Ready
  /\ Len(journal) < MaxJournal
  /\ Set(work[a]) # {}
  /\ CycleActive(a)
  /\ manifest' = [author |-> a, before |-> Only(disk, Set(work[a])),
                  after |-> work[a], intent |-> 0, dirs |-> Missing(Set(work[a]))]
  /\ op' = [Idle EXCEPT !.kind = "flush", !.phase = "dirs"]
  /\ UNCHANGED <<tree, claims, cycles, archive, journal, edits, hidden, raced>>

ConsolidateBegin(a) ==
  /\ Ready
  /\ Len(journal) < MaxJournal
  /\ Set(work[a]) # {}
  /\ CycleActive(a)
  /\ \A p \in Set(base[a]) : disk[p] = base[a][p]
  /\ manifest' = [author |-> a, before |-> Only(disk, Set(work[a])),
                  after |-> work[a], intent |-> 0, dirs |-> Missing(Set(work[a]))]
  /\ op' = [Idle EXCEPT !.kind = "flush", !.phase = "dirs"]
  /\ UNCHANGED <<tree, claims, cycles, archive, journal, edits,
                 hidden, raced>>

CreateDir(d) ==
  /\ Flushing("dirs")
  /\ d \in manifest.dirs \ dirs
  /\ dirs' = dirs \cup {d}
  /\ UNCHANGED <<disk, temps, strays, store, op, edits, hidden, raced>>

DirsCreated ==
  /\ Flushing("dirs")
  /\ manifest.dirs \subseteq dirs
  /\ op' = [op EXCEPT !.phase = "items"]
  /\ UNCHANGED <<tree, store, edits, hidden, raced>>

\* The content is checked again, then the intent is saved, then the file is
\* written: a user may write between the check and the write.
MarkIntent(p) ==
  /\ Flushing("items")
  /\ IsNext(p, Items(manifest), manifest.intent)
  /\ disk[p] = manifest.before[p]
  /\ manifest' = [manifest EXCEPT !.intent = p]
  /\ op' = [op EXCEPT !.phase = "write", !.at = p]
  /\ raced' = raced \ {p}
  /\ UNCHANGED <<tree, claims, cycles, archive, journal, edits, hidden>>

\* A base that moved ends the flush with its manifest pending.
BaseChanged(p) ==
  /\ Flushing("items")
  /\ IsNext(p, Items(manifest), manifest.intent)
  /\ disk[p] # manifest.before[p]
  /\ Return
  /\ UNCHANGED <<tree, store, edits, hidden>>

\* replaceLocked: a temporary sibling renamed over the path, or an unlink.
\* A parent that is gone stops the replacement.
WriteTemp(p, target) ==
  /\ op.phase = "write"
  /\ op.at = p
  /\ target[p] # Absent
  /\ Exists(DirOf[p])
  /\ temps' = temps \cup {p}
  /\ op' = [op EXCEPT !.phase = "rename"]
  /\ UNCHANGED <<disk, dirs, strays, store, edits, hidden, raced>>

Replace(p, target, next) ==
  /\ op.at = p
  /\ \/ op.phase = "rename" /\ temps' = temps \ {p}
     \/ op.phase = "write" /\ target[p] = Absent /\ Exists(DirOf[p]) /\ temps' = temps
  /\ disk' = [disk EXCEPT ![p] = target[p]]
  /\ op' = [op EXCEPT !.phase = next]
  /\ UNCHANGED <<dirs, strays, store, edits, hidden, raced>>

FlushTemp(p) == op.kind \in {"flush", "discard"} /\ WriteTemp(p, manifest.after)
FlushFile(p) == op.kind \in {"flush", "discard"} /\ Replace(p, manifest.after, "items")

Verified == /\ Flushing("items")
            /\ Done(Items(manifest), manifest.intent)
            /\ \A p \in Items(manifest) : disk[p] = manifest.after[p]

VerifyFails ==
  /\ Flushing("items")
  /\ Done(Items(manifest), manifest.intent)
  /\ \E p \in Items(manifest) : disk[p] # manifest.after[p]
  /\ Return
  /\ UNCHANGED <<tree, store, edits, hidden>>

\* Bug variant: the latest consolidation's original replaces the first one's.
RetainLatest(c, m) ==
  /\ found' = [found EXCEPT ![c] = Over(found[c], m.before)]
  /\ left' = [left EXCEPT ![c] = Over(left[c], m.after)]
  /\ madeDirs' = [madeDirs EXCEPT ![c] = @ \cup m.dirs]
  /\ lastAgent' = [lastAgent EXCEPT ![c] = m.author]
  /\ UNCHANGED closed

\* A cycle keeps what it found before its first consolidation of a path.
Retain(c, m) ==
  /\ found' = [found EXCEPT ![c] =
       [p \in Paths |-> IF m.before[p] = Unset \/ found[c][p] # Unset
                        THEN found[c][p] ELSE m.before[p]]]
  /\ left' = [left EXCEPT ![c] = Over(left[c], m.after)]
  /\ madeDirs' = [madeDirs EXCEPT ![c] = @ \cup m.dirs]
  /\ lastAgent' = [lastAgent EXCEPT ![c] = m.author]
  /\ UNCHANGED closed

\* The manifest, the staged work and the claim go in one transaction.
CommitFlush ==
  /\ op.kind = "flush"
  /\ Verified
  /\ LET a == manifest.author IN
     /\ base' = [base EXCEPT ![a] = Empty]
     /\ work' = [work EXCEPT ![a] = Empty]
     /\ IF CycleOf[a] = NoCycle THEN UNCHANGED cycles ELSE Retain(CycleOf[a], manifest)
     /\ Log("flushed", a)
  /\ manifest' = Null
  /\ hidden' = {}
  /\ Return
  /\ UNCHANGED <<tree, archive, edits>>

-----------------------------------------------------------------------------
(* Maintenance cycles: closing one keeps its work; discarding one flushes  *)
(* its reverse, once every path is proved to hold its output.              *)

CompleteCycle(c) ==
  /\ Ready
  /\ Set(found[c]) # {} /\ c \notin closed
  /\ closed' = closed \cup {c}
  /\ UNCHANGED <<tree, claims, manifest, found, left, madeDirs,
                 lastAgent, archive, journal, op, edits, hidden, raced>>

Discardable(c) == Ready /\ c \notin closed /\ Set(found[c]) # {}
Diverged(c) == \E p \in Set(found[c]) : disk[p] # left[c][p]

\* Bug variant: the cycle's output is not checked before it is undone.
DiscardUnchecked(c) ==
  /\ Discardable(c)
  /\ Len(journal) < MaxJournal
  /\ manifest' = [author |-> lastAgent[c], before |-> Only(disk, Set(found[c])),
                  after |-> found[c], intent |-> 0,
                  dirs |-> Missing({p \in Set(found[c]) : found[c][p] # Absent})]
  /\ op' = [Idle EXCEPT !.kind = "discard", !.phase = "dirs", !.cycle = c]
  /\ UNCHANGED <<tree, claims, cycles, archive, journal, edits, hidden, raced>>

DiscardBegin(c) ==
  /\ Discardable(c)
  /\ Len(journal) < MaxJournal
  /\ ~Diverged(c)
  /\ manifest' = [author |-> lastAgent[c], before |-> left[c], after |-> found[c],
                  intent |-> 0,
                  dirs |-> Missing({p \in Set(found[c]) : found[c][p] # Absent})]
  /\ op' = [Idle EXCEPT !.kind = "discard", !.phase = "dirs", !.cycle = c]
  /\ UNCHANGED <<tree, claims, cycles, archive, journal, edits,
                 hidden, raced>>

\* Temporaries and the cycle's own directories go before the discard is saved.
\* A directory somebody else filled stays.
DiscardCleanup ==
  /\ op.kind = "discard"
  /\ Verified
  /\ temps' = temps \ Items(manifest)
  /\ dirs' = dirs \ {d \in madeDirs[op.cycle] : ~Holds(d, temps \ Items(manifest))}
  /\ op' = [op EXCEPT !.phase = "commit"]
  /\ UNCHANGED <<disk, strays, store, edits, hidden, raced>>

\* Removing an empty directory, or syncing its parent, fails: the entries
\* already appended are saved with the manifest still pending.
DiscardCleanupFails ==
  /\ op.kind = "discard"
  /\ Verified
  /\ temps' = temps \ Items(manifest)
  /\ LET empty == {d \in madeDirs[op.cycle] \cap dirs : ~Holds(d, temps')}
     IN empty # {} /\ \E R \in SUBSET empty : dirs' = dirs \ R
  /\ Log("discarded", op.cycle)
  /\ Return
  /\ UNCHANGED <<disk, strays, claims, manifest, cycles, archive, edits, hidden>>

CommitDiscard ==
  /\ At("discard", "commit")
  /\ LET c == op.cycle IN
     /\ found' = [found EXCEPT ![c] = Empty]
     /\ left' = [left EXCEPT ![c] = Empty]
     /\ madeDirs' = [madeDirs EXCEPT ![c] = {}]
     /\ lastAgent' = [lastAgent EXCEPT ![c] = Null]
     /\ closed' = closed \cup {c}
     /\ Log("discarded", c)
  /\ manifest' = Null
  /\ hidden' = {}
  /\ Return
  /\ UNCHANGED <<tree, claims, archive, edits>>

\* A cycle whose output the user changed is closed only by approval, keeping
\* the files as they are and archiving its snapshot and staged work.
PreserveInterruptedCycle(c) ==
  /\ Discardable(c)
  /\ Len(journal) < MaxJournal
  /\ Diverged(c)
  /\ found' = [found EXCEPT ![c] = Empty]
  /\ left' = [left EXCEPT ![c] = Empty]
  /\ madeDirs' = [madeDirs EXCEPT ![c] = {}]
  /\ lastAgent' = [lastAgent EXCEPT ![c] = Null]
  /\ closed' = closed \cup {c}
  /\ archive' = archive + 1
  /\ Log("interrupted", c)
  /\ UNCHANGED <<tree, claims, manifest, op, edits, hidden, raced>>

-----------------------------------------------------------------------------
(* Recovery: every touched path holds one of its two contents, or nothing  *)
(* is restored.  The check of all of them precedes the first restoration.  *)

Pending == op = Idle /\ manifest # Null
Foreign(p) == disk[p] \notin {manifest.before[p], manifest.after[p]}

\* Bug variant: recovery starts without looking at the touched paths.
RecoverBlind ==
  /\ Pending
  /\ op' = [Idle EXCEPT !.kind = "recover", !.phase = "items"]
  /\ UNCHANGED <<tree, store, edits, hidden, raced>>

RecoverBegin ==
  /\ Pending
  /\ \A p \in Touched(manifest) : ~Foreign(p)
  /\ op' = [Idle EXCEPT !.kind = "recover", !.phase = "items"]
  /\ UNCHANGED <<tree, store, edits, hidden, raced>>

RestoreNext(p) == At("recover", "items") /\ IsNext(p, Touched(manifest), op.at)

RestoreSkip(p) ==
  /\ RestoreNext(p)
  /\ disk[p] = manifest.before[p]
  /\ op' = [op EXCEPT !.at = p]
  /\ UNCHANGED <<tree, store, edits, hidden, raced>>

\* The leftover temporary goes and a new name is saved before it exists.
RestoreStart(p) ==
  /\ RestoreNext(p)
  /\ disk[p] # manifest.before[p]
  /\ temps' = temps \ {p}
  /\ op' = [op EXCEPT !.phase = "write", !.at = p]
  /\ UNCHANGED <<disk, dirs, strays, store, edits, hidden, raced>>

RestoreTemp(p) == op.kind = "recover" /\ WriteTemp(p, manifest.before)
RestoreFile(p) == op.kind = "recover" /\ Replace(p, manifest.before, "confirm")

RestoreNoParent ==
  /\ At("recover", "write")
  /\ ~Exists(DirOf[op.at])
  /\ Return
  /\ UNCHANGED <<tree, store, edits, hidden>>

RestoreConfirm ==
  /\ At("recover", "confirm")
  /\ IF disk[op.at] = manifest.before[op.at]
     THEN op' = [op EXCEPT !.phase = "items"] /\ raced' = raced
     ELSE Return
  /\ UNCHANGED <<tree, store, edits, hidden>>

\* Bug variant: the items' temporaries are forgotten.
LeaveTemporaries ==
  /\ At("recover", "items")
  /\ Done(Touched(manifest), op.at)
  /\ dirs' = dirs \ {d \in manifest.dirs : ~Holds(d, temps)}
  /\ op' = [op EXCEPT !.phase = "commit"]
  /\ UNCHANGED <<disk, temps, strays, store, edits, hidden, raced>>

\* Bug variant: the created directories are forgotten.
LeaveDirs ==
  /\ At("recover", "items")
  /\ Done(Touched(manifest), op.at)
  /\ temps' = temps \ Items(manifest)
  /\ op' = [op EXCEPT !.phase = "commit"]
  /\ UNCHANGED <<disk, dirs, strays, store, edits, hidden, raced>>

\* Leftovers: the temporaries of every item, then the created directories. A
\* directory the user filled stops recovery with the manifest pending.
RemoveLeftovers ==
  /\ At("recover", "items")
  /\ Done(Touched(manifest), op.at)
  /\ temps' = temps \ Items(manifest)
  /\ LET full == {d \in manifest.dirs : Holds(d, temps \ Items(manifest))}
     IN IF full = {}
        THEN /\ dirs' = dirs \ manifest.dirs
             /\ op' = [op EXCEPT !.phase = "commit"]
             /\ raced' = raced
        ELSE /\ \E R \in SUBSET (manifest.dirs \ full) : dirs' = dirs \ R
             /\ Return
  /\ UNCHANGED <<disk, strays, store, edits, hidden>>

CommitRecover ==
  /\ At("recover", "commit")
  /\ Log("restored", manifest.author)
  /\ manifest' = Null
  /\ hidden' = {}
  /\ Return
  /\ UNCHANGED <<tree, claims, cycles, archive, edits>>

\* Bug variant: a flush counts as diverged only when every touched path is.
PreserveWhollyForeign ==
  /\ Pending
  /\ Touched(manifest) # {}
  /\ \A p \in Touched(manifest) : Foreign(p)
  /\ Log("interrupted", manifest.author)
  /\ archive' = archive + 1
  /\ manifest' = Null
  /\ hidden' = {}
  /\ strays' = strays \cup temps
  /\ temps' = {}
  /\ UNCHANGED <<disk, dirs, claims, cycles, op, edits, raced>>

\* A foreign content is never restored over: the user approves keeping the
\* files, and manifest and staged evidence are archived.
PreserveInterruptedFlush ==
  /\ Pending
  /\ \E p \in Touched(manifest) : Foreign(p)
  /\ Log("interrupted", manifest.author)
  /\ archive' = archive + 1
  /\ manifest' = Null
  /\ hidden' = {}
  /\ strays' = strays \cup temps
  /\ temps' = {}
  /\ UNCHANGED <<disk, dirs, claims, cycles, op, edits, raced>>

-----------------------------------------------------------------------------
(* The environment: the end of the process, and the user's editor.         *)

Stop ==
  /\ op # Idle
  /\ Return
  /\ UNCHANGED <<tree, store, edits, hidden>>

UserWrite(p, v) ==
  /\ edits < MaxEdits
  /\ v # disk[p]
  /\ disk' = [disk EXCEPT ![p] = v]
  /\ dirs' = IF v = Absent THEN dirs ELSE dirs \cup ({DirOf[p]} \ {Root})
  /\ edits' = edits + 1
  /\ hidden' = IF manifest # Null /\ p \in Touched(manifest) THEN hidden \cup {p} ELSE hidden
  /\ raced' = IF op = Idle THEN raced ELSE raced \cup {p}
  /\ UNCHANGED <<temps, strays, store, op>>

Staging == \E a \in Agents :
             \/ \E S \in SUBSET Paths : Claim(a, S)
             \/ \E p \in Paths, v \in File : Stage(a, p, v)
             \/ Drop(a)

Flush == \/ \E a \in Agents : ConsolidateBegin(a)
         \/ \E d \in Dirs : CreateDir(d)
         \/ DirsCreated
         \/ \E p \in Paths : MarkIntent(p) \/ BaseChanged(p) \/ FlushTemp(p) \/ FlushFile(p)
         \/ VerifyFails
         \/ CommitFlush

Maintenance == \/ \E c \in Cycles :
                    CompleteCycle(c) \/ DiscardBegin(c) \/ PreserveInterruptedCycle(c)
               \/ DiscardCleanup
               \/ DiscardCleanupFails
               \/ CommitDiscard

Restore == \/ \E p \in Paths :
                RestoreSkip(p) \/ RestoreStart(p) \/ RestoreTemp(p) \/ RestoreFile(p)
           \/ RestoreNoParent
           \/ RestoreConfirm
           \/ RemoveLeftovers
           \/ CommitRecover

Environment == Stop \/ \E p \in Paths, v \in File : UserWrite(p, v)

Next == Staging \/ Flush \/ Maintenance \/ RecoverBegin \/ Restore
          \/ PreserveInterruptedFlush \/ Environment

Spec == Init /\ [][Next]_vars

\* The operation holding the lock takes its next step.
Advance == op # Idle /\ (Flush \/ Maintenance \/ Restore)

\* The steps that may return an error of the code's own: the manifest then
\* stays pending, as after a crash.
Fails == \/ \E p \in Paths : BaseChanged(p)
         \/ VerifyFails
         \/ DiscardCleanupFails
         \/ RestoreNoParent
         \/ RestoreConfirm
         \/ RemoveLeftovers

\* A running command runs on until it returns, and from some point on nothing
\* stops it from outside: it ends where its own code ends it, in success or in
\* failure.  A user whose workspace is blocked runs `vfs recover --restore` or
\* approves the repair offered.  Nothing else is promised.
Fairness == /\ WF_vars(Advance)
            /\ WF_vars(RecoverBegin)
            /\ WF_vars(PreserveInterruptedFlush)
            /\ <>[][Stop => Fails]_vars
FairSpec == Spec /\ Fairness

-----------------------------------------------------------------------------
(* Properties *)

\* Behind a pending manifest a touched path still counts as what it held
\* before the flush: recovery puts that back.
View == [p \in Paths |-> IF manifest # Null /\ p \in Touched(manifest)
                         THEN manifest.before[p] ELSE disk[p]]

\* (AtomicConsolidation) Each consolidation and each cycle discard happens at
\* once and over exactly the content it was planned on; rollback changes
\* nothing; no other step of takt changes the visible workspace.
Atomic == INSTANCE AtomicConsolidation WITH
            view <- View,
            found <- [c \in Cycles |-> IF c \in closed THEN Empty ELSE found[c]],
            left <- [c \in Cycles |-> IF c \in closed THEN Empty ELSE left[c]]
ImplementsAtomic == Atomic!Spec

\* takt writes only a path whose intent was saved first, and only over one of
\* the two contents the manifest names; a user's content is lost only when it
\* arrived after the last check of that path (replaceItems, checkTouched).
OverwritesKnownContentOnly ==
  [][edits' = edits =>
       \A p \in Paths : disk'[p] # disk[p] =>
         /\ p \in Touched(manifest)
         /\ disk[p] \in {manifest.before[p], manifest.after[p]} \/ p \in raced]_vars

\* No temporary outlives its effect, whichever steps it stopped between.
NoTemporaryOutlives == manifest = Null => temps = {}

\* A rolled back flush leaves no directory it created, unless the user has
\* written in it since.
RollbackRemovesDirs ==
  [][op.kind = "recover" /\ manifest # Null /\ manifest' = Null =>
       \A d \in manifest.dirs \cap dirs : \E p \in raced : DirOf[p] = d]_vars

\* "A crash before that commit rolls back on Recover": with no user write
\* since the start, whatever a stopped effect left can be put back.
RollbackPossible ==
  Pending /\ edits = 0 =>
    \A p \in Touched(manifest) : disk[p] # manifest.before[p] => Exists(DirOf[p])

\* A "discarded" entry marks a cycle undone in full, so the cycle's retained
\* work is gone.
DiscardedMeansUndone ==
  \A i \in 1..Len(journal) :
    journal[i].outcome = "discarded" => Set(found[journal[i].subject]) = {}

\* Recovery never overwrites a content that is neither of the manifest's.
RecoveryKeepsExternalChange ==
  [][op.kind = "recover" =>
       \A p \in Paths : edits' = edits /\ disk'[p] # disk[p] => ~Foreign(p)]_vars

\* The user wrote a file in a directory the flush created, so the directory
\* cannot go.
UserHoldsDir == /\ manifest # Null
                /\ \E p \in Paths \ Touched(manifest) :
                     DirOf[p] \in manifest.dirs /\ disk[p] # Absent

\* A discard stopped after its clean-up removed a directory its rollback needs
\* again (discardLocked): the restoration fails for ever.
CleanedUp == /\ manifest # Null
             /\ \E c \in Cycles :
                  /\ manifest.before = left[c] /\ manifest.after = found[c]
                  /\ \E p \in Touched(manifest) :
                       /\ manifest.before[p] # Absent
                       /\ DirOf[p] \in madeDirs[c] \ dirs

\* A blocked workspace is unblocked, whatever stopped and whatever the user
\* wrote, although recovery itself may fail and be run again.  Two blocks
\* remain: a user's file in a directory the flush created, and a discard
\* stopped after its clean-up.
PendingResolves == (manifest # Null) ~> (manifest = Null \/ UserHoldsDir \/ CleanedUp)
-----------------------------------------------------------------------------
(* The inductive invariant: what the store and the running operation agree *)
(* on at every step.                                                       *)

\* Work is staged only inside a claim, and a cycle retains both contents.
StoreInv ==
  /\ \A k \in Agents, p \in Paths : work[k][p] # Unset => base[k][p] # Unset
  /\ \A k \in Cycles : Set(found[k]) = Set(left[k])
  /\ \A k \in Cycles : Set(found[k]) # {} => lastAgent[k] \in Agents

\* A manifest names both contents of each item; the user's hidden writes are
\* on paths it touched.
ManifestInv ==
  /\ manifest = Null => hidden = {}
  /\ manifest # Null => /\ Set(manifest.before) = Set(manifest.after)
                        /\ hidden \subseteq Touched(manifest)

\* A running flush applies exactly its author's staged work over its captured
\* bases; a running discard applies exactly its cycle's reverse.
PlanInv ==
  /\ op # Idle => manifest # Null /\ op.kind # "idle"
  /\ op.kind = "flush" =>
       LET k == manifest.author IN
       /\ Set(work[k]) # {}
       /\ CycleOf[k] \notin closed
       /\ manifest.after = work[k]
       /\ manifest.before = Only(base[k], Set(work[k]))
  /\ op.kind = "discard" =>
       /\ op.cycle \in Cycles \ closed
       /\ Set(found[op.cycle]) # {}
       /\ manifest.after = found[op.cycle]
       /\ manifest.before = left[op.cycle]

\* Each step works on a path whose intent is saved; what it has settled holds
\* its final content unless the user wrote behind it.
StepInv ==
  /\ op.phase \in {"write", "rename", "confirm"} => op.at \in Touched(manifest)
  /\ op.phase = "confirm" => op.kind = "recover"
  /\ op.phase = "commit" => op.kind \in {"discard", "recover"}
  /\ op.kind = "recover" => \A p \in Touched(manifest) \ hidden :
       p < op.at \/ (p = op.at /\ op.phase \in {"items", "confirm", "commit"})
         => disk[p] = manifest.before[p]
  /\ At("recover", "commit") => Done(Touched(manifest), op.at)
  /\ At("discard", "commit") =>
       /\ Touched(manifest) = Items(manifest)
       /\ \A p \in Items(manifest) \ hidden : disk[p] = manifest.after[p]

IInv == TypeOK /\ StoreInv /\ ManifestInv /\ PlanInv /\ StepInv

=============================================================================
