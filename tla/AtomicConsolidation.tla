------------------------ MODULE AtomicConsolidation ------------------------
(***************************************************************************)
(* What consolidation promises to whoever respects the recovery barrier:   *)
(* a workspace `view` in which one author's staged work appears at once    *)
(* and only over the content its claim captured, in which a maintenance    *)
(* cycle is undone at once to what it found, and which nothing else but    *)
(* the user and an approved interrupted closure ever changes.              *)
(*                                                                         *)
(* VFSConsolidation, which writes files one by one and may stop between    *)
(* any two steps, is shown to implement this module.                       *)
(***************************************************************************)
EXTENDS Naturals

CONSTANTS Paths,      \* workspace-relative paths
          Content,    \* what a present file holds (bytes and mode)
          Absent,     \* the state of a path with no file
          Unset,      \* a path that is not staged, claimed or retained
          Agents,     \* claim keys
          Cycles,     \* maintenance cycles
          NoCycle,    \* ordinary work
          CycleOf     \* the cycle a claim key works for

File  == Content \cup {Absent}
Slots == [Paths -> File \cup {Unset}]
Empty == [p \in Paths |-> Unset]

VARIABLES view,       \* the workspace as seen across the recovery barrier
          base,       \* what each claim captured
          work,       \* staged files of each claim
          found,      \* per cycle: content before its first consolidation
          left,       \* per cycle: content after its last consolidation
          archive,    \* approved interrupted closures so far
          edits,      \* writes of the user so far
          hidden      \* paths the user wrote behind a pending manifest

vars == <<view, base, work, found, left, archive, edits, hidden>>

Over(f, g) == [p \in Paths |-> IF g[p] = Unset THEN f[p] ELSE g[p]]

\* `v` is the workspace a finished effect leaves: `w`, except where the user
\* wrote behind the manifest.
Surfaces(v, w) == /\ v \in [Paths -> File]
                  /\ \A p \in Paths \ hidden : v[p] = w[p]

Init == /\ view \in [Paths -> File]
        /\ base = [a \in Agents |-> Empty]
        /\ work = [a \in Agents |-> Empty]
        /\ found = [c \in Cycles |-> Empty]
        /\ left = [c \in Cycles |-> Empty]
        /\ archive = 0
        /\ edits = 0
        /\ hidden = {}

\* Claiming a scope captures the visible content of each of its paths.
Claim(a) == /\ UNCHANGED <<archive, edits, work, hidden, found, left, view>>
            /\ \E S \in SUBSET Paths :
                 base' = [base EXCEPT ![a] =
                            [p \in Paths |-> IF p \in S THEN view[p] ELSE Unset]]

Stage(a) == /\ UNCHANGED <<archive, edits, base, hidden, found, left, view>>
            /\ \E p \in Paths, v \in File : work' = [work EXCEPT ![a][p] = v]

Drop(a) == /\ base' = [base EXCEPT ![a] = Empty]
           /\ work' = [work EXCEPT ![a] = Empty]
           /\ UNCHANGED <<view, found, left, archive, edits, hidden>>

\* All of an author's work appears at once, over exactly what it captured.
Consolidate(a) ==
  /\ work[a] # Empty
  /\ \A p \in Paths : work[a][p] # Unset => view[p] = base[a][p]
  /\ \A p \in hidden : work[a][p] # Unset
  /\ view' = Over(view, work[a])
  /\ base' = [base EXCEPT ![a] = Empty]
  /\ work' = [work EXCEPT ![a] = Empty]
  /\ hidden' = {}
  /\ IF CycleOf[a] = NoCycle
     THEN UNCHANGED <<found, left>>
     ELSE LET c == CycleOf[a] IN
          /\ found' = [found EXCEPT ![c] =
               [p \in Paths |-> IF work[a][p] = Unset \/ found[c][p] # Unset
                                THEN found[c][p] ELSE view[p]]]
          /\ left' = [left EXCEPT ![c] = Over(left[c], work[a])]
  /\ UNCHANGED <<archive, edits>>

\* A cycle is undone at once, and only where the workspace still holds it.
DiscardCycle(c) ==
  /\ found[c] # Empty
  /\ \A p \in Paths : found[c][p] # Unset => view[p] = left[c][p]
  /\ Surfaces(view', Over(view, found[c]))
  /\ \A p \in hidden : found[c][p] # Unset
  /\ found' = [found EXCEPT ![c] = Empty]
  /\ left' = [left EXCEPT ![c] = Empty]
  /\ hidden' = {}
  /\ UNCHANGED <<base, work, archive, edits>>

\* A cycle that closed, or whose approved interruption was archived, can no
\* longer be undone.
ForgetCycle(c) ==
  /\ found' = [found EXCEPT ![c] = Empty]
  /\ left' = [left EXCEPT ![c] = Empty]
  /\ archive' \in {archive, archive + 1}
  /\ UNCHANGED <<view, base, work, edits, hidden>>

\* The user writes; behind a pending manifest the write is not visible yet.
UserWrite(p) ==
  /\ edits' = edits + 1
  /\ \/ /\ \E v \in File : view' = [view EXCEPT ![p] = v]
        /\ hidden' = hidden
     \/ /\ hidden' = hidden \cup {p}
        /\ view' = view
  /\ UNCHANGED <<base, work, found, left, archive>>

\* An interrupted effect was rolled back: nothing changes but what the user
\* wrote behind its manifest.
RolledBack == /\ hidden' = {}
              /\ UNCHANGED <<archive, edits, base, work, found, left>>
              /\ Surfaces(view', view)

\* The user approved keeping whatever an interrupted effect left on disk.
Interrupted == /\ archive' = archive + 1
               /\ view' \in [Paths -> File]
               /\ hidden' = {}
               /\ UNCHANGED <<base, work, found, left, edits>>

Next == \/ RolledBack
        \/ Interrupted
        \/ \E p \in Paths : UserWrite(p)
        \/ \E c \in Cycles : DiscardCycle(c) \/ ForgetCycle(c)
        \/ \E a \in Agents : Claim(a) \/ Stage(a) \/ Drop(a) \/ Consolidate(a)

Spec == Init /\ [][Next]_vars
=============================================================================
