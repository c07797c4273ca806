------------------------ MODULE WorkspaceTransaction ------------------------
(***************************************************************************)
(* One WorkspaceTransaction (src/src/karox/workspace_transaction.py): file *)
(* operations are staged against snapshots, the snapshots are compared     *)
(* with the files, and the operations are then carried out one by one or   *)
(* rolled back.  An editor that knows of no lease changes files meanwhile. *)
(*                                                                         *)
(* An expected digest, a credential or an unsafe path refuses an operation *)
(* when it is staged, which changes nothing.  Files are regular and small, *)
(* modes belong to the content, and there is one directory.                *)
(***************************************************************************)
EXTENDS Naturals, Sequences

CONSTANTS
  Path,       \* the files there can be
  Nested,     \* those inside the directory
  Content,    \* what a file may hold
  Absent,     \* no file
  Unseen,     \* no snapshot
  MaxOps,     \* bound: operations of the transaction
  MaxEdit     \* bound: changes by the editor

ASSUME WorkspaceAssumption ==
  /\ Nested \subseteq Path /\ Absent \notin Content /\ Unseen \notin Content \cup {Absent}
  /\ MaxOps \in Nat /\ MaxEdit \in Nat

VARIABLES
  disk,       \* the files of the repository
  dir,        \* whether the directory exists
  at,         \* how far the transaction is
  snap,       \* the files as they were captured (_states)
  virtual,    \* the files as staged operations leave them (_virtual)
  dirSnap,    \* the directory as it was captured (_directory_states), or Unseen
  actions,    \* the operations that are staged and not carried out yet
  made,       \* whether commit has created the directory (_created_dirs)
  todo,       \* the files rollback has not come to
  failures,   \* whether a part of the rollback has failed
  edits,      \* how often the editor has written
  dirty,      \* captured files that hold an edit no snapshot has seen
  late        \* files edited after the snapshots were compared

files == <<disk, dir>>
plan == <<snap, virtual, dirSnap>>
editing == <<edits, dirty, late>>
vars == <<files, at, plan, actions, made, todo, failures, editing>>

FileState == Content \cup {Absent}

Init ==
  /\ dir \in BOOLEAN /\ at = "staging"
  /\ disk \in [Path -> FileState]
  /\ \A p \in Nested : disk[p] # Absent => dir
  /\ snap = [p \in Path |-> Unseen] /\ virtual = snap
  /\ dirSnap = Unseen /\ actions = <<>>
  /\ made = FALSE /\ todo = {} /\ failures = FALSE
  /\ edits = 0 /\ dirty = {} /\ late = {}

Captured == {p \in Path : snap[p] # Unseen}

-----------------------------------------------------------------------------
(* Staging.                                                                *)

\* The first operation on a file reads it; later ones see what is staged.
Current(p) == IF snap[p] = Unseen THEN disk[p] ELSE virtual[p]

Captures(ps) == snap' = [p \in Path |-> IF p \in ps /\ snap[p] = Unseen THEN disk[p] ELSE snap[p]]

Stage(op) ==
  /\ at = "staging" /\ Len(actions) < MaxOps
  /\ actions' = Append(actions, op)
  /\ UNCHANGED <<files, at, made, todo, failures, editing>>

StageWrite(p, v) ==
  /\ Stage([op |-> "write", path |-> p, value |-> v])
  /\ Captures({p}) /\ virtual' = [virtual EXCEPT ![p] = v]
  /\ UNCHANGED dirSnap

\* A missing file is refused unless missing_ok is given.
StageDelete(p, missingOk) ==
  /\ Current(p) # Absent \/ missingOk
  /\ Stage([op |-> "delete", path |-> p])
  /\ Captures({p}) /\ virtual' = [virtual EXCEPT ![p] = Absent]
  /\ UNCHANGED dirSnap

StageMove(p, q, overwrite) ==
  /\ p # q /\ Current(p) # Absent /\ (Current(q) = Absent \/ overwrite)
  /\ Stage([op |-> "move", path |-> p, to |-> q])
  /\ Captures({p, q})
  /\ virtual' = [virtual EXCEPT ![p] = Absent, ![q] = Current(p)]
  /\ UNCHANGED dirSnap

StageMkdir ==
  /\ Stage([op |-> "mkdir"])
  /\ dirSnap' = IF dirSnap = Unseen THEN dir ELSE dirSnap
  /\ UNCHANGED <<snap, virtual>>

-----------------------------------------------------------------------------
(* commit.                                                                 *)

\* A comparison that only looks at the files the operations name first.
FreshSources ==
  /\ \A i \in DOMAIN actions :
       actions[i].op # "mkdir" => disk[actions[i].path] = snap[actions[i].path]
  /\ dirSnap \in {Unseen, dir}

\* _verify_live_snapshots.
Fresh == (\A p \in Captured : disk[p] = snap[p]) /\ dirSnap \in {Unseen, dir}

Verify ==
  /\ at = "staging" /\ actions # <<>>
  /\ at' = IF Fresh THEN "committing" ELSE "refused"
  /\ UNCHANGED <<files, plan, actions, made, todo, failures, editing>>

Op == Head(actions)

\* The directory is created for a file that goes into it, and remembered.
WithDirectory(needed) ==
  /\ dir' = (dir \/ needed)
  /\ made' = (made \/ (needed /\ ~dir))

\* What the transaction writes replaces what was there.
Writes(new) == disk' = new /\ dirty' = {p \in dirty : new[p] = disk[p]}

\* A write is skipped if the file was as wanted when it was captured.
PerformWriteBySnapshot ==
  /\ Op.op = "write"
  /\ WithDirectory(Op.path \in Nested /\ disk[Op.path] # Op.value)
  /\ Writes(IF snap[Op.path] = Op.value THEN disk ELSE [disk EXCEPT ![Op.path] = Op.value])

PerformWrite ==
  /\ Op.op = "write"
  /\ WithDirectory(Op.path \in Nested /\ disk[Op.path] # Op.value)
  /\ Writes([disk EXCEPT ![Op.path] = Op.value])

PerformDelete ==
  /\ Op.op = "delete" /\ WithDirectory(FALSE)
  /\ Writes([disk EXCEPT ![Op.path] = Absent])

\* A move that does not create the directory it moves to.
PerformMoveOnly ==
  /\ Op.op = "move" /\ disk[Op.path] # Absent /\ WithDirectory(FALSE)
  /\ Writes([disk EXCEPT ![Op.to] = disk[Op.path], ![Op.path] = Absent])

PerformMove ==
  /\ Op.op = "move" /\ disk[Op.path] # Absent
  /\ WithDirectory(Op.to \in Nested)
  /\ Writes([disk EXCEPT ![Op.to] = disk[Op.path], ![Op.path] = Absent])

PerformMkdir == Op.op = "mkdir" /\ WithDirectory(TRUE) /\ UNCHANGED <<disk, dirty>>

Perform ==
  /\ at = "committing" /\ actions # <<>>
  /\ PerformWrite \/ PerformDelete \/ PerformMove \/ PerformMkdir
  /\ actions' = Tail(actions)
  /\ UNCHANGED <<at, plan, todo, failures, edits, late>>

\* An operation raises: before it has changed anything, after the directory was
\* created for it, or, in a move, after the file in its way was unlinked.
Break ==
  /\ at = "committing" /\ actions # <<>>
  /\ \/ UNCHANGED <<disk, dir, made, dirty>>
     \/ /\ Op.op \in {"write", "move"}
        /\ WithDirectory((IF Op.op = "move" THEN Op.to ELSE Op.path) \in Nested)
        /\ \/ UNCHANGED <<disk, dirty>>
           \/ Op.op = "move" /\ Writes([disk EXCEPT ![Op.to] = Absent])
  /\ at' = "rolling" /\ todo' = Captured
  /\ UNCHANGED <<plan, actions, failures, edits, late>>

Finish ==
  /\ at = "committing" /\ actions = <<>> /\ at' = "done"
  /\ UNCHANGED <<files, plan, actions, made, todo, failures, editing>>

-----------------------------------------------------------------------------
(* rollback.                                                               *)

\* Files that did not exist are left where they are.
RestoreExisting(p) ==
  /\ at = "rolling" /\ p \in todo /\ todo' = todo \ {p}
  /\ Writes([disk EXCEPT ![p] = IF snap[p] = Absent THEN @ ELSE snap[p]])
  /\ UNCHANGED <<dir, at, plan, actions, made, failures, edits, late>>

\* Every captured file is written back, whether or not it was touched.
Restore(p) ==
  /\ at = "rolling" /\ p \in todo /\ todo' = todo \ {p}
  /\ disk' = [disk EXCEPT ![p] = snap[p]] /\ dirty' = dirty \ {p}
  /\ UNCHANGED <<dir, at, plan, actions, made, failures, edits, late>>

RestoreFails(p) ==
  /\ at = "rolling" /\ p \in todo /\ todo' = todo \ {p}
  /\ failures' = TRUE
  /\ UNCHANGED <<files, at, plan, actions, made, editing>>

\* The directory is removed if commit made it and nothing is in it.
RolledBack ==
  /\ at = "rolling" /\ todo = {}
  /\ LET occupied == made /\ \E p \in Nested : disk[p] # Absent
     IN /\ dir' = (dir /\ (~made \/ occupied))
        /\ failures' = (failures \/ occupied)
        /\ at' = IF failures' THEN "incomplete" ELSE "rolled_back"
  /\ UNCHANGED <<disk, plan, actions, made, todo, editing>>

\* The process dies, or is interrupted: only an Exception is rolled back.
Die ==
  /\ at \in {"staging", "committing", "rolling"} /\ at' = "dead"
  /\ UNCHANGED <<files, plan, actions, made, todo, failures, editing>>

-----------------------------------------------------------------------------
\* Somebody else writes or removes a file.
Edit(p, v) ==
  /\ at \in {"staging", "committing", "rolling"} /\ edits < MaxEdit
  /\ v # disk[p] /\ (p \in Nested => dir)
  /\ disk' = [disk EXCEPT ![p] = v] /\ edits' = edits + 1
  /\ dirty' = IF snap[p] \in {Unseen, v} THEN dirty \ {p} ELSE dirty \cup {p}
  /\ late' = IF at = "staging" THEN late ELSE late \cup {p}
  /\ UNCHANGED <<dir, at, plan, actions, made, todo, failures>>

Next ==
  \/ \E p \in Path :
       \/ \E v \in Content : StageWrite(p, v)
       \/ \E b \in BOOLEAN : StageDelete(p, b) \/ \E q \in Path : StageMove(p, q, b)
       \/ Restore(p) \/ RestoreFails(p)
       \/ \E v \in FileState : Edit(p, v)
  \/ StageMkdir \/ Verify \/ Perform \/ Break \/ Finish \/ RolledBack \/ Die

Spec == Init /\ [][Next]_vars

-----------------------------------------------------------------------------
(* Properties.                                                             *)

\* Every variable stays in its domain.
WorkspaceTypeOK ==
  /\ disk \in [Path -> FileState] /\ dir \in BOOLEAN
  /\ at \in {"staging", "refused", "committing", "done", "rolling", "rolled_back", "incomplete", "dead"}
  /\ {snap, virtual} \subseteq [Path -> FileState \cup {Unseen}]
  /\ dirSnap \in BOOLEAN \cup {Unseen}
  /\ Len(actions) <= MaxOps /\ made \in BOOLEAN /\ failures \in BOOLEAN
  /\ todo \subseteq Path /\ dirty \subseteq Path /\ late \subseteq Path
  /\ edits \in 0..MaxEdit
  /\ \A p \in Nested : disk[p] # Absent => dir

\* All: the operations, carried out one by one on the files, come to what was
\* staged on the snapshots, however they build on each other.
DoneAsStaged ==
  at = "done" /\ late = {} =>
    /\ \A p \in Captured : disk[p] = virtual[p]
    /\ dirSnap # Unseen => dir

\* Or nothing: after a rollback that reports no failure every file is as it was
\* captured, unless it was edited since, and the directory is not left behind.
NothingLeftBehind ==
  at = "rolled_back" =>
    /\ \A p \in Captured \ dirty : disk[p] = snap[p]
    /\ made => ~dir

\* An edit is overwritten only if it came after the snapshots were compared:
\* nothing written while operations were staged is lost, neither to an
\* operation nor to the rollback of another.
EarlyEditsSurvive ==
  [][edits' = edits =>
       \A p \in dirty : disk'[p] # disk[p] => p \in late]_vars
=============================================================================
