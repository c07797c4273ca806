---------------------- MODULE WorkspaceTransactionProofs ----------------------
(* Theorems about WorkspaceTransaction, for every set of files and contents *)
(* and every number of operations and edits.                               *)
EXTENDS WorkspaceTransaction, TLAPS

-----------------------------------------------------------------------------
(* The inductive invariants.                                               *)

SeenState == FileState \cup {Unseen}

Action ==
  [op : {"write"}, path : Path, value : Content] \cup [op : {"delete"}, path : Path]
    \cup [op : {"move"}, path : Path, to : Path] \cup [op : {"mkdir"}]

\* The files an operation is about, and what it makes of files in state st.
Touched(op) ==
  {r \in Path : op.op # "mkdir" /\ (r = op.path \/ (op.op = "move" /\ r = op.to))}

After(op, st) ==
  [r \in Path |->
     IF op.op = "move" /\ r = op.to THEN st[op.path]
     ELSE IF r \in Touched(op) THEN IF op.op = "write" THEN op.value ELSE Absent
     ELSE st[r]]

\* What is staged is about captured files.
ActionsInv ==
  /\ actions \in Seq(Action)
  /\ \A i \in DOMAIN actions : Touched(actions[i]) \subseteq Captured
  /\ \A i \in DOMAIN actions : actions[i].op = "move" => actions[i].path # actions[i].to
  /\ at = "done" => actions = <<>>
  /\ todo \subseteq Captured

\* A directory that commit has made holds no file that was there before.
DirInv ==
  /\ at = "staging" => ~made
  /\ \A r \in Nested : snap[r] \in Content => dir /\ ~made

WorkspaceInv == WorkspaceTypeOK /\ ActionsInv /\ DirInv

\* While operations are staged, an edit no snapshot has seen shows; once the
\* snapshots have been found fresh, there is none but late ones.
DirtyInv ==
  /\ at = "staging" => \A r \in dirty : snap[r] # Unseen /\ disk[r] # snap[r]
  /\ at \in {"committing", "rolling"} => dirty \subseteq late

\* As far as the rollback has come without a failure.
RollInv ==
  /\ at = "rolling" /\ ~failures =>
       \A r \in (Captured \ todo) \ dirty : disk[r] = snap[r]
  /\ NothingLeftBehind

\* states leads from one state of the files to another by the operations that
\* are left.
Leads(states, first) ==
  /\ states \in [1..Len(actions) + 1 -> [Path -> SeenState]]
  /\ states[1] = first /\ states[Len(actions) + 1] = virtual
  /\ \A i \in 1..Len(actions) : states[i + 1] = After(actions[i], states[i])

Agrees(st) == \A r \in Captured : disk[r] = st[r]

\* The staged operations lead from the snapshots to what was staged, and those
\* that are left from the files, unless somebody edits them.
ChainInv ==
  /\ at = "staging" => late = {} /\ \E states : Leads(states, snap)
  /\ at \in {"committing", "done"} /\ late = {} =>
       \E first \in [Path -> SeenState] : Agrees(first) /\ \E states : Leads(states, first)

\* A directory that was asked for is there, or will be made.
MkdirInv ==
  at \in {"staging", "committing", "done"} /\ dirSnap # Unseen =>
    dir \/ \E i \in DOMAIN actions : actions[i].op = "mkdir"

-----------------------------------------------------------------------------
(* What the steps do.                                                      *)

\* The files ps of a state f of the files are captured.
Seen(ps, f) == [r \in Path |-> IF r \in ps /\ snap[r] = Unseen THEN disk[r] ELSE f[r]]

StageStep(op, ps) ==
  /\ at = "staging" /\ Len(actions) < MaxOps /\ actions' = Append(actions, op)
  /\ Touched(op) = ps /\ (op.op = "move" => op.path # op.to)
  /\ snap' = Seen(ps, snap) /\ virtual' = After(op, Seen(ps, virtual))
  /\ dirSnap' = IF op.op = "mkdir" /\ dirSnap = Unseen THEN dir ELSE dirSnap
  /\ UNCHANGED <<files, at, made, todo, failures, editing>>

\* Every staged operation captures what it touches and adds its effect to what
\* was staged before.
LEMMA StageMeans ==
  ASSUME WorkspaceTypeOK,
         \/ \E p \in Path : \/ \E v \in Content : StageWrite(p, v)
                            \/ \E b \in BOOLEAN : \/ StageDelete(p, b)
                                                  \/ \E q \in Path : StageMove(p, q, b)
         \/ StageMkdir
  PROVE  \E op \in Action, ps \in SUBSET Path : StageStep(op, ps)
<1> USE DEF WorkspaceTypeOK, SeenState
<1>1. ASSUME NEW p \in Path, NEW v \in Content, StageWrite(p, v)
      PROVE  \E op \in Action, ps \in SUBSET Path : StageStep(op, ps)
  <2> DEFINE op == [op |-> "write", path |-> p, value |-> v]
  <2>1. op \in Action /\ Touched(op) = {p}
    BY DEF Action, Touched
  <2>2. virtual' = After(op, Seen({p}, virtual))
    BY <1>1 DEF StageWrite, After, Touched, Seen
  <2>3. StageStep(op, {p})
    BY <1>1, <2>1, <2>2 DEF StageWrite, Stage, StageStep, Captures, Seen
  <2> QED
    BY <2>1, <2>3
<1>2. ASSUME NEW p \in Path, NEW b \in BOOLEAN, StageDelete(p, b)
      PROVE  \E op \in Action, ps \in SUBSET Path : StageStep(op, ps)
  <2> DEFINE op == [op |-> "delete", path |-> p]
  <2>1. op \in Action /\ Touched(op) = {p}
    BY DEF Action, Touched
  <2>2. virtual' = After(op, Seen({p}, virtual))
    BY <1>2 DEF StageDelete, After, Touched, Seen
  <2>3. StageStep(op, {p})
    BY <1>2, <2>1, <2>2 DEF StageDelete, Stage, StageStep, Captures, Seen
  <2> QED
    BY <2>1, <2>3
<1>3. ASSUME NEW p \in Path, NEW b \in BOOLEAN, NEW q \in Path, StageMove(p, q, b)
      PROVE  \E op \in Action, ps \in SUBSET Path : StageStep(op, ps)
  <2> DEFINE op == [op |-> "move", path |-> p, to |-> q]
  <2>1. op \in Action /\ Touched(op) = {p, q}
    BY DEF Action, Touched
  <2>2. virtual' = After(op, Seen({p, q}, virtual))
    <3>1. p # q /\ virtual' = [virtual EXCEPT ![p] = Absent, ![q] = Current(p)]
      BY <1>3 DEF StageMove
    <3>2. Current(p) = Seen({p, q}, virtual)[p]
      BY DEF Current, Seen
    <3> HIDE DEF Current
    <3>3. virtual' = [r \in Path |-> IF r = q THEN Current(p) ELSE IF r = p THEN Absent ELSE virtual[r]]
      BY <3>1
    <3> QED
      BY <3>1, <3>2, <3>3 DEF After, Touched, Seen
  <2>3. StageStep(op, {p, q})
    BY <1>3, <2>1, <2>2 DEF StageMove, Stage, StageStep, Captures, Seen
  <2> QED
    BY <2>1, <2>3
<1>4. ASSUME StageMkdir
      PROVE  \E op \in Action, ps \in SUBSET Path : StageStep(op, ps)
  <2> DEFINE op == [op |-> "mkdir"]
  <2>1. op \in Action /\ Touched(op) = {}
    BY DEF Action, Touched
  <2>2. snap' = Seen({}, snap) /\ virtual' = After(op, Seen({}, virtual))
    BY <1>4 DEF StageMkdir, After, Touched, Seen
  <2>3. StageStep(op, {})
    BY <1>4, <2>1, <2>2 DEF StageMkdir, Stage, StageStep
  <2> QED
    BY <2>1, <2>3
<1> QED
  BY <1>1, <1>2, <1>3, <1>4

\* An operation that is carried out.
PerformStep(op) ==
  /\ at = "committing" /\ actions # <<>>
  /\ disk' = After(op, disk) /\ dirty' \subseteq dirty
  /\ \A r \in dirty \ dirty' : disk'[r] # disk[r]
  /\ \A r \in dirty' : disk'[r] = disk[r]
  /\ dir \in BOOLEAN /\ dir' \in BOOLEAN /\ made' \in BOOLEAN
  /\ (dir => dir' /\ made' = made) /\ (made => made')
  /\ (op.op = "mkdir" => dir')
  /\ actions' = Tail(actions)
  /\ UNCHANGED <<at, plan, todo, failures, edits, late>>

\* The operation that is next.
LEMMA NextAction ==
  ASSUME ActionsInv, actions # <<>>
  PROVE  /\ Op \in Action /\ Op = actions[1] /\ 1 \in DOMAIN actions
         /\ Touched(Op) \subseteq Captured
         /\ Len(actions) \in Nat \ {0} /\ DOMAIN actions = 1..Len(actions)
         /\ Tail(actions) \in Seq(Action) /\ Len(Tail(actions)) = Len(actions) - 1
         /\ DOMAIN Tail(actions) = 1..Len(actions) - 1
         /\ \A i \in 1..Len(actions) - 1 : Tail(actions)[i] = actions[i + 1]
<1>1. actions \in Seq(Action) /\ actions # <<>>
  BY DEF ActionsInv
<1>2. Len(actions) \in Nat \ {0} /\ DOMAIN actions = 1..Len(actions)
  BY <1>1
<1>3. Op = actions[1] /\ Op \in Action
  BY <1>1, <1>2 DEF Op
<1>4. Tail(actions) \in Seq(Action) /\ Len(Tail(actions)) = Len(actions) - 1
  BY <1>1, <1>2
<1>5. \A i \in 1..Len(actions) - 1 : Tail(actions)[i] = actions[i + 1]
  BY <1>1, <1>2, <1>4
<1> QED
  BY <1>1, <1>2, <1>3, <1>4, <1>5 DEF ActionsInv

\* What an operation writes replaces edits only where it changes the file.
LEMMA WritesMeans ==
  ASSUME WorkspaceTypeOK, NEW new \in [Path -> FileState], Writes(new)
  PROVE  /\ disk' = new /\ dirty' \subseteq dirty
         /\ \A r \in dirty \ dirty' : disk'[r] # disk[r]
         /\ \A r \in dirty' : disk'[r] = disk[r]
BY DEF Writes, WorkspaceTypeOK

\* The directory, when it is needed.
LEMMA DirectoryMeans ==
  ASSUME WorkspaceTypeOK, NEW needed \in BOOLEAN, WithDirectory(needed)
  PROVE  /\ dir' \in BOOLEAN /\ made' \in BOOLEAN
         /\ dir => dir' /\ made' = made
         /\ made => made'
         /\ needed => dir'
BY DEF WithDirectory, WorkspaceTypeOK

LEMMA PerformMeans ==
  ASSUME WorkspaceInv, Perform
  PROVE  /\ PerformStep(Op) /\ disk' \in [Path -> FileState]
         /\ \A r \in Nested : disk'[r] # Absent => dir'
<1> USE WorkspaceAssumption
<1>1. /\ WorkspaceTypeOK /\ Op \in Action /\ at = "committing" /\ actions # <<>>
      /\ actions' = Tail(actions) /\ UNCHANGED <<at, plan, todo, failures, edits, late>>
  BY NextAction DEF WorkspaceInv, Perform
<1>2. /\ disk \in [Path -> FileState] /\ Absent \in FileState /\ Content \subseteq FileState
      /\ \A r \in Nested : r \in Path /\ (disk[r] # Absent => dir)
      /\ dir \in BOOLEAN
  BY <1>1 DEF WorkspaceTypeOK, FileState
<1>3. CASE PerformWrite
  <2>1. Op.op = "write" /\ Op.path \in Path /\ Op.value \in Content
    BY <1>1, <1>3 DEF PerformWrite, Action
  <2>2. /\ WithDirectory(Op.path \in Nested /\ disk[Op.path] # Op.value)
        /\ Writes([disk EXCEPT ![Op.path] = Op.value])
    BY <1>3 DEF PerformWrite
  <2>3. [disk EXCEPT ![Op.path] = Op.value] = After(Op, disk)
    BY <1>2, <2>1 DEF After, Touched
  <2>4. [disk EXCEPT ![Op.path] = Op.value] \in [Path -> FileState]
    BY <1>2, <2>1
  <2>5. /\ disk' = [disk EXCEPT ![Op.path] = Op.value] /\ dirty' \subseteq dirty
        /\ \A r \in dirty \ dirty' : disk'[r] # disk[r]
        /\ \A r \in dirty' : disk'[r] = disk[r]
    BY <1>1, <2>2, <2>4, WritesMeans
  <2>6. /\ dir' \in BOOLEAN /\ made' \in BOOLEAN
        /\ dir => dir' /\ made' = made
        /\ made => made'
        /\ Op.path \in Nested /\ disk[Op.path] # Op.value => dir'
    BY <1>1, <2>2, DirectoryMeans
  <2>7. \A r \in Nested : disk'[r] # Absent => dir'
    <3>1. SUFFICES ASSUME NEW r \in Nested, disk'[r] # Absent, ~dir
                   PROVE  dir'
      BY <1>2, <2>6
    <3>2. disk[r] = Absent /\ r \in Path
      BY <1>2, <3>1
    <3>3. r = Op.path
      BY <1>2, <2>1, <2>5, <3>1, <3>2
    <3> QED
      BY <2>1, <2>6, <3>1, <3>2, <3>3
  <2> QED
    BY <1>1, <1>2, <2>1, <2>3, <2>4, <2>5, <2>6, <2>7 DEF PerformStep
<1>4. CASE PerformDelete
  <2>1. Op.op = "delete" /\ Op.path \in Path
    BY <1>1, <1>4 DEF PerformDelete, Action
  <2>2. /\ WithDirectory(FALSE)
        /\ Writes([disk EXCEPT ![Op.path] = Absent])
    BY <1>4 DEF PerformDelete
  <2>3. [disk EXCEPT ![Op.path] = Absent] = After(Op, disk)
    BY <1>2, <2>1 DEF After, Touched
  <2>4. [disk EXCEPT ![Op.path] = Absent] \in [Path -> FileState]
    BY <1>2, <2>1
  <2>5. /\ disk' = [disk EXCEPT ![Op.path] = Absent] /\ dirty' \subseteq dirty
        /\ \A r \in dirty \ dirty' : disk'[r] # disk[r]
        /\ \A r \in dirty' : disk'[r] = disk[r]
    BY <1>1, <2>2, <2>4, WritesMeans
  <2>6. /\ dir' \in BOOLEAN /\ made' \in BOOLEAN
        /\ dir => dir' /\ made' = made
        /\ made => made'
    BY <1>1, <2>2, DirectoryMeans
  <2>7. \A r \in Nested : disk'[r] # Absent => dir'
    BY <1>2, <2>1, <2>5, <2>6
  <2> QED
    BY <1>1, <1>2, <2>1, <2>3, <2>4, <2>5, <2>6, <2>7 DEF PerformStep
<1>5. CASE PerformMove
  <2>1. Op.op = "move" /\ Op.path \in Path /\ Op.to \in Path
    BY <1>1, <1>5 DEF PerformMove, Action
  <2> DEFINE new == [disk EXCEPT ![Op.to] = disk[Op.path], ![Op.path] = Absent]
  <2>2. /\ WithDirectory(Op.to \in Nested) /\ Writes(new)
    BY <1>5 DEF PerformMove
  <2>3. Op.path # Op.to
    <3>1. ActionsInv
      BY DEF WorkspaceInv
    <3>2. Op = actions[1] /\ 1 \in DOMAIN actions
      BY <1>1, <3>1, NextAction
    <3> QED
      BY <2>1, <3>1, <3>2 DEF ActionsInv
  <2>4. new = After(Op, disk) /\ new \in [Path -> FileState]
    BY <1>2, <2>1, <2>3 DEF After, Touched
  <2>5. /\ disk' = new /\ dirty' \subseteq dirty
        /\ \A r \in dirty \ dirty' : disk'[r] # disk[r]
        /\ \A r \in dirty' : disk'[r] = disk[r]
    BY <1>1, <2>2, <2>4, WritesMeans
  <2>6. /\ dir' \in BOOLEAN /\ made' \in BOOLEAN
        /\ dir => dir' /\ made' = made
        /\ made => made'
        /\ Op.to \in Nested => dir'
    BY <1>1, <2>2 DEF WithDirectory, WorkspaceTypeOK
  <2>7. \A r \in Nested : disk'[r] # Absent => dir'
    BY <1>2, <2>1, <2>5, <2>6
  <2> QED
    BY <1>1, <1>2, <2>1, <2>4, <2>5, <2>6, <2>7 DEF PerformStep
<1>6. CASE PerformMkdir
  <2>1. Op.op = "mkdir" /\ WithDirectory(TRUE) /\ UNCHANGED <<disk, dirty>>
    BY <1>6 DEF PerformMkdir
  <2>2. disk = After(Op, disk)
    BY <1>2, <2>1 DEF After, Touched
  <2>3. /\ dir' \in BOOLEAN /\ made' \in BOOLEAN
        /\ dir => dir' /\ made' = made
        /\ made => made'
        /\ dir'
    BY <1>1, <2>1 DEF WithDirectory, WorkspaceTypeOK
  <2> QED
    BY <1>1, <1>2, <2>1, <2>2, <2>3 DEF PerformStep
<1> QED
  BY <1>3, <1>4, <1>5, <1>6 DEF Perform

\* An operation that raises, however far it has come.
LEMMA BreakMeans ==
  ASSUME WorkspaceInv, Break
  PROVE  /\ at = "committing" /\ at' = "rolling" /\ todo' = Captured
         /\ disk' \in [Path -> FileState] /\ dirty' \subseteq dirty
         /\ dir' \in BOOLEAN /\ made' \in BOOLEAN
         /\ dir => dir' /\ made' = made
         /\ \A r \in Nested : disk'[r] # Absent => dir'
         /\ UNCHANGED <<plan, actions, failures, edits, late>>
<1> USE WorkspaceAssumption
<1>1. /\ WorkspaceTypeOK /\ Op \in Action /\ at = "committing" /\ actions # <<>>
      /\ at' = "rolling" /\ todo' = Captured /\ UNCHANGED <<plan, actions, failures, edits, late>>
  BY NextAction DEF WorkspaceInv, Break
<1>2. /\ disk \in [Path -> FileState] /\ Absent \in FileState
      /\ \A r \in Nested : r \in Path /\ (disk[r] # Absent => dir)
      /\ dir \in BOOLEAN /\ made \in BOOLEAN /\ dirty \subseteq Path
  BY <1>1 DEF WorkspaceTypeOK, FileState
<1>3. /\ dir' \in BOOLEAN /\ made' \in BOOLEAN
      /\ dir => dir' /\ made' = made
  <2>1. CASE UNCHANGED <<disk, dir, made, dirty>>
    BY <1>2, <2>1
  <2>2. CASE WithDirectory((IF Op.op = "move" THEN Op.to ELSE Op.path) \in Nested)
    BY <1>2, <2>2 DEF WithDirectory
  <2> QED
    BY <2>1, <2>2 DEF Break
<1>4. \/ UNCHANGED <<disk, dirty>>
      \/ Op.op = "move" /\ Writes([disk EXCEPT ![Op.to] = Absent])
  BY DEF Break
<1>5. /\ disk' \in [Path -> FileState] /\ dirty' \subseteq dirty
      /\ \A r \in Path : disk'[r] \in {disk[r], Absent}
  <2>1. CASE UNCHANGED <<disk, dirty>>
    BY <1>2, <2>1
  <2>2. CASE Op.op = "move" /\ Writes([disk EXCEPT ![Op.to] = Absent])
    BY <1>1, <1>2, <2>2 DEF Writes
  <2> QED
    BY <1>4, <2>1, <2>2
<1>6. \A r \in Nested : disk'[r] # Absent => dir'
  BY <1>2, <1>3, <1>5
<1> QED
  BY <1>1, <1>3, <1>5, <1>6

\* The steps there are.
LEMMA StepCases ==
  ASSUME WorkspaceInv, Next
  PROVE  \/ \E op \in Action, ps \in SUBSET Path : StageStep(op, ps)
         \/ Verify \/ Perform \/ Break \/ Finish \/ RolledBack \/ Die
         \/ \E p \in Path : \/ Restore(p) \/ RestoreFails(p)
                            \/ \E v \in FileState : Edit(p, v)
<1>1. WorkspaceTypeOK
  BY DEF WorkspaceInv
<1> QED
  BY <1>1, StageMeans DEF Next

-----------------------------------------------------------------------------
(* Typing.                                                                 *)

\* A staged operation.
LEMMA StageTyped ==
  ASSUME WorkspaceInv, NEW op \in Action, NEW ps \in SUBSET Path, StageStep(op, ps)
  PROVE  WorkspaceInv'
<1> USE WorkspaceAssumption
<1>1. WorkspaceTypeOK /\ ActionsInv /\ DirInv /\ at = "staging" /\ at' = "staging"
  BY DEF WorkspaceInv, StageStep
<1>2. /\ snap \in [Path -> SeenState] /\ virtual \in [Path -> SeenState]
      /\ disk \in [Path -> FileState] /\ FileState \subseteq SeenState
      /\ Unseen \notin FileState
  BY <1>1 DEF WorkspaceTypeOK, SeenState, FileState
<1>3. /\ snap' \in [Path -> SeenState]
      /\ \A r \in Path :
           snap'[r] = (IF r \in ps /\ snap[r] = Unseen THEN disk[r] ELSE snap[r])
  BY <1>2 DEF StageStep, Seen
<1>4. Seen(ps, virtual) \in [Path -> SeenState]
  BY <1>2 DEF Seen
<1>5. virtual' \in [Path -> SeenState]
  <2>1. op.op = "write" => op.value \in SeenState
    BY DEF Action, SeenState, FileState
  <2>2. op.op = "move" => op.path \in Path
    BY DEF Action
  <2>3. Absent \in SeenState
    BY DEF SeenState, FileState
  <2>4. virtual' = After(op, Seen(ps, virtual))
    BY DEF StageStep
  <2> HIDE DEF Seen
  <2> QED
    BY <1>4, <2>1, <2>2, <2>3, <2>4 DEF After
<1>6. /\ actions \in Seq(Action) /\ Len(actions) \in Nat /\ DOMAIN actions = 1..Len(actions)
  BY <1>1 DEF ActionsInv
<1>7. /\ actions' \in Seq(Action) /\ Len(actions') = Len(actions) + 1
      /\ DOMAIN actions' = 1..Len(actions) + 1
      /\ \A i \in 1..Len(actions) : actions'[i] = actions[i]
      /\ actions'[Len(actions) + 1] = op
  BY <1>6 DEF StageStep
<1>8. Captured' = Captured \cup ps
  BY <1>2, <1>3 DEF Captured
<1>9. Len(actions) < MaxOps /\ Touched(op) = ps /\ (op.op = "move" => op.path # op.to)
  BY DEF StageStep
<1>10. ActionsInv'
  <2>1. ASSUME NEW i \in DOMAIN actions'
        PROVE  /\ Touched(actions'[i]) \subseteq Captured'
               /\ actions'[i].op = "move" => actions'[i].path # actions'[i].to
    <3>1. CASE i \in 1..Len(actions)
      BY <1>1, <1>6, <1>7, <1>8, <3>1 DEF ActionsInv
    <3>2. CASE i = Len(actions) + 1
      BY <1>7, <1>8, <1>9, <3>2
    <3> QED
      BY <1>6, <1>7, <3>1, <3>2
  <2> QED
    BY <1>1, <1>7, <1>8, <2>1 DEF ActionsInv, StageStep
<1>11. dirSnap' \in BOOLEAN \cup {Unseen} /\ UNCHANGED <<files, at, made, todo, failures, editing>>
  BY <1>1 DEF StageStep, WorkspaceTypeOK
<1>12. DirInv'
  BY <1>1, <1>2, <1>3, <1>11 DEF DirInv, WorkspaceTypeOK, files
<1>13. WorkspaceTypeOK'
  BY <1>1, <1>3, <1>5, <1>6, <1>7, <1>9, <1>11
     DEF WorkspaceTypeOK, SeenState, files, editing
<1> QED
  BY <1>10, <1>12, <1>13 DEF WorkspaceInv

LEMMA WorkspaceStep ==
  ASSUME WorkspaceInv, [Next]_vars
  PROVE  WorkspaceInv'
<1> USE WorkspaceAssumption
<1>1. WorkspaceTypeOK /\ ActionsInv /\ DirInv
  BY DEF WorkspaceInv
<1>2. ASSUME UNCHANGED <<plan, actions>>, at' # "done", todo' \subseteq Captured
      PROVE  ActionsInv'
  BY <1>1, <1>2 DEF plan, ActionsInv, Captured
<1>0. todo \subseteq Captured
  BY <1>1 DEF ActionsInv
<1>3. CASE UNCHANGED vars
  BY <1>1, <1>3 DEF WorkspaceInv, WorkspaceTypeOK, ActionsInv, DirInv, Captured, vars,
     files, plan, editing
<1>4. ASSUME NEW op \in Action, NEW ps \in SUBSET Path, StageStep(op, ps)
      PROVE  WorkspaceInv'
  BY <1>4, StageTyped
<1>5. CASE Verify \/ Die
  <2>1. /\ UNCHANGED <<files, plan, actions, made, todo, failures, editing>>
        /\ at # "done" /\ at' \in {"committing", "refused", "dead"}
    BY <1>5 DEF Verify, Die
  <2>2. WorkspaceTypeOK' /\ DirInv'
    BY <1>1, <2>1 DEF WorkspaceTypeOK, DirInv, files, plan, editing
  <2> QED
    BY <1>2, <1>0, <2>1, <2>2 DEF WorkspaceInv
<1>6. CASE Finish
  <2>1. /\ UNCHANGED <<files, plan, actions, made, todo, failures, editing>>
        /\ actions = <<>> /\ at' = "done"
    BY <1>6 DEF Finish
  <2>2. WorkspaceTypeOK' /\ DirInv'
    BY <1>1, <2>1 DEF WorkspaceTypeOK, DirInv, files, plan, editing
  <2>3. ActionsInv'
    BY <1>1, <2>1 DEF plan, ActionsInv, Captured
  <2> QED
    BY <2>2, <2>3 DEF WorkspaceInv
<1>7. CASE Perform
  <2>1. /\ at = "committing" /\ at' = at /\ dirty' \subseteq dirty
        /\ dir' \in BOOLEAN /\ made' \in BOOLEAN
        /\ dir => dir' /\ made' = made
        /\ actions # <<>> /\ actions' = Tail(actions)
        /\ UNCHANGED <<plan, todo, failures, edits, late>>
        /\ disk' \in [Path -> FileState]
        /\ \A r \in Nested : disk'[r] # Absent => dir'
    BY <1>7, PerformMeans DEF PerformStep
  <2>2. /\ Len(actions) \in Nat \ {0} /\ DOMAIN actions = 1..Len(actions)
        /\ Tail(actions) \in Seq(Action) /\ Len(Tail(actions)) = Len(actions) - 1
        /\ DOMAIN Tail(actions) = 1..Len(actions) - 1
        /\ \A i \in 1..Len(actions) - 1 : Tail(actions)[i] = actions[i + 1]
    BY <1>1, <2>1, NextAction
  <2>3. WorkspaceTypeOK'
    BY <1>1, <2>1, <2>2 DEF WorkspaceTypeOK, plan
  <2>4. DirInv'
    BY <1>1, <2>1 DEF DirInv, plan
  <2>5. ActionsInv'
    <3>1. ASSUME NEW i \in DOMAIN actions'
          PROVE  i + 1 \in DOMAIN actions /\ actions'[i] = actions[i + 1]
      BY <2>1, <2>2
    <3>2. Captured' = Captured
      BY <2>1 DEF plan, Captured
    <3> QED
      BY <1>1, <2>1, <2>2, <3>1, <3>2 DEF ActionsInv
  <2> QED
    BY <2>3, <2>4, <2>5 DEF WorkspaceInv
<1>8. CASE Break
  <2>1. /\ at = "committing" /\ at' = "rolling" /\ todo' = Captured
        /\ disk' \in [Path -> FileState] /\ dirty' \subseteq dirty
        /\ dir' \in BOOLEAN /\ made' \in BOOLEAN
        /\ dir => dir' /\ made' = made
        /\ \A r \in Nested : disk'[r] # Absent => dir'
        /\ UNCHANGED <<plan, actions, failures, edits, late>>
    BY <1>8, BreakMeans
  <2>2. Captured \subseteq Path
    BY DEF Captured
  <2>3. WorkspaceTypeOK' /\ DirInv'
    BY <1>1, <2>1, <2>2 DEF WorkspaceTypeOK, DirInv, plan
  <2> QED
    BY <1>2, <2>1, <2>3 DEF WorkspaceInv
<1>9. ASSUME NEW p \in Path, Restore(p)
      PROVE  WorkspaceInv'
  <2>1. /\ at = "rolling" /\ p \in todo /\ todo' = todo \ {p}
        /\ disk' = [disk EXCEPT ![p] = snap[p]] /\ dirty' = dirty \ {p}
        /\ UNCHANGED <<dir, at, plan, actions, made, failures, edits, late>>
    BY <1>9 DEF Restore
  <2>2. snap[p] \in FileState
    BY <1>1, <2>1 DEF ActionsInv, Captured, WorkspaceTypeOK
  <2>3. p \in Nested /\ snap[p] # Absent => dir
    BY <1>1, <2>2 DEF DirInv, FileState
  <2>4. WorkspaceTypeOK'
    BY <1>1, <2>1, <2>2, <2>3 DEF WorkspaceTypeOK, plan
  <2>5. DirInv'
    BY <1>1, <2>1 DEF DirInv, plan
  <2>6. ActionsInv'
    BY <1>1, <2>1 DEF ActionsInv, plan, Captured
  <2> QED
    BY <2>4, <2>5, <2>6 DEF WorkspaceInv
<1>10. ASSUME NEW p \in Path, RestoreFails(p)
       PROVE  WorkspaceInv'
  <2>1. /\ at = "rolling" /\ todo' = todo \ {p} /\ failures' = TRUE
        /\ UNCHANGED <<files, at, plan, actions, made, editing>>
    BY <1>10 DEF RestoreFails
  <2>2. WorkspaceTypeOK' /\ DirInv'
    BY <1>1, <2>1 DEF WorkspaceTypeOK, DirInv, plan, files, editing
  <2> QED
    BY <1>2, <1>0, <2>1, <2>2 DEF WorkspaceInv
<1>11. CASE RolledBack
  <2> DEFINE occupied == made /\ \E r \in Nested : disk[r] # Absent
  <2>1. /\ at = "rolling" /\ dir' = (dir /\ (~made \/ occupied))
        /\ failures' = (failures \/ occupied)
        /\ at' \in {"incomplete", "rolled_back"}
        /\ UNCHANGED <<disk, plan, actions, made, todo, editing>>
    BY <1>11 DEF RolledBack
  <2>2. dir' \in BOOLEAN /\ failures' \in BOOLEAN
    BY <2>1
  <2>3. \A r \in Nested : disk[r] # Absent => dir'
    BY <1>1, <2>1 DEF WorkspaceTypeOK
  <2>4. ~made /\ dir => dir'
    BY <2>1
  <2> HIDE DEF occupied
  <2>5. WorkspaceTypeOK' /\ DirInv'
    BY <1>1, <2>1, <2>2, <2>3, <2>4 DEF WorkspaceTypeOK, DirInv, plan, editing
  <2> QED
    BY <1>2, <1>0, <2>1, <2>5 DEF WorkspaceInv
<1>12. ASSUME NEW p \in Path, NEW v \in FileState, Edit(p, v)
       PROVE  WorkspaceInv'
  <2>1. /\ at \in {"staging", "committing", "rolling"} /\ edits < MaxEdit
        /\ (p \in Nested => dir) /\ disk' = [disk EXCEPT ![p] = v] /\ edits' = edits + 1
        /\ dirty' \in {dirty \ {p}, dirty \cup {p}} /\ late' \in {late, late \cup {p}}
        /\ UNCHANGED <<dir, at, plan, actions, made, todo, failures>>
    BY <1>12 DEF Edit
  <2>2. WorkspaceTypeOK'
    BY <1>1, <2>1 DEF WorkspaceTypeOK, plan
  <2>3. DirInv'
    BY <1>1, <2>1 DEF DirInv, plan
  <2> QED
    BY <1>2, <1>0, <2>1, <2>2, <2>3 DEF WorkspaceInv
<1>13. CASE Next
  BY <1>4, <1>5, <1>6, <1>7, <1>8, <1>9, <1>10, <1>11, <1>12, <1>13, StepCases
<1> QED
  BY <1>3, <1>13

LEMMA WorkspaceInit ==
  ASSUME Init
  PROVE  WorkspaceInv
<1>1. snap \in [Path -> {Unseen}] /\ virtual = snap /\ actions = <<>>
  BY DEF Init
<1>2. \A r \in Path : snap[r] \notin Content
  BY <1>1, WorkspaceAssumption
<1>3. WorkspaceTypeOK
  <2>1. {snap, virtual} \subseteq [Path -> FileState \cup {Unseen}]
    BY <1>1
  <2>2. Len(actions) <= MaxOps /\ edits \in 0..MaxEdit
    BY <1>1, WorkspaceAssumption DEF Init
  <2> QED
    BY <2>1, <2>2 DEF Init, WorkspaceTypeOK
<1>4. ActionsInv
  BY <1>1 DEF Init, ActionsInv
<1>5. DirInv
  BY <1>2, WorkspaceAssumption DEF Init, DirInv
<1> QED
  BY <1>3, <1>4, <1>5 DEF WorkspaceInv

\* Every variable stays in its domain; no file is in a directory that does not
\* exist.
THEOREM WorkspaceTyping == Spec => []WorkspaceTypeOK
<1>1. WorkspaceInv => WorkspaceTypeOK
  BY DEF WorkspaceInv
<1> QED
  BY <1>1, WorkspaceInit, WorkspaceStep, PTL DEF Spec

-----------------------------------------------------------------------------
(* Edits that came before the snapshots were compared.                     *)

LEMMA DirtyStep ==
  ASSUME WorkspaceInv, DirtyInv, [Next]_vars
  PROVE  DirtyInv'
<1>1. WorkspaceTypeOK
  BY DEF WorkspaceInv
<1>2. CASE UNCHANGED vars
  BY <1>2 DEF DirtyInv, vars, files, plan, editing
<1>3. ASSUME NEW op \in Action, NEW ps \in SUBSET Path, StageStep(op, ps)
      PROVE  DirtyInv'
  BY <1>1, <1>3 DEF StageStep, Seen, DirtyInv, files, editing, WorkspaceTypeOK
<1>4. CASE Verify
  <2>1. Fresh /\ at = "staging" => dirty = {}
    BY DEF Fresh, Captured, DirtyInv, WorkspaceTypeOK, WorkspaceInv
  <2>2. at' = (IF Fresh THEN "committing" ELSE "refused") /\ UNCHANGED editing /\ at = "staging"
    BY <1>4 DEF Verify
  <2> QED
    BY <2>1, <2>2 DEF DirtyInv, editing
<1>5. CASE Perform
  <2>1. /\ at = "committing" /\ at' = at /\ dirty' \subseteq dirty /\ late' = late
    BY <1>5, PerformMeans DEF PerformStep
  <2> QED
    BY <2>1 DEF DirtyInv
<1>6. CASE Break
  <2>1. at = "committing" /\ at' = "rolling" /\ dirty' \subseteq dirty /\ late' = late
    BY <1>6, BreakMeans
  <2> QED
    BY <2>1 DEF DirtyInv
<1>7. CASE Finish \/ RolledBack \/ Die
  <2>1. at' \in {"done", "incomplete", "rolled_back", "dead"}
    BY <1>7 DEF Finish, RolledBack, Die
  <2> QED
    BY <2>1 DEF DirtyInv
<1>8. ASSUME NEW p \in Path, Restore(p) \/ RestoreFails(p)
      PROVE  DirtyInv'
  <2>1. at = "rolling" /\ at' = at /\ dirty' \subseteq dirty /\ late' = late
    BY <1>8 DEF Restore, RestoreFails, editing
  <2> QED
    BY <2>1 DEF DirtyInv
<1>9. ASSUME NEW p \in Path, NEW v \in FileState, Edit(p, v)
      PROVE  DirtyInv'
  <2>1. /\ disk' = [disk EXCEPT ![p] = v] /\ UNCHANGED <<at, plan>>
        /\ dirty' = IF snap[p] \in {Unseen, v} THEN dirty \ {p} ELSE dirty \cup {p}
        /\ late' = IF at = "staging" THEN late ELSE late \cup {p}
    BY <1>9 DEF Edit
  <2>2. disk \in [Path -> FileState] /\ dirty \subseteq Path
    BY <1>1 DEF WorkspaceTypeOK
  <2> QED
    BY <2>1, <2>2 DEF DirtyInv, plan
<1>10. CASE Next
  BY <1>3, <1>4, <1>5, <1>6, <1>7, <1>8, <1>9, <1>10, StepCases
<1> QED
  BY <1>2, <1>10

\* Nothing written by somebody else while operations were staged is lost, to an
\* operation or to the rollback of another.
THEOREM EarlyEditsAreKept == Spec => EarlyEditsSurvive
<1> DEFINE Kept == edits' = edits => \A p \in dirty : disk'[p] # disk[p] => p \in late
<1>1. Init => WorkspaceInv /\ DirtyInv
  BY WorkspaceInit DEF Init, DirtyInv
<1>2. WorkspaceInv /\ DirtyInv /\ [Next]_vars => WorkspaceInv' /\ DirtyInv'
  BY WorkspaceStep, DirtyStep
<1>3. ASSUME WorkspaceInv, DirtyInv, Next, edits' = edits,
             NEW r \in dirty, disk'[r] # disk[r]
      PROVE  r \in late
  <2>1. WorkspaceTypeOK
    BY <1>3 DEF WorkspaceInv
  <2>2. at \in {"committing", "rolling"}
    <3>1. ASSUME NEW op \in Action, NEW ps \in SUBSET Path, StageStep(op, ps)
          PROVE  UNCHANGED disk
      BY <3>1 DEF StageStep, files
    <3>2. Verify \/ Finish \/ RolledBack \/ Die => UNCHANGED disk
      BY DEF Verify, Finish, RolledBack, Die, files
    <3>3. Perform \/ Break => at = "committing"
      BY DEF Perform, Break
    <3>4. ASSUME NEW p \in Path, Restore(p) \/ RestoreFails(p)
          PROVE  at = "rolling"
      BY <3>4 DEF Restore, RestoreFails
    <3>5. ASSUME NEW p \in Path, NEW v \in FileState, Edit(p, v)
          PROVE  FALSE
      BY <1>3, <2>1, <3>5 DEF Edit, WorkspaceTypeOK
    <3> QED
      BY <1>3, <3>1, <3>2, <3>3, <3>4, <3>5, StepCases
  <2> QED
    BY <1>3, <2>2 DEF DirtyInv
<1>4. WorkspaceInv /\ DirtyInv /\ [Next]_vars => [Kept]_vars
  BY <1>3
<1> QED
  BY <1>1, <1>2, <1>4, PTL DEF Spec, EarlyEditsSurvive

-----------------------------------------------------------------------------
(* Nothing is left behind.                                                 *)

LEMMA RollStep ==
  ASSUME WorkspaceInv, RollInv, [Next]_vars
  PROVE  RollInv'
<1>1. WorkspaceTypeOK
  BY DEF WorkspaceInv
<1>2. CASE UNCHANGED vars
  BY <1>2 DEF RollInv, NothingLeftBehind, Captured, vars, files, plan, editing
<1>3. ASSUME at' \notin {"rolling", "rolled_back"}
      PROVE  RollInv'
  BY <1>3 DEF RollInv, NothingLeftBehind
<1>4. ASSUME NEW op \in Action, NEW ps \in SUBSET Path, StageStep(op, ps)
      PROVE  RollInv'
  BY <1>3, <1>4 DEF StageStep
<1>5. CASE Verify \/ Finish \/ Die
  <2>1. at' \notin {"rolling", "rolled_back"}
    BY <1>5 DEF Verify, Finish, Die
  <2> QED
    BY <2>1, <1>3
<1>6. CASE Perform
  BY <1>3, <1>6 DEF Perform
<1>7. CASE Break
  <2>1. at' = "rolling" /\ todo' = Captured /\ UNCHANGED plan
    BY <1>7, BreakMeans
  <2> QED
    BY <2>1 DEF RollInv, NothingLeftBehind, plan, Captured
<1>8. ASSUME NEW p \in Path, Restore(p)
      PROVE  RollInv'
  <2>1. /\ at = "rolling" /\ todo' = todo \ {p}
        /\ disk' = [disk EXCEPT ![p] = snap[p]] /\ dirty' = dirty \ {p}
        /\ UNCHANGED <<at, plan, failures>>
    BY <1>8 DEF Restore
  <2>2. disk \in [Path -> FileState] /\ Captured \subseteq Path
    BY <1>1 DEF WorkspaceTypeOK, Captured
  <2> QED
    BY <2>1, <2>2 DEF RollInv, NothingLeftBehind, plan, Captured
<1>9. ASSUME NEW p \in Path, RestoreFails(p)
      PROVE  RollInv'
  BY <1>9 DEF RestoreFails, RollInv, NothingLeftBehind
<1>10. CASE RolledBack
  <2> DEFINE occupied == made /\ \E r \in Nested : disk[r] # Absent
  <2>1. /\ at = "rolling" /\ todo = {} /\ dir' = (dir /\ (~made \/ occupied))
        /\ failures' = (failures \/ occupied)
        /\ at' = (IF failures' THEN "incomplete" ELSE "rolled_back")
        /\ UNCHANGED <<disk, plan, made, editing>>
    BY <1>10 DEF RolledBack
  <2>2. at' = "rolled_back" => ~failures /\ ~occupied
    BY <2>1
  <2>3. at' = "rolled_back" => (made => ~dir')
    BY <2>1, <2>2
  <2>4. at' = "rolled_back" => \A r \in Captured \ dirty : disk[r] = snap[r]
    BY <2>1, <2>2 DEF RollInv
  <2>5. at' # "rolling"
    BY <2>1
  <2> HIDE DEF occupied
  <2> QED
    BY <2>1, <2>3, <2>4, <2>5 DEF RollInv, NothingLeftBehind, plan, editing, Captured
<1>11. ASSUME NEW p \in Path, NEW v \in FileState, Edit(p, v)
       PROVE  RollInv'
  <2>1. /\ at \in {"staging", "committing", "rolling"}
        /\ disk' = [disk EXCEPT ![p] = v] /\ UNCHANGED <<at, plan, todo, failures>>
        /\ dirty' = IF snap[p] \in {Unseen, v} THEN dirty \ {p} ELSE dirty \cup {p}
    BY <1>11 DEF Edit
  <2>2. disk \in [Path -> FileState] /\ Captured \subseteq Path
    BY <1>1 DEF WorkspaceTypeOK, Captured
  <2> QED
    BY <2>1, <2>2 DEF RollInv, NothingLeftBehind, plan, Captured
<1>12. CASE Next
  BY <1>4, <1>5, <1>6, <1>7, <1>8, <1>9, <1>10, <1>11, <1>12, StepCases
<1> QED
  BY <1>2, <1>12

\* After a rollback without a failure every file is as it was captured unless it
\* was edited since, and the directory is gone if commit made it.
THEOREM RollbackLeavesNothing == Spec => []NothingLeftBehind
<1>1. Init => WorkspaceInv /\ RollInv
  BY WorkspaceInit DEF Init, RollInv, NothingLeftBehind
<1>2. WorkspaceInv /\ RollInv /\ [Next]_vars => WorkspaceInv' /\ RollInv'
  BY WorkspaceStep, RollStep
<1>3. RollInv => NothingLeftBehind
  BY DEF RollInv
<1> QED
  BY <1>1, <1>2, <1>3, PTL DEF Spec

-----------------------------------------------------------------------------
(* All of it.                                                              *)

LEMMA AfterTyped ==
  ASSUME NEW op \in Action, NEW f \in [Path -> SeenState]
  PROVE  After(op, f) \in [Path -> SeenState]
BY WorkspaceAssumption DEF After, Touched, Action, SeenState, FileState

LEMMA SeenTyped ==
  ASSUME WorkspaceTypeOK, NEW ps \in SUBSET Path, NEW f \in [Path -> SeenState]
  PROVE  Seen(ps, f) \in [Path -> SeenState]
BY DEF Seen, SeenState, WorkspaceTypeOK

\* A file that is captured later was not touched before.
LEMMA SeenAfter ==
  ASSUME NEW op \in Action, NEW ps \in SUBSET Path, NEW f \in [Path -> SeenState],
         Touched(op) \subseteq Captured
  PROVE  Seen(ps, After(op, f)) = After(op, Seen(ps, f))
<1>1. ASSUME NEW r \in Path
      PROVE  Seen(ps, After(op, f))[r] = After(op, Seen(ps, f))[r]
  <2>1. op.op = "move" => op.path \in Touched(op) /\ op.to \in Touched(op)
    BY DEF Touched, Action
  <2>2. CASE r \in ps /\ snap[r] = Unseen
    <3>1. r \notin Touched(op)
      BY <2>2 DEF Captured
    <3>2. ~(op.op = "move" /\ r = op.to)
      BY <2>1, <3>1
    <3> QED
      BY <2>2, <3>1, <3>2 DEF Seen, After
  <2>3. CASE ~(r \in ps /\ snap[r] = Unseen)
    <3>1. op.op = "move" => op.path \in Path /\ Seen(ps, f)[op.path] = f[op.path]
      BY <2>1 DEF Seen, Captured
    <3>2. Seen(ps, f)[r] = f[r]
      BY <2>3 DEF Seen
    <3> QED
      BY <2>3, <3>1, <3>2 DEF Seen, After
  <2> QED
    BY <2>2, <2>3
<1> QED
  BY <1>1 DEF Seen, After

\* One more operation is staged: the states so far are captured further, and its
\* effect is the last.
LEMMA StageLeads ==
  ASSUME WorkspaceInv, NEW op \in Action, NEW ps \in SUBSET Path, StageStep(op, ps),
         NEW states, Leads(states, snap)
  PROVE  \E longer : Leads(longer, snap)'
<1>1. /\ WorkspaceTypeOK /\ ActionsInv
      /\ snap' = Seen(ps, snap) /\ virtual' = After(op, Seen(ps, virtual))
      /\ actions' = Append(actions, op)
  BY DEF StageStep, WorkspaceInv
<1>2. /\ actions \in Seq(Action) /\ Len(actions) \in Nat
      /\ Len(actions') = Len(actions) + 1 /\ actions'[Len(actions) + 1] = op
      /\ \A i \in 1..Len(actions) : actions'[i] = actions[i] /\ actions[i] \in Action
                                    /\ Touched(actions[i]) \subseteq Captured
  BY <1>1 DEF ActionsInv
<1>3. /\ states \in [1..Len(actions) + 1 -> [Path -> SeenState]]
      /\ states[1] = snap /\ states[Len(actions) + 1] = virtual
      /\ \A i \in 1..Len(actions) : states[i + 1] = After(actions[i], states[i])
  BY DEF Leads
<1> DEFINE n == Len(actions)
           last == After(op, Seen(ps, virtual))
           longer == [i \in 1..n + 2 |-> IF i = n + 2 THEN last ELSE Seen(ps, states[i])]
<1>4. n \in Nat
  BY <1>2
<1>5. virtual \in [Path -> SeenState] /\ last \in [Path -> SeenState]
  BY <1>1, SeenTyped, AfterTyped DEF WorkspaceTypeOK, SeenState
<1>6. \A i \in 1..n + 1 : Seen(ps, states[i]) \in [Path -> SeenState]
  BY <1>1, <1>3, SeenTyped
<1>7. \A i \in 1..n : Seen(ps, states[i + 1]) = After(actions[i], Seen(ps, states[i]))
  <2>1. SUFFICES ASSUME NEW i \in 1..n
                 PROVE  Seen(ps, states[i + 1]) = After(actions[i], Seen(ps, states[i]))
    OBVIOUS
  <2>2. i \in 1..n + 1
    BY <1>4
  <2>3. states[i] \in [Path -> SeenState]
    BY <1>3, <2>2
  <2>4. Seen(ps, After(actions[i], states[i])) = After(actions[i], Seen(ps, states[i]))
    BY <1>2, <2>3, SeenAfter
  <2> QED
    BY <1>3, <2>4
<1> HIDE DEF last
<1>8. /\ longer \in [1..n + 2 -> [Path -> SeenState]]
      /\ longer[1] = Seen(ps, states[1])
      /\ longer[n + 2] = last
      /\ \A i \in 1..n + 1 : longer[i] = Seen(ps, states[i])
  BY <1>4, <1>5, <1>6
<1> HIDE DEF longer
<1>9. \A i \in 1..n : longer[i + 1] = After(actions[i], longer[i])
  <2>1. SUFFICES ASSUME NEW i \in 1..n
                 PROVE  longer[i + 1] = After(actions[i], longer[i])
    OBVIOUS
  <2>2. i \in 1..n + 1 /\ i + 1 \in 1..n + 1
    BY <1>4
  <2> QED
    BY <1>7, <1>8, <2>2
<1>10. longer[n + 2] = After(op, longer[n + 1])
  <2>1. n + 1 \in 1..n + 1
    BY <1>4
  <2> QED
    BY <1>3, <1>8, <2>1 DEF last
<1>11. \A i \in 1..n + 1 : longer[i + 1] = After(actions'[i], longer[i])
  <2>1. SUFFICES ASSUME NEW i \in 1..n + 1
                 PROVE  longer[i + 1] = After(actions'[i], longer[i])
    OBVIOUS
  <2>2. CASE i \in 1..n
    BY <1>2, <1>9, <2>2
  <2>3. CASE i \notin 1..n
    <3>1. i = n + 1 /\ i + 1 = n + 2
      BY <1>4, <2>1, <2>3
    <3> QED
      BY <1>2, <1>10, <3>1
  <2> QED
    BY <2>2, <2>3
<1>12. Len(actions') = n + 1 /\ n + 1 + 1 = n + 2
  BY <1>2, <1>4
<1>13. longer[1] = snap' /\ longer[n + 2] = virtual'
  BY <1>1, <1>3, <1>8 DEF last
<1> HIDE DEF n
<1>14. PICK found :
         /\ found \in [1..n + 2 -> [Path -> SeenState]]
         /\ found[1] = snap' /\ found[n + 2] = virtual'
         /\ \A i \in 1..n + 1 : found[i + 1] = After(actions'[i], found[i])
  BY <1>8, <1>11, <1>13
<1>15. Leads(found, snap)'
  BY <1>12, <1>14 DEF Leads, After, Touched
<1> QED
  BY <1>15

\* The first operation is carried out: the rest leads on from what it made.
LEMMA PerformLeads ==
  ASSUME WorkspaceInv, PerformStep(Op), NEW first \in [Path -> SeenState], Agrees(first),
         NEW states, Leads(states, first)
  PROVE  \E next \in [Path -> SeenState] : \E rest : Agrees(next)' /\ Leads(rest, next)'
<1>1. /\ WorkspaceTypeOK /\ ActionsInv /\ actions # <<>>
      /\ disk' = After(Op, disk) /\ actions' = Tail(actions) /\ snap' = snap /\ virtual' = virtual
  BY DEF PerformStep, WorkspaceInv, plan
<1> DEFINE n == Len(actions)
<1>2. /\ Op \in Action /\ Op = actions[1] /\ Touched(Op) \subseteq Captured
      /\ n \in Nat \ {0} /\ Len(actions') = n - 1
      /\ \A i \in 1..n - 1 : actions'[i] = actions[i + 1]
  BY <1>1, NextAction
<1>3. /\ states \in [1..n + 1 -> [Path -> SeenState]]
      /\ states[1] = first /\ states[n + 1] = virtual
      /\ \A i \in 1..n : states[i + 1] = After(actions[i], states[i])
  BY DEF Leads
<1> DEFINE rest == [i \in 1..n |-> states[i + 1]]
<1> HIDE DEF n
<1>4. /\ rest \in [1..n -> [Path -> SeenState]]
      /\ rest[1] = states[2] /\ rest[n] = virtual
      /\ \A i \in 1..n : rest[i] = states[i + 1]
  BY <1>2, <1>3
<1> HIDE DEF rest
<1>5. states[2] \in [Path -> SeenState] /\ states[2] = After(Op, first)
  <2>1. 1 \in 1..n /\ 2 \in 1..n + 1 /\ 1 + 1 = 2
    BY <1>2
  <2> QED
    BY <1>2, <1>3, <2>1
<1>6. \A i \in 1..n - 1 : rest[i + 1] = After(actions'[i], rest[i])
  <2>1. SUFFICES ASSUME NEW i \in 1..n - 1
                 PROVE  rest[i + 1] = After(actions'[i], rest[i])
    OBVIOUS
  <2>2. i \in 1..n /\ i + 1 \in 1..n
    BY <1>2
  <2> QED
    BY <1>2, <1>3, <1>4, <2>2
<1>7. \A r \in Captured : After(Op, disk)[r] = After(Op, first)[r]
  <2>1. SUFFICES ASSUME NEW r \in Captured
                 PROVE  After(Op, disk)[r] = After(Op, first)[r]
    OBVIOUS
  <2>2. r \in Path /\ disk[r] = first[r]
    BY <2>1 DEF Captured, Agrees
  <2>3. Op.op = "move" => Op.path \in Path /\ disk[Op.path] = first[Op.path]
    BY <1>2 DEF Touched, Action, Captured, Agrees
  <2> QED
    BY <2>2, <2>3 DEF After
<1>8. Captured' = Captured /\ \A r \in Captured : disk'[r] = states[2][r]
  BY <1>1, <1>5, <1>7 DEF Captured
<1>9. n - 1 + 1 = n /\ n \in Nat
  BY <1>2
<1>10. PICK found :
         /\ found \in [1..n -> [Path -> SeenState]]
         /\ found[1] = states[2] /\ found[n] = virtual
         /\ \A i \in 1..n - 1 : found[i + 1] = After(actions'[i], found[i])
  BY <1>4, <1>6
<1>11. Agrees(states[2])' /\ Leads(found, states[2])'
  <2>1. Agrees(states[2])'
    BY <1>8 DEF Agrees
  <2>2. Leads(found, states[2])'
    BY <1>1, <1>2, <1>9, <1>10 DEF Leads, After, Touched
  <2> QED
    BY <2>1, <2>2
<1> QED
  BY <1>5, <1>11

LEMMA ChainStep ==
  ASSUME WorkspaceInv, ChainInv, [Next]_vars
  PROVE  ChainInv'
<1>1. WorkspaceTypeOK /\ snap \in [Path -> SeenState]
  BY DEF WorkspaceInv, WorkspaceTypeOK, SeenState
<1>2. CASE UNCHANGED vars
  BY <1>2 DEF ChainInv, Leads, Agrees, After, Touched, Captured, vars, files, plan, editing
<1>3. ASSUME at' \notin {"staging", "committing", "done"}
      PROVE  ChainInv'
  BY <1>3 DEF ChainInv
<1>4. ASSUME NEW op \in Action, NEW ps \in SUBSET Path, StageStep(op, ps)
      PROVE  ChainInv'
  <2>1. at = "staging" /\ at' = "staging" /\ late' = late
    BY <1>4 DEF StageStep, editing
  <2>2. PICK states : Leads(states, snap)
    BY <2>1 DEF ChainInv
  <2>3. PICK longer : Leads(longer, snap)'
    BY <1>4, <2>2, StageLeads
  <2>4. late = {}
    BY <2>1 DEF ChainInv
  <2> QED
    BY <2>1, <2>3, <2>4 DEF ChainInv
<1>5. CASE Verify
  <2>1. /\ at = "staging" /\ at' = (IF Fresh THEN "committing" ELSE "refused")
        /\ UNCHANGED <<files, plan, actions, editing>>
    BY <1>5 DEF Verify
  <2>2. CASE Fresh
    <3>1. PICK states : Leads(states, snap)
      BY <2>1 DEF ChainInv
    <3>2. Agrees(snap)
      BY <2>2 DEF Fresh, Agrees
    <3>3. PICK first \in [Path -> SeenState] : Agrees(first) /\ Leads(states, first)
      BY <1>1, <3>1, <3>2
    <3>4. Agrees(first)' /\ Leads(states, first)'
      BY <2>1, <3>3 DEF Agrees, Captured, Leads, After, Touched, files, plan
    <3> QED
      BY <2>1, <2>2, <3>4 DEF ChainInv
  <2>3. CASE ~Fresh
    BY <1>3, <2>1, <2>3
  <2> QED
    BY <2>2, <2>3
<1>6. CASE Perform
  <2>1. PerformStep(Op)
    BY <1>6, PerformMeans
  <2>2. at = "committing" /\ at' = at /\ late' = late
    BY <2>1 DEF PerformStep
  <2>3. CASE late = {}
    <3>1. PICK first, states :
                first \in [Path -> SeenState] /\ Agrees(first) /\ Leads(states, first)
      BY <2>2, <2>3 DEF ChainInv
    <3>2. PICK next, rest :
                next \in [Path -> SeenState] /\ Agrees(next)' /\ Leads(rest, next)'
      BY <2>1, <3>1, PerformLeads
    <3> QED
      BY <2>2, <3>2 DEF ChainInv
  <2>4. CASE late # {}
    BY <2>2, <2>4 DEF ChainInv
  <2> QED
    BY <2>3, <2>4
<1>7. CASE Finish
  <2>1. at = "committing" /\ at' = "done" /\ UNCHANGED <<files, plan, actions, editing>>
    BY <1>7 DEF Finish
  <2>2. late' = late
    BY <2>1 DEF editing
  <2>3. CASE late = {}
    <3>1. PICK first, states :
                first \in [Path -> SeenState] /\ Agrees(first) /\ Leads(states, first)
      BY <2>1, <2>3 DEF ChainInv
    <3>2. Agrees(first)' /\ Leads(states, first)'
      BY <2>1, <3>1 DEF Agrees, Captured, Leads, After, Touched, files, plan
    <3> QED
      BY <2>1, <3>1, <3>2 DEF ChainInv
  <2>4. CASE late # {}
    BY <2>1, <2>2, <2>4 DEF ChainInv
  <2> QED
    BY <2>3, <2>4
<1>8. CASE Break \/ RolledBack \/ Die
  <2>1. at' \notin {"staging", "committing", "done"}
    BY <1>8 DEF Break, RolledBack, Die
  <2> QED
    BY <1>3, <2>1
<1>9. ASSUME NEW p \in Path, Restore(p) \/ RestoreFails(p)
      PROVE  ChainInv'
  <2>1. at = "rolling" /\ at' = at
    BY <1>9 DEF Restore, RestoreFails
  <2> QED
    BY <1>3, <2>1
<1>10. ASSUME NEW p \in Path, NEW v \in FileState, Edit(p, v)
       PROVE  ChainInv'
  <2>1. /\ at \in {"staging", "committing", "rolling"} /\ at' = at
        /\ late' = IF at = "staging" THEN late ELSE late \cup {p}
        /\ UNCHANGED <<plan, actions>>
    BY <1>10 DEF Edit
  <2>2. CASE at = "staging"
    <3>1. PICK states : Leads(states, snap)
      BY <2>2 DEF ChainInv
    <3>2. Leads(states, snap)'
      BY <2>1, <3>1 DEF Leads, After, Touched, plan
    <3> QED
      BY <2>1, <2>2, <3>2 DEF ChainInv
  <2>3. CASE at # "staging"
    BY <2>1, <2>3 DEF ChainInv
  <2> QED
    BY <2>2, <2>3
<1>11. CASE Next
  BY <1>4, <1>5, <1>6, <1>7, <1>8, <1>9, <1>10, <1>11, StepCases
<1> QED
  BY <1>2, <1>11

LEMMA MkdirStep ==
  ASSUME WorkspaceInv, MkdirInv, [Next]_vars
  PROVE  MkdirInv'
<1>1. WorkspaceTypeOK /\ actions \in Seq(Action)
  BY DEF WorkspaceInv, ActionsInv
<1>2. CASE UNCHANGED vars
  BY <1>2 DEF MkdirInv, vars, files, plan
<1>3. ASSUME at' \notin {"staging", "committing", "done"}
      PROVE  MkdirInv'
  BY <1>3 DEF MkdirInv
<1>4. ASSUME NEW op \in Action, NEW ps \in SUBSET Path, StageStep(op, ps)
      PROVE  MkdirInv'
  <2>1. /\ actions' = Append(actions, op) /\ at = "staging" /\ dir' = dir
        /\ dirSnap' = IF op.op = "mkdir" /\ dirSnap = Unseen THEN dir ELSE dirSnap
    BY <1>4 DEF StageStep, files
  <2>2. /\ \A i \in DOMAIN actions : i \in DOMAIN actions' /\ actions'[i] = actions[i]
        /\ Len(actions) + 1 \in DOMAIN actions' /\ actions'[Len(actions) + 1] = op
    BY <1>1, <2>1
  <2>3. CASE op.op = "mkdir"
    BY <2>2, <2>3 DEF MkdirInv
  <2>4. CASE op.op # "mkdir"
    BY <2>1, <2>2, <2>4 DEF MkdirInv
  <2> QED
    BY <2>3, <2>4
<1>5. CASE Verify \/ Finish
  <2>1. at \in {"staging", "committing"} /\ UNCHANGED <<files, plan, actions>>
    BY <1>5 DEF Verify, Finish
  <2> QED
    BY <2>1 DEF MkdirInv, files, plan
<1>6. CASE Perform
  <2>1. PerformStep(Op) /\ actions # <<>>
    BY <1>6, PerformMeans DEF Perform
  <2>2. at = "committing" /\ actions' = Tail(actions) /\ dirSnap' = dirSnap
        /\ (dir => dir') /\ (Op.op = "mkdir" => dir')
    BY <2>1 DEF PerformStep, plan
  <2>3. CASE dirSnap # Unseen /\ ~dir'
    <3>1. PICK i \in DOMAIN actions : actions[i].op = "mkdir"
      BY <2>2, <2>3 DEF MkdirInv
    <3>2. /\ Op = actions[1] /\ Len(actions) \in Nat \ {0} /\ DOMAIN actions = 1..Len(actions)
          /\ DOMAIN actions' = 1..Len(actions) - 1
          /\ \A j \in 1..Len(actions) - 1 : actions'[j] = actions[j + 1]
      BY <2>1, <2>2, NextAction DEF WorkspaceInv
    <3>3. i # 1
      BY <2>2, <2>3, <3>1, <3>2
    <3>4. i - 1 \in DOMAIN actions' /\ actions'[i - 1] = actions[i]
      BY <3>2, <3>3
    <3> QED
      BY <3>1, <3>4 DEF MkdirInv
  <2>4. CASE dirSnap = Unseen \/ dir'
    BY <2>2, <2>4 DEF MkdirInv
  <2> QED
    BY <2>3, <2>4
<1>7. CASE Break \/ RolledBack \/ Die
  <2>1. at' \notin {"staging", "committing", "done"}
    BY <1>7 DEF Break, RolledBack, Die
  <2> QED
    BY <1>3, <2>1
<1>8. ASSUME NEW p \in Path, Restore(p) \/ RestoreFails(p)
      PROVE  MkdirInv'
  <2>1. at = "rolling" /\ at' = at
    BY <1>8 DEF Restore, RestoreFails
  <2> QED
    BY <1>3, <2>1
<1>9. ASSUME NEW p \in Path, NEW v \in FileState, Edit(p, v)
      PROVE  MkdirInv'
  BY <1>9 DEF Edit, MkdirInv, plan
<1>10. CASE Next
  BY <1>4, <1>5, <1>6, <1>7, <1>8, <1>9, <1>10, StepCases
<1> QED
  BY <1>2, <1>10

\* When commit is done, and nobody edited a file while it ran, the files are
\* what was staged and the directory that was asked for is there.
THEOREM CommitIsAll == Spec => []DoneAsStaged
<1>1. Init => WorkspaceInv /\ ChainInv /\ MkdirInv
  <2>1. SUFFICES ASSUME Init
                 PROVE  ChainInv /\ MkdirInv
    BY WorkspaceInit
  <2>2. /\ at = "staging" /\ late = {} /\ actions = <<>> /\ virtual = snap /\ dirSnap = Unseen
        /\ snap = [p \in Path |-> Unseen]
    BY <2>1 DEF Init
  <2>3. snap \in [Path -> SeenState]
    BY <2>2 DEF SeenState
  <2> DEFINE states == [i \in {1} |-> snap]
  <2>4. states \in [{1} -> [Path -> SeenState]] /\ states[1] = snap
    BY <2>3
  <2>5. Len(actions) = 0 /\ Len(actions) + 1 = 1 /\ 1..Len(actions) + 1 = {1} /\ 1..Len(actions) = {}
    BY <2>2
  <2> HIDE DEF states
  <2>6. Leads(states, snap)
    BY <2>2, <2>4, <2>5 DEF Leads
  <2> QED
    BY <2>2, <2>6 DEF ChainInv, MkdirInv
<1>2. WorkspaceInv /\ ChainInv /\ MkdirInv /\ [Next]_vars
      => WorkspaceInv' /\ ChainInv' /\ MkdirInv'
  BY WorkspaceStep, ChainStep, MkdirStep
<1>3. WorkspaceInv /\ ChainInv /\ MkdirInv => DoneAsStaged
  <2>1. SUFFICES ASSUME WorkspaceInv, ChainInv, MkdirInv, at = "done", late = {}
                 PROVE  /\ \A p \in Captured : disk[p] = virtual[p]
                        /\ dirSnap # Unseen => dir
    BY DEF DoneAsStaged
  <2>2. PICK first, states :
                first \in [Path -> SeenState] /\ Agrees(first) /\ Leads(states, first)
    BY <2>1 DEF ChainInv
  <2>3. actions = <<>>
    BY <2>1 DEF WorkspaceInv, ActionsInv
  <2>4. Len(actions) = 0 /\ DOMAIN actions = {}
    BY <2>3
  <2>5. first = virtual
    BY <2>2, <2>4 DEF Leads
  <2> QED
    BY <2>1, <2>2, <2>4, <2>5 DEF Agrees, MkdirInv
<1> QED
  BY <1>1, <1>2, <1>3, PTL DEF Spec
=============================================================================
