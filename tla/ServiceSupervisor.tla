------------------------- MODULE ServiceSupervisor -------------------------
(***************************************************************************)
(* One service of the ServiceSupervisor                                    *)
(* (src/src/karox/service_supervisor.py): start, stop and restart as       *)
(* several callers run them, the record and the lease file they share, and *)
(* the operating system's processes, whose ids are used again.             *)
(*                                                                         *)
(* The record and the guards are read before the lease is taken.  A        *)
(* process is told from a later one with the same id by its birth, which   *)
(* stands for the creation time.  Two checks are left out: that a service  *)
(* is not the control plane itself, and a refusal because the platform     *)
(* tells nothing of a process.  The readiness probe changes nothing.       *)
(***************************************************************************)
EXTENDS Naturals

CONSTANTS
  Caller,       \* those who call the supervisor
  Project,      \* the project and workstream a caller works for
  Home,         \* the project of each caller
  Pid,          \* process ids
  None,         \* no record, no lease file
  Expiring,     \* whether 120 seconds may pass while a lease is held
  MaxBorn       \* bound: processes that are ever started under these ids

VARIABLES
  proc,     \* the process that runs under an id: its birth, or 0
  born,     \* processes started so far
  parent,   \* the project that started a process, or None for a foreign one
  record,   \* the record file: pid, birth and project
  lease,    \* the lease file: its owner, whether it is written, and expired
  at,       \* how far a caller's action is
  kind,     \* which action it is
  own,      \* the record it has loaded, or the one it is about to save
  told,     \* whether its last answer was that the service is stopped
  overlap,  \* whether two actions have ever been under way at once
  lost      \* whether a caller left a process it had not recorded

os == <<proc, born, parent>>
caller == <<at, kind, own, told>>
ghosts == <<overlap, lost>>
vars == <<os, record, lease, caller, ghosts>>

Birth == 1..MaxBorn
Record == [pid : Pid, birth : Birth, project : Project]
Lease == [owner : Caller, written : BOOLEAN, expired : BOOLEAN]

ASSUME SupervisorAssumption ==
  /\ Home \in [Caller -> Project] /\ None \notin Project \cup Record \cup Lease
  /\ Expiring \in BOOLEAN /\ MaxBorn \in Nat

Init ==
  /\ proc = [i \in Pid |-> 0] /\ born = 0 /\ parent = [b \in Birth |-> None]
  /\ record = None /\ lease = None
  /\ at = [c \in Caller |-> "idle"] /\ kind = [c \in Caller |-> "none"]
  /\ own = [c \in Caller |-> None] /\ told = [c \in Caller |-> FALSE]
  /\ overlap = FALSE /\ lost = FALSE

Goes(c, place) == at' = [at EXCEPT ![c] = place]

\* _pid_alive: something runs under the id.
Alive(r) == proc[r.pid] # 0

\* verify_identity: it is the process that was recorded.
Verified(r) == proc[r.pid] = r.birth

\* _ownership_guard.
Ours(c, r) == r.project = Home[c]

-----------------------------------------------------------------------------
(* Before the lease.                                                       *)

\* A start that does not look whether the service runs.
AdmitsRunning(c, action) == action # "start" => record # None /\ Ours(c, record)

\* A stop or restart of a service nobody knows.
AdmitsUnknown(c, action) == record # None => (action = "start" <=> ~Alive(record))

\* start goes on unless the recorded process runs; stop and restart need a
\* record of the caller's own project.
Admits(c, action) ==
  IF action = "start" THEN record # None => ~Alive(record)
                      ELSE record # None /\ Ours(c, record)

Begin(c, action) ==
  /\ at[c] = "idle" /\ Admits(c, action)
  /\ Goes(c, "acquire") /\ kind' = [kind EXCEPT ![c] = action]
  /\ own' = [own EXCEPT ![c] = record] /\ told' = [told EXCEPT ![c] = FALSE]
  /\ overlap' = (overlap \/ \E d \in Caller \ {c} : at[d] # "idle")
  /\ UNCHANGED <<os, record, lease, lost>>

-----------------------------------------------------------------------------
(* ServiceLease.                                                           *)

\* The file is created, and is empty until its text is written.
Create(c) ==
  /\ at[c] \in {"acquire", "again"} /\ lease = None /\ Goes(c, "writing")
  /\ lease' = [owner |-> c, written |-> FALSE, expired |-> FALSE]
  /\ UNCHANGED <<os, record, kind, own, told, ghosts>>

\* There is one already, at the second attempt: that is the end of it.
Refused(c) ==
  /\ at[c] = "again" /\ lease # None /\ Goes(c, "idle")
  /\ UNCHANGED <<os, record, lease, kind, own, told, ghosts>>

Found(c) ==
  /\ at[c] = "acquire" /\ lease # None /\ Goes(c, "read")
  /\ UNCHANGED <<os, record, lease, kind, own, told, ghosts>>

\* It holds the caller up only if it is still there, can be read and has not
\* expired.
Inspect(c) ==
  /\ at[c] = "read"
  /\ Goes(c, IF lease # None /\ lease.written /\ ~lease.expired THEN "idle" ELSE "unlink")
  /\ UNCHANGED <<os, record, lease, kind, own, told, ghosts>>

\* Whichever file is there now is removed.
Unlink(c) ==
  /\ at[c] = "unlink" /\ lease' = None /\ Goes(c, "again")
  /\ UNCHANGED <<os, record, kind, own, told, ghosts>>

\* The text goes to the file the caller created, if that is still there.
Write(c) ==
  /\ at[c] = "writing"
  /\ lease' = IF lease # None /\ lease.owner = c THEN [lease EXCEPT !.written = TRUE] ELSE lease
  /\ Goes(c, IF kind[c] = "start" THEN "launch" ELSE "check")
  /\ UNCHANGED <<os, record, kind, own, told, ghosts>>

\* Lets the lease go, by removing whichever file is there.
Leaves(c) == Goes(c, "idle") /\ lease' = None

Expire ==
  /\ Expiring /\ lease # None /\ lease.written /\ ~lease.expired
  /\ lease' = [lease EXCEPT !.expired = TRUE]
  /\ UNCHANGED <<os, record, caller, ghosts>>

-----------------------------------------------------------------------------
(* Under the lease.                                                        *)

\* What follows a stop that came out well.
Stopped(c) ==
  IF kind[c] = "stop" THEN Leaves(c) /\ told' = [told EXCEPT ![c] = TRUE]
                      ELSE Goes(c, "launch") /\ UNCHANGED <<lease, told>>

\* Whatever runs under the recorded id is ours.
CheckPidOnly(c) ==
  /\ at[c] = "check"
  /\ IF Alive(own[c]) THEN Goes(c, "kill") /\ UNCHANGED <<lease, told>> ELSE Stopped(c)
  /\ UNCHANGED <<os, record, kind, own, ghosts>>

\* _stop_locked, up to the signal.
Check(c) ==
  /\ at[c] = "check"
  /\ \/ ~Alive(own[c]) /\ Stopped(c)
     \/ Alive(own[c]) /\ Verified(own[c]) /\ Goes(c, "kill") /\ UNCHANGED <<lease, told>>
     \/ Alive(own[c]) /\ ~Verified(own[c]) /\ Leaves(c) /\ UNCHANGED told
  /\ UNCHANGED <<os, record, kind, own, ghosts>>

\* The signal goes to the id.  The process may be slow to die.
Signal(c) ==
  /\ at[c] = "kill" /\ Goes(c, "wait")
  /\ \/ proc' = [proc EXCEPT ![own[c].pid] = 0]
     \/ UNCHANGED proc
  /\ UNCHANGED <<born, parent, record, lease, kind, own, told, ghosts>>

\* Goes on after the wait whether the process is gone or not.
WaitNotAtAll(c) ==
  /\ at[c] = "wait" /\ Stopped(c)
  /\ UNCHANGED <<os, record, kind, own, ghosts>>

\* Ten seconds at most: the id is free, or the action gives up.
Wait(c) ==
  /\ at[c] = "wait"
  /\ IF Alive(own[c]) THEN Leaves(c) /\ UNCHANGED told ELSE Stopped(c)
  /\ UNCHANGED <<os, record, kind, own, ghosts>>

\* An id that is free, but not one that was verified a moment ago and is about
\* to be signalled.
NextBorn(i, who) ==
  /\ proc[i] = 0 /\ born < MaxBorn
  /\ \A c \in Caller : at[c] = "kill" => own[c].pid # i
  /\ born' = born + 1 /\ proc' = [proc EXCEPT ![i] = born + 1]
  /\ parent' = [parent EXCEPT ![born + 1] = who]

\* The identity is captured at once; a restart keeps the record's project.
Launch(c, i) ==
  /\ at[c] = "launch" /\ Goes(c, "save")
  /\ LET project == IF kind[c] = "start" THEN Home[c] ELSE own[c].project
     IN /\ NextBorn(i, project)
        /\ own' = [own EXCEPT ![c] = [pid |-> i, birth |-> born + 1, project |-> project]]
  /\ UNCHANGED <<record, lease, kind, told, ghosts>>

LaunchFails(c) ==
  /\ at[c] = "launch" /\ Leaves(c)
  /\ UNCHANGED <<os, record, kind, own, told, ghosts>>

Save(c) ==
  /\ at[c] = "save" /\ record' = own[c] /\ Leaves(c)
  /\ UNCHANGED <<os, kind, own, told, ghosts>>

\* The new process runs and its record cannot be written.
SaveFails(c) ==
  /\ at[c] = "save" /\ Leaves(c) /\ lost' = TRUE
  /\ UNCHANGED <<os, record, kind, own, told, overlap>>

-----------------------------------------------------------------------------
(* The world around.                                                       *)

\* The caller's process ends; its lease file stays.
Crash(c) ==
  /\ at[c] # "idle" /\ Goes(c, "idle")
  /\ lost' = (lost \/ at[c] = "save")
  /\ UNCHANGED <<os, record, lease, kind, own, told, overlap>>

\* A process ends by itself, or after a signal that it was slow to follow.
Exit(i) ==
  /\ proc[i] # 0 /\ proc' = [proc EXCEPT ![i] = 0]
  /\ UNCHANGED <<born, parent, record, lease, caller, ghosts>>

\* Some other program comes to run under a free id.
Foreign(i) ==
  /\ NextBorn(i, None)
  /\ UNCHANGED <<record, lease, caller, ghosts>>

Acts(c) ==
  \/ \E action \in {"start", "stop", "restart"} : Begin(c, action)
  \/ Create(c) \/ Found(c) \/ Inspect(c) \/ Unlink(c) \/ Refused(c) \/ Write(c)
  \/ Check(c) \/ Signal(c) \/ Wait(c)
  \/ (\E i \in Pid : Launch(c, i)) \/ LaunchFails(c) \/ Save(c) \/ SaveFails(c) \/ Crash(c)

Next ==
  \/ \E c \in Caller : Acts(c)
  \/ \E i \in Pid : Exit(i) \/ Foreign(i)
  \/ Expire

Spec == Init /\ [][Next]_vars

-----------------------------------------------------------------------------
(* Properties.                                                             *)

Running == {proc[i] : i \in Pid} \ {0}
ServiceProcesses == {b \in Running : parent[b] # None}

\* Every variable stays in its domain, and an action that stops something has
\* a record to go by.
ServiceTypeOK ==
  /\ born \in 0..MaxBorn /\ proc \in [Pid -> 0..born]
  /\ parent \in [Birth -> Project \cup {None}]
  /\ record \in Record \cup {None} /\ lease \in Lease \cup {None}
  /\ at \in [Caller -> {"idle", "acquire", "read", "again", "unlink", "writing", "check", "kill",
                       "wait", "launch", "save"}]
  /\ kind \in [Caller -> {"none", "start", "stop", "restart"}]
  /\ own \in [Caller -> Record \cup {None}]
  /\ told \in [Caller -> BOOLEAN] /\ overlap \in BOOLEAN /\ lost \in BOOLEAN
  /\ \A c \in Caller : at[c] \in {"check", "kill", "wait", "save"} => own[c] # None

\* As long as no two actions overlap and no caller leaves a process it has not
\* recorded, one process of the service runs at most, and it is the one the
\* record names: nothing is left running that stop and status do not know of.
NothingRunsUnrecorded ==
  ~overlap /\ ~lost =>
    \A b \in ServiceProcesses :
      \/ record # None /\ record.birth = b
      \/ \E c \in Caller : at[c] = "save" /\ own[c].birth = b

\* A stop that reports success has seen the process it was asked to stop go,
\* however the actions of others and the reuse of ids run between.
StoppedIsGone ==
  \A c \in Caller : told[c] => ~Verified(own[c])

\* A signal ends no process but one that the caller's own project started:
\* neither a program that came by a recorded id nor a service of another
\* project whose record has taken the place of the caller's.
OnlyItsOwnDies ==
  [][\A c \in Caller, i \in Pid :
       Signal(c) /\ proc'[i] # proc[i] => parent[proc[i]] \in {Home[c]}]_vars
============================================================================
