--------------------------- MODULE RepositoryLease ---------------------------
(***************************************************************************)
(* The mutation lease of one repository, as                                *)
(* src/src/karox/repository_lease.py keeps it: one file outside the        *)
(* session store, because the callers that compete for it belong to        *)
(* different sessions.                                                     *)
(*                                                                         *)
(* The lease has an expiry but acquire never looks at it: a lease is       *)
(* authority exactly as long as the process that wrote it seems to live.   *)
(* heartbeat rewrites the same lease under the lock and is a stutter here. *)
(***************************************************************************)
EXTENDS Naturals

CONSTANTS
  Caller,     \* whoever takes the lease: hosted requests, detached workers
  Sibling,    \* the callers with one and the same session, task and connection
  Nobody,     \* not a caller
  Marker,     \* TRUE where the system tells when a process was created
  MaxLease    \* bound: leases ever written

ASSUME RepositoryLeaseAssumption ==
  /\ Sibling \subseteq Caller /\ Nobody \notin Caller
  /\ Marker \in BOOLEAN /\ MaxLease \in Nat

VARIABLES
  repoLease,    \* the lease file; id 0 when there is none
  repoIssued,   \* lease identifiers issued so far (uuid4 in the code)
  grip          \* the identifier in the RepositoryLease a caller holds, or 0

repoVars == <<repoLease, repoIssued, grip>>

\* owner: the caller that wrote the file.  process: what the owner's PID is by
\* now: that process, another one that cannot be told from it, or gone.
RepositoryLeaseFile ==
  [id : 0..MaxLease, owner : Caller \cup {Nobody},
   process : {"alive", "reused", "gone"}]

NoRepositoryLease == [id |-> 0, owner |-> Nobody, process |-> "gone"]

RepoInit ==
  /\ repoLease = NoRepositoryLease
  /\ repoIssued = 0
  /\ grip = [c \in Caller |-> 0]

\* An identity that leaves out the task: here it makes all callers alike.
SameOwnerIgnoringTask(c) == c \in Caller

\* The same session, task and connection.  A detached worker's task is its
\* job, which runs once, so nobody has its identity again.
SameOwner(c) == {c, repoLease.owner} \subseteq Sibling

\* _same_process: without a creation marker a live PID is taken for the owner.
SameProcess == repoLease.process # "gone"


\* acquire raises RepositoryLeaseConflict.
Conflict(c) == repoLease.id # 0 /\ SameProcess /\ ~SameOwner(c)

\* acquire by a caller with the owner's identity: the same lease, once more.
Reenter(c) ==
  /\ repoLease.id # 0 /\ SameProcess /\ SameOwner(c)
  /\ grip' = [grip EXCEPT ![c] = repoLease.id]
  /\ UNCHANGED <<repoLease, repoIssued>>

\* acquire of a repository without a lease, or with one whose owner is gone.
TakeOver(c) ==
  /\ repoLease.id # 0 => ~SameProcess
  /\ repoIssued < MaxLease
  /\ repoIssued' = repoIssued + 1
  /\ repoLease' = [id |-> repoIssued + 1, owner |-> c, process |-> "alive"]
  /\ grip' = [grip EXCEPT ![c] = repoIssued + 1]

RepoAcquire(c) == Reenter(c) \/ TakeOver(c)

\* release raises: another lease is on disk.
NotMine(c) == repoLease.id \notin {0, grip[c]}

\* A release that unlinks whatever lease is there.
RepoReleaseAny(c) ==
  /\ repoLease' = NoRepositoryLease
  /\ grip' = [grip EXCEPT ![c] = 0]
  /\ UNCHANGED repoIssued

RepoRelease(c) ==
  /\ ~NotMine(c)
  /\ repoLease' = NoRepositoryLease
  /\ grip' = [grip EXCEPT ![c] = 0]
  /\ UNCHANGED repoIssued

\* The process of c ends; its PID is free again and may be taken at once.
RepoDie(c) ==
  /\ grip' = [grip EXCEPT ![c] = 0]
  /\ IF repoLease.owner = c /\ repoLease.process = "alive"
     THEN \E p \in IF Marker THEN {"gone"} ELSE {"gone", "reused"} :
            repoLease' = [repoLease EXCEPT !.process = p]
     ELSE UNCHANGED repoLease
  /\ UNCHANGED repoIssued

\* The process that had taken the dead owner's PID ends as well.
ReuserEnds ==
  /\ repoLease.process = "reused"
  /\ repoLease' = [repoLease EXCEPT !.process = "gone"]
  /\ UNCHANGED <<repoIssued, grip>>

\* Every variable stays in its domain.
RepoTypeOK ==
  /\ repoLease \in RepositoryLeaseFile
  /\ repoIssued \in 0..MaxLease
  /\ grip \in [Caller -> 0..MaxLease]
=============================================================================
