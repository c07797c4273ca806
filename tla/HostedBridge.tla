---------------------------- MODULE HostedBridge ----------------------------
(***************************************************************************)
(* CoreToolBridge.execute (src/src/karox/hosted_bridge.py) for mutating    *)
(* tools: the hosted requests of one session and connection take the       *)
(* session lease, then the repository lease, run the command under both    *)
(* and give them back in the opposite order.  Detached command workers     *)
(* (check_jobs.run_worker) and other sessions compete for the repository.  *)
(*                                                                         *)
(* What the command itself does to the session is CoreExecute; here it is  *)
(* loads and saves under the lease, and being in it is changing the        *)
(* repository.                                                             *)
(***************************************************************************)
EXTENDS SessionStore, RepositoryLease

CONSTANTS
  Worker,   \* the callers that are not requests of this session
  Fault,    \* what may go wrong around a request
  Timely    \* TRUE when a live heartbeat thread is never a whole TTL late

ASSUME BridgeAssumption ==
  /\ Caller = Client \cup Worker /\ Sibling = Client
  /\ Client \cap Worker = {}
  /\ Fault \subseteq {"project_gone", "unreadable"} /\ Timely \in BOOLEAN

VARIABLES
  at,       \* where each request is in execute
  project   \* whether the project's directory is there

bridgeVars == <<at, project>>
allVars == <<storeVars, repoVars, bridgeVars>>

Place == {"idle", "attached", "run", "settle", "leave", "stranded"}

Init ==
  /\ StoreInit /\ RepoInit
  /\ at = [c \in Client |-> "idle"]
  /\ project = "there"

Move(c, from, to) ==
  /\ at[c] = from /\ at' = [at EXCEPT ![c] = to]
  /\ UNCHANGED project

\* resolve(strict=True) of the project's path raises, or a state file of the
\* request cannot be read.
Unresolvable == project = "gone" \/ "unreadable" \in Fault

-----------------------------------------------------------------------------
\* The session lease, and the heartbeat thread that extends it.
Attach(c) == Move(c, "idle", "attached") /\ Acquire(c) /\ UNCHANGED repoVars

\* Resolving the project or loading its task state raises.  No handler of this
\* part of execute catches it: the lease is not released, the thread beats on.
StrandAttached(c) ==
  /\ Move(c, "attached", "stranded") /\ Unresolvable
  /\ UNCHANGED <<storeVars, repoVars>>

TakeRepository(c) ==
  /\ Move(c, "attached", "run") /\ project = "there"
  /\ RepoAcquire(c) /\ UNCHANGED storeVars

\* A refusal that leaves the session lease to its TTL.
RefuseHolding(c) ==
  /\ Move(c, "attached", "idle")
  /\ Conflict(c) \/ "unreadable" \in Fault \/ repoIssued = MaxLease
  /\ UNCHANGED <<storeVars, repoVars>>

\* The repository stayed busy, or its lease file is unreadable (or the bound
\* MaxLease is reached): the call is refused, after the session lease is
\* released.
Refuse(c) ==
  /\ Move(c, "attached", "leave")
  /\ Conflict(c) \/ "unreadable" \in Fault \/ repoIssued = MaxLease
  /\ UNCHANGED <<storeVars, repoVars>>

\* CoreRuntime.execute: what it does to the session.
Command(c) ==
  /\ at[c] = "run"
  /\ Load(c) \/ SaveEdit(c)
  /\ UNCHANGED <<repoVars, bridgeVars>>

\* The command returns or raises.
Finish(c) == Move(c, "run", "settle") /\ UNCHANGED <<storeVars, repoVars>>

\* The finally block: the repository lease first ...
SettleRepository(c) ==
  /\ Move(c, "settle", "leave") /\ project = "there"
  /\ RepoRelease(c) /\ UNCHANGED storeVars

\* ... and when that raises, nothing after it.
StrandSettled(c) ==
  /\ Move(c, "settle", "stranded")
  /\ Unresolvable \/ NotMine(c)
  /\ UNCHANGED <<storeVars, repoVars>>

\* ... then the heartbeat thread and the session lease.
Detach(c) == Move(c, "leave", "idle") /\ Release(c) /\ UNCHANGED repoVars

\* The heartbeat thread; that of a stranded request is never told to stop.
Beat(c) ==
  at[c] # "idle" /\ Heartbeat(c) /\ UNCHANGED <<repoVars, bridgeVars>>

Die(c) ==
  /\ Crash(c) /\ RepoDie(c)
  /\ at' = [at EXCEPT ![c] = "idle"] /\ UNCHANGED project

-----------------------------------------------------------------------------
(* The others.                                                             *)

\* A detached worker runs its command under the repository lease alone; what
\* its release raises is swallowed.
WorkerStarts(w) ==
  grip[w] = 0 /\ RepoAcquire(w) /\ UNCHANGED <<storeVars, bridgeVars>>

WorkerEnds(w) ==
  /\ grip[w] # 0 /\ ~NotMine(w) /\ RepoRelease(w)
  /\ UNCHANGED <<storeVars, bridgeVars>>

WorkerDies(w) ==
  grip[w] # 0 /\ RepoDie(w) /\ UNCHANGED <<storeVars, bridgeVars>>

ProjectGoes ==
  /\ "project_gone" \in Fault /\ project' = "gone"
  /\ UNCHANGED <<storeVars, repoVars, at>>

\* Time; under Timely a lease whose owner lives is beaten before it expires.
Passes ==
  /\ Tick
  /\ Timely /\ lease.ttl = 1 => \A c \in Client : held[c] # lease.token
  /\ UNCHANGED <<repoVars, bridgeVars>>

SessionChanges ==
  /\ \/ Revoke \/ RevokeCutShort \/ Rename \/ Archive \/ Unarchive
     \/ AcquireCutShort \/ \E c \in Client : ReactivateExisting(c)
  /\ UNCHANGED <<repoVars, bridgeVars>>

RequestStep(c) ==
  \/ StrandAttached(c) \/ TakeRepository(c) \/ Refuse(c) \/ Finish(c)
  \/ SettleRepository(c) \/ StrandSettled(c) \/ Detach(c)

Next ==
  \/ \E c \in Client :
       Attach(c) \/ RequestStep(c) \/ Command(c) \/ Beat(c) \/ Die(c)
  \/ \E w \in Worker : WorkerStarts(w) \/ WorkerEnds(w) \/ WorkerDies(w)
  \/ ReuserEnds /\ UNCHANGED <<storeVars, bridgeVars>>
  \/ ProjectGoes \/ Passes \/ SessionChanges

Spec == Init /\ [][Next]_allVars

\* A live request runs on: every wait in execute has a deadline.
FairSpec == Spec /\ \A c \in Client : WF_allVars(RequestStep(c))

-----------------------------------------------------------------------------
(* Properties.                                                             *)

\* Every variable stays in its domain.
BridgeTypeOK ==
  /\ TypeOK /\ RepoTypeOK
  /\ at \in [Client -> Place]
  /\ project \in {"there", "gone"}

\* Whoever is changing the repository.
Working == {c \in Client : at[c] = "run"} \cup {w \in Worker : grip[w] # 0}

\* One mutation at a time: hosted requests and detached workers never change
\* the repository together, whatever dies, is revoked or stays behind.  It
\* takes timely heartbeats, creation markers and a session that is not
\* reactivated under a live request.
OneAtATime == \A a, b \in Working : a = b

\* A detached worker keeps the repository as long as it lives, however late,
\* superseded or stranded the requests around it are: no release or re-entry of
\* theirs takes the file away under it.
WorkerIsFenced ==
  \A w \in Worker : grip[w] # 0 =>
    repoLease = [id |-> grip[w], owner |-> w, process |-> "alive"]

\* Every request gives back both leases, by every way out of execute, while
\* the directory of its project is there; a request whose project goes away
\* may be left out of execute with its session lease beating.
BothLeasesAreGivenBack ==
  \A c \in Client :
    at[c] # "idle" ~>
      \/ at[c] = "idle" /\ held[c] = 0 /\ grip[c] = 0
      \/ at[c] = "stranded" /\ project = "gone"

\* repository_lease.py says "only one session may mutate it at a time": no job
\* of another session runs beside a hosted request.  The code lets it, and a run
\* of its own refutes this.
OneSessionMutates ==
  \A w \in Worker : w \in Working => Working \subseteq {w}
=============================================================================
