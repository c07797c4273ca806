------------------------------ MODULE CheckJobs ------------------------------
(***************************************************************************)
(* Detached check and command jobs (src/src/karox/check_jobs.py): managers *)
(* in several processes start jobs under a file lock, one worker process   *)
(* per job runs the command and keeps the record, and anyone may leave a   *)
(* cancel marker.                                                          *)
(*                                                                         *)
(* A record is replaced as a whole by every put, from the copy its writer  *)
(* has: nobody compares.  A store holds jobs of one kind.  The manager of  *)
(* check jobs waits for the child; command jobs run under the lease of the *)
(* repository (RepositoryLease, with one caller per worker).               *)
(***************************************************************************)
EXTENDS RepositoryLease, FiniteSets

CONSTANTS
  Manager,     \* CheckJobManager.start, in threads of several processes
  Worker,      \* the worker processes there can be
  Key,         \* idempotency keys, each for one command
  Workspace,   \* fingerprints of the workspace
  Generation,  \* job identifiers drawn at random
  Kind,        \* which stores to look at, of "check" and "command"
  Steady,      \* whether lock files never grow stale: a set of BOOLEANs
  Prompt,      \* whether a child is published in time: a set of BOOLEANs
  MaxEvent,    \* bound: deaths, failures, stale locks, cancellations
  None

ASSUME JobsAssumption ==
  /\ Caller = Worker /\ Sibling = {} /\ Kind \subseteq {"check", "command"}
  /\ Steady \subseteq BOOLEAN /\ Prompt \subseteq BOOLEAN /\ None \notin Manager
  /\ MaxEvent \in Nat

VARIABLES
  lock,     \* .store.lock: who made it, and whether it is older than its bound
  index,    \* per key, the job it is bound to and the workspace it was for
  rec,      \* the records of the jobs
  marker,   \* the jobs somebody wants cancelled
  boss,     \* the managers
  hand,     \* the workers and their children
  env,      \* the kind of the store and what the environment does
  events    \* how often something has died, failed, aged or been cancelled

around == <<env, events>>
jobVars == <<lock, index, rec, marker, boss, hand, around>>
vars == <<jobVars, repoVars>>

\* The identifier of a first job is a digest of its key and workspace.
JobId == (Key \X Workspace) \cup Generation
Final == {"passed", "failed", "cancelled", "timed_out"}
NoRecord == [status |-> "none", worker |-> None, child |-> FALSE]
Queued == [NoRecord EXCEPT !.status = "queued"]
Unlocked == [by |-> None, old |-> FALSE]
Resting == [at |-> "idle", key |-> None, space |-> None, job |-> None, worker |-> None,
            view |-> NoRecord]
Unused == [at |-> "unused", job |-> None, child |-> "none", final |-> "none", view |-> NoRecord]

Init ==
  /\ lock = Unlocked
  /\ index = [k \in Key |-> [job |-> None, space |-> None]]
  /\ rec = [j \in JobId |-> NoRecord]
  /\ marker = {}
  /\ boss = [m \in Manager |-> Resting]
  /\ hand = [w \in Worker |-> Unused]
  /\ env \in [kind : Kind, steady : Steady, prompt : Prompt]
  /\ env.steady \/ (env.prompt /\ env.kind = "check")
  /\ env.prompt \/ env.kind = "check"
  /\ events = 0 /\ RepoInit

Happens == events < MaxEvent /\ events' = events + 1 /\ UNCHANGED env

Alive(w) == hand[w].at \notin {"unused", "done", "killed"}

\* effective_job_status: a record in progress whose worker is gone has failed.
Effective(j) ==
  IF rec[j].status \in {"queued", "running"} /\ rec[j].worker # None /\ ~Alive(rec[j].worker)
  THEN "failed" ELSE rec[j].status

-----------------------------------------------------------------------------
(* The file lock: a waiter unlinks a lock that is too old, and whoever     *)
(* leaves unlinks whatever lock is there.                                  *)

LockAges ==
  /\ Happens
  /\ ~env.steady /\ lock.by # None /\ lock' = [lock EXCEPT !.old = TRUE]
  /\ UNCHANGED <<index, rec, marker, boss, hand, repoVars>>

SeesStale(m) ==
  /\ boss[m].at = "idle" /\ lock.old
  /\ boss' = [boss EXCEPT ![m].at = "stale"]
  /\ UNCHANGED <<lock, index, rec, marker, hand, around, repoVars>>

UnlinkStale(m) ==
  /\ boss[m].at = "stale" /\ lock' = Unlocked
  /\ boss' = [boss EXCEPT ![m] = Resting]
  /\ UNCHANGED <<index, rec, marker, hand, around, repoVars>>

-----------------------------------------------------------------------------
(* start.                                                                  *)

Enter(m, k, s) ==
  /\ boss[m].at = "idle" /\ lock.by = None
  /\ lock' = [Unlocked EXCEPT !.by = m]
  /\ boss' = [boss EXCEPT ![m] = [Resting EXCEPT !.at = "inside", !.key = k, !.space = s]]
  /\ UNCHANGED <<index, rec, marker, hand, around, repoVars>>

\* The key is bound to a job for this state of the workspace: its status is the
\* answer.
ReplayStart(m) ==
  /\ boss[m].at = "inside"
  /\ index[boss[m].key].job # None /\ index[boss[m].key].space = boss[m].space
  /\ boss' = [boss EXCEPT ![m] = Resting] /\ lock' = Unlocked
  /\ UNCHANGED <<index, rec, marker, hand, around, repoVars>>

\* The digest again, whether or not there is a job of that name.
FreeIdAlways(k, s) == {<<k, s>>}

FreeId(k, s) ==
  IF rec[<<k, s>>].status = "none" THEN {<<k, s>>}
  ELSE {g \in Generation : rec[g].status = "none"}

ChooseJob(m) ==
  LET k == boss[m].key  s == boss[m].space IN
  /\ boss[m].at = "inside" /\ (index[k].job # None => index[k].space # s)
  /\ \E j \in FreeId(k, s) :
       boss' = [boss EXCEPT ![m] = [@ EXCEPT !.at = "create", !.job = j]]
  /\ UNCHANGED <<lock, index, rec, marker, hand, around, repoVars>>

Enqueue(m) ==
  /\ boss[m].at = "create"
  /\ rec' = [rec EXCEPT ![boss[m].job] = Queued]
  /\ index' = [index EXCEPT ![boss[m].key] = [job |-> boss[m].job, space |-> boss[m].space]]
  /\ boss' = [boss EXCEPT ![m].at = "launch"]
  /\ UNCHANGED <<lock, marker, hand, around, repoVars>>

Launch(m, w) ==
  /\ boss[m].at = "launch" /\ hand[w].at = "unused"
  /\ hand' = [hand EXCEPT ![w] = [Unused EXCEPT !.at = "begin", !.job = boss[m].job]]
  /\ boss' = [boss EXCEPT ![m] =
       IF env.kind = "check"
       THEN [Resting EXCEPT !.at = "waiting", !.job = boss[m].job, !.worker = w] ELSE Resting]
  /\ lock' = Unlocked
  /\ UNCHANGED <<index, rec, marker, around, repoVars>>

LaunchFails(m) ==
  /\ Happens
  /\ boss[m].at = "launch"
  /\ rec' = [rec EXCEPT ![boss[m].job] = [Queued EXCEPT !.status = "failed"]]
  /\ boss' = [boss EXCEPT ![m] = Resting] /\ lock' = Unlocked
  /\ UNCHANGED <<index, marker, hand, repoVars>>

Observed(m) == rec[boss[m].job]

StartIsReady(m) ==
  /\ boss[m].at = "waiting" /\ (Observed(m).child \/ Observed(m).status \in Final)
  /\ boss' = [boss EXCEPT ![m] = Resting]
  /\ UNCHANGED <<lock, index, rec, marker, hand, around, repoVars>>

\* A worker that has exited is failed without another look at its record.
WorkerIsGoneHasty(m) ==
  /\ boss[m].at = "waiting" /\ ~Alive(boss[m].worker)
  /\ rec' = [rec EXCEPT ![boss[m].job].status = "failed"]
  /\ boss' = [boss EXCEPT ![m] = Resting]
  /\ UNCHANGED <<lock, index, marker, hand, around, repoVars>>

\* The worker has exited, and what it wrote last is not final.
WorkerIsGone(m) ==
  /\ boss[m].at = "waiting" /\ ~Alive(boss[m].worker)
  /\ Observed(m).status \notin Final
  /\ rec' = [rec EXCEPT ![boss[m].job].status = "failed"]
  /\ boss' = [boss EXCEPT ![m] = Resting]
  /\ UNCHANGED <<lock, index, marker, hand, around, repoVars>>

\* No child in time: the job is marked, and then failed as it was last seen.
GiveUp(m) ==
  /\ boss[m].at = "waiting" /\ ~env.prompt
  /\ ~Observed(m).child /\ Observed(m).status \notin Final
  /\ marker' = marker \cup {boss[m].job}
  /\ boss' = [boss EXCEPT ![m] = [@ EXCEPT !.at = "failing", !.view = Observed(m)]]
  /\ UNCHANGED <<lock, index, rec, hand, around, repoVars>>

WriteFailure(m) ==
  /\ boss[m].at = "failing"
  /\ rec' = [rec EXCEPT ![boss[m].job] = [boss[m].view EXCEPT !.status = "failed"]]
  /\ boss' = [boss EXCEPT ![m] = Resting]
  /\ UNCHANGED <<lock, index, marker, hand, around, repoVars>>

\* The manager's process dies; another may serve the same store.
ManagerDies(m) ==
  /\ Happens
  /\ boss[m].at # "idle" /\ boss' = [boss EXCEPT ![m] = Resting]
  /\ UNCHANGED <<lock, index, rec, marker, hand, repoVars>>

\* cancel, cancel_active.
Cancel(j) ==
  /\ Happens
  /\ rec[j].status \in {"queued", "running"} /\ marker' = marker \cup {j}
  /\ UNCHANGED <<lock, index, rec, boss, hand, repoVars>>

-----------------------------------------------------------------------------
(* run_worker.                                                             *)

\* The worker goes on, and puts its copy of the record with changes.
Goes(w, from, to) == hand[w].at = from /\ hand' = [hand EXCEPT ![w].at = to]

Puts(w, from, to, view) ==
  /\ hand[w].at = from
  /\ hand' = [hand EXCEPT ![w] = [@ EXCEPT !.at = to, !.view = view]]
  /\ rec' = [rec EXCEPT ![hand[w].job] = view]

View(w, status) == [hand[w].view EXCEPT !.status = status]
Marked(w) == hand[w].job \in marker

Begin(w) ==
  /\ Puts(w, "begin", IF env.kind = "command" THEN "leasing" ELSE "leased",
          [status |-> "running", worker |-> w, child |-> FALSE])
  /\ UNCHANGED <<lock, index, marker, boss, around, repoVars>>

\* A busy repository is no reason to wait.
TakeLeaseOrNot(w) ==
  /\ Goes(w, "leasing", "leased") /\ ~Marked(w)
  /\ RepoAcquire(w) \/ (Conflict(w) /\ UNCHANGED repoVars)
  /\ UNCHANGED <<lock, index, rec, marker, boss, around>>

TakeLease(w) ==
  /\ Goes(w, "leasing", "leased") /\ ~Marked(w) /\ RepoAcquire(w)
  /\ UNCHANGED <<lock, index, rec, marker, boss, around>>

\* The repository stays busy until the deadline of the command.
StaysBusy(w) ==
  /\ Conflict(w) /\ Puts(w, "leasing", "leaving", View(w, "failed"))
  /\ UNCHANGED <<lock, index, marker, boss, around, repoVars>>

CancelledEarly(w) ==
  /\ Marked(w)
  /\ \E from \in {"leasing", "leased"} : Puts(w, from, "leaving", View(w, "cancelled"))
  /\ UNCHANGED <<lock, index, marker, boss, around, repoVars>>

Spawn(w) ==
  /\ hand[w].at = "leased" /\ ~Marked(w)
  /\ hand' = [hand EXCEPT ![w] = [@ EXCEPT !.at = "spawned", !.child = "running"]]
  /\ UNCHANGED <<lock, index, rec, marker, boss, around, repoVars>>

PublishChild(w) ==
  /\ Puts(w, "spawned", "watching", [hand[w].view EXCEPT !.child = TRUE])
  /\ UNCHANGED <<lock, index, marker, boss, around, repoVars>>

ChildEnds(w, result) ==
  /\ hand[w].child = "running" /\ hand' = [hand EXCEPT ![w].child = result]
  /\ UNCHANGED <<lock, index, rec, marker, boss, around, repoVars>>

Stopped(w) == IF hand[w].child = "running" THEN "killed" ELSE hand[w].child

\* Whatever poll() says is taken for an exit.
ChildIsDoneEarly(w) ==
  /\ hand[w].at = "watching"
  /\ hand' = [hand EXCEPT ![w] = [@ EXCEPT !.at = "ending", !.final = hand[w].child]]
  /\ UNCHANGED <<lock, index, rec, marker, boss, around, repoVars>>

ChildIsDone(w) ==
  /\ hand[w].at = "watching" /\ hand[w].child # "running"
  /\ hand' = [hand EXCEPT ![w] = [@ EXCEPT !.at = "ending", !.final = hand[w].child]]
  /\ UNCHANGED <<lock, index, rec, marker, boss, around, repoVars>>

\* The status is decided and the child left to end by itself.
StopLater(w, why) ==
  /\ hand[w].at = "watching" /\ (why = "cancelled" => Marked(w))
  /\ hand' = [hand EXCEPT ![w] = [@ EXCEPT !.at = "ending", !.final = why]]
  /\ UNCHANGED <<lock, index, rec, marker, boss, around, repoVars>>

\* Cancelled, or out of time; the child may have ended since the worker looked.
Stop(w, why) ==
  /\ hand[w].at = "watching" /\ (why = "cancelled" => Marked(w))
  /\ hand' = [hand EXCEPT ![w] = [@ EXCEPT !.at = "ending", !.final = why, !.child = Stopped(w)]]
  /\ UNCHANGED <<lock, index, rec, marker, boss, around, repoVars>>

WriteFinal(w) ==
  /\ Puts(w, "ending", "leaving", View(w, hand[w].final))
  /\ UNCHANGED <<lock, index, marker, boss, around, repoVars>>

\* Any exception: the child is stopped and the job failed.
Throw(w) ==
  /\ Happens
  /\ hand[w].at \in {"begin", "leasing", "leased", "spawned", "watching", "ending"}
  /\ LET view == IF hand[w].at = "begin" THEN [Queued EXCEPT !.status = "failed"]
                                         ELSE View(w, "failed")
     IN /\ hand' = [hand EXCEPT ![w] =
                      [@ EXCEPT !.at = "leaving", !.view = view, !.child = Stopped(w)]]
        /\ rec' = [rec EXCEPT ![hand[w].job] = view]
  /\ UNCHANGED <<lock, index, marker, boss, repoVars>>

\* The finally block: what release raises is swallowed.
Leave(w) ==
  /\ hand[w].at = "leaving"
  /\ hand' = [hand EXCEPT ![w] = [Unused EXCEPT !.at = "done", !.job = hand[w].job]]
  /\ IF NotMine(w) \/ grip[w] = 0 THEN RepoDie(w) ELSE RepoRelease(w)
  /\ UNCHANGED <<lock, index, rec, marker, boss, around>>

\* The worker is killed.  Its child goes with it only where a job object or the
\* same hand sees to that.
Kill(w) ==
  /\ Happens
  /\ Alive(w) /\ RepoDie(w)
  /\ \E fate \in {hand[w].child, Stopped(w)} :
       hand' = [hand EXCEPT ![w] = [Unused EXCEPT !.at = "killed", !.job = hand[w].job, !.child = fate]]
  /\ UNCHANGED <<lock, index, rec, marker, boss>>

ManagerStep(m) ==
  \/ UnlinkStale(m) \/ ReplayStart(m) \/ ChooseJob(m) \/ Enqueue(m)
  \/ (\E w \in Worker : Launch(m, w)) \/ LaunchFails(m)
  \/ StartIsReady(m) \/ WorkerIsGone(m) \/ GiveUp(m) \/ WriteFailure(m)

WorkerStep(w) ==
  \/ Begin(w) \/ TakeLease(w) \/ StaysBusy(w) \/ CancelledEarly(w) \/ Spawn(w)
  \/ PublishChild(w) \/ ChildIsDone(w) \/ Stop(w, "cancelled") \/ Stop(w, "timed_out")
  \/ WriteFinal(w) \/ Throw(w) \/ Leave(w)

Next ==
  \/ LockAges
  \/ \E m \in Manager :
       \/ \E k \in Key, s \in Workspace : Enter(m, k, s)
       \/ SeesStale(m) \/ ManagerStep(m) \/ ManagerDies(m)
  \/ \E j \in JobId : Cancel(j)
  \/ \E w \in Worker :
       \/ WorkerStep(w) \/ Kill(w)
       \/ \E result \in {"passed", "failed"} : ChildEnds(w, result)

Spec == Init /\ [][Next]_vars

-----------------------------------------------------------------------------
(* Properties.                                                             *)

\* Every variable stays in its domain.
JobsTypeOK ==
  LET Record == [status : {"none", "queued", "running"} \cup Final,
                 worker : Worker \cup {None}, child : BOOLEAN]
  IN /\ RepoTypeOK /\ events \in 0..MaxEvent
     /\ lock \in [by : Manager \cup {None}, old : BOOLEAN]
     /\ index \in [Key -> [job : JobId \cup {None}, space : Workspace \cup {None}]]
     /\ rec \in [JobId -> Record] /\ marker \subseteq JobId
     /\ boss \in [Manager -> [at : {"idle", "stale", "inside", "create", "launch", "waiting", "failing"},
                              key : Key \cup {None}, space : Workspace \cup {None},
                              job : JobId \cup {None}, worker : Worker \cup {None}, view : Record]]
     /\ hand \in [Worker -> [at : {"unused", "begin", "leasing", "leased", "spawned", "watching",
                                   "ending", "leaving", "done", "killed"},
                             job : JobId \cup {None},
                             child : {"none", "running", "passed", "failed", "killed"},
                             final : {"none"} \cup Final, view : Record]]

\* Two workers never share a job, its record and its cancel marker, however
\* starts, retries, crashed managers and returning workspaces interleave, as
\* long as no lock grows stale.
OneWorkerPerJob ==
  env.steady => \A v, w \in Worker :
    hand[v].job = hand[w].job /\ hand[v].job # None => v = w

\* A final status is final: no manager, worker or canceller replaces it later,
\* unless a manager gave up on a worker that was only slow.
FinalStatusStands ==
  [][env.steady /\ env.prompt =>
       \A j \in JobId : rec[j].status \in Final => rec'[j] = rec[j]]_vars

\* A job that is reported as over does not run on: its command has ended, unless
\* the worker was killed over the command's head.
OverMeansQuiet ==
  env.steady /\ env.prompt => \A w \in Worker :
    hand[w].child = "running" /\ Effective(hand[w].job) \in Final => hand[w].at = "killed"

\* A command job has the repository to itself: another command runs beside it
\* only if that one's worker was killed and left it behind.
OneCommandAtATime ==
  env.kind = "command" => \A v, w \in Worker :
    hand[v].child = "running" /\ hand[w].child = "running" /\ v # w =>
      "killed" \in {hand[v].at, hand[w].at}
=============================================================================
