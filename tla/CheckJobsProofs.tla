---------------------------- MODULE CheckJobsProofs ----------------------------
(* Theorems about CheckJobs, for every set of managers, workers, keys,      *)
(* workspaces and identifiers and every number of events.                   *)
EXTENDS CheckJobs, TLAPS

-----------------------------------------------------------------------------
(* The inductive invariants.                                               *)

Status == {"none", "queued", "running"} \cup Final
JobRecord == [status : Status, worker : Worker \cup {None}, child : BOOLEAN]
BossAt == {"idle", "stale", "inside", "create", "launch", "waiting", "failing"}
Boss ==
  [at : BossAt, key : Key \cup {None}, space : Workspace \cup {None}, job : JobId \cup {None},
   worker : Worker \cup {None}, view : JobRecord]
HandAt ==
  {"unused", "begin", "leasing", "leased", "spawned", "watching", "ending", "leaving", "done",
   "killed"}
Child == {"none", "running", "passed", "failed", "killed"}
Hand ==
  [at : HandAt, job : JobId \cup {None}, child : Child, final : {"none"} \cup Final,
   view : JobRecord]

\* A worker that has put its record and has not written the last one; one that
\* needs the lease of the repository.
Busy == {"leasing", "leased", "spawned", "watching", "ending"}
Holding == {"leased", "spawned", "watching", "ending"}

Typed ==
  /\ RepoTypeOK /\ events \in 0..MaxEvent
  /\ lock \in [by : Manager \cup {None}, old : BOOLEAN]
  /\ index \in [Key -> [job : JobId \cup {None}, space : Workspace \cup {None}]]
  /\ rec \in [JobId -> JobRecord] /\ marker \subseteq JobId
  /\ boss \in [Manager -> Boss] /\ hand \in [Worker -> Hand]

\* What a manager and a worker know where they are: the job they are about, which
\* has a record once it has a worker, and how far the child is.
BossPlace(m) ==
  /\ boss[m].at \in {"inside", "create", "launch"} =>
       boss[m].key \in Key /\ boss[m].space \in Workspace
  /\ boss[m].at \in {"create", "launch", "waiting", "failing"} => boss[m].job \in JobId
  /\ boss[m].at \in {"waiting", "failing"} =>
       /\ boss[m].worker \in Worker
       /\ hand[boss[m].worker].at # "unused" /\ hand[boss[m].worker].job = boss[m].job
  /\ boss[m].at = "launch" => rec[boss[m].job].status # "none"

HandPlace(w) ==
  /\ hand[w].at = "unused" => hand[w] = Unused
  /\ hand[w].at # "unused" => hand[w].job \in JobId /\ rec[hand[w].job].status # "none"
  /\ hand[w].at \in {"begin", "leasing", "leased", "done"} => hand[w].child = "none"
  /\ hand[w].at \in {"spawned", "watching"} => hand[w].child \in {"running", "passed", "failed"}
  /\ hand[w].at \in {"ending", "leaving"} => hand[w].child # "running"
  /\ hand[w].at = "ending" => hand[w].final \in Final
  /\ hand[w].at \in Busy => hand[w].view.status = "running" /\ hand[w].view.worker = w

JobsInv == Typed /\ (\A m \in Manager : BossPlace(m)) /\ (\A w \in Worker : HandPlace(w))

\* While no lock grows stale, whoever is inside holds it, and so is alone, and
\* the job that is being started is new: no worker has had it.
StartInv ==
  env.steady =>
    /\ ~lock.old
    /\ \A m \in Manager :
         /\ boss[m].at # "stale"
         /\ boss[m].at \in {"inside", "create", "launch"} => lock.by = m
         /\ boss[m].at = "create" => rec[boss[m].job].status = "none"
         /\ boss[m].at = "launch" =>
              /\ rec[boss[m].job] = Queued
              /\ \A w \in Worker : hand[w].at # "unused" => hand[w].job # boss[m].job
    /\ \A v, w \in Worker :
         hand[v].at # "unused" /\ hand[w].at # "unused" /\ hand[v].job = hand[w].job => v = w

\* A lease identifier is issued once, and a command runs under its worker's.
CommandInv ==
  /\ repoLease.id <= repoIssued
  /\ \A w \in Worker : grip[w] <= repoIssued
  /\ \A w \in Worker : grip[w] # 0 /\ grip[w] = repoLease.id => repoLease.owner = w
  /\ env.kind = "command" => \A w \in Worker :
       hand[w].at \in Holding =>
         repoLease.id # 0 /\ repoLease.owner = w /\ repoLease.process = "alive"

\* While managers do not give up either, the record is the copy its worker has.
RecordInv ==
  env.steady /\ env.prompt =>
    /\ \A m \in Manager : boss[m].at # "failing"
    /\ \A w \in Worker :
         /\ hand[w].at = "begin" => rec[hand[w].job] = Queued
         /\ hand[w].at \in Busy => rec[hand[w].job] = hand[w].view

LEMMA Parameters ==
  /\ Caller = Worker /\ Sibling = {} /\ Nobody \notin Worker /\ None \notin Manager
  /\ Marker \in BOOLEAN /\ MaxLease \in Nat /\ MaxEvent \in Nat
BY JobsAssumption, RepositoryLeaseAssumption

LEMMA TypedMeans == Typed <=> JobsTypeOK
BY DEF Typed, JobsTypeOK, JobRecord, Status, Boss, BossAt, Hand, HandAt, Child

-----------------------------------------------------------------------------
(* What the steps of a worker do.                                          *)

\* A worker changes nobody but itself and the record of its job.
WorkerEffect(w) ==
  /\ hand' \in [Worker -> Hand] /\ rec' \in [JobId -> JobRecord]
  /\ \A v \in Worker \ {w} : hand'[v] = hand[v]
  /\ \A j \in JobId \ {hand[w].job} : rec'[j] = rec[j]
  /\ hand[w].at # "unused" /\ hand'[w].at \notin {"unused", "begin"}
  /\ hand'[w].job = hand[w].job
  /\ rec' = rec \/ hand[w].at \in Busy \cup {"begin"}
  /\ hand'[w].at \in Busy =>
       \/ rec'[hand[w].job] = hand'[w].view
       \/ rec' = rec /\ hand[w].at \in Busy /\ hand'[w].view = hand[w].view
  /\ UNCHANGED <<lock, index, marker, boss, env>> /\ events' \in 0..MaxEvent

LEMMA HandMeans ==
  ASSUME Typed, NEW w \in Worker, NEW new \in Hand, hand' = [hand EXCEPT ![w] = new]
  PROVE  /\ hand' \in [Worker -> Hand] /\ hand'[w] = new
         /\ \A v \in Worker \ {w} : hand'[v] = hand[v]
BY DEF Typed

LEMMA RecordMeans ==
  ASSUME Typed, NEW j \in JobId, NEW new \in JobRecord, rec' = [rec EXCEPT ![j] = new]
  PROVE  /\ rec' \in [JobId -> JobRecord] /\ rec'[j] = new
         /\ \A i \in JobId \ {j} : rec'[i] = rec[i]
BY DEF Typed

\* What a worker is about.
LEMMA WorkerAt ==
  ASSUME JobsInv, NEW w \in Worker
  PROVE  /\ hand[w] \in Hand /\ HandPlace(w)
         /\ hand[w].view \in JobRecord /\ hand[w].child \in Child
         /\ rec \in [JobId -> JobRecord] /\ events \in 0..MaxEvent /\ Typed
BY DEF JobsInv, Typed, Hand

LEMMA ViewMeans ==
  ASSUME JobsInv, NEW w \in Worker, NEW status \in Status
  PROVE  View(w, status) \in JobRecord /\ View(w, status).status = status
BY WorkerAt DEF View, JobRecord

LEMMA PutsMeans ==
  ASSUME JobsInv, NEW w \in Worker, NEW from, NEW to \in HandAt, NEW view \in JobRecord,
         from # "unused", Puts(w, from, to, view)
  PROVE  /\ hand[w].at = from /\ hand[w].job \in JobId
         /\ hand' \in [Worker -> Hand] /\ rec' \in [JobId -> JobRecord]
         /\ \A v \in Worker \ {w} : hand'[v] = hand[v]
         /\ \A j \in JobId \ {hand[w].job} : rec'[j] = rec[j]
         /\ hand'[w].at = to /\ hand'[w].view = view /\ hand'[w].job = hand[w].job
         /\ hand'[w].child = hand[w].child /\ hand'[w].final = hand[w].final
         /\ rec'[hand[w].job] = view
<1> DEFINE new == [hand[w] EXCEPT !.at = to, !.view = view]
<1>1. hand[w] \in Hand /\ hand[w].job \in JobId /\ Typed /\ hand[w].at = from
  BY WorkerAt DEF Puts, HandPlace
<1>2. new \in Hand /\ new.at = to /\ new.view = view /\ new.job = hand[w].job
      /\ new.child = hand[w].child /\ new.final = hand[w].final
  BY <1>1 DEF Hand
<1>3. hand' = [hand EXCEPT ![w] = new] /\ rec' = [rec EXCEPT ![hand[w].job] = view]
  BY DEF Puts
<1> HIDE DEF new
<1>4. /\ hand' \in [Worker -> Hand] /\ hand'[w] = new
      /\ \A v \in Worker \ {w} : hand'[v] = hand[v]
  BY <1>1, <1>2, <1>3, HandMeans
<1>5. /\ rec' \in [JobId -> JobRecord] /\ rec'[hand[w].job] = view
      /\ \A j \in JobId \ {hand[w].job} : rec'[j] = rec[j]
  BY <1>1, <1>3, RecordMeans
<1> QED
  BY <1>1, <1>2, <1>4, <1>5

\* A worker that puts a record on its way from one place to the next.
LEMMA PutEffect ==
  ASSUME JobsInv, NEW w \in Worker, NEW from \in Busy \cup {"begin"},
         NEW to \in {"leasing", "leased", "watching", "leaving"}, NEW view \in JobRecord,
         Puts(w, from, to, view), UNCHANGED <<lock, index, marker, boss, env, events>>,
         view.status # "none",
         to # "leaving" => view.status = "running" /\ view.worker = w,
         to \in {"leasing", "leased"} => from \in {"begin", "leasing"},
         to = "watching" => from = "spawned",
         to = "leaving" => from \in {"leasing", "leased", "ending"}
  PROVE  WorkerEffect(w) /\ HandPlace(w)'
<1>1. HandPlace(w) /\ events \in 0..MaxEvent
  BY WorkerAt
<1>2. from # "unused" /\ to \in HandAt
  BY DEF Busy, HandAt
<1>3. /\ hand[w].at = from /\ hand[w].job \in JobId
      /\ hand' \in [Worker -> Hand] /\ rec' \in [JobId -> JobRecord]
      /\ \A v \in Worker \ {w} : hand'[v] = hand[v]
      /\ \A j \in JobId \ {hand[w].job} : rec'[j] = rec[j]
      /\ hand'[w].at = to /\ hand'[w].view = view /\ hand'[w].job = hand[w].job
      /\ hand'[w].child = hand[w].child /\ hand'[w].final = hand[w].final
      /\ rec'[hand[w].job] = view
  BY <1>2, PutsMeans
<1>4. WorkerEffect(w)
  BY <1>1, <1>2, <1>3 DEF WorkerEffect
<1>5. HandPlace(w)'
  BY <1>1, <1>3 DEF HandPlace, Busy
<1> QED
  BY <1>4, <1>5

\* The steps that put a record.
LEMMA PutSteps ==
  ASSUME JobsInv, NEW w \in Worker,
         Begin(w) \/ StaysBusy(w) \/ CancelledEarly(w) \/ PublishChild(w) \/ WriteFinal(w)
  PROVE  WorkerEffect(w) /\ HandPlace(w)'
<1>1. HandPlace(w) /\ hand[w].view \in JobRecord
  BY WorkerAt
<1>2. UNCHANGED <<lock, index, marker, boss, env, events>>
  BY DEF Begin, StaysBusy, CancelledEarly, PublishChild, WriteFinal, around
<1>3. CASE Begin(w)
  <2> DEFINE view == [status |-> "running", worker |-> w, child |-> FALSE]
             to == IF env.kind = "command" THEN "leasing" ELSE "leased"
  <2>1. view \in JobRecord /\ view.status = "running" /\ view.worker = w
    BY DEF JobRecord, Status
  <2>2. to \in {"leasing", "leased"}
    OBVIOUS
  <2>3. Puts(w, "begin", to, view)
    BY <1>3 DEF Begin
  <2> HIDE DEF view, to
  <2> QED
    BY <1>2, <2>1, <2>2, <2>3, PutEffect
<1>4. CASE StaysBusy(w) \/ CancelledEarly(w)
  <2>1. PICK status \in {"failed", "cancelled"}, from \in {"leasing", "leased"} :
          Puts(w, from, "leaving", View(w, status))
    BY <1>4 DEF StaysBusy, CancelledEarly
  <2>2. View(w, status) \in JobRecord /\ View(w, status).status # "none" /\ from \in Busy
    BY <2>1, ViewMeans DEF Status, Final, Busy
  <2> QED
    BY <1>2, <2>1, <2>2, PutEffect
<1>5. CASE PublishChild(w)
  <2> DEFINE view == [hand[w].view EXCEPT !.child = TRUE]
  <2>1. Puts(w, "spawned", "watching", view)
    BY <1>5 DEF PublishChild
  <2>2. view \in JobRecord /\ view.status = hand[w].view.status /\ view.worker = hand[w].view.worker
    BY <1>1 DEF JobRecord
  <2>3. hand[w].view.status = "running" /\ hand[w].view.worker = w
    BY <1>1, <2>1 DEF Puts, HandPlace, Busy
  <2> HIDE DEF view
  <2> QED
    BY <1>2, <2>1, <2>2, <2>3, PutEffect DEF Busy
<1>6. CASE WriteFinal(w)
  <2>1. Puts(w, "ending", "leaving", View(w, hand[w].final))
    BY <1>6 DEF WriteFinal
  <2>2. hand[w].final \in Final
    BY <1>1, <2>1 DEF Puts, HandPlace
  <2>3. View(w, hand[w].final) \in JobRecord /\ View(w, hand[w].final).status # "none"
    BY <2>2, ViewMeans DEF Status, Final
  <2> QED
    BY <1>2, <2>1, <2>3, PutEffect DEF Busy
<1> QED
  BY <1>3, <1>4, <1>5, <1>6

\* A worker that moves on and puts nothing.
LEMMA GoEffect ==
  ASSUME JobsInv, NEW w \in Worker, NEW new \in Hand, hand' = [hand EXCEPT ![w] = new],
         UNCHANGED <<lock, index, rec, marker, boss, env>>, events' \in 0..MaxEvent,
         hand[w].at # "unused", new.at \notin {"unused", "begin"}, new.job = hand[w].job,
         new.at \in Busy => hand[w].at \in Busy /\ new.view = hand[w].view,
         new.at \in {"leased", "done"} => new.child = "none",
         new.at \in {"spawned", "watching"} => new.child \in {"running", "passed", "failed"},
         new.at = "ending" => new.child # "running" /\ new.final \in Final,
         new.at \notin {"leasing", "leaving"}
  PROVE  WorkerEffect(w) /\ HandPlace(w)'
<1>1. HandPlace(w) /\ Typed /\ rec \in [JobId -> JobRecord]
  BY WorkerAt
<1>2. /\ hand' \in [Worker -> Hand] /\ hand'[w] = new
      /\ \A v \in Worker \ {w} : hand'[v] = hand[v]
  BY <1>1, HandMeans
<1>3. WorkerEffect(w)
  BY <1>1, <1>2 DEF WorkerEffect
<1>4. HandPlace(w)'
  BY <1>1, <1>2 DEF HandPlace, Busy
<1> QED
  BY <1>3, <1>4

LEMMA GoSteps ==
  ASSUME JobsInv, NEW w \in Worker,
         \/ TakeLease(w) \/ Spawn(w) \/ ChildIsDone(w) \/ Leave(w)
         \/ \E why \in {"cancelled", "timed_out"} : Stop(w, why)
  PROVE  WorkerEffect(w) /\ HandPlace(w)'
<1>1. /\ HandPlace(w) /\ hand[w] \in Hand /\ hand[w].child \in Child
      /\ hand[w].view \in JobRecord /\ hand[w].job \in JobId \cup {None}
  BY WorkerAt DEF Hand
<1>2. UNCHANGED <<lock, index, rec, marker, boss, env>> /\ events' \in 0..MaxEvent
  BY WorkerAt DEF TakeLease, Spawn, ChildIsDone, Leave, Stop, around
<1>3. CASE TakeLease(w)
  <2> DEFINE new == [hand[w] EXCEPT !.at = "leased"]
  <2>1. hand' = [hand EXCEPT ![w] = new] /\ hand[w].at = "leasing"
    BY <1>3 DEF TakeLease, Goes
  <2>2. /\ new \in Hand /\ new.at = "leased" /\ new.job = hand[w].job /\ new.view = hand[w].view
        /\ new.child = hand[w].child
    BY <1>1 DEF Hand, HandAt
  <2>3. hand[w].child = "none"
    BY <1>1, <2>1 DEF HandPlace
  <2> HIDE DEF new
  <2> QED
    BY <1>2, <2>1, <2>2, <2>3, GoEffect DEF Busy
<1>4. CASE Spawn(w)
  <2> DEFINE new == [hand[w] EXCEPT !.at = "spawned", !.child = "running"]
  <2>1. hand' = [hand EXCEPT ![w] = new] /\ hand[w].at = "leased"
    BY <1>4 DEF Spawn
  <2>2. /\ new \in Hand /\ new.at = "spawned" /\ new.job = hand[w].job /\ new.view = hand[w].view
        /\ new.child = "running"
    BY <1>1 DEF Hand, HandAt, Child
  <2> HIDE DEF new
  <2> QED
    BY <1>2, <2>1, <2>2, GoEffect DEF Busy
<1>5. CASE ChildIsDone(w)
  <2> DEFINE new == [hand[w] EXCEPT !.at = "ending", !.final = hand[w].child]
  <2>1. hand' = [hand EXCEPT ![w] = new] /\ hand[w].at = "watching" /\ hand[w].child # "running"
    BY <1>5 DEF ChildIsDone
  <2>2. hand[w].child \in Final
    BY <1>1, <2>1 DEF HandPlace, Final
  <2>3. /\ new \in Hand /\ new.at = "ending" /\ new.job = hand[w].job /\ new.view = hand[w].view
        /\ new.child = hand[w].child /\ new.final = hand[w].child
    BY <1>1, <2>2 DEF Hand, HandAt
  <2> HIDE DEF new
  <2> QED
    BY <1>2, <2>1, <2>2, <2>3, GoEffect DEF Busy
<1>6. ASSUME NEW why \in {"cancelled", "timed_out"}, Stop(w, why)
      PROVE  WorkerEffect(w) /\ HandPlace(w)'
  <2> DEFINE new == [hand[w] EXCEPT !.at = "ending", !.final = why, !.child = Stopped(w)]
  <2>1. hand' = [hand EXCEPT ![w] = new] /\ hand[w].at = "watching"
    BY <1>6 DEF Stop
  <2>2. Stopped(w) \in Child /\ Stopped(w) # "running" /\ why \in Final
    BY <1>1 DEF Stopped, Child, Final
  <2>3. /\ new \in Hand /\ new.at = "ending" /\ new.job = hand[w].job /\ new.view = hand[w].view
        /\ new.child = Stopped(w) /\ new.final = why
    BY <1>1, <2>2 DEF Hand, HandAt
  <2> HIDE DEF new
  <2> QED
    BY <1>2, <2>1, <2>2, <2>3, GoEffect DEF Busy
<1>7. CASE Leave(w)
  <2> DEFINE new == [Unused EXCEPT !.at = "done", !.job = hand[w].job]
  <2>1. hand' = [hand EXCEPT ![w] = new] /\ hand[w].at = "leaving"
    BY <1>7 DEF Leave
  <2>2. new \in Hand /\ new.at = "done" /\ new.job = hand[w].job /\ new.child = "none"
    BY <1>1 DEF Hand, HandAt, Child, Unused, NoRecord, JobRecord, Status
  <2> HIDE DEF new
  <2> QED
    BY <1>2, <2>1, <2>2, GoEffect DEF Busy
<1> QED
  BY <1>3, <1>4, <1>5, <1>6, <1>7

\* What happens to a worker: its child ends, something is thrown, it is killed.
LEMMA FateSteps ==
  ASSUME JobsInv, NEW w \in Worker,
         Throw(w) \/ Kill(w) \/ \E result \in {"passed", "failed"} : ChildEnds(w, result)
  PROVE  WorkerEffect(w) /\ HandPlace(w)'
<1>1. /\ HandPlace(w) /\ hand[w] \in Hand /\ hand[w].child \in Child /\ Typed
      /\ hand[w].view \in JobRecord /\ hand[w].job \in JobId \cup {None}
      /\ rec \in [JobId -> JobRecord] /\ events \in 0..MaxEvent /\ hand[w].at \in HandAt
  BY WorkerAt DEF Hand
<1>2. Happens => events' \in 0..MaxEvent /\ UNCHANGED env
  BY <1>1, Parameters DEF Happens
<1>3. Stopped(w) \in Child /\ Stopped(w) # "running"
  BY <1>1 DEF Stopped, Child
<1>4. CASE Throw(w)
  <2> DEFINE view == IF hand[w].at = "begin" THEN [Queued EXCEPT !.status = "failed"]
                                             ELSE View(w, "failed")
             new == [hand[w] EXCEPT !.at = "leaving", !.view = view, !.child = Stopped(w)]
  <2>1. /\ hand' = [hand EXCEPT ![w] = new] /\ rec' = [rec EXCEPT ![hand[w].job] = view]
        /\ hand[w].at \in Busy \cup {"begin"} /\ UNCHANGED <<lock, index, marker, boss, env>>
        /\ events' \in 0..MaxEvent
    BY <1>2, <1>4 DEF Throw, Busy
  <2>2. view \in JobRecord /\ view.status = "failed"
    <3>1. View(w, "failed") \in JobRecord /\ View(w, "failed").status = "failed"
      BY ViewMeans DEF Status, Final
    <3>2. /\ [Queued EXCEPT !.status = "failed"] \in JobRecord
          /\ [Queued EXCEPT !.status = "failed"].status = "failed"
      BY DEF Queued, NoRecord, JobRecord, Status, Final
    <3> QED
      BY <3>1, <3>2
  <2> HIDE DEF view
  <2>3. /\ new \in Hand /\ new.at = "leaving" /\ new.job = hand[w].job /\ new.child = Stopped(w)
    BY <1>1, <1>3, <2>2 DEF Hand, HandAt
  <2> HIDE DEF new
  <2>4. /\ hand' \in [Worker -> Hand] /\ hand'[w] = new
        /\ \A v \in Worker \ {w} : hand'[v] = hand[v]
    BY <1>1, <2>1, <2>3, HandMeans
  <2>5. hand[w].at # "unused" /\ hand[w].job \in JobId
    BY <1>1, <2>1 DEF HandPlace, Busy
  <2>6. /\ rec' \in [JobId -> JobRecord] /\ rec'[hand[w].job] = view
        /\ \A j \in JobId \ {hand[w].job} : rec'[j] = rec[j]
    BY <1>1, <2>1, <2>2, <2>5, RecordMeans
  <2>7. WorkerEffect(w)
    BY <2>1, <2>3, <2>4, <2>5, <2>6 DEF WorkerEffect, Busy
  <2>8. HandPlace(w)'
    BY <1>3, <2>2, <2>3, <2>4, <2>5, <2>6 DEF HandPlace, Busy
  <2> QED
    BY <2>7, <2>8
<1>5. CASE Kill(w)
  <2>1. PICK fate \in {hand[w].child, Stopped(w)} :
          hand' = [hand EXCEPT ![w] = [Unused EXCEPT !.at = "killed", !.job = hand[w].job, !.child = fate]]
    BY <1>5 DEF Kill
  <2> DEFINE new == [Unused EXCEPT !.at = "killed", !.job = hand[w].job, !.child = fate]
  <2>2. new \in Hand /\ new.at = "killed" /\ new.job = hand[w].job
    BY <1>1, <1>3, <2>1 DEF Hand, HandAt, Child, Unused, NoRecord, JobRecord, Status
  <2>3. /\ hand' = [hand EXCEPT ![w] = new] /\ hand[w].at # "unused"
        /\ UNCHANGED <<lock, index, rec, marker, boss, env>> /\ events' \in 0..MaxEvent
    BY <1>2, <1>5, <2>1 DEF Kill, Alive
  <2> HIDE DEF new
  <2> QED
    BY <2>2, <2>3, GoEffect DEF Busy
<1>6. ASSUME NEW result \in {"passed", "failed"}, ChildEnds(w, result)
      PROVE  WorkerEffect(w) /\ HandPlace(w)'
  <2> DEFINE new == [hand[w] EXCEPT !.child = result]
  <2>1. /\ hand' = [hand EXCEPT ![w] = new] /\ hand[w].child = "running"
        /\ UNCHANGED <<lock, index, rec, marker, boss, env>> /\ events' = events
    BY <1>6 DEF ChildEnds, around
  <2>2. /\ new \in Hand /\ new.at = hand[w].at /\ new.job = hand[w].job /\ new.view = hand[w].view
        /\ new.child = result
    BY <1>1 DEF Hand, Child
  <2>3. hand[w].at \in {"spawned", "watching", "killed"}
    BY <1>1, <2>1 DEF HandPlace, HandAt, Unused
  <2> HIDE DEF new
  <2> QED
    BY <1>1, <2>1, <2>2, <2>3, GoEffect DEF Busy
<1> QED
  BY <1>4, <1>5, <1>6

-----------------------------------------------------------------------------
(* What the steps of a manager do.                                         *)

\* A manager that is through with a start, or sees that it will not be: what it
\* may have replaced is the record of its job.
Ends(m) ==
  /\ boss'[m].at \in {"idle", "failing"} /\ (boss'[m].at = "failing" => ~env.prompt)
  /\ hand' = hand
  /\ lock' = lock \/ (boss[m].at \in {"stale", "inside", "launch"} /\ lock' = Unlocked)
  /\ \A j \in JobId :
       rec'[j] # rec[j] =>
         /\ j = boss[m].job
         /\ \/ boss[m].at \in {"launch", "failing"}
            \/ /\ boss[m].at = "waiting" /\ rec[j].status \notin Final
               /\ ~Alive(boss[m].worker)

\* One that goes in, chooses, writes the record, and launches the worker.
GoesIn(m) ==
  /\ lock.by = None /\ lock'.by = m /\ ~lock'.old /\ boss'[m].at = "inside"
  /\ UNCHANGED <<rec, hand>>

Chooses(m) ==
  /\ boss[m].at = "inside" /\ boss'[m].at = "create" /\ rec[boss'[m].job].status = "none"
  /\ UNCHANGED <<lock, rec, hand>>

Writes(m) ==
  /\ boss[m].at = "create" /\ boss'[m].at = "launch" /\ boss'[m].job = boss[m].job
  /\ rec'[boss[m].job] = Queued /\ (\A j \in JobId \ {boss[m].job} : rec'[j] = rec[j])
  /\ UNCHANGED <<lock, hand>>

Launches(m, w) ==
  /\ boss[m].at = "launch" /\ boss'[m].at \in {"idle", "waiting"}
  /\ hand[w].at = "unused" /\ hand'[w].at = "begin" /\ hand'[w].job = boss[m].job
  /\ (\A v \in Worker \ {w} : hand'[v] = hand[v])
  /\ lock' = Unlocked /\ rec' = rec

ManagerEffect(m) ==
  /\ \A n \in Manager \ {m} : boss'[n] = boss[n]
  /\ env' = env /\ repoVars' = repoVars
  /\ \/ Ends(m) \/ GoesIn(m) \/ Chooses(m) \/ Writes(m)
     \/ \E w \in Worker : Launches(m, w)
     \/ lock.old /\ boss'[m].at = "stale" /\ UNCHANGED <<lock, rec, hand>>

ManagerTyped(m) ==
  /\ boss' \in [Manager -> Boss] /\ rec' \in [JobId -> JobRecord] /\ hand' \in [Worker -> Hand]
  /\ lock' \in [by : Manager \cup {None}, old : BOOLEAN]
  /\ index' \in [Key -> [job : JobId \cup {None}, space : Workspace \cup {None}]]
  /\ marker' \subseteq JobId /\ events' \in 0..MaxEvent
  /\ BossPlace(m)'
  /\ \A j \in JobId : rec[j].status # "none" => rec'[j].status # "none"
  /\ \A w \in Worker : hand[w].at # "unused" => hand'[w] = hand[w]
  /\ \A w \in Worker : hand'[w] # hand[w] => HandPlace(w)'

LEMMA Records ==
  /\ NoRecord \in JobRecord /\ NoRecord.status = "none"
  /\ Queued \in JobRecord /\ Queued.status = "queued"
  /\ [Queued EXCEPT !.status = "failed"] \in JobRecord
  /\ [Queued EXCEPT !.status = "failed"].status = "failed"
  /\ Resting \in Boss /\ Resting.at = "idle"
  /\ Unused \in Hand /\ Unused.at = "unused" /\ Unused.job = None
  /\ Unlocked \in [by : Manager \cup {None}, old : BOOLEAN] /\ Unlocked.by = None /\ ~Unlocked.old
BY DEF Queued, NoRecord, JobRecord, Status, Final, Resting, Boss, BossAt, Unused, Hand, HandAt,
       Child, Unlocked

LEMMA BossMeans ==
  ASSUME Typed, NEW m \in Manager, NEW new \in Boss, boss' = [boss EXCEPT ![m] = new]
  PROVE  /\ boss' \in [Manager -> Boss] /\ boss'[m] = new
         /\ \A n \in Manager \ {m} : boss'[n] = boss[n]
BY DEF Typed

LEMMA BossRests ==
  ASSUME Typed, NEW m \in Manager, boss' = [boss EXCEPT ![m] = Resting]
  PROVE  /\ boss' \in [Manager -> Boss] /\ boss'[m].at = "idle"
         /\ \A n \in Manager \ {m} : boss'[n] = boss[n]
BY Records, BossMeans

\* What a manager is about.
LEMMA ManagerAt ==
  ASSUME JobsInv, NEW m \in Manager
  PROVE  /\ Typed /\ BossPlace(m) /\ boss[m] \in Boss /\ boss[m].view \in JobRecord
         /\ rec \in [JobId -> JobRecord] /\ hand \in [Worker -> Hand] /\ events \in 0..MaxEvent
         /\ lock \in [by : Manager \cup {None}, old : BOOLEAN] /\ marker \subseteq JobId
         /\ index \in [Key -> [job : JobId \cup {None}, space : Workspace \cup {None}]]
BY DEF JobsInv, Typed, Boss

LEMMA EventsMeans ==
  ASSUME events \in 0..MaxEvent, UNCHANGED events \/ Happens
  PROVE  events' \in 0..MaxEvent
BY Parameters DEF Happens

\* The steps that leave the records and the workers alone.
LEMMA ManagerSteps ==
  ASSUME JobsInv, NEW m \in Manager,
         \/ \E k \in Key, s \in Workspace : Enter(m, k, s)
         \/ SeesStale(m) \/ UnlinkStale(m) \/ ReplayStart(m) \/ ChooseJob(m)
         \/ StartIsReady(m) \/ GiveUp(m) \/ ManagerDies(m)
  PROVE  ManagerTyped(m) /\ ManagerEffect(m)
<1>1. /\ Typed /\ BossPlace(m) /\ boss[m] \in Boss
      /\ rec \in [JobId -> JobRecord] /\ hand \in [Worker -> Hand] /\ events \in 0..MaxEvent
      /\ lock \in [by : Manager \cup {None}, old : BOOLEAN] /\ marker \subseteq JobId
      /\ index \in [Key -> [job : JobId \cup {None}, space : Workspace \cup {None}]]
  BY ManagerAt
<1>2. /\ UNCHANGED <<index, rec, hand, env, repoVars>> /\ events' \in 0..MaxEvent
  <2>1. UNCHANGED <<index, rec, hand, env, repoVars>> /\ (UNCHANGED events \/ Happens)
    BY DEF Enter, SeesStale, UnlinkStale, ReplayStart, ChooseJob, StartIsReady, GiveUp,
       ManagerDies, around, Happens
  <2> QED
    BY <1>1, <2>1, EventsMeans
<1>3. ASSUME NEW new \in Boss, boss' = [boss EXCEPT ![m] = new],
             lock' \in [by : Manager \cup {None}, old : BOOLEAN], marker' \subseteq JobId,
             BossPlace(m)'
      PROVE  ManagerTyped(m) /\ boss'[m] = new /\ \A n \in Manager \ {m} : boss'[n] = boss[n]
  <2>1. /\ boss' \in [Manager -> Boss] /\ boss'[m] = new
        /\ \A n \in Manager \ {m} : boss'[n] = boss[n]
    BY <1>1, <1>3, BossMeans
  <2> QED
    BY <1>1, <1>2, <1>3, <2>1 DEF ManagerTyped
<1>4. ASSUME boss' = [boss EXCEPT ![m] = Resting], marker' \subseteq JobId,
             lock' = lock \/ (boss[m].at \in {"stale", "inside", "launch"} /\ lock' = Unlocked)
      PROVE  ManagerTyped(m) /\ ManagerEffect(m)
  <2>1. boss'[m].at = "idle"
    BY <1>1, <1>4, BossRests
  <2>2. BossPlace(m)' /\ Ends(m)
    BY <1>2, <1>4, <2>1 DEF BossPlace, Ends
  <2>3. lock' \in [by : Manager \cup {None}, old : BOOLEAN]
    BY <1>1, <1>4, Records
  <2> QED
    BY <1>2, <1>3, <1>4, <2>2, <2>3, Records DEF ManagerEffect
<1>5. CASE UnlinkStale(m) \/ ReplayStart(m) \/ StartIsReady(m) \/ ManagerDies(m)
  BY <1>1, <1>4, <1>5 DEF UnlinkStale, ReplayStart, StartIsReady, ManagerDies
<1>6. ASSUME NEW k \in Key, NEW s \in Workspace, Enter(m, k, s)
      PROVE  ManagerTyped(m) /\ ManagerEffect(m)
  <2> DEFINE new == [Resting EXCEPT !.at = "inside", !.key = k, !.space = s]
  <2>1. /\ boss' = [boss EXCEPT ![m] = new] /\ lock' = [Unlocked EXCEPT !.by = m]
        /\ lock.by = None /\ marker' = marker
    BY <1>6 DEF Enter
  <2>2. new \in Boss /\ new.at = "inside" /\ new.key = k /\ new.space = s
    BY Records DEF Boss, BossAt, Resting
  <2>3. /\ lock' \in [by : Manager \cup {None}, old : BOOLEAN]
        /\ lock'.by = m /\ ~lock'.old
    BY <2>1 DEF Unlocked
  <2> HIDE DEF new
  <2>4. boss'[m] = new
    BY <1>1, <2>1, <2>2, BossMeans
  <2>5. BossPlace(m)' /\ GoesIn(m)
    BY <1>2, <2>1, <2>2, <2>3, <2>4 DEF BossPlace, GoesIn
  <2> QED
    BY <1>1, <1>2, <1>3, <2>1, <2>2, <2>3, <2>5 DEF ManagerEffect
<1>7. CASE SeesStale(m)
  <2> DEFINE new == [boss[m] EXCEPT !.at = "stale"]
  <2>1. /\ boss' = [boss EXCEPT ![m] = new] /\ lock' = lock /\ lock.old /\ marker' = marker
    BY <1>7 DEF SeesStale
  <2>2. new \in Boss /\ new.at = "stale"
    BY <1>1 DEF Boss, BossAt
  <2> HIDE DEF new
  <2>3. boss'[m] = new
    BY <1>1, <2>1, <2>2, BossMeans
  <2>4. BossPlace(m)'
    BY <2>2, <2>3 DEF BossPlace
  <2> QED
    BY <1>1, <1>2, <1>3, <2>1, <2>2, <2>3, <2>4 DEF ManagerEffect
<1>8. CASE ChooseJob(m)
  <2>1. PICK j \in FreeId(boss[m].key, boss[m].space) :
          boss' = [boss EXCEPT ![m] = [boss[m] EXCEPT !.at = "create", !.job = j]]
    BY <1>8 DEF ChooseJob
  <2>2. boss[m].at = "inside" /\ boss[m].key \in Key /\ boss[m].space \in Workspace
    BY <1>1, <1>8 DEF ChooseJob, BossPlace
  <2>3. j \in JobId /\ rec[j].status = "none"
    BY <2>1, <2>2 DEF FreeId, JobId
  <2> DEFINE new == [boss[m] EXCEPT !.at = "create", !.job = j]
  <2>4. /\ new \in Boss /\ new.at = "create" /\ new.job = j /\ new.key = boss[m].key
        /\ new.space = boss[m].space
    BY <1>1, <2>3 DEF Boss, BossAt
  <2>5. boss' = [boss EXCEPT ![m] = new] /\ lock' = lock /\ marker' = marker
    BY <1>8, <2>1 DEF ChooseJob
  <2> HIDE DEF new
  <2>6. boss'[m] = new
    BY <1>1, <2>4, <2>5, BossMeans
  <2>7. BossPlace(m)' /\ Chooses(m)
    BY <1>2, <2>2, <2>3, <2>4, <2>5, <2>6 DEF BossPlace, Chooses
  <2> QED
    BY <1>1, <1>2, <1>3, <2>4, <2>5, <2>7 DEF ManagerEffect
<1>9. CASE GiveUp(m)
  <2> DEFINE new == [boss[m] EXCEPT !.at = "failing", !.view = Observed(m)]
  <2>1. /\ boss' = [boss EXCEPT ![m] = new] /\ lock' = lock /\ ~env.prompt
        /\ marker' = marker \cup {boss[m].job} /\ boss[m].at = "waiting"
    BY <1>9 DEF GiveUp
  <2>2. /\ boss[m].job \in JobId /\ boss[m].worker \in Worker
        /\ hand[boss[m].worker].at # "unused" /\ hand[boss[m].worker].job = boss[m].job
    BY <1>1, <2>1 DEF BossPlace
  <2>3. Observed(m) \in JobRecord
    BY <1>1, <2>2 DEF Observed
  <2>4. /\ new \in Boss /\ new.at = "failing" /\ new.job = boss[m].job
        /\ new.worker = boss[m].worker
    BY <1>1, <2>3 DEF Boss, BossAt
  <2> HIDE DEF new
  <2>5. boss'[m] = new
    BY <1>1, <2>1, <2>4, BossMeans
  <2>6. BossPlace(m)' /\ Ends(m)
    BY <1>2, <2>1, <2>2, <2>4, <2>5 DEF BossPlace, Ends
  <2>7. marker' \subseteq JobId
    BY <1>1, <2>1, <2>2
  <2> QED
    BY <1>1, <1>2, <1>3, <2>1, <2>4, <2>6, <2>7 DEF ManagerEffect
<1> QED
  BY <1>5, <1>6, <1>7, <1>8, <1>9

\* The steps that write a record or launch a worker.
LEMMA ManagerWrites ==
  ASSUME JobsInv, NEW m \in Manager,
         \/ Enqueue(m) \/ LaunchFails(m) \/ WorkerIsGone(m) \/ WriteFailure(m)
         \/ \E w \in Worker : Launch(m, w)
  PROVE  ManagerTyped(m) /\ ManagerEffect(m)
<1>1. /\ Typed /\ BossPlace(m) /\ boss[m] \in Boss /\ boss[m].view \in JobRecord
      /\ rec \in [JobId -> JobRecord] /\ hand \in [Worker -> Hand] /\ events \in 0..MaxEvent
      /\ lock \in [by : Manager \cup {None}, old : BOOLEAN] /\ marker \subseteq JobId
      /\ index \in [Key -> [job : JobId \cup {None}, space : Workspace \cup {None}]]
  BY ManagerAt
<1>2. /\ UNCHANGED <<marker, env, repoVars>> /\ events' \in 0..MaxEvent /\ boss[m].job \in JobId
  <2>1. UNCHANGED <<marker, env, repoVars>> /\ (UNCHANGED events \/ Happens)
    BY DEF Enqueue, LaunchFails, WorkerIsGone, WriteFailure, Launch, around, Happens
  <2>2. boss[m].at \in {"create", "launch", "waiting", "failing"}
    BY DEF Enqueue, LaunchFails, WorkerIsGone, WriteFailure, Launch
  <2>3. boss[m].job \in JobId
    BY <1>1, <2>2 DEF BossPlace
  <2> QED
    BY <1>1, <2>1, <2>3, EventsMeans
<1>3. ASSUME NEW r \in JobRecord, r.status # "none", rec' = [rec EXCEPT ![boss[m].job] = r],
             boss' = [boss EXCEPT ![m] = Resting], hand' = hand, index' = index,
             \/ lock' = lock
             \/ boss[m].at \in {"stale", "inside", "launch"} /\ lock' = Unlocked,
             \/ boss[m].at \in {"launch", "failing"}
             \/ /\ boss[m].at = "waiting" /\ rec[boss[m].job].status \notin Final
                /\ ~Alive(boss[m].worker)
      PROVE  ManagerTyped(m) /\ ManagerEffect(m)
  <2>1. /\ boss' \in [Manager -> Boss] /\ boss'[m].at = "idle"
        /\ \A n \in Manager \ {m} : boss'[n] = boss[n]
    BY <1>1, <1>3, BossRests
  <2>2. /\ rec' \in [JobId -> JobRecord] /\ rec'[boss[m].job] = r
        /\ \A j \in JobId \ {boss[m].job} : rec'[j] = rec[j]
    BY <1>1, <1>2, <1>3, RecordMeans
  <2>3. BossPlace(m)'
    BY <2>1 DEF BossPlace
  <2>4. Ends(m)
    BY <1>3, <2>1, <2>2 DEF Ends
  <2>5. lock' \in [by : Manager \cup {None}, old : BOOLEAN]
    BY <1>1, <1>3, Records
  <2> QED
    BY <1>1, <1>2, <1>3, <2>1, <2>2, <2>3, <2>4, <2>5 DEF ManagerTyped, ManagerEffect
<1>4. CASE LaunchFails(m)
  BY <1>3, <1>4, Records DEF LaunchFails
<1>5. CASE WorkerIsGone(m)
  <2> DEFINE r == [rec[boss[m].job] EXCEPT !.status = "failed"]
  <2>1. r \in JobRecord /\ r.status # "none"
    BY <1>1, <1>2 DEF JobRecord, Status, Final
  <2>2. rec' = [rec EXCEPT ![boss[m].job] = r]
    BY <1>5 DEF WorkerIsGone
  <2> HIDE DEF r
  <2> QED
    BY <1>3, <1>5, <2>1, <2>2 DEF WorkerIsGone, Observed
<1>6. CASE WriteFailure(m)
  <2> DEFINE r == [boss[m].view EXCEPT !.status = "failed"]
  <2>1. r \in JobRecord /\ r.status # "none"
    BY <1>1 DEF JobRecord, Status, Final
  <2>2. rec' = [rec EXCEPT ![boss[m].job] = r]
    BY <1>6 DEF WriteFailure
  <2> HIDE DEF r
  <2> QED
    BY <1>3, <1>6, <2>1, <2>2 DEF WriteFailure
<1>7. CASE Enqueue(m)
  <2> DEFINE new == [boss[m] EXCEPT !.at = "launch"]
  <2>1. /\ boss' = [boss EXCEPT ![m] = new] /\ lock' = lock /\ hand' = hand /\ boss[m].at = "create"
        /\ rec' = [rec EXCEPT ![boss[m].job] = Queued]
        /\ index' = [index EXCEPT ![boss[m].key] = [job |-> boss[m].job, space |-> boss[m].space]]
    BY <1>7 DEF Enqueue
  <2>2. boss[m].key \in Key /\ boss[m].space \in Workspace
    BY <1>1, <2>1 DEF BossPlace
  <2>3. index' \in [Key -> [job : JobId \cup {None}, space : Workspace \cup {None}]]
    BY <1>1, <1>2, <2>1, <2>2
  <2>4. /\ new \in Boss /\ new.at = "launch" /\ new.job = boss[m].job
        /\ new.key = boss[m].key /\ new.space = boss[m].space
    BY <1>1 DEF Boss, BossAt
  <2> HIDE DEF new
  <2>5. /\ boss' \in [Manager -> Boss] /\ boss'[m] = new
        /\ \A n \in Manager \ {m} : boss'[n] = boss[n]
    BY <1>1, <2>1, <2>4, BossMeans
  <2>6. /\ rec' \in [JobId -> JobRecord] /\ rec'[boss[m].job] = Queued
        /\ \A j \in JobId \ {boss[m].job} : rec'[j] = rec[j]
    BY <1>1, <1>2, <2>1, Records, RecordMeans
  <2>7. BossPlace(m)'
    BY <1>2, <2>2, <2>4, <2>5, <2>6, Records DEF BossPlace
  <2>8. Writes(m)
    BY <2>1, <2>4, <2>5, <2>6 DEF Writes
  <2>9. \A j \in JobId : rec[j].status # "none" => rec'[j].status # "none"
    BY <2>6, Records
  <2> QED
    BY <1>1, <1>2, <2>1, <2>3, <2>5, <2>6, <2>7, <2>8, <2>9 DEF ManagerTyped, ManagerEffect
<1>8. ASSUME NEW w \in Worker, Launch(m, w)
      PROVE  ManagerTyped(m) /\ ManagerEffect(m)
  <2> DEFINE job == boss[m].job
             rest == [Resting EXCEPT !.at = "waiting", !.job = job, !.worker = w]
             next == IF env.kind = "check" THEN rest ELSE Resting
             new == [Unused EXCEPT !.at = "begin", !.job = job]
  <2>1. /\ boss' = [boss EXCEPT ![m] = next] /\ hand' = [hand EXCEPT ![w] = new]
        /\ boss[m].at = "launch" /\ hand[w].at = "unused"
        /\ lock' = Unlocked /\ UNCHANGED <<index, rec>>
    BY <1>8 DEF Launch
  <2>2. rest \in Boss /\ rest.at = "waiting" /\ rest.job = job /\ rest.worker = w
    BY <1>2, Records DEF Boss, BossAt, Resting
  <2>3. /\ next \in Boss /\ next.at \in {"idle", "waiting"}
        /\ next.at = "waiting" => next.job = job /\ next.worker = w
    BY <2>2, Records
  <2>4. new \in Hand /\ new.at = "begin" /\ new.job = job /\ new.child = "none"
    BY <1>2, Records DEF Hand, HandAt, Unused
  <2>5. rec[job].status # "none" /\ job \in JobId
    BY <1>1, <1>2, <2>1 DEF BossPlace
  <2> HIDE DEF next, new, rest
  <2>6. /\ boss' \in [Manager -> Boss] /\ boss'[m] = next
        /\ \A n \in Manager \ {m} : boss'[n] = boss[n]
    BY <1>1, <2>1, <2>3, BossMeans
  <2>7. /\ hand' \in [Worker -> Hand] /\ hand'[w] = new
        /\ \A v \in Worker \ {w} : hand'[v] = hand[v]
    BY <1>1, <2>1, <2>4, HandMeans
  <2>8. BossPlace(m)'
    BY <2>3, <2>4, <2>5, <2>6, <2>7 DEF BossPlace
  <2>9. HandPlace(w)'
    BY <2>1, <2>4, <2>5, <2>7 DEF HandPlace, Busy
  <2>10. Launches(m, w)
    BY <2>1, <2>3, <2>4, <2>6, <2>7 DEF Launches
  <2>11. ManagerTyped(m)
    BY <1>1, <1>2, <2>1, <2>6, <2>7, <2>8, <2>9, Records DEF ManagerTyped
  <2> QED
    BY <1>2, <2>6, <2>10, <2>11 DEF ManagerEffect
<1> QED
  BY <1>4, <1>5, <1>6, <1>7, <1>8

-----------------------------------------------------------------------------
(* Types and places.                                                       *)

\* What a worker's step does to the lease of the repository.
LeaseEffect(w) ==
  \/ /\ repoVars' = repoVars
     /\ hand'[w].at \in Holding => hand[w].at \in Holding \/ env.kind # "command"
  \/ RepoAcquire(w)
  \/ hand'[w].at \notin Holding /\ RepoDie(w)
  \/ hand'[w].at \notin Holding /\ grip[w] # 0 /\ RepoRelease(w)

LEMMA WorkerMeans ==
  ASSUME JobsInv, NEW w \in Worker,
         WorkerStep(w) \/ Kill(w) \/ \E result \in {"passed", "failed"} : ChildEnds(w, result)
  PROVE  WorkerEffect(w) /\ HandPlace(w)' /\ LeaseEffect(w)
<1>1. hand \in [Worker -> Hand] /\ hand[w] \in Hand
  BY WorkerAt DEF Typed
<1>2. SUFFICES LeaseEffect(w)
  BY PutSteps, GoSteps, FateSteps DEF WorkerStep
<1>3. CASE Begin(w)
  BY <1>1, <1>3 DEF Begin, Puts, LeaseEffect, Holding
<1>4. CASE TakeLease(w)
  BY <1>4 DEF TakeLease, LeaseEffect
<1>5. CASE StaysBusy(w) \/ CancelledEarly(w) \/ WriteFinal(w)
  <2>1. ASSUME NEW from, NEW view, Puts(w, from, "leaving", view)
        PROVE  hand'[w].at = "leaving"
    BY <1>1, <2>1 DEF Puts
  <2>2. repoVars' = repoVars
    BY <1>5 DEF StaysBusy, CancelledEarly, WriteFinal
  <2>3. hand'[w].at = "leaving"
    BY <1>5, <2>1 DEF StaysBusy, CancelledEarly, WriteFinal
  <2> QED
    BY <2>2, <2>3 DEF LeaseEffect, Holding
<1>6. CASE Spawn(w) \/ PublishChild(w) \/ ChildIsDone(w)
           \/ Stop(w, "cancelled") \/ Stop(w, "timed_out")
  <2>1. hand[w].at \in Holding /\ repoVars' = repoVars
    BY <1>6 DEF Spawn, PublishChild, Puts, ChildIsDone, Stop, Holding
  <2> QED
    BY <2>1 DEF LeaseEffect
<1>7. CASE Throw(w)
  <2>1. hand'[w].at = "leaving" /\ repoVars' = repoVars
    BY <1>1, <1>7 DEF Throw
  <2> QED
    BY <2>1 DEF LeaseEffect, Holding
<1>8. CASE Leave(w)
  <2>1. hand'[w].at = "done"
    BY <1>1, <1>8 DEF Leave, Unused
  <2>2. RepoDie(w) \/ (grip[w] # 0 /\ RepoRelease(w))
    BY <1>8 DEF Leave
  <2> QED
    BY <2>1, <2>2 DEF LeaseEffect, Holding
<1>9. CASE Kill(w)
  <2>1. hand'[w].at = "killed" /\ RepoDie(w)
    BY <1>1, <1>9 DEF Kill, Unused
  <2> QED
    BY <2>1 DEF LeaseEffect, Holding
<1>10. ASSUME NEW result \in {"passed", "failed"}, ChildEnds(w, result)
       PROVE  LeaseEffect(w)
  <2>1. hand'[w].at = hand[w].at /\ repoVars' = repoVars
    BY <1>1, <1>10 DEF ChildEnds
  <2> QED
    BY <2>1 DEF LeaseEffect
<1> QED
  BY <1>3, <1>4, <1>5, <1>6, <1>7, <1>8, <1>9, <1>10 DEF WorkerStep

\* Every step is one of these.
LEMMA StepMeans ==
  ASSUME JobsInv, Next
  PROVE  \/ LockAges
         \/ \E m \in Manager : ManagerTyped(m) /\ ManagerEffect(m)
         \/ \E j \in JobId : Cancel(j)
         \/ \E w \in Worker : WorkerEffect(w) /\ HandPlace(w)' /\ LeaseEffect(w)
<1>1. ASSUME NEW m \in Manager,
             \/ \E k \in Key, s \in Workspace : Enter(m, k, s)
             \/ SeesStale(m) \/ ManagerStep(m) \/ ManagerDies(m)
      PROVE  ManagerTyped(m) /\ ManagerEffect(m)
  BY <1>1, ManagerSteps, ManagerWrites DEF ManagerStep
<1> QED
  BY <1>1, WorkerMeans DEF Next

LEMMA LeaseTyped ==
  ASSUME RepoTypeOK, NEW w \in Worker, LeaseEffect(w)
  PROVE  RepoTypeOK'
<1> USE Parameters DEF RepoTypeOK, RepositoryLeaseFile, NoRepositoryLease
<1>1. CASE repoVars' = repoVars
  BY <1>1 DEF repoVars
<1>2. CASE RepoAcquire(w)
  BY <1>2 DEF RepoAcquire, Reenter, TakeOver
<1>3. CASE RepoRelease(w)
  BY <1>3 DEF RepoRelease
<1>4. CASE RepoDie(w)
  BY <1>4 DEF RepoDie
<1> QED
  BY <1>1, <1>2, <1>3, <1>4 DEF LeaseEffect

LEMMA JobsStep ==
  ASSUME JobsInv, [Next]_vars
  PROVE  JobsInv'
<1>1. /\ Typed /\ RepoTypeOK /\ (\A m \in Manager : BossPlace(m)) /\ (\A w \in Worker : HandPlace(w))
      /\ boss \in [Manager -> Boss] /\ events \in 0..MaxEvent
  BY DEF JobsInv, Typed
<1>2. ASSUME UNCHANGED <<rec, boss, hand>>
      PROVE  (\A m \in Manager : BossPlace(m)') /\ (\A w \in Worker : HandPlace(w)')
  BY <1>1, <1>2 DEF BossPlace, HandPlace
<1>3. CASE UNCHANGED vars
  <2>1. Typed'
    BY <1>1, <1>3 DEF Typed, RepoTypeOK, vars, jobVars, repoVars, around
  <2>2. UNCHANGED <<rec, boss, hand>>
    BY <1>3 DEF vars, jobVars
  <2> QED
    BY <1>2, <2>1, <2>2 DEF JobsInv
<1>4. CASE LockAges
  <2>1. /\ UNCHANGED <<index, rec, marker, boss, hand, repoVars>>
        /\ lock' = [lock EXCEPT !.old = TRUE] /\ Happens
    BY <1>4 DEF LockAges
  <2>2. lock' \in [by : Manager \cup {None}, old : BOOLEAN] /\ events' \in 0..MaxEvent
    BY <1>1, <2>1, EventsMeans DEF Typed
  <2>3. Typed'
    BY <1>1, <2>1, <2>2 DEF Typed, RepoTypeOK, repoVars
  <2> QED
    BY <1>2, <2>1, <2>3 DEF JobsInv
<1>5. ASSUME NEW j \in JobId, Cancel(j)
      PROVE  JobsInv'
  <2>1. /\ UNCHANGED <<index, rec, lock, boss, hand, repoVars>>
        /\ marker' = marker \cup {j} /\ Happens
    BY <1>5 DEF Cancel
  <2>2. marker' \subseteq JobId /\ events' \in 0..MaxEvent
    BY <1>1, <2>1, EventsMeans DEF Typed
  <2>3. Typed'
    BY <1>1, <2>1, <2>2 DEF Typed, RepoTypeOK, repoVars
  <2> QED
    BY <1>2, <2>1, <2>3 DEF JobsInv
<1>6. ASSUME NEW m \in Manager, ManagerTyped(m), ManagerEffect(m)
      PROVE  JobsInv'
  <2>1. repoVars' = repoVars /\ \A n \in Manager \ {m} : boss'[n] = boss[n]
    BY <1>6 DEF ManagerEffect
  <2>2. Typed'
    BY <1>1, <1>6, <2>1 DEF ManagerTyped, Typed, RepoTypeOK, repoVars
  <2>3. /\ \A j \in JobId : rec[j].status # "none" => rec'[j].status # "none"
        /\ \A w \in Worker : hand[w].at # "unused" => hand'[w] = hand[w]
        /\ \A w \in Worker : hand'[w] # hand[w] => HandPlace(w)'
        /\ BossPlace(m)'
    BY <1>6 DEF ManagerTyped
  <2>4. ASSUME NEW n \in Manager
        PROVE  BossPlace(n)'
    <3>1. CASE n = m
      BY <2>3, <3>1
    <3>2. CASE n # m
      BY <1>1, <2>1, <2>3, <3>2 DEF BossPlace
    <3> QED
      BY <3>1, <3>2
  <2>5. ASSUME NEW w \in Worker
        PROVE  HandPlace(w)'
    BY <1>1, <2>3 DEF HandPlace
  <2> QED
    BY <2>2, <2>4, <2>5 DEF JobsInv
<1>7. ASSUME NEW w \in Worker, WorkerEffect(w), HandPlace(w)', LeaseEffect(w)
      PROVE  JobsInv'
  <2>1. /\ \A v \in Worker \ {w} : hand'[v] = hand[v]
        /\ \A j \in JobId \ {hand[w].job} : rec'[j] = rec[j]
        /\ hand[w].at # "unused" /\ hand'[w].at # "unused" /\ hand'[w].job = hand[w].job
        /\ boss' = boss
    BY <1>7 DEF WorkerEffect
  <2>2. Typed'
    BY <1>1, <1>7, LeaseTyped DEF WorkerEffect, Typed
  <2>3. hand[w].job \in JobId /\ rec'[hand[w].job].status # "none"
    BY <1>1, <1>7, <2>1 DEF HandPlace
  <2>4. \A j \in JobId : rec[j].status # "none" => rec'[j].status # "none"
    BY <2>1, <2>3
  <2>5. ASSUME NEW v \in Worker
        PROVE  HandPlace(v)'
    <3>1. CASE v = w
      BY <1>7, <3>1
    <3>2. CASE v # w
      BY <1>1, <2>1, <2>4, <3>2 DEF HandPlace
    <3> QED
      BY <3>1, <3>2
  <2>6. ASSUME NEW m \in Manager
        PROVE  BossPlace(m)'
    BY <1>1, <2>1, <2>4 DEF BossPlace
  <2> QED
    BY <2>2, <2>5, <2>6 DEF JobsInv
<1> QED
  BY <1>3, <1>4, <1>5, <1>6, <1>7, StepMeans

LEMMA JobsInit ==
  ASSUME Init
  PROVE  JobsInv /\ StartInv /\ CommandInv /\ RecordInv
<1>1. /\ lock = Unlocked /\ marker = {} /\ events = 0 /\ RepoInit
      /\ index = [k \in Key |-> [job |-> None, space |-> None]]
      /\ rec = [j \in JobId |-> NoRecord]
      /\ boss = [m \in Manager |-> Resting] /\ hand = [w \in Worker |-> Unused]
  BY DEF Init
<1>2. repoLease = NoRepositoryLease /\ repoIssued = 0 /\ grip = [w \in Worker |-> 0] /\ RepoTypeOK
  BY <1>1, Parameters DEF RepoInit, RepoTypeOK, RepositoryLeaseFile, NoRepositoryLease
<1>3. Typed
  BY <1>1, <1>2, Records, Parameters DEF Typed
<1>4. /\ \A m \in Manager : boss[m].at = "idle"
      /\ \A w \in Worker : hand[w] = Unused /\ hand[w].at = "unused"
  BY <1>1, Records
<1>5. (\A m \in Manager : BossPlace(m)) /\ (\A w \in Worker : HandPlace(w))
  BY <1>4 DEF BossPlace, HandPlace, Busy
<1>6. StartInv /\ RecordInv
  BY <1>1, <1>4, Records DEF StartInv, RecordInv, Busy
<1>7. CommandInv
  BY <1>2, <1>4 DEF CommandInv, Holding, NoRepositoryLease
<1> QED
  BY <1>3, <1>5, <1>6, <1>7 DEF JobsInv

\* Every variable stays in its domain.
THEOREM JobsTyping == Spec => []JobsTypeOK
<1>1. JobsInv => JobsTypeOK
  BY TypedMeans DEF JobsInv
<1> QED
  BY <1>1, JobsInit, JobsStep, PTL DEF Spec

-----------------------------------------------------------------------------
(* Starts.                                                                 *)

\* Leaving the critical section, or being outside it, keeps the starts of the
\* others as they are.
LEMMA EndsKeepStarts ==
  ASSUME JobsInv, StartInv, NEW m \in Manager, ManagerEffect(m), Ends(m)
  PROVE  StartInv'
<1>1. SUFFICES ASSUME env.steady
               PROVE  StartInv'
  BY DEF ManagerEffect, StartInv
<1>2. /\ ~lock.old
      /\ \A n \in Manager :
           /\ boss[n].at # "stale"
           /\ boss[n].at \in {"inside", "create", "launch"} => lock.by = n
           /\ boss[n].at = "create" => rec[boss[n].job].status = "none"
           /\ boss[n].at = "launch" =>
                /\ rec[boss[n].job] = Queued
                /\ \A w \in Worker : hand[w].at # "unused" => hand[w].job # boss[n].job
      /\ \A v, w \in Worker :
           hand[v].at # "unused" /\ hand[w].at # "unused" /\ hand[v].job = hand[w].job => v = w
  BY <1>1 DEF StartInv
<1>3. /\ hand' = hand /\ boss'[m].at \in {"idle", "failing"}
      /\ lock' = lock \/ (boss[m].at \in {"inside", "launch"} /\ lock' = Unlocked)
      /\ \A n \in Manager \ {m} : boss'[n] = boss[n]
  BY <1>2 DEF Ends, ManagerEffect
<1>4. ~lock'.old
  BY <1>2, <1>3, Records
<1>5. ASSUME NEW n \in Manager \ {m}, boss[n].at \in {"inside", "create", "launch"}
      PROVE  lock' = lock /\ boss[m].at # "launch"
  BY <1>2, <1>3, <1>5
<1>6. ASSUME NEW n \in Manager \ {m}, boss[n].at \in {"create", "launch"}
      PROVE  rec'[boss[n].job] = rec[boss[n].job]
  <2> DEFINE j == boss[n].job
  <2>1. j \in JobId
    BY <1>6, ManagerAt DEF BossPlace
  <2>2. SUFFICES ASSUME rec'[j] # rec[j]
                 PROVE  FALSE
    OBVIOUS
  <2>3. j = boss[m].job /\ boss[m].at \in {"waiting", "failing"}
    BY <1>5, <1>6, <2>1, <2>2 DEF Ends
  <2>4. PICK w \in Worker : hand[w].at # "unused" /\ hand[w].job = j
    BY <2>3, ManagerAt DEF BossPlace
  <2>5. rec[j].status # "none"
    BY <2>4, WorkerAt DEF HandPlace
  <2> QED
    BY <1>2, <1>6, <2>4, <2>5
<1>7. ASSUME NEW n \in Manager
      PROVE  /\ boss'[n].at # "stale"
             /\ boss'[n].at \in {"inside", "create", "launch"} => lock'.by = n
             /\ boss'[n].at = "create" => rec'[boss'[n].job].status = "none"
             /\ boss'[n].at = "launch" =>
                  /\ rec'[boss'[n].job] = Queued
                  /\ \A w \in Worker : hand'[w].at # "unused" => hand'[w].job # boss'[n].job
  <2>1. CASE n = m
    BY <1>3, <2>1
  <2>2. CASE n # m
    BY <1>2, <1>3, <1>5, <1>6, <2>2
  <2> QED
    BY <2>1, <2>2
<1> QED
  BY <1>2, <1>3, <1>4, <1>7 DEF StartInv

LEMMA StartStep ==
  ASSUME JobsInv, StartInv, [Next]_vars
  PROVE  StartInv'
<1>1. CASE UNCHANGED vars
  BY <1>1 DEF StartInv, vars, jobVars, around
<1>2. CASE LockAges
  BY <1>2 DEF LockAges, Happens, StartInv
<1>3. ASSUME NEW j \in JobId, Cancel(j)
      PROVE  StartInv'
  BY <1>3 DEF Cancel, Happens, StartInv
<1>4. ASSUME NEW m \in Manager, ManagerTyped(m), ManagerEffect(m)
      PROVE  StartInv'
  <2>1. SUFFICES ASSUME env.steady
                 PROVE  StartInv'
    BY <1>4 DEF ManagerEffect, StartInv
  <2>2. /\ ~lock.old
        /\ \A n \in Manager :
             /\ boss[n].at # "stale"
             /\ boss[n].at \in {"inside", "create", "launch"} => lock.by = n
             /\ boss[n].at = "create" => rec[boss[n].job].status = "none"
             /\ boss[n].at = "launch" =>
                  /\ rec[boss[n].job] = Queued
                  /\ \A w \in Worker : hand[w].at # "unused" => hand[w].job # boss[n].job
        /\ \A v, w \in Worker :
             hand[v].at # "unused" /\ hand[w].at # "unused" /\ hand[v].job = hand[w].job => v = w
    BY <2>1 DEF StartInv
  <2>3. \A n \in Manager \ {m} : boss'[n] = boss[n]
    BY <1>4 DEF ManagerEffect
  <2>4. CASE Ends(m)
    BY <1>4, <2>4, EndsKeepStarts
  <2>5. CASE GoesIn(m)
    <3>1. /\ lock.by = None /\ lock'.by = m /\ ~lock'.old /\ boss'[m].at = "inside"
          /\ rec' = rec /\ hand' = hand
      BY <2>5 DEF GoesIn
    <3> QED
      BY <2>2, <2>3, <3>1, Parameters DEF StartInv
  <2>6. CASE Chooses(m)
    BY <2>2, <2>3, <2>6 DEF Chooses, StartInv
  <2>7. CASE Writes(m)
    <3>1. /\ boss[m].at = "create" /\ boss'[m].at = "launch" /\ boss'[m].job = boss[m].job
          /\ rec'[boss[m].job] = Queued /\ lock' = lock /\ hand' = hand
      BY <2>7, Records DEF Writes
    <3>2. \A n \in Manager \ {m} : boss[n].at \notin {"inside", "create", "launch"}
      BY <2>2, <3>1
    <3>3. \A w \in Worker : hand[w].at # "unused" => hand[w].job # boss[m].job
      BY <2>2, <3>1, WorkerAt DEF HandPlace
    <3> QED
      BY <2>2, <2>3, <3>1, <3>2, <3>3 DEF StartInv
  <2>8. ASSUME NEW w \in Worker, Launches(m, w)
        PROVE  StartInv'
    <3>1. /\ boss[m].at = "launch" /\ boss'[m].at \in {"idle", "waiting"}
          /\ hand'[w].job = boss[m].job /\ lock' = Unlocked
          /\ \A v \in Worker \ {w} : hand'[v] = hand[v]
      BY <2>8 DEF Launches
    <3>2. \A n \in Manager \ {m} : boss[n].at \notin {"inside", "create", "launch"}
      BY <2>2, <3>1
    <3>3. \A v \in Worker \ {w} : hand'[v].at # "unused" => hand'[v].job # hand'[w].job
      BY <2>2, <3>1
    <3>4. \A u, v \in Worker :
            hand'[u].at # "unused" /\ hand'[v].at # "unused" /\ hand'[u].job = hand'[v].job => u = v
      BY <2>2, <3>1, <3>3
    <3> QED
      BY <2>2, <2>3, <3>1, <3>2, <3>4, Records DEF StartInv
  <2> QED
    BY <1>4, <2>2, <2>4, <2>5, <2>6, <2>7, <2>8 DEF ManagerEffect
<1>5. ASSUME NEW w \in Worker, WorkerEffect(w)
      PROVE  StartInv'
  <2>1. SUFFICES ASSUME env.steady
                 PROVE  StartInv'
    BY <1>5 DEF WorkerEffect, StartInv
  <2>2. /\ \A v \in Worker \ {w} : hand'[v] = hand[v]
        /\ \A j \in JobId \ {hand[w].job} : rec'[j] = rec[j]
        /\ hand[w].at # "unused" /\ hand'[w].job = hand[w].job
        /\ boss' = boss /\ lock' = lock
    BY <1>5 DEF WorkerEffect
  <2>3. rec[hand[w].job].status # "none"
    BY <2>2, WorkerAt DEF HandPlace
  <2>4. ASSUME NEW m \in Manager, boss[m].at \in {"create", "launch"}
        PROVE  rec'[boss[m].job] = rec[boss[m].job]
    <3>1. boss[m].job \in JobId
      BY <2>4, ManagerAt DEF BossPlace
    <3>2. boss[m].job # hand[w].job
      BY <2>1, <2>2, <2>3, <2>4 DEF StartInv
    <3> QED
      BY <2>2, <3>1, <3>2
  <2>5. \A v \in Worker : hand'[v].job = hand[v].job /\ (hand'[v].at # "unused" => hand[v].at # "unused")
    BY <2>2
  <2> QED
    BY <2>1, <2>2, <2>4, <2>5 DEF StartInv
<1>6. CASE Next
  BY <1>2, <1>3, <1>4, <1>5, <1>6, StepMeans
<1> QED
  BY <1>1, <1>6

\* Two workers never have one job, as long as no lock grows stale.
THEOREM OneJobOneWorker == Spec => []OneWorkerPerJob
<1>1. JobsInv /\ StartInv /\ [Next]_vars => JobsInv' /\ StartInv'
  BY JobsStep, StartStep
<1>2. JobsInv /\ StartInv => OneWorkerPerJob
  <2>1. SUFFICES ASSUME JobsInv, StartInv, env.steady, NEW v \in Worker, NEW w \in Worker,
                        hand[v].job = hand[w].job, hand[v].job # None
                 PROVE  v = w
    BY DEF OneWorkerPerJob
  <2>2. hand[v].at # "unused" /\ hand[w].at # "unused"
    BY <2>1, WorkerAt, Records DEF HandPlace
  <2> QED
    BY <2>1, <2>2 DEF StartInv
<1> QED
  BY <1>1, <1>2, JobsInit, PTL DEF Spec

-----------------------------------------------------------------------------
(* Commands.                                                               *)

LEMMA CommandStep ==
  ASSUME JobsInv, CommandInv, [Next]_vars
  PROVE  CommandInv'
<1>1. RepoTypeOK /\ repoLease.id \in Nat /\ repoIssued \in Nat /\ grip \in [Worker -> Nat]
  BY Parameters DEF JobsInv, Typed, RepoTypeOK, RepositoryLeaseFile
<1>2. CASE UNCHANGED <<repoVars, hand, env>>
  BY <1>2 DEF CommandInv, repoVars
<1>3. CASE UNCHANGED vars
  BY <1>2, <1>3 DEF vars, jobVars, around
<1>4. CASE LockAges
  BY <1>2, <1>4 DEF LockAges, Happens
<1>5. ASSUME NEW j \in JobId, Cancel(j)
      PROVE  CommandInv'
  BY <1>2, <1>5 DEF Cancel, Happens
<1>6. ASSUME NEW m \in Manager, ManagerEffect(m)
      PROVE  CommandInv'
  <2>1. repoVars' = repoVars /\ env' = env
    BY <1>6 DEF ManagerEffect
  <2>2. \A w \in Worker : hand'[w].at \in Holding => hand'[w] = hand[w]
    <3>1. CASE hand' = hand
      BY <3>1
    <3>2. ASSUME NEW w \in Worker, Launches(m, w)
          PROVE  \A v \in Worker : hand'[v].at \in Holding => hand'[v] = hand[v]
      BY <3>2 DEF Launches, Holding
    <3> QED
      BY <1>6, <3>1, <3>2 DEF ManagerEffect, Ends, GoesIn, Chooses, Writes
  <2> QED
    BY <2>1, <2>2 DEF CommandInv, repoVars
<1>7. ASSUME NEW w \in Worker, WorkerEffect(w), LeaseEffect(w)
      PROVE  CommandInv'
  <2>1. env' = env /\ \A v \in Worker \ {w} : hand'[v] = hand[v]
    BY <1>7 DEF WorkerEffect
  <2>2. CASE /\ repoVars' = repoVars
             /\ hand'[w].at \in Holding => hand[w].at \in Holding \/ env.kind # "command"
    BY <2>1, <2>2 DEF CommandInv, repoVars
  <2>3. CASE RepoAcquire(w)
    <3>1. /\ repoLease.id # 0 => repoLease.process = "gone"
          /\ repoIssued' = repoIssued + 1 /\ grip' = [grip EXCEPT ![w] = repoIssued + 1]
          /\ repoLease'.id = repoIssued + 1 /\ repoLease'.owner = w
          /\ repoLease'.process = "alive"
      BY <2>3, Parameters DEF RepoAcquire, Reenter, SameOwner, TakeOver, SameProcess
    <3>2. \A v \in Worker : v # w => grip'[v] = grip[v] /\ grip[v] # repoLease'.id
      BY <1>1, <3>1 DEF CommandInv
    <3>3. env.kind = "command" => \A v \in Worker \ {w} : hand'[v].at \notin Holding
      BY <2>1, <3>1 DEF CommandInv
    <3> QED
      BY <1>1, <2>1, <3>1, <3>2, <3>3 DEF CommandInv
  <2>4. CASE hand'[w].at \notin Holding /\ RepoDie(w)
    <3>1. /\ repoIssued' = repoIssued /\ grip' = [grip EXCEPT ![w] = 0]
          /\ repoLease'.id = repoLease.id /\ repoLease'.owner = repoLease.owner
          /\ repoLease.owner # w => repoLease' = repoLease
      BY <1>1, <2>4 DEF RepoDie, RepoTypeOK, RepositoryLeaseFile
    <3>2. /\ \A v \in Worker : grip'[v] \in {grip[v], 0}
      BY <1>1, <3>1
    <3> QED
      BY <1>1, <2>1, <2>4, <3>1, <3>2 DEF CommandInv
  <2>5. CASE hand'[w].at \notin Holding /\ grip[w] # 0 /\ RepoRelease(w)
    <3>1. /\ repoLease.id \in {0, grip[w]} /\ repoIssued' = repoIssued
          /\ grip' = [grip EXCEPT ![w] = 0] /\ repoLease'.id = 0
      BY <2>5 DEF RepoRelease, NotMine, NoRepositoryLease
    <3>2. repoLease.id # 0 => repoLease.owner = w
      BY <2>5, <3>1 DEF CommandInv
    <3>3. env.kind = "command" => \A v \in Worker : hand'[v].at \notin Holding
      BY <2>1, <2>5, <3>2 DEF CommandInv
    <3>4. \A v \in Worker : grip'[v] \in {grip[v], 0}
      BY <1>1, <3>1
    <3> QED
      BY <1>1, <2>1, <3>1, <3>3, <3>4 DEF CommandInv
  <2> QED
    BY <1>7, <2>2, <2>3, <2>4, <2>5 DEF LeaseEffect
<1>8. CASE Next
  BY <1>4, <1>5, <1>6, <1>7, <1>8, StepMeans
<1> QED
  BY <1>3, <1>8

\* A command has the repository to itself, except for one whose worker was
\* killed and left it behind.
THEOREM CommandsTakeTurns == Spec => []OneCommandAtATime
<1>1. JobsInv /\ CommandInv /\ [Next]_vars => JobsInv' /\ CommandInv'
  BY JobsStep, CommandStep
<1>2. JobsInv /\ CommandInv => OneCommandAtATime
  <2>1. SUFFICES ASSUME JobsInv, CommandInv, env.kind = "command",
                        NEW v \in Worker, NEW w \in Worker, v # w,
                        hand[v].child = "running", hand[w].child = "running"
                 PROVE  "killed" \in {hand[v].at, hand[w].at}
    BY DEF OneCommandAtATime
  <2>2. ASSUME NEW u \in Worker, hand[u].child = "running", hand[u].at # "killed"
        PROVE  repoLease.owner = u
    <3>1. hand[u].at \in {"spawned", "watching"}
      <4>1. hand[u].at \in HandAt /\ HandPlace(u)
        BY <2>1, WorkerAt DEF Hand
      <4> QED
        BY <2>2, <4>1 DEF HandPlace, HandAt, Unused
    <3> QED
      BY <2>1, <3>1 DEF CommandInv, Holding
  <2> QED
    BY <2>1, <2>2
<1> QED
  BY <1>1, <1>2, JobsInit, PTL DEF Spec

-----------------------------------------------------------------------------
(* Records.                                                                *)

\* What a manager may replace, no worker is at, and is not final.
LEMMA ManagersMind ==
  ASSUME JobsInv, StartInv, RecordInv, env.steady, env.prompt,
         NEW m \in Manager, ManagerTyped(m), ManagerEffect(m), NEW j \in JobId, rec'[j] # rec[j]
  PROVE  /\ rec[j].status \notin Final
         /\ \A w \in Worker : hand[w].at \in Busy \cup {"begin"} => hand[w].job # j
<1>1. Ends(m) \/ Writes(m)
  BY DEF ManagerEffect, GoesIn, Chooses, Launches
<1>2. CASE Writes(m)
  <2>1. j = boss[m].job /\ boss[m].at = "create"
    BY <1>2 DEF Writes
  <2>2. rec[j].status = "none"
    BY <2>1 DEF StartInv
  <2>3. \A w \in Worker : hand[w].at \in Busy \cup {"begin"} => hand[w].job # j
    BY <2>2, WorkerAt DEF HandPlace, Busy
  <2> QED
    BY <2>2, <2>3 DEF Final
<1>3. CASE Ends(m)
  <2>1. j = boss[m].job
    BY <1>3 DEF Ends
  <2>2. CASE boss[m].at = "launch"
    <3>1. rec[j] = Queued /\ \A w \in Worker : hand[w].at # "unused" => hand[w].job # j
      BY <2>1, <2>2 DEF StartInv
    <3> QED
      BY <3>1, Records DEF Final, Busy
  <2>3. CASE boss[m].at # "launch"
    <3>1. /\ boss[m].at = "waiting" /\ rec[j].status \notin Final /\ ~Alive(boss[m].worker)
      BY <1>3, <2>3 DEF Ends, RecordInv
    <3>2. /\ boss[m].worker \in Worker /\ hand[boss[m].worker].at # "unused"
          /\ hand[boss[m].worker].job = j
      BY <2>1, <3>1, ManagerAt DEF BossPlace
    <3>3. \A w \in Worker : hand[w].at # "unused" /\ hand[w].job = j => w = boss[m].worker
      BY <3>2 DEF StartInv
    <3>4. hand[boss[m].worker].at \notin Busy \cup {"begin"}
      BY <3>1 DEF Alive, Busy
    <3>5. \A w \in Worker : hand[w].at \in Busy \cup {"begin"} => hand[w].at # "unused"
      BY DEF Busy
    <3> QED
      BY <3>1, <3>3, <3>4, <3>5
  <2> QED
    BY <2>2, <2>3
<1> QED
  BY <1>1, <1>2, <1>3

LEMMA RecordStep ==
  ASSUME JobsInv, StartInv, RecordInv, [Next]_vars
  PROVE  RecordInv'
<1>1. CASE UNCHANGED <<rec, boss, hand, env>>
  BY <1>1 DEF RecordInv
<1>2. CASE UNCHANGED vars
  BY <1>1, <1>2 DEF vars, jobVars, around
<1>3. CASE LockAges
  BY <1>1, <1>3 DEF LockAges, Happens
<1>4. ASSUME NEW j \in JobId, Cancel(j)
      PROVE  RecordInv'
  BY <1>1, <1>4 DEF Cancel, Happens
<1>5. ASSUME NEW m \in Manager, ManagerTyped(m), ManagerEffect(m)
      PROVE  RecordInv'
  <2>1. SUFFICES ASSUME env.steady, env.prompt
                 PROVE  RecordInv'
    BY <1>5 DEF ManagerEffect, RecordInv
  <2>2. \A j \in JobId :
          rec'[j] # rec[j] =>
            \A w \in Worker : hand[w].at \in Busy \cup {"begin"} => hand[w].job # j
    BY <1>5, <2>1, ManagersMind
  <2>3. boss'[m].at # "failing" /\ \A n \in Manager \ {m} : boss'[n] = boss[n]
    BY <1>5, <2>1 DEF ManagerEffect, Ends, GoesIn, Chooses, Writes, Launches
  <2>4. ASSUME NEW w \in Worker, hand'[w] = hand[w]
        PROVE  /\ hand'[w].at = "begin" => rec'[hand'[w].job] = Queued
               /\ hand'[w].at \in Busy => rec'[hand'[w].job] = hand'[w].view
    <3>1. hand[w].at \in Busy \cup {"begin"} => rec'[hand[w].job] = rec[hand[w].job]
      <4>1. hand[w].at \in Busy \cup {"begin"} => hand[w].job \in JobId
        BY WorkerAt DEF HandPlace, Busy
      <4> QED
        BY <2>2, <4>1
    <3> QED
      BY <2>1, <2>4, <3>1 DEF RecordInv
  <2>5. ASSUME NEW w \in Worker, hand'[w] # hand[w]
        PROVE  hand'[w].at = "begin" /\ rec'[hand'[w].job] = Queued
    <3>1. Launches(m, w)
      <4>1. ASSUME NEW v \in Worker, Launches(m, v)
            PROVE  v = w
        BY <2>5, <4>1 DEF Launches
      <4> QED
        BY <1>5, <2>5, <4>1 DEF ManagerEffect, Ends, GoesIn, Chooses, Writes
    <3> QED
      BY <2>1, <3>1 DEF Launches, StartInv
  <2> QED
    BY <2>1, <2>3, <2>4, <2>5 DEF RecordInv, Busy
<1>6. ASSUME NEW w \in Worker, WorkerEffect(w)
      PROVE  RecordInv'
  <2>1. SUFFICES ASSUME env.steady, env.prompt
                 PROVE  RecordInv'
    BY <1>6 DEF WorkerEffect, RecordInv
  <2>2. /\ \A v \in Worker \ {w} : hand'[v] = hand[v]
        /\ \A j \in JobId \ {hand[w].job} : rec'[j] = rec[j]
        /\ hand[w].at # "unused" /\ hand'[w].at # "begin" /\ hand'[w].job = hand[w].job
        /\ hand'[w].at \in Busy =>
             \/ rec'[hand[w].job] = hand'[w].view
             \/ rec' = rec /\ hand[w].at \in Busy /\ hand'[w].view = hand[w].view
        /\ boss' = boss
    BY <1>6 DEF WorkerEffect
  <2>3. ASSUME NEW v \in Worker \ {w}, hand[v].at \in Busy \cup {"begin"}
        PROVE  rec'[hand[v].job] = rec[hand[v].job]
    <3>1. hand[v].at # "unused"
      BY <2>3 DEF Busy
    <3>2. hand[v].job \in JobId /\ hand[v].job # hand[w].job
      BY <2>1, <2>2, <2>3, <3>1, WorkerAt DEF HandPlace, StartInv
    <3> QED
      BY <2>2, <3>2
  <2>4. ASSUME NEW v \in Worker \ {w}
        PROVE  /\ hand'[v].at = "begin" => rec'[hand'[v].job] = Queued
               /\ hand'[v].at \in Busy => rec'[hand'[v].job] = hand'[v].view
    BY <2>1, <2>2, <2>3 DEF RecordInv
  <2>5. hand'[w].at \in Busy => rec'[hand'[w].job] = hand'[w].view
    BY <2>1, <2>2 DEF RecordInv
  <2> QED
    BY <2>1, <2>2, <2>4, <2>5 DEF RecordInv
<1>7. CASE Next
  BY <1>3, <1>4, <1>5, <1>6, <1>7, StepMeans
<1> QED
  BY <1>2, <1>7

\* A job that is reported as over runs no more, unless its worker was killed.
THEOREM NothingRunsOn == Spec => []OverMeansQuiet
<1>1. JobsInv /\ StartInv /\ RecordInv /\ [Next]_vars => JobsInv' /\ StartInv' /\ RecordInv'
  BY JobsStep, StartStep, RecordStep
<1>2. JobsInv /\ RecordInv => OverMeansQuiet
  <2>1. SUFFICES ASSUME JobsInv, RecordInv, env.steady, env.prompt, NEW w \in Worker,
                        hand[w].child = "running", hand[w].at # "killed"
                 PROVE  Effective(hand[w].job) \notin Final
    BY DEF OverMeansQuiet
  <2>2. hand[w].at \in HandAt /\ HandPlace(w)
    BY <2>1, WorkerAt DEF Hand
  <2>3. hand[w].at \in {"spawned", "watching"}
    BY <2>1, <2>2 DEF HandPlace, HandAt, Unused
  <2>4. rec[hand[w].job].status = "running" /\ rec[hand[w].job].worker = w
    BY <2>1, <2>2, <2>3 DEF HandPlace, RecordInv, Busy
  <2>5. Alive(w)
    BY <2>3 DEF Alive
  <2> QED
    BY <2>4, <2>5 DEF Effective, Final
<1> QED
  BY <1>1, <1>2, JobsInit, PTL DEF Spec

\* A final status is not replaced, unless a manager gave up on a slow worker.
THEOREM FinalStays == Spec => FinalStatusStands
<1> DEFINE Stands == env.steady /\ env.prompt =>
                       \A j \in JobId : rec[j].status \in Final => rec'[j] = rec[j]
<1>1. JobsInv /\ StartInv /\ RecordInv /\ [Next]_vars => JobsInv' /\ StartInv' /\ RecordInv'
  BY JobsStep, StartStep, RecordStep
<1>2. ASSUME JobsInv, StartInv, RecordInv, Next
      PROVE  Stands
  <2>1. SUFFICES ASSUME env.steady, env.prompt, NEW j \in JobId, rec[j].status \in Final,
                        rec'[j] # rec[j]
                 PROVE  FALSE
    OBVIOUS
  <2>2. ASSUME NEW m \in Manager, ManagerTyped(m), ManagerEffect(m)
        PROVE  FALSE
    BY <1>2, <2>1, <2>2, ManagersMind
  <2>3. ASSUME NEW w \in Worker, WorkerEffect(w)
        PROVE  FALSE
    <3>1. j = hand[w].job /\ hand[w].at \in Busy \cup {"begin"}
      BY <2>1, <2>3 DEF WorkerEffect
    <3>2. rec[j].status \in {"queued", "running"}
      BY <1>2, <2>1, <3>1, WorkerAt, Records DEF RecordInv, HandPlace
    <3> QED
      BY <2>1, <3>2 DEF Final
  <2>4. LockAges \/ (\E i \in JobId : Cancel(i)) => rec' = rec
    BY DEF LockAges, Cancel
  <2> QED
    BY <1>2, <2>1, <2>2, <2>3, <2>4, StepMeans
<1>3. JobsInv /\ StartInv /\ RecordInv /\ [Next]_vars => [Stands]_vars
  BY <1>2
<1> QED
  BY <1>1, <1>3, JobsInit, PTL DEF Spec, FinalStatusStands
================================================================================
