---------------------------- MODULE PlanExecutor ----------------------------
(***************************************************************************)
(* task.execute_plan (src/src/karox/plan_executor.py): one plan of an      *)
(* agent's session, run under the lease of the repository, journalled      *)
(* operation by operation and taken up again by a retry of the same call.  *)
(* The calls of one process wait for each other (_plan_flights); those of  *)
(* an old and a new bridge process do not.                                 *)
(*                                                                         *)
(* A tool call is one of three kinds: a read, a patch of one file, or a    *)
(* check.  What carries it out keeps a journal of its own under the        *)
(* operation's key (CoreExecute, here only its outcome per key).  The two  *)
(* repository identities, the fast and the strict one, are the files; the  *)
(* watcher that replaces them for a plan of reads alone is left out, and   *)
(* so is a limit on bytes, writes or runs, which ends a plan as the one on *)
(* time does.                                                              *)
(***************************************************************************)
EXTENDS RepositoryLease, Sequences, FiniteSets

CONSTANTS
  Runner,    \* calls of execute_plan with this plan
  Other,     \* requests of another session
  Path,      \* the files
  Op,        \* operation identifiers, and what a patch leaves in its file
  Plans,     \* the plans to look at
  None,
  MaxTries,  \* max_fix_attempts
  Batch,     \* checkpoint_after_steps
  MaxRun,    \* bound: calls, where they run in several processes and in one
  MaxEvent   \* bound, likewise: changes by somebody else, and deaths

Step == [id : Op, action : {"read", "patch", "check"}, path : Path \cup {None},
         needs : SUBSET Op, stops : BOOLEAN]

\* What _parse accepts: no identifier twice, no operation that needs a later one,
\* and after the last write a check.
Accepted(ops) ==
  /\ ops \in Seq(Step)
  /\ \A m, n \in DOMAIN ops : ops[m].id = ops[n].id => m = n
  /\ \A n \in DOMAIN ops :
       /\ ops[n].needs \subseteq {ops[m].id : m \in 1..n - 1}
       /\ ops[n].action = "patch" =>
            /\ ops[n].path \in Path
            /\ \E m \in DOMAIN ops : m > n /\ ops[m].action = "check"

ASSUME PlanAssumption ==
  /\ Caller = Runner \cup Other /\ Sibling = Runner /\ Runner \cap Other = {}
  /\ None \notin Op \cup Path /\ {MaxTries, Batch} \subseteq Nat \ {0}
  /\ {MaxRun, MaxEvent} \subseteq [BOOLEAN -> Nat]
  /\ \A ops \in Plans : Accepted(ops)

VARIABLES
  plan,      \* the plan, and whether it runs in processes of their own
  several,
  journal,   \* the plan's journal: its status and one entry per operation
  core,      \* per key, what the tool side has recorded
  disk,      \* the files: the operation that wrote them last, or None
  run,       \* the calls
  counts,    \* calls so far, and events
  applied,   \* how often a patch has been carried out
  unchecked, \* patches carried out since a check last passed
  stranded   \* calls that left their lease behind

durable == <<journal, core, disk>>
ghosts == <<applied, unchecked, stranded>>
planVars == <<plan, several, durable, run, counts, ghosts>>
vars == <<planVars, repoVars>>

\* What a failure looks like: its code, and what its message speaks of.
Signature == {"none", "dependency", "drift", "delegate", "result"} \X (Op \cup {None})
Entry == [st : {"absent", "running", "failed", "success"}, tries : 0..MaxTries, sig : Signature]
Fresh == [st |-> "absent", tries |-> 0, sig |-> <<"none", None>>]
NoCall == [at |-> "idle", done |-> [o \in Op |-> Fresh], i |-> 1, seen |-> [p \in Path |-> None],
           sigs |-> {}]

Init ==
  /\ plan \in Plans /\ several \in BOOLEAN
  /\ journal = [status |-> "none", ops |-> [o \in Op |-> Fresh]]
  /\ core = [o \in Op |-> "absent"]
  /\ disk = [p \in Path |-> None]
  /\ run = [c \in Runner |-> NoCall]
  /\ counts = [run |-> 0, event |-> 0]
  /\ applied = [o \in Op |-> 0] /\ unchecked = {} /\ stranded = {}
  /\ RepoInit

Counted(what, bound) == counts[what] < bound[several] /\ counts' = [counts EXCEPT ![what] = @ + 1]
At(c, place) == run[c].at = place
Goes(c, place) == run' = [run EXCEPT ![c].at = place]
Ends(c) == run' = [run EXCEPT ![c] = NoCall]
Now(c) == plan[run[c].i]
Before(c) == run[c].done[Now(c).id]
Leased == \E n \in DOMAIN plan : plan[n].action # "read"
HasLease(c) == Leased => repoLease.id = grip[c]

-----------------------------------------------------------------------------
(* Up to the first operation.                                              *)

\* A call that does not wait for another one of its process.
StartAtOnce(c) ==
  /\ At(c, "idle") /\ journal.status # "complete" /\ Counted("run", MaxRun)
  /\ run' = [run EXCEPT ![c] = [NoCall EXCEPT !.done = journal.ops,
                 !.at = IF journal.status = "none" THEN "claim" ELSE "lease"]]
  /\ UNCHANGED <<plan, several, durable, ghosts, repoVars>>

\* A complete plan is answered from the journal, which changes nothing.
Start(c) ==
  /\ At(c, "idle") /\ journal.status # "complete" /\ Counted("run", MaxRun)
  /\ several \/ \A d \in Runner : At(d, "idle")
  /\ run' = [run EXCEPT ![c] = [NoCall EXCEPT !.done = journal.ops,
                 !.at = IF journal.status = "none" THEN "claim" ELSE "lease"]]
  /\ UNCHANGED <<plan, several, durable, ghosts, repoVars>>

Claim(c) ==
  /\ At(c, "claim") /\ Goes(c, "lease")
  /\ journal' = [status |-> "running", ops |-> [o \in Op |-> Fresh]]
  /\ UNCHANGED <<plan, several, core, disk, counts, ghosts, repoVars>>

TakeLease(c) ==
  /\ At(c, "lease") /\ Goes(c, "baseline")
  /\ IF Leased THEN RepoAcquire(c) ELSE UNCHANGED repoVars
  /\ UNCHANGED <<plan, several, durable, counts, ghosts>>

LeaseRefused(c) ==
  /\ At(c, "lease") /\ Leased /\ Conflict(c) /\ Ends(c)
  /\ UNCHANGED <<plan, several, durable, counts, ghosts, repoVars>>

Baseline(c) ==
  /\ At(c, "baseline")
  /\ run' = [run EXCEPT ![c].at = "next", ![c].seen = disk]
  /\ UNCHANGED <<plan, several, durable, counts, ghosts, repoVars>>

\* Reading the repository or the list of tools raises.  The try whose finally
\* gives the lease back has not been entered.
Strand(c) ==
  /\ At(c, "baseline") /\ Leased /\ Ends(c)
  /\ stranded' = stranded \cup {c}
  /\ UNCHANGED <<plan, several, durable, counts, applied, unchecked, repoVars>>

-----------------------------------------------------------------------------
(* One operation.                                                          *)

Writes(ops, status) == journal' = [status |-> status, ops |-> ops]
Onward(c, done) == run' = [run EXCEPT ![c].done = done, ![c].i = @ + 1, ![c].at = "next"]

\* A failure that only ends the plan if it is the same once more.
FailCarriesOn(c, why) ==
  LET entry == [st |-> "failed", tries |-> Before(c).tries + 1, sig |-> why]
      again == why = Before(c).sig
      done == [run[c].done EXCEPT ![Now(c).id] = entry]
  IN /\ Writes(done, "running")
     /\ run' = [run EXCEPT ![c].done = done, ![c].i = IF again THEN @ ELSE @ + 1,
                           ![c].at = IF again THEN "block" ELSE "next"]

\* The failure is journalled.  It ends the plan if the operation says so, or if
\* it looks like the operation's last one or like another one of this call.
Fail(c, why) ==
  LET entry == [st |-> "failed", tries |-> Before(c).tries + 1, sig |-> why]
      done == [run[c].done EXCEPT ![Now(c).id] = entry]
      ends == Now(c).stops \/ why = Before(c).sig \/ why \in run[c].sigs
  IN /\ Writes(done, "running")
     /\ run' = [run EXCEPT ![c].done = done, ![c].sigs = @ \cup {why},
                           ![c].i = IF ends THEN @ ELSE @ + 1,
                           ![c].at = IF ends THEN "block" ELSE "next"]

\* The message of a tool names the operation's own data, or only the tool.
FailInTool(c) == \E about \in {Now(c).id, None} : Fail(c, <<"delegate", about>>)

AtOp(c) == At(c, "next") /\ run[c].i <= Len(plan)

AttemptsLeftOneTooMany(c) == Before(c).tries <= MaxTries
AttemptsLeft(c) == Before(c).tries < MaxTries
Due(c) == AtOp(c) /\ Before(c).st # "success"

Skip(c) ==
  /\ AtOp(c) /\ Before(c).st = "success" /\ Onward(c, run[c].done)
  /\ UNCHANGED <<plan, several, durable, counts, ghosts, repoVars>>

\* Its attempts, or the plan's time, are used up.
OutOfBudget(c) ==
  /\ Due(c) /\ Goes(c, "block")
  /\ UNCHANGED <<plan, several, durable, counts, ghosts, repoVars>>

\* The heartbeat finds another lease, or none.  That is not the kind of error
\* the journal is told of.
LeaseLost(c) ==
  /\ Due(c) /\ AttemptsLeft(c) /\ ~HasLease(c) /\ Goes(c, "leave")
  /\ UNCHANGED <<plan, several, durable, counts, ghosts, repoVars>>

Missing(c) == {o \in Now(c).needs : run[c].done[o].st # "success"}
Ready(c) == Missing(c) = {}
Drift == <<"drift", None>>

\* Heartbeat, preconditions, and the fence before a side effect.
Prepare(c) ==
  /\ Due(c) /\ AttemptsLeft(c) /\ HasLease(c)
  /\ \/ \E o \in Missing(c) : Fail(c, <<"dependency", o>>)
     \/ Ready(c) /\ Now(c).action # "read" /\ disk # run[c].seen /\ Fail(c, Drift)
     \/ /\ Ready(c) /\ Now(c).action # "read" /\ disk = run[c].seen /\ Goes(c, "call")
        /\ Writes([run[c].done EXCEPT ![Now(c).id] = [Fresh EXCEPT !.st = "running"]], journal.status)
     \/ Ready(c) /\ Now(c).action = "read" /\ Goes(c, "call") /\ UNCHANGED journal
  /\ UNCHANGED <<plan, several, core, disk, counts, ghosts, repoVars>>

\* The tool raises, or refuses: it is busy, has lost its lease, or finds the
\* operation under way.
CallFails(c) ==
  /\ At(c, "call") /\ FailInTool(c)
  /\ UNCHANGED <<plan, several, core, disk, counts, ghosts, repoVars>>

\* Reads are journalled with the next side effect, or every few operations.
Read(c) ==
  LET done == [run[c].done EXCEPT ![Now(c).id] = [Fresh EXCEPT !.st = "success"]]
  IN /\ At(c, "call") /\ Now(c).action = "read" /\ Onward(c, done)
     /\ IF Leased /\ run[c].i % Batch = 0 THEN Writes(done, journal.status) ELSE UNCHANGED journal
     /\ UNCHANGED <<plan, several, core, disk, counts, ghosts, repoVars>>

\* A tool that runs whatever it is asked to, whether or not it did so before.
CallUnkeyed(c) ==
  /\ At(c, "call") /\ Now(c).action # "read" /\ HasLease(c)
  /\ core' = [core EXCEPT ![Now(c).id] = "pending"] /\ Goes(c, "core")
  /\ UNCHANGED <<plan, several, journal, disk, counts, ghosts, repoVars>>

\* The key is recorded before the work is done, under the plan's lease.  A key
\* that has its outcome gives that.
Call(c) ==
  /\ At(c, "call") /\ Now(c).action # "read" /\ HasLease(c)
  /\ \/ core[Now(c).id] = "absent" /\ Goes(c, "core")
        /\ core' = [core EXCEPT ![Now(c).id] = "pending"]
     \/ core[Now(c).id] \in {"ok", "bad"} /\ Goes(c, "observe") /\ UNCHANGED core
  /\ UNCHANGED <<plan, several, journal, disk, counts, ghosts, repoVars>>

TakesEffect(c) ==
  IF Now(c).action = "patch"
  THEN /\ disk' = [disk EXCEPT ![Now(c).path] = Now(c).id]
       /\ applied' = [applied EXCEPT ![Now(c).id] = @ + 1]
       /\ unchecked' = unchecked \cup {Now(c).id}
  ELSE unchecked' = {} /\ UNCHANGED <<disk, applied>>

CoreDone(c) ==
  /\ At(c, "core") /\ TakesEffect(c)
  /\ core' = [core EXCEPT ![Now(c).id] = "ok"] /\ Goes(c, "observe")
  /\ UNCHANGED <<plan, several, journal, counts, stranded, repoVars>>

\* A check that runs and does not pass has a result as well.
CoreDoneBadly(c) ==
  /\ At(c, "core") /\ Now(c).action = "check"
  /\ core' = [core EXCEPT ![Now(c).id] = "bad"] /\ Goes(c, "observe")
  /\ UNCHANGED <<plan, several, journal, disk, counts, ghosts, repoVars>>

\* The work is undone, and the key is free again.
CoreRaises(c) ==
  /\ At(c, "core") /\ FailInTool(c)
  /\ core' = [core EXCEPT ![Now(c).id] = "absent"]
  /\ UNCHANGED <<plan, several, disk, counts, ghosts, repoVars>>

Reported(c) == IF Now(c).action = "patch" THEN {Now(c).path} ELSE {}
Unexplained(c) == {p \in Path : disk[p] # run[c].seen[p]} \ Reported(c)

Succeeds(c) ==
  LET done == [run[c].done EXCEPT ![Now(c).id] = [Fresh EXCEPT !.st = "success"]]
  IN /\ Writes(done, journal.status)
     /\ run' = [run EXCEPT ![c].done = done, ![c].i = @ + 1, ![c].at = "next", ![c].seen = disk]

\* Whatever the check said, it has been made.
ObserveAnyResult(c) ==
  /\ At(c, "observe") /\ IF Unexplained(c) = {} THEN Succeeds(c) ELSE Fail(c, Drift)
  /\ UNCHANGED <<plan, several, core, disk, counts, ghosts, repoVars>>

\* The result counts, and then what has happened to the files.
Observe(c) ==
  /\ At(c, "observe")
  /\ \/ core[Now(c).id] = "bad" /\ Fail(c, <<"result", Now(c).id>>)
     \/ core[Now(c).id] = "ok" /\ Unexplained(c) # {} /\ Fail(c, Drift)
     \/ core[Now(c).id] = "ok" /\ Unexplained(c) = {} /\ Succeeds(c)
  /\ UNCHANGED <<plan, several, core, disk, counts, ghosts, repoVars>>

-----------------------------------------------------------------------------
(* The end.                                                                *)

Final(c) ==
  /\ At(c, "next") /\ run[c].i > Len(plan)
  /\ IF disk = run[c].seen THEN Writes(run[c].done, "complete") /\ Goes(c, "leave")
                           ELSE Goes(c, "block") /\ UNCHANGED journal
  /\ UNCHANGED <<plan, several, core, disk, counts, ghosts, repoVars>>

\* A blocked plan that keeps its lease for the retry.
BlockHolding(c) ==
  /\ At(c, "block") /\ Writes(run[c].done, "blocked") /\ Ends(c)
  /\ UNCHANGED <<plan, several, core, disk, counts, ghosts, repoVars>>

Block(c) ==
  /\ At(c, "block") /\ Writes(run[c].done, "blocked") /\ Goes(c, "leave")
  /\ UNCHANGED <<plan, several, core, disk, counts, ghosts, repoVars>>

\* An error that is not the plan's own ends the call: nothing more is written.
Throw(c) ==
  /\ run[c].at \in {"next", "call", "observe", "block"} /\ Goes(c, "leave")
  /\ UNCHANGED <<plan, several, durable, counts, ghosts, repoVars>>

\* finally: a lease that is somebody else's by now is left alone.
Leave(c) ==
  /\ At(c, "leave") /\ Ends(c)
  /\ IF Leased /\ ~NotMine(c) THEN RepoRelease(c) /\ stranded' = {}
     ELSE grip' = [grip EXCEPT ![c] = 0] /\ UNCHANGED <<repoLease, repoIssued, stranded>>
  /\ UNCHANGED <<plan, several, durable, counts, applied, unchecked>>

-----------------------------------------------------------------------------
(* The world around.                                                       *)

\* The process dies, with all calls that run in it.  The work that was being
\* done is done or not; its key stays pending.
Crash(c) ==
  LET dead == IF several THEN {c} ELSE Runner
      busy == {d \in dead : At(d, "core")}
  IN /\ ~At(c, "idle") /\ Counted("event", MaxEvent)
     /\ \/ UNCHANGED <<disk, applied, unchecked>>
        \/ c \in busy /\ TakesEffect(c)
     /\ run' = [d \in Runner |-> IF d \in dead THEN NoCall ELSE run[d]]
     /\ grip' = [d \in Caller |-> IF d \in dead THEN 0 ELSE grip[d]]
     /\ repoLease' = IF repoLease.owner \in dead THEN [repoLease EXCEPT !.process = "gone"] ELSE repoLease
     /\ stranded' = stranded \ dead
     /\ UNCHANGED <<plan, several, journal, core, repoIssued>>

\* Somebody edits a file, under no lease.
Edit(p) ==
  /\ Counted("event", MaxEvent) /\ disk' = [disk EXCEPT ![p] = "edited"]
  /\ UNCHANGED <<plan, several, journal, core, run, ghosts, repoVars>>

OtherTakes(o) == grip[o] = 0 /\ RepoAcquire(o) /\ UNCHANGED planVars
OtherLeaves(o) == grip[o] # 0 /\ RepoRelease(o) /\ UNCHANGED planVars

Acts(c) ==
  \/ Start(c) \/ Claim(c) \/ TakeLease(c) \/ LeaseRefused(c) \/ Baseline(c) \/ Strand(c)
  \/ Skip(c) \/ OutOfBudget(c) \/ LeaseLost(c) \/ Prepare(c)
  \/ CallFails(c) \/ Read(c) \/ Call(c) \/ CoreDone(c) \/ CoreDoneBadly(c) \/ CoreRaises(c)
  \/ Observe(c) \/ Final(c) \/ Block(c) \/ Throw(c) \/ Leave(c) \/ Crash(c)

Next ==
  \/ \E c \in Runner : Acts(c)
  \/ \E p \in Path : Edit(p)
  \/ \E o \in Other : OtherTakes(o) \/ OtherLeaves(o)

Spec == Init /\ [][Next]_vars

-----------------------------------------------------------------------------
(* Properties.                                                             *)

Steps == {plan[n] : n \in DOMAIN plan}

\* Every variable stays in its domain: no operation is tried more often than
\* its budget allows.
PlanTypeOK ==
  /\ plan \in Plans /\ several \in BOOLEAN
  /\ journal.status \in {"none", "running", "blocked", "complete"}
  /\ journal.ops \in [Op -> Entry]
  /\ core \in [Op -> {"absent", "pending", "ok", "bad"}]
  /\ disk \in [Path -> Op \cup {None, "edited"}]
  /\ \A c \in Runner : /\ run[c].done \in [Op -> Entry] /\ run[c].i \in 1..Len(plan) + 1
                       /\ run[c].seen \in [Path -> Op \cup {None, "edited"}]
  /\ stranded \subseteq Runner /\ unchecked \subseteq Op
  /\ RepoTypeOK

\* However often a plan is retried, and whichever calls and processes die or
\* run side by side, a patch is carried out once at most.
AppliedOnce == \A o \in Op : applied[o] <= 1

\* The plan's journal is never ahead of the tool's: what it calls a success has
\* taken effect, although the two are written at different times.
JournalIsHonest ==
  \A s \in Steps : journal.ops[s.id].st = "success" /\ s.action # "read" => core[s.id] = "ok"

\* "A plan with writes is rejected unless a checks operation appears after the
\* final write": if every failure stops the plan, then in a complete one a check
\* has indeed passed after every patch that was made.  (With a patch that may
\* fail the check can pass before a retry makes it, and is then not repeated.)
CheckedLast ==
  journal.status = "complete" /\ (\A s \in Steps : s.stops) => unchecked = {}

\* Among the calls of one process a complete plan stays as it was: no late or
\* repeated call blocks it or runs it again.
CompleteIsFinal ==
  [][journal.status = "complete" /\ ~several => journal' = journal]_vars

\* Unless it failed before its first operation, a call that is over has not left
\* its lease behind.
LeaseComesBack ==
  \A c \in Runner : At(c, "idle") /\ repoLease.owner = c /\ repoLease.process = "alive" =>
    c \in stranded
=============================================================================
