-------------------------- MODULE PlanExecutorProofs --------------------------
(* Theorems about PlanExecutor, for every plan that is accepted and every  *)
(* number of calls, sessions, deaths and edits.                            *)
EXTENDS PlanExecutor, TLAPS

Place == {"idle", "claim", "lease", "baseline", "next", "call", "core",
          "observe", "block", "leave"}
Content == Op \cup {None, "edited"}
CallRecord == [at : Place, done : [Op -> Entry], i : Nat,
               seen : [Path -> Content], sigs : SUBSET Signature]

PlanTyped ==
  PlanTypeOK /\ run \in [Runner -> CallRecord] /\ applied \in [Op -> Nat]

\* A call that carries out an operation is at one of the plan, which has an
\* attempt left.
PlaceInv ==
  \A c \in Runner :
    /\ run[c].at \in {"call", "core", "observe"} => run[c].i <= Len(plan)
    /\ run[c].at \in {"call", "core", "observe"} => Before(c).tries < MaxTries
    /\ run[c].at \in {"core", "observe"} => Now(c).action # "read"

\* A key is pending as long as a call works under it, no two calls do, and a
\* key that is free has had no effect.
KeyInv ==
  /\ AppliedOnce
  /\ \A o \in Op : core[o] = "absent" => applied[o] = 0
  /\ \A c \in Runner :
       /\ At(c, "core") => core[Now(c).id] = "pending" /\ applied[Now(c).id] = 0
       /\ At(c, "observe") => core[Now(c).id] \in {"ok", "bad"}
  /\ \A c, d \in Runner :
       At(c, "core") /\ At(d, "core") /\ Now(c).id = Now(d).id => c = d

\* What the journal, and the calls that have read it, take for done.
Honest(entries) ==
  \A s \in Steps : entries[s.id].st = "success" /\ s.action # "read" => core[s.id] = "ok"
HonestInv == JournalIsHonest /\ \A c \in Runner : Honest(run[c].done)

-----------------------------------------------------------------------------
(* What the pieces of a step do.                                           *)

Elsewhere(c) == \A d \in Runner : d # c => run'[d] = run[d]

\* The parameters the proofs need.
LEMMA Parameters ==
  /\ Caller = Runner \cup Other /\ Sibling = Runner /\ Runner \cap Other = {}
  /\ Runner \subseteq Caller /\ Nobody \notin Caller
  /\ MaxTries \in Nat \ {0} /\ MaxLease \in Nat
  /\ "edited" \in Content /\ None \in Content /\ Op \subseteq Content
BY PlanAssumption, RepositoryLeaseAssumption DEF Content

\* An operation of the plan.
LEMMA Operation ==
  ASSUME PlanTyped, NEW n \in 1..Len(plan)
  PROVE  /\ n \in DOMAIN plan /\ plan[n] \in Step /\ plan[n] \in Steps
         /\ plan[n].id \in Op
         /\ plan[n].action = "patch" => plan[n].path \in Path
<1>1. plan \in Seq(Step) /\ Accepted(plan)
  BY PlanAssumption DEF PlanTyped, PlanTypeOK, Accepted
<1>2. n \in DOMAIN plan /\ plan[n] \in Step
  BY <1>1
<1>3. plan[n].action = "patch" => plan[n].path \in Path
  BY <1>1, <1>2 DEF Accepted
<1> QED
  BY <1>2, <1>3 DEF Step, Steps

LEMMA Identifiers ==
  ASSUME PlanTyped, NEW s \in Steps
  PROVE  s.id \in Op
<1>1. PICK n \in DOMAIN plan : s = plan[n]
  BY DEF Steps
<1>2. plan \in Seq(Step)
  BY PlanAssumption DEF PlanTyped, PlanTypeOK, Accepted
<1>3. n \in 1..Len(plan)
  BY <1>2
<1> QED
  BY <1>1, <1>3, Operation

\* The operation a call is at.
LEMMA AtOperation ==
  ASSUME PlanTyped, NEW c \in Runner, run[c].i <= Len(plan)
  PROVE  /\ Now(c) \in Steps /\ Now(c).id \in Op
         /\ Now(c).action = "patch" => Now(c).path \in Path
         /\ Before(c) \in Entry
<1>1. run[c].i \in 1..Len(plan) /\ run[c].done \in [Op -> Entry]
  BY DEF PlanTyped, PlanTypeOK
<1> QED
  BY <1>1, Operation DEF Now, Before

\* No identifier stands for two operations.
LEMMA OneOperation ==
  ASSUME PlanTyped, NEW s \in Steps, NEW t \in Steps, s.id = t.id
  PROVE  s = t
<1>1. Accepted(plan)
  BY PlanAssumption DEF PlanTyped, PlanTypeOK
<1> QED
  BY <1>1 DEF Accepted, Steps

\* Moving a call.
LEMMA GoesMeans ==
  ASSUME PlanTyped, NEW c \in Runner, NEW place \in Place, Goes(c, place)
  PROVE  /\ run' \in [Runner -> CallRecord] /\ Elsewhere(c)
         /\ run'[c].at = place /\ run'[c].done = run[c].done
         /\ run'[c].i = run[c].i /\ run'[c].seen = run[c].seen
BY DEF PlanTyped, Goes, Elsewhere, CallRecord

LEMMA FreshEntry == Fresh \in Entry /\ [Fresh EXCEPT !.st = "success"] \in Entry
                    /\ [Fresh EXCEPT !.st = "running"] \in Entry
                    /\ Fresh.st = "absent" /\ Fresh.tries = 0
                    /\ [Fresh EXCEPT !.st = "success"].st = "success"
                    /\ [Fresh EXCEPT !.st = "success"].tries = 0
                    /\ [Fresh EXCEPT !.st = "running"].st = "running"
BY Parameters DEF Fresh, Entry, Signature

LEMMA NoCallIsOne ==
  /\ NoCall \in CallRecord /\ NoCall.at = "idle" /\ NoCall.i = 1
  /\ NoCall.done = [o \in Op |-> Fresh]
BY FreshEntry, Parameters DEF NoCall, CallRecord, Place

\* Ending a call.
LEMMA EndsMeans ==
  ASSUME PlanTyped, NEW c \in Runner, Ends(c)
  PROVE  run' \in [Runner -> CallRecord] /\ Elsewhere(c) /\ run'[c] = NoCall
BY NoCallIsOne DEF PlanTyped, Ends, Elsewhere

\* A call that fails journals the failure, and goes on or blocks.
LEMMA FailMeans ==
  ASSUME PlanTyped, NEW c \in Runner, run[c].i <= Len(plan),
         Before(c).tries < MaxTries, NEW why \in Signature, Fail(c, why)
  PROVE  /\ run' \in [Runner -> CallRecord] /\ Elsewhere(c)
         /\ run'[c].at \in {"next", "block"} /\ run'[c].seen = run[c].seen
         /\ run'[c].at = "next" => run'[c].i = run[c].i + 1 /\ ~Now(c).stops
         /\ run'[c].at = "block" => run'[c].i = run[c].i
         /\ journal' = [status |-> "running", ops |-> run'[c].done]
         /\ \E e \in Entry :
              e.st = "failed" /\ run'[c].done = [run[c].done EXCEPT ![Now(c).id] = e]
<1> DEFINE entry == [st |-> "failed", tries |-> Before(c).tries + 1, sig |-> why]
           done == [run[c].done EXCEPT ![Now(c).id] = entry]
           ends == Now(c).stops \/ why = Before(c).sig \/ why \in run[c].sigs
           at == IF ends THEN "block" ELSE "next"
           i == IF ends THEN run[c].i ELSE run[c].i + 1
           sigs == run[c].sigs \cup {why}
<1>1. run[c] \in CallRecord /\ run \in [Runner -> CallRecord]
  BY DEF PlanTyped
<1>2. entry \in Entry
  BY AtOperation, Parameters DEF Entry
<1>3. done \in [Op -> Entry]
  BY <1>1, <1>2 DEF CallRecord
<1>4. i \in Nat /\ at \in {"next", "block"} /\ sigs \subseteq Signature
  BY <1>1 DEF CallRecord
<1>5. /\ run' = [run EXCEPT ![c].done = done, ![c].sigs = sigs, ![c].i = i, ![c].at = at]
      /\ journal' = [status |-> "running", ops |-> done]
  BY DEF Fail, Writes
<1>6. /\ ~ends => at = "next" /\ i = run[c].i + 1
      /\ ends => at = "block" /\ i = run[c].i
  OBVIOUS
<1>7. ~ends => ~Now(c).stops
  BY DEF ends
<1>8. \E e \in Entry :
        e.st = "failed" /\ done = [run[c].done EXCEPT ![Now(c).id] = e]
  BY <1>2 DEF done
<1> HIDE DEF done, ends, at, i, sigs
<1>9. /\ run' \in [Runner -> CallRecord] /\ Elsewhere(c)
      /\ run'[c].at = at /\ run'[c].done = done /\ run'[c].i = i
      /\ run'[c].seen = run[c].seen
  BY <1>1, <1>3, <1>4, <1>5 DEF CallRecord, Place, Elsewhere
<1> QED
  BY <1>4, <1>5, <1>6, <1>7, <1>8, <1>9

\* A call that goes on to the next operation.
LEMMA OnwardMeans ==
  ASSUME PlanTyped, NEW c \in Runner, NEW done \in [Op -> Entry], Onward(c, done)
  PROVE  /\ run' \in [Runner -> CallRecord] /\ Elsewhere(c)
         /\ run'[c].at = "next" /\ run'[c].done = done
         /\ run'[c].i = run[c].i + 1 /\ run'[c].seen = run[c].seen
BY DEF PlanTyped, Onward, Elsewhere, CallRecord, Place

\* A side effect whose result counts is journalled.
LEMMA SucceedsMeans ==
  ASSUME PlanTyped, NEW c \in Runner, run[c].i <= Len(plan), Succeeds(c)
  PROVE  /\ run' \in [Runner -> CallRecord] /\ Elsewhere(c)
         /\ run'[c].at = "next" /\ run'[c].i = run[c].i + 1
         /\ run'[c].seen = disk
         /\ run'[c].done = [run[c].done EXCEPT ![Now(c).id] = [Fresh EXCEPT !.st = "success"]]
         /\ run'[c].done \in [Op -> Entry]
         /\ journal' = [status |-> journal.status, ops |-> run'[c].done]
<1> DEFINE done == [run[c].done EXCEPT ![Now(c).id] = [Fresh EXCEPT !.st = "success"]]
           i == run[c].i + 1
<1>1. done \in [Op -> Entry]
  BY FreshEntry, AtOperation DEF PlanTyped, CallRecord
<1>2. /\ Writes(done, journal.status)
      /\ run' = [run EXCEPT ![c].done = done, ![c].i = i, ![c].at = "next", ![c].seen = disk]
  BY DEF Succeeds
<1>5. i \in Nat
  BY DEF PlanTyped, CallRecord
<1> HIDE DEF done, i
<1>3. disk \in [Path -> Content]
  BY DEF PlanTyped, PlanTypeOK, Content
<1>4. /\ run' \in [Runner -> CallRecord] /\ Elsewhere(c)
      /\ run'[c].at = "next" /\ run'[c].i = i
      /\ run'[c].seen = disk /\ run'[c].done = done
  <2>1. run' = [run EXCEPT ![c].done = done, ![c].i = i, ![c].at = "next", ![c].seen = disk]
    BY <1>2
  <2>2. run[c] \in CallRecord /\ run \in [Runner -> CallRecord]
    BY DEF PlanTyped
  <2> QED
    BY <2>1, <2>2, <1>1, <1>3, <1>5 DEF CallRecord, Place, Elsewhere
<1> QED
  BY <1>1, <1>2, <1>4 DEF done, i, Writes

-----------------------------------------------------------------------------
(* Typing, and where a call can be.                                        *)

\* The plan itself does not change.
LEMMA PlanStays ==
  ASSUME [Next]_vars
  PROVE  plan' = plan /\ several' = several
<1>1. ASSUME NEW c \in Runner, Acts(c)
      PROVE  plan' = plan /\ several' = several
  BY <1>1 DEF Acts, Start, Claim, TakeLease, LeaseRefused, Baseline, Strand, Skip,
     OutOfBudget, LeaseLost, Prepare, CallFails, Read, Call, CoreDone,
     CoreDoneBadly, CoreRaises, Observe, Final, Block, Throw, Leave, Crash
<1>2. ASSUME NEW p \in Path, Edit(p)
      PROVE  plan' = plan /\ several' = several
  BY <1>2 DEF Edit
<1>3. ASSUME NEW o \in Other, OtherTakes(o) \/ OtherLeaves(o)
      PROVE  plan' = plan /\ several' = several
  BY <1>3 DEF OtherTakes, OtherLeaves, planVars
<1>4. CASE UNCHANGED vars
  BY <1>4 DEF vars, planVars
<1> QED
  BY <1>1, <1>2, <1>3, <1>4 DEF Next

\* Acquiring and releasing the repository keeps the lease's types.
LEMMA RepoStep ==
  ASSUME RepoTypeOK, NEW c \in Caller, RepoAcquire(c) \/ RepoRelease(c)
  PROVE  RepoTypeOK'
<1> USE Parameters DEF RepoTypeOK, RepositoryLeaseFile, NoRepositoryLease
<1>1. CASE Reenter(c)
  BY <1>1 DEF Reenter
<1>2. CASE TakeOver(c)
  BY <1>2 DEF TakeOver
<1>3. CASE RepoRelease(c)
  BY <1>3 DEF RepoRelease
<1> QED
  BY <1>1, <1>2, <1>3 DEF RepoAcquire

\* The repository lease and the calls that left theirs behind.
LEMMA LeaseTyped ==
  ASSUME PlanTyped, [Next]_vars
  PROVE  RepoTypeOK' /\ stranded' \subseteq Runner
<1>1. RepoTypeOK /\ stranded \subseteq Runner
  BY DEF PlanTyped, PlanTypeOK
<1>2. CASE UNCHANGED <<repoVars, stranded>>
  BY <1>1, <1>2 DEF repoVars, RepoTypeOK
<1>3. ASSUME NEW c \in Runner, Acts(c)
      PROVE  RepoTypeOK' /\ stranded' \subseteq Runner
  <2>1. CASE TakeLease(c)
    BY <2>1, <1>1, <1>2, RepoStep, Parameters DEF TakeLease, ghosts
  <2>2. CASE Strand(c)
    BY <2>2, <1>1 DEF Strand, repoVars, RepoTypeOK
  <2>3. CASE Leave(c)
    <3>1. CASE RepoRelease(c) /\ stranded' = {}
      BY <3>1, <1>1, RepoStep, Parameters
    <3>2. CASE grip' = [grip EXCEPT ![c] = 0] /\ UNCHANGED <<repoLease, repoIssued, stranded>>
      BY <3>2, <1>1, Parameters DEF RepoTypeOK
    <3> QED
      BY <2>3, <3>1, <3>2 DEF Leave
  <2>4. CASE Crash(c)
    <3> DEFINE dead == IF several THEN {c} ELSE Runner
    <3>1. /\ grip' = [d \in Caller |-> IF d \in dead THEN 0 ELSE grip[d]]
          /\ repoLease' = IF repoLease.owner \in dead THEN [repoLease EXCEPT !.process = "gone"] ELSE repoLease
          /\ stranded' = stranded \ dead /\ repoIssued' = repoIssued
      BY <2>4 DEF Crash
    <3> HIDE DEF dead
    <3> QED
      BY <3>1, <1>1, Parameters DEF RepoTypeOK, RepositoryLeaseFile
  <2>5. CASE CoreDone(c)
    BY <2>5, <1>2 DEF CoreDone, repoVars
  <2>6. CASE \/ Start(c) \/ Claim(c) \/ LeaseRefused(c) \/ Baseline(c) \/ Skip(c)
             \/ OutOfBudget(c) \/ LeaseLost(c) \/ Prepare(c) \/ CallFails(c) \/ Read(c)
             \/ Call(c) \/ CoreDoneBadly(c) \/ CoreRaises(c) \/ Observe(c) \/ Final(c)
             \/ Block(c) \/ Throw(c)
    BY <2>6, <1>2 DEF Start, Claim, LeaseRefused, Baseline, Skip, OutOfBudget,
       LeaseLost, Prepare, CallFails, Read, Call, CoreDoneBadly, CoreRaises, Observe,
       Final, Block, Throw, ghosts
  <2> QED
    BY <1>3, <2>1, <2>2, <2>3, <2>4, <2>5, <2>6 DEF Acts
<1>4. ASSUME NEW p \in Path, Edit(p)
      PROVE  RepoTypeOK' /\ stranded' \subseteq Runner
  BY <1>4, <1>2 DEF Edit, ghosts
<1>5. ASSUME NEW o \in Other, OtherTakes(o) \/ OtherLeaves(o)
      PROVE  RepoTypeOK' /\ stranded' \subseteq Runner
  BY <1>5, <1>1, RepoStep, Parameters DEF OtherTakes, OtherLeaves, planVars, ghosts
<1>6. CASE UNCHANGED vars
  BY <1>6, <1>2 DEF vars, planVars, ghosts
<1> QED
  BY <1>3, <1>4, <1>5, <1>6 DEF Next

\* The files, what the tools have recorded, and how often they did something.
World == <<core, disk, applied, unchecked>>
WorldTypeOK ==
  /\ core \in [Op -> {"absent", "pending", "ok", "bad"}]
  /\ disk \in [Path -> Content]
  /\ applied \in [Op -> Nat] /\ unchecked \subseteq Op

\* What an operation does to the files.
LEMMA EffectMeans ==
  ASSUME PlanTyped, NEW c \in Runner, run[c].i <= Len(plan), TakesEffect(c)
  PROVE  /\ disk' \in [Path -> Content] /\ applied' \in [Op -> Nat]
         /\ unchecked' \subseteq Op
         /\ \A o \in Op : applied'[o] = applied[o]
              \/ (o = Now(c).id /\ applied'[o] = applied[o] + 1)
         /\ unchecked' \subseteq unchecked \cup {Now(c).id}
         /\ Now(c).action # "patch" => unchecked' = {}
<1>1. /\ disk \in [Path -> Content] /\ applied \in [Op -> Nat] /\ unchecked \subseteq Op
  BY DEF PlanTyped, PlanTypeOK, Content
<1>2. CASE Now(c).action = "patch"
  <2>1. Now(c).path \in Path /\ Now(c).id \in Op
    BY <1>2, AtOperation
  <2>2. /\ disk' = [disk EXCEPT ![Now(c).path] = Now(c).id]
        /\ applied' = [applied EXCEPT ![Now(c).id] = @ + 1]
        /\ unchecked' = unchecked \cup {Now(c).id}
    BY <1>2 DEF TakesEffect
  <2> QED
    BY <1>1, <1>2, <2>1, <2>2, Parameters
<1>3. CASE Now(c).action # "patch"
  <2>1. unchecked' = {} /\ UNCHANGED <<disk, applied>>
    BY <1>3 DEF TakesEffect
  <2> QED
    BY <1>1, <2>1
<1> QED
  BY <1>2, <1>3

LEMMA WorldTyped ==
  ASSUME PlanTyped, PlaceInv, [Next]_vars
  PROVE  WorldTypeOK'
<1>1. WorldTypeOK
  BY DEF PlanTyped, PlanTypeOK, WorldTypeOK, Content
<1>2. CASE UNCHANGED World
  BY <1>1, <1>2 DEF World, WorldTypeOK
<1>3. ASSUME NEW c \in Runner, Acts(c)
      PROVE  WorldTypeOK'
  <2>1. CASE Call(c)
    BY <2>1, <1>1, <1>2 DEF Call, ghosts, World, WorldTypeOK
  <2>2. CASE CoreDone(c)
    BY <2>2, <1>1, EffectMeans DEF CoreDone, At, PlaceInv, WorldTypeOK
  <2>3. CASE CoreDoneBadly(c)
    BY <2>3, <1>1 DEF CoreDoneBadly, ghosts, WorldTypeOK
  <2>4. CASE CoreRaises(c)
    BY <2>4, <1>1 DEF CoreRaises, ghosts, WorldTypeOK
  <2>5. CASE Crash(c)
    <3>1. UNCHANGED core
      BY <2>5 DEF Crash
    <3>2. \/ UNCHANGED <<disk, applied, unchecked>>
          \/ At(c, "core") /\ TakesEffect(c)
      BY <2>5 DEF Crash
    <3> QED
      BY <3>1, <3>2, <1>1, EffectMeans DEF At, PlaceInv, WorldTypeOK
  <2>6. CASE \/ Start(c) \/ Claim(c) \/ TakeLease(c) \/ LeaseRefused(c) \/ Baseline(c)
             \/ Strand(c) \/ Skip(c) \/ OutOfBudget(c) \/ LeaseLost(c) \/ Prepare(c)
             \/ CallFails(c) \/ Read(c) \/ Observe(c) \/ Final(c) \/ Block(c)
             \/ Throw(c) \/ Leave(c)
    BY <2>6, <1>2 DEF Start, Claim, TakeLease, LeaseRefused, Baseline, Strand, Skip,
       OutOfBudget, LeaseLost, Prepare, CallFails, Read, Observe, Final, Block, Throw,
       Leave, ghosts, durable, World
  <2> QED
    BY <1>3, <2>1, <2>2, <2>3, <2>4, <2>5, <2>6 DEF Acts
<1>4. ASSUME NEW p \in Path, Edit(p)
      PROVE  WorldTypeOK'
  BY <1>4, <1>1, Parameters DEF Edit, ghosts, WorldTypeOK
<1>5. ASSUME NEW o \in Other, OtherTakes(o) \/ OtherLeaves(o)
      PROVE  WorldTypeOK'
  BY <1>5, <1>2 DEF OtherTakes, OtherLeaves, planVars, ghosts, durable, World
<1>6. CASE UNCHANGED vars
  BY <1>6, <1>2 DEF vars, planVars, ghosts, durable, World
<1> QED
  BY <1>3, <1>4, <1>5, <1>6 DEF Next

JournalTypeOK ==
  /\ journal.status \in {"none", "running", "blocked", "complete"}
  /\ journal.ops \in [Op -> Entry]

\* Starting takes up what the journal says.
LEMMA StartMeans ==
  ASSUME PlanTyped, NEW c \in Runner, Start(c)
  PROVE  /\ run' \in [Runner -> CallRecord] /\ Elsewhere(c)
         /\ run'[c].at = (IF journal.status = "none" THEN "claim" ELSE "lease")
         /\ run'[c].done = journal.ops /\ run'[c].i = 1
<1> DEFINE at == IF journal.status = "none" THEN "claim" ELSE "lease"
<1>1. run' = [run EXCEPT ![c] = [NoCall EXCEPT !.done = journal.ops, !.at = at]]
  BY DEF Start
<1>2. at \in Place /\ journal.ops \in [Op -> Entry] /\ run \in [Runner -> CallRecord]
  BY DEF Place, PlanTyped, PlanTypeOK
<1> HIDE DEF at
<1>3. run' \in [Runner -> CallRecord] /\ Elsewhere(c) /\ run'[c].at = at
      /\ run'[c].done = journal.ops /\ run'[c].i = 1
  BY <1>1, <1>2, NoCallIsOne DEF CallRecord, Elsewhere
<1> QED
  BY <1>3 DEF at

\* A dying process ends all its calls.
LEMMA CrashMeans ==
  ASSUME PlanTyped, NEW c \in Runner, Crash(c)
  PROVE  /\ run' \in [Runner -> CallRecord]
         /\ run'[c] = NoCall
         /\ \A d \in Runner : run'[d] = NoCall \/ run'[d] = run[d]
         /\ ~several => \A d \in Runner : run'[d] = NoCall
<1>1. run' = [d \in Runner |-> IF d \in (IF several THEN {c} ELSE Runner) THEN NoCall ELSE run[d]]
  BY DEF Crash
<1>2. run \in [Runner -> CallRecord]
  BY DEF PlanTyped
<1> QED
  BY <1>1, <1>2, NoCallIsOne

\* What the places say stays true if a call that goes on with an operation keeps
\* what it had of it.
LEMMA PlaceKept ==
  ASSUME PlanTyped, PlaceInv, NEW c \in Runner, plan' = plan, Elsewhere(c),
         run'[c].at \in {"call", "core", "observe"} =>
           /\ run'[c].i = run[c].i /\ run'[c].done = run[c].done
           /\ run[c].i <= Len(plan) /\ Before(c).tries < MaxTries,
         run'[c].at \in {"core", "observe"} => Now(c).action # "read"
  PROVE  PlaceInv'
BY DEF PlaceInv, Elsewhere, Now, Before

CallsTypeOK ==
  run \in [Runner -> CallRecord] /\ \A c \in Runner : run[c].i \in 1..Len(plan) + 1

\* One call's part of a typed step.
LEMMA CallsKept ==
  ASSUME PlanTyped, NEW c \in Runner, plan' = plan, Elsewhere(c),
         run' \in [Runner -> CallRecord],
         run'[c].i \in {1, run[c].i} \/ (run'[c].i = run[c].i + 1 /\ run[c].i <= Len(plan))
  PROVE  CallsTypeOK'
<1>1. \A d \in Runner : run[d].i \in 1..Len(plan) + 1
  BY DEF PlanTyped, PlanTypeOK
<1>2. Len(plan) \in Nat
  <2>1. plan \in Seq(Step)
    BY PlanAssumption DEF PlanTyped, PlanTypeOK, Accepted
  <2> QED
    BY <2>1
<1>3. \A d \in Runner : run'[d].i \in 1..Len(plan) + 1
  BY <1>1, <1>2 DEF Elsewhere
<1> QED
  BY <1>3 DEF CallsTypeOK

\* The failures that can be met.
LEMMA Failures ==
  /\ Drift \in Signature
  /\ \A o \in Op : <<"dependency", o>> \in Signature /\ <<"result", o>> \in Signature
  /\ \A o \in Op \cup {None} : <<"delegate", o>> \in Signature
BY DEF Drift, Signature

\* A failure, for all that the types and places say.
LEMMA FailTyped ==
  ASSUME PlanTyped, PlaceInv, NEW c \in Runner, plan' = plan, run[c].i <= Len(plan),
         Before(c).tries < MaxTries, NEW why \in Signature, Fail(c, why)
  PROVE  CallsTypeOK' /\ PlaceInv' /\ JournalTypeOK'
<1>1. /\ run' \in [Runner -> CallRecord] /\ Elsewhere(c)
      /\ run'[c].at \in {"next", "block"}
      /\ run'[c].i \in {run[c].i, run[c].i + 1}
      /\ journal' = [status |-> "running", ops |-> run'[c].done]
  BY FailMeans
<1>2. CallsTypeOK'
  BY <1>1, CallsKept
<1>3. PlaceInv'
  BY <1>1, PlaceKept
<1>4. JournalTypeOK'
  BY <1>1 DEF JournalTypeOK, CallRecord
<1> QED
  BY <1>2, <1>3, <1>4

LEMMA ToolFailTyped ==
  ASSUME PlanTyped, PlaceInv, NEW c \in Runner, plan' = plan,
         run[c].at \in {"call", "core"}, FailInTool(c)
  PROVE  CallsTypeOK' /\ PlaceInv' /\ JournalTypeOK'
<1>1. run[c].i <= Len(plan) /\ Before(c).tries < MaxTries
  BY DEF PlaceInv
<1>2. PICK about \in {Now(c).id, None} : Fail(c, <<"delegate", about>>)
  BY DEF FailInTool
<1>3. <<"delegate", about>> \in Signature
  BY <1>1, AtOperation, Failures
<1> QED
  BY <1>1, <1>2, <1>3, FailTyped

\* Moving a call without anything else.
LEMMA GoesTyped ==
  ASSUME PlanTyped, PlaceInv, NEW c \in Runner, NEW place \in Place, plan' = plan,
         Goes(c, place),
         place \in {"call", "core", "observe"} =>
           run[c].i <= Len(plan) /\ Before(c).tries < MaxTries,
         place \in {"core", "observe"} => Now(c).action # "read"
  PROVE  CallsTypeOK' /\ PlaceInv'
<1>1. /\ run' \in [Runner -> CallRecord] /\ Elsewhere(c)
      /\ run'[c].at = place /\ run'[c].done = run[c].done /\ run'[c].i = run[c].i
  BY GoesMeans
<1> QED
  BY <1>1, CallsKept, PlaceKept

LEMMA EndsTyped ==
  ASSUME PlanTyped, PlaceInv, NEW c \in Runner, plan' = plan, Ends(c)
  PROVE  CallsTypeOK' /\ PlaceInv'
<1>1. run' \in [Runner -> CallRecord] /\ Elsewhere(c) /\ run'[c].at = "idle" /\ run'[c].i = 1
  BY EndsMeans, NoCallIsOne
<1> QED
  BY <1>1, CallsKept, PlaceKept

\* The operation after this one.
LEMMA OnwardTyped ==
  ASSUME PlanTyped, PlaceInv, NEW c \in Runner, plan' = plan, run[c].i <= Len(plan),
         NEW done \in [Op -> Entry], Onward(c, done)
  PROVE  CallsTypeOK' /\ PlaceInv'
<1>1. /\ run' \in [Runner -> CallRecord] /\ Elsewhere(c)
      /\ run'[c].at = "next" /\ run'[c].i = run[c].i + 1
  BY OnwardMeans
<1> QED
  BY <1>1, CallsKept, PlaceKept

\* The journal and the calls.
LEMMA CallsStep ==
  ASSUME PlanTyped, PlaceInv, [Next]_vars
  PROVE  CallsTypeOK' /\ PlaceInv' /\ JournalTypeOK'
<1> DEFINE Goal == CallsTypeOK' /\ PlaceInv' /\ JournalTypeOK'
<1>1. plan' = plan
  BY PlanStays
<1>2. JournalTypeOK /\ CallsTypeOK
  BY DEF PlanTyped, PlanTypeOK, JournalTypeOK, CallsTypeOK
<1>3. UNCHANGED journal => JournalTypeOK'
  BY <1>2 DEF JournalTypeOK
<1>4. UNCHANGED run => CallsTypeOK' /\ PlaceInv'
  BY <1>1, <1>2 DEF CallsTypeOK, PlaceInv, Now, Before
<1>5. \A c \in Runner : run[c].done \in [Op -> Entry] /\ run[c].i \in Nat
  BY DEF PlanTyped, CallRecord
<1> HIDE DEF Goal
<1>6. ASSUME NEW c \in Runner, Acts(c)
      PROVE  Goal
  <2> USE DEF Goal
  <2>1. CASE Start(c)
    <3>1. /\ run' \in [Runner -> CallRecord] /\ Elsewhere(c)
          /\ run'[c].at \in {"claim", "lease"} /\ run'[c].i = 1
      BY <2>1, StartMeans
    <3> QED
      BY <3>1, <2>1, <1>1, <1>3, CallsKept, PlaceKept DEF Start, durable
  <2>2. CASE Claim(c)
    <3>1. JournalTypeOK'
      BY <2>2, FreshEntry DEF Claim, JournalTypeOK
    <3> QED
      BY <3>1, <2>2, <1>1, GoesTyped DEF Claim, Place
  <2>3. CASE \/ TakeLease(c) \/ OutOfBudget(c) \/ LeaseLost(c) \/ Throw(c)
    <3>1. UNCHANGED journal /\ \E place \in {"baseline", "block", "leave"} : Goes(c, place)
      BY <2>3 DEF TakeLease, OutOfBudget, LeaseLost, Throw, durable
    <3> QED
      BY <3>1, <1>1, <1>3, GoesTyped DEF Place
  <2>4. CASE LeaseRefused(c) \/ Strand(c) \/ Leave(c)
    <3>1. UNCHANGED journal /\ Ends(c)
      BY <2>4 DEF LeaseRefused, Strand, Leave, durable
    <3> QED
      BY <3>1, <1>1, <1>3, EndsTyped
  <2>5. CASE Baseline(c)
    <3>1. disk \in [Path -> Content]
      BY DEF PlanTyped, PlanTypeOK, Content
    <3>2. run' = [run EXCEPT ![c].at = "next", ![c].seen = disk] /\ UNCHANGED journal
      BY <2>5 DEF Baseline, durable
    <3>3. /\ run' \in [Runner -> CallRecord] /\ Elsewhere(c)
          /\ run'[c].at = "next" /\ run'[c].i = run[c].i
      BY <3>1, <3>2 DEF PlanTyped, CallRecord, Elsewhere, Place
    <3> QED
      BY <3>2, <3>3, <1>1, <1>3, CallsKept, PlaceKept
  <2>6. CASE Skip(c)
    <3>1. Onward(c, run[c].done) /\ run[c].i <= Len(plan) /\ UNCHANGED journal
      BY <2>6 DEF Skip, AtOp, durable
    <3> QED
      BY <3>1, <1>1, <1>3, <1>5, OnwardTyped
  <2>7. CASE Prepare(c)
    <3>1. run[c].i <= Len(plan) /\ Before(c).tries < MaxTries
      BY <2>7 DEF Prepare, Due, AtOp, AttemptsLeft
    <3>2. Now(c).id \in Op /\ Now(c) \in Step
      BY <3>1, <1>2, Operation DEF CallsTypeOK, Now
    <3>3. ASSUME NEW o \in Missing(c), Fail(c, <<"dependency", o>>)
          PROVE  Goal
      <4>1. o \in Op
        BY <3>2 DEF Missing, Step
      <4> QED
        BY <4>1, <3>3, <3>1, <1>1, FailTyped, Failures
    <3>4. CASE Fail(c, Drift)
      BY <3>4, <3>1, <1>1, FailTyped, Failures
    <3>5. CASE /\ Goes(c, "call")
               /\ Writes([run[c].done EXCEPT ![Now(c).id] = [Fresh EXCEPT !.st = "running"]], journal.status)
      <4>1. JournalTypeOK'
        BY <3>5, <3>2, <1>2, <1>5, FreshEntry DEF Writes, JournalTypeOK
      <4> QED
        BY <4>1, <3>5, <3>1, <1>1, GoesTyped DEF Place
    <3>6. CASE Goes(c, "call") /\ UNCHANGED journal
      BY <3>6, <3>1, <1>1, <1>3, GoesTyped DEF Place
    <3> QED
      BY <2>7, <3>3, <3>4, <3>5, <3>6 DEF Prepare
  <2>8. CASE CallFails(c) \/ CoreRaises(c)
    BY <2>8, <1>1, ToolFailTyped DEF CallFails, CoreRaises, At
  <2>9. CASE Read(c)
    <3> DEFINE done == [run[c].done EXCEPT ![Now(c).id] = [Fresh EXCEPT !.st = "success"]]
    <3>1. run[c].i <= Len(plan)
      BY <2>9 DEF Read, At, PlaceInv
    <3>2. done \in [Op -> Entry]
      BY <1>5, FreshEntry
    <3>3. Onward(c, done) /\ (Writes(done, journal.status) \/ UNCHANGED journal)
      BY <2>9 DEF Read
    <3> HIDE DEF done
    <3>4. JournalTypeOK'
      BY <3>2, <3>3, <1>2 DEF Writes, JournalTypeOK
    <3> QED
      BY <3>1, <3>2, <3>3, <3>4, <1>1, OnwardTyped
  <2>10. CASE Call(c) \/ CoreDone(c) \/ CoreDoneBadly(c)
    <3>1. run[c].i <= Len(plan) /\ Before(c).tries < MaxTries /\ Now(c).action # "read"
      BY <2>10 DEF Call, CoreDone, CoreDoneBadly, At, PlaceInv
    <3>2. UNCHANGED journal /\ (Goes(c, "core") \/ Goes(c, "observe"))
      BY <2>10 DEF Call, CoreDone, CoreDoneBadly
    <3> QED
      BY <3>1, <3>2, <1>1, <1>3, GoesTyped DEF Place
  <2>11. CASE Observe(c)
    <3>1. run[c].i <= Len(plan) /\ Before(c).tries < MaxTries
      BY <2>11 DEF Observe, At, PlaceInv
    <3>2. CASE \E why \in Signature : Fail(c, why)
      BY <3>1, <3>2, <1>1, FailTyped
    <3>3. CASE Succeeds(c)
      <4>1. /\ run' \in [Runner -> CallRecord] /\ Elsewhere(c)
            /\ run'[c].at = "next" /\ run'[c].i = run[c].i + 1
            /\ run'[c].done \in [Op -> Entry]
            /\ journal' = [status |-> journal.status, ops |-> run'[c].done]
        BY <3>1, <3>3, SucceedsMeans
      <4>2. JournalTypeOK'
        BY <4>1, <1>2 DEF JournalTypeOK
      <4> QED
        BY <4>1, <4>2, <3>1, <1>1, CallsKept, PlaceKept
    <3>4. Now(c).id \in Op
      BY <3>1, AtOperation
    <3> QED
      BY <2>11, <3>2, <3>3, <3>4, Failures DEF Observe
  <2>12. CASE Final(c)
    <3>1. JournalTypeOK'
      BY <2>12, <1>2, <1>5 DEF Final, Writes, JournalTypeOK
    <3>2. Goes(c, "leave") \/ Goes(c, "block")
      BY <2>12 DEF Final
    <3> QED
      BY <3>1, <3>2, <1>1, GoesTyped DEF Place
  <2>13. CASE Block(c)
    <3>1. JournalTypeOK'
      BY <2>13, <1>5 DEF Block, Writes, JournalTypeOK
    <3> QED
      BY <3>1, <2>13, <1>1, GoesTyped DEF Block, Place
  <2>14. CASE Crash(c)
    <3>1. /\ run' \in [Runner -> CallRecord]
          /\ \A d \in Runner : run'[d] = NoCall \/ run'[d] = run[d]
          /\ UNCHANGED journal
      BY <2>14, CrashMeans DEF Crash
    <3>2. 1 \in 1..Len(plan) + 1
      BY <1>2 DEF CallsTypeOK
    <3>3. CallsTypeOK' /\ PlaceInv'
      BY <3>1, <3>2, <1>1, <1>2, NoCallIsOne DEF CallsTypeOK, PlaceInv, Now, Before
    <3> QED
      BY <3>1, <3>3, <1>3
  <2> QED
    BY <1>6, <2>1, <2>2, <2>3, <2>4, <2>5, <2>6, <2>7, <2>8, <2>9, <2>10, <2>11,
       <2>12, <2>13, <2>14 DEF Acts
<1>7. ASSUME NEW p \in Path, Edit(p)
      PROVE  Goal
  BY <1>7, <1>3, <1>4 DEF Goal, Edit
<1>8. ASSUME NEW o \in Other, OtherTakes(o) \/ OtherLeaves(o)
      PROVE  Goal
  BY <1>8, <1>3, <1>4 DEF Goal, OtherTakes, OtherLeaves, planVars, durable
<1>9. CASE UNCHANGED vars
  BY <1>9, <1>3, <1>4 DEF Goal, vars, planVars, durable
<1> QED
  BY <1>6, <1>7, <1>8, <1>9 DEF Next, Goal

LEMMA PlanTypedStep ==
  ASSUME PlanTyped, PlaceInv, [Next]_vars
  PROVE  PlanTyped' /\ PlaceInv'
<1>1. plan' \in Plans /\ several' \in BOOLEAN
  BY PlanStays DEF PlanTyped, PlanTypeOK
<1>2. \A c \in Runner : run'[c].done \in [Op -> Entry] /\ run'[c].seen \in [Path -> Content]
  BY CallsStep DEF CallsTypeOK, CallRecord
<1> QED
  BY <1>1, <1>2, CallsStep, LeaseTyped, WorldTyped
     DEF PlanTyped, PlanTypeOK, CallsTypeOK, JournalTypeOK, WorldTypeOK, Content

LEMMA PlanTypedInit ==
  ASSUME Init
  PROVE  PlanTyped /\ PlaceInv
<1>1. RepoTypeOK
  BY Parameters DEF Init, RepoInit, NoRepositoryLease, RepoTypeOK, RepositoryLeaseFile
<1>2. /\ run = [c \in Runner |-> NoCall] /\ plan \in Plans
      /\ journal = [status |-> "none", ops |-> [o \in Op |-> Fresh]]
  BY DEF Init
<1>3. run \in [Runner -> CallRecord] /\ \A c \in Runner : run[c].at = "idle" /\ run[c].i = 1
  BY <1>2, NoCallIsOne
<1>4. Len(plan) \in Nat
  <2>1. plan \in Seq(Step)
    BY <1>2, PlanAssumption DEF Accepted
  <2> QED
    BY <2>1
<1>5. journal.ops \in [Op -> Entry] /\ journal.status = "none"
  BY <1>2, FreshEntry
<1>6. \A c \in Runner : /\ run[c].done \in [Op -> Entry] /\ run[c].i \in 1..Len(plan) + 1
                        /\ run[c].seen \in [Path -> Content]
  BY <1>3, <1>4 DEF CallRecord
<1>7. PlanTypeOK
  BY <1>1, <1>5, <1>6 DEF Init, PlanTypeOK, Content
<1> QED
  BY <1>3, <1>7 DEF Init, PlanTyped, PlaceInv

\* Every variable stays in its domain, and no operation is tried more often than
\* its budget allows.
THEOREM PlanTyping == Spec => []PlanTypeOK
<1>1. PlanTyped /\ PlaceInv => PlanTypeOK
  BY DEF PlanTyped
<1> QED
  BY <1>1, PlanTypedInit, PlanTypedStep, PTL DEF Spec

-----------------------------------------------------------------------------
(* Keys: a patch is carried out once.                                      *)

\* A step that leaves keys and effects alone and brings no call to its work.
LEMMA KeyKept ==
  ASSUME PlanTyped, KeyInv, NEW c \in Runner, plan' = plan, Elsewhere(c),
         UNCHANGED <<core, applied>>, run'[c].at # "core",
         run'[c].at = "observe" =>
           run'[c].i = run[c].i /\ core[Now(c).id] \in {"ok", "bad"}
  PROVE  KeyInv'
<1>1. \A d \in Runner : (At(d, "core"))' => run'[d] = run[d]
  BY DEF Elsewhere, At
<1>2. AppliedOnce' /\ \A o \in Op : core'[o] = "absent" => applied'[o] = 0
  BY DEF KeyInv, AppliedOnce
<1>3. \A d \in Runner :
        /\ (At(d, "core"))' => core'[Now(d).id'] = "pending" /\ applied'[Now(d).id'] = 0
        /\ (At(d, "observe"))' => core'[Now(d).id'] \in {"ok", "bad"}
  BY DEF KeyInv, At, Now, Elsewhere
<1>4. \A d, e \in Runner :
        (At(d, "core") /\ At(e, "core") /\ Now(d).id = Now(e).id)' => d = e
  BY <1>1 DEF KeyInv, At, Now
<1> QED
  BY <1>2, <1>3, <1>4 DEF KeyInv

LEMMA FailKey ==
  ASSUME PlanTyped, KeyInv, NEW c \in Runner, plan' = plan, run[c].i <= Len(plan),
         Before(c).tries < MaxTries, NEW why \in Signature, Fail(c, why),
         UNCHANGED <<core, applied>>
  PROVE  KeyInv'
<1>1. Elsewhere(c) /\ run'[c].at \in {"next", "block"}
  BY FailMeans
<1> QED
  BY <1>1, KeyKept

\* Keys change at one operation only.
LEMMA KeyStep ==
  ASSUME PlanTyped, PlaceInv, KeyInv, [Next]_vars
  PROVE  KeyInv'
<1>1. plan' = plan
  BY PlanStays
<1>2. /\ core \in [Op -> {"absent", "pending", "ok", "bad"}] /\ applied \in [Op -> Nat]
  BY DEF PlanTyped, PlanTypeOK
<1>3. ASSUME NEW c \in Runner, Acts(c)
      PROVE  KeyInv'
  <2>1. CASE Start(c)
    <3>1. Elsewhere(c) /\ run'[c].at \in {"claim", "lease"}
      BY <2>1, StartMeans
    <3> QED
      BY <3>1, <2>1, <1>1, KeyKept DEF Start, durable, ghosts
  <2>2. CASE \/ Claim(c) \/ TakeLease(c) \/ OutOfBudget(c) \/ LeaseLost(c)
             \/ Throw(c) \/ Final(c) \/ Block(c)
    <3>1. UNCHANGED <<core, applied>>
      BY <2>2 DEF Claim, TakeLease, OutOfBudget, LeaseLost, Throw, Final, Block,
         durable, ghosts
    <3>2. \E place \in {"lease", "baseline", "block", "leave"} : Goes(c, place)
      BY <2>2 DEF Claim, TakeLease, OutOfBudget, LeaseLost, Throw, Final, Block
    <3> QED
      BY <3>1, <3>2, <1>1, GoesMeans, KeyKept DEF Place
  <2>3. CASE LeaseRefused(c) \/ Strand(c) \/ Leave(c)
    <3>1. UNCHANGED <<core, applied>> /\ Ends(c)
      BY <2>3 DEF LeaseRefused, Strand, Leave, durable, ghosts
    <3> QED
      BY <3>1, <1>1, EndsMeans, NoCallIsOne, KeyKept
  <2>4. CASE Baseline(c)
    <3>1. UNCHANGED <<core, applied>>
      BY <2>4 DEF Baseline, durable, ghosts
    <3>2. run' = [run EXCEPT ![c].at = "next", ![c].seen = disk]
      BY <2>4 DEF Baseline
    <3>3. Elsewhere(c) /\ run'[c].at = "next"
      BY <3>2 DEF PlanTyped, CallRecord, Elsewhere
    <3> QED
      BY <3>1, <3>3, <1>1, KeyKept
  <2>5. CASE Skip(c) \/ Read(c)
    <3>1. UNCHANGED <<core, applied>>
      BY <2>5 DEF Skip, Read, durable, ghosts
    <3>2. \E done \in [Op -> Entry] : Onward(c, done)
      BY <2>5, FreshEntry DEF Skip, Read, PlanTyped, CallRecord
    <3> QED
      BY <3>1, <3>2, <1>1, OnwardMeans, KeyKept
  <2>6. CASE Prepare(c)
    <3>1. UNCHANGED <<core, applied>>
      BY <2>6 DEF Prepare, ghosts
    <3>2. run[c].i <= Len(plan) /\ Before(c).tries < MaxTries
      BY <2>6 DEF Prepare, Due, AtOp, AttemptsLeft
    <3>3. Now(c) \in Step
      BY <3>2, Operation DEF PlanTyped, PlanTypeOK, Now
    <3>4. Goes(c, "call") \/ \E why \in Signature : Fail(c, why)
      BY <2>6, <3>3, Failures DEF Prepare, Missing, Step
    <3> QED
      BY <3>1, <3>2, <3>4, <1>1, GoesMeans, FailKey, KeyKept DEF Place
  <2>7. CASE CallFails(c)
    <3>1. UNCHANGED <<core, applied>> /\ run[c].i <= Len(plan) /\ Before(c).tries < MaxTries
      BY <2>7 DEF CallFails, ghosts, At, PlaceInv
    <3>2. \E why \in Signature : Fail(c, why)
      BY <2>7, <3>1, AtOperation, Failures DEF CallFails, FailInTool
    <3> QED
      BY <3>1, <3>2, <1>1, FailKey
  <2>8. CASE Call(c)
    <3>1. run[c].i <= Len(plan) /\ Now(c).id \in Op /\ At(c, "call") /\ UNCHANGED applied
      BY <2>8, AtOperation DEF Call, At, PlaceInv, ghosts
    <3>2. CASE /\ core[Now(c).id] = "absent" /\ Goes(c, "core")
               /\ core' = [core EXCEPT ![Now(c).id] = "pending"]
      <4>1. Elsewhere(c) /\ run'[c].at = "core" /\ run'[c].i = run[c].i
        BY <3>2, GoesMeans DEF Place
      <4>2. \A d \in Runner : At(d, "core") \/ At(d, "observe") => Now(d).id # Now(c).id
        BY <3>2 DEF KeyInv
      <4>3. \A d \in Runner : Now(d)' = Now(d)
        BY <4>1, <1>1 DEF Now, Elsewhere
      <4>4. \A d \in Runner : d # c => (At(d, "core")' = At(d, "core"))
                                        /\ (At(d, "observe")' = At(d, "observe"))
        BY <4>1 DEF At, Elsewhere
      <4>5. \A d \in Runner : At(d, "core") \/ At(d, "observe") => Now(d).id \in Op
        BY AtOperation DEF PlaceInv, At
      <4> QED
        BY <3>1, <3>2, <4>1, <4>2, <4>3, <4>4, <4>5, <1>2 DEF KeyInv, AppliedOnce, At
    <3>3. CASE core[Now(c).id] \in {"ok", "bad"} /\ Goes(c, "observe") /\ UNCHANGED core
      BY <3>1, <3>3, <1>1, GoesMeans, KeyKept DEF Place
    <3> QED
      BY <2>8, <3>2, <3>3 DEF Call
  <2>9. CASE CoreDone(c) \/ CoreDoneBadly(c)
    <3>1. run[c].i <= Len(plan) /\ Now(c).id \in Op /\ At(c, "core")
      BY <2>9, AtOperation DEF CoreDone, CoreDoneBadly, At, PlaceInv
    <3>2. PICK v \in {"ok", "bad"} : core' = [core EXCEPT ![Now(c).id] = v]
      BY <2>9 DEF CoreDone, CoreDoneBadly
    <3>3. /\ applied' \in [Op -> Nat]
          /\ \A o \in Op : applied'[o] = applied[o]
                 \/ (o = Now(c).id /\ applied'[o] = applied[o] + 1)
      <4>1. CASE CoreDone(c)
        BY <4>1, <3>1, EffectMeans DEF CoreDone
      <4>2. CASE CoreDoneBadly(c)
        BY <4>2, <1>2 DEF CoreDoneBadly, ghosts
      <4> QED
        BY <2>9, <4>1, <4>2
    <3>4. Elsewhere(c) /\ run'[c].at = "observe" /\ run'[c].i = run[c].i
      BY <2>9, GoesMeans DEF CoreDone, CoreDoneBadly, Place
    <3>5. \A d \in Runner : Now(d)' = Now(d)
      BY <3>4, <1>1 DEF Now, Elsewhere
    <3>6. \A d \in Runner : d # c => (At(d, "core")' = At(d, "core"))
                                      /\ (At(d, "observe")' = At(d, "observe"))
      BY <3>4 DEF At, Elsewhere
    <3>7. \A d \in Runner : At(d, "core") \/ At(d, "observe") => Now(d).id \in Op
      BY AtOperation DEF PlaceInv, At
    <3>8. \A d \in Runner : d # c /\ At(d, "core") => Now(d).id # Now(c).id
      BY <3>1 DEF KeyInv
    <3>9. applied[Now(c).id] = 0
      BY <3>1 DEF KeyInv
    <3>10. AppliedOnce' /\ \A o \in Op : core'[o] = "absent" => applied'[o] = 0
      BY <3>1, <3>2, <3>3, <3>9, <1>2 DEF KeyInv, AppliedOnce
    <3>11. \A d \in Runner : At(d, "core")' =>
             core'[Now(d).id] = "pending" /\ applied'[Now(d).id] = 0
      BY <3>1, <3>2, <3>3, <3>4, <3>6, <3>7, <3>8, <1>2 DEF KeyInv, At
    <3>12. \A d \in Runner : At(d, "observe")' => core'[Now(d).id] \in {"ok", "bad"}
      BY <3>1, <3>2, <3>4, <3>6, <3>7, <1>2 DEF KeyInv
    <3>13. \A d, e \in Runner : (At(d, "core") /\ At(e, "core"))' /\ Now(d).id = Now(e).id => d = e
      BY <3>4, <3>6 DEF KeyInv, At
    <3> QED
      BY <3>5, <3>10, <3>11, <3>12, <3>13 DEF KeyInv
  <2>10. CASE CoreRaises(c)
    <3>1. /\ run[c].i <= Len(plan) /\ Now(c).id \in Op /\ At(c, "core")
          /\ Before(c).tries < MaxTries
      BY <2>10, AtOperation DEF CoreRaises, At, PlaceInv
    <3>2. core' = [core EXCEPT ![Now(c).id] = "absent"] /\ UNCHANGED applied
      BY <2>10 DEF CoreRaises, ghosts
    <3>3. \E why \in Signature : Fail(c, why)
      BY <2>10, <3>1, Failures DEF CoreRaises, FailInTool
    <3>4. Elsewhere(c) /\ run'[c].at \in {"next", "block"}
      BY <3>1, <3>3, FailMeans
    <3>5. \A d \in Runner : d # c => Now(d)' = Now(d)
      BY <3>4, <1>1 DEF Now, Elsewhere
    <3>6. \A d \in Runner : d # c => (At(d, "core")' = At(d, "core"))
                                      /\ (At(d, "observe")' = At(d, "observe"))
      BY <3>4 DEF At, Elsewhere
    <3>7. \A d \in Runner : At(d, "core") \/ At(d, "observe") => Now(d).id \in Op
      BY AtOperation DEF PlaceInv, At
    <3>8. \A d \in Runner : d # c /\ (At(d, "core") \/ At(d, "observe")) => Now(d).id # Now(c).id
      BY <3>1 DEF KeyInv
    <3>9. ~At(c, "core")' /\ ~At(c, "observe")'
      BY <3>4 DEF At
    <3>10. AppliedOnce' /\ \A o \in Op : core'[o] = "absent" => applied'[o] = 0
      BY <3>1, <3>2, <1>2 DEF KeyInv, AppliedOnce
    <3> QED
      BY <3>2, <3>5, <3>6, <3>7, <3>8, <3>9, <3>10, <3>1, <1>2 DEF KeyInv
  <2>11. CASE Observe(c)
    <3>1. UNCHANGED <<core, applied>> /\ run[c].i <= Len(plan) /\ Before(c).tries < MaxTries
      BY <2>11 DEF Observe, ghosts, At, PlaceInv
    <3>2. Succeeds(c) \/ \E why \in Signature : Fail(c, why)
      BY <2>11, <3>1, AtOperation, Failures DEF Observe
    <3> QED
      BY <3>1, <3>2, <1>1, SucceedsMeans, FailKey, KeyKept
  <2>12. CASE Crash(c)
    <3>1. /\ run'[c] = NoCall
          /\ \A d \in Runner : run'[d] = NoCall \/ run'[d] = run[d]
      BY <2>12, CrashMeans
    <3>2. UNCHANGED core
      BY <2>12 DEF Crash
    <3>6. \/ UNCHANGED <<disk, applied, unchecked>>
          \/ At(c, "core") /\ TakesEffect(c)
      BY <2>12 DEF Crash
    <3>3. \A d \in Runner : At(d, "core")' \/ At(d, "observe")' =>
            d # c /\ Now(d)' = Now(d) /\ (At(d, "core")' => At(d, "core"))
                  /\ (At(d, "observe")' => At(d, "observe"))
      BY <3>1, <1>1, NoCallIsOne DEF At, Now
    <3>4. CASE UNCHANGED <<disk, applied, unchecked>>
      BY <3>2, <3>3, <3>4 DEF KeyInv, AppliedOnce
    <3>5. CASE At(c, "core") /\ TakesEffect(c)
      <4>1. run[c].i <= Len(plan) /\ Now(c).id \in Op
        BY <3>5, AtOperation DEF PlaceInv, At
      <4>2. \A o \in Op : applied'[o] = applied[o]
                 \/ (o = Now(c).id /\ applied'[o] = applied[o] + 1)
        BY <3>5, <4>1, EffectMeans
      <4>3. core[Now(c).id] = "pending" /\ applied[Now(c).id] = 0
        BY <3>5 DEF KeyInv
      <4>4. AppliedOnce' /\ \A o \in Op : core'[o] = "absent" => applied'[o] = 0
        BY <3>2, <4>2, <4>3, <1>2 DEF KeyInv, AppliedOnce
      <4>5. \A d \in Runner : At(d, "core") => Now(d).id \in Op
        BY AtOperation DEF PlaceInv, At
      <4>6. \A d \in Runner : d # c /\ At(d, "core") => Now(d).id # Now(c).id
        BY <3>5 DEF KeyInv
      <4> QED
        BY <3>2, <3>3, <4>2, <4>4, <4>5, <4>6 DEF KeyInv
    <3> QED
      BY <3>4, <3>5, <3>6
  <2> QED
    BY <1>3, <2>1, <2>2, <2>3, <2>4, <2>5, <2>6, <2>7, <2>8, <2>9, <2>10, <2>11,
       <2>12 DEF Acts
<1>4. CASE UNCHANGED <<run, core, applied>>
  BY <1>4, <1>1 DEF KeyInv, AppliedOnce, At, Now
<1> QED
  BY <1>3, <1>4 DEF Next, Edit, OtherTakes, OtherLeaves, vars, planVars, durable, ghosts

PlanInv == PlanTyped /\ PlaceInv /\ KeyInv

LEMMA PlanInvInit ==
  ASSUME Init
  PROVE  PlanInv
<1>1. \A c \in Runner : run[c].at = "idle"
  BY NoCallIsOne DEF Init
<1>2. KeyInv
  BY <1>1 DEF Init, KeyInv, AppliedOnce, At
<1> QED
  BY <1>2, PlanTypedInit DEF PlanInv

\* However often the plan is retried, and whoever dies or runs beside it, no
\* patch of it is carried out twice.
THEOREM PatchesApplyOnce == Spec => []AppliedOnce
<1>1. PlanInv /\ [Next]_vars => PlanInv'
  BY PlanTypedStep, KeyStep DEF PlanInv
<1>2. PlanInv => AppliedOnce
  BY DEF PlanInv, KeyInv
<1> QED
  BY <1>1, <1>2, PlanInvInit, PTL DEF Spec

-----------------------------------------------------------------------------
(* The journal is never ahead of the tools.                                *)

\* What a tool has recorded as done stays so.
LEMMA OkStays ==
  ASSUME PlanTyped, PlaceInv, KeyInv, [Next]_vars, NEW o \in Op, core[o] = "ok"
  PROVE  core'[o] = "ok"
<1>1. core \in [Op -> {"absent", "pending", "ok", "bad"}]
  BY DEF PlanTyped, PlanTypeOK
<1>2. CASE UNCHANGED core
  BY <1>2
<1>3. ASSUME NEW c \in Runner, Call(c) \/ CoreDone(c) \/ CoreDoneBadly(c) \/ CoreRaises(c)
      PROVE  core'[o] = "ok"
  <2>1. Call(c) => UNCHANGED core \/ core[Now(c).id] = "absent"
    BY DEF Call
  <2>2. CoreDone(c) \/ CoreDoneBadly(c) \/ CoreRaises(c) => core[Now(c).id] = "pending"
    BY DEF CoreDone, CoreDoneBadly, CoreRaises, KeyInv
  <2>3. UNCHANGED core \/ \E v \in {"absent", "pending", "ok", "bad"} :
          core' = [core EXCEPT ![Now(c).id] = v]
    BY <1>3 DEF Call, CoreDone, CoreDoneBadly, CoreRaises
  <2> QED
    BY <1>1, <1>3, <2>1, <2>2, <2>3
<1>4. ASSUME NEW c \in Runner, Acts(c)
      PROVE  UNCHANGED core \/ Call(c) \/ CoreDone(c) \/ CoreDoneBadly(c) \/ CoreRaises(c)
  BY <1>4 DEF Acts, Start, Claim, TakeLease, LeaseRefused, Baseline, Strand, Skip,
     OutOfBudget, LeaseLost, Prepare, CallFails, Read, Observe, Final, Block, Throw,
     Leave, Crash, durable
<1>5. ASSUME NEW p \in Path, Edit(p)
      PROVE  UNCHANGED core
  BY <1>5 DEF Edit
<1>6. ASSUME NEW q \in Other, OtherTakes(q) \/ OtherLeaves(q)
      PROVE  UNCHANGED core
  BY <1>6 DEF OtherTakes, OtherLeaves, planVars, durable
<1>7. UNCHANGED vars => UNCHANGED core
  BY DEF vars, planVars, durable
<1> QED
  BY <1>2, <1>3, <1>4, <1>5, <1>6, <1>7 DEF Next

\* One entry more that is a success only where it may be.
LEMMA HonestEntry ==
  ASSUME PlanTyped, NEW c \in Runner, run[c].i <= Len(plan), Honest(run[c].done),
         NEW e \in Entry,
         e.st = "success" => Now(c).action = "read" \/ core[Now(c).id] = "ok"
  PROVE  Honest([run[c].done EXCEPT ![Now(c).id] = e])
<1>1. Now(c) \in Steps /\ run[c].done \in [Op -> Entry]
  BY AtOperation DEF PlanTyped, CallRecord
<1>2. \A s \in Steps : s.id = Now(c).id => s = Now(c)
  BY <1>1, OneOperation
<1> DEFINE done == [run[c].done EXCEPT ![Now(c).id] = e]
<1>3. ASSUME NEW s \in Steps, done[s.id].st = "success", s.action # "read"
      PROVE  core[s.id] = "ok"
  <2>1. Now(c).id \in Op
    BY AtOperation
  <2>2. CASE s.id = Now(c).id
    BY <1>1, <1>2, <1>3, <2>1, <2>2
  <2>3. CASE s.id # Now(c).id
    <3>1. done[s.id] = run[c].done[s.id]
      <4>1. s.id \in Op
        BY Identifiers
      <4> QED
        BY <4>1, <1>1, <2>3
    <3> QED
      BY <3>1, <1>3 DEF Honest
  <2> QED
    BY <2>2, <2>3
<1> QED
  BY <1>3 DEF Honest

LEMMA FailHonest ==
  ASSUME PlanTyped, NEW c \in Runner, run[c].i <= Len(plan), Honest(run[c].done),
         Before(c).tries < MaxTries, NEW why \in Signature, Fail(c, why)
  PROVE  /\ Elsewhere(c) /\ Honest(run'[c].done) /\ journal'.ops = run'[c].done
<1>1. PICK e \in Entry : e.st = "failed" /\ run'[c].done = [run[c].done EXCEPT ![Now(c).id] = e]
  BY FailMeans
<1>2. Honest(run'[c].done)
  BY <1>1, HonestEntry
<1> QED
  BY <1>2, FailMeans

LEMMA FreshIsHonest == Honest([o \in Op |-> Fresh]) \/ ~PlanTyped
<1>1. ASSUME PlanTyped
      PROVE  \A s \in Steps : s.id \in Op
  BY <1>1, Identifiers
<1> QED
  BY <1>1, FreshEntry DEF Honest

\* A step after which the journal and the calls claim no more than what has
\* been recorded before it.
LEMMA HonestKept ==
  ASSUME PlanTyped, PlaceInv, KeyInv, [Next]_vars,
         Honest(journal'.ops), \A d \in Runner : Honest(run'[d].done)
  PROVE  HonestInv'
<1>1. Steps' = Steps
  BY PlanStays DEF Steps
<1>2. \A s \in Steps : s.id \in Op
  BY Identifiers
<1>3. \A s \in Steps : core[s.id] = "ok" => core'[s.id] = "ok"
  BY <1>2, OkStays
<1>4. JournalIsHonest'
  BY <1>1, <1>3 DEF JournalIsHonest, Honest
<1>5. \A d \in Runner : Honest(run[d].done)'
  BY <1>1, <1>3 DEF Honest
<1> QED
  BY <1>4, <1>5 DEF HonestInv

\* One call moved, and the journal is as it was, that of the call, or fresh.
LEMMA HonestMove ==
  ASSUME PlanTyped, PlaceInv, KeyInv, HonestInv, [Next]_vars, NEW c \in Runner,
         Elsewhere(c), Honest(run'[c].done),
         journal'.ops = journal.ops \/ Honest(journal'.ops)
  PROVE  HonestInv'
<1>1. Honest(journal'.ops)
  BY DEF HonestInv, JournalIsHonest, Honest
<1>2. \A d \in Runner : Honest(run'[d].done)
  BY DEF HonestInv, Elsewhere
<1> QED
  BY <1>1, <1>2, HonestKept

LEMMA HonestStep ==
  ASSUME PlanTyped, PlaceInv, KeyInv, HonestInv, [Next]_vars
  PROVE  HonestInv'
<1>1. Honest(journal.ops) /\ \A c \in Runner : Honest(run[c].done)
  BY DEF HonestInv, JournalIsHonest, Honest
<1>2. ASSUME NEW c \in Runner, Acts(c)
      PROVE  HonestInv'
  <2>1. CASE Start(c)
    <3>1. Elsewhere(c) /\ run'[c].done = journal.ops /\ UNCHANGED journal
      BY <2>1, StartMeans DEF Start, durable
    <3> QED
      BY <3>1, <1>1, HonestMove
  <2>2. CASE Claim(c)
    <3>1. Elsewhere(c) /\ run'[c].done = run[c].done /\ journal'.ops = [o \in Op |-> Fresh]
      BY <2>2, GoesMeans DEF Claim, Place
    <3> QED
      BY <3>1, <1>1, FreshIsHonest, HonestMove
  <2>3. CASE TakeLease(c) \/ OutOfBudget(c) \/ LeaseLost(c) \/ Throw(c) \/ Call(c)
             \/ CoreDone(c) \/ CoreDoneBadly(c)
    <3>1. UNCHANGED journal
      BY <2>3 DEF TakeLease, OutOfBudget, LeaseLost, Throw, Call, CoreDone,
         CoreDoneBadly, durable
    <3>2. \E place \in Place : Goes(c, place)
      BY <2>3 DEF TakeLease, OutOfBudget, LeaseLost, Throw, Call, CoreDone,
         CoreDoneBadly, Place
    <3>3. Elsewhere(c) /\ run'[c].done = run[c].done
      BY <3>2, GoesMeans
    <3> QED
      BY <3>1, <3>3, <1>1, HonestMove
  <2>4. CASE LeaseRefused(c) \/ Strand(c) \/ Leave(c)
    <3>1. UNCHANGED journal /\ Ends(c)
      BY <2>4 DEF LeaseRefused, Strand, Leave, durable
    <3>2. Elsewhere(c) /\ run'[c].done = [o \in Op |-> Fresh]
      BY <3>1, EndsMeans, NoCallIsOne
    <3> QED
      BY <3>1, <3>2, FreshIsHonest, HonestMove
  <2>5. CASE Baseline(c)
    <3>1. run' = [run EXCEPT ![c].at = "next", ![c].seen = disk] /\ UNCHANGED journal
      BY <2>5 DEF Baseline, durable
    <3>2. Elsewhere(c) /\ run'[c].done = run[c].done
      BY <3>1 DEF PlanTyped, CallRecord, Elsewhere
    <3> QED
      BY <3>1, <3>2, <1>1, HonestMove
  <2>6. CASE Skip(c)
    <3>1. UNCHANGED journal /\ Onward(c, run[c].done) /\ run[c].done \in [Op -> Entry]
      BY <2>6 DEF Skip, durable, PlanTyped, CallRecord
    <3> QED
      BY <3>1, <1>1, OnwardMeans, HonestMove
  <2>7. CASE Prepare(c)
    <3>1. run[c].i <= Len(plan) /\ Before(c).tries < MaxTries
      BY <2>7 DEF Prepare, Due, AtOp, AttemptsLeft
    <3>2. Now(c) \in Step
      BY <3>1, Operation DEF PlanTyped, PlanTypeOK, Now
    <3>3. CASE \E why \in Signature : Fail(c, why)
      BY <3>1, <3>3, <1>1, FailHonest, HonestMove
    <3>4. CASE Goes(c, "call") /\ UNCHANGED journal
      BY <3>4, <1>1, GoesMeans, HonestMove DEF Place
    <3>5. CASE /\ Goes(c, "call")
               /\ Writes([run[c].done EXCEPT ![Now(c).id] = [Fresh EXCEPT !.st = "running"]], journal.status)
      <4>1. Honest([run[c].done EXCEPT ![Now(c).id] = [Fresh EXCEPT !.st = "running"]])
        BY <3>1, <1>1, FreshEntry, HonestEntry
      <4>2. Honest(journal'.ops)
        BY <3>5, <4>1 DEF Writes
      <4> QED
        BY <3>5, <4>2, <1>1, GoesMeans, HonestMove DEF Place
    <3> QED
      BY <2>7, <3>2, <3>3, <3>4, <3>5, Failures DEF Prepare, Missing, Step
  <2>8. CASE CallFails(c) \/ CoreRaises(c)
    <3>1. run[c].i <= Len(plan) /\ Before(c).tries < MaxTries
      BY <2>8 DEF CallFails, CoreRaises, At, PlaceInv
    <3>2. \E why \in Signature : Fail(c, why)
      BY <2>8, <3>1, AtOperation, Failures DEF CallFails, CoreRaises, FailInTool
    <3> QED
      BY <3>1, <3>2, <1>1, FailHonest, HonestMove
  <2>9. CASE Read(c)
    <3> DEFINE done == [run[c].done EXCEPT ![Now(c).id] = [Fresh EXCEPT !.st = "success"]]
    <3>1. run[c].i <= Len(plan) /\ Now(c).action = "read"
      BY <2>9 DEF Read, At, PlaceInv
    <3>2. done \in [Op -> Entry]
      BY FreshEntry DEF PlanTyped, CallRecord
    <3>3. Honest(done)
      BY <3>1, <1>1, FreshEntry, HonestEntry
    <3>4. Onward(c, done) /\ (Writes(done, journal.status) \/ UNCHANGED journal)
      BY <2>9 DEF Read
    <3> HIDE DEF done
    <3>5. Elsewhere(c) /\ run'[c].done = done /\ journal'.ops \in {done, journal.ops}
      BY <3>2, <3>4, OnwardMeans DEF Writes
    <3> QED
      BY <3>3, <3>5, HonestMove
  <2>10. CASE Observe(c)
    <3>1. run[c].i <= Len(plan) /\ Before(c).tries < MaxTries
      BY <2>10 DEF Observe, At, PlaceInv
    <3>2. CASE \E why \in Signature : Fail(c, why)
      BY <3>1, <3>2, <1>1, FailHonest, HonestMove
    <3>3. CASE core[Now(c).id] = "ok" /\ Succeeds(c)
      <4>1. Honest([run[c].done EXCEPT ![Now(c).id] = [Fresh EXCEPT !.st = "success"]])
        BY <3>1, <3>3, <1>1, FreshEntry, HonestEntry
      <4>2. /\ Elsewhere(c) /\ journal'.ops = run'[c].done
            /\ run'[c].done = [run[c].done EXCEPT ![Now(c).id] = [Fresh EXCEPT !.st = "success"]]
        BY <3>1, <3>3, SucceedsMeans
      <4> QED
        BY <4>1, <4>2, HonestMove
    <3> QED
      BY <2>10, <3>1, <3>2, <3>3, AtOperation, Failures DEF Observe
  <2>11. CASE Final(c) \/ Block(c)
    <3>1. journal'.ops \in {journal.ops, run[c].done} /\ (Goes(c, "leave") \/ Goes(c, "block"))
      BY <2>11 DEF Final, Block, Writes
    <3> QED
      BY <3>1, <1>1, GoesMeans, HonestMove DEF Place
  <2>12. CASE Crash(c)
    <3>1. /\ \A d \in Runner : run'[d] = NoCall \/ run'[d] = run[d]
          /\ UNCHANGED journal
      BY <2>12, CrashMeans DEF Crash
    <3>2. \A d \in Runner : Honest(run'[d].done)
      BY <3>1, <1>1, FreshIsHonest, NoCallIsOne
    <3> QED
      BY <3>1, <3>2, <1>1, HonestKept
  <2> QED
    BY <1>2, <2>1, <2>2, <2>3, <2>4, <2>5, <2>6, <2>7, <2>8, <2>9, <2>10, <2>11,
       <2>12 DEF Acts
<1>3. CASE UNCHANGED <<run, journal>>
  BY <1>1, <1>3, HonestKept
<1> QED
  BY <1>2, <1>3 DEF Next, Edit, OtherTakes, OtherLeaves, vars, planVars, durable

LEMMA PlanInvStep ==
  ASSUME PlanInv, HonestInv, [Next]_vars
  PROVE  PlanInv' /\ HonestInv'
BY PlanTypedStep, KeyStep, HonestStep DEF PlanInv

LEMMA HonestInit ==
  ASSUME Init
  PROVE  HonestInv
<1>1. PlanTyped
  BY PlanTypedInit
<1>2. journal.ops = [o \in Op |-> Fresh] /\ \A c \in Runner : run[c].done = [o \in Op |-> Fresh]
  BY NoCallIsOne DEF Init
<1> QED
  BY <1>1, <1>2, FreshIsHonest DEF HonestInv, JournalIsHonest, Honest

\* What the plan's journal calls a success has been recorded by the tool that
\* did it.
THEOREM JournalNeverAhead == Spec => []JournalIsHonest
<1>1. PlanInv /\ HonestInv => JournalIsHonest
  BY DEF HonestInv
<1> QED
  BY <1>1, PlanInvInit, HonestInit, PlanInvStep, PTL DEF Spec

-----------------------------------------------------------------------------
(* Calls of one process: a complete plan stays complete.                   *)

AloneInv == ~several =>
  /\ \A c, d \in Runner : ~At(c, "idle") /\ ~At(d, "idle") => c = d
  /\ journal.status = "complete" => \A c \in Runner : run[c].at \in {"idle", "leave"}

\* Unless the process dies, a step of a call is no other call's.
LEMMA OneMoves ==
  ASSUME PlanTyped, PlaceInv, NEW c \in Runner, Acts(c)
  PROVE  Crash(c) \/ Elsewhere(c)
<1> USE DEF PlanTyped, Elsewhere
<1>1. ASSUME NEW x, run' = [run EXCEPT ![c] = x]
      PROVE  Elsewhere(c)
  BY <1>1
<1>2. ASSUME NEW place \in Place, Goes(c, place)
      PROVE  Elsewhere(c)
  BY <1>2 DEF Goes
<1>3. ASSUME NEW done, Onward(c, done)
      PROVE  Elsewhere(c)
  BY <1>3 DEF Onward
<1>4. ASSUME NEW why, Fail(c, why)
      PROVE  Elsewhere(c)
  BY <1>4 DEF Fail
<1>5. Succeeds(c) => Elsewhere(c)
  BY DEF Succeeds
<1>6. Start(c) \/ LeaseRefused(c) \/ Strand(c) \/ Leave(c) => Elsewhere(c)
  BY <1>1 DEF Start, LeaseRefused, Strand, Leave, Ends
<1>7. ASSUME \/ Claim(c) \/ TakeLease(c) \/ OutOfBudget(c) \/ LeaseLost(c) \/ Call(c)
             \/ CoreDone(c) \/ CoreDoneBadly(c) \/ Final(c) \/ Block(c) \/ Throw(c)
      PROVE  Elsewhere(c)
  <2>1. \E place \in Place : Goes(c, place)
    BY <1>7 DEF Claim, TakeLease, OutOfBudget, LeaseLost, Call, CoreDone,
       CoreDoneBadly, Final, Block, Throw, Place
  <2> QED
    BY <2>1, <1>2
<1>8. Baseline(c) => Elsewhere(c)
  BY DEF Baseline
<1>9. Skip(c) \/ Read(c) => Elsewhere(c)
  BY <1>3 DEF Skip, Read
<1>10. Prepare(c) => Elsewhere(c)
  BY <1>2, <1>4 DEF Prepare, Place
<1>11. CallFails(c) \/ CoreRaises(c) \/ Observe(c) => Elsewhere(c)
  BY <1>4, <1>5 DEF CallFails, CoreRaises, Observe, FailInTool
<1> QED
  BY <1>6, <1>7, <1>8, <1>9, <1>10, <1>11 DEF Acts

\* A call that has found the plan's end is the only one that completes it.
LEMMA Completes ==
  ASSUME PlanTyped, PlaceInv, NEW c \in Runner, Acts(c), journal'.status = "complete"
  PROVE  \/ journal.status = "complete"
         \/ Final(c) /\ run'[c].at = "leave"
<1>1. ASSUME NEW why, Fail(c, why)
      PROVE  FALSE
  BY <1>1 DEF Fail, Writes
<1>2. CASE Final(c)
  <2>1. UNCHANGED journal \/ Goes(c, "leave")
    BY <1>2 DEF Final
  <2> QED
    BY <1>2, <2>1, GoesMeans DEF Place
<1>3. CASE Claim(c) \/ Block(c)
  BY <1>3 DEF Claim, Block, Writes
<1>4. CASE Prepare(c)
  <2>1. \/ \E why : Fail(c, why)
        \/ \E ops : Writes(ops, journal.status)
        \/ UNCHANGED journal
    BY <1>4 DEF Prepare
  <2> QED
    BY <1>1, <2>1 DEF Writes
<1>5. CASE CallFails(c) \/ CoreRaises(c) \/ Observe(c)
  BY <1>1, <1>5 DEF CallFails, CoreRaises, Observe, FailInTool, Succeeds, Writes
<1>6. CASE Read(c)
  BY <1>6 DEF Read, Writes
<1>7. CASE \/ Start(c) \/ TakeLease(c) \/ LeaseRefused(c) \/ Baseline(c) \/ Strand(c)
           \/ Skip(c) \/ OutOfBudget(c) \/ LeaseLost(c) \/ Call(c) \/ CoreDone(c)
           \/ CoreDoneBadly(c) \/ Throw(c) \/ Leave(c) \/ Crash(c)
  BY <1>7 DEF Start, TakeLease, LeaseRefused, Baseline, Strand, Skip, OutOfBudget,
     LeaseLost, Call, CoreDone, CoreDoneBadly, Throw, Leave, Crash, durable
<1> QED
  BY <1>2, <1>3, <1>4, <1>5, <1>6, <1>7 DEF Acts

\* What a call that is over or about to leave can do.
LEMMA LateMoves ==
  ASSUME NEW c \in Runner, Acts(c), run[c].at \in {"idle", "leave"}
  PROVE  Start(c) \/ Leave(c) \/ Crash(c)
BY DEF Acts, Claim, TakeLease, LeaseRefused, Baseline, Strand, Skip, OutOfBudget,
   LeaseLost, Prepare, CallFails, Read, Call, CoreDone, CoreDoneBadly, CoreRaises,
   Observe, Final, Block, Throw, AtOp, Due, At

LEMMA OnlyStartsFromIdle ==
  ASSUME NEW c \in Runner, Acts(c), At(c, "idle")
  PROVE  Start(c)
<1>1. Start(c) \/ Leave(c) \/ Crash(c)
  BY LateMoves DEF At
<1> QED
  BY <1>1 DEF Leave, Crash, At

LEMMA AloneStep ==
  ASSUME PlanTyped, PlaceInv, AloneInv, [Next]_vars
  PROVE  AloneInv'
<1>1. several' = several
  BY PlanStays
<1>2. ASSUME ~several, NEW c \in Runner, Acts(c)
      PROVE  AloneInv'
  <2>1. CASE Crash(c)
    <3>1. \A d \in Runner : run'[d].at = "idle"
      BY <1>2, <2>1, CrashMeans, NoCallIsOne
    <3> QED
      BY <3>1 DEF AloneInv, At
  <2>2. CASE Start(c)
    <3>1. /\ \A d \in Runner : At(d, "idle")
          /\ journal.status # "complete" /\ UNCHANGED journal
      BY <1>2, <2>2 DEF Start, durable
    <3>2. Elsewhere(c)
      BY <2>2, StartMeans
    <3> QED
      BY <3>1, <3>2 DEF AloneInv, At, Elsewhere
  <2>3. CASE ~Crash(c) /\ ~Start(c)
    <3>1. Elsewhere(c) /\ ~At(c, "idle")
      BY <1>2, <2>3, OneMoves, OnlyStartsFromIdle
    <3>2. \A d \in Runner : d # c => run'[d].at = "idle"
      BY <1>2, <3>1 DEF AloneInv, At, Elsewhere
    <3>3. ASSUME journal'.status = "complete"
          PROVE  run'[c].at \in {"idle", "leave"}
      <4>1. CASE journal.status = "complete"
        <5>1. Leave(c)
          BY <1>2, <2>3, <4>1, LateMoves DEF AloneInv
        <5> QED
          BY <5>1, EndsMeans, NoCallIsOne DEF Leave
      <4> QED
        BY <1>2, <3>3, <4>1, Completes
    <3> QED
      BY <3>2, <3>3 DEF AloneInv, At
  <2> QED
    BY <2>1, <2>2, <2>3
<1>3. CASE UNCHANGED <<run, journal>>
  BY <1>1, <1>3 DEF AloneInv, At
<1>4. CASE several
  BY <1>1, <1>4 DEF AloneInv
<1> QED
  BY <1>2, <1>3, <1>4 DEF Next, Edit, OtherTakes, OtherLeaves, vars, planVars, durable

\* Within one process, no late or repeated call changes a complete plan.
THEOREM CompleteStays == Spec => CompleteIsFinal
<1>1. Init => PlanTyped /\ PlaceInv /\ AloneInv
  <2>1. Init => \A c \in Runner : run[c].at = "idle"
    BY NoCallIsOne DEF Init
  <2> QED
    BY <2>1, PlanTypedInit DEF AloneInv, At
<1>2. /\ PlanTyped /\ PlaceInv /\ AloneInv /\ [Next]_vars
      => PlanTyped' /\ PlaceInv' /\ AloneInv'
  BY PlanTypedStep, AloneStep
<1>3. ASSUME AloneInv, [Next]_vars, journal.status = "complete", ~several
      PROVE  journal' = journal
  <2>1. ASSUME NEW c \in Runner, Acts(c)
        PROVE  journal' = journal
    <3>1. Start(c) \/ Leave(c) \/ Crash(c)
      BY <1>3, <2>1, LateMoves DEF AloneInv
    <3> QED
      BY <3>1 DEF Start, Leave, Crash, durable
  <2> QED
    BY <1>3, <2>1 DEF Next, Edit, OtherTakes, OtherLeaves, vars, planVars, durable
<1>4. AloneInv /\ [Next]_vars
      => [journal.status = "complete" /\ ~several => journal' = journal]_vars
  BY <1>3
<1> QED
  BY <1>1, <1>2, <1>4, PTL DEF Spec, CompleteIsFinal

-----------------------------------------------------------------------------
(* The lease comes back.                                                   *)

\* A lease that a call has written, and whose process lives, is in the hands of
\* that call until it is given back, unless the call left it behind.
OwnInv ==
  repoLease.owner \in Runner /\ repoLease.process = "alive" =>
    /\ Leased /\ grip[repoLease.owner] = repoLease.id
    /\ repoLease.owner \in stranded \/ ~At(repoLease.owner, "idle")

\* The ways a call ends.
LEMMA Endings ==
  ASSUME PlanTyped, PlaceInv, NEW c \in Runner, Acts(c), run'[c].at = "idle"
  PROVE  LeaseRefused(c) \/ Strand(c) \/ Leave(c) \/ Crash(c)
<1>1. ASSUME \/ Claim(c) \/ TakeLease(c) \/ OutOfBudget(c) \/ LeaseLost(c) \/ Call(c)
             \/ CoreDone(c) \/ CoreDoneBadly(c) \/ Final(c) \/ Block(c) \/ Throw(c)
      PROVE  FALSE
  <2>1. \E place \in Place \ {"idle"} : Goes(c, place)
    BY <1>1 DEF Claim, TakeLease, OutOfBudget, LeaseLost, Call, CoreDone,
       CoreDoneBadly, Final, Block, Throw, Place
  <2> QED
    BY <2>1, GoesMeans
<1>2. ASSUME NEW why \in Signature, Fail(c, why), run[c].i <= Len(plan),
             Before(c).tries < MaxTries
      PROVE  FALSE
  BY <1>2, FailMeans
<1>3. ASSUME Prepare(c)
      PROVE  FALSE
  <2>1. run[c].i <= Len(plan) /\ Before(c).tries < MaxTries
    BY <1>3 DEF Prepare, Due, AtOp, AttemptsLeft
  <2>2. Now(c) \in Step
    BY <2>1, Operation DEF PlanTyped, PlanTypeOK, Now
  <2>3. Goes(c, "call") \/ \E why \in Signature : Fail(c, why)
    BY <1>3, <2>2, Failures DEF Prepare, Missing, Step
  <2> QED
    BY <2>1, <2>3, <1>2, GoesMeans DEF Place
<1>4. ASSUME CallFails(c) \/ CoreRaises(c) \/ Observe(c)
      PROVE  FALSE
  <2>1. run[c].i <= Len(plan) /\ Before(c).tries < MaxTries
    BY <1>4 DEF CallFails, CoreRaises, Observe, At, PlaceInv
  <2>2. Succeeds(c) \/ \E why \in Signature : Fail(c, why)
    BY <1>4, <2>1, AtOperation, Failures DEF CallFails, CoreRaises, Observe, FailInTool
  <2> QED
    BY <2>1, <2>2, <1>2, SucceedsMeans
<1>5. ASSUME Skip(c) \/ Read(c)
      PROVE  FALSE
  <2>1. \E done \in [Op -> Entry] : Onward(c, done)
    BY <1>5, FreshEntry DEF Skip, Read, PlanTyped, CallRecord
  <2> QED
    BY <2>1, OnwardMeans
<1>6. ~Start(c)
  BY StartMeans
<1>7. ~Baseline(c)
  BY DEF Baseline, PlanTyped, CallRecord
<1> QED
  BY <1>1, <1>3, <1>4, <1>5, <1>6, <1>7 DEF Acts

LEMMA OwnStep ==
  ASSUME PlanTyped, PlaceInv, OwnInv, [Next]_vars
  PROVE  OwnInv'
<1>1. Leased' = Leased
  BY PlanStays DEF Leased
<1>2. RepoTypeOK
  BY DEF PlanTyped, PlanTypeOK
<1>3. ASSUME NEW c \in Runner, Acts(c)
      PROVE  OwnInv'
  <2>1. CASE TakeLease(c)
    <3>1. Elsewhere(c) /\ run'[c].at = "baseline" /\ UNCHANGED stranded
      BY <2>1, GoesMeans DEF TakeLease, Place, ghosts
    <3>2. CASE ~Leased
      BY <2>1, <3>1, <3>2, <1>1 DEF TakeLease, OwnInv, repoVars, Elsewhere, At
    <3>3. CASE Leased /\ Reenter(c)
      BY <3>1, <3>3, <1>1, <1>2, Parameters
         DEF Reenter, OwnInv, Elsewhere, At, RepoTypeOK
    <3>4. CASE Leased /\ TakeOver(c)
      BY <3>1, <3>4, <1>1, <1>2, Parameters DEF TakeOver, OwnInv, At, RepoTypeOK
    <3> QED
      BY <2>1, <3>2, <3>3, <3>4 DEF TakeLease, RepoAcquire
  <2>2. CASE LeaseRefused(c)
    <3>1. Elsewhere(c) /\ UNCHANGED <<repoVars, stranded>> /\ Conflict(c)
      BY <2>2, EndsMeans DEF LeaseRefused, ghosts
    <3>2. repoLease.owner # c
      BY <3>1, Parameters DEF Conflict, SameOwner
    <3> QED
      BY <3>1, <3>2, <1>1 DEF OwnInv, repoVars, Elsewhere, At
  <2>3. CASE Strand(c)
    <3>1. Elsewhere(c) /\ UNCHANGED repoVars /\ stranded' = stranded \cup {c}
      BY <2>3, EndsMeans DEF Strand
    <3> QED
      BY <3>1, <1>1 DEF OwnInv, repoVars, Elsewhere, At
  <2>4. CASE Leave(c)
    <3>1. Elsewhere(c)
      BY <2>4, EndsMeans DEF Leave
    <3>2. CASE Leased /\ ~NotMine(c)
      BY <2>4, <3>2, Parameters DEF Leave, RepoRelease, NoRepositoryLease, OwnInv
    <3>3. CASE ~(Leased /\ ~NotMine(c))
      <4>1. grip' = [grip EXCEPT ![c] = 0] /\ UNCHANGED <<repoLease, stranded>>
        BY <2>4, <3>3 DEF Leave
      <4>2. repoLease.owner \in Runner /\ repoLease.process = "alive" => repoLease.owner # c
        BY <3>3 DEF OwnInv, NotMine
      <4> QED
        BY <3>1, <4>1, <4>2, <1>1, <1>2, Parameters DEF OwnInv, Elsewhere, At, RepoTypeOK
    <3> QED
      BY <3>2, <3>3
  <2>5. CASE Crash(c)
    <3> DEFINE dead == IF several THEN {c} ELSE Runner
    <3>1. /\ grip' = [d \in Caller |-> IF d \in dead THEN 0 ELSE grip[d]]
          /\ repoLease' = IF repoLease.owner \in dead THEN [repoLease EXCEPT !.process = "gone"] ELSE repoLease
          /\ stranded' = stranded \ dead
          /\ run' = [d \in Runner |-> IF d \in dead THEN NoCall ELSE run[d]]
      BY <2>5 DEF Crash
    <3> HIDE DEF dead
    <3>2. CASE repoLease.owner \in dead
      <4>1. repoLease'.process = "gone"
        BY <3>1, <3>2, <1>2 DEF RepoTypeOK, RepositoryLeaseFile
      <4> QED
        BY <4>1 DEF OwnInv
    <3>3. CASE repoLease.owner \notin dead
      BY <3>1, <3>3, <1>1, Parameters DEF OwnInv, At
    <3> QED
      BY <3>2, <3>3
  <2>6. CASE ~(TakeLease(c) \/ LeaseRefused(c) \/ Strand(c) \/ Leave(c) \/ Crash(c))
    <3>1. Elsewhere(c) /\ run'[c].at # "idle"
      BY <1>3, <2>6, OneMoves, Endings
    <3>2. UNCHANGED <<repoVars, stranded>>
      BY <1>3, <2>6 DEF Acts, Start, Claim, Baseline, Skip, OutOfBudget, LeaseLost,
         Prepare, CallFails, Read, Call, CoreDone, CoreDoneBadly, CoreRaises, Observe,
         Final, Block, Throw, ghosts
    <3> QED
      BY <3>1, <3>2, <1>1 DEF OwnInv, repoVars, Elsewhere, At
  <2> QED
    BY <2>1, <2>2, <2>3, <2>4, <2>5, <2>6
<1>4. ASSUME NEW o \in Other, OtherTakes(o) \/ OtherLeaves(o)
      PROVE  OwnInv'
  <2>1. UNCHANGED <<run, stranded>> /\ o \in Caller /\ o \notin Runner
    BY <1>4, Parameters DEF OtherTakes, OtherLeaves, planVars, ghosts
  <2>2. CASE Reenter(o)
    BY <2>1, <2>2, <1>1, <1>2, Parameters
       DEF Reenter, SameOwner, OwnInv, At, RepoTypeOK
  <2>3. CASE TakeOver(o)
    BY <2>1, <2>3 DEF TakeOver, OwnInv
  <2>4. CASE RepoRelease(o)
    BY <2>4, Parameters DEF RepoRelease, NoRepositoryLease, OwnInv
  <2> QED
    BY <1>4, <2>2, <2>3, <2>4 DEF OtherTakes, OtherLeaves, RepoAcquire
<1>5. CASE UNCHANGED <<run, repoVars, stranded>>
  BY <1>1, <1>5 DEF OwnInv, repoVars, At
<1> QED
  BY <1>3, <1>4, <1>5 DEF Next, Edit, vars, planVars, ghosts

\* A call that is over has given its lease back, unless it failed between taking
\* it and its first operation.
THEOREM LeaseReturned == Spec => []LeaseComesBack
<1>1. Init => PlanTyped /\ PlaceInv /\ OwnInv
  <2>1. Init => OwnInv
    BY Parameters DEF Init, RepoInit, NoRepositoryLease, OwnInv
  <2> QED
    BY <2>1, PlanTypedInit
<1>2. /\ PlanTyped /\ PlaceInv /\ OwnInv /\ [Next]_vars
      => PlanTyped' /\ PlaceInv' /\ OwnInv'
  BY PlanTypedStep, OwnStep
<1>3. OwnInv => LeaseComesBack
  BY DEF OwnInv, LeaseComesBack
<1> QED
  BY <1>1, <1>2, <1>3, PTL DEF Spec

-----------------------------------------------------------------------------
(* Where every failure stops the plan, a check comes last.                 *)

AllStop == \A s \in Steps : s.stops

\* Behind every call lie successes only.
AheadInv ==
  \A c \in Runner : \A n \in 1..run[c].i - 1 : run[c].done[plan[n].id].st = "success"

\* A check that has passed has done so after every patch before it.
VerifiedInv ==
  \A n, k \in DOMAIN plan :
    /\ n < k /\ plan[n].action = "patch"
    /\ plan[k].action = "check" /\ core[plan[k].id] = "ok"
    => core[plan[n].id] = "ok" /\ plan[n].id \notin unchecked

FinishedInv ==
  journal.status = "complete" => \A s \in Steps : s.action # "read" => core[s.id] = "ok"

UncheckedInv == \A u \in unchecked : \E s \in Steps : s.id = u /\ s.action = "patch"

CheckedInv == AllStop => AheadInv /\ VerifiedInv /\ FinishedInv /\ UncheckedInv

\* The call at its n-th operation: the operations of a plan are told apart by
\* their identifiers.
LEMMA PlanIsSequence ==
  ASSUME PlanTyped
  PROVE  Len(plan) \in Nat /\ DOMAIN plan = 1..Len(plan) /\ Accepted(plan)
<1>1. Accepted(plan)
  BY PlanAssumption DEF PlanTyped, PlanTypeOK
<1> QED
  BY <1>1 DEF Accepted

\* A call that stays in the plan keeps the successes behind it.
LEMMA AheadKept ==
  ASSUME PlanTyped, AheadInv, NEW c \in Runner, plan' = plan, Elsewhere(c),
         \A n \in 1..run'[c].i - 1 : run'[c].done[plan[n].id].st = "success"
  PROVE  AheadInv'
BY DEF AheadInv, Elsewhere

\* One entry more, at the operation the call is at.
LEMMA AheadEntry ==
  ASSUME PlanTyped, AheadInv, NEW c \in Runner, plan' = plan, Elsewhere(c),
         run[c].i <= Len(plan), NEW e \in Entry,
         run'[c].done = [run[c].done EXCEPT ![Now(c).id] = e],
         run'[c].i = run[c].i \/ (run'[c].i = run[c].i + 1 /\ e.st = "success")
  PROVE  AheadInv'
<1>1. run[c].i \in 1..Len(plan) /\ run[c].done \in [Op -> Entry] /\ Now(c).id \in Op
  BY AtOperation, PlanIsSequence DEF PlanTyped, PlanTypeOK
<1>2. ASSUME NEW n \in 1..run'[c].i - 1
      PROVE  run'[c].done[plan[n].id].st = "success"
  <2>1. n \in 1..Len(plan) /\ (n < run[c].i \/ (n = run[c].i /\ e.st = "success"))
    BY <1>1, PlanIsSequence
  <2>2. plan[n].id \in Op /\ (plan[n].id = Now(c).id => n = run[c].i)
    BY <2>1, <1>1, Operation, PlanIsSequence DEF Accepted, Now
  <2>3. CASE n = run[c].i /\ e.st = "success"
    BY <2>3, <1>1 DEF Now
  <2>4. CASE n < run[c].i
    <3>1. run[c].done[plan[n].id].st = "success"
      BY <1>1, <2>1, <2>4 DEF AheadInv
    <3>2. plan[n].id # Now(c).id
      BY <2>2, <2>4, <1>1
    <3> QED
      BY <1>1, <2>2, <3>1, <3>2
  <2> QED
    BY <2>1, <2>3, <2>4
<1> QED
  BY <1>2, AheadKept

LEMMA AheadMove ==
  ASSUME PlanTyped, AheadInv, NEW c \in Runner, plan' = plan, Elsewhere(c),
         run'[c].i = 1 \/ (run'[c].i = run[c].i /\ run'[c].done = run[c].done)
  PROVE  AheadInv'
<1>1. ASSUME NEW n \in 1..run'[c].i - 1
      PROVE  run'[c].done[plan[n].id].st = "success"
  <2>1. run'[c].i = run[c].i /\ run'[c].done = run[c].done
    BY <1>1
  <2> QED
    BY <1>1, <2>1 DEF AheadInv
<1> QED
  BY <1>1, AheadKept

LEMMA AheadStep ==
  ASSUME PlanTyped, PlaceInv, AllStop, AheadInv, [Next]_vars
  PROVE  AheadInv'
<1>1. plan' = plan
  BY PlanStays
<1>2. ASSUME NEW c \in Runner, run[c].i <= Len(plan), Before(c).tries < MaxTries,
             NEW why \in Signature, Fail(c, why)
      PROVE  AheadInv'
  <2>1. Now(c).stops
    BY <1>2, AtOperation DEF AllStop
  <2>2. /\ Elsewhere(c) /\ run'[c].i = run[c].i
        /\ \E e \in Entry : run'[c].done = [run[c].done EXCEPT ![Now(c).id] = e]
    BY <1>2, <2>1, FailMeans
  <2> QED
    BY <1>1, <1>2, <2>2, AheadEntry
<1>3. ASSUME NEW c \in Runner, Acts(c)
      PROVE  AheadInv'
  <2>1. CASE Start(c)
    BY <2>1, <1>1, StartMeans, AheadMove
  <2>2. CASE \/ Claim(c) \/ TakeLease(c) \/ OutOfBudget(c) \/ LeaseLost(c) \/ Call(c)
             \/ CoreDone(c) \/ CoreDoneBadly(c) \/ Final(c) \/ Block(c) \/ Throw(c)
    <3>1. \E place \in Place : Goes(c, place)
      BY <2>2 DEF Claim, TakeLease, OutOfBudget, LeaseLost, Call, CoreDone,
         CoreDoneBadly, Final, Block, Throw, Place
    <3> QED
      BY <3>1, <1>1, GoesMeans, AheadMove
  <2>3. CASE LeaseRefused(c) \/ Strand(c) \/ Leave(c)
    BY <2>3, <1>1, EndsMeans, NoCallIsOne, AheadMove DEF LeaseRefused, Strand, Leave
  <2>4. CASE Baseline(c)
    <3>1. Elsewhere(c) /\ run'[c].i = run[c].i /\ run'[c].done = run[c].done
      BY <2>4 DEF Baseline, PlanTyped, CallRecord, Elsewhere
    <3> QED
      BY <3>1, <1>1, AheadMove
  <2>5. CASE Skip(c)
    <3>1. /\ run[c].i <= Len(plan) /\ Before(c).st = "success"
          /\ Onward(c, run[c].done) /\ run[c].done \in [Op -> Entry]
      BY <2>5 DEF Skip, AtOp, PlanTyped, CallRecord
    <3>2. Elsewhere(c) /\ run'[c].i = run[c].i + 1 /\ run'[c].done = run[c].done
      BY <3>1, OnwardMeans
    <3>3. run'[c].done = [run[c].done EXCEPT ![Now(c).id] = Before(c)] /\ Before(c) \in Entry
      BY <3>1, <3>2, AtOperation DEF Before
    <3> QED
      BY <3>1, <3>2, <3>3, <1>1, AheadEntry
  <2>6. CASE Prepare(c)
    <3>1. run[c].i <= Len(plan) /\ Before(c).tries < MaxTries
      BY <2>6 DEF Prepare, Due, AtOp, AttemptsLeft
    <3>2. Now(c) \in Step
      BY <3>1, Operation DEF PlanTyped, PlanTypeOK, Now
    <3>3. Goes(c, "call") \/ \E why \in Signature : Fail(c, why)
      BY <2>6, <3>2, Failures DEF Prepare, Missing, Step
    <3> QED
      BY <3>1, <3>3, <1>1, <1>2, GoesMeans, AheadMove DEF Place
  <2>7. CASE CallFails(c) \/ CoreRaises(c)
    <3>1. run[c].i <= Len(plan) /\ Before(c).tries < MaxTries
      BY <2>7 DEF CallFails, CoreRaises, At, PlaceInv
    <3>2. \E why \in Signature : Fail(c, why)
      BY <2>7, <3>1, AtOperation, Failures DEF CallFails, CoreRaises, FailInTool
    <3> QED
      BY <3>1, <3>2, <1>2
  <2>8. CASE Read(c)
    <3> DEFINE done == [run[c].done EXCEPT ![Now(c).id] = [Fresh EXCEPT !.st = "success"]]
    <3>1. run[c].i <= Len(plan) /\ done \in [Op -> Entry] /\ Onward(c, done)
      BY <2>8, FreshEntry DEF Read, At, PlaceInv, PlanTyped, CallRecord
    <3>2. Elsewhere(c) /\ run'[c].i = run[c].i + 1 /\ run'[c].done = done
      BY <3>1, OnwardMeans
    <3> QED
      BY <3>1, <3>2, <1>1, FreshEntry, AheadEntry
  <2>9. CASE Observe(c)
    <3>1. run[c].i <= Len(plan) /\ Before(c).tries < MaxTries
      BY <2>9 DEF Observe, At, PlaceInv
    <3>2. Succeeds(c) \/ \E why \in Signature : Fail(c, why)
      BY <2>9, <3>1, AtOperation, Failures DEF Observe
    <3>3. CASE Succeeds(c)
      <4>1. /\ Elsewhere(c) /\ run'[c].i = run[c].i + 1
            /\ run'[c].done = [run[c].done EXCEPT ![Now(c).id] = [Fresh EXCEPT !.st = "success"]]
        BY <3>1, <3>3, SucceedsMeans
      <4> QED
        BY <4>1, <3>1, <1>1, FreshEntry, AheadEntry
    <3> QED
      BY <3>1, <3>2, <3>3, <1>2
  <2>10. CASE Crash(c)
    <3>1. \A d \in Runner : run'[d] = NoCall \/ run'[d] = run[d]
      BY <2>10, CrashMeans
    <3> QED
      BY <3>1, <1>1, NoCallIsOne DEF AheadInv
  <2> QED
    BY <1>3, <2>1, <2>2, <2>3, <2>4, <2>5, <2>6, <2>7, <2>8, <2>9, <2>10 DEF Acts
<1>4. CASE UNCHANGED run
  BY <1>1, <1>4 DEF AheadInv
<1> QED
  BY <1>3, <1>4 DEF Next, Edit, OtherTakes, OtherLeaves, vars, planVars

\* How a key comes to be recorded as done, and a patch as unchecked.
LEMMA WorkMeans ==
  ASSUME PlanTyped, PlaceInv, [Next]_vars
  PROVE  \/ UNCHANGED unchecked /\ \A o \in Op : core'[o] = "ok" => core[o] = "ok"
         \/ \E c \in Runner :
              /\ At(c, "core") /\ TakesEffect(c)
              /\ \A o \in Op : core'[o] = "ok" => core[o] = "ok" \/ o = Now(c).id
<1> DEFINE Still == UNCHANGED unchecked /\ \A o \in Op : core'[o] = "ok" => core[o] = "ok"
           Works(c) == /\ At(c, "core") /\ TakesEffect(c)
                       /\ \A o \in Op : core'[o] = "ok" => core[o] = "ok" \/ o = Now(c).id
<1>1. core \in [Op -> {"absent", "pending", "ok", "bad"}]
  BY DEF PlanTyped, PlanTypeOK
<1>2. UNCHANGED <<core, unchecked>> => Still
  OBVIOUS
<1>3. ASSUME NEW c \in Runner, Acts(c)
      PROVE  Still \/ Works(c)
  <2>1. CASE CoreDone(c)
    BY <2>1, <1>1 DEF CoreDone
  <2>2. CASE Crash(c)
    <3>1. UNCHANGED core
      BY <2>2 DEF Crash
    <3>2. CASE UNCHANGED <<disk, applied, unchecked>>
      BY <3>1, <3>2
    <3>3. CASE At(c, "core") /\ TakesEffect(c)
      BY <3>1, <3>3
    <3>4. \/ UNCHANGED <<disk, applied, unchecked>>
          \/ At(c, "core") /\ TakesEffect(c)
      BY <2>2 DEF Crash
    <3> QED
      BY <3>2, <3>3, <3>4
  <2>3. CASE Call(c) \/ CoreDoneBadly(c) \/ CoreRaises(c)
    <3>1. UNCHANGED unchecked
      BY <2>3 DEF Call, CoreDoneBadly, CoreRaises, ghosts
    <3>2. UNCHANGED core \/ \E v \in {"pending", "bad", "absent"} :
            core' = [core EXCEPT ![Now(c).id] = v]
      BY <2>3 DEF Call, CoreDoneBadly, CoreRaises
    <3> QED
      BY <3>1, <3>2, <1>1
  <2>4. CASE ~(CoreDone(c) \/ Crash(c) \/ Call(c) \/ CoreDoneBadly(c) \/ CoreRaises(c))
    <3>1. UNCHANGED <<core, unchecked>>
      BY <1>3, <2>4 DEF Acts, Start, Claim, TakeLease, LeaseRefused, Baseline, Strand,
         Skip, OutOfBudget, LeaseLost, Prepare, CallFails, Read, Observe, Final, Block,
         Throw, Leave, durable, ghosts
    <3> QED
      BY <3>1, <1>2
  <2> QED
    BY <2>1, <2>2, <2>3, <2>4
<1>4. ASSUME NEW p \in Path, Edit(p)
      PROVE  Still
  BY <1>4, <1>2 DEF Edit, ghosts
<1>5. ASSUME NEW o \in Other, OtherTakes(o) \/ OtherLeaves(o)
      PROVE  Still
  BY <1>5, <1>2 DEF OtherTakes, OtherLeaves, planVars, durable, ghosts
<1>6. UNCHANGED vars => Still
  BY <1>2 DEF vars, planVars, durable, ghosts
<1> HIDE DEF Still, Works
<1>7. Still \/ \E c \in Runner : Works(c)
  BY <1>3, <1>4, <1>5, <1>6 DEF Next
<1> QED
  BY <1>7 DEF Still, Works

LEMMA VerifiedStep ==
  ASSUME PlanInv, HonestInv, AllStop, AheadInv, VerifiedInv, UncheckedInv, [Next]_vars
  PROVE  VerifiedInv' /\ UncheckedInv'
<1>1. PlanTyped /\ PlaceInv /\ KeyInv /\ plan' = plan /\ Steps' = Steps
  BY PlanStays DEF PlanInv, Steps
<1>2. \A o \in Op : core[o] = "ok" => core'[o] = "ok"
  BY <1>1, OkStays
<1>3. \A n \in DOMAIN plan : n \in 1..Len(plan) /\ plan[n].id \in Op /\ plan[n] \in Steps
  BY <1>1, PlanIsSequence, Operation
<1>4. CASE UNCHANGED unchecked /\ \A o \in Op : core'[o] = "ok" => core[o] = "ok"
  BY <1>1, <1>2, <1>3, <1>4 DEF VerifiedInv, UncheckedInv
<1>5. ASSUME NEW c \in Runner, At(c, "core"), TakesEffect(c),
             \A o \in Op : core'[o] = "ok" => core[o] = "ok" \/ o = Now(c).id
      PROVE  VerifiedInv' /\ UncheckedInv'
  <2>1. /\ run[c].i \in 1..Len(plan) /\ Now(c) \in Steps /\ Now(c).id \in Op
        /\ core[Now(c).id] = "pending"
    BY <1>1, <1>5, AtOperation, PlanIsSequence DEF PlaceInv, KeyInv, At, PlanTyped, PlanTypeOK
  <2>2. /\ unchecked' \subseteq unchecked \cup {Now(c).id}
        /\ Now(c).action # "patch" => unchecked' = {}
    BY <1>1, <1>5, <2>1, EffectMeans
  <2>3. UncheckedInv'
    BY <1>1, <2>1, <2>2 DEF UncheckedInv
  <2>4. ASSUME NEW n \in DOMAIN plan, NEW k \in DOMAIN plan, n < k,
               plan[n].action = "patch", plan[k].action = "check", core'[plan[k].id] = "ok"
        PROVE  core'[plan[n].id] = "ok" /\ plan[n].id \notin unchecked'
    <3>1. CASE core[plan[k].id] = "ok"
      <4>1. core[plan[n].id] = "ok" /\ plan[n].id \notin unchecked
        BY <2>4, <3>1 DEF VerifiedInv
      <4>2. plan[n].id # Now(c).id
        BY <2>1, <4>1
      <4> QED
        BY <1>2, <1>3, <2>2, <4>1, <4>2
    <3>2. CASE plan[k].id = Now(c).id
      <4>1. k = run[c].i
        BY <1>1, <1>3, <2>1, <3>2, PlanIsSequence DEF Accepted, Now
      <4>2. unchecked' = {}
        BY <2>2, <2>4, <4>1 DEF Now
      <4>3. run[c].done[plan[n].id].st = "success"
        BY <1>3, <2>1, <2>4, <4>1 DEF AheadInv
      <4>4. core[plan[n].id] = "ok"
        BY <1>3, <2>4, <4>3 DEF HonestInv, Honest
      <4> QED
        BY <1>2, <1>3, <4>2, <4>4
    <3> QED
      BY <1>3, <1>5, <2>4, <3>1, <3>2
  <2>5. VerifiedInv'
    BY <1>1, <2>4 DEF VerifiedInv
  <2> QED
    BY <2>3, <2>5
<1> QED
  BY <1>1, <1>4, <1>5, WorkMeans

LEMMA FinishedStep ==
  ASSUME PlanInv, HonestInv, AllStop, AheadInv, FinishedInv, [Next]_vars
  PROVE  FinishedInv'
<1>1. PlanTyped /\ PlaceInv /\ KeyInv /\ Steps' = Steps
  BY PlanStays DEF PlanInv, Steps
<1>2. \A s \in Steps : core[s.id] = "ok" => core'[s.id] = "ok"
  BY <1>1, OkStays, Identifiers
<1>3. CASE journal.status = "complete"
  BY <1>1, <1>2, <1>3 DEF FinishedInv
<1>4. ASSUME NEW c \in Runner, Final(c)
      PROVE  \A s \in Steps : s.action # "read" => core[s.id] = "ok"
  <2>1. run[c].i \in Nat /\ run[c].i > Len(plan)
    BY <1>1, <1>4 DEF Final, PlanTyped, CallRecord
  <2>2. \A n \in DOMAIN plan : run[c].done[plan[n].id].st = "success"
    BY <1>1, <2>1, PlanIsSequence DEF AheadInv
  <2> QED
    BY <2>2 DEF HonestInv, Honest, Steps
<1>5. ASSUME journal'.status = "complete", journal.status # "complete"
      PROVE  \E c \in Runner : Final(c)
  <2>1. journal' # journal
    BY <1>5
  <2>2. PICK c \in Runner : Acts(c)
    BY <2>1 DEF Next, Edit, OtherTakes, OtherLeaves, vars, planVars, durable
  <2> QED
    BY <1>1, <1>5, <2>2, Completes
<1> QED
  BY <1>1, <1>2, <1>3, <1>4, <1>5 DEF FinishedInv

\* In a complete plan whose failures all stop it, a check has passed after every
\* patch that was made.
THEOREM CheckComesLast == Spec => []CheckedLast
<1>1. ASSUME PlanInv, HonestInv, CheckedInv, [Next]_vars
      PROVE  CheckedInv'
  <2>1. AllStop' <=> AllStop
    BY <1>1, PlanStays DEF AllStop, Steps
  <2>2. CASE AllStop
    <3>1. AheadInv'
      BY <1>1, <2>2, AheadStep DEF CheckedInv, PlanInv
    <3>2. VerifiedInv' /\ UncheckedInv'
      BY <1>1, <2>2, VerifiedStep DEF CheckedInv
    <3>3. FinishedInv'
      BY <1>1, <2>2, FinishedStep DEF CheckedInv
    <3> QED
      BY <3>1, <3>2, <3>3 DEF CheckedInv
  <2> QED
    BY <2>1, <2>2 DEF CheckedInv
<1>2. ASSUME Init
      PROVE  CheckedInv
  <2>1. \A c \in Runner : run[c].i = 1
    BY <1>2, NoCallIsOne DEF Init
  <2>2. \A o \in Op : core[o] = "absent"
    BY <1>2 DEF Init
  <2>3. \A n \in DOMAIN plan : plan[n].id \in Op
    BY <1>2, PlanTypedInit, PlanIsSequence, Operation
  <2>4. AheadInv
    BY <2>1 DEF AheadInv
  <2>5. VerifiedInv
    BY <2>2, <2>3 DEF VerifiedInv
  <2> QED
    BY <1>2, <2>4, <2>5 DEF Init, CheckedInv, FinishedInv, UncheckedInv
<1>3. ASSUME PlanInv, CheckedInv
      PROVE  CheckedLast
  <2>1. SUFFICES ASSUME journal.status = "complete", AllStop, NEW u \in unchecked
                 PROVE  FALSE
    BY DEF CheckedLast, AllStop
  <2>2. VerifiedInv /\ FinishedInv /\ UncheckedInv /\ PlanTyped
    BY <1>3, <2>1 DEF CheckedInv, PlanInv
  <2>3. PICK n \in DOMAIN plan : plan[n].id = u /\ plan[n].action = "patch"
    BY <2>1, <2>2 DEF UncheckedInv, Steps
  <2>4. PICK k \in DOMAIN plan : k > n /\ plan[k].action = "check"
    BY <2>2, <2>3, PlanIsSequence DEF Accepted
  <2>5. core[plan[k].id] = "ok"
    BY <2>1, <2>2, <2>4 DEF FinishedInv, Steps
  <2> QED
    BY <2>1, <2>2, <2>3, <2>4, <2>5, PlanIsSequence DEF VerifiedInv
<1> QED
  BY <1>1, <1>2, <1>3, PlanInvInit, HonestInit, PlanInvStep, PTL DEF Spec
=============================================================================
