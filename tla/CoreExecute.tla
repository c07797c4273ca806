---------------------------- MODULE CoreExecute ----------------------------
(***************************************************************************)
(* CoreRuntime.execute (src/src/karox/core.py) for mutating commands, as   *)
(* the hosted bridge calls it: take the session lease, run the command     *)
(* under it, answer, give the lease back.  Several requests, retries of    *)
(* each other or not, run against one SessionStore.                        *)
(*                                                                         *)
(* Each step is one call on the store or one effect on the repository, so  *)
(* that everything another process may do between two of them is there.    *)
(***************************************************************************)
EXTENDS SessionStore, FiniteSets

CONSTANTS
  Replayable,   \* inputs of commands with definition.replayable
  FileOp,       \* inputs of repo.write_file and repo.edit_file
  MaxEffect     \* bound: executions of handlers

ASSUME ExecuteAssumption ==
  /\ Replayable \subseteq Digest /\ FileOp \subseteq Replayable
  /\ MaxEffect \in Nat /\ Result = 1..MaxEffect

VARIABLES
  pc,       \* where the request of each process is in execute
  key,      \* its idempotency key
  input,    \* its input digest
  outcome,  \* the result of its handler, None before it ran
  world,    \* the input whose post-state the target file has, None at first
  effects,  \* history: every execution, [id, key, digest]
  acked     \* history: every answer given, <<key, digest, result>>

requestVars == <<pc, key, input, outcome>>
execVars == <<pc, key, input, outcome, world, effects, acked>>
vars == <<storeVars, execVars>>

Stage == {"idle", "admit", "stop", "checkpoint", "reload", "validate",
          "reserve", "effect", "complete", "respond", "leave"}

Effect == [id : Result, key : Key, digest : Digest]

Init ==
  /\ StoreInit
  /\ pc = [c \in Client |-> "idle"]
  /\ key = [c \in Client |-> None]
  /\ input = [c \in Client |-> None]
  /\ outcome = [c \in Client |-> None]
  /\ world = None
  /\ effects = {}
  /\ acked = {}

Goto(c, from, to) == pc[c] = from /\ pc' = [pc EXCEPT ![c] = to]

Unanswered == UNCHANGED <<key, input, outcome, world, effects, acked>>

-----------------------------------------------------------------------------
(* The hosted bridge takes the lease; a busy session is waited for, then   *)
(* refused, which leaves everything as it was.                             *)
Attach(c, k, d) ==
  /\ Goto(c, "idle", "admit")
  /\ Acquire(c)
  /\ key' = [key EXCEPT ![c] = k]
  /\ input' = [input EXCEPT ![c] = d]
  /\ outcome' = [outcome EXCEPT ![c] = None]
  /\ UNCHANGED <<world, effects, acked>>

\* _load_session: a missing or revoked session is refused.
LoadSession(c) == ~disk.revoked /\ Load(c)

Admit(c) == Goto(c, "admit", "stop") /\ LoadSession(c) /\ Unanswered

\* _apply_smart_stop: the risk gate lets the command pass, with or without a
\* rollback checkpoint saved under the inherited lease.
PassStop(c) ==
  /\ Goto(c, "stop", "reload")
  /\ UNCHANGED storeVars /\ Unanswered

StartCheckpoint(c) ==
  /\ Goto(c, "stop", "checkpoint")
  /\ ValidLease(c) /\ Load(c) /\ Unanswered

SaveCheckpoint(c) ==
  Goto(c, "checkpoint", "reload") /\ SaveEdit(c) /\ Unanswered

\* A mutation continues from a fresh record, after the checkpoint.
Reload(c) == Goto(c, "reload", "validate") /\ LoadSession(c) /\ Unanswered

\* validate_lease; only a replayable command reserves its key.
Validate(c) ==
  /\ pc[c] = "validate" /\ CanLock(c) /\ ValidLease(c)
  /\ pc' = [pc EXCEPT ![c] = IF input[c] \in Replayable THEN "reserve" ELSE "effect"]
  /\ UNCHANGED storeVars /\ Unanswered

\* A reservation that stays in memory.
ReserveUnsaved(c) ==
  /\ Goto(c, "reserve", "effect")
  /\ rec[c].idem[key[c]].st = "free"
  /\ UNCHANGED storeVars /\ Unanswered

Reserve(c) ==
  /\ Goto(c, "reserve", "effect")
  /\ BeginIdempotent(c, key[c], input[c])
  /\ Unanswered

\* A replay that compares neither input nor post-state.
ReplayOfAnyInput(c) == rec[c].idem[key[c]].st = "complete"

\* The stored result may be answered again: same input, and for a file the
\* post-state it reports is still there (_validate_idempotent_replay).
MayReplay(c) ==
  LET e == rec[c].idem[key[c]]
  IN  /\ e.st = "complete" /\ e.digest = input[c]
      /\ input[c] \in FileOp => world = input[c]

Replay(c) ==
  /\ Goto(c, "reserve", "leave")
  /\ MayReplay(c)
  /\ acked' = acked \cup {<<key[c], input[c], rec[c].idem[key[c]].result>>}
  /\ UNCHANGED storeVars
  /\ UNCHANGED <<key, input, outcome, world, effects>>

\* A handler whose result is dropped.
RunHandlerForgetting(c) ==
  /\ Goto(c, "effect", "complete")
  /\ \E r \in Result :
       /\ r = Cardinality(effects) + 1
       /\ effects' = effects \cup {[id |-> r, key |-> key[c], digest |-> input[c]]}
  /\ world' = IF input[c] \in FileOp THEN input[c] ELSE world
  /\ UNCHANGED storeVars
  /\ UNCHANGED <<key, input, outcome, acked>>

\* The handler.  Its effect on the repository is not fenced.
RunHandler(c) ==
  /\ Goto(c, "effect", "complete")
  /\ \E r \in Result :
       /\ r = Cardinality(effects) + 1
       /\ effects' = effects \cup {[id |-> r, key |-> key[c], digest |-> input[c]]}
       /\ outcome' = [outcome EXCEPT ![c] = r]
  /\ world' = IF input[c] \in FileOp THEN input[c] ELSE world
  /\ UNCHANGED storeVars
  /\ UNCHANGED <<key, input, acked>>

\* An answer that is not saved first.
CompleteUnsaved(c) ==
  Goto(c, "complete", "respond") /\ UNCHANGED storeVars /\ Unanswered

\* The result, the evidence and the completed key in one save; a command that
\* is not replayable saves only its evidence.
Complete(c) ==
  /\ Goto(c, "complete", "respond")
  /\ IF input[c] \in Replayable
     THEN CompleteIdempotent(c, key[c], outcome[c])
     ELSE SaveEdit(c)
  /\ Unanswered

Respond(c) ==
  /\ Goto(c, "respond", "leave")
  /\ acked' = acked \cup {<<key[c], input[c], outcome[c]>>}
  /\ UNCHANGED storeVars
  /\ UNCHANGED <<key, input, outcome, world, effects>>

-----------------------------------------------------------------------------
(* The ways out without an answer.                                         *)

CanSave(c) ==
  ValidLease(c) /\ rec[c].exists /\ disk.exists /\ RevisionMatches(c) /\ CanWrite

\* An exception: the session is gone or revoked, the gate stops the command,
\* the lease is no longer good, preflight rejects the input, the key belongs to
\* another input or to an unfinished attempt or its result is out of date, a
\* save finds another revision (or the bound MaxRev), the handler raises before
\* or after its effect, the heartbeat failed before the answer.
Raise(c) ==
  /\ \/ pc[c] \in {"admit", "reload"} /\ (~disk.exists \/ disk.revoked)
     \/ pc[c] \in {"stop", "validate", "effect", "respond"}
     \/ pc[c] = "checkpoint" /\ ~CanSave(c)
     \/ /\ pc[c] = "reserve" /\ ~MayReplay(c)
        /\ rec[c].idem[key[c]].st # "free" \/ ~CanSave(c)
     \/ pc[c] = "complete"
  /\ pc' = [pc EXCEPT ![c] = "leave"]
  /\ UNCHANGED storeVars /\ Unanswered

\* A request that ends without its release.
DetachHolding(c) == Goto(c, "leave", "idle") /\ UNCHANGED storeVars /\ Unanswered

Detach(c) == Goto(c, "leave", "idle") /\ Release(c) /\ Unanswered

\* The heartbeat thread of the request.
Beat(c) == pc[c] # "idle" /\ Heartbeat(c) /\ UNCHANGED execVars

Die(c) == Crash(c) /\ pc' = [pc EXCEPT ![c] = "idle"] /\ Unanswered

\* What others do to the session, and time.
Meanwhile ==
  /\ Revoke \/ Rename \/ Archive \/ Unarchive \/ AcquireCutShort \/ Tick
  /\ UNCHANGED execVars

RequestStep(c) ==
  \/ Admit(c) \/ PassStop(c) \/ StartCheckpoint(c) \/ SaveCheckpoint(c)
  \/ Reload(c) \/ Validate(c) \/ Reserve(c) \/ Replay(c)
  \/ RunHandler(c) \/ Complete(c) \/ Respond(c)
  \/ Raise(c) \/ Detach(c)

Next ==
  \/ \E c \in Client, k \in Key, d \in Digest : Attach(c, k, d)
  \/ \E c \in Client : RequestStep(c) \/ Beat(c) \/ Die(c)
  \/ Meanwhile

Spec == Init /\ [][Next]_vars

\* A live request runs on: the process is scheduled, and every wait inside
\* execute is bounded.
FairSpec == Spec /\ \A c \in Client : WF_vars(RequestStep(c))

-----------------------------------------------------------------------------
(* Properties.                                                             *)

\* Every variable stays in its domain.
ExecTypeOK ==
  /\ TypeOK
  /\ pc \in [Client -> Stage]
  /\ key \in [Client -> Key \cup {None}]
  /\ input \in [Client -> Digest \cup {None}]
  /\ outcome \in [Client -> Result \cup {None}]
  /\ world \in Digest \cup {None}
  /\ effects \subseteq Effect
  /\ acked \subseteq Key \X Digest \X Result

ReplayableEffects == {e \in effects : e.digest \in Replayable}

\* A key is executed at most once, whatever crashes, expires, is taken over or
\* retried: an attempt that may have run is never run again.
AtMostOnce ==
  \A e, f \in ReplayableEffects : e.key = f.key => e = f

\* The intent is on disk before the mutation runs, with the input it runs on,
\* and stays there.
IntentPrecedesEffect ==
  \A e \in ReplayableEffects :
    /\ disk.idem[e.key].st # "free"
    /\ disk.idem[e.key].digest = e.digest

\* An answer, first or replayed, is the recorded result of the one execution
\* of its key, on the input that was asked for; it is on disk before it is
\* given, so no later crash takes it back.
AnswersAreDurable ==
  \A a \in acked :
    a[2] \in Replayable =>
      /\ disk.idem[a[1]] = [st |-> "complete", digest |-> a[2], result |-> a[3]]
      /\ [id |-> a[3], key |-> a[1], digest |-> a[2]] \in effects

\* The abstract protocol, key by key: what the store and the runtime do
\* together implements MutationJournal.
Journal == INSTANCE MutationJournal WITH
  entry <- disk.idem,
  ran <- [k \in Key |-> {e.id : e \in {f \in ReplayableEffects : f.key = k}}],
  acked <- {a \in acked : a[2] \in Replayable}

ImplementsJournal == Journal!JournalSpec

\* Every request gives its session lease back, by whatever way it leaves
\* CoreRuntime.execute.  The bridge's own exits around it are HostedBridge's.
LeaseIsGivenBack == \A c \in Client : held[c] # 0 ~> held[c] = 0
=============================================================================
