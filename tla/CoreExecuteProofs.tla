-------------------------- MODULE CoreExecuteProofs --------------------------
(* Theorems about CoreExecute, for every set of processes, keys, inputs and *)
(* results.                                                                *)
EXTENDS CoreExecute, SessionStoreProofs, FiniteSetTheorems

\* A request has a key and an input, and a result once its handler ran.
RequestInv ==
  \A c \in Client :
    /\ pc[c] # "idle" => key[c] \in Key /\ input[c] \in Digest
    /\ pc[c] \in {"complete", "respond"} => outcome[c] \in Result

\* The executions of replayable commands on key k.
Runs(k) == {e \in effects : e.key = k /\ e.digest \in Replayable}

\* What a request past its reservation knows of its key.
StageInv ==
  \A c \in Client :
    pc[c] \in {"effect", "complete", "respond"} /\ input[c] \in Replayable =>
      /\ disk.idem[key[c]].digest = input[c]
      /\ pc[c] = "effect" =>
           disk.idem[key[c]].st = "pending" /\ Runs(key[c]) = {}
      /\ pc[c] = "complete" =>
           /\ disk.idem[key[c]].st = "pending"
           /\ [id |-> outcome[c], key |-> key[c], digest |-> input[c]] \in effects
      /\ pc[c] = "respond" =>
           /\ disk.idem[key[c]].st = "complete"
           /\ disk.idem[key[c]].result = outcome[c]

\* Two requests never work on the same reservation.
ExclusiveInv ==
  \A c, d \in Client :
    /\ c # d
    /\ pc[c] \in {"effect", "complete"} /\ input[c] \in Replayable
    /\ pc[d] \in {"effect", "complete"} /\ input[d] \in Replayable
    => key[c] # key[d]

\* A completed key has run, with the recorded result.
EntryInv ==
  \A k \in Key :
    disk.idem[k].st = "complete" =>
      [id |-> disk.idem[k].result, key |-> k, digest |-> disk.idem[k].digest]
        \in effects

\* A completed key seen in an old copy is completed the same way on disk.
OldCopyInv ==
  \A c \in Client : \A k \in Key :
    rec[c].idem[k].st = "complete" =>
      rec[c].idem[k] = disk.idem[k]

KeyInv ==
  /\ disk.exists
  /\ StageInv /\ ExclusiveInv /\ EntryInv /\ OldCopyInv
  /\ AtMostOnce /\ IntentPrecedesEffect /\ AnswersAreDurable

ExecInv == StoreInv /\ ExecTypeOK /\ RequestInv /\ KeyInv

-----------------------------------------------------------------------------
(* The runtime uses the store as the store is meant to be used.            *)

\* Every step of the runtime is one operation of the store or none.
LEMMA NextIsStoreStep ==
  ASSUME RequestInv, Next
  PROVE  StoreNext \/ UNCHANGED storeVars
<1>1. ASSUME NEW c \in Client, NEW k \in Key, NEW d \in Digest, Attach(c, k, d)
      PROVE  StoreNext
  BY <1>1 DEF Attach, StoreNext, ClientStep
<1>2. ASSUME NEW c \in Client, RequestStep(c)
      PROVE  StoreNext \/ UNCHANGED storeVars
  <2>1. CASE PassStop(c) \/ Validate(c) \/ Replay(c) \/ RunHandler(c)
             \/ Respond(c) \/ Raise(c)
    BY <2>1 DEF PassStop, Validate, Replay, RunHandler, Respond, Raise
  <2>2. CASE Admit(c) \/ StartCheckpoint(c) \/ Reload(c)
    BY <2>2 DEF Admit, StartCheckpoint, Reload, LoadSession, StoreNext, ClientStep
  <2>3. CASE SaveCheckpoint(c) \/ Detach(c)
    BY <2>3 DEF SaveCheckpoint, Detach, StoreNext, ClientStep
  <2>4. CASE Reserve(c)
    <3>1. /\ BeginIdempotent(c, key[c], input[c])
          /\ key[c] \in Key /\ input[c] \in Digest
      BY <2>4 DEF Reserve, Goto, RequestInv
    <3> QED
      BY <3>1 DEF StoreNext, ClientStep
  <2>5. CASE Complete(c)
    <3>1. /\ CompleteIdempotent(c, key[c], outcome[c]) \/ SaveEdit(c)
          /\ key[c] \in Key /\ outcome[c] \in Result
      BY <2>5 DEF Complete, Goto, RequestInv
    <3> QED
      BY <3>1 DEF StoreNext, ClientStep
  <2> QED
    BY <2>1, <2>2, <2>3, <2>4, <2>5, <1>2 DEF RequestStep
<1>3. ASSUME NEW c \in Client, Beat(c) \/ Die(c)
      PROVE  StoreNext
  BY <1>3 DEF Beat, Die, StoreNext, ClientStep, LifecycleStep
<1>4. CASE Meanwhile
  BY <1>4 DEF Meanwhile, StoreNext, LifecycleStep
<1> QED
  BY <1>1, <1>2, <1>3, <1>4 DEF Next

-----------------------------------------------------------------------------
(* Types.                                                                  *)

\* A step keeps the domains of the variables and what a request carries.
LEMMA TypeStep ==
  ASSUME StoreInv', ExecTypeOK, RequestInv, EntryInv, OldCopyInv, Next
  PROVE  ExecTypeOK' /\ RequestInv'
<1> USE DEF ExecTypeOK
<1>0. TypeOK'
  BY DEF StoreInv
<1>1. ASSUME NEW c \in Client, NEW k \in Key, NEW d \in Digest, Attach(c, k, d)
      PROVE  ExecTypeOK' /\ RequestInv'
  BY <1>0, <1>1 DEF Attach, Goto, Stage, RequestInv
<1>2. ASSUME NEW c \in Client,
             NEW q \in {"stop", "checkpoint", "reload", "validate", "reserve",
                        "effect", "leave", "idle"},
             pc' = [pc EXCEPT ![c] = q], Unanswered,
             pc[c] # "idle" \/ q = "idle"
      PROVE  ExecTypeOK' /\ RequestInv'
  BY <1>0, <1>2 DEF Unanswered, Stage, RequestInv
<1>3. ASSUME NEW c \in Client, Replay(c)
      PROVE  ExecTypeOK' /\ RequestInv'
  <2>1. /\ key[c] \in Key /\ input[c] \in Digest
        /\ pc' = [pc EXCEPT ![c] = "leave"]
        /\ rec[c].idem[key[c]].st = "complete"
        /\ acked' = acked \cup {<<key[c], input[c], rec[c].idem[key[c]].result>>}
        /\ UNCHANGED <<key, input, outcome, world, effects>>
    BY <1>3 DEF Replay, Goto, RequestInv, MayReplay
  <2>2. rec[c].idem[key[c]] = disk.idem[key[c]]
    BY <2>1 DEF OldCopyInv
  <2> DEFINE x == disk.idem[key[c]]
  <2>3. [id |-> x.result, key |-> key[c], digest |-> x.digest] \in Effect
    BY <2>1, <2>2 DEF EntryInv
  <2>4. x.result \in Result
    BY <2>3 DEF Effect
  <2> QED
    BY <1>0, <2>1, <2>2, <2>4 DEF Stage, RequestInv
<1>4. ASSUME NEW c \in Client, RunHandler(c)
      PROVE  ExecTypeOK' /\ RequestInv'
  <2>1. PICK r \in Result :
          /\ effects' = effects \cup {[id |-> r, key |-> key[c], digest |-> input[c]]}
          /\ outcome' = [outcome EXCEPT ![c] = r]
    BY <1>4 DEF RunHandler
  <2>2. /\ key[c] \in Key /\ input[c] \in Digest
        /\ pc' = [pc EXCEPT ![c] = "complete"]
        /\ world' \in {input[c], world}
        /\ UNCHANGED <<key, input, acked>>
    BY <1>4 DEF RunHandler, Goto, RequestInv
  <2>3. effects' \subseteq Effect
    BY <2>1, <2>2 DEF Effect
  <2> QED
    BY <1>0, <2>1, <2>2, <2>3 DEF Stage, RequestInv
<1>5. ASSUME NEW c \in Client, Complete(c)
      PROVE  ExecTypeOK' /\ RequestInv'
  BY <1>0, <1>5 DEF Complete, Goto, Unanswered, Stage, RequestInv
<1>6. ASSUME NEW c \in Client, Respond(c)
      PROVE  ExecTypeOK' /\ RequestInv'
  BY <1>0, <1>6 DEF Respond, Goto, Stage, RequestInv
<1>7. ASSUME NEW c \in Client,
             \/ Admit(c) \/ PassStop(c) \/ StartCheckpoint(c) \/ SaveCheckpoint(c)
             \/ Reload(c) \/ Validate(c) \/ Reserve(c) \/ Raise(c) \/ Detach(c)
             \/ Die(c)
      PROVE  ExecTypeOK' /\ RequestInv'
  BY <1>2, <1>7 DEF Admit, PassStop, StartCheckpoint, SaveCheckpoint, Reload,
                    Validate, Reserve, Raise, Detach, Die, Goto
<1>8. CASE UNCHANGED execVars
  BY <1>0, <1>8 DEF execVars, RequestInv
<1> QED
  BY <1>1, <1>3, <1>4, <1>5, <1>6, <1>7, <1>8
     DEF Next, RequestStep, Beat, Meanwhile

-----------------------------------------------------------------------------
(* The keys.                                                               *)

\* A step that reserves, runs, records and answers nothing.
LEMMA QuietStep ==
  ASSUME KeyInv, disk'.exists, disk'.idem = disk.idem,
         UNCHANGED <<effects, acked>>,
         \A c \in Client : \/ rec'[c].idem = rec[c].idem
                           \/ rec'[c].idem = disk.idem
                           \/ rec'[c] = Absent,
         \A c \in Client : \/ /\ pc'[c] = pc[c] /\ key'[c] = key[c]
                              /\ input'[c] = input[c] /\ outcome'[c] = outcome[c]
                           \/ pc'[c] \notin {"effect", "complete", "respond"}
                           \/ input'[c] \notin Replayable
  PROVE  KeyInv'
<1> USE DEF KeyInv
<1>1. StageInv'
  BY DEF StageInv, Runs
<1>2. ExclusiveInv'
  BY DEF ExclusiveInv
<1>3. EntryInv'
  BY DEF EntryInv
<1>4. OldCopyInv'
  BY DEF OldCopyInv, Absent, FreeEntry
<1>5. AtMostOnce' /\ IntentPrecedesEffect' /\ AnswersAreDurable'
  BY DEF AtMostOnce, IntentPrecedesEffect, AnswersAreDurable, ReplayableEffects
<1> QED
  BY <1>1, <1>2, <1>3, <1>4, <1>5

\* What the steps that do not touch a key do to the document and the copies.
LEMMA QuietStoreStep ==
  ASSUME StoreInv, disk.exists,
         \/ \E c \in Client : Acquire(c) \/ Load(c) \/ Heartbeat(c) \/ Release(c)
                              \/ SaveEdit(c) \/ Crash(c)
         \/ Revoke \/ Rename \/ Archive \/ Unarchive \/ AcquireCutShort \/ Tick
         \/ UNCHANGED storeVars
  PROVE  /\ disk'.exists /\ disk'.idem = disk.idem
         /\ \A c \in Client : \/ rec'[c].idem = rec[c].idem
                              \/ rec'[c].idem = disk.idem
                              \/ rec'[c] = Absent
<1> USE DEF StoreInv, TypeOK
<1>1. CASE \E c \in Client : Acquire(c)
  BY <1>1 DEF Acquire, AcquireWith
<1>2. CASE \E c \in Client : Load(c)
  BY <1>2 DEF Load
<1>3. CASE \E c \in Client : Heartbeat(c)
  BY <1>3 DEF Heartbeat
<1>4. CASE \E c \in Client : Release(c)
  BY <1>4 DEF Release
<1>5. CASE \E c \in Client : SaveEdit(c)
  <2>1. PICK c \in Client : SaveEdit(c)
    BY <1>5
  <2>2. rec' = [rec EXCEPT ![c] = disk']
    BY <2>1 DEF SaveEdit, Save
  <2>3. disk'.exists /\ disk'.idem = disk.idem
    BY <2>1, SaveEditLemma
  <2> QED
    BY <2>2, <2>3
<1>6. CASE \E c \in Client : Crash(c)
  BY <1>6 DEF Crash
<1>7. CASE Revoke \/ Rename \/ Unarchive \/ (Archive /\ ~disk.archived)
  <2>1. disk'.exists /\ disk'.idem = disk.idem
    BY <1>7, MetadataCases
  <2>2. rec' = rec
    BY <1>7 DEF Revoke, Rename, Unarchive, Archive
  <2> QED
    BY <2>1, <2>2
<1>8. CASE (Archive /\ disk.archived) \/ AcquireCutShort \/ Tick
            \/ UNCHANGED storeVars
  BY <1>8 DEF Archive, AcquireCutShort, Tick, storeVars
<1> QED
  BY <1>1, <1>2, <1>3, <1>4, <1>5, <1>6, <1>7, <1>8

\* begin_idempotent reserves a key nobody works on and nobody ran.
LEMMA ReserveStep ==
  ASSUME ExecInv, NEW c \in Client, Reserve(c)
  PROVE  KeyInv'
<1> USE DEF ExecInv, KeyInv
<1> DEFINE k == key[c]
           e == [st |-> "pending", digest |-> input[c], result |-> None]
<1>1. /\ k \in Key /\ input[c] \in Digest
      /\ BeginIdempotent(c, k, input[c])
      /\ pc[c] = "reserve" /\ pc' = [pc EXCEPT ![c] = "effect"]
      /\ UNCHANGED <<key, input, outcome, world, effects, acked>>
  BY DEF Reserve, Goto, Unanswered, RequestInv
<1>2. /\ disk'.exists
      /\ disk.idem[k].st = "free"
      /\ disk'.idem = [disk.idem EXCEPT ![k] = e]
  BY <1>1, BeginLemma
<1>3. rec' = [rec EXCEPT ![c] = disk']
  BY <1>1 DEF BeginIdempotent, Save
<1>t. /\ disk.idem \in [Key -> Entry] /\ rec \in [Client -> Record]
      /\ pc \in [Client -> Stage]
  BY DEF StoreInv, TypeOK, Record, ExecTypeOK
<1>4. \A q \in Key : disk'.idem[q] = IF q = k THEN e ELSE disk.idem[q]
  BY <1>2, <1>t
<1>5. Runs(k) = {} /\ \A f \in effects : f.digest \in Replayable => f.key # k
  BY <1>2 DEF Runs, IntentPrecedesEffect, ReplayableEffects
<1>6. \A d \in Client : d # c /\ pc[d] \in {"effect", "complete", "respond"}
                        /\ input[d] \in Replayable => key[d] # k
  BY <1>2 DEF StageInv
<1>7. \A d \in Client : pc'[d] = IF d = c THEN "effect" ELSE pc[d]
  BY <1>1, <1>t
<1>8. StageInv'
  <2> SUFFICES ASSUME NEW d \in Client,
                      pc'[d] \in {"effect", "complete", "respond"},
                      input[d] \in Replayable
               PROVE  /\ disk'.idem[key[d]].digest = input[d]
                      /\ pc'[d] = "effect" =>
                           disk'.idem[key[d]].st = "pending" /\ Runs(key[d]) = {}
                      /\ pc'[d] = "complete" =>
                           /\ disk'.idem[key[d]].st = "pending"
                           /\ [id |-> outcome[d], key |-> key[d],
                               digest |-> input[d]] \in effects
                      /\ pc'[d] = "respond" =>
                           /\ disk'.idem[key[d]].st = "complete"
                           /\ disk'.idem[key[d]].result = outcome[d]
    BY <1>1 DEF StageInv, Runs
  <2>1. CASE d = c
    BY <2>1, <1>1, <1>4, <1>5, <1>7
  <2>2. CASE d # c
    <3>1. key[d] \in Key /\ pc'[d] = pc[d] /\ key[d] # k
      BY <2>2, <1>6, <1>7 DEF RequestInv
    <3>2. disk'.idem[key[d]] = disk.idem[key[d]]
      BY <3>1, <1>4
    <3> QED
      BY <3>1, <3>2 DEF StageInv
  <2> QED
    BY <2>1, <2>2
<1>9. ExclusiveInv'
  BY <1>1, <1>6, <1>7 DEF ExclusiveInv
<1>10. EntryInv'
  BY <1>1, <1>4 DEF EntryInv
<1>11. OldCopyInv'
  <2>1. ASSUME NEW d \in Client, NEW q \in Key, rec'[d].idem[q].st = "complete"
        PROVE  rec'[d].idem[q] = disk'.idem[q]
    <3>1. CASE d = c
      BY <3>1, <1>3, <1>t
    <3>2. CASE d # c
      <4>1. rec'[d] = rec[d]
        BY <3>2, <1>3, <1>t
      <4>2. rec[d].idem[q] = disk.idem[q]
        BY <4>1, <2>1 DEF OldCopyInv
      <4>3. q # k
        BY <4>1, <4>2, <2>1, <1>2
      <4> QED
        BY <4>1, <4>2, <4>3, <1>4
    <3> QED
      BY <3>1, <3>2
  <2> QED
    BY <2>1 DEF OldCopyInv
<1>12. AtMostOnce'
  BY <1>1 DEF AtMostOnce, ReplayableEffects
<1>13. IntentPrecedesEffect'
  <2> SUFFICES ASSUME NEW f \in effects, f.digest \in Replayable
               PROVE  /\ disk'.idem[f.key].st # "free"
                      /\ disk'.idem[f.key].digest = f.digest
    BY <1>1 DEF IntentPrecedesEffect, ReplayableEffects
  <2>1. f.key \in Key /\ f.key # k
    BY <1>5 DEF ExecTypeOK, Effect
  <2> QED
    BY <2>1, <1>4 DEF IntentPrecedesEffect, ReplayableEffects
<1>14. AnswersAreDurable'
  <2> SUFFICES ASSUME NEW a \in acked, a[2] \in Replayable
               PROVE  /\ disk'.idem[a[1]] = [st |-> "complete", digest |-> a[2],
                                             result |-> a[3]]
                      /\ [id |-> a[3], key |-> a[1], digest |-> a[2]] \in effects
    BY <1>1 DEF AnswersAreDurable
  <2>1. /\ disk.idem[a[1]] = [st |-> "complete", digest |-> a[2], result |-> a[3]]
        /\ [id |-> a[3], key |-> a[1], digest |-> a[2]] \in effects
    BY DEF AnswersAreDurable
  <2>2. a[1] \in Key
    BY DEF ExecTypeOK
  <2>3. a[1] # k
    BY <2>1, <1>2
  <2> QED
    BY <2>1, <2>2, <2>3, <1>4
<1> QED
  BY <1>2, <1>8, <1>9, <1>10, <1>11, <1>12, <1>13, <1>14
\* The handler of a replayable command runs on a key that never ran; any other
\* handler touches no key.
LEMMA RunStep ==
  ASSUME ExecInv, NEW c \in Client, RunHandler(c)
  PROVE  KeyInv'
<1> USE DEF ExecInv, KeyInv
<1> DEFINE k == key[c]
           d == input[c]
<1>1. PICK r \in Result :
        /\ effects' = effects \cup {[id |-> r, key |-> k, digest |-> d]}
        /\ outcome' = [outcome EXCEPT ![c] = r]
  BY DEF RunHandler
<1>2. /\ pc[c] = "effect" /\ pc' = [pc EXCEPT ![c] = "complete"]
      /\ UNCHANGED <<key, input, acked, disk, rec>>
      /\ k \in Key /\ d \in Digest
  BY DEF RunHandler, Goto, storeVars, RequestInv
<1> DEFINE n == [id |-> r, key |-> k, digest |-> d]
<1>3. /\ effects' = effects \cup {n}
      /\ n.id = r /\ n.key = k /\ n.digest = d
  BY <1>1
<1>4. d \in Replayable =>
        /\ disk.idem[k].digest = d /\ disk.idem[k].st = "pending"
        /\ \A f \in effects : f.digest \in Replayable => f.key # k
  BY <1>2 DEF StageInv, Runs
<1>5. \A x \in Client : /\ pc'[x] = IF x = c THEN "complete" ELSE pc[x]
                        /\ outcome'[x] = IF x = c THEN r ELSE outcome[x]
  BY <1>1, <1>2 DEF ExecTypeOK
<1>6. StageInv'
  <2> SUFFICES ASSUME NEW x \in Client,
                      pc'[x] \in {"effect", "complete", "respond"},
                      input[x] \in Replayable
               PROVE  /\ disk.idem[key[x]].digest = input[x]
                      /\ pc'[x] = "effect" =>
                           /\ disk.idem[key[x]].st = "pending"
                           /\ \A f \in effects' :
                                ~(f.key = key[x] /\ f.digest \in Replayable)
                      /\ pc'[x] = "complete" =>
                           /\ disk.idem[key[x]].st = "pending"
                           /\ [id |-> outcome'[x], key |-> key[x],
                               digest |-> input[x]] \in effects'
                      /\ pc'[x] = "respond" =>
                           /\ disk.idem[key[x]].st = "complete"
                           /\ disk.idem[key[x]].result = outcome'[x]
    BY <1>2 DEF StageInv, Runs
  <2>1. CASE x = c
    BY <2>1, <1>3, <1>4, <1>5
  <2>2. CASE x # c
    <3>1. pc'[x] = pc[x] /\ outcome'[x] = outcome[x]
      BY <2>2, <1>5
    <3>2. pc[x] = "effect" /\ d \in Replayable => key[x] # k
      BY <2>2, <1>2 DEF ExclusiveInv
    <3>3. pc[x] = "effect" =>
            \A f \in effects : ~(f.key = key[x] /\ f.digest \in Replayable)
      BY DEF StageInv, Runs
    <3>4. pc[x] = "effect" =>
            \A f \in effects' : ~(f.key = key[x] /\ f.digest \in Replayable)
      BY <3>2, <3>3, <1>3
    <3>5. /\ disk.idem[key[x]].digest = input[x]
          /\ pc[x] = "effect" => disk.idem[key[x]].st = "pending"
          /\ pc[x] = "complete" =>
               /\ disk.idem[key[x]].st = "pending"
               /\ [id |-> outcome[x], key |-> key[x], digest |-> input[x]]
                    \in effects
          /\ pc[x] = "respond" =>
               /\ disk.idem[key[x]].st = "complete"
               /\ disk.idem[key[x]].result = outcome[x]
      BY <3>1 DEF StageInv
    <3> QED
      BY <3>1, <3>4, <3>5, <1>3
  <2> QED
    BY <2>1, <2>2
<1>7. ExclusiveInv'
  BY <1>2, <1>5 DEF ExclusiveInv
<1>8. EntryInv' /\ OldCopyInv'
  BY <1>2, <1>3 DEF EntryInv, OldCopyInv
<1>9. AtMostOnce'
  BY <1>3, <1>4 DEF AtMostOnce, ReplayableEffects
<1>10. IntentPrecedesEffect'
  BY <1>2, <1>3, <1>4 DEF IntentPrecedesEffect, ReplayableEffects
<1>11. AnswersAreDurable'
  BY <1>2, <1>3 DEF AnswersAreDurable
<1> QED
  BY <1>2, <1>6, <1>7, <1>8, <1>9, <1>10, <1>11

\* complete_idempotent records the result of the one execution of the key.
LEMMA CompleteStep ==
  ASSUME ExecInv, NEW c \in Client, Complete(c), input[c] \in Replayable
  PROVE  KeyInv'
<1> USE DEF ExecInv, KeyInv
<1> DEFINE k == key[c]
           r == outcome[c]
           e == [st |-> "complete", digest |-> disk.idem[k].digest, result |-> r]
<1>1. /\ k \in Key /\ r \in Result
      /\ CompleteIdempotent(c, k, r)
      /\ pc[c] = "complete" /\ pc' = [pc EXCEPT ![c] = "respond"]
      /\ UNCHANGED <<key, input, outcome, world, effects, acked>>
  BY DEF Complete, Goto, Unanswered, RequestInv
<1>2. /\ disk'.exists
      /\ disk.idem[k].st = "pending"
      /\ disk'.idem = [disk.idem EXCEPT ![k] = e]
  BY <1>1, CompleteLemma
<1>3. rec' = [rec EXCEPT ![c] = disk']
  BY <1>1 DEF CompleteIdempotent, Save
<1>t. /\ disk.idem \in [Key -> Entry] /\ rec \in [Client -> Record]
      /\ pc \in [Client -> Stage]
  BY DEF StoreInv, TypeOK, Record, ExecTypeOK
<1>4. \A q \in Key : disk'.idem[q] = IF q = k THEN e ELSE disk.idem[q]
  BY <1>2, <1>t
<1>5. /\ disk.idem[k].digest = input[c]
      /\ [id |-> r, key |-> k, digest |-> input[c]] \in effects
  BY <1>1 DEF StageInv
<1>6. \A x \in Client : x # c /\ pc[x] \in {"effect", "complete", "respond"}
                        /\ input[x] \in Replayable => key[x] # k
  BY <1>1, <1>2 DEF ExclusiveInv, StageInv
<1>7. \A x \in Client : pc'[x] = IF x = c THEN "respond" ELSE pc[x]
  BY <1>1, <1>t
<1>8. StageInv'
  <2> SUFFICES ASSUME NEW x \in Client,
                      pc'[x] \in {"effect", "complete", "respond"},
                      input[x] \in Replayable
               PROVE  /\ disk'.idem[key[x]].digest = input[x]
                      /\ pc'[x] = "effect" =>
                           disk'.idem[key[x]].st = "pending" /\ Runs(key[x]) = {}
                      /\ pc'[x] = "complete" =>
                           /\ disk'.idem[key[x]].st = "pending"
                           /\ [id |-> outcome[x], key |-> key[x],
                               digest |-> input[x]] \in effects
                      /\ pc'[x] = "respond" =>
                           /\ disk'.idem[key[x]].st = "complete"
                           /\ disk'.idem[key[x]].result = outcome[x]
    BY <1>1 DEF StageInv, Runs
  <2>1. CASE x = c
    BY <2>1, <1>1, <1>4, <1>5, <1>7
  <2>2. CASE x # c
    <3>1. key[x] \in Key /\ pc'[x] = pc[x] /\ key[x] # k
      BY <2>2, <1>6, <1>7 DEF RequestInv
    <3>2. disk'.idem[key[x]] = disk.idem[key[x]]
      BY <3>1, <1>4
    <3> QED
      BY <3>1, <3>2 DEF StageInv
  <2> QED
    BY <2>1, <2>2
<1>9. ExclusiveInv'
  BY <1>1, <1>7 DEF ExclusiveInv
<1>10. EntryInv'
  BY <1>1, <1>4, <1>5 DEF EntryInv
<1>11. OldCopyInv'
  <2>1. ASSUME NEW x \in Client, NEW q \in Key, rec'[x].idem[q].st = "complete"
        PROVE  rec'[x].idem[q] = disk'.idem[q]
    <3>1. CASE x = c
      BY <3>1, <1>3, <1>t
    <3>2. CASE x # c
      <4>1. rec'[x] = rec[x]
        BY <3>2, <1>3, <1>t
      <4>2. rec[x].idem[q] = disk.idem[q]
        BY <4>1, <2>1 DEF OldCopyInv
      <4>3. q # k
        BY <4>1, <4>2, <2>1, <1>2
      <4> QED
        BY <4>1, <4>2, <4>3, <1>4
    <3> QED
      BY <3>1, <3>2
  <2> QED
    BY <2>1 DEF OldCopyInv
<1>12. AtMostOnce'
  BY <1>1 DEF AtMostOnce, ReplayableEffects
<1>13. IntentPrecedesEffect'
  <2> SUFFICES ASSUME NEW f \in effects, f.digest \in Replayable
               PROVE  /\ disk'.idem[f.key].st # "free"
                      /\ disk'.idem[f.key].digest = f.digest
    BY <1>1 DEF IntentPrecedesEffect, ReplayableEffects
  <2>1. f.key \in Key
    BY DEF ExecTypeOK, Effect
  <2>2. disk.idem[f.key].st # "free" /\ disk.idem[f.key].digest = f.digest
    BY DEF IntentPrecedesEffect, ReplayableEffects
  <2> QED
    BY <2>1, <2>2, <1>4
<1>14. AnswersAreDurable'
  <2> SUFFICES ASSUME NEW a \in acked, a[2] \in Replayable
               PROVE  /\ disk'.idem[a[1]] = [st |-> "complete", digest |-> a[2],
                                             result |-> a[3]]
                      /\ [id |-> a[3], key |-> a[1], digest |-> a[2]] \in effects
    BY <1>1 DEF AnswersAreDurable
  <2>1. /\ disk.idem[a[1]] = [st |-> "complete", digest |-> a[2], result |-> a[3]]
        /\ [id |-> a[3], key |-> a[1], digest |-> a[2]] \in effects
    BY DEF AnswersAreDurable
  <2>2. a[1] \in Key
    BY DEF ExecTypeOK
  <2>3. a[1] # k
    BY <2>1, <1>2
  <2> QED
    BY <2>1, <2>2, <2>3, <1>4
<1> QED
  BY <1>2, <1>8, <1>9, <1>10, <1>11, <1>12, <1>13, <1>14

\* An answer that repeats what the document records.
LEMMA AnswerStep ==
  ASSUME ExecInv, NEW c \in Client, NEW k \in Key, NEW d \in Digest, NEW r,
         pc' = [pc EXCEPT ![c] = "leave"],
         UNCHANGED storeVars, UNCHANGED <<key, input, outcome, world, effects>>,
         acked' = acked \cup {<<k, d, r>>},
         d \in Replayable =>
           /\ disk.idem[k].st = "complete"
           /\ disk.idem[k].digest = d /\ disk.idem[k].result = r
  PROVE  KeyInv'
<1> USE DEF ExecInv, KeyInv
<1>1. /\ disk' = disk /\ rec' = rec
      /\ \A x \in Client : pc'[x] = IF x = c THEN "leave" ELSE pc[x]
  BY DEF storeVars, ExecTypeOK
<1>2. StageInv' /\ ExclusiveInv'
  BY <1>1 DEF StageInv, ExclusiveInv, Runs
<1>3. EntryInv' /\ OldCopyInv'
  BY <1>1 DEF EntryInv, OldCopyInv
<1>4. AtMostOnce' /\ IntentPrecedesEffect'
  BY <1>1 DEF AtMostOnce, IntentPrecedesEffect, ReplayableEffects
<1>5. d \in Replayable =>
        /\ disk.idem[k] = [st |-> "complete", digest |-> d, result |-> r]
        /\ [id |-> r, key |-> k, digest |-> d] \in effects
  <2>1. disk.idem[k] \in Entry
    BY DEF StoreInv, TypeOK, Record
  <2> QED
    BY <2>1 DEF Entry, EntryInv
<1>6. AnswersAreDurable'
  BY <1>1, <1>5 DEF AnswersAreDurable
<1> QED
  BY <1>1, <1>2, <1>3, <1>4, <1>6

\* A replay answers what the document records, even from an old copy.
LEMMA ReplayStep ==
  ASSUME ExecInv, NEW c \in Client, Replay(c)
  PROVE  KeyInv'
<1> DEFINE e == rec[c].idem[key[c]]
<1>1. /\ key[c] \in Key /\ input[c] \in Digest
      /\ e.st = "complete" /\ e.digest = input[c]
      /\ pc' = [pc EXCEPT ![c] = "leave"]
      /\ acked' = acked \cup {<<key[c], input[c], e.result>>}
      /\ UNCHANGED storeVars /\ UNCHANGED <<key, input, outcome, world, effects>>
  BY DEF Replay, MayReplay, Goto, ExecInv, RequestInv
<1>2. e = disk.idem[key[c]]
  BY <1>1 DEF ExecInv, KeyInv, OldCopyInv
<1> QED
  BY <1>1, <1>2, AnswerStep

\* A first answer is what complete_idempotent has just recorded.
LEMMA RespondStep ==
  ASSUME ExecInv, NEW c \in Client, Respond(c)
  PROVE  KeyInv'
<1>1. /\ key[c] \in Key /\ input[c] \in Digest
      /\ pc[c] = "respond" /\ pc' = [pc EXCEPT ![c] = "leave"]
      /\ acked' = acked \cup {<<key[c], input[c], outcome[c]>>}
      /\ UNCHANGED storeVars /\ UNCHANGED <<key, input, outcome, world, effects>>
  BY DEF Respond, Goto, ExecInv, RequestInv
<1>2. input[c] \in Replayable =>
        /\ disk.idem[key[c]].st = "complete"
        /\ disk.idem[key[c]].digest = input[c]
        /\ disk.idem[key[c]].result = outcome[c]
  BY <1>1 DEF ExecInv, KeyInv, StageInv
<1> QED
  BY <1>1, <1>2, AnswerStep

-----------------------------------------------------------------------------
(* The invariant.                                                          *)

\* The steps that reserve, run, record and answer nothing.
LEMMA OtherSteps ==
  ASSUME ExecInv,
         \/ \E c \in Client, k \in Key, d \in Digest : Attach(c, k, d)
         \/ \E c \in Client :
              \/ Admit(c) \/ PassStop(c) \/ StartCheckpoint(c)
              \/ SaveCheckpoint(c) \/ Reload(c) \/ Validate(c)
              \/ Complete(c) /\ input[c] \notin Replayable
              \/ Raise(c) \/ Detach(c) \/ Beat(c) \/ Die(c)
         \/ Meanwhile
         \/ UNCHANGED vars
  PROVE  KeyInv'
<1> DEFINE Quiet ==
             /\ disk'.exists /\ disk'.idem = disk.idem
             /\ \A c \in Client : \/ rec'[c].idem = rec[c].idem
                                  \/ rec'[c].idem = disk.idem
                                  \/ rec'[c] = Absent
           SameOrOut(x) ==
             \/ /\ pc'[x] = pc[x] /\ key'[x] = key[x]
                /\ input'[x] = input[x] /\ outcome'[x] = outcome[x]
             \/ pc'[x] \notin {"effect", "complete", "respond"}
             \/ input'[x] \notin Replayable
<1>1. StoreInv /\ disk.exists
  BY DEF ExecInv, KeyInv
<1>t. /\ pc \in [Client -> Stage] /\ key \in [Client -> Key \cup {None}]
      /\ input \in [Client -> Digest \cup {None}]
      /\ outcome \in [Client -> Result \cup {None}]
  BY DEF ExecInv, ExecTypeOK
<1>2. ASSUME NEW c \in Client, NEW k \in Key, NEW d \in Digest, Attach(c, k, d)
      PROVE  Quiet /\ UNCHANGED <<effects, acked>> /\ \A x \in Client : SameOrOut(x)
  <2>1. Quiet
    BY <1>1, <1>2, QuietStoreStep DEF Attach
  <2>2. \A x \in Client : SameOrOut(x)
    BY <1>2, <1>t DEF Attach, Goto
  <2> QED
    BY <1>2, <2>1, <2>2 DEF Attach
<1>3. ASSUME NEW c \in Client,
             \/ Admit(c) \/ PassStop(c) \/ StartCheckpoint(c)
             \/ SaveCheckpoint(c) \/ Reload(c) \/ Validate(c)
             \/ Raise(c) \/ Detach(c) \/ Die(c)
      PROVE  Quiet /\ UNCHANGED <<effects, acked>> /\ \A x \in Client : SameOrOut(x)
  <2>1. Load(c) \/ SaveEdit(c) \/ Release(c) \/ Crash(c) \/ UNCHANGED storeVars
    BY <1>3 DEF Admit, PassStop, StartCheckpoint, SaveCheckpoint, Reload, Validate,
                Raise, Detach, Die, LoadSession
  <2>2. Quiet
    BY <1>1, <2>1, QuietStoreStep
  <2>3. /\ Unanswered
        /\ \/ pc' = [pc EXCEPT ![c] = "stop"] \/ pc' = [pc EXCEPT ![c] = "reload"]
           \/ pc' = [pc EXCEPT ![c] = "checkpoint"]
           \/ pc' = [pc EXCEPT ![c] = "validate"]
           \/ pc' = [pc EXCEPT ![c] = "leave"] \/ pc' = [pc EXCEPT ![c] = "idle"]
           \/ pc' = [pc EXCEPT ![c] = "reserve"]
           \/ input[c] \notin Replayable /\ pc' = [pc EXCEPT ![c] = "effect"]
    BY <1>3 DEF Admit, PassStop, StartCheckpoint, SaveCheckpoint, Reload, Validate,
                Raise, Detach, Die, Goto
  <2>4. \A x \in Client : SameOrOut(x)
    BY <2>3, <1>t DEF Unanswered
  <2> QED
    BY <2>2, <2>3, <2>4 DEF Unanswered
<1>4. ASSUME NEW c \in Client, Complete(c), input[c] \notin Replayable
      PROVE  Quiet /\ UNCHANGED <<effects, acked>> /\ \A x \in Client : SameOrOut(x)
  <2>1. SaveEdit(c)
    BY <1>4 DEF Complete
  <2>2. Quiet
    BY <1>1, <2>1, QuietStoreStep
  <2> QED
    BY <1>4, <2>2, <1>t DEF Complete, Goto, Unanswered
<1>5. CASE (\E c \in Client : Beat(c)) \/ Meanwhile \/ UNCHANGED vars
  <2>1. Quiet
    BY <1>1, <1>5, QuietStoreStep DEF Beat, Meanwhile, vars
  <2>2. UNCHANGED execVars
    BY <1>5 DEF Beat, Meanwhile, vars
  <2> QED
    BY <2>1, <2>2, QuietStep DEF execVars, ExecInv
<1> HIDE DEF Quiet, SameOrOut
<1>6. ASSUME Quiet, UNCHANGED <<effects, acked>>, \A x \in Client : SameOrOut(x)
      PROVE  KeyInv'
  BY <1>6, QuietStep DEF Quiet, SameOrOut, ExecInv
<1> QED
  BY <1>2, <1>3, <1>4, <1>5, <1>6

\* The invariant holds before the first request.
LEMMA ExecInitLemma ==
  ASSUME Init
  PROVE  ExecInv
<1>1. StoreInv
  BY InitLemma DEF Init
<1>2. ExecTypeOK
  BY <1>1 DEF Init, ExecTypeOK, StoreInv, Stage
<1>3. /\ \A c \in Client : pc[c] = "idle" /\ rec[c] = Absent
      /\ disk = Fresh /\ effects = {} /\ acked = {}
  BY DEF Init, StoreInit
<1>4. /\ Fresh.exists
      /\ \A k \in Key : Fresh.idem[k].st = "free" /\ Absent.idem[k].st = "free"
  BY DEF Fresh, Absent, FreeEntry
<1>5. RequestInv /\ StageInv /\ ExclusiveInv
  BY <1>3 DEF RequestInv, StageInv, ExclusiveInv
<1>6. EntryInv /\ OldCopyInv
  BY <1>3, <1>4 DEF EntryInv, OldCopyInv
<1>7. AtMostOnce /\ IntentPrecedesEffect /\ AnswersAreDurable
  BY <1>3 DEF AtMostOnce, IntentPrecedesEffect, AnswersAreDurable,
              ReplayableEffects
<1> QED
  BY <1>1, <1>2, <1>3, <1>4, <1>5, <1>6, <1>7 DEF ExecInv, KeyInv

\* Every step of the runtime and of what surrounds it keeps the invariant.
LEMMA ExecStepLemma ==
  ASSUME ExecInv, [Next]_vars
  PROVE  ExecInv'
<1>1. StoreInv'
  <2>1. StoreNext \/ UNCHANGED storeVars
    BY NextIsStoreStep DEF ExecInv, vars
  <2> QED
    BY <2>1, StoreStep DEF ExecInv
<1>2. ExecTypeOK' /\ RequestInv'
  <2>1. CASE Next
    BY <1>1, <2>1, TypeStep DEF ExecInv, KeyInv
  <2>2. CASE UNCHANGED vars
    BY <1>1, <2>2 DEF ExecInv, ExecTypeOK, RequestInv, StoreInv, vars, execVars
  <2> QED
    BY <2>1, <2>2
<1>3. KeyInv'
  <2>1. CASE \E c \in Client : Reserve(c) \/ Replay(c) \/ RunHandler(c) \/ Respond(c)
    BY <2>1, ReserveStep, ReplayStep, RunStep, RespondStep
  <2>2. CASE \E c \in Client : Complete(c) /\ input[c] \in Replayable
    BY <2>2, CompleteStep
  <2>3. CASE ~ \/ \E c \in Client : Reserve(c) \/ Replay(c) \/ RunHandler(c)
                                    \/ Respond(c)
               \/ \E c \in Client : Complete(c) /\ input[c] \in Replayable
    BY <2>3, OtherSteps DEF Next, RequestStep
  <2> QED
    BY <2>1, <2>2, <2>3
<1> QED
  BY <1>1, <1>2, <1>3 DEF ExecInv

\* The invariant is inductive.
THEOREM ExecInvariance == Spec => []ExecInv
  BY ExecInitLemma, ExecStepLemma, PTL DEF Spec

\* Every variable of the runtime keeps its type.
THEOREM ExecTyping == Spec => []ExecTypeOK
<1>1. ExecInv => ExecTypeOK
  BY DEF ExecInv
<1> QED
  BY <1>1, ExecInvariance, PTL

\* No key is executed twice.
THEOREM KeysRunOnce == Spec => []AtMostOnce
<1>1. ExecInv => AtMostOnce
  BY DEF ExecInv, KeyInv
<1> QED
  BY <1>1, ExecInvariance, PTL

\* Nothing runs without its intent on disk.
THEOREM IntentIsDurable == Spec => []IntentPrecedesEffect
<1>1. ExecInv => IntentPrecedesEffect
  BY DEF ExecInv, KeyInv
<1> QED
  BY <1>1, ExecInvariance, PTL

\* Every answer is the recorded result of the one execution of its key.
THEOREM AnswersMatchRecords == Spec => []AnswersAreDurable
<1>1. ExecInv => AnswersAreDurable
  BY DEF ExecInv, KeyInv
<1> QED
  BY <1>1, ExecInvariance, PTL

\* The runtime is a user of the store: all that is proved of StoreSpec holds of
\* the store under it.
THEOREM RuntimeUsesStore == Spec => StoreSpec
<1>1. Init => StoreInit
  BY DEF Init
<1>2. ExecInv /\ [Next]_vars => [StoreNext]_storeVars
  BY NextIsStoreStep DEF ExecInv, vars
<1> QED
  BY <1>1, <1>2, ExecInvariance, PTL DEF Spec, StoreSpec

-----------------------------------------------------------------------------
(* The runtime and the store together implement MutationJournal.           *)

\* The executions of replayable commands and the answers to them, as
\* CoreExecute maps them to the variables of MutationJournal.
RanOf(k) == {e.id : e \in {f \in ReplayableEffects : f.key = k}}
RanMap == [k \in Key |-> RanOf(k)]
AnswersMap == {a \in acked : a[2] \in Replayable}

\* Steps that execute no handler leave RanMap, those that give no answer
\* leave AnswersMap.
LEMMA MapsUnchanged ==
  /\ effects' = effects => RanMap' = RanMap
  /\ acked' = acked => AnswersMap' = AnswersMap
BY DEF RanMap, RanOf, ReplayableEffects, AnswersMap

\* A step that touches no key, execution or answer is a stutter.
LEMMA StutterOfJournal ==
  ASSUME disk'.idem = disk.idem, RanMap' = RanMap, AnswersMap' = AnswersMap
  PROVE  UNCHANGED Journal!journalVars
BY DEF Journal!journalVars, RanMap, RanOf, AnswersMap

\* begin_idempotent reserves.
LEMMA ReserveImplements ==
  ASSUME ExecInv, NEW c \in Client, Reserve(c)
  PROVE  Journal!JournalNext
<1>1. /\ key[c] \in Key /\ input[c] \in Digest
      /\ BeginIdempotent(c, key[c], input[c])
      /\ UNCHANGED <<effects, acked>>
  BY DEF Reserve, Goto, Unanswered, ExecInv, RequestInv
<1>2. /\ disk.idem[key[c]].st = "free"
      /\ disk'.idem = [disk.idem EXCEPT ![key[c]] =
                         [st |-> "pending", digest |-> input[c], result |-> None]]
  BY <1>1, BeginLemma DEF ExecInv, KeyInv
<1>3. RanMap' = RanMap /\ AnswersMap' = AnswersMap
  BY <1>1, MapsUnchanged
<1>4. Journal!Reserve(key[c], input[c])
  BY <1>2, <1>3 DEF Journal!Reserve, RanMap, RanOf, AnswersMap
<1> QED
  BY <1>1, <1>4 DEF Journal!JournalNext

\* The handler of a replayable command runs on a reserved key that never ran;
\* any other handler is no step of the journal.
LEMMA RunImplements ==
  ASSUME ExecInv, NEW c \in Client, RunHandler(c)
  PROVE  Journal!JournalNext \/ UNCHANGED Journal!journalVars
<1>1. /\ key[c] \in Key /\ input[c] \in Digest /\ pc[c] = "effect"
      /\ UNCHANGED <<disk, acked>>
  BY DEF RunHandler, Goto, ExecInv, RequestInv, storeVars
<1>2. PICK x \in Result :
        effects' = effects \cup {[id |-> x, key |-> key[c], digest |-> input[c]]}
  BY DEF RunHandler
<1> DEFINE n == [id |-> x, key |-> key[c], digest |-> input[c]]
<1>3. effects' = effects \cup {n} /\ n.id = x /\ n.key = key[c] /\ n.digest = input[c]
  BY <1>2
<1> HIDE DEF n
<1>4. AnswersMap' = AnswersMap
  BY <1>1, MapsUnchanged
<1>5. CASE input[c] \notin Replayable
  <2>1. ReplayableEffects' = ReplayableEffects
    BY <1>3, <1>5 DEF ReplayableEffects
  <2>2. RanMap' = RanMap
    BY <2>1 DEF RanMap, RanOf
  <2> QED
    BY <1>1, <1>4, <2>2, StutterOfJournal
<1>6. CASE input[c] \in Replayable
  <2>1. disk.idem[key[c]].st = "pending" /\ Runs(key[c]) = {}
    BY <1>1, <1>6 DEF ExecInv, KeyInv, StageInv
  <2>2. \A k \in Key : RanOf(k)' = IF k = key[c] THEN {x} ELSE RanOf(k)
    <3>1. ReplayableEffects' = ReplayableEffects \cup {n}
      BY <1>3, <1>6 DEF ReplayableEffects
    <3>2. \A e \in ReplayableEffects : e.key # key[c]
      BY <2>1 DEF Runs, ReplayableEffects
    <3> QED
      BY <1>3, <3>1, <3>2 DEF RanOf
  <2>3. RanOf(key[c]) = {}
    BY <2>1 DEF Runs, RanOf, ReplayableEffects
  <2>4. RanMap' = [RanMap EXCEPT ![key[c]] = {x}] /\ RanMap[key[c]] = {}
    BY <1>1, <2>2, <2>3 DEF RanMap
  <2>5. PICK k \in Key : k = key[c]
    BY <1>1
  <2>6. Journal!Run(k, x)
    <3>1. disk.idem[k].st = "pending" /\ disk'.idem = disk.idem
      BY <1>1, <2>1, <2>5
    <3>2. RanMap' = [RanMap EXCEPT ![k] = {x}] /\ RanMap[k] = {}
      BY <2>4, <2>5
    <3> QED
      BY <1>4, <3>1, <3>2, Zenon DEF Journal!Run, RanMap, RanOf, AnswersMap
  <2> QED
    BY <2>6 DEF Journal!JournalNext
<1> QED
  BY <1>5, <1>6

\* complete_idempotent records the result of the one execution.
LEMMA CompleteImplements ==
  ASSUME ExecInv, NEW c \in Client, Complete(c), input[c] \in Replayable
  PROVE  Journal!JournalNext
<1> DEFINE k == key[c]
           r == outcome[c]
<1>1. /\ k \in Key /\ r \in Result /\ pc[c] = "complete"
      /\ CompleteIdempotent(c, k, r)
      /\ UNCHANGED <<effects, acked>>
  BY DEF Complete, Goto, Unanswered, ExecInv, RequestInv
<1>2. /\ disk.idem[k].st = "pending"
      /\ disk'.idem = [disk.idem EXCEPT ![k] =
           [st |-> "complete", digest |-> disk.idem[k].digest, result |-> r]]
  BY <1>1, CompleteLemma DEF ExecInv, KeyInv
<1>3. RanMap' = RanMap /\ AnswersMap' = AnswersMap
  BY <1>1, MapsUnchanged
<1>4. RanMap[k] = {r}
  <2> DEFINE n == [id |-> r, key |-> k, digest |-> input[c]]
  <2>1. n \in ReplayableEffects /\ n.id = r /\ n.key = k
    BY <1>1 DEF ExecInv, KeyInv, StageInv, ReplayableEffects
  <2> HIDE DEF n
  <2>2. \A e \in ReplayableEffects : e.key = k => e = n
    BY <2>1 DEF ExecInv, KeyInv, AtMostOnce
  <2> QED
    BY <1>1, <2>1, <2>2 DEF RanMap, RanOf
<1>5. Journal!RecordResult(k, r)
  BY <1>2, <1>3, <1>4 DEF Journal!RecordResult, RanMap, RanOf, AnswersMap
<1> QED
  BY <1>1, <1>5 DEF Journal!JournalNext

\* An answer to a replayable command is the answer on record; any other is no
\* step of the journal.
LEMMA AnswerImplements ==
  ASSUME ExecInv, NEW k \in Key, NEW d, NEW r,
         UNCHANGED <<disk, effects>>, acked' = acked \cup {<<k, d, r>>},
         d \in Replayable =>
           /\ disk.idem[k].st = "complete"
           /\ disk.idem[k].digest = d /\ disk.idem[k].result = r
  PROVE  Journal!JournalNext \/ UNCHANGED Journal!journalVars
<1>1. RanMap' = RanMap
  BY MapsUnchanged
<1>2. CASE d \notin Replayable
  <2>1. AnswersMap' = AnswersMap
    BY <1>2 DEF AnswersMap
  <2> QED
    BY <1>1, <2>1, StutterOfJournal
<1>3. CASE d \in Replayable
  <2>1. AnswersMap' = AnswersMap \cup {<<k, disk.idem[k].digest, disk.idem[k].result>>}
    BY <1>3 DEF AnswersMap
  <2>2. Journal!Answer(k)
    BY <1>1, <1>3, <2>1 DEF Journal!Answer, RanMap, RanOf, AnswersMap
  <2> QED
    BY <2>2 DEF Journal!JournalNext
<1> QED
  BY <1>2, <1>3

LEMMA ReplayImplements ==
  ASSUME ExecInv, NEW c \in Client, Replay(c)
  PROVE  Journal!JournalNext \/ UNCHANGED Journal!journalVars
<1> DEFINE e == rec[c].idem[key[c]]
<1>1. /\ key[c] \in Key
      /\ e.st = "complete" /\ e.digest = input[c]
      /\ acked' = acked \cup {<<key[c], input[c], e.result>>}
      /\ UNCHANGED <<disk, effects>>
  BY DEF Replay, MayReplay, Goto, ExecInv, RequestInv, storeVars
<1>2. e = disk.idem[key[c]]
  BY <1>1 DEF ExecInv, KeyInv, OldCopyInv
<1> QED
  BY <1>1, <1>2, AnswerImplements

LEMMA RespondImplements ==
  ASSUME ExecInv, NEW c \in Client, Respond(c)
  PROVE  Journal!JournalNext \/ UNCHANGED Journal!journalVars
<1>1. /\ key[c] \in Key /\ pc[c] = "respond"
      /\ acked' = acked \cup {<<key[c], input[c], outcome[c]>>}
      /\ UNCHANGED <<disk, effects>>
  BY DEF Respond, Goto, ExecInv, RequestInv, storeVars
<1>2. input[c] \in Replayable =>
        /\ disk.idem[key[c]].st = "complete"
        /\ disk.idem[key[c]].digest = input[c]
        /\ disk.idem[key[c]].result = outcome[c]
  BY <1>1 DEF ExecInv, KeyInv, StageInv
<1> QED
  BY <1>1, <1>2, AnswerImplements

\* The other steps are stutters of the journal.
LEMMA OthersStutter ==
  ASSUME ExecInv,
         \/ \E c \in Client, k \in Key, d \in Digest : Attach(c, k, d)
         \/ \E c \in Client :
              \/ Admit(c) \/ PassStop(c) \/ StartCheckpoint(c)
              \/ SaveCheckpoint(c) \/ Reload(c) \/ Validate(c)
              \/ Complete(c) /\ input[c] \notin Replayable
              \/ Raise(c) \/ Detach(c) \/ Beat(c) \/ Die(c)
         \/ Meanwhile
         \/ UNCHANGED vars
  PROVE  UNCHANGED Journal!journalVars
<1>1. UNCHANGED <<effects, acked>>
  BY DEF Attach, Admit, PassStop, StartCheckpoint, SaveCheckpoint, Reload,
         Validate, Complete, Raise, Detach, Beat, Die, Meanwhile, Unanswered,
         vars, execVars
<1>2. \/ \E c \in Client : Acquire(c) \/ Load(c) \/ Heartbeat(c) \/ Release(c)
                           \/ SaveEdit(c) \/ Crash(c)
      \/ Revoke \/ Rename \/ Archive \/ Unarchive \/ AcquireCutShort \/ Tick
      \/ UNCHANGED storeVars
  BY DEF Attach, Admit, PassStop, StartCheckpoint, SaveCheckpoint, Reload,
         Validate, Complete, Raise, Detach, Beat, Die, Meanwhile, LoadSession,
         vars
<1>3. disk'.idem = disk.idem
  BY <1>2, QuietStoreStep DEF ExecInv, KeyInv
<1> QED
  BY <1>1, <1>3, MapsUnchanged, StutterOfJournal

\* Before the first request nothing is reserved, executed or answered.
LEMMA InitImplements ==
  ASSUME Init
  PROVE  Journal!JournalInit
<1>1. disk = Fresh /\ effects = {} /\ acked = {}
  BY DEF Init, StoreInit
<1>2. Fresh.idem = [k \in Key |-> [st |-> "free", digest |-> None, result |-> None]]
  BY DEF Fresh, Absent, FreeEntry
<1>3. RanMap = [k \in Key |-> {}] /\ AnswersMap = {}
  BY <1>1 DEF RanMap, RanOf, ReplayableEffects, AnswersMap
<1> QED
  BY <1>1, <1>2, <1>3 DEF Journal!JournalInit, RanMap, RanOf, AnswersMap

\* Each step of the runtime is one step of the journal or none.
LEMMA StepImplements ==
  ASSUME ExecInv, [Next]_vars
  PROVE  Journal!JournalNext \/ UNCHANGED Journal!journalVars
<1>1. CASE \E c \in Client : Reserve(c) \/ Replay(c) \/ RunHandler(c) \/ Respond(c)
  BY <1>1, ReserveImplements, ReplayImplements, RunImplements, RespondImplements
<1>2. CASE \E c \in Client : Complete(c) /\ input[c] \in Replayable
  BY <1>2, CompleteImplements
<1>3. CASE ~ \/ \E c \in Client : Reserve(c) \/ Replay(c) \/ RunHandler(c)
                                  \/ Respond(c)
             \/ \E c \in Client : Complete(c) /\ input[c] \in Replayable
  BY <1>3, OthersStutter DEF Next, RequestStep
<1> QED
  BY <1>1, <1>2, <1>3

\* Refinement: whatever crashes, expires, is taken over, revoked or retried,
\* what happens to the idempotency map, to the repository and to the callers
\* of CoreRuntime.execute is a behaviour of the mutation protocol.
THEOREM RuntimeImplementsJournal == Spec => ImplementsJournal
<1>1. Init => Journal!JournalInit
  BY InitImplements
<1>2. ExecInv /\ [Next]_vars => [Journal!JournalNext]_(Journal!journalVars)
  BY StepImplements
<1> QED
  BY <1>1, <1>2, ExecInvariance, PTL DEF Spec, ImplementsJournal, Journal!JournalSpec
=============================================================================
