-------------------------- MODULE MutationJournal --------------------------
(* What the mutation protocol of docs/vNext/SESSION-MODEL.md promises of   *)
(* each idempotency key: the intent is on record before the mutation runs, *)
(* the mutation runs at most once, its result is recorded after it ran,    *)
(* and every caller that is answered gets that result.                     *)
CONSTANTS Key, Digest, Result, None

VARIABLES
  entry,   \* the idempotency map
  ran,     \* the results of the executions of each key
  acked    \* the answers given, as <<key, digest, result>>

journalVars == <<entry, ran, acked>>

JournalInit ==
  /\ entry = [k \in Key |-> [st |-> "free", digest |-> None, result |-> None]]
  /\ ran = [k \in Key |-> {}]
  /\ acked = {}

Reserve(k, d) ==
  /\ entry[k].st = "free"
  /\ entry' = [entry EXCEPT ![k] =
                 [st |-> "pending", digest |-> d, result |-> None]]
  /\ UNCHANGED <<ran, acked>>

Run(k, r) ==
  /\ entry[k].st = "pending"
  /\ ran[k] = {}
  /\ ran' = [ran EXCEPT ![k] = {r}]
  /\ UNCHANGED <<entry, acked>>

RecordResult(k, r) ==
  /\ entry[k].st = "pending"
  /\ ran[k] = {r}
  /\ entry' = [entry EXCEPT ![k] =
                 [st |-> "complete", digest |-> @.digest, result |-> r]]
  /\ UNCHANGED <<ran, acked>>

Answer(k) ==
  /\ entry[k].st = "complete"
  /\ acked' = acked \cup {<<k, entry[k].digest, entry[k].result>>}
  /\ UNCHANGED <<entry, ran>>

JournalNext ==
  \E k \in Key :
    \/ \E d \in Digest : Reserve(k, d)
    \/ \E r \in Result : Run(k, r) \/ RecordResult(k, r)
    \/ Answer(k)

JournalSpec == JournalInit /\ [][JournalNext]_journalVars
=============================================================================
