------------------------- MODULE HostedBridgeProofs -------------------------
(* Theorems about HostedBridge, for every set of requests and workers.     *)
EXTENDS HostedBridge, SessionStoreProofs

\* Lease identifiers are never issued twice, and a worker shares its own with
\* nobody.
GripInv ==
  /\ repoLease.id <= repoIssued
  /\ \A a \in Caller : grip[a] <= repoIssued
  /\ \A w \in Worker : \A a \in Caller :
       a # w /\ grip[w] # 0 => grip[a] # grip[w]

WorkerInv == StoreInv /\ BridgeTypeOK /\ GripInv /\ WorkerIsFenced

-----------------------------------------------------------------------------
(* When heartbeats come in time, dead owners are told from live ones and   *)
(* nobody reactivates the session under a request.                         *)

\* A request has a session handle, and a repository lease in the places where
\* it should.
PlaceInv ==
  \A c \in Client :
    /\ at[c] = "idle" <=> held[c] = 0
    /\ at[c] \in {"run", "settle"} => grip[c] # 0
    /\ at[c] \in {"idle", "attached", "leave"} => grip[c] = 0

\* The lease of a live request stays its own until the session is revoked.
KeptInv ==
  \A c \in Client :
    at[c] # "idle" =>
      disk.revoked \/ (lease.token = held[c] /\ lease.ttl > 0 /\ ~lease.gone)

\* One request of the session at a time.
OneRequest ==
  \A c, d \in Client : at[c] # "idle" /\ at[d] # "idle" => c = d

\* The repository's lease file and the caller that works under it belong
\* together, in both directions.
FileInv ==
  /\ \A a \in Caller : grip[a] # 0 =>
       repoLease = [id |-> grip[a], owner |-> a, process |-> "alive"]
  /\ repoLease.process # "reused"
  /\ repoLease.process = "alive" =>
       repoLease.owner \in Caller /\ grip[repoLease.owner] = repoLease.id
         /\ repoLease.id # 0

TurnInv ==
  StoreInv /\ BridgeTypeOK
  /\ PlaceInv /\ KeptInv /\ OneRequest /\ FileInv

-----------------------------------------------------------------------------
(* What one step does.                                                     *)

RepoMove(a) == Reenter(a) \/ TakeOver(a) \/ RepoRelease(a) \/ RepoDie(a)

\* Every step of the bridge is one operation of the session store or none, and
\* one operation on the repository lease or none.
LEMMA StepParts ==
  ASSUME Next
  PROVE  /\ StoreNext \/ UNCHANGED storeVars
         /\ \/ UNCHANGED repoVars
            \/ \E a \in Caller : RepoMove(a)
            \/ ReuserEnds
<1> USE BridgeAssumption
<1>1. ASSUME NEW c \in Client, Attach(c) \/ Command(c) \/ Beat(c) \/ Die(c)
      PROVE  StoreNext
  BY <1>1 DEF Attach, Command, Beat, Die, StoreNext, ClientStep, LifecycleStep
<1>2. ASSUME NEW c \in Client, Attach(c) \/ Command(c) \/ Beat(c)
      PROVE  UNCHANGED repoVars
  BY <1>2 DEF Attach, Command, Beat
<1>3. ASSUME NEW c \in Client, Die(c)
      PROVE  \E a \in Caller : RepoMove(a)
  BY <1>3 DEF Die, RepoMove
<1>4. ASSUME NEW c \in Client, RequestStep(c)
      PROVE  /\ StoreNext \/ UNCHANGED storeVars
             /\ UNCHANGED repoVars \/ \E a \in Caller : RepoMove(a)
  <2>1. CASE StrandAttached(c) \/ Refuse(c) \/ Finish(c) \/ StrandSettled(c)
    BY <2>1 DEF StrandAttached, Refuse, Finish, StrandSettled
  <2>2. CASE TakeRepository(c) \/ SettleRepository(c)
    BY <2>2 DEF TakeRepository, SettleRepository, RepoMove, RepoAcquire
  <2>3. CASE Detach(c)
    BY <2>3 DEF Detach, StoreNext, ClientStep
  <2> QED
    BY <2>1, <2>2, <2>3, <1>4 DEF RequestStep
<1>5. ASSUME NEW w \in Worker, WorkerStarts(w) \/ WorkerEnds(w) \/ WorkerDies(w)
      PROVE  UNCHANGED storeVars /\ \E a \in Caller : RepoMove(a)
  BY <1>5 DEF WorkerStarts, WorkerEnds, WorkerDies, RepoMove, RepoAcquire
<1>6. CASE SessionChanges \/ Passes
  BY <1>6 DEF SessionChanges, Passes, StoreNext, LifecycleStep
<1>7. CASE ProjectGoes \/ (ReuserEnds /\ UNCHANGED <<storeVars, bridgeVars>>)
  BY <1>7 DEF ProjectGoes
<1> QED
  BY <1>1, <1>2, <1>3, <1>4, <1>5, <1>6, <1>7 DEF Next

\* The repository lease keeps its types.
LEMMA RepoTypeStep ==
  ASSUME RepoTypeOK,
         \/ UNCHANGED repoVars
         \/ \E a \in Caller : RepoMove(a)
         \/ ReuserEnds
  PROVE  RepoTypeOK'
<1> USE RepositoryLeaseAssumption DEF RepoTypeOK, RepositoryLeaseFile,
        NoRepositoryLease
<1>1. CASE UNCHANGED repoVars
  BY <1>1 DEF repoVars
<1>2. ASSUME NEW a \in Caller, Reenter(a) \/ RepoRelease(a)
      PROVE  RepoTypeOK'
  BY <1>2 DEF Reenter, RepoRelease
<1>3. ASSUME NEW a \in Caller, TakeOver(a)
      PROVE  RepoTypeOK'
  BY <1>3 DEF TakeOver
<1>4. ASSUME NEW a \in Caller, RepoDie(a)
      PROVE  RepoTypeOK'
  BY <1>4 DEF RepoDie
<1>5. CASE ReuserEnds
  BY <1>5 DEF ReuserEnds
<1> QED
  BY <1>1, <1>2, <1>3, <1>4, <1>5 DEF RepoMove

\* Every variable keeps its type.
LEMMA BridgeTypeStep ==
  ASSUME StoreInv, BridgeTypeOK, [Next]_allVars
  PROVE  StoreInv' /\ BridgeTypeOK'
<1>1. CASE UNCHANGED allVars
  <2>1. StoreInv'
    BY <1>1, StoreStep DEF allVars
  <2>2. RepoTypeOK' /\ at' \in [Client -> Place] /\ project' \in {"there", "gone"}
    BY <1>1 DEF allVars, repoVars, bridgeVars, RepoTypeOK, BridgeTypeOK
  <2> QED
    BY <2>1, <2>2 DEF StoreInv, BridgeTypeOK
<1>2. CASE Next
  <2>1. StoreInv'
    BY <1>2, StepParts, StoreStep
  <2>2. RepoTypeOK'
    BY <1>2, StepParts, RepoTypeStep DEF BridgeTypeOK
  <2>3. at' \in [Client -> Place] /\ project' \in {"there", "gone"}
    <3> USE DEF BridgeTypeOK, Place, Move, bridgeVars
    <3>1. ASSUME NEW c \in Client,
                 Attach(c) \/ Command(c) \/ Beat(c) \/ Die(c)
          PROVE  at' \in [Client -> Place] /\ project' \in {"there", "gone"}
      BY <3>1 DEF Attach, Command, Beat, Die
    <3>2. ASSUME NEW c \in Client, RequestStep(c)
          PROVE  at' \in [Client -> Place] /\ project' \in {"there", "gone"}
      BY <3>2 DEF RequestStep, StrandAttached, TakeRepository, Refuse, Finish,
                  SettleRepository, StrandSettled, Detach
    <3>3. ASSUME NEW w \in Worker,
                 WorkerStarts(w) \/ WorkerEnds(w) \/ WorkerDies(w)
          PROVE  at' \in [Client -> Place] /\ project' \in {"there", "gone"}
      BY <3>3 DEF WorkerStarts, WorkerEnds, WorkerDies
    <3>4. CASE \/ ReuserEnds /\ UNCHANGED <<storeVars, bridgeVars>>
               \/ ProjectGoes \/ Passes \/ SessionChanges
      BY <3>4 DEF ProjectGoes, Passes, SessionChanges
    <3> QED
      BY <3>1, <3>2, <3>3, <3>4, <1>2 DEF Next
  <2> QED
    BY <2>1, <2>2, <2>3 DEF StoreInv, BridgeTypeOK
<1> QED
  BY <1>1, <1>2

LEMMA BridgeInitLemma ==
  ASSUME Init
  PROVE  StoreInv /\ BridgeTypeOK /\ GripInv /\ WorkerIsFenced
<1>1. StoreInv
  BY InitLemma DEF Init
<1>2. RepoTypeOK
  BY RepositoryLeaseAssumption
     DEF Init, RepoInit, RepoTypeOK, RepositoryLeaseFile, NoRepositoryLease
<1>3. GripInv /\ WorkerIsFenced
  BY BridgeAssumption
     DEF Init, RepoInit, NoRepositoryLease, GripInv, WorkerIsFenced
<1> QED
  BY <1>1, <1>2, <1>3 DEF Init, Place, StoreInv, BridgeTypeOK

-----------------------------------------------------------------------------
(* Detached workers.                                                       *)

\* No operation on the repository lease by another caller disturbs a worker.
LEMMA WorkerStep ==
  ASSUME RepoTypeOK, GripInv, WorkerIsFenced,
         \/ UNCHANGED repoVars
         \/ \E a \in Caller : RepoMove(a)
         \/ ReuserEnds
  PROVE  GripInv' /\ WorkerIsFenced'
<1> USE BridgeAssumption, RepositoryLeaseAssumption
    DEF RepoTypeOK, RepositoryLeaseFile, GripInv, WorkerIsFenced
<1>1. CASE UNCHANGED repoVars
  BY <1>1 DEF repoVars
<1>2. ASSUME NEW a \in Caller, Reenter(a)
      PROVE  GripInv' /\ WorkerIsFenced'
  BY <1>2 DEF Reenter, SameOwner
<1>3. ASSUME NEW a \in Caller, TakeOver(a)
      PROVE  GripInv' /\ WorkerIsFenced'
  <2>1. \A w \in Worker : grip[w] = 0
    BY <1>3 DEF TakeOver, SameProcess
  <2>2. /\ repoIssued' = repoIssued + 1
        /\ repoLease' = [id |-> repoIssued + 1, owner |-> a, process |-> "alive"]
        /\ grip' = [grip EXCEPT ![a] = repoIssued + 1]
    BY <1>3 DEF TakeOver
  <2> QED
    BY <2>1, <2>2
<1>4. ASSUME NEW a \in Caller, RepoRelease(a)
      PROVE  GripInv' /\ WorkerIsFenced'
  <2>1. repoLease.id \in {0, grip[a]}
    BY <1>4 DEF RepoRelease, NotMine
  <2>2. /\ repoIssued' = repoIssued
        /\ repoLease' = [id |-> 0, owner |-> Nobody, process |-> "gone"]
        /\ grip' = [grip EXCEPT ![a] = 0]
    BY <1>4 DEF RepoRelease, NoRepositoryLease
  <2>3. \A w \in Worker : w # a => grip[w] = 0
    BY <2>1
  <2> QED
    BY <2>2, <2>3
<1>5. ASSUME NEW a \in Caller, RepoDie(a)
      PROVE  GripInv' /\ WorkerIsFenced'
  <2>1. /\ grip' = [grip EXCEPT ![a] = 0]
        /\ repoIssued' = repoIssued /\ repoLease'.id = repoLease.id
        /\ repoLease.owner # a => repoLease' = repoLease
    BY <1>5 DEF RepoDie
  <2> QED
    BY <2>1
<1>6. CASE ReuserEnds
  BY <1>6 DEF ReuserEnds
<1> QED
  BY <1>1, <1>2, <1>3, <1>4, <1>5, <1>6 DEF RepoMove

\* A worker keeps the repository as long as it lives, under every interleaving,
\* crash, superseded or stranded request, and with or without timely heartbeats
\* and creation markers.
THEOREM WorkersAreFenced == Spec => []WorkerIsFenced
<1>1. Init => WorkerInv
  BY BridgeInitLemma DEF WorkerInv
<1>2. WorkerInv /\ [Next]_allVars => WorkerInv'
  <2> SUFFICES ASSUME WorkerInv, [Next]_allVars PROVE WorkerInv'
    OBVIOUS
  <2> USE DEF WorkerInv
  <2>1. StoreInv' /\ BridgeTypeOK'
    BY BridgeTypeStep
  <2>2. \/ UNCHANGED repoVars
        \/ \E a \in Caller : RepoMove(a)
        \/ ReuserEnds
    BY StepParts DEF allVars
  <2>3. GripInv' /\ WorkerIsFenced'
    BY <2>2, WorkerStep DEF BridgeTypeOK
  <2> QED
    BY <2>1, <2>3
<1>3. WorkerInv => WorkerIsFenced
  BY DEF WorkerInv
<1> QED
  BY <1>1, <1>2, <1>3, PTL DEF Spec

\* Every variable keeps its type.
THEOREM BridgeTyping == Spec => []BridgeTypeOK
<1>1. Init => StoreInv /\ BridgeTypeOK
  BY BridgeInitLemma
<1>2. StoreInv /\ BridgeTypeOK /\ [Next]_allVars => (StoreInv /\ BridgeTypeOK)'
  BY BridgeTypeStep
<1> QED
  BY <1>1, <1>2, PTL DEF Spec

-----------------------------------------------------------------------------
(* One mutation at a time.                                                 *)

\* The assumptions on the environment under which mutations take turns.
Orderly == Timely /\ Marker /\ "reactivate" \notin Lifecycle

\* What the session's life cycle and time do to a lease somebody holds:
\* nothing, until the session is revoked.
LEMMA SessionStep ==
  ASSUME Orderly, StoreInv, KeptInv, SessionChanges \/ Passes
  PROVE  /\ UNCHANGED <<held, at, project, repoLease, repoIssued, grip>>
         /\ KeptInv'
<1>t. /\ disk \in Record /\ disk.revoked \in BOOLEAN
      /\ lease \in Lease /\ lease.ttl \in Nat /\ TypeOK
  BY BoundAssumption DEF StoreInv, TypeOK, Record, Lease
<1>u. UNCHANGED <<repoVars, bridgeVars>>
  BY DEF SessionChanges, Passes
<1>v. UNCHANGED at /\ UNCHANGED <<project, repoLease, repoIssued, grip>>
  BY <1>u DEF repoVars, bridgeVars
<1>w. SUFFICES UNCHANGED held /\ KeptInv'
  BY <1>v
<1>1. CASE Revoke
  <2>1. [disk EXCEPT !.revoked = TRUE] =
          [disk EXCEPT !.revoked = TRUE, !.archived = disk.archived]
        /\ disk.archived \in BOOLEAN
    BY <1>t DEF Record
  <2>2. disk'.revoked
    BY <1>1, <1>t, <2>1, MetadataLemma DEF Revoke
  <2> QED
    BY <1>1, <2>2 DEF Revoke, KeptInv
<1>2. CASE RevokeCutShort \/ Rename \/ Unarchive
  <2>1. UNCHANGED <<lease, held>>
    BY <1>2 DEF RevokeCutShort, Rename, Unarchive
  <2>2. disk.revoked => disk'.revoked
    BY <1>2, <1>t, MetadataCases DEF Orderly, ReactivateExisting
  <2> QED
    BY <1>v, <1>2, <2>1, <2>2 DEF KeptInv
<1>3. CASE Archive
  <2>1. disk.revoked => disk'.revoked
    <3>1. CASE disk.archived
      BY <1>3, <3>1 DEF Archive
    <3>2. CASE ~disk.archived
      BY <1>3, <3>2, <1>t, MetadataCases DEF Orderly, ReactivateExisting
    <3> QED
      BY <3>1, <3>2
  <2>2. lease.ttl = 0 /\ UNCHANGED held
    BY <1>3 DEF Archive, NoActiveLease
  <2> QED
    BY <1>v, <1>3, <2>1, <2>2 DEF KeptInv
<1>4. CASE AcquireCutShort
  <2>1. /\ ~disk.revoked /\ UNCHANGED <<disk, held>>
        /\ lease.ttl = 0 \/ lease.gone
    BY <1>4 DEF AcquireCutShort, StaleLease
  <2> QED
    BY <1>v, <1>4, <2>1 DEF KeptInv
<1>5. CASE Passes
  <2>1. /\ lease' = [lease EXCEPT !.ttl = @ - 1] /\ lease.ttl > 0
        /\ UNCHANGED <<disk, held>>
        /\ lease.ttl = 1 => \A c \in Client : held[c] # lease.token
    BY <1>5 DEF Passes, Tick, Orderly
  <2>2. /\ lease'.token = lease.token /\ lease'.gone = lease.gone
        /\ lease.ttl # 1 => lease'.ttl > 0
    BY <2>1, <1>t DEF Lease
  <2> QED
    BY <1>v, <2>1, <2>2 DEF KeptInv
<1>6. \A c \in Client : ~ReactivateExisting(c)
  BY DEF Orderly, ReactivateExisting
<1> QED
  BY <1>1, <1>2, <1>3, <1>4, <1>5, <1>6 DEF SessionChanges

\* A request that gets the session lease is alone: every other would still
\* have it.
LEMMA AttachStep ==
  ASSUME TurnInv, NEW c \in Client, Attach(c)
  PROVE  PlaceInv' /\ KeptInv' /\ OneRequest' /\ FileInv'
<1> USE DEF TurnInv, BridgeTypeOK, TypeOK, RepoTypeOK
<1>1. /\ ~disk.revoked /\ UNCHANGED <<disk, repoLease, repoIssued, grip>>
      /\ lease.token # 0 => lease.ttl = 0 \/ lease.gone
      /\ at[c] = "idle" /\ at' = [at EXCEPT ![c] = "attached"]
      /\ held' = [held EXCEPT ![c] = issued + 1]
      /\ issued < MaxToken
  BY DEF Attach, Move, Acquire, AcquireWith, StaleLease, repoVars
<1>2. PICK t \in 1..TTL :
        lease' = [token |-> issued + 1, ttl |-> t, gone |-> FALSE]
  BY DEF Attach, Acquire, AcquireWith
<1>3. issued \in Nat /\ issued + 1 # 0 /\ t > 0
  BY BoundAssumption
<1>4. \A d \in Client : at[d] = "idle"
  BY <1>1 DEF KeptInv, PlaceInv
<1>5. PlaceInv'
  BY <1>1, <1>3, <1>4 DEF PlaceInv
<1>6. KeptInv'
  BY <1>1, <1>2, <1>3, <1>4 DEF KeptInv
<1>7. OneRequest'
  BY <1>1, <1>4 DEF OneRequest
<1>8. FileInv'
  BY <1>1 DEF FileInv
<1> QED
  BY <1>5, <1>6, <1>7, <1>8

\* A request that leaves or dies takes its session lease with it.
LEMMA LeaveStep ==
  ASSUME Orderly, TurnInv, NEW c \in Client, Detach(c) \/ Die(c)
  PROVE  PlaceInv' /\ KeptInv' /\ OneRequest' /\ FileInv'
<1> USE BridgeAssumption DEF TurnInv, BridgeTypeOK, TypeOK, RepoTypeOK
<1>1. /\ at' = [at EXCEPT ![c] = "idle"] /\ held' = [held EXCEPT ![c] = 0]
      /\ disk' = disk
      /\ held[c] = 0 \/ lease.token # held[c] => lease' = lease
  BY DEF Detach, Move, Release, Die, Crash
<1>2. /\ at[c] = "idle" => lease' = lease
      /\ \A d \in Client : d # c /\ at[c] # "idle" => at[d] = "idle"
  BY <1>1 DEF OneRequest, PlaceInv
<1>3. grip' = [grip EXCEPT ![c] = 0]
  <2>1. CASE Detach(c)
    BY <2>1 DEF Detach, Move, PlaceInv, repoVars
  <2>2. CASE Die(c)
    BY <2>2 DEF Die, RepoDie
  <2> QED
    BY <2>1, <2>2
<1>4. PlaceInv'
  BY <1>1, <1>3 DEF PlaceInv
<1>5. KeptInv'
  BY <1>1, <1>2 DEF KeptInv
<1>6. OneRequest'
  BY <1>1 DEF OneRequest
<1>7. FileInv'
  <2>1. CASE Detach(c)
    BY <2>1 DEF Detach, repoVars, FileInv
  <2>2. CASE Die(c)
    <3>1. CASE repoLease.owner = c /\ repoLease.process = "alive"
      <4>1. repoLease' = [repoLease EXCEPT !.process = "gone"]
        BY <2>2, <3>1 DEF Die, RepoDie, Orderly
      <4>2. \A a \in Caller : a # c => grip[a] = 0
        BY <3>1 DEF FileInv
      <4> QED
        BY <1>3, <4>1, <4>2 DEF FileInv, RepositoryLeaseFile
    <3>2. CASE ~(repoLease.owner = c /\ repoLease.process = "alive")
      <4>1. repoLease' = repoLease
        BY <2>2, <3>2 DEF Die, RepoDie
      <4> QED
        BY <1>3, <3>2, <4>1 DEF FileInv
    <3> QED
      BY <3>1, <3>2
  <2> QED
    BY <2>1, <2>2
<1> QED
  BY <1>4, <1>5, <1>6, <1>7

\* The file and its holder stay together.
LEMMA FileStep ==
  ASSUME RepoTypeOK, FileInv, NEW a \in Caller,
         \/ TakeOver(a)
         \/ RepoRelease(a) /\ grip[a] # 0
  PROVE  FileInv' /\ \A b \in Caller : b # a => grip'[b] = grip[b]
<1> USE DEF RepoTypeOK, RepositoryLeaseFile
<1>1. CASE TakeOver(a)
  <2>1. \A b \in Caller : grip[b] = 0
    BY <1>1 DEF TakeOver, SameProcess, FileInv
  <2>2. /\ repoLease' = [id |-> repoIssued + 1, owner |-> a, process |-> "alive"]
        /\ grip' = [grip EXCEPT ![a] = repoIssued + 1]
        /\ repoIssued + 1 # 0
    BY <1>1 DEF TakeOver
  <2> QED
    BY <2>1, <2>2 DEF FileInv
<1>2. CASE RepoRelease(a) /\ grip[a] # 0
  <2>1. /\ repoLease' = NoRepositoryLease /\ grip' = [grip EXCEPT ![a] = 0]
        /\ \A b \in Caller : b # a => grip[b] = 0
    BY <1>2 DEF RepoRelease, FileInv
  <2> QED
    BY <2>1 DEF FileInv, NoRepositoryLease
<1> QED
  BY <1>1, <1>2

\* A request with the session lease, from taking the repository to giving it
\* back.
LEMMA ServeStep ==
  ASSUME TurnInv, NEW c \in Client,
         \/ StrandAttached(c) \/ TakeRepository(c) \/ Refuse(c) \/ Finish(c)
         \/ SettleRepository(c) \/ StrandSettled(c)
  PROVE  PlaceInv' /\ KeptInv' /\ OneRequest' /\ FileInv'
<1> USE BridgeAssumption DEF TurnInv, BridgeTypeOK, TypeOK, RepoTypeOK
<1>1. PICK q \in {"stranded", "run", "leave", "settle"} :
        at' = [at EXCEPT ![c] = q] /\ at[c] # "idle" /\ UNCHANGED storeVars
  BY DEF StrandAttached, TakeRepository, Refuse, Finish, SettleRepository,
         StrandSettled, Move
<1>2. KeptInv' /\ OneRequest'
  BY <1>1 DEF KeptInv, OneRequest, storeVars
<1>3. CASE StrandAttached(c) \/ Refuse(c) \/ Finish(c) \/ StrandSettled(c)
  <2>1. UNCHANGED repoVars
    BY <1>3 DEF StrandAttached, Refuse, Finish, StrandSettled
  <2>2. PlaceInv'
    BY <1>1, <1>3, <2>1
       DEF PlaceInv, StrandAttached, Refuse, Finish, StrandSettled, Move,
           storeVars, repoVars
  <2> QED
    BY <1>2, <2>1, <2>2 DEF FileInv, repoVars
<1>4. CASE TakeRepository(c)
  <2>1. at[c] = "attached" /\ at' = [at EXCEPT ![c] = "run"] /\ grip[c] = 0
    BY <1>4 DEF TakeRepository, Move, PlaceInv
  <2>2. ~Reenter(c)
    <3> SUFFICES ASSUME Reenter(c) PROVE FALSE
      OBVIOUS
    <3>1. /\ repoLease.process = "alive" /\ repoLease.owner \in Client
          /\ repoLease.id # 0
      BY DEF Reenter, SameProcess, SameOwner, FileInv, RepositoryLeaseFile
    <3>2. grip[repoLease.owner] = repoLease.id
      BY <3>1 DEF FileInv
    <3>3. at[repoLease.owner] # "idle" /\ repoLease.owner # c
      BY <2>1, <3>1, <3>2 DEF PlaceInv
    <3> QED
      BY <1>1, <3>1, <3>3 DEF OneRequest
  <2>3. TakeOver(c)
    BY <1>4, <2>2 DEF TakeRepository, RepoAcquire
  <2>4. FileInv' /\ \A b \in Caller : b # c => grip'[b] = grip[b]
    BY <2>3, FileStep
  <2>5. grip'[c] # 0
    BY <2>3 DEF TakeOver
  <2>6. PlaceInv'
    BY <1>1, <2>1, <2>4, <2>5 DEF PlaceInv, storeVars
  <2> QED
    BY <1>2, <2>4, <2>6
<1>5. CASE SettleRepository(c)
  <2>1. /\ at[c] = "settle" /\ at' = [at EXCEPT ![c] = "leave"]
        /\ RepoRelease(c) /\ grip[c] # 0
    BY <1>5 DEF SettleRepository, Move, PlaceInv
  <2>2. FileInv' /\ \A b \in Caller : b # c => grip'[b] = grip[b]
    BY <2>1, FileStep
  <2>3. grip'[c] = 0
    BY <2>1 DEF RepoRelease
  <2>4. PlaceInv'
    BY <1>1, <2>1, <2>2, <2>3 DEF PlaceInv, storeVars
  <2> QED
    BY <1>2, <2>2, <2>4
<1> QED
  BY <1>3, <1>4, <1>5

\* What the others do to the repository lease does not touch a request.
LEMMA WorkersStep ==
  ASSUME Orderly, TurnInv, NEW w \in Worker,
         WorkerStarts(w) \/ WorkerEnds(w) \/ WorkerDies(w)
  PROVE  PlaceInv' /\ KeptInv' /\ OneRequest' /\ FileInv'
<1> USE BridgeAssumption DEF TurnInv, BridgeTypeOK, TypeOK, RepoTypeOK
<1>1. UNCHANGED storeVars /\ UNCHANGED bridgeVars
  BY DEF WorkerStarts, WorkerEnds, WorkerDies
<1>2. KeptInv' /\ OneRequest'
  BY <1>1 DEF KeptInv, OneRequest, storeVars, bridgeVars
<1>3. FileInv' /\ \A b \in Caller : b # w => grip'[b] = grip[b]
  <2>1. CASE WorkerStarts(w)
    <3>1. TakeOver(w)
      BY <2>1 DEF WorkerStarts, RepoAcquire, Reenter, SameOwner
    <3> QED
      BY <3>1, FileStep
  <2>2. CASE WorkerEnds(w)
    BY <2>2, FileStep DEF WorkerEnds
  <2>3. CASE WorkerDies(w)
    <3>1. /\ grip[w] # 0 /\ grip' = [grip EXCEPT ![w] = 0]
          /\ repoLease = [id |-> grip[w], owner |-> w, process |-> "alive"]
      BY <2>3 DEF WorkerDies, RepoDie, FileInv
    <3>2. repoLease' = [repoLease EXCEPT !.process = "gone"]
      BY <2>3, <3>1 DEF WorkerDies, RepoDie, Orderly
    <3>3. \A a \in Caller : a # w => grip[a] = 0
      BY <3>1 DEF FileInv
    <3> QED
      BY <3>1, <3>2, <3>3 DEF FileInv, RepositoryLeaseFile
  <2> QED
    BY <2>1, <2>2, <2>3
<1>4. PlaceInv'
  BY <1>1, <1>3 DEF PlaceInv, storeVars, bridgeVars
<1> QED
  BY <1>2, <1>3, <1>4

\* The command and the heartbeat write under the lease and leave it valid.
LEMMA HoldStep ==
  ASSUME TurnInv, NEW c \in Client, Command(c) \/ Beat(c)
  PROVE  PlaceInv' /\ KeptInv' /\ OneRequest' /\ FileInv'
<1> USE DEF TurnInv, BridgeTypeOK, TypeOK, RepoTypeOK
<1>1. /\ UNCHANGED <<held, at, repoLease, repoIssued, grip>>
      /\ disk'.revoked = disk.revoked
      /\ \/ lease' = lease
         \/ \E t \in 1..TTL : lease' = [lease EXCEPT !.ttl = t]
  <2>1. CASE Beat(c)
    BY <2>1 DEF Beat, Heartbeat, repoVars, bridgeVars
  <2>2. CASE Command(c)
    <3>1. UNCHANGED <<held, lease>>
      BY <2>2 DEF Command, Load, SaveEdit, Save
    <3>2. disk'.revoked = disk.revoked
      BY <2>2, SaveEditLemma DEF Command, Load
    <3> QED
      BY <2>2, <3>1, <3>2 DEF Command, repoVars, bridgeVars
  <2> QED
    BY <2>1, <2>2
<1>2. /\ lease'.token = lease.token /\ lease'.gone = lease.gone
      /\ lease.ttl > 0 => lease'.ttl > 0
  BY <1>1, BoundAssumption DEF Lease
<1> QED
  BY <1>1, <1>2 DEF PlaceInv, KeptInv, OneRequest, FileInv

\* The invariant of the turns is inductive, so hosted requests and detached
\* workers never change the repository together.
THEOREM MutationsTakeTurns ==
  ASSUME Orderly
  PROVE  Spec => []OneAtATime
<1> USE BridgeAssumption
<1>1. Init => TurnInv
  <2> SUFFICES ASSUME Init PROVE TurnInv
    OBVIOUS
  <2>1. StoreInv /\ BridgeTypeOK
    BY BridgeInitLemma
  <2>2. PlaceInv /\ KeptInv /\ OneRequest /\ FileInv
    BY DEF Init, StoreInit, RepoInit, NoRepositoryLease, PlaceInv, KeptInv,
           OneRequest, FileInv
  <2> QED
    BY <2>1, <2>2 DEF TurnInv
<1>2. TurnInv /\ [Next]_allVars => TurnInv'
  <2> SUFFICES ASSUME TurnInv, [Next]_allVars PROVE TurnInv'
    OBVIOUS
  <2>1. StoreInv' /\ BridgeTypeOK'
    BY BridgeTypeStep DEF TurnInv
  <2>2. PlaceInv' /\ KeptInv' /\ OneRequest' /\ FileInv'
    <3>1. ASSUME NEW c \in Client,
                 Attach(c) \/ RequestStep(c) \/ Command(c) \/ Beat(c) \/ Die(c)
          PROVE  PlaceInv' /\ KeptInv' /\ OneRequest' /\ FileInv'
      BY <3>1, AttachStep, LeaveStep, ServeStep, HoldStep DEF RequestStep
    <3>2. ASSUME NEW w \in Worker,
                 WorkerStarts(w) \/ WorkerEnds(w) \/ WorkerDies(w)
          PROVE  PlaceInv' /\ KeptInv' /\ OneRequest' /\ FileInv'
      BY <3>2, WorkersStep
    <3>3. CASE SessionChanges \/ Passes
      <4>1. /\ UNCHANGED <<held, at, project, repoLease, repoIssued, grip>>
            /\ KeptInv'
        BY <3>3, SessionStep DEF TurnInv
      <4> QED
        BY <4>1 DEF TurnInv, PlaceInv, OneRequest, FileInv
    <3>4. CASE ReuserEnds
      BY <3>4 DEF ReuserEnds, TurnInv, FileInv
    <3>5. CASE ProjectGoes \/ UNCHANGED allVars
      BY <3>5 DEF ProjectGoes, TurnInv, PlaceInv, KeptInv, OneRequest, FileInv,
                  allVars, storeVars, repoVars, bridgeVars
    <3> QED
      BY <3>1, <3>2, <3>3, <3>4, <3>5 DEF Next
  <2> QED
    BY <2>1, <2>2 DEF TurnInv
<1>3. TurnInv => OneAtATime
  BY DEF TurnInv, PlaceInv, FileInv, OneAtATime, Working
<1> QED
  BY <1>1, <1>2, <1>3, PTL DEF Spec

-----------------------------------------------------------------------------
\* The bridge is a user of the store: all that is proved of StoreSpec, fencing
\* and the absence of lost updates first of all, holds of the session under it,
\* with its requests stranded, superseded and reactivated as it allows.
THEOREM BridgeUsesStore == Spec => StoreSpec
<1>1. Init => StoreInit
  BY DEF Init
<1>2. [Next]_allVars => [StoreNext]_storeVars
  BY StepParts DEF allVars
<1> QED
  BY <1>1, <1>2, PTL DEF Spec, StoreSpec
=============================================================================
