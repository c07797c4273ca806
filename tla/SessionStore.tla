---------------------------- MODULE SessionStore ----------------------------
(***************************************************************************)
(* One durable session as src/src/karox/sessions.py keeps it: the          *)
(* checksummed document session.json, the mutation lease lease.json beside *)
(* it, and the handles and in-memory copies of the processes that use      *)
(* them.                                                                   *)
(*                                                                         *)
(* Every method whose body is one critical section of the state lock       *)
(* (.state.lock) is one atomic action.  What the code does outside the     *)
(* lock is a step of its own: load() takes no lock, and delete_archived()  *)
(* removes the directory after leaving it.  A method that raises changes   *)
(* nothing, so its refusals are the guards of its action.                  *)
(***************************************************************************)
EXTENDS Naturals

CONSTANTS
  Client,      \* processes that open the store (bridge children, CLI, agents)
  Key,         \* idempotency keys
  Digest,      \* digests of the input of a mutation
  Result,      \* results a mutation can have
  None,        \* no process, no digest, no result
  TTL,         \* clock ticks a fresh or refreshed lease lasts at most
  MaxToken,    \* bound: leases ever issued
  MaxRev,      \* bound: writes of the document
  Lifecycle    \* the events of LifecycleEvent that may happen

LifecycleEvent ==
  {"create", "rename", "archive", "unarchive", "revoke", "revoke_cut_short",
   "acquire_cut_short", "reactivate", "delete", "crash"}

ASSUME NoneAssumption == None \notin Client \cup Digest \cup Result
ASSUME BoundAssumption ==
  TTL \in Nat \ {0} /\ MaxToken \in Nat /\ MaxRev \in Nat
ASSUME LifecycleAssumption == Lifecycle \subseteq LifecycleEvent

VARIABLES
  disk,      \* session.json
  lease,     \* lease.json; token 0 when there is no file
  issued,    \* fencing tokens issued so far (uuid4 in the code)
  held,      \* the token in the MutationLease a process holds; 0 for none
  rec,       \* the SessionRecord a process has in memory
  deleting,  \* processes between the fence and the rmtree of delete_archived
  lock,      \* the process that never leaves the state lock, or None
  stuck      \* processes blocked for ever inside reactivate

storeVars == <<disk, lease, issued, held, rec, deleting, lock, stuck>>

(* SessionRecord: revision, the two lifecycle flags, the idempotency map    *)
(* and, for every other field, the set of writes the content reflects: a   *)
(* write is <<fencing token, revision>>, token 0 for one made without a    *)
(* lease.                                                                  *)
Entry == [st : {"free", "pending", "complete"},
          digest : Digest \cup {None}, result : Result \cup {None}]

Record == [exists : BOOLEAN, rev : 0..MaxRev, revoked : BOOLEAN,
           archived : BOOLEAN, log : SUBSET ((0..MaxToken) \X (1..MaxRev)),
           idem : [Key -> Entry]]

Lease == [token : 0..MaxToken, ttl : 0..TTL, gone : BOOLEAN]

FreeEntry == [st |-> "free", digest |-> None, result |-> None]

Absent == [exists |-> FALSE, rev |-> 0, revoked |-> FALSE, archived |-> FALSE,
           log |-> {}, idem |-> [k \in Key |-> FreeEntry]]

Fresh == [Absent EXCEPT !.exists = TRUE]

NoLease == [token |-> 0, ttl |-> 0, gone |-> FALSE]

StoreInit ==
  /\ disk = Fresh
  /\ lease = NoLease
  /\ issued = 0
  /\ held = [c \in Client |-> 0]
  /\ rec = [c \in Client |-> Absent]
  /\ deleting = {}
  /\ lock = None
  /\ stuck = {}

-----------------------------------------------------------------------------
(* Helpers shared by the methods.                                          *)

\* A process can enter the critical section.
CanLock(c) == lock = None /\ c \notin stuck

\* Room for one more write (MaxRev).
CanWrite == disk.rev < MaxRev

\* What a write of r under token t leaves on disk: revision + 1.
Written(r, t) ==
  [r EXCEPT !.rev = @ + 1, !.log = @ \cup {<<t, r.rev + 1>>}]

\* _metadata_update_unlocked: a write of the document just loaded under the
\* lock, without a lease; forgetting to advance the revision.
MetadataUpdateInPlace(r) == disk' = [Written(r, 0) EXCEPT !.rev = r.rev]
MetadataUpdate(r) == disk' = Written(r, 0)

\* _validate_lease_unlocked; without the token comparison.
ValidLeaseAnyToken(c) == held[c] # 0 /\ lease.token # 0 /\ lease.ttl > 0
ValidLease(c) == held[c] # 0 /\ lease.token = held[c] /\ lease.ttl > 0

\* A lease another process may set aside: expired, or its owner is a dead
\* process of this host.
StaleLease == lease.ttl = 0 \/ lease.gone

\* _ensure_no_active_lease_unlocked: raises while the lease is unexpired,
\* whether or not its owner is alive.
NoActiveLease == lease.ttl = 0

\* The revision check of save; one that lets an older copy through.
RevisionMatchesOrOlder(c) == rec[c].rev <= disk.rev
RevisionMatches(c) == rec[c].rev = disk.rev

-----------------------------------------------------------------------------
(* The session's life cycle, driven by CLI and launcher processes.         *)

\* create: the identifier is free (never used, or deleted since).
Create ==
  /\ "create" \in Lifecycle
  /\ lock = None
  /\ ~disk.exists
  /\ disk' = Fresh
  /\ UNCHANGED <<lease, issued, held, rec, deleting, lock, stuck>>

\* reactivate of a session that is there: every flag is reset, the lease file
\* is left alone.
ReactivateExisting(c) ==
  /\ "reactivate" \in Lifecycle
  /\ CanLock(c) /\ disk.exists /\ CanWrite
  /\ MetadataUpdate([disk EXCEPT !.revoked = FALSE, !.archived = FALSE])
  /\ UNCHANGED <<lease, issued, held, rec, deleting, lock, stuck>>

\* reactivate of a session that is not there calls create inside the lock
\* create takes: on POSIX flock waits for a lock its own thread holds.
ReactivateMissing(c) ==
  /\ "reactivate" \in Lifecycle
  /\ CanLock(c) /\ ~disk.exists
  /\ lock' = c
  /\ stuck' = stuck \cup {c}
  /\ UNCHANGED <<disk, lease, issued, held, rec, deleting>>

\* revoke: the document first, then the lease file.
Revoke ==
  /\ "revoke" \in Lifecycle
  /\ lock = None /\ disk.exists /\ CanWrite
  /\ MetadataUpdate([disk EXCEPT !.revoked = TRUE])
  /\ lease' = NoLease
  /\ UNCHANGED <<issued, held, rec, deleting, lock, stuck>>

\* The process dies, or unlink raises, between the two writes of revoke.
RevokeCutShort ==
  /\ "revoke_cut_short" \in Lifecycle
  /\ lock = None /\ disk.exists /\ CanWrite
  /\ MetadataUpdate([disk EXCEPT !.revoked = TRUE])
  /\ UNCHANGED <<lease, issued, held, rec, deleting, lock, stuck>>

\* rename: no lease is asked for.
Rename ==
  /\ "rename" \in Lifecycle
  /\ lock = None /\ disk.exists /\ CanWrite
  /\ MetadataUpdate(disk)
  /\ UNCHANGED <<lease, issued, held, rec, deleting, lock, stuck>>

\* archive: refused under an unexpired lease; an expired lease file goes.
Archive ==
  /\ "archive" \in Lifecycle
  /\ lock = None /\ NoActiveLease /\ disk.exists
  /\ lease' = NoLease
  /\ IF disk.archived THEN UNCHANGED disk
     ELSE CanWrite /\ MetadataUpdate([disk EXCEPT !.archived = TRUE])
  /\ UNCHANGED <<issued, held, rec, deleting, lock, stuck>>

Unarchive ==
  /\ "unarchive" \in Lifecycle
  /\ lock = None /\ disk.exists /\ disk.archived /\ CanWrite
  /\ MetadataUpdate([disk EXCEPT !.archived = FALSE])
  /\ UNCHANGED <<lease, issued, held, rec, deleting, lock, stuck>>

\* delete_archived, inside the lock: an archived session without an active
\* lease is marked revoked.
DeleteFence(c) ==
  /\ "delete" \in Lifecycle
  /\ CanLock(c) /\ c \notin deleting
  /\ NoActiveLease /\ disk.exists /\ disk.archived /\ CanWrite
  /\ lease' = NoLease
  /\ MetadataUpdate([disk EXCEPT !.revoked = TRUE])
  /\ deleting' = deleting \cup {c}
  /\ UNCHANGED <<issued, held, rec, lock, stuck>>

\* delete_archived, after the lock: rmtree of whatever the directory holds by
\* now, the lock file included, so a later process locks a new file.
DeleteTree(c) ==
  /\ c \in deleting
  /\ disk' = Absent
  /\ lease' = NoLease
  /\ deleting' = deleting \ {c}
  /\ lock' = None
  /\ UNCHANGED <<issued, held, rec, stuck>>

-----------------------------------------------------------------------------
(* The lease and the document under it.                                    *)

AcquireWith(c, t) ==
  /\ CanLock(c) /\ held[c] = 0
  /\ disk.exists
  /\ lease.token # 0 => StaleLease
  /\ issued < MaxToken
  /\ issued' = issued + 1
  /\ lease' = [token |-> issued + 1, ttl |-> t, gone |-> FALSE]
  /\ held' = [held EXCEPT ![c] = issued + 1]
  /\ rec' = [rec EXCEPT ![c] = Absent]
  /\ UNCHANGED <<disk, deleting, lock, stuck>>

\* An acquire that does not ask whether the session is archived.
AcquireArchived(c) == ~disk.revoked /\ \E t \in 1..TTL : AcquireWith(c, t)

\* acquire: refused for a revoked or archived session and under a lease that
\* is neither expired nor of a dead owner.  A caller loads after it acquires.
Acquire(c) ==
  /\ ~disk.revoked /\ ~disk.archived
  /\ \E t \in 1..TTL : AcquireWith(c, t)

\* The process dies between setting the stale lease aside and writing its own.
AcquireCutShort ==
  /\ "acquire_cut_short" \in Lifecycle
  /\ lock = None /\ disk.exists /\ ~disk.revoked /\ ~disk.archived
  /\ lease.token # 0 /\ StaleLease
  /\ lease' = NoLease
  /\ UNCHANGED <<disk, issued, held, rec, deleting, lock, stuck>>

\* load: no lock; the holder of a handle reads the current document, whether
\* or not its lease is still good.
Load(c) ==
  /\ c \notin stuck /\ held[c] # 0 /\ disk.exists
  /\ rec' = [rec EXCEPT ![c] = disk]
  /\ UNCHANGED <<disk, lease, issued, held, deleting, lock, stuck>>

\* A heartbeat that adds the TTL to the old expiry.
HeartbeatAdds(c) ==
  /\ CanLock(c) /\ ValidLease(c) /\ disk.exists
  /\ \E t \in 1..TTL : lease' = [lease EXCEPT !.ttl = @ + t]
  /\ UNCHANGED <<disk, issued, held, rec, deleting, lock, stuck>>

\* heartbeat: extends a lease that is still valid.
Heartbeat(c) ==
  /\ CanLock(c) /\ ValidLease(c) /\ disk.exists
  /\ \E t \in 1..TTL : lease' = [lease EXCEPT !.ttl = t]
  /\ UNCHANGED <<disk, issued, held, rec, deleting, lock, stuck>>

\* release: unlinks the lease file only if it is this handle's.
Release(c) ==
  /\ CanLock(c) /\ held[c] # 0
  /\ lease' = IF lease.token = held[c] THEN NoLease ELSE lease
  /\ held' = [held EXCEPT ![c] = 0]
  /\ rec' = [rec EXCEPT ![c] = Absent]
  /\ UNCHANGED <<disk, issued, deleting, lock, stuck>>

\* save of the record r, an edit of the copy c holds: the lease and the
\* revision are checked and the whole document replaced in one critical
\* section.
Save(c, r) ==
  /\ CanLock(c) /\ ValidLease(c)
  /\ rec[c].exists /\ disk.exists /\ RevisionMatches(c) /\ CanWrite
  /\ disk' = Written(r, held[c])
  /\ rec' = [rec EXCEPT ![c] = disk']
  /\ UNCHANGED <<lease, issued, held, deleting, lock, stuck>>

\* save after an edit of ordinary fields (mutate, checkpoints, the agent).
SaveEdit(c) == Save(c, rec[c])

\* A begin_idempotent that does not look at the entry.
ReserveAgain(c, k, d) ==
  Save(c, [rec[c] EXCEPT !.idem[k] =
             [st |-> "pending", digest |-> d, result |-> None]])

\* begin_idempotent of a key the copy does not hold: the intent is saved
\* before the mutation runs.
BeginIdempotent(c, k, d) ==
  /\ rec[c].idem[k].st = "free"
  /\ Save(c, [rec[c] EXCEPT !.idem[k] =
                [st |-> "pending", digest |-> d, result |-> None]])

\* complete_idempotent: only an entry the copy holds as pending.
CompleteIdempotent(c, k, r) ==
  /\ rec[c].idem[k].st = "pending"
  /\ Save(c, [rec[c] EXCEPT !.idem[k] =
                [st |-> "complete", digest |-> rec[c].idem[k].digest, result |-> r]])

-----------------------------------------------------------------------------
(* The environment.                                                        *)

\* Time passes.
Tick ==
  /\ lease.ttl > 0
  /\ lease' = [lease EXCEPT !.ttl = @ - 1]
  /\ UNCHANGED <<disk, issued, held, rec, deleting, lock, stuck>>

\* A process dies: the system drops its flock, its files stay.  Its lease is
\* recognised as a dead owner's unless it ran on another host or its PID has
\* been reused.
Crash(c) ==
  /\ "crash" \in Lifecycle
  /\ \E g \in BOOLEAN :
       lease' = IF held[c] # 0 /\ lease.token = held[c]
                THEN [lease EXCEPT !.gone = g] ELSE lease
  /\ held' = [held EXCEPT ![c] = 0]
  /\ rec' = [rec EXCEPT ![c] = Absent]
  /\ deleting' = deleting \ {c}
  /\ lock' = IF lock = c THEN None ELSE lock
  /\ stuck' = stuck \ {c}
  /\ UNCHANGED <<disk, issued>>

LifecycleStep ==
  \/ Create
  \/ \E c \in Client : ReactivateExisting(c)
  \/ \E c \in Client : ReactivateMissing(c)
  \/ Revoke
  \/ RevokeCutShort
  \/ Rename
  \/ Archive
  \/ Unarchive
  \/ \E c \in Client : DeleteFence(c)
  \/ \E c \in Client : DeleteTree(c)
  \/ AcquireCutShort
  \/ Tick
  \/ \E c \in Client : Crash(c)

ClientStep(c) ==
  \/ Acquire(c)
  \/ Load(c)
  \/ Heartbeat(c)
  \/ Release(c)
  \/ SaveEdit(c)
  \/ \E k \in Key, d \in Digest : BeginIdempotent(c, k, d)
  \/ \E k \in Key, r \in Result : CompleteIdempotent(c, k, r)

StoreNext == LifecycleStep \/ \E c \in Client : ClientStep(c)

StoreSpec == StoreInit /\ [][StoreNext]_storeVars

-----------------------------------------------------------------------------
(* Properties.                                                             *)

\* Every variable stays in the domain the code gives it.
TypeOK ==
  /\ disk \in Record
  /\ lease \in Lease
  /\ issued \in 0..MaxToken
  /\ held \in [Client -> 0..MaxToken]
  /\ rec \in [Client -> Record]
  /\ deleting \subseteq Client
  /\ lock \in Client \cup {None}
  /\ stuck \subseteq Client

\* An archived session has no lease file, so nobody is writing what may be
\* deleted: archive and delete_archived refuse an active lease, acquire refuses
\* the session.  A revoked one may have a lease, after a revoke cut short.
ArchivedIsQuiet == disk.archived => lease = NoLease

\* The revision is enough to recognise a stale copy: a copy loaded under the
\* current lease that carries the document's revision is the document, even
\* though a deleted session can be created again and count from 0.
CopyIsCurrent ==
  \A c \in Client :
    ValidLease(c) /\ rec[c].exists /\ RevisionMatches(c) => rec[c] = disk

\* A write of the document never drops an earlier write, whichever of save,
\* rename, archive, revoke and reactivate made it and whatever copy it wrote.
NoLostUpdate ==
  [][disk.exists /\ disk'.exists => disk.log \subseteq disk'.log]_storeVars

\* Fencing: a write made under a lease is made under the last lease issued.  A
\* superseded owner can resume after any delay and never reaches the document.
OnlyLatestTokenWrites ==
  [][\A w \in disk'.log \ disk.log : w[1] \in {0, issued}]_storeVars

\* What can become of an entry of the idempotency map in one write.
EntryStep(old, new) ==
  \/ new = old
  \/ old.st = "free" /\ new.st = "pending"
  \/ old.st = "pending" /\ new.st = "complete" /\ new.digest = old.digest

\* The idempotency map only moves forward while the session exists: a reserved
\* key is never free again, and a completed one keeps its digest and result.
IdempotencyForward ==
  [][disk.exists /\ disk'.exists =>
       \A k \in Key : EntryStep(disk.idem[k], disk'.idem[k])]_storeVars

\* A revoked session stays revoked until reactivate or deletion: in particular
\* no copy loaded before the revocation is ever saved over it.
RevocationSticks ==
  [][disk.exists /\ disk.revoked /\ disk'.exists =>
       disk'.revoked \/ \E c \in Client : ReactivateExisting(c)]_storeVars
=============================================================================
