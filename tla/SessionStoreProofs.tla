------------------------- MODULE SessionStoreProofs -------------------------
(* Theorems about SessionStore for every set of processes, keys, digests   *)
(* and results, and every value of the bounds.                             *)
EXTENDS SessionStore, TLAPS

\* A lease file belongs to a session that exists, and holds the last token
\* issued.
LeaseInv ==
  /\ lease.token = 0 => lease = NoLease
  /\ lease.token # 0 => lease.token = issued /\ disk.exists

\* Handles of different processes differ, and none is newer than the last
\* token issued.
HandleInv ==
  /\ \A c \in Client : held[c] <= issued
  /\ \A c, d \in Client : c # d /\ held[c] = held[d] => held[c] = 0

\* A copy loaded under the current lease is never ahead of the document, and
\* is the document when it carries its revision.
CopyInv ==
  \A c \in Client :
    held[c] # 0 /\ held[c] = lease.token /\ rec[c].exists =>
      /\ rec[c].rev <= disk.rev
      /\ RevisionMatches(c) => rec[c] = disk

StoreInv == TypeOK /\ LeaseInv /\ HandleInv /\ CopyInv

-----------------------------------------------------------------------------
(* Lemmas on the records.                                                  *)

\* A write keeps the type, moves the revision on by one and adds exactly one
\* element to the log.
LEMMA WrittenLemma ==
  ASSUME NEW r \in Record, NEW t \in 0..MaxToken, r.rev < MaxRev
  PROVE  /\ Written(r, t) \in Record
         /\ Written(r, t).rev = r.rev + 1
         /\ Written(r, t).log = r.log \cup {<<t, r.rev + 1>>}
         /\ Written(r, t).exists = r.exists
         /\ Written(r, t).revoked = r.revoked
         /\ Written(r, t).archived = r.archived
         /\ Written(r, t).idem = r.idem
<1>1. r.log \cup {<<t, r.rev + 1>>} \in SUBSET ((0..MaxToken) \X (1..MaxRev))
  BY BoundAssumption DEF Record
<1>2. r.rev + 1 \in 0..MaxRev
  BY BoundAssumption DEF Record
<1> QED
  BY <1>1, <1>2 DEF Written, Record

\* The two records the store starts from are well typed.
LEMMA BlankLemma ==
  /\ Absent \in Record /\ Fresh \in Record
  /\ ~Absent.exists /\ Fresh.exists
  /\ ~Fresh.revoked /\ ~Fresh.archived
  /\ NoLease \in Lease /\ NoLease.token = 0 /\ NoLease.ttl = 0
<1>1. FreeEntry \in Entry
  BY DEF FreeEntry, Entry
<1>2. [k \in Key |-> FreeEntry] \in [Key -> Entry]
  BY <1>1
<1>3. {} \in SUBSET ((0..MaxToken) \X (1..MaxRev)) /\ 0 \in 0..MaxRev
  BY BoundAssumption
<1>4. Absent \in Record
  BY <1>2, <1>3 DEF Absent, Record
<1>5. Fresh \in Record
  BY <1>4 DEF Fresh, Record
<1>6. ~Absent.exists /\ Fresh.exists /\ ~Fresh.revoked /\ ~Fresh.archived
  BY DEF Absent, Fresh
<1>7. NoLease \in Lease /\ NoLease.token = 0 /\ NoLease.ttl = 0
  BY BoundAssumption DEF NoLease, Lease
<1> QED
  BY <1>4, <1>5, <1>6, <1>7

\* Replacing one entry of the idempotency map keeps everything else.
LEMMA EntryLemma ==
  ASSUME NEW r \in Record, NEW k \in Key, NEW e \in Entry
  PROVE  LET s == [r EXCEPT !.idem[k] = e]
         IN  /\ s \in Record
             /\ s.rev = r.rev /\ s.log = r.log /\ s.exists = r.exists
             /\ s.revoked = r.revoked /\ s.archived = r.archived
             /\ s.idem = [r.idem EXCEPT ![k] = e]
  BY DEF Record

\* Metadata writes of a document differ from it in the flags only.
LEMMA MetadataLemma ==
  ASSUME TypeOK, CanWrite, disk.exists,
         NEW a \in BOOLEAN, NEW v \in BOOLEAN,
         NEW STATE r, r = [disk EXCEPT !.revoked = v, !.archived = a],
         MetadataUpdate(r)
  PROVE  /\ disk' \in Record /\ disk'.exists
         /\ disk'.rev = disk.rev + 1
         /\ disk'.log = disk.log \cup {<<0, disk.rev + 1>>}
         /\ disk'.revoked = v /\ disk'.archived = a
         /\ disk'.idem = disk.idem
<1>1. disk \in Record
  BY DEF TypeOK
<1>2. /\ r \in Record /\ r.rev = disk.rev /\ r.log = disk.log
      /\ r.exists = disk.exists /\ r.revoked = v /\ r.archived = a
      /\ r.idem = disk.idem
  BY <1>1 DEF Record
<1>3. disk' = Written(r, 0)
  BY DEF MetadataUpdate
<1>4. 0 \in 0..MaxToken /\ r.rev < MaxRev
  BY <1>2, BoundAssumption DEF CanWrite
<1>5. /\ Written(r, 0) \in Record
      /\ Written(r, 0).rev = r.rev + 1
      /\ Written(r, 0).log = r.log \cup {<<0, r.rev + 1>>}
      /\ Written(r, 0).exists = r.exists
      /\ Written(r, 0).revoked = r.revoked
      /\ Written(r, 0).archived = r.archived
      /\ Written(r, 0).idem = r.idem
  BY <1>2, <1>4, WrittenLemma
<1> QED
  BY <1>2, <1>3, <1>5

\* The metadata writes of the life cycle: what they leave in the document, in
\* its flags and in the lease file.
LEMMA MetadataCases ==
  ASSUME TypeOK,
         \/ \E c \in Client : ReactivateExisting(c)
         \/ Revoke \/ RevokeCutShort \/ Rename \/ Unarchive
         \/ Archive /\ ~disk.archived
         \/ \E c \in Client : DeleteFence(c)
  PROVE  /\ disk' \in Record /\ disk'.exists
         /\ disk'.rev = disk.rev + 1
         /\ disk'.log = disk.log \cup {<<0, disk.rev + 1>>}
         /\ disk'.idem = disk.idem
         /\ disk.exists
         /\ \/ \E c \in Client : ReactivateExisting(c)
            \/ disk.revoked => disk'.revoked
         /\ \/ lease' = NoLease
            \/ RevokeCutShort
            \/ /\ lease' = lease
               /\ disk'.revoked => disk.revoked
               /\ disk'.archived => disk.archived
<1>1. disk \in Record
  BY DEF TypeOK
<1>2. /\ disk.revoked \in BOOLEAN /\ disk.archived \in BOOLEAN
      /\ disk = [disk EXCEPT !.revoked = disk.revoked, !.archived = disk.archived]
      /\ [disk EXCEPT !.revoked = TRUE] =
           [disk EXCEPT !.revoked = TRUE, !.archived = disk.archived]
      /\ [disk EXCEPT !.archived = TRUE] =
           [disk EXCEPT !.revoked = disk.revoked, !.archived = TRUE]
      /\ [disk EXCEPT !.archived = FALSE] =
           [disk EXCEPT !.revoked = disk.revoked, !.archived = FALSE]
  BY <1>1 DEF Record
<1>3. ASSUME NEW c \in Client, ReactivateExisting(c)
      PROVE  /\ MetadataUpdate([disk EXCEPT !.revoked = FALSE, !.archived = FALSE])
             /\ CanWrite /\ disk.exists /\ lease' = lease
  BY <1>3 DEF ReactivateExisting
<1>4. CASE \E c \in Client : ReactivateExisting(c)
  BY <1>2, <1>3, <1>4, MetadataLemma
<1>5. CASE Revoke \/ RevokeCutShort
  <2>1. /\ MetadataUpdate([disk EXCEPT !.revoked = TRUE])
        /\ CanWrite /\ disk.exists
        /\ lease' = NoLease \/ RevokeCutShort
    BY <1>5 DEF Revoke, RevokeCutShort
  <2> QED
    BY <2>1, <1>2, MetadataLemma
<1>6. CASE Rename
  <2>1. MetadataUpdate(disk) /\ CanWrite /\ disk.exists /\ lease' = lease
    BY <1>6 DEF Rename
  <2> QED
    BY <2>1, <1>2, MetadataLemma
<1>7. CASE Unarchive
  <2>1. /\ MetadataUpdate([disk EXCEPT !.archived = FALSE])
        /\ CanWrite /\ disk.exists /\ lease' = lease
    BY <1>7 DEF Unarchive
  <2> QED
    BY <2>1, <1>2, MetadataLemma
<1>8. CASE Archive /\ ~disk.archived
  <2>1. /\ MetadataUpdate([disk EXCEPT !.archived = TRUE])
        /\ CanWrite /\ disk.exists /\ lease' = NoLease
    BY <1>8 DEF Archive
  <2> QED
    BY <2>1, <1>2, MetadataLemma
<1>9. CASE \E c \in Client : DeleteFence(c)
  <2>1. /\ MetadataUpdate([disk EXCEPT !.revoked = TRUE])
        /\ CanWrite /\ disk.exists /\ lease' = NoLease
    BY <1>9 DEF DeleteFence
  <2> QED
    BY <2>1, <1>2, MetadataLemma
<1> QED
  BY <1>4, <1>5, <1>6, <1>7, <1>8, <1>9

\* A step that leaves handles and copies alone, keeps or removes the lease,
\* and either keeps the document or writes a newer one, keeps HandleInv and
\* CopyInv.
LEMMA FrameLemma ==
  ASSUME TypeOK, HandleInv, CopyInv,
         UNCHANGED <<held, rec, issued>>,
         lease'.token \in {0, lease.token},
         disk' = disk \/ (disk' \in Record /\ disk'.rev > disk.rev)
                      \/ lease'.token = 0
  PROVE  HandleInv' /\ CopyInv'
<1>1. HandleInv'
  BY DEF HandleInv
<1>2. CopyInv'
  <2> SUFFICES ASSUME NEW c \in Client,
                      held[c] # 0, held[c] = lease'.token, rec[c].exists
               PROVE  /\ rec[c].rev <= disk'.rev
                      /\ rec[c].rev = disk'.rev => rec[c] = disk'
    BY DEF CopyInv, RevisionMatches
  <2>1. /\ held[c] = lease.token
        /\ rec[c].rev <= disk.rev
        /\ rec[c].rev = disk.rev => rec[c] = disk
    BY DEF CopyInv, RevisionMatches
  <2>2. disk.rev \in Nat /\ rec[c].rev \in Nat
    BY BoundAssumption DEF TypeOK, Record
  <2>3. CASE disk' = disk
    BY <2>1, <2>3
  <2>4. CASE disk' \in Record /\ disk'.rev > disk.rev
    <3>1. disk'.rev \in Nat
      BY <2>4, BoundAssumption DEF Record
    <3> QED
      BY <2>1, <2>2, <2>4, <3>1
  <2> QED
    BY <2>3, <2>4
<1> QED
  BY <1>1, <1>2

\* What a save under a valid lease does: the copy was the document, and the
\* edit of it replaces the document.
LEMMA SaveLemma ==
  ASSUME StoreInv, NEW c \in Client, NEW STATE r, r \in Record,
         r.rev = rec[c].rev, r.log = rec[c].log, r.exists = rec[c].exists,
         r.revoked = rec[c].revoked, r.archived = rec[c].archived,
         Save(c, r)
  PROVE  /\ rec[c] = disk /\ disk.exists
         /\ held[c] = lease.token /\ lease.token # 0
         /\ disk' \in Record /\ disk'.exists
         /\ disk'.rev = disk.rev + 1
         /\ disk'.log = disk.log \cup {<<lease.token, disk.rev + 1>>}
         /\ disk'.revoked = disk.revoked /\ disk'.archived = disk.archived
         /\ disk'.idem = r.idem
         /\ StoreInv'
<1> USE DEF StoreInv
<1>1. /\ held[c] # 0 /\ held[c] = lease.token
      /\ rec[c].exists /\ disk.exists /\ RevisionMatches(c)
      /\ disk.rev < MaxRev
      /\ disk' = Written(r, held[c])
      /\ rec' = [rec EXCEPT ![c] = disk']
      /\ UNCHANGED <<lease, issued, held, deleting, lock, stuck>>
  BY DEF Save, ValidLease, CanWrite
<1>2. rec[c] = disk
  BY <1>1 DEF CopyInv
<1>3. held[c] \in 0..MaxToken
  BY DEF TypeOK
<1>4. /\ disk' \in Record
      /\ disk'.rev = r.rev + 1
      /\ disk'.log = r.log \cup {<<held[c], r.rev + 1>>}
      /\ disk'.exists = r.exists
      /\ disk'.revoked = r.revoked
      /\ disk'.archived = r.archived
      /\ disk'.idem = r.idem
  BY <1>1, <1>2, <1>3, WrittenLemma
<1>5. disk'.exists
  BY <1>1, <1>4
<1>6. TypeOK'
  BY <1>1, <1>4 DEF TypeOK
<1>7. LeaseInv' /\ HandleInv'
  BY <1>1, <1>5 DEF LeaseInv, HandleInv
<1>8. CopyInv'
  <2> SUFFICES ASSUME NEW d \in Client,
                      held[d] # 0, held[d] = lease.token, rec'[d].exists
               PROVE  /\ rec'[d].rev <= disk'.rev
                      /\ rec'[d].rev = disk'.rev => rec'[d] = disk'
    BY <1>1 DEF CopyInv, RevisionMatches
  <2>1. d = c
    BY <1>1 DEF HandleInv
  <2>2. rec'[d] = disk'
    BY <1>1, <2>1 DEF TypeOK
  <2>3. disk'.rev \in Nat
    BY <1>4, BoundAssumption DEF Record
  <2> QED
    BY <2>2, <2>3
<1> QED
  BY <1>1, <1>2, <1>4, <1>5, <1>6, <1>7, <1>8

\* save after an edit of ordinary fields: the keys stay as they are.  With the
\* next two, the three ways a process writes under its lease.
LEMMA SaveEditLemma ==
  ASSUME StoreInv, NEW c \in Client, SaveEdit(c)
  PROVE  /\ StoreInv'
         /\ disk.exists /\ disk'.exists
         /\ held[c] = lease.token /\ lease.token # 0
         /\ disk'.log = disk.log \cup {<<lease.token, disk.rev + 1>>}
         /\ disk'.revoked = disk.revoked /\ disk'.archived = disk.archived
         /\ UNCHANGED <<lease, issued>>
         /\ disk'.idem = disk.idem
<1>1. rec[c] \in Record
  BY DEF StoreInv, TypeOK
<1>2. Save(c, rec[c]) /\ UNCHANGED <<lease, issued>>
  BY DEF SaveEdit, Save
<1> QED
  BY <1>1, <1>2, SaveLemma

\* begin_idempotent: a free key of the document becomes pending.
LEMMA BeginLemma ==
  ASSUME StoreInv, NEW c \in Client, NEW k \in Key, NEW d \in Digest,
         BeginIdempotent(c, k, d)
  PROVE  /\ StoreInv'
         /\ disk.exists /\ disk'.exists
         /\ held[c] = lease.token /\ lease.token # 0
         /\ disk'.log = disk.log \cup {<<lease.token, disk.rev + 1>>}
         /\ disk'.revoked = disk.revoked /\ disk'.archived = disk.archived
         /\ UNCHANGED <<lease, issued>>
         /\ disk.idem[k].st = "free"
         /\ disk'.idem = [disk.idem EXCEPT ![k] =
                            [st |-> "pending", digest |-> d, result |-> None]]
<1> DEFINE e == [st |-> "pending", digest |-> d, result |-> None]
           s == [rec[c] EXCEPT !.idem[k] = e]
<1>1. rec[c] \in Record
  BY DEF StoreInv, TypeOK
<1>2. rec[c].idem[k].st = "free" /\ Save(c, s) /\ UNCHANGED <<lease, issued>>
  BY DEF BeginIdempotent, Save
<1>3. e \in Entry
  BY DEF Entry
<1> HIDE DEF e
<1>4. /\ s \in Record /\ s.rev = rec[c].rev /\ s.log = rec[c].log
      /\ s.exists = rec[c].exists /\ s.revoked = rec[c].revoked
      /\ s.archived = rec[c].archived
      /\ s.idem = [rec[c].idem EXCEPT ![k] = e]
  BY <1>1, <1>3, EntryLemma
<1> HIDE DEF s
<1>5. /\ rec[c] = disk /\ disk.exists
      /\ held[c] = lease.token /\ lease.token # 0
      /\ disk'.exists
      /\ disk'.log = disk.log \cup {<<lease.token, disk.rev + 1>>}
      /\ disk'.revoked = disk.revoked /\ disk'.archived = disk.archived
      /\ disk'.idem = s.idem
      /\ StoreInv'
  BY <1>2, <1>4, SaveLemma
<1> QED
  BY <1>2, <1>4, <1>5 DEF e

\* complete_idempotent: a pending key of the document becomes complete, with
\* the digest it had.
LEMMA CompleteLemma ==
  ASSUME StoreInv, NEW c \in Client, NEW k \in Key, NEW r \in Result,
         CompleteIdempotent(c, k, r)
  PROVE  /\ StoreInv'
         /\ disk.exists /\ disk'.exists
         /\ held[c] = lease.token /\ lease.token # 0
         /\ disk'.log = disk.log \cup {<<lease.token, disk.rev + 1>>}
         /\ disk'.revoked = disk.revoked /\ disk'.archived = disk.archived
         /\ UNCHANGED <<lease, issued>>
         /\ disk.idem[k].st = "pending"
         /\ disk'.idem = [disk.idem EXCEPT ![k] =
              [st |-> "complete", digest |-> disk.idem[k].digest, result |-> r]]
<1> DEFINE e == [st |-> "complete", digest |-> rec[c].idem[k].digest, result |-> r]
           s == [rec[c] EXCEPT !.idem[k] = e]
<1>1. rec[c] \in Record
  BY DEF StoreInv, TypeOK
<1>2. rec[c].idem[k] \in Entry
  BY <1>1 DEF Record
<1>3. e \in Entry
  BY <1>2 DEF Entry
<1>4. /\ rec[c].idem[k].st = "pending" /\ Save(c, s)
      /\ UNCHANGED <<lease, issued>>
  BY DEF CompleteIdempotent, Save
<1> HIDE DEF e
<1>5. /\ s \in Record /\ s.rev = rec[c].rev /\ s.log = rec[c].log
      /\ s.exists = rec[c].exists /\ s.revoked = rec[c].revoked
      /\ s.archived = rec[c].archived
      /\ s.idem = [rec[c].idem EXCEPT ![k] = e]
  BY <1>1, <1>3, EntryLemma
<1> HIDE DEF s
<1>6. /\ rec[c] = disk /\ disk.exists
      /\ held[c] = lease.token /\ lease.token # 0
      /\ disk'.exists
      /\ disk'.log = disk.log \cup {<<lease.token, disk.rev + 1>>}
      /\ disk'.revoked = disk.revoked /\ disk'.archived = disk.archived
      /\ disk'.idem = s.idem
      /\ StoreInv'
  BY <1>4, <1>5, SaveLemma
<1> QED
  BY <1>4, <1>5, <1>6 DEF e

\* What the three have in common.
LEMMA WriteCases ==
  ASSUME StoreInv, NEW c \in Client,
         \/ SaveEdit(c)
         \/ \E k \in Key, d \in Digest : BeginIdempotent(c, k, d)
         \/ \E k \in Key, r \in Result : CompleteIdempotent(c, k, r)
  PROVE  /\ StoreInv'
         /\ disk.exists /\ disk'.exists
         /\ held[c] = lease.token /\ lease.token # 0
         /\ disk'.log = disk.log \cup {<<lease.token, disk.rev + 1>>}
         /\ disk'.revoked = disk.revoked /\ disk'.archived = disk.archived
         /\ UNCHANGED <<lease, issued>>
         /\ \A k \in Key : EntryStep(disk.idem[k], disk'.idem[k])
<1>1. disk.idem \in [Key -> Entry]
  BY DEF StoreInv, TypeOK, Record
<1>2. CASE SaveEdit(c)
  BY <1>2, SaveEditLemma DEF EntryStep
<1>3. CASE \E k \in Key, d \in Digest : BeginIdempotent(c, k, d)
  <2>1. PICK k \in Key, d \in Digest : BeginIdempotent(c, k, d)
    BY <1>3
  <2>2. ASSUME NEW q \in Key
        PROVE  EntryStep(disk.idem[q], disk'.idem[q])
    <3>1. /\ disk.idem[k].st = "free"
          /\ disk'.idem = [disk.idem EXCEPT ![k] =
               [st |-> "pending", digest |-> d, result |-> None]]
      BY <2>1, BeginLemma
    <3>2. disk'.idem[q] = IF q = k
            THEN [st |-> "pending", digest |-> d, result |-> None]
            ELSE disk.idem[q]
      BY <3>1, <1>1
    <3> QED
      BY <3>1, <3>2 DEF EntryStep
  <2> QED
    BY <2>1, <2>2, BeginLemma
<1>4. CASE \E k \in Key, r \in Result : CompleteIdempotent(c, k, r)
  <2>1. PICK k \in Key, r \in Result : CompleteIdempotent(c, k, r)
    BY <1>4
  <2>2. ASSUME NEW q \in Key
        PROVE  EntryStep(disk.idem[q], disk'.idem[q])
    <3>1. /\ disk.idem[k].st = "pending"
          /\ disk'.idem = [disk.idem EXCEPT ![k] =
               [st |-> "complete", digest |-> disk.idem[k].digest, result |-> r]]
      BY <2>1, CompleteLemma
    <3>2. disk'.idem[q] = IF q = k
            THEN [st |-> "complete", digest |-> disk.idem[k].digest, result |-> r]
            ELSE disk.idem[q]
      BY <3>1, <1>1
    <3> QED
      BY <3>1, <3>2 DEF EntryStep
  <2> QED
    BY <2>1, <2>2, CompleteLemma
<1> QED
  BY <1>2, <1>3, <1>4

-----------------------------------------------------------------------------
(* The inductive invariant.                                                *)

\* A new session satisfies the invariant.
LEMMA InitLemma == StoreInit => StoreInv
<1> SUFFICES ASSUME StoreInit PROVE StoreInv
  OBVIOUS
<1>1. TypeOK
  BY BlankLemma, BoundAssumption DEF StoreInit, TypeOK
<1>2. LeaseInv /\ HandleInv /\ CopyInv
  BY BlankLemma DEF StoreInit, LeaseInv, HandleInv, CopyInv
<1> QED
  BY <1>1, <1>2 DEF StoreInv

\* Time and the events of the life cycle.
LEMMA LifecycleLemma == StoreInv /\ LifecycleStep => StoreInv'
<1> SUFFICES ASSUME StoreInv, LifecycleStep PROVE StoreInv'
  OBVIOUS
<1> USE DEF StoreInv
<1>t. /\ disk \in Record /\ lease \in Lease
      /\ lease.token \in 0..MaxToken /\ disk.rev \in Nat
  BY BoundAssumption DEF TypeOK, Record, Lease
<1>1. CASE Create
  <2>1. /\ disk' = Fresh /\ lease.token = 0
        /\ UNCHANGED <<lease, issued, held, rec, deleting, lock, stuck>>
    BY <1>1 DEF Create, LeaseInv
  <2>2. TypeOK' /\ LeaseInv'
    BY <2>1, BlankLemma DEF TypeOK, LeaseInv
  <2>3. HandleInv' /\ CopyInv'
    BY <2>1, FrameLemma
  <2> QED
    BY <2>2, <2>3
<1>2. CASE \E c \in Client : ReactivateExisting(c)
  <2>1. UNCHANGED <<lease, issued, held, rec, deleting, lock, stuck>>
    BY <1>2 DEF ReactivateExisting
  <2>2. disk' \in Record /\ disk'.exists /\ disk'.rev > disk.rev
    BY <1>2, <1>t, MetadataCases
  <2>3. TypeOK' /\ LeaseInv'
    BY <2>1, <2>2 DEF TypeOK, LeaseInv
  <2>4. HandleInv' /\ CopyInv'
    BY <2>1, <2>2, FrameLemma
  <2> QED
    BY <2>3, <2>4
<1>3. CASE \E c \in Client : ReactivateMissing(c)
  <2>1. /\ UNCHANGED <<disk, lease, issued, held, rec, deleting>>
        /\ lock' \in Client /\ stuck' \subseteq Client
    BY <1>3 DEF ReactivateMissing, TypeOK
  <2>2. TypeOK' /\ LeaseInv'
    BY <2>1 DEF TypeOK, LeaseInv
  <2>3. HandleInv' /\ CopyInv'
    BY <2>1, FrameLemma
  <2> QED
    BY <2>2, <2>3
<1>4. CASE Revoke
  <2>1. /\ lease' = NoLease
        /\ UNCHANGED <<issued, held, rec, deleting, lock, stuck>>
    BY <1>4 DEF Revoke
  <2>2. disk' \in Record /\ disk'.exists /\ disk'.rev > disk.rev
    BY <1>4, <1>t, MetadataCases
  <2>3. TypeOK' /\ LeaseInv'
    BY <2>1, <2>2, BlankLemma DEF TypeOK, LeaseInv
  <2>4. HandleInv' /\ CopyInv'
    BY <2>1, <2>2, BlankLemma, FrameLemma
  <2> QED
    BY <2>3, <2>4
<1>5. CASE RevokeCutShort \/ Rename \/ Unarchive
  <2>1. UNCHANGED <<lease, issued, held, rec, deleting, lock, stuck>>
    BY <1>5 DEF RevokeCutShort, Rename, Unarchive
  <2>2. disk' \in Record /\ disk'.exists /\ disk'.rev > disk.rev
    BY <1>5, <1>t, MetadataCases
  <2>3. TypeOK' /\ LeaseInv'
    BY <2>1, <2>2 DEF TypeOK, LeaseInv
  <2>4. HandleInv' /\ CopyInv'
    BY <2>1, <2>2, FrameLemma
  <2> QED
    BY <2>3, <2>4
<1>6. CASE Archive
  <2>1. /\ lease' = NoLease
        /\ UNCHANGED <<issued, held, rec, deleting, lock, stuck>>
        /\ disk.archived => disk' = disk
    BY <1>6 DEF Archive
  <2>2. disk' = disk \/ (disk' \in Record /\ disk'.exists /\ disk'.rev > disk.rev)
    BY <1>6, <2>1, <1>t, MetadataCases
  <2>3. TypeOK' /\ LeaseInv'
    BY <2>1, <2>2, BlankLemma DEF TypeOK, LeaseInv
  <2>4. HandleInv' /\ CopyInv'
    BY <2>1, <2>2, BlankLemma, FrameLemma
  <2> QED
    BY <2>3, <2>4
<1>7. CASE \E c \in Client : DeleteFence(c)
  <2>1. /\ lease' = NoLease
        /\ UNCHANGED <<issued, held, rec, lock, stuck>>
        /\ deleting' \subseteq Client
    BY <1>7 DEF DeleteFence, TypeOK
  <2>2. disk' \in Record /\ disk'.exists /\ disk'.rev > disk.rev
    BY <1>7, <1>t, MetadataCases
  <2>3. TypeOK' /\ LeaseInv'
    BY <2>1, <2>2, BlankLemma DEF TypeOK, LeaseInv
  <2>4. HandleInv' /\ CopyInv'
    BY <2>1, <2>2, BlankLemma, FrameLemma
  <2> QED
    BY <2>3, <2>4
<1>8. CASE \E c \in Client : DeleteTree(c)
  <2>1. /\ disk' = Absent /\ lease' = NoLease /\ lock' = None
        /\ UNCHANGED <<issued, held, rec, stuck>>
        /\ deleting' \subseteq Client
    BY <1>8 DEF DeleteTree, TypeOK
  <2>2. TypeOK' /\ LeaseInv'
    BY <2>1, BlankLemma DEF TypeOK, LeaseInv
  <2>3. HandleInv' /\ CopyInv'
    BY <2>1, BlankLemma, FrameLemma
  <2> QED
    BY <2>2, <2>3
<1>9. CASE AcquireCutShort
  <2>1. /\ lease' = NoLease
        /\ UNCHANGED <<disk, issued, held, rec, deleting, lock, stuck>>
    BY <1>9 DEF AcquireCutShort
  <2>2. TypeOK' /\ LeaseInv'
    BY <2>1, BlankLemma DEF TypeOK, LeaseInv
  <2>3. HandleInv' /\ CopyInv'
    BY <2>1, BlankLemma, FrameLemma
  <2> QED
    BY <2>2, <2>3
<1>10. CASE Tick
  <2>1. /\ lease.ttl > 0 /\ lease' = [lease EXCEPT !.ttl = @ - 1]
        /\ UNCHANGED <<disk, issued, held, rec, deleting, lock, stuck>>
    BY <1>10 DEF Tick
  <2>2. lease' \in Lease /\ lease'.token = lease.token
    BY <1>t, <2>1, BoundAssumption DEF Lease
  <2>3. lease.token # 0
    BY <2>1, BlankLemma DEF LeaseInv
  <2>4. TypeOK' /\ LeaseInv'
    BY <2>1, <2>2, <2>3 DEF TypeOK, LeaseInv
  <2>5. HandleInv' /\ CopyInv'
    BY <2>1, <2>2, FrameLemma
  <2> QED
    BY <2>4, <2>5
<1>11. ASSUME NEW c \in Client, Crash(c)
       PROVE  StoreInv'
  <2>1. PICK g \in BOOLEAN :
          lease' = IF held[c] # 0 /\ lease.token = held[c]
                   THEN [lease EXCEPT !.gone = g] ELSE lease
    BY <1>11 DEF Crash
  <2>2. /\ held' = [held EXCEPT ![c] = 0]
        /\ rec' = [rec EXCEPT ![c] = Absent]
        /\ deleting' \subseteq Client /\ lock' \in Client \cup {None}
        /\ stuck' \subseteq Client
        /\ UNCHANGED <<disk, issued>>
    BY <1>11 DEF Crash, TypeOK
  <2>3. /\ lease' \in Lease /\ lease'.token = lease.token
        /\ lease.token = 0 => lease' = lease
    BY <1>t, <2>1 DEF Lease
  <2>4. TypeOK'
    BY <2>2, <2>3, BlankLemma, BoundAssumption DEF TypeOK
  <2>5. LeaseInv'
    BY <2>2, <2>3 DEF LeaseInv
  <2>6. HandleInv'
    BY <2>2 DEF HandleInv, TypeOK
  <2>7. CopyInv'
    BY <2>2, <2>3 DEF CopyInv, RevisionMatches, TypeOK
  <2> QED
    BY <2>4, <2>5, <2>6, <2>7
<1> QED
  BY <1>1, <1>2, <1>3, <1>4, <1>5, <1>6, <1>7, <1>8, <1>9, <1>10, <1>11
     DEF LifecycleStep

\* The steps of a process that uses the lease.
LEMMA ClientLemma ==
  ASSUME StoreInv, NEW c \in Client, ClientStep(c)
  PROVE  StoreInv'
<1> USE DEF StoreInv
<1>t. disk \in Record /\ lease \in Lease
  BY DEF TypeOK
<1>n. issued \in Nat /\ \A x \in Client : held[x] \in Nat
  BY BoundAssumption DEF TypeOK
<1>1. CASE Acquire(c)
  <2>1. PICK t \in 1..TTL : AcquireWith(c, t)
    BY <1>1 DEF Acquire
  <2>2. /\ disk.exists /\ issued < MaxToken /\ issued' = issued + 1
        /\ lease' = [token |-> issued + 1, ttl |-> t, gone |-> FALSE]
        /\ held' = [held EXCEPT ![c] = issued + 1]
        /\ rec' = [rec EXCEPT ![c] = Absent]
        /\ UNCHANGED <<disk, deleting, lock, stuck>>
    BY <2>1 DEF AcquireWith
  <2>3. issued + 1 \in 0..MaxToken /\ issued + 1 # 0
    BY <2>2, <1>n, BoundAssumption
  <2>4. lease' \in Lease
    BY <2>2, <2>3, BoundAssumption DEF Lease
  <2>5. TypeOK'
    BY <2>2, <2>3, <2>4, BlankLemma DEF TypeOK
  <2>6. LeaseInv'
    BY <2>2, <2>3 DEF LeaseInv
  <2>7. HandleInv'
    <3>1. ASSUME NEW x \in Client
          PROVE  held[x] <= issued /\ held[x] # issued + 1
      <4>1. held[x] <= issued
        BY DEF HandleInv
      <4>2. held[x] \in Nat /\ issued \in Nat
        BY <1>n
      <4> QED
        BY <4>1, <4>2
    <3>2. \A x \in Client : held'[x] = IF x = c THEN issued + 1 ELSE held[x]
      BY <2>2 DEF TypeOK
    <3> QED
      BY <3>1, <3>2, <2>2, <1>n DEF HandleInv
  <2>8. CopyInv'
    <3> SUFFICES ASSUME NEW x \in Client, held'[x] = lease'.token, rec'[x].exists
                 PROVE  FALSE
      BY DEF CopyInv
    <3>1. held[x] # issued + 1
      <4>1. held[x] <= issued
        BY DEF HandleInv
      <4>2. held[x] \in Nat /\ issued \in Nat
        BY <1>n
      <4> QED
        BY <4>1, <4>2
    <3>2. lease'.token = issued + 1
      BY <2>2
    <3>3. x = c
      BY <3>1, <3>2, <2>2 DEF TypeOK
    <3>4. rec'[c] = Absent
      BY <2>2 DEF TypeOK
    <3> QED
      BY <3>3, <3>4, BlankLemma
  <2> QED
    BY <2>5, <2>6, <2>7, <2>8
<1>2. CASE Load(c)
  <2>1. /\ rec' = [rec EXCEPT ![c] = disk]
        /\ UNCHANGED <<disk, lease, issued, held, deleting, lock, stuck>>
    BY <1>2 DEF Load
  <2>2. TypeOK' /\ LeaseInv' /\ HandleInv'
    BY <2>1 DEF TypeOK, LeaseInv, HandleInv
  <2>3. disk.rev <= disk.rev
    BY <1>t, BoundAssumption DEF Record
  <2>4. CopyInv'
    BY <2>1, <2>3 DEF CopyInv, RevisionMatches, TypeOK
  <2> QED
    BY <2>2, <2>4
<1>3. CASE Heartbeat(c)
  <2>1. PICK t \in 1..TTL : lease' = [lease EXCEPT !.ttl = t]
    BY <1>3 DEF Heartbeat
  <2>2. /\ lease.token # 0
        /\ UNCHANGED <<disk, issued, held, rec, deleting, lock, stuck>>
    BY <1>3 DEF Heartbeat, ValidLease
  <2>3. lease' \in Lease /\ lease'.token = lease.token
    BY <1>t, <2>1, BoundAssumption DEF Lease
  <2>4. TypeOK' /\ LeaseInv'
    BY <2>2, <2>3 DEF TypeOK, LeaseInv
  <2>5. HandleInv' /\ CopyInv'
    BY <2>2, <2>3, FrameLemma
  <2> QED
    BY <2>4, <2>5
<1>4. CASE Release(c)
  <2>1. /\ held' = [held EXCEPT ![c] = 0]
        /\ rec' = [rec EXCEPT ![c] = Absent]
        /\ lease' = lease \/ lease' = NoLease
        /\ UNCHANGED <<disk, issued, deleting, lock, stuck>>
    BY <1>4 DEF Release
  <2>2. TypeOK' /\ LeaseInv'
    BY <2>1, BlankLemma, BoundAssumption DEF TypeOK, LeaseInv
  <2>3. HandleInv'
    BY <2>1 DEF HandleInv, TypeOK
  <2>4. CopyInv'
    BY <2>1, BlankLemma DEF CopyInv, RevisionMatches, TypeOK
  <2> QED
    BY <2>2, <2>3, <2>4
<1>5. CASE \/ SaveEdit(c)
           \/ \E k \in Key, d \in Digest : BeginIdempotent(c, k, d)
           \/ \E k \in Key, r \in Result : CompleteIdempotent(c, k, r)
  BY <1>5, WriteCases
<1> QED
  BY <1>1, <1>2, <1>3, <1>4, <1>5 DEF ClientStep

\* One step of the store keeps the store's invariant.
LEMMA StoreStep ==
  ASSUME StoreInv, StoreNext \/ UNCHANGED storeVars
  PROVE  StoreInv'
<1>1. CASE LifecycleStep
  BY <1>1, LifecycleLemma
<1>2. CASE \E c \in Client : ClientStep(c)
  BY <1>2, ClientLemma
<1>3. CASE UNCHANGED storeVars
  BY <1>3 DEF storeVars, StoreInv, TypeOK, LeaseInv, HandleInv, CopyInv,
              RevisionMatches
<1> QED
  BY <1>1, <1>2, <1>3 DEF StoreNext

\* The invariant is inductive.
THEOREM StoreInvariance == StoreSpec => []StoreInv
<1>1. StoreInit => StoreInv
  BY InitLemma
<1>2. StoreInv /\ [StoreNext]_storeVars => StoreInv'
  BY StoreStep
<1> QED
  BY <1>1, <1>2, PTL DEF StoreSpec

-----------------------------------------------------------------------------
(* What the invariant gives.                                               *)

\* Every variable keeps its type in every behaviour.
THEOREM Typing == StoreSpec => []TypeOK
<1>1. StoreInv => TypeOK
  BY DEF StoreInv
<1> QED
  BY <1>1, StoreInvariance, PTL

\* A copy loaded under the current lease that carries the revision of the
\* document is the document: save may compare revisions instead of contents.
THEOREM RevisionIdentifiesContent == StoreSpec => []CopyIsCurrent
<1>1. StoreInv => CopyIsCurrent
  BY DEF StoreInv, CopyInv, CopyIsCurrent, ValidLease
<1> QED
  BY <1>1, StoreInvariance, PTL

\* The kinds of step, by what they do to the document.
LEMMA StepCases ==
  ASSUME StoreInv, [StoreNext]_storeVars
  PROVE  \/ disk' = disk
         \/ Create
         \/ \E c \in Client : DeleteTree(c)
         \/ \E c \in Client : ReactivateExisting(c)
         \/ Revoke \/ RevokeCutShort \/ Rename \/ Unarchive
         \/ Archive /\ ~disk.archived
         \/ \E c \in Client : DeleteFence(c)
         \/ \E c \in Client :
              \/ SaveEdit(c)
              \/ \E k \in Key, d \in Digest : BeginIdempotent(c, k, d)
              \/ \E k \in Key, r \in Result : CompleteIdempotent(c, k, r)
<1>1. CASE LifecycleStep
  BY <1>1 DEF LifecycleStep, ReactivateMissing, Archive, AcquireCutShort, Tick,
              Crash
<1>2. ASSUME NEW c \in Client, ClientStep(c)
      PROVE  \/ disk' = disk
             \/ SaveEdit(c)
             \/ \E k \in Key, d \in Digest : BeginIdempotent(c, k, d)
             \/ \E k \in Key, r \in Result : CompleteIdempotent(c, k, r)
  BY <1>2 DEF ClientStep, Acquire, AcquireWith, Load, Heartbeat, Release
<1>3. CASE UNCHANGED storeVars
  BY <1>3 DEF storeVars
<1> QED
  BY <1>1, <1>2, <1>3 DEF StoreNext

\* What any step does to a document.
LEMMA StepLemma ==
  ASSUME StoreInv, [StoreNext]_storeVars
  PROVE  /\ disk.exists /\ disk'.exists => disk.log \subseteq disk'.log
         /\ \A w \in disk'.log \ disk.log : w[1] \in {0, issued}
         /\ disk.exists /\ disk'.exists =>
              \A k \in Key : EntryStep(disk.idem[k], disk'.idem[k])
         /\ disk.exists /\ disk'.exists /\ disk.revoked =>
              disk'.revoked \/ \E c \in Client : ReactivateExisting(c)
<1> USE DEF StoreInv
<1>1. CASE disk' = disk
  BY <1>1 DEF EntryStep
<1>2. CASE Create
  BY <1>2 DEF Create, Fresh, Absent
<1>3. CASE \E c \in Client : DeleteTree(c)
  BY <1>3 DEF DeleteTree, Absent
<1>4. CASE \/ \E c \in Client : ReactivateExisting(c)
           \/ Revoke \/ RevokeCutShort \/ Rename \/ Unarchive
           \/ Archive /\ ~disk.archived
           \/ \E c \in Client : DeleteFence(c)
  BY <1>4, MetadataCases DEF EntryStep
<1>5. CASE \E c \in Client :
             \/ SaveEdit(c)
             \/ \E k \in Key, d \in Digest : BeginIdempotent(c, k, d)
             \/ \E k \in Key, r \in Result : CompleteIdempotent(c, k, r)
  <2>1. /\ disk'.log = disk.log \cup {<<lease.token, disk.rev + 1>>}
        /\ disk'.revoked = disk.revoked /\ lease.token # 0
        /\ \A k \in Key : EntryStep(disk.idem[k], disk'.idem[k])
    BY <1>5, WriteCases
  <2>2. lease.token = issued
    BY <2>1 DEF LeaseInv
  <2> QED
    BY <2>1, <2>2
<1> QED
  BY <1>1, <1>2, <1>3, <1>4, <1>5, StepCases

\* No write of any operation loses an earlier one.
THEOREM LostUpdatesNever == StoreSpec => NoLostUpdate
<1>1. StoreInv /\ [StoreNext]_storeVars =>
        [disk.exists /\ disk'.exists => disk.log \subseteq disk'.log]_storeVars
  BY StepLemma
<1> QED
  BY <1>1, StoreInvariance, PTL DEF StoreSpec, NoLostUpdate

\* A superseded owner never writes.
THEOREM Fencing == StoreSpec => OnlyLatestTokenWrites
<1>1. StoreInv /\ [StoreNext]_storeVars =>
        [\A w \in disk'.log \ disk.log : w[1] \in {0, issued}]_storeVars
  BY StepLemma
<1> QED
  BY <1>1, StoreInvariance, PTL DEF StoreSpec, OnlyLatestTokenWrites

\* A key goes from free to pending to complete and keeps digest and result.
THEOREM KeysMoveForward == StoreSpec => IdempotencyForward
<1>1. StoreInv /\ [StoreNext]_storeVars =>
        [disk.exists /\ disk'.exists =>
           \A k \in Key : EntryStep(disk.idem[k], disk'.idem[k])]_storeVars
  BY StepLemma
<1> QED
  BY <1>1, StoreInvariance, PTL DEF StoreSpec, IdempotencyForward

\* Only reactivate ends a revocation.
THEOREM RevocationIsKept == StoreSpec => RevocationSticks
<1>1. StoreInv /\ [StoreNext]_storeVars =>
        [disk.exists /\ disk.revoked /\ disk'.exists =>
           disk'.revoked \/ \E c \in Client : ReactivateExisting(c)]_storeVars
  BY StepLemma
<1> QED
  BY <1>1, StoreInvariance, PTL DEF StoreSpec, RevocationSticks

\* An archived session has no lease file, even after a revoke cut short.
THEOREM ArchivedSessionsAreQuiet == StoreSpec => []ArchivedIsQuiet
<1>1. StoreInit => ArchivedIsQuiet
  BY DEF StoreInit, ArchivedIsQuiet, Fresh, Absent
<1>2. StoreInv /\ ArchivedIsQuiet /\ [StoreNext]_storeVars => ArchivedIsQuiet'
  <2> SUFFICES ASSUME StoreInv, ArchivedIsQuiet, [StoreNext]_storeVars
               PROVE  ArchivedIsQuiet'
    OBVIOUS
  <2> USE DEF ArchivedIsQuiet
  <2>1. CASE Create
    BY <2>1 DEF Create, Fresh, Absent
  <2>2. CASE \E c \in Client : DeleteTree(c)
    BY <2>2 DEF DeleteTree
  <2>3. CASE \/ \E c \in Client : ReactivateExisting(c)
             \/ Revoke \/ RevokeCutShort \/ Rename \/ Unarchive
             \/ Archive /\ ~disk.archived
             \/ \E c \in Client : DeleteFence(c)
    <3>1. CASE RevokeCutShort
      <4>1. disk \in Record
        BY DEF StoreInv, TypeOK
      <4>2. /\ disk'.archived = disk.archived /\ lease' = lease
        BY <3>1, <4>1 DEF RevokeCutShort, MetadataUpdate, Written, Record
      <4> QED
        BY <4>2
    <3>2. CASE ~RevokeCutShort
      BY <2>3, <3>2, MetadataCases DEF StoreInv
    <3> QED
      BY <3>1, <3>2
  <2>4. CASE \E c \in Client :
               \/ SaveEdit(c)
               \/ \E k \in Key, d \in Digest : BeginIdempotent(c, k, d)
               \/ \E k \in Key, r \in Result : CompleteIdempotent(c, k, r)
    <3>1. /\ disk'.revoked = disk.revoked /\ disk'.archived = disk.archived
          /\ lease' = lease
      BY <2>4, WriteCases
    <3> QED
      BY <3>1
  <2>5. CASE disk' = disk
    <3>1. CASE \E c \in Client : Acquire(c)
      BY <3>1, <2>5 DEF Acquire
    <3>2. CASE lease' = lease \/ lease' = NoLease
      BY <3>2, <2>5
    <3>3. CASE \E c \in Client : Heartbeat(c)
      BY <3>3, BlankLemma DEF Heartbeat, ValidLease
    <3>4. CASE Tick
      BY <3>4, BlankLemma DEF Tick
    <3>5. CASE \E c \in Client : Crash(c)
      BY <3>5, BlankLemma, <2>5 DEF Crash
    <3>6. ASSUME LifecycleStep
          PROVE  \/ lease' = lease \/ lease' = NoLease
                 \/ Tick \/ \E c \in Client : Crash(c)
      BY <3>6 DEF LifecycleStep, Create, ReactivateExisting, ReactivateMissing,
                  Revoke, RevokeCutShort, Rename, Archive, Unarchive,
                  DeleteFence, DeleteTree, AcquireCutShort
    <3>7. ASSUME NEW c \in Client, ClientStep(c)
          PROVE  \/ lease' = lease \/ lease' = NoLease
                 \/ Acquire(c) \/ Heartbeat(c)
      BY <3>7 DEF ClientStep, Load, Release, SaveEdit, BeginIdempotent,
                  CompleteIdempotent, Save
    <3>8. CASE UNCHANGED storeVars
      BY <3>8, <3>2 DEF storeVars
    <3> QED
      BY <3>1, <3>2, <3>3, <3>4, <3>5, <3>6, <3>7, <3>8 DEF StoreNext
  <2> QED
    BY <2>1, <2>2, <2>3, <2>4, <2>5, StepCases
<1> QED
  BY <1>1, <1>2, StoreInvariance, PTL DEF StoreSpec
=============================================================================
