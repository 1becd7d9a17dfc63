------------------------ MODULE MediaPipeline_proofs ------------------------
(***************************************************************************)
(* Proofs about MediaPipeline for every number of uploads, tries,          *)
(* submissions, workers, sweeps and faults.                                *)
(*                                                                         *)
(* The store is written and cleared under keys that rows, jobs and calls   *)
(* name, so the invariant says, key by key, who may still write or remove  *)
(* the object: a staging key belongs to one try and is settled once a row  *)
(* names it; a durable key belongs to the one worker that wrote it until   *)
(* the row names it, and from then on to the row, which expires only when  *)
(* no worker is left; a derivative key belongs to the transaction that     *)
(* holds the source's lock; and a sweep removes only the key of a row that *)
(* is expired and can no longer come back.                                 *)
(***************************************************************************)
EXTENDS MediaPipeline, TLAPS

-----------------------------------------------------------------------------
(* The inductive invariant.                                                *)

\* A try that staged what a row may name: it has ended, or it is about to
\* discard because the answer of its own transaction was lost.
Over(u, t) ==
    \/ uploading[<<u, t>>].pc = "ended"
    \/ uploading[<<u, t>>].pc = "discard" /\ u \in faults.lostAnswers

\* A staging key of an upload whose try is over.
Settled(u, k) == \E t \in Tries : k = StagingKey(u, t) /\ Over(u, t)

\* The key of a row is the one its state calls for.
RowKeys ==
    /\ \A u \in Uploads :
          \/ media[u].state = "none" /\ media[u].key = NoKey
          \/ media[u].state \in {"staged", "promotion_pending", "promotion_failed"}
             /\ Settled(u, media[u].key)
          \/ media[u].state \in {"quarantined", "approved_private", "rejected"}
             /\ media[u].key = DurableKey(u)
          \/ media[u].state = "deleted" /\ media[u].expired
             /\ (Settled(u, media[u].key) \/ media[u].key = DurableKey(u))
    /\ \A d \in Derivatives :
          \/ media[d].state = "none" /\ media[d].key = NoKey
          \/ /\ media[d].state \in {"redacted_derivative", "approved_public", "removed", "deleted"}
             /\ media[d].key = DerivativeKey(d)

\* A promotion job is open exactly while its row waits for it, it pins a
\* settled staging key, and a promoted row's job is confirmed.
JobsFollowRows ==
    \A u \in Uploads :
        /\ job[u].state \in {"pending", "leased"} <=> media[u].state = "promotion_pending"
        /\ job[u].state # "none" => Settled(u, job[u].source)
        /\ media[u].key = DurableKey(u) => job[u].state = "confirmed"

\* A worker has a job; one that wrote the destination still finds it there;
\* one that removes the source has promoted the row.
WorkersHoldJobs ==
    \A w \in Workers :
        \/ worker[w].pc = "idle" /\ worker[w].media = NoKey
        \/ /\ worker[w].pc # "idle" /\ worker[w].media \in Uploads
           /\ job[worker[w].media].state # "none"
           /\ worker[w].pc = "remove_source" =>
                 media[worker[w].media].key = DurableKey(worker[w].media)
           /\ worker[w].pc \in {"finalize", "remove_destination"} =>
                 DurableKey(worker[w].media) \in objects

\* An expired promoted row has no worker left; without a lost answer the
\* bytes of one that has not expired are there.
PromotedRowsSettle ==
    \A u \in Uploads :
        media[u].key = DurableKey(u) =>
            IF media[u].expired THEN \A w \in Workers : worker[w].media # u
            ELSE u \in faults.lostAnswers \/ DurableKey(u) \in objects

\* What a sweep read of a row still holds, but for the state; and while it
\* is about to commit, the bytes are gone.
Candidates == [id : Media, state : MediaStates, key : Keys]
StillExpired(c) ==
    /\ c.id \in Media
    /\ media[c.id].state \notin {"none", "promotion_pending"}
    /\ media[c.id].key = c.key
    /\ media[c.id].expired

SweepsHoldExpired ==
    \A p \in Sweepers :
        /\ \A c \in sweep[p].todo : StillExpired(c)
        /\ sweep[p].pc = "commit" =>
              /\ StillExpired(sweep[p].current)
              /\ sweep[p].current.key \notin objects

\* What a try staged is there until the try decides.
TriesHoldBytes ==
    \A u \in Uploads, t \in Tries :
        uploading[<<u, t>>].pc = "staged" => StagingKey(u, t) \in objects

\* One derivative transaction is open on a source, for a row that is not there.
Holding == {"locked", "written", "found"}
SourceLockIsHeld ==
    \A d \in Derivatives, t \in Renders :
        deriving[<<d, t>>] \in Holding =>
            /\ media[d].state = "none"
            /\ \A e \in Derivatives, r \in Renders :
                  deriving[<<e, r>>] \in Holding /\ Source(e) = Source(d) => e = d /\ r = t

\* An accepted submission spent the receipt of its photo.
SubmissionsSpendReceipts ==
    \A s \in Submissions :
        \/ submission[s].state = "none" /\ submission[s].media = NoKey
        \/ /\ submission[s].state # "none" /\ submission[s].media \in Uploads
           /\ receipt[submission[s].media].state = "consumed"
           /\ media[submission[s].media].state # "none"

Inv ==
    /\ TypeOK /\ RowKeys /\ JobsFollowRows /\ WorkersHoldJobs /\ PromotedRowsSettle
    /\ SweepsHoldExpired /\ TriesHoldBytes /\ SourceLockIsHeld
    /\ SubmissionsSpendReceipts /\ OneSubmissionPerUpload /\ PublicOnlyThroughApproval
    /\ StoreMatchesRows /\ DestinationHasOneWriter

-----------------------------------------------------------------------------
(* Facts about keys and types.                                             *)

\* Keys of different kinds differ, and a key tells what it was made from.
LEMMA KeyParts ==
    /\ \A u, t, v, n : StagingKey(u, t) = StagingKey(v, n) => u = v /\ t = n
    /\ \A u, v : DurableKey(u) = DurableKey(v) => u = v
    /\ \A d, e : DerivativeKey(d) = DerivativeKey(e) => d = e
    /\ \A u, t, v : StagingKey(u, t) # DurableKey(v) /\ StagingKey(u, t) # DerivativeKey(v)
    /\ \A u, v : DurableKey(u) # DerivativeKey(v)
    /\ \A u, t : NoKey # StagingKey(u, t) /\ NoKey # DurableKey(u) /\ NoKey # DerivativeKey(u)
<1>1. /\ NoKey[1] = "none"
      /\ \A u, t : /\ StagingKey(u, t)[1] = "staging" /\ StagingKey(u, t)[2] = u
                   /\ StagingKey(u, t)[3] = t
      /\ \A u : DurableKey(u)[1] = "durable" /\ DurableKey(u)[2] = u
      /\ \A d : DerivativeKey(d)[1] = "derivative" /\ DerivativeKey(d)[2] = d
  BY DEF StagingKey, DurableKey, DerivativeKey, NoKey
<1> QED
  BY <1>1

\* A settled key is a staging key of its upload, and of a try that is over.
LEMMA SettledKeys ==
    ASSUME NEW u, NEW k, Settled(u, k)
    PROVE  /\ k # NoKey /\ (\A v : k # DurableKey(v)) /\ \A d : k # DerivativeKey(d)
           /\ \A v : Settled(v, k) => v = u
           /\ \A v, t : k = StagingKey(v, t) => v = u /\ Over(v, t)
<1>1. PICK t \in Tries : k = StagingKey(u, t) /\ Over(u, t)
  BY DEF Settled
<1>2. \A v : Settled(v, k) => \E n : k = StagingKey(v, n)
  BY DEF Settled
<1> QED
  BY <1>1, <1>2, KeyParts

\* A key once settled stays settled while no upload moves.
LEMMA KeepSettled ==
    UNCHANGED uploading /\ faults.lostAnswers \subseteq faults'.lostAnswers
      => \A u, k : Settled(u, k) => Settled(u, k)'
  BY DEF Settled, Over

\* A fault is counted, and of lost answers none is forgotten.
LEMMA FaultCounts ==
    ASSUME faults \in FaultRecords
    PROVE  /\ \A f : Fault(f) =>
                 faults' \in FaultRecords /\ faults.lostAnswers \subseteq faults'.lostAnswers
           /\ \A m \in Media : LosesAnswer(m) =>
                 /\ faults' \in FaultRecords /\ faults.lostAnswers \subseteq faults'.lostAnswers
                 /\ m \in faults'.lostAnswers
  BY MediaAssumption DEF Fault, LosesAnswer, FaultRecords

\* An upload is no derivative, and neither is null.
LEMMA MediaKinds ==
    /\ \A u \in Uploads : u \in Media /\ u \notin Derivatives /\ u # NoKey
    /\ \A d \in Derivatives : d \in Media /\ d \notin Uploads /\ Source(d) \in Uploads
    /\ \A m \in Media : m \in Uploads \/ m \in Derivatives
  BY MediaAssumption DEF Media, Derivatives, Source

\* The keys of the four kinds.
LEMMA KeysTyped ==
    /\ NoKey \in Keys
    /\ \A u \in Uploads : DurableKey(u) \in Keys
    /\ \A u \in Uploads, t \in Tries : StagingKey(u, t) \in Keys
    /\ \A d \in Derivatives : DerivativeKey(d) \in Keys
  BY DEF Keys

\* The conjuncts of TypeOK, one table or kind of call each.
RowTypes == [state : MediaStates, key : Keys, content : Contents \cup {NoKey},
             version : Nat, expired : BOOLEAN]
JobStates == {"none", "pending", "leased", "confirmed", "dead_letter"}
MediaType == media \in [Media -> RowTypes]
ReceiptType == receipt \in [Uploads -> [state : {"none", "active", "consumed"}, expired : BOOLEAN]]
SubmissionType == submission \in [Submissions -> [state : SubmissionStates \cup {"none"},
                                                  media : Uploads \cup {NoKey}]]
JobType == job \in [Uploads -> [state : JobStates, attempts : 0 .. MaxAttempts,
                                owner : Workers \cup {NoKey}, lease : BOOLEAN, source : Keys]]
BindingType == bindings \subseteq Derivatives \X Submissions \X Operators
UploadCalls == [pc : {"idle", "staged", "discard", "ended"}, content : Contents \cup {NoKey}]
UploadingType == uploading \in [Uploads \X Tries -> UploadCalls]
DerivingType == deriving \in [Derivatives \X Renders ->
                                {"idle", "locked", "written", "found", "cleanup", "done"}]
WorkerType == worker \in [Workers -> [pc : {"idle", "read", "write", "finalize", "remove_source",
                                            "remove_destination", "fail"},
                                      media : Uploads \cup {NoKey}, attempt : 0 .. MaxAttempts]]
SweepType == sweep \in [Sweepers -> [pc : {"idle", "next", "commit"},
                                     todo : SUBSET Candidates, current : Candidates \cup {NoKey}]]

\* TypeOK is the conjunction of these parts, so that a step names only those
\* it changes.
LEMMA TypeParts ==
    TypeOK <=> /\ objects \subseteq Keys /\ faults \in FaultRecords
               /\ MediaType /\ ReceiptType /\ SubmissionType /\ JobType /\ BindingType
               /\ UploadingType /\ DerivingType /\ WorkerType /\ SweepType
  BY DEF TypeOK, RowTypes, JobStates, Candidates, MediaType, ReceiptType, SubmissionType,
     JobType, BindingType, UploadingType, UploadCalls, DerivingType, WorkerType, SweepType

-----------------------------------------------------------------------------
(* What the keys of rows and jobs are not.                                 *)

\* No row names the staging key of a try that goes on, the durable key of
\* another upload or the key of another derivative.
LEMMA RowsNameOwnKeys ==
    ASSUME RowKeys, NEW m \in Media
    PROVE  /\ \A u, t : media[m].key = StagingKey(u, t) => m = u /\ Over(u, t)
           /\ \A u : media[m].key = DurableKey(u) =>
                 /\ m = u
                 /\ media[m].state \in {"quarantined", "approved_private", "rejected", "deleted"}
           /\ \A d : media[m].key = DerivativeKey(d) => m = d /\ media[m].state # "none"
<1>1. CASE m \in Uploads
  <2>1. CASE media[m].key = NoKey
    BY <2>1, KeyParts
  <2>2. CASE Settled(m, media[m].key)
    BY <2>2, SettledKeys
  <2>3. CASE media[m].key = DurableKey(m) /\ media[m].state \in {"quarantined", "approved_private", "rejected", "deleted"}
    BY <2>3, KeyParts
  <2> QED
    BY <1>1, <2>1, <2>2, <2>3 DEF RowKeys
<1>2. CASE m \in Derivatives
  <2>1. CASE media[m].key = NoKey
    BY <2>1, KeyParts
  <2>2. CASE media[m].key = DerivativeKey(m) /\ media[m].state # "none"
    BY <2>2, KeyParts
  <2> QED
    BY <1>2, <2>1, <2>2 DEF RowKeys
<1> QED
  BY <1>1, <1>2, MediaKinds

\* A promotion job names the staging key of a try of its own that is over.
LEMMA JobsNameSettledKeys ==
    ASSUME JobsFollowRows, NEW u \in Uploads, job[u].state # "none"
    PROVE  /\ \A v, t : job[u].source = StagingKey(v, t) => v = u /\ Over(v, t)
           /\ \A v : job[u].source # DurableKey(v)
<1>1. Settled(u, job[u].source)
  BY DEF JobsFollowRows
<1> QED
  BY <1>1, SettledKeys

-----------------------------------------------------------------------------
(* What it takes to write or to remove an object.                          *)

\* Bytes may be written under a key no expired or deleted row has.
LEMMA WriteKeeps ==
    ASSUME Inv, NEW k, objects' = objects \cup {k}, media' = media, faults.lostAnswers \subseteq faults'.lostAnswers,
           \A m \in Media : media[m].key = k => ~media[m].expired /\ media[m].state # "deleted"
    PROVE  StoreMatchesRows' /\ (sweep' = sweep => SweepsHoldExpired')
<1>1. PrivateRowsHaveBytes'
  BY DEF Inv, StoreMatchesRows, PrivateRowsHaveBytes
<1>2. DeletedRowsHaveNoBytes'
  BY DEF Inv, StoreMatchesRows, DeletedRowsHaveNoBytes
<1>3. ASSUME sweep' = sweep PROVE SweepsHoldExpired'
  BY <1>3 DEF Inv, SweepsHoldExpired, StillExpired
<1> QED
  BY <1>1, <1>2, <1>3 DEF StoreMatchesRows

\* Bytes may be removed from a key whose row, if it has one, is expired or
\* has lost the answer that would have spared it.
Dispensable(k) ==
    \A u \in Uploads : media[u].key = k => media[u].expired \/ u \in faults.lostAnswers

\* Removing dispensable bytes takes none that a row, a worker or a sweep
\* relies on.
LEMMA RemovalKeeps ==
    ASSUME Inv, NEW k, Dispensable(k), objects' = objects \ {k}, media' = media,
           faults.lostAnswers \subseteq faults'.lostAnswers, UNCHANGED sweep,
           \A w \in Workers : worker'[w].media \in {worker[w].media, NoKey}
    PROVE  StoreMatchesRows' /\ PromotedRowsSettle' /\ SweepsHoldExpired'
<1>1. PrivateRowsHaveBytes'
  BY DEF Inv, StoreMatchesRows, PrivateRowsHaveBytes, Dispensable
<1>2. DeletedRowsHaveNoBytes'
  BY DEF Inv, StoreMatchesRows, DeletedRowsHaveNoBytes
<1>3. PromotedRowsSettle'
  BY MediaKinds DEF Inv, PromotedRowsSettle, Dispensable
<1>4. SweepsHoldExpired'
  BY DEF Inv, SweepsHoldExpired, StillExpired
<1> QED
  BY <1>1, <1>2, <1>3, <1>4 DEF StoreMatchesRows

\* The lock of a source is not touched by a step that opens no derivative
\* transaction and creates no derivative.
LEMMA LockKeeps ==
    ASSUME SourceLockIsHeld,
           \A d \in Derivatives, t \in Renders :
               deriving'[<<d, t>>] \in Holding => deriving[<<d, t>>] \in Holding,
           \A d \in Derivatives : media[d].state = "none" => media'[d].state = "none"
    PROVE  SourceLockIsHeld'
  BY Zenon DEF SourceLockIsHeld

-----------------------------------------------------------------------------
(* Rows that change.                                                       *)

\* What an update of one media row leaves.
LEMMA RowChanges ==
    ASSUME MediaType, NEW m \in Media, NEW r \in RowTypes, media' = [media EXCEPT ![m] = r]
    PROVE  /\ MediaType' /\ media'[m] = r
           /\ \A x \in Media : x # m => media'[x] = media[x]
  BY DEF MediaType

\* The services' update of a state: the version counts, key and deadline stay.
LEMMA RowMoves ==
    ASSUME MediaType, NEW m \in Media, NEW q \in MediaStates,
           media' = [media EXCEPT ![m].state = q, ![m].version = @ + 1]
    PROVE  /\ MediaType'
           /\ media'[m].state = q /\ media'[m].key = media[m].key
           /\ media'[m].expired = media[m].expired
           /\ \A x \in Media : x # m => media'[x] = media[x]
<1> DEFINE r == [media[m] EXCEPT !.state = q, !.version = @ + 1]
<1>1. media[m] \in RowTypes
  BY DEF MediaType
<1>2. /\ r \in RowTypes
      /\ r.state = q /\ r.key = media[m].key /\ r.expired = media[m].expired
  <2> DEFINE moved == [media[m] EXCEPT !.state = q]
  <2>1. /\ moved \in RowTypes /\ moved.version = media[m].version /\ moved.state = q
        /\ moved.key = media[m].key /\ moved.expired = media[m].expired
    BY <1>1 DEF RowTypes
  <2>2. r = [moved EXCEPT !.version = media[m].version + 1] /\ media[m].version + 1 \in Nat
    BY <1>1 DEF RowTypes
  <2> HIDE DEF moved, r
  <2> QED
    BY <2>1, <2>2 DEF RowTypes
<1>3. media' = [media EXCEPT ![m] = r]
  OBVIOUS
<1> HIDE DEF r
<1> QED
  BY <1>2, <1>3, RowChanges

\* What an update of a promotion job leaves.
LEMMA JobMoves ==
    ASSUME JobType, NEW u \in Uploads, NEW q \in JobStates,
           job' = [job EXCEPT ![u].state = q, ![u].owner = NoKey, ![u].lease = FALSE]
    PROVE  /\ JobType'
           /\ job'[u].state = q /\ job'[u].source = job[u].source
           /\ \A x \in Uploads : x # u => job'[x] = job[x]
<1> DEFINE Jobs == [state : JobStates, attempts : 0 .. MaxAttempts,
                    owner : Workers \cup {NoKey}, lease : BOOLEAN, source : Keys]
           moved == [job[u] EXCEPT !.state = q]
           freed == [moved EXCEPT !.owner = NoKey]
           r == [freed EXCEPT !.lease = FALSE]
<1>1. job[u] \in Jobs /\ job' = [job EXCEPT ![u] = r]
  BY DEF JobType
<1>2. moved \in Jobs /\ moved.state = q /\ moved.source = job[u].source
  BY <1>1
<1> HIDE DEF moved
<1>3. freed \in Jobs /\ freed.state = q /\ freed.source = job[u].source
  BY <1>2
<1> HIDE DEF freed
<1>4. r \in Jobs /\ r.state = q /\ r.source = job[u].source
  BY <1>3
<1>5. job \in [Uploads -> Jobs]
  BY DEF JobType
<1> HIDE DEF r, Jobs
<1>6. job' \in [Uploads -> Jobs]
  BY <1>1, <1>4, <1>5
<1>7. job'[u] = r /\ \A x \in Uploads : x # u => job'[x] = job[x]
  BY <1>1, <1>5
<1>8. JobType'
  BY <1>6 DEF Jobs, JobType
<1> QED
  BY <1>4, <1>7, <1>8

-----------------------------------------------------------------------------
(* A part of the invariant is kept by a step that leaves what it reads.     *)

LEMMA KeepRowKeys ==
    RowKeys /\ UNCHANGED <<media, uploading>> /\ faults.lostAnswers \subseteq faults'.lostAnswers
      => RowKeys'
  BY KeepSettled DEF RowKeys

LEMMA KeepJobsFollowRows ==
    JobsFollowRows /\ UNCHANGED <<job, media, uploading>>
      /\ faults.lostAnswers \subseteq faults'.lostAnswers
      => JobsFollowRows'
  BY KeepSettled DEF JobsFollowRows

LEMMA KeepWorkersHoldJobs ==
    WorkersHoldJobs /\ UNCHANGED <<worker, job, media, objects>> => WorkersHoldJobs'
  BY DEF WorkersHoldJobs

LEMMA KeepPromotedRowsSettle ==
    PromotedRowsSettle /\ UNCHANGED <<media, worker, faults, objects>> => PromotedRowsSettle'
  BY DEF PromotedRowsSettle

LEMMA KeepSweepsHoldExpired ==
    SweepsHoldExpired /\ UNCHANGED <<sweep, media, objects>> => SweepsHoldExpired'
  BY DEF SweepsHoldExpired, StillExpired

LEMMA KeepTriesHoldBytes ==
    TriesHoldBytes /\ UNCHANGED <<uploading, objects>> => TriesHoldBytes'
  BY DEF TriesHoldBytes

LEMMA KeepSourceLockIsHeld ==
    SourceLockIsHeld /\ UNCHANGED <<deriving, media>> => SourceLockIsHeld'
  BY DEF SourceLockIsHeld, Holding

LEMMA KeepSubmissionsSpendReceipts ==
    SubmissionsSpendReceipts /\ UNCHANGED <<submission, receipt, media>> => SubmissionsSpendReceipts'
  BY DEF SubmissionsSpendReceipts

LEMMA KeepOneSubmissionPerUpload ==
    OneSubmissionPerUpload /\ UNCHANGED <<submission>> => OneSubmissionPerUpload'
  BY DEF OneSubmissionPerUpload

LEMMA KeepPublicOnlyThroughApproval ==
    PublicOnlyThroughApproval /\ UNCHANGED <<media, submission>> => PublicOnlyThroughApproval'
  BY DEF PublicOnlyThroughApproval

LEMMA KeepStoreMatchesRows ==
    StoreMatchesRows /\ UNCHANGED <<media, faults, objects>> => StoreMatchesRows'
  BY DEF StoreMatchesRows, PrivateRowsHaveBytes, DeletedRowsHaveNoBytes

LEMMA KeepDestinationHasOneWriter ==
    DestinationHasOneWriter /\ UNCHANGED <<worker, media, faults>> => DestinationHasOneWriter'
  BY DEF DestinationHasOneWriter

\* A try writes its own staging key, which no row names yet.
LEMMA StageUploadStep ==
    ASSUME Inv, NEW u \in Uploads, NEW t \in Tries, NEW c \in Contents,
           StageUpload(u, t, c)
    PROVE  Inv'
<1> USE MediaKinds
<1>0. UNCHANGED <<media, receipt, submission, job, bindings, deriving, worker, sweep, faults>>
  BY DEF StageUpload, databaseVars, DerivativeVars
<1>1. TypeOK'
  <2>1. UploadingType'
    BY <1>0, TypeParts, KeysTyped, MediaAssumption DEF StageUpload, Inv, UploadingType, UploadCalls
  <2>2. (objects \subseteq Keys)'
    BY <1>0, TypeParts, KeysTyped, MediaAssumption DEF StageUpload, Inv, UploadingType
  <2>3. MediaType' /\ ReceiptType' /\ SubmissionType' /\ JobType' /\ BindingType'
           /\ DerivingType' /\ WorkerType' /\ SweepType' /\ (faults \in FaultRecords)'
    BY <1>0, TypeParts
       DEF Inv, MediaType, ReceiptType, SubmissionType, JobType, BindingType, DerivingType,
       WorkerType, SweepType
  <2> QED
    BY <2>1, <2>2, <2>3, TypeParts, PTL
<1>2. /\ \A v \in Uploads, n \in Tries : <<v, n>> # <<u, t>> => uploading'[<<v, n>>] = uploading[<<v, n>>]
      /\ uploading[<<u, t>>].pc = "idle"
      /\ uploading'[<<u, t>>].pc = "staged"
      /\ objects' = objects \cup {StagingKey(u, t)}
  BY <1>0, TypeParts DEF StageUpload, Inv, UploadingType
<1>s. \A v \in Uploads : \A k : Settled(v, k) => Settled(v, k)'
  BY <1>0, <1>2 DEF Settled, Over
<1>3. RowKeys'
  BY <1>0, <1>2, <1>s DEF Inv, RowKeys
<1>4. JobsFollowRows'
  BY <1>0, <1>2, <1>s DEF Inv, JobsFollowRows
<1>5. WorkersHoldJobs'
  BY <1>0, <1>2 DEF Inv, WorkersHoldJobs
<1>6. PromotedRowsSettle'
  BY <1>0, <1>2 DEF Inv, PromotedRowsSettle, WorkersHoldJobs
<1>7. SweepsHoldExpired'
  BY <1>0, <1>2, KeyParts, SettledKeys DEF Inv, SweepsHoldExpired, StillExpired, RowKeys, Over
<1>8. TriesHoldBytes'
  BY <1>0, <1>2 DEF Inv, TriesHoldBytes
<1>9. StoreMatchesRows'
  BY <1>0, <1>2, KeyParts, SettledKeys
     DEF Inv, StoreMatchesRows, PrivateRowsHaveBytes, DeletedRowsHaveNoBytes, RowKeys, Over
<1> QED
  BY <1>0, <1>1, <1>3, <1>4, <1>5, <1>6, <1>7, <1>8, <1>9, KeepSourceLockIsHeld,
     KeepSubmissionsSpendReceipts, KeepOneSubmissionPerUpload, KeepPublicOnlyThroughApproval,
     KeepDestinationHasOneWriter DEF Inv

\* The transaction of a try: a fresh row takes the key of the staged bytes,
\* which are there, or nothing changes.  Only a lost answer sends the try that
\* a row names on to discard.
LEMMA UploadDecides ==
    ASSUME Inv, NEW u \in Uploads, NEW t \in Tries, NEW call \in UploadCalls,
           uploading[<<u, t>>].pc = "staged",
           uploading' = [uploading EXCEPT ![<<u, t>>] = call],
           \/ media[u].state = "none" /\ StagedRow(u, t)
           \/ UNCHANGED <<media, receipt>>,
           \/ call.pc = "ended"
           \/ call.pc = "discard" /\ (u \in faults'.lostAnswers \/ UNCHANGED <<media, receipt>>),
           UNCHANGED <<objects, submission, job, bindings, deriving, worker, sweep>>,
           faults' \in FaultRecords, faults.lostAnswers \subseteq faults'.lostAnswers
    PROVE  Inv'
<1> USE MediaKinds
<1>1. TypeOK'
  <2>1. MediaType'
    <3> DEFINE row == [state |-> "staged", key |-> StagingKey(u, t),
                       content |-> uploading[<<u, t>>].content, version |-> 1, expired |-> FALSE]
    <3>1. uploading[<<u, t>>].content \in Contents \cup {NoKey}
      BY TypeParts DEF Inv, UploadingType, UploadCalls
    <3>2. row \in RowTypes
      BY <3>1, KeysTyped DEF RowTypes, MediaStates, DeletableStates
    <3>3. media' = media \/ media' = [media EXCEPT ![u] = row]
      BY DEF StagedRow
    <3> HIDE DEF row
    <3> QED
      BY <3>2, <3>3, TypeParts, RowChanges DEF Inv, MediaType
  <2>2. ReceiptType'
    <3>1. receipt' = receipt \/ receipt' = [receipt EXCEPT ![u] = [state |-> "active", expired |-> FALSE]]
      BY DEF StagedRow
    <3>2. ReceiptType
      BY TypeParts DEF Inv
    <3>3. [state |-> "active", expired |-> FALSE]
            \in [state : {"none", "active", "consumed"}, expired : BOOLEAN]
      OBVIOUS
    <3> QED
      BY <3>1, <3>2, <3>3 DEF ReceiptType
  <2>3. UploadingType'
    BY TypeParts DEF Inv, UploadingType, UploadCalls
  <2>4. SubmissionType' /\ JobType' /\ BindingType' /\ DerivingType' /\ WorkerType'
           /\ SweepType' /\ (objects \subseteq Keys)'
    BY TypeParts
       DEF Inv, SubmissionType, JobType, BindingType, DerivingType, WorkerType, SweepType
  <2>5. (faults \in FaultRecords)'
    OBVIOUS
  <2> QED
    BY <2>1, <2>2, <2>3, <2>4, <2>5, TypeParts, PTL
<1>2. /\ \A v \in Uploads, n \in Tries : <<v, n>> # <<u, t>> => uploading'[<<v, n>>] = uploading[<<v, n>>]
      /\ uploading'[<<u, t>>] = call
      /\ \/ /\ media[u].state = "none"
            /\ call.pc = "ended" \/ (call.pc = "discard" /\ u \in faults'.lostAnswers)
            /\ \A x \in Media : x # u => media'[x] = media[x]
            /\ media'[u].state = "staged" /\ media'[u].key = StagingKey(u, t) /\ ~media'[u].expired
            /\ \A x \in Uploads : x # u => receipt'[x] = receipt[x]
         \/ UNCHANGED <<media, receipt>>
  <2>1. MediaType /\ ReceiptType /\ UploadingType
    BY TypeParts DEF Inv
  <2>2. /\ \A v \in Uploads, n \in Tries :
              <<v, n>> # <<u, t>> => uploading'[<<v, n>>] = uploading[<<v, n>>]
        /\ uploading'[<<u, t>>] = call
    BY <2>1 DEF UploadingType
  <2>3. CASE media[u].state = "none" /\ StagedRow(u, t) /\ ~UNCHANGED <<media, receipt>>
    <3>1. /\ \A x \in Media : x # u => media'[x] = media[x]
          /\ media'[u].state = "staged" /\ media'[u].key = StagingKey(u, t) /\ ~media'[u].expired
          /\ \A x \in Uploads : x # u => receipt'[x] = receipt[x]
      BY <2>1, <2>3 DEF StagedRow, MediaType, ReceiptType
    <3>2. call.pc = "ended" \/ (call.pc = "discard" /\ u \in faults'.lostAnswers)
      BY <2>3
    <3> QED
      BY <2>2, <2>3, <3>1, <3>2, Zenon
  <2>4. CASE UNCHANGED <<media, receipt>>
    BY <2>2, <2>4
  <2> QED
    BY <2>3, <2>4
<1>s. \A v \in Uploads : \A k : Settled(v, k) => Settled(v, k)'
  BY <1>2 DEF Settled, Over
<1>3. RowKeys'
  <2>1. CASE media[u].state = "none" /\ ~UNCHANGED <<media, receipt>>
    <3>1. Settled(u, StagingKey(u, t))'
      BY <1>2, <2>1 DEF Settled, Over
    <3> QED
      BY <1>2, <1>s, <2>1, <3>1 DEF Inv, RowKeys
  <2>2. CASE UNCHANGED <<media, receipt>>
    BY <1>s, <2>2 DEF Inv, RowKeys
  <2> QED
    BY <1>2, <2>1, <2>2
<1>4. JobsFollowRows'
  BY <1>2, <1>s, KeyParts, SettledKeys DEF Inv, JobsFollowRows
<1>5. WorkersHoldJobs'
  BY <1>2, KeyParts DEF Inv, WorkersHoldJobs, RowKeys
<1>6. PromotedRowsSettle'
  BY <1>2, KeyParts, SettledKeys DEF Inv, PromotedRowsSettle, WorkersHoldJobs, JobsFollowRows
<1>7. SweepsHoldExpired'
  BY <1>2, KeyParts, SettledKeys DEF Inv, SweepsHoldExpired, StillExpired, JobsFollowRows
<1>8. TriesHoldBytes'
  BY <1>2 DEF Inv, TriesHoldBytes
<1>9. SourceLockIsHeld'
  BY <1>2, LockKeeps DEF Inv
<1>10. SubmissionsSpendReceipts'
  BY <1>2 DEF Inv, SubmissionsSpendReceipts
<1>11. PublicOnlyThroughApproval'
  BY <1>2 DEF Inv, PublicOnlyThroughApproval
<1>12. StoreMatchesRows'
  BY <1>2
     DEF Inv, StoreMatchesRows, PrivateRowsHaveBytes, DeletedRowsHaveNoBytes, TriesHoldBytes
<1>13. DestinationHasOneWriter'
  BY <1>2, KeyParts, SettledKeys
     DEF Inv, DestinationHasOneWriter, WorkersHoldJobs, JobsFollowRows
<1> QED
  BY <1>1, <1>3, <1>4, <1>5, <1>6, <1>7, <1>8, <1>9, <1>10, <1>11, <1>12, <1>13,
     KeepOneSubmissionPerUpload DEF Inv

\* A call that goes on to discard, or has ended, is still a call.
LEMMA UploadCallsGoOn ==
    ASSUME UploadingType, NEW u \in Uploads, NEW t \in Tries
    PROVE  [uploading[<<u, t>>] EXCEPT !.pc = "discard"] \in UploadCalls /\ EndedUpload \in UploadCalls
  BY DEF UploadingType, UploadCalls, EndedUpload

\* The row takes the staging key of the try that ends with it, or the try
\* discards what it staged.
LEMMA CommitUploadStep ==
    ASSUME Inv, NEW u \in Uploads, NEW t \in Tries,
           CommitUpload(u, t)
    PROVE  Inv'
<1> DEFINE discarding == [uploading[<<u, t>>] EXCEPT !.pc = "discard"]
<1>0. /\ uploading[<<u, t>>].pc = "staged" /\ faults \in FaultRecords
      /\ UNCHANGED <<objects, submission, job, bindings, deriving, worker, sweep, faults>>
      /\ discarding \in UploadCalls /\ EndedUpload \in UploadCalls
  BY TypeParts, UploadCallsGoOn DEF CommitUpload, Inv
<1>1. CASE UploadDisposition(u, uploading[<<u, t>>].content) = "reserved"
  <2>1. /\ media[u].state = "none" /\ StagedRow(u, t) /\ EndedUpload.pc = "ended"
        /\ uploading' = [uploading EXCEPT ![<<u, t>>] = EndedUpload]
    BY <1>1 DEF CommitUpload, UploadDisposition, EndedUpload
  <2> QED
    BY <1>0, <2>1, UploadDecides
<1>2. CASE UploadDisposition(u, uploading[<<u, t>>].content) # "reserved"
  <2>1. UNCHANGED <<media, receipt>> /\ uploading' = [uploading EXCEPT ![<<u, t>>] = discarding]
    BY <1>2 DEF CommitUpload
  <2>2. discarding.pc = "discard"
    BY <1>0 DEF UploadCalls
  <2> HIDE DEF discarding
  <2> QED
    BY <1>0, <2>1, <2>2, UploadDecides
<1> QED
  BY <1>1, <1>2

\* A failed transaction leaves staged bytes that no row names.
LEMMA UploadTransactionFailsStep ==
    ASSUME Inv, NEW u \in Uploads, NEW t \in Tries,
           UploadTransactionFails(u, t)
    PROVE  Inv'
<1> DEFINE discarding == [uploading[<<u, t>>] EXCEPT !.pc = "discard"]
<1>1. /\ uploading[<<u, t>>].pc = "staged"
      /\ uploading' = [uploading EXCEPT ![<<u, t>>] = discarding]
      /\ UNCHANGED <<objects, media, receipt, submission, job, bindings, deriving, worker, sweep>>
  BY DEF UploadTransactionFails, databaseVars
<1>2. faults' \in FaultRecords /\ faults.lostAnswers \subseteq faults'.lostAnswers
  BY TypeParts, FaultCounts DEF UploadTransactionFails, Inv
<1>3. discarding \in UploadCalls /\ discarding.pc = "discard"
  BY TypeParts, UploadCallsGoOn DEF Inv, UploadCalls
<1> HIDE DEF discarding
<1> QED
  BY <1>1, <1>2, <1>3, UploadDecides

\* A lost answer is written down against its row, whose try goes on to remove
\* what the row names.
LEMMA UploadAnswerLostStep ==
    ASSUME Inv, NEW u \in Uploads, NEW t \in Tries,
           UploadAnswerLost(u, t)
    PROVE  Inv'
<1> DEFINE discarding == [uploading[<<u, t>>] EXCEPT !.pc = "discard"]
<1>1. /\ uploading[<<u, t>>].pc = "staged" /\ media[u].state = "none" /\ StagedRow(u, t)
      /\ uploading' = [uploading EXCEPT ![<<u, t>>] = discarding]
      /\ LosesAnswer(u)
      /\ UNCHANGED <<objects, submission, job, bindings, deriving, worker, sweep>>
  BY DEF UploadAnswerLost, UploadDisposition
<1>2. /\ faults' \in FaultRecords /\ faults.lostAnswers \subseteq faults'.lostAnswers
      /\ u \in faults'.lostAnswers
  BY <1>1, TypeParts, FaultCounts, MediaKinds DEF Inv
<1>3. discarding \in UploadCalls /\ discarding.pc = "discard"
  BY TypeParts, UploadCallsGoOn DEF Inv, UploadCalls
<1> HIDE DEF discarding
<1> QED
  BY <1>1, <1>2, <1>3, UploadDecides

\* What a try discards is named by no row, or by one whose answer was lost.
LEMMA DiscardStagedStep ==
    ASSUME Inv, NEW u \in Uploads, NEW t \in Tries,
           DiscardStaged(u, t)
    PROVE  Inv'
<1> USE MediaKinds
<1>0. UNCHANGED <<media, receipt, submission, job, bindings, deriving, worker, sweep, faults>>
  BY DEF DiscardStaged, databaseVars, DerivativeVars
<1>1. TypeOK'
  <2>1. UploadingType'
    BY <1>0, TypeParts, KeysTyped, MediaAssumption DEF DiscardStaged, EndedUpload, Inv,
       UploadingType, UploadCalls
  <2>2. (objects \subseteq Keys)'
    BY <1>0, TypeParts, KeysTyped, MediaAssumption DEF DiscardStaged, EndedUpload, Inv,
       UploadingType, UploadCalls
  <2>3. MediaType' /\ ReceiptType' /\ SubmissionType' /\ JobType' /\ BindingType'
           /\ DerivingType' /\ WorkerType' /\ SweepType' /\ (faults \in FaultRecords)'
    BY <1>0, TypeParts
       DEF Inv, MediaType, ReceiptType, SubmissionType, JobType, BindingType, DerivingType,
       WorkerType, SweepType
  <2> QED
    BY <2>1, <2>2, <2>3, TypeParts, PTL
<1>2. /\ \A v \in Uploads, n \in Tries : <<v, n>> # <<u, t>> => uploading'[<<v, n>>] = uploading[<<v, n>>]
      /\ uploading[<<u, t>>].pc = "discard"
      /\ uploading'[<<u, t>>].pc = "ended"
      /\ objects' = objects \ {StagingKey(u, t)}
  BY <1>0, TypeParts DEF DiscardStaged, EndedUpload, Inv, UploadingType
<1>s. \A v \in Uploads : \A k : Settled(v, k) => Settled(v, k)'
  BY <1>0, <1>2 DEF Settled, Over
<1>3. RowKeys'
  BY <1>0, <1>2, <1>s DEF Inv, RowKeys
<1>4. JobsFollowRows'
  BY <1>0, <1>2, <1>s DEF Inv, JobsFollowRows
<1>5. WorkersHoldJobs'
  <2>1. \A v : DurableKey(v) # StagingKey(u, t)
    BY KeyParts
  <2> QED
    BY <1>0, <1>2, <2>1 DEF Inv, WorkersHoldJobs
<1>6. PromotedRowsSettle'
  <2>1. \A v \in Uploads : DurableKey(v) # StagingKey(u, t)
    BY KeyParts
  <2> QED
    BY <1>0, <1>2, <2>1 DEF Inv, PromotedRowsSettle
<1>7. SweepsHoldExpired'
  BY <1>0, <1>2 DEF Inv, SweepsHoldExpired, StillExpired
<1>8. TriesHoldBytes'
  <2>1. \A v, n : StagingKey(v, n) = StagingKey(u, t) => v = u /\ n = t
    BY KeyParts
  <2> QED
    BY <1>0, <1>2, <2>1 DEF Inv, TriesHoldBytes
<1>9. StoreMatchesRows'
  BY <1>0, <1>2, KeyParts, SettledKeys
     DEF Inv, StoreMatchesRows, PrivateRowsHaveBytes, DeletedRowsHaveNoBytes, RowKeys, Over
<1> QED
  BY <1>0, <1>1, <1>3, <1>4, <1>5, <1>6, <1>7, <1>8, <1>9, KeepSourceLockIsHeld,
     KeepSubmissionsSpendReceipts, KeepOneSubmissionPerUpload, KeepPublicOnlyThroughApproval,
     KeepDestinationHasOneWriter DEF Inv

\* A call that dies leaves bytes that no row names.
LEMMA UploadCrashesStep ==
    ASSUME Inv, NEW u \in Uploads, NEW t \in Tries,
           UploadCrashes(u, t)
    PROVE  Inv'
<1> USE MediaKinds
<1>0. UNCHANGED <<objects, media, receipt, submission, job, bindings, deriving, worker, sweep>>
  BY DEF UploadCrashes, databaseVars, DerivativeVars
<1>f. faults' \in FaultRecords /\ faults.lostAnswers \subseteq faults'.lostAnswers
  BY TypeParts, FaultCounts DEF UploadCrashes, Inv
<1>1. TypeOK'
  <2>1. UploadingType'
    BY <1>0, TypeParts, KeysTyped, MediaAssumption
       DEF UploadCrashes, EndedUpload, Inv, UploadingType, UploadCalls
  <2>2. (faults \in FaultRecords)'
    BY <1>f
  <2>3. MediaType' /\ ReceiptType' /\ SubmissionType' /\ JobType' /\ BindingType'
           /\ DerivingType' /\ WorkerType' /\ SweepType' /\ (objects \subseteq Keys)'
    BY <1>0, TypeParts
       DEF Inv, MediaType, ReceiptType, SubmissionType, JobType, BindingType, DerivingType,
       WorkerType, SweepType
  <2> QED
    BY <2>1, <2>2, <2>3, TypeParts, PTL
<1>2. /\ \A v \in Uploads, n \in Tries : <<v, n>> # <<u, t>> => uploading'[<<v, n>>] = uploading[<<v, n>>]
      /\ uploading[<<u, t>>].pc \in {"staged", "discard"}
      /\ uploading'[<<u, t>>].pc = "ended"
      /\ faults.lostAnswers \subseteq faults'.lostAnswers
  BY <1>0, <1>f, TypeParts DEF UploadCrashes, EndedUpload, Inv, UploadingType
<1>s. \A v \in Uploads : \A k : Settled(v, k) => Settled(v, k)'
  BY <1>0, <1>2 DEF Settled, Over
<1>3. RowKeys'
  BY <1>0, <1>2, <1>s DEF Inv, RowKeys
<1>4. JobsFollowRows'
  BY <1>0, <1>2, <1>s DEF Inv, JobsFollowRows
<1>5. PromotedRowsSettle'
  BY <1>0, <1>2 DEF Inv, PromotedRowsSettle, WorkersHoldJobs
<1>6. TriesHoldBytes'
  BY <1>0, <1>2 DEF Inv, TriesHoldBytes
<1>7. StoreMatchesRows'
  BY <1>0, <1>2 DEF Inv, StoreMatchesRows, PrivateRowsHaveBytes, DeletedRowsHaveNoBytes
<1>8. DestinationHasOneWriter'
  BY <1>0, <1>2 DEF Inv, DestinationHasOneWriter, WorkersHoldJobs
<1> QED
  BY <1>0, <1>f, <1>1, <1>3, <1>4, <1>5, <1>6, <1>7, <1>8, KeepWorkersHoldJobs, KeepSweepsHoldExpired,
     KeepSourceLockIsHeld, KeepSubmissionsSpendReceipts, KeepOneSubmissionPerUpload,
     KeepPublicOnlyThroughApproval DEF Inv

\* A receipt that is still active belongs to no submission, so the upload
\* becomes part of one; the job pins the key the row has.
LEMMA CreatePrivateSubmissionStep ==
    ASSUME Inv, NEW s \in Submissions, NEW u \in Uploads,
           CreatePrivateSubmission(s, u)
    PROVE  Inv'
<1> USE MediaKinds
<1>0. UNCHANGED <<objects, bindings, uploading, deriving, worker, sweep, faults>>
  BY DEF CreatePrivateSubmission, databaseVars, DerivativeVars
<1>1. TypeOK'
  <2>1. MediaType'
    <3>1. MediaType /\ "promotion_pending" \in MediaStates
      BY TypeParts DEF Inv, MediaStates, DeletableStates
    <3>2. media' = [media EXCEPT ![u].state = "promotion_pending", ![u].version = @ + 1]
      BY DEF CreatePrivateSubmission
    <3> QED
      BY <3>1, <3>2, RowMoves
  <2>2. ReceiptType'
    BY <1>0, TypeParts, KeysTyped, MediaAssumption
       DEF CreatePrivateSubmission, ReceiptUsable, NewSubmission, PromotionJob, NoPromotion,
       Inv, MediaType, ReceiptType, SubmissionType, JobType, WorkerType, RowTypes, MediaStates,
       DeletableStates, JobStates
  <2>3. SubmissionType'
    BY <1>0, TypeParts, KeysTyped, MediaAssumption
       DEF CreatePrivateSubmission, ReceiptUsable, NewSubmission, PromotionJob, NoPromotion,
       Inv, MediaType, ReceiptType, SubmissionType, JobType, WorkerType, RowTypes, MediaStates,
       DeletableStates, JobStates
  <2>4. JobType'
    <3> DEFINE j == [NoPromotion EXCEPT !.state = "pending"]
               Jobs == [state : JobStates, attempts : 0 .. MaxAttempts,
                        owner : Workers \cup {NoKey}, lease : BOOLEAN, source : Keys]
    <3>1. media[u].key \in Keys
      BY TypeParts DEF Inv, MediaType, RowTypes
    <3>2. job' = [job EXCEPT ![u] = [j EXCEPT !.source = media[u].key]]
      BY DEF CreatePrivateSubmission, PromotionJob
    <3>3. NoPromotion \in Jobs
      BY MediaAssumption, KeysTyped DEF JobStates, NoPromotion
    <3>4. j \in Jobs
      BY <3>3 DEF JobStates
    <3> HIDE DEF j
    <3>5. [j EXCEPT !.source = media[u].key] \in Jobs
      BY <3>1, <3>4
    <3> QED
      BY <3>2, <3>5, TypeParts DEF Inv, JobType
  <2>5. BindingType' /\ UploadingType' /\ DerivingType' /\ WorkerType' /\ SweepType'
           /\ (objects \subseteq Keys)' /\ (faults \in FaultRecords)'
    BY <1>0, TypeParts DEF Inv, BindingType, UploadingType, DerivingType, WorkerType, SweepType
  <2> QED
    BY <2>1, <2>2, <2>3, <2>4, <2>5, TypeParts, PTL
<1>2. /\ \A x \in Media : x # u => media'[x] = media[x]
      /\ media'[u].state = "promotion_pending"
      /\ media'[u].key = media[u].key
      /\ media'[u].expired = media[u].expired
      /\ media[u].state = "staged" /\ ~media[u].expired
      /\ receipt[u].state = "active"
      /\ \A x \in Uploads : x # u => receipt'[x] = receipt[x]
      /\ receipt'[u].state = "consumed"
      /\ \A x \in Submissions : x # s => submission'[x] = submission[x]
      /\ submission[s].state = "none"
      /\ submission'[s].state = "received" /\ submission'[s].media = u
      /\ \A x \in Uploads : x # u => job'[x] = job[x]
      /\ job'[u].state = "pending" /\ job'[u].source = media[u].key
  BY <1>0, TypeParts
     DEF CreatePrivateSubmission, ReceiptUsable, NewSubmission, PromotionJob, NoPromotion, Inv,
     MediaType, ReceiptType, SubmissionType, JobType, RowTypes
<1>s. \A v \in Uploads : \A k : Settled(v, k) => Settled(v, k)'
  BY <1>0, KeepSettled
<1>3. RowKeys'
  BY <1>0, <1>2, <1>s DEF Inv, RowKeys
<1>4. JobsFollowRows'
  BY <1>0, <1>2, <1>s, KeyParts, SettledKeys DEF Inv, JobsFollowRows, RowKeys
<1>5. WorkersHoldJobs'
  BY <1>0, <1>2 DEF Inv, WorkersHoldJobs
<1>6. PromotedRowsSettle'
  BY <1>0, <1>2 DEF Inv, PromotedRowsSettle, WorkersHoldJobs
<1>7. SweepsHoldExpired'
  BY <1>0, <1>2 DEF Inv, SweepsHoldExpired, StillExpired
<1>8. SourceLockIsHeld'
  BY <1>0, <1>2, LockKeeps DEF Inv
<1>9. SubmissionsSpendReceipts'
  BY <1>0, <1>2 DEF Inv, SubmissionsSpendReceipts
<1>10. OneSubmissionPerUpload'
  BY <1>0, <1>2 DEF Inv, OneSubmissionPerUpload, SubmissionsSpendReceipts
<1>11. PublicOnlyThroughApproval'
  BY <1>0, <1>2 DEF Inv, PublicOnlyThroughApproval
<1>12. StoreMatchesRows'
  BY <1>0, <1>2 DEF Inv, StoreMatchesRows, PrivateRowsHaveBytes, DeletedRowsHaveNoBytes
<1>13. DestinationHasOneWriter'
  BY <1>0, <1>2 DEF Inv, DestinationHasOneWriter, WorkersHoldJobs
<1> QED
  BY <1>0, <1>1, <1>3, <1>4, <1>5, <1>6, <1>7, <1>8, <1>9, <1>10, <1>11, <1>12, <1>13,
     KeepTriesHoldBytes DEF Inv

\* A claim changes who may record a result, not what is stored.
LEMMA ClaimPromotionStep ==
    ASSUME Inv, NEW w \in Workers, NEW u \in Uploads,
           ClaimPromotion(w, u)
    PROVE  Inv'
<1> USE MediaKinds
<1>0. UNCHANGED <<objects, media, receipt, submission, bindings, uploading, deriving, sweep, faults>>
  BY DEF ClaimPromotion, databaseVars, DerivativeVars
<1>1. TypeOK'
  <2>1. JobType'
    <3> DEFINE leased == [job[u] EXCEPT !.state = "leased", !.owner = w, !.lease = TRUE]
               j == [leased EXCEPT !.attempts = NextAttempt(u)]
               Jobs == [state : JobStates, attempts : 0 .. MaxAttempts,
                        owner : Workers \cup {NoKey}, lease : BOOLEAN, source : Keys]
    <3>1. JobType /\ job[u] \in Jobs
      BY TypeParts DEF Inv, JobType
    <3>2. NextAttempt(u) \in 0 .. MaxAttempts
      BY <3>1, MediaAssumption DEF NextAttempt
    <3>3. job' = [job EXCEPT ![u] = j]
      BY DEF ClaimPromotion
    <3>4. leased \in Jobs
      BY <3>1 DEF JobStates
    <3> HIDE DEF leased
    <3>5. j \in Jobs
      BY <3>2, <3>4
    <3> HIDE DEF j
    <3> QED
      BY <3>1, <3>3, <3>5 DEF JobType
  <2>2. WorkerType'
    BY <1>0, TypeParts, KeysTyped, MediaAssumption
       DEF ClaimPromotion, Promotable, NextAttempt, Inv, WorkersHoldJobs, JobType, WorkerType,
       JobStates
  <2>3. MediaType' /\ ReceiptType' /\ SubmissionType' /\ BindingType' /\ UploadingType'
           /\ DerivingType' /\ SweepType' /\ (objects \subseteq Keys)'
           /\ (faults \in FaultRecords)'
    BY <1>0, TypeParts
       DEF Inv, MediaType, ReceiptType, SubmissionType, BindingType, UploadingType,
       DerivingType, SweepType
  <2> QED
    BY <2>1, <2>2, <2>3, TypeParts, PTL
<1>2. /\ worker[w].pc = "idle"
      /\ job[u].state \in {"pending", "leased"}
      /\ \A x \in Uploads : x # u => job'[x] = job[x]
      /\ job'[u].state = "leased"
      /\ job'[u].source = job[u].source
      /\ \A x \in Workers : x # w => worker'[x] = worker[x]
      /\ worker'[w].pc = "read" /\ worker'[w].media = u
  BY <1>0, TypeParts DEF ClaimPromotion, Promotable, NextAttempt, Inv, JobType, WorkerType
<1>s. \A v \in Uploads : \A k : Settled(v, k) => Settled(v, k)'
  BY <1>0, KeepSettled
<1>3. JobsFollowRows'
  BY <1>0, <1>2, <1>s DEF Inv, JobsFollowRows
<1>4. WorkersHoldJobs'
  BY <1>0, <1>2 DEF Inv, WorkersHoldJobs
<1>5. PromotedRowsSettle'
  <2>1. media[u].key # DurableKey(u)
    BY <1>2, RowsNameOwnKeys DEF Inv, JobsFollowRows
  <2> QED
    BY <1>0, <1>2, <2>1 DEF Inv, PromotedRowsSettle
<1>6. DestinationHasOneWriter'
  BY <1>0, <1>2 DEF Inv, DestinationHasOneWriter, WorkersHoldJobs
<1> QED
  BY <1>0, <1>1, <1>3, <1>4, <1>5, <1>6, KeepRowKeys, KeepSweepsHoldExpired, KeepTriesHoldBytes,
     KeepSourceLockIsHeld, KeepSubmissionsSpendReceipts, KeepOneSubmissionPerUpload,
     KeepPublicOnlyThroughApproval, KeepStoreMatchesRows DEF Inv

\* Reading decides only where the worker goes on.
LEMMA ReadSourceStep ==
    ASSUME Inv, NEW w \in Workers,
           ReadSource(w)
    PROVE  Inv'
<1> USE MediaKinds
<1>0. UNCHANGED <<objects, media, receipt, submission, job, bindings, uploading, deriving, sweep, faults>>
  BY DEF ReadSource, databaseVars, DerivativeVars
<1>1. TypeOK'
  <2>1. WorkerType'
    BY <1>0, TypeParts, KeysTyped, MediaAssumption
       DEF ReadSource, Inv, WorkersHoldJobs, WorkerType, JobType, JobStates
  <2>2. MediaType' /\ ReceiptType' /\ SubmissionType' /\ JobType' /\ BindingType'
           /\ UploadingType' /\ DerivingType' /\ SweepType' /\ (objects \subseteq Keys)'
           /\ (faults \in FaultRecords)'
    BY <1>0, TypeParts
       DEF Inv, MediaType, ReceiptType, SubmissionType, JobType, BindingType, UploadingType,
       DerivingType, SweepType
  <2> QED
    BY <2>1, <2>2, TypeParts, PTL
<1>2. /\ worker[w].pc = "read"
      /\ \A x \in Workers : x # w => worker'[x] = worker[x]
      /\ worker'[w].pc \in {"write", "fail"}
      /\ worker'[w].media = worker[w].media
  BY <1>0, TypeParts DEF ReadSource, Inv, WorkerType
<1>3. WorkersHoldJobs'
  BY <1>0, <1>2 DEF Inv, WorkersHoldJobs
<1>4. PromotedRowsSettle'
  BY <1>0, <1>2 DEF Inv, PromotedRowsSettle, WorkersHoldJobs
<1>5. DestinationHasOneWriter'
  BY <1>0, <1>2 DEF Inv, DestinationHasOneWriter, WorkersHoldJobs
<1> QED
  BY <1>0, <1>1, <1>3, <1>4, <1>5, KeepRowKeys, KeepJobsFollowRows, KeepSweepsHoldExpired,
     KeepTriesHoldBytes, KeepSourceLockIsHeld, KeepSubmissionsSpendReceipts,
     KeepOneSubmissionPerUpload, KeepPublicOnlyThroughApproval, KeepStoreMatchesRows DEF Inv

\* The store refuses a second object under a key, and a promoted row without
\* bytes is one that lost its answer; so the writer is the only one.
LEMMA WriteDestinationStep ==
    ASSUME Inv, NEW w \in Workers,
           WriteDestination(w)
    PROVE  Inv'
<1> USE MediaKinds
<1>0. UNCHANGED <<media, receipt, submission, job, bindings, uploading, deriving, sweep, faults>>
  BY DEF WriteDestination, databaseVars, DerivativeVars
<1>1. TypeOK'
  <2>1. WorkerType'
    BY <1>0, TypeParts, KeysTyped, MediaAssumption
       DEF WriteDestination, Writable, Inv, WorkersHoldJobs, WorkerType, JobType, JobStates
  <2>2. (objects \subseteq Keys)'
    BY <1>0, TypeParts, KeysTyped, MediaAssumption
       DEF WriteDestination, Writable, Inv, WorkersHoldJobs, WorkerType, JobType, JobStates
  <2>3. MediaType' /\ ReceiptType' /\ SubmissionType' /\ JobType' /\ BindingType'
           /\ UploadingType' /\ DerivingType' /\ SweepType' /\ (faults \in FaultRecords)'
    BY <1>0, TypeParts
       DEF Inv, MediaType, ReceiptType, SubmissionType, JobType, BindingType, UploadingType,
       DerivingType, SweepType
  <2> QED
    BY <2>1, <2>2, <2>3, TypeParts, PTL
<1>2. /\ worker[w].pc = "write"
      /\ \A x \in Workers : x # w => worker'[x] = worker[x]
      /\ worker'[w].media = worker[w].media
      /\ \/ /\ DurableKey(worker[w].media) \notin objects /\ worker'[w].pc = "finalize"
            /\ objects' = objects \cup {DurableKey(worker[w].media)}
         \/ worker'[w].pc = "fail" /\ objects' = objects
  <2>1. WorkerType
    BY TypeParts DEF Inv
  <2>2. CASE Writable(DurableKey(worker[w].media))
    BY <2>1, <2>2 DEF WriteDestination, Writable, WorkerType
  <2>3. CASE ~Writable(DurableKey(worker[w].media))
    BY <2>1, <2>3 DEF WriteDestination, WorkerType
  <2> QED
    BY <2>2, <2>3
<1>3. WorkersHoldJobs'
  BY <1>0, <1>2 DEF Inv, WorkersHoldJobs
<1>4. PromotedRowsSettle'
  BY <1>0, <1>2 DEF Inv, PromotedRowsSettle, WorkersHoldJobs
<1>5. SweepsHoldExpired'
  <2>1. \A m \in Media : media[m].state # "none" /\ media[m].expired =>
                          media[m].key # DurableKey(worker[w].media)
    BY <1>2, KeyParts, SettledKeys DEF Inv, RowKeys, PromotedRowsSettle, WorkersHoldJobs
  <2> QED
    BY <1>0, <1>2, <2>1 DEF Inv, SweepsHoldExpired, StillExpired
<1>6. TriesHoldBytes'
  BY <1>0, <1>2 DEF Inv, TriesHoldBytes
<1>7. StoreMatchesRows'
  BY <1>0, <1>2, KeyParts, SettledKeys
     DEF Inv, StoreMatchesRows, PrivateRowsHaveBytes, DeletedRowsHaveNoBytes, RowKeys,
     PromotedRowsSettle, WorkersHoldJobs
<1>8. DestinationHasOneWriter'
  <2>1. ASSUME DurableKey(worker[w].media) \notin objects
        PROVE  /\ media[worker[w].media].key # DurableKey(worker[w].media) \/ worker[w].media \in faults.lostAnswers
               /\ \A v \in Workers : worker[v].media = worker[w].media =>
                     worker[v].pc \notin {"finalize", "remove_destination"}
    BY <1>2, <2>1 DEF Inv, WorkersHoldJobs, PromotedRowsSettle
  <2> QED
    BY <1>0, <1>2, <2>1 DEF Inv, DestinationHasOneWriter
<1> QED
  BY <1>0, <1>1, <1>3, <1>4, <1>5, <1>6, <1>7, <1>8, KeepRowKeys, KeepJobsFollowRows,
     KeepSourceLockIsHeld, KeepSubmissionsSpendReceipts, KeepOneSubmissionPerUpload,
     KeepPublicOnlyThroughApproval DEF Inv

\* Bytes written by a worker that does not know it belong to no row and to no
\* worker.
LEMMA WriteAnswerLostStep ==
    ASSUME Inv, NEW w \in Workers,
           WriteAnswerLost(w)
    PROVE  Inv'
<1> USE MediaKinds
<1>0. UNCHANGED <<media, receipt, submission, job, bindings, uploading, deriving, sweep>>
  BY DEF WriteAnswerLost, databaseVars, DerivativeVars
<1>f. faults' \in FaultRecords /\ faults.lostAnswers \subseteq faults'.lostAnswers
  BY TypeParts, FaultCounts DEF WriteAnswerLost, Inv
<1>1. TypeOK'
  <2>1. WorkerType'
    BY <1>0, TypeParts, KeysTyped, MediaAssumption
       DEF WriteAnswerLost, Writable, Inv, WorkersHoldJobs, WorkerType, JobType,
       JobStates
  <2>2. (objects \subseteq Keys)'
    BY <1>0, TypeParts, KeysTyped, MediaAssumption
       DEF WriteAnswerLost, Writable, Inv, WorkersHoldJobs, WorkerType, JobType,
       JobStates
  <2>3. (faults \in FaultRecords)'
    BY <1>f
  <2>4. MediaType' /\ ReceiptType' /\ SubmissionType' /\ JobType' /\ BindingType'
           /\ UploadingType' /\ DerivingType' /\ SweepType'
    BY <1>0, TypeParts
       DEF Inv, MediaType, ReceiptType, SubmissionType, JobType, BindingType, UploadingType,
       DerivingType, SweepType
  <2> QED
    BY <2>1, <2>2, <2>3, <2>4, TypeParts, PTL
<1>2. /\ worker[w].pc = "write"
      /\ \A x \in Workers : x # w => worker'[x] = worker[x]
      /\ worker'[w].media = worker[w].media
      /\ DurableKey(worker[w].media) \notin objects
      /\ worker'[w].pc = "fail"
      /\ objects' = objects \cup {DurableKey(worker[w].media)}
      /\ faults.lostAnswers \subseteq faults'.lostAnswers
  BY <1>0, <1>f, TypeParts DEF WriteAnswerLost, Writable, Inv, WorkerType
<1>3. WorkersHoldJobs'
  BY <1>0, <1>2 DEF Inv, WorkersHoldJobs
<1>4. PromotedRowsSettle'
  BY <1>0, <1>2 DEF Inv, PromotedRowsSettle, WorkersHoldJobs
<1>5. SweepsHoldExpired'
  <2>1. \A m \in Media : media[m].state # "none" /\ media[m].expired =>
                          media[m].key # DurableKey(worker[w].media)
    BY <1>2, KeyParts, SettledKeys DEF Inv, RowKeys, PromotedRowsSettle, WorkersHoldJobs
  <2> QED
    BY <1>0, <1>2, <2>1 DEF Inv, SweepsHoldExpired, StillExpired
<1>6. TriesHoldBytes'
  BY <1>0, <1>2 DEF Inv, TriesHoldBytes
<1>7. StoreMatchesRows'
  BY <1>0, <1>2, KeyParts, SettledKeys
     DEF Inv, StoreMatchesRows, PrivateRowsHaveBytes, DeletedRowsHaveNoBytes, RowKeys,
     PromotedRowsSettle, WorkersHoldJobs
<1>8. DestinationHasOneWriter'
  BY <1>0, <1>2 DEF Inv, DestinationHasOneWriter, WorkersHoldJobs, PromotedRowsSettle
<1> QED
  BY <1>0, <1>f, <1>1, <1>3, <1>4, <1>5, <1>6, <1>7, <1>8, KeepRowKeys, KeepJobsFollowRows,
     KeepSourceLockIsHeld, KeepSubmissionsSpendReceipts, KeepOneSubmissionPerUpload,
     KeepPublicOnlyThroughApproval DEF Inv

\* What the failed verification removes belonged to this worker alone.
LEMMA VerifyFailsStep ==
    ASSUME Inv, NEW w \in Workers,
           VerifyFails(w)
    PROVE  Inv'
<1> USE MediaKinds
<1>0. UNCHANGED <<media, receipt, submission, job, bindings, uploading, deriving, sweep>>
  BY DEF VerifyFails, databaseVars, DerivativeVars
<1>f. faults' \in FaultRecords /\ faults.lostAnswers \subseteq faults'.lostAnswers
  BY TypeParts, FaultCounts DEF VerifyFails, Inv
<1>1. TypeOK'
  <2>1. WorkerType'
    BY <1>0, TypeParts, KeysTyped, MediaAssumption
       DEF VerifyFails, Inv, WorkersHoldJobs, WorkerType, JobType, JobStates
  <2>2. (objects \subseteq Keys)'
    BY <1>0, TypeParts, KeysTyped, MediaAssumption
       DEF VerifyFails, Inv, WorkersHoldJobs, WorkerType, JobType, JobStates
  <2>3. (faults \in FaultRecords)'
    BY <1>f
  <2>4. MediaType' /\ ReceiptType' /\ SubmissionType' /\ JobType' /\ BindingType'
           /\ UploadingType' /\ DerivingType' /\ SweepType'
    BY <1>0, TypeParts
       DEF Inv, MediaType, ReceiptType, SubmissionType, JobType, BindingType, UploadingType,
       DerivingType, SweepType
  <2> QED
    BY <2>1, <2>2, <2>3, <2>4, TypeParts, PTL
<1>2. /\ worker[w].pc = "finalize"
      /\ \A x \in Workers : x # w => worker'[x] = worker[x]
      /\ worker'[w].media = worker[w].media
      /\ worker'[w].pc = "fail"
      /\ objects' = objects \ {DurableKey(worker[w].media)}
      /\ faults.lostAnswers \subseteq faults'.lostAnswers
  BY <1>0, <1>f, TypeParts DEF VerifyFails, Inv, WorkerType
<1>3. WorkersHoldJobs'
  BY <1>0, <1>2, KeyParts, SettledKeys DEF Inv, WorkersHoldJobs, RowKeys,
     DestinationHasOneWriter
<1>4. PromotedRowsSettle'
  BY <1>0, <1>2, KeyParts, SettledKeys
     DEF Inv, PromotedRowsSettle, WorkersHoldJobs, RowKeys, DestinationHasOneWriter
<1>5. SweepsHoldExpired'
  BY <1>0, <1>2 DEF Inv, SweepsHoldExpired, StillExpired
<1>6. TriesHoldBytes'
  <2>1. \A v, n : StagingKey(v, n) # DurableKey(worker[w].media)
    BY KeyParts
  <2> QED
    BY <1>0, <1>2, <2>1 DEF Inv, TriesHoldBytes
<1>7. StoreMatchesRows'
  BY <1>0, <1>2, KeyParts, SettledKeys
     DEF Inv, StoreMatchesRows, PrivateRowsHaveBytes, DeletedRowsHaveNoBytes, RowKeys,
     WorkersHoldJobs, DestinationHasOneWriter
<1>8. DestinationHasOneWriter'
  BY <1>0, <1>2 DEF Inv, DestinationHasOneWriter, WorkersHoldJobs
<1> QED
  BY <1>0, <1>f, <1>1, <1>3, <1>4, <1>5, <1>6, <1>7, <1>8, KeepRowKeys, KeepJobsFollowRows,
     KeepSourceLockIsHeld, KeepSubmissionsSpendReceipts, KeepOneSubmissionPerUpload,
     KeepPublicOnlyThroughApproval DEF Inv

\* A promotion that commits: its worker goes on to remove the source, or,
\* where the answer was lost, the destination.
LEMMA PromotionStep ==
    ASSUME Inv, NEW w \in Workers, worker[w].pc = "finalize",
           MayFinalize(w), Promoted(worker[w].media),
           NEW p \in {"remove_source", "remove_destination"},
           worker' = [worker EXCEPT ![w].pc = p],
           UNCHANGED <<objects, receipt, submission, bindings, uploading, deriving, sweep>>,
           faults.lostAnswers \subseteq faults'.lostAnswers, faults' \in FaultRecords,
           p = "remove_destination" => worker[w].media \in faults'.lostAnswers
    PROVE  Inv'
<1> USE MediaKinds
<1> DEFINE u == worker[w].media
<1>0. /\ u \in Uploads /\ DurableKey(u) \in objects
      /\ job[u].state = "leased" /\ media[u].state = "promotion_pending"
  BY DEF Inv, WorkersHoldJobs, MayFinalize, HoldsPromotionLease
<1>m. /\ MediaType' /\ \A x \in Media : x # u => media'[x] = media[x]
      /\ media'[u].state = "quarantined" /\ media'[u].key = DurableKey(u) /\ ~media'[u].expired
  <2> DEFINE moved == [media[u] EXCEPT !.state = "quarantined", !.key = DurableKey(u)]
             n == media[u].version + 1
             r == [moved EXCEPT !.version = n, !.expired = FALSE]
  <2>1. MediaType /\ media[u] \in RowTypes
    BY <1>0, TypeParts DEF Inv, MediaType
  <2>2. n \in Nat
    BY <2>1 DEF RowTypes
  <2>3. moved \in RowTypes /\ moved.state = "quarantined" /\ moved.key = DurableKey(u)
    BY <1>0, <2>1, KeysTyped DEF RowTypes, MediaStates, DeletableStates
  <2>4. media' = [media EXCEPT ![u] = r]
    BY DEF Promoted
  <2> HIDE DEF moved, n, u
  <2>5. r \in RowTypes /\ r.state = "quarantined" /\ r.key = DurableKey(u) /\ ~r.expired
    BY <2>2, <2>3 DEF RowTypes
  <2> HIDE DEF r
  <2>6. u \in Media
    BY <1>0
  <2>7. /\ MediaType' /\ media'[u] = r
        /\ \A x \in Media : x # u => media'[x] = media[x]
    BY <2>1, <2>4, <2>5, <2>6, RowChanges
  <2> QED
    BY <2>5, <2>7, Zenon
<1>j. /\ JobType' /\ \A x \in Uploads : x # u => job'[x] = job[x]
      /\ job'[u].state = "confirmed" /\ job'[u].source = job[u].source
  <2>1. JobType
           /\ job' = [job EXCEPT ![u].state = "confirmed", ![u].owner = NoKey, ![u].lease = FALSE]
    BY TypeParts DEF Inv, Promoted
  <2> HIDE DEF u
  <2> QED
    BY <1>0, <2>1, JobMoves DEF JobStates
<1>w. /\ WorkerType' /\ \A x \in Workers : x # w => worker'[x] = worker[x]
      /\ worker'[w].pc = p /\ worker'[w].media = u
  BY TypeParts DEF Inv, WorkerType
<1> HIDE DEF u
<1>1. TypeOK'
  <2>1. ReceiptType' /\ SubmissionType' /\ BindingType' /\ UploadingType' /\ DerivingType'
           /\ SweepType' /\ (objects \subseteq Keys)'
    BY TypeParts
       DEF Inv, ReceiptType, SubmissionType, BindingType, UploadingType, DerivingType, SweepType
  <2>2. (faults \in FaultRecords)'
    OBVIOUS
  <2> QED
    BY <1>m, <1>j, <1>w, <2>1, <2>2, TypeParts, PTL
<1>s. \A v \in Uploads : \A k : Settled(v, k) => Settled(v, k)'
  BY KeepSettled
<1>3. RowKeys'
  BY <1>0, <1>m, <1>s DEF Inv, RowKeys
<1>4. JobsFollowRows'
  BY <1>0, <1>m, <1>j, <1>s DEF Inv, JobsFollowRows
<1>f. worker[w].pc = "finalize" /\ worker[w].media = u
  BY DEF u
<1>5. WorkersHoldJobs'
  BY <1>0, <1>m, <1>j, <1>w, <1>f DEF Inv, WorkersHoldJobs
<1>6. PromotedRowsSettle'
  <2>1. \A v \in Workers : worker'[v].media = worker[v].media
    BY <1>w, <1>f
  <2> QED
    BY <1>0, <1>m, <2>1 DEF Inv, PromotedRowsSettle
<1>7. SweepsHoldExpired'
  BY <1>0, <1>m DEF Inv, SweepsHoldExpired, StillExpired
<1>8. SourceLockIsHeld'
  BY <1>0, <1>m, LockKeeps DEF Inv
<1>9. SubmissionsSpendReceipts'
  BY <1>0, <1>m DEF Inv, SubmissionsSpendReceipts
<1>10. PublicOnlyThroughApproval'
  BY <1>0, <1>m DEF Inv, PublicOnlyThroughApproval
<1>11. StoreMatchesRows'
  BY <1>0, <1>m DEF Inv, StoreMatchesRows, PrivateRowsHaveBytes, DeletedRowsHaveNoBytes
<1>12. DestinationHasOneWriter'
  BY <1>0, <1>m, <1>w, <1>f DEF Inv, DestinationHasOneWriter, WorkersHoldJobs
<1> QED
  BY <1>1, <1>3, <1>4, <1>5, <1>6, <1>7, <1>8, <1>9, <1>10, <1>11, <1>12, KeepTriesHoldBytes,
     KeepOneSubmissionPerUpload DEF Inv

\* A worker that wrote its destination gives up.
LEMMA AbandonStep ==
    ASSUME Inv, NEW w \in Workers, worker[w].pc = "finalize",
           worker' = [worker EXCEPT ![w].pc = "remove_destination"],
           UNCHANGED <<objects, media, receipt, submission, job, bindings, uploading, deriving, sweep>>,
           faults.lostAnswers \subseteq faults'.lostAnswers, faults' \in FaultRecords
    PROVE  Inv'
<1> USE MediaKinds
<1>1. TypeOK'
  <2>1. WorkerType'
    BY TypeParts DEF Inv, WorkerType
  <2>2. MediaType' /\ ReceiptType' /\ SubmissionType' /\ JobType' /\ BindingType'
           /\ UploadingType' /\ DerivingType' /\ SweepType' /\ (objects \subseteq Keys)'
    BY TypeParts
       DEF Inv, MediaType, ReceiptType, SubmissionType, JobType, BindingType, UploadingType,
       DerivingType, SweepType
  <2>3. (faults \in FaultRecords)'
    OBVIOUS
  <2> QED
    BY <2>1, <2>2, <2>3, TypeParts, PTL
<1>2. /\ \A x \in Workers : x # w => worker'[x] = worker[x]
      /\ worker'[w].pc = "remove_destination" /\ worker'[w].media = worker[w].media
  BY TypeParts DEF Inv, WorkerType
<1>3. WorkersHoldJobs'
  BY <1>2 DEF Inv, WorkersHoldJobs
<1>4. PromotedRowsSettle'
  BY <1>2 DEF Inv, PromotedRowsSettle, WorkersHoldJobs
<1>5. StoreMatchesRows'
  BY DEF Inv, StoreMatchesRows, PrivateRowsHaveBytes, DeletedRowsHaveNoBytes
<1>6. DestinationHasOneWriter'
  BY <1>2 DEF Inv, DestinationHasOneWriter, WorkersHoldJobs
<1> QED
  BY <1>1, <1>3, <1>4, <1>5, <1>6, KeepRowKeys, KeepJobsFollowRows, KeepSweepsHoldExpired,
     KeepTriesHoldBytes, KeepSourceLockIsHeld, KeepSubmissionsSpendReceipts,
     KeepOneSubmissionPerUpload, KeepPublicOnlyThroughApproval DEF Inv

\* The row takes the durable key of the one worker that wrote it; a worker
\* that came too late removes what is its own.
LEMMA FinalizePromotionStep ==
    ASSUME Inv, NEW w \in Workers, FinalizePromotion(w)
    PROVE  Inv'
<1>1. /\ worker[w].pc = "finalize" /\ faults \in FaultRecords
      /\ UNCHANGED <<objects, receipt, submission, bindings, uploading, deriving, sweep, faults>>
  BY TypeParts DEF FinalizePromotion, Inv
<1>2. CASE MayFinalize(w)
  <2>1. Promoted(worker[w].media) /\ worker' = [worker EXCEPT ![w].pc = "remove_source"]
    BY <1>2 DEF FinalizePromotion
  <2> QED
    BY <1>1, <1>2, <2>1, PromotionStep
<1>3. CASE ~MayFinalize(w)
  <2>1. worker' = [worker EXCEPT ![w].pc = "remove_destination"] /\ UNCHANGED <<media, job>>
    BY <1>3 DEF FinalizePromotion
  <2> QED
    BY <1>1, <2>1, AbandonStep
<1> QED
  BY <1>2, <1>3

\* A failed transaction changes no row: the bytes stay the worker's to
\* remove.
LEMMA FinalizeFailsStep ==
    ASSUME Inv, NEW w \in Workers, FinalizeFails(w)
    PROVE  Inv'
<1>1. /\ worker[w].pc = "finalize" /\ faults \in FaultRecords
      /\ worker' = [worker EXCEPT ![w].pc = "remove_destination"]
      /\ faults.lostAnswers \subseteq faults'.lostAnswers /\ faults' \in FaultRecords
      /\ UNCHANGED <<objects, media, receipt, submission, job, bindings, uploading, deriving, sweep>>
  BY TypeParts, FaultCounts DEF FinalizeFails, databaseVars, Inv
<1> QED
  BY <1>1, AbandonStep

\* The one step after which bytes of a promoted row may go: the lost answer is
\* written down against its row.
LEMMA FinalizeAnswerLostStep ==
    ASSUME Inv, NEW w \in Workers, FinalizeAnswerLost(w)
    PROVE  Inv'
<1>1. /\ worker[w].pc = "finalize" /\ MayFinalize(w) /\ Promoted(worker[w].media)
      /\ worker' = [worker EXCEPT ![w].pc = "remove_destination"]
      /\ LosesAnswer(worker[w].media)
      /\ UNCHANGED <<objects, receipt, submission, bindings, uploading, deriving, sweep>>
  BY DEF FinalizeAnswerLost
<1>2. worker[w].media \in Media
  BY <1>1, MediaKinds DEF Inv, WorkersHoldJobs
<1>3. /\ faults' \in FaultRecords /\ faults.lostAnswers \subseteq faults'.lostAnswers
      /\ worker[w].media \in faults'.lostAnswers
  BY <1>1, <1>2, TypeParts, FaultCounts DEF Inv
<1> QED
  BY <1>1, <1>3, PromotionStep

\* What a worker removes at the durable key is named by no row, or by the row
\* whose answer was lost.
LEMMA RemoveDestinationStep ==
    ASSUME Inv, NEW w \in Workers,
           RemoveDestination(w)
    PROVE  Inv'
<1> USE MediaKinds
<1>0. UNCHANGED <<media, receipt, submission, job, bindings, uploading, deriving, sweep, faults>>
  BY DEF RemoveDestination, databaseVars, DerivativeVars
<1>1. TypeOK'
  <2>1. WorkerType'
    BY <1>0, TypeParts, KeysTyped, MediaAssumption
       DEF RemoveDestination, IdleWorker, Inv, WorkersHoldJobs, WorkerType, JobType, JobStates
  <2>2. (objects \subseteq Keys)'
    BY <1>0, TypeParts, KeysTyped, MediaAssumption
       DEF RemoveDestination, IdleWorker, Inv, WorkersHoldJobs, WorkerType, JobType, JobStates
  <2>3. MediaType' /\ ReceiptType' /\ SubmissionType' /\ JobType' /\ BindingType'
           /\ UploadingType' /\ DerivingType' /\ SweepType' /\ (faults \in FaultRecords)'
    BY <1>0, TypeParts
       DEF Inv, MediaType, ReceiptType, SubmissionType, JobType, BindingType, UploadingType,
       DerivingType, SweepType
  <2> QED
    BY <2>1, <2>2, <2>3, TypeParts, PTL
<1>2. /\ worker[w].pc = "remove_destination"
      /\ objects' = objects \ {DurableKey(worker[w].media)}
      /\ \A x \in Workers : x # w => worker'[x] = worker[x]
      /\ worker'[w].pc = "idle" /\ worker'[w].media = NoKey
  BY <1>0, TypeParts DEF RemoveDestination, IdleWorker, Inv, WorkerType
<1>3. WorkersHoldJobs'
  BY <1>0, <1>2, KeyParts, SettledKeys DEF Inv, WorkersHoldJobs, RowKeys,
     DestinationHasOneWriter
<1>4. PromotedRowsSettle'
  BY <1>0, <1>2, KeyParts, SettledKeys
     DEF Inv, PromotedRowsSettle, WorkersHoldJobs, RowKeys, DestinationHasOneWriter
<1>5. SweepsHoldExpired'
  BY <1>0, <1>2 DEF Inv, SweepsHoldExpired, StillExpired
<1>6. TriesHoldBytes'
  <2>1. \A v, n : StagingKey(v, n) # DurableKey(worker[w].media)
    BY KeyParts
  <2> QED
    BY <1>0, <1>2, <2>1 DEF Inv, TriesHoldBytes
<1>7. StoreMatchesRows'
  BY <1>0, <1>2, KeyParts, SettledKeys
     DEF Inv, StoreMatchesRows, PrivateRowsHaveBytes, DeletedRowsHaveNoBytes, RowKeys,
     WorkersHoldJobs, DestinationHasOneWriter
<1>8. DestinationHasOneWriter'
  BY <1>0, <1>2 DEF Inv, DestinationHasOneWriter, WorkersHoldJobs
<1> QED
  BY <1>0, <1>1, <1>3, <1>4, <1>5, <1>6, <1>7, <1>8, KeepRowKeys, KeepJobsFollowRows,
     KeepSourceLockIsHeld, KeepSubmissionsSpendReceipts, KeepOneSubmissionPerUpload,
     KeepPublicOnlyThroughApproval DEF Inv

\* The source is removed by a worker whose row has moved to its durable key.
LEMMA RemoveSourceStep ==
    ASSUME Inv, NEW w \in Workers,
           RemoveSource(w)
    PROVE  Inv'
<1> USE MediaKinds
<1>0. UNCHANGED <<media, receipt, submission, job, bindings, uploading, deriving, sweep, faults>>
  BY DEF RemoveSource, databaseVars, DerivativeVars
<1>1. TypeOK'
  <2>1. WorkerType'
    BY <1>0, TypeParts, KeysTyped, MediaAssumption
       DEF RemoveSource, IdleWorker, Inv, WorkersHoldJobs, WorkerType, JobType, JobStates
  <2>2. (objects \subseteq Keys)'
    BY <1>0, TypeParts, KeysTyped, MediaAssumption
       DEF RemoveSource, IdleWorker, Inv, WorkersHoldJobs, WorkerType, JobType, JobStates
  <2>3. MediaType' /\ ReceiptType' /\ SubmissionType' /\ JobType' /\ BindingType'
           /\ UploadingType' /\ DerivingType' /\ SweepType' /\ (faults \in FaultRecords)'
    BY <1>0, TypeParts
       DEF Inv, MediaType, ReceiptType, SubmissionType, JobType, BindingType, UploadingType,
       DerivingType, SweepType
  <2> QED
    BY <2>1, <2>2, <2>3, TypeParts, PTL
<1>2. /\ worker[w].pc = "remove_source"
      /\ objects' = objects \ {job[worker[w].media].source}
      /\ \A x \in Workers : x # w => worker'[x] = worker[x]
      /\ worker'[w].pc = "idle" /\ worker'[w].media = NoKey
  BY <1>0, TypeParts DEF RemoveSource, IdleWorker, Inv, WorkerType
<1>3. WorkersHoldJobs'
  BY <1>0, <1>2, KeyParts, SettledKeys DEF Inv, WorkersHoldJobs, RowKeys, JobsFollowRows
<1>4. PromotedRowsSettle'
  BY <1>0, <1>2, KeyParts, SettledKeys
     DEF Inv, PromotedRowsSettle, WorkersHoldJobs, RowKeys, JobsFollowRows
<1>5. SweepsHoldExpired'
  BY <1>0, <1>2 DEF Inv, SweepsHoldExpired, StillExpired
<1>6. TriesHoldBytes'
  <2>1. \A v, t : job[worker[w].media].source = StagingKey(v, t) => uploading[<<v, t>>].pc # "staged"
    BY <1>2, JobsNameSettledKeys DEF Inv, WorkersHoldJobs, Over
  <2> QED
    BY <1>0, <1>2, <2>1 DEF Inv, TriesHoldBytes
<1>7. StoreMatchesRows'
  BY <1>0, <1>2, KeyParts, SettledKeys
     DEF Inv, StoreMatchesRows, PrivateRowsHaveBytes, DeletedRowsHaveNoBytes, RowKeys,
     WorkersHoldJobs, JobsFollowRows
<1>8. DestinationHasOneWriter'
  BY <1>0, <1>2 DEF Inv, DestinationHasOneWriter, WorkersHoldJobs
<1> QED
  BY <1>0, <1>1, <1>3, <1>4, <1>5, <1>6, <1>7, <1>8, KeepRowKeys, KeepJobsFollowRows,
     KeepSourceLockIsHeld, KeepSubmissionsSpendReceipts, KeepOneSubmissionPerUpload,
     KeepPublicOnlyThroughApproval DEF Inv

\* A worker ends, by itself or not.
LEMMA WorkerEndsStep ==
    ASSUME Inv, NEW w \in Workers, worker' = [worker EXCEPT ![w] = IdleWorker],
           UNCHANGED <<objects, media, receipt, submission, job, bindings, uploading, deriving, sweep>>,
           faults.lostAnswers \subseteq faults'.lostAnswers, faults' \in FaultRecords
    PROVE  Inv'
<1> USE MediaKinds
<1>1. TypeOK'
  <2>1. WorkerType'
    BY TypeParts, MediaAssumption DEF Inv, WorkerType, IdleWorker
  <2>2. MediaType' /\ ReceiptType' /\ SubmissionType' /\ JobType' /\ BindingType'
           /\ UploadingType' /\ DerivingType' /\ SweepType' /\ (objects \subseteq Keys)'
    BY TypeParts
       DEF Inv, MediaType, ReceiptType, SubmissionType, JobType, BindingType, UploadingType,
       DerivingType, SweepType
  <2>3. (faults \in FaultRecords)'
    OBVIOUS
  <2> QED
    BY <2>1, <2>2, <2>3, TypeParts, PTL
<1>2. /\ \A x \in Workers : x # w => worker'[x] = worker[x]
      /\ worker'[w].pc = "idle" /\ worker'[w].media = NoKey
  BY TypeParts DEF Inv, WorkerType, IdleWorker
<1>3. WorkersHoldJobs'
  BY <1>2 DEF Inv, WorkersHoldJobs
<1>4. PromotedRowsSettle'
  BY <1>2 DEF Inv, PromotedRowsSettle, WorkersHoldJobs
<1>5. StoreMatchesRows'
  BY DEF Inv, StoreMatchesRows, PrivateRowsHaveBytes, DeletedRowsHaveNoBytes
<1>6. DestinationHasOneWriter'
  BY <1>2 DEF Inv, DestinationHasOneWriter, WorkersHoldJobs
<1> QED
  BY <1>1, <1>3, <1>4, <1>5, <1>6, KeepRowKeys, KeepJobsFollowRows, KeepSweepsHoldExpired,
     KeepTriesHoldBytes, KeepSourceLockIsHeld, KeepSubmissionsSpendReceipts,
     KeepOneSubmissionPerUpload, KeepPublicOnlyThroughApproval DEF Inv

\* A worker that dies lets go of what it wrote.
LEMMA WorkerCrashesStep ==
    ASSUME Inv, NEW w \in Workers, WorkerCrashes(w)
    PROVE  Inv'
<1>1. /\ worker' = [worker EXCEPT ![w] = IdleWorker]
      /\ faults.lostAnswers \subseteq faults'.lostAnswers /\ faults' \in FaultRecords
      /\ UNCHANGED <<objects, media, receipt, submission, job, bindings, uploading, deriving, sweep>>
  BY TypeParts, FaultCounts DEF WorkerCrashes, databaseVars, Inv
<1> QED
  BY <1>1, WorkerEndsStep

\* With its lease, a worker that failed returns the job or gives it up, and
\* then gives up the row too; without it, it only ends.
LEMMA RecordPromotionFailureStep ==
    ASSUME Inv, NEW w \in Workers, RecordPromotionFailure(w)
    PROVE  Inv'
<1> USE MediaKinds
<1> DEFINE u == worker[w].media
           dead == worker[w].attempt >= AttemptLimit
<1>0. /\ worker[w].pc = "fail" /\ worker' = [worker EXCEPT ![w] = IdleWorker]
      /\ UNCHANGED <<objects, receipt, submission, bindings, uploading, deriving, sweep, faults>>
      /\ faults \in FaultRecords
  BY TypeParts DEF RecordPromotionFailure, Inv
<1>1. CASE ~HoldsPromotionLease(w)
  <2>1. UNCHANGED <<media, job>>
    BY <1>1 DEF RecordPromotionFailure
  <2> QED
    BY <1>0, <2>1, WorkerEndsStep
<1>2. CASE HoldsPromotionLease(w)
  <2>0. /\ u \in Uploads /\ job[u].state = "leased" /\ media[u].state = "promotion_pending"
    BY <1>0, <1>2 DEF Inv, WorkersHoldJobs, HoldsPromotionLease, JobsFollowRows
  <2>1. /\ job' = [job EXCEPT ![u].state = IF dead THEN "dead_letter" ELSE "pending",
                              ![u].owner = NoKey, ![u].lease = FALSE]
        /\ dead => media' = [media EXCEPT ![u].state = "promotion_failed", ![u].version = @ + 1]
        /\ ~dead => media' = media
    BY <1>2, <2>0 DEF RecordPromotionFailure
  <2>w. /\ WorkerType' /\ \A x \in Workers : x # w => worker'[x] = worker[x]
        /\ worker'[w].pc = "idle" /\ worker'[w].media = NoKey
    BY <1>0, TypeParts, MediaAssumption DEF Inv, WorkerType, IdleWorker
  <2> HIDE DEF u, dead
  <2>j. /\ JobType' /\ \A x \in Uploads : x # u => job'[x] = job[x]
        /\ job'[u].state = (IF dead THEN "dead_letter" ELSE "pending") /\ job'[u].source = job[u].source
    <3>1. JobType
      BY TypeParts DEF Inv
    <3>2. CASE dead
      <4>1. job' = [job EXCEPT ![u].state = "dead_letter", ![u].owner = NoKey, ![u].lease = FALSE]
        BY <2>1, <3>2
      <4> QED
        BY <2>0, <3>1, <3>2, <4>1, JobMoves DEF JobStates
    <3>3. CASE ~dead
      <4>1. job' = [job EXCEPT ![u].state = "pending", ![u].owner = NoKey, ![u].lease = FALSE]
        BY <2>1, <3>3
      <4> QED
        BY <2>0, <3>1, <3>3, <4>1, JobMoves DEF JobStates
    <3> QED
      BY <3>2, <3>3
  <2>m. /\ MediaType' /\ \A x \in Media : x # u => media'[x] = media[x]
        /\ media'[u].state = (IF dead THEN "promotion_failed" ELSE "promotion_pending")
        /\ media'[u].key = media[u].key /\ media'[u].expired = media[u].expired
    <3>1. MediaType
      BY TypeParts DEF Inv
    <3>2. CASE dead
      BY <2>0, <2>1, <3>1, <3>2, RowMoves DEF MediaStates, DeletableStates
    <3>3. CASE ~dead
      BY <2>0, <2>1, <3>1, <3>3 DEF MediaType
    <3> QED
      BY <3>2, <3>3
  <2>2. TypeOK'
    <3>1. ReceiptType' /\ SubmissionType' /\ BindingType' /\ UploadingType' /\ DerivingType'
             /\ SweepType' /\ (objects \subseteq Keys)' /\ (faults \in FaultRecords)'
      BY <1>0, TypeParts
         DEF Inv, ReceiptType, SubmissionType, BindingType, UploadingType, DerivingType,
         SweepType
    <3> QED
      BY <2>m, <2>j, <2>w, <3>1, TypeParts, PTL
  <2>s. \A v \in Uploads : \A k : Settled(v, k) => Settled(v, k)'
    BY <1>0, KeepSettled
  <2>3. RowKeys'
    BY <2>0, <2>m, <2>s DEF Inv, RowKeys
  <2>4. JobsFollowRows'
    BY <2>0, <2>m, <2>j, <2>s DEF Inv, JobsFollowRows
  <2>k. \A x \in Uploads : media'[x].key = media[x].key /\ media'[x].expired = media[x].expired
    BY <2>m
  <2>5. WorkersHoldJobs'
    BY <1>0, <2>0, <2>k, <2>j, <2>w DEF Inv, WorkersHoldJobs
  <2>6. PromotedRowsSettle'
    <3>1. \A v \in Workers : worker'[v].media \in {worker[v].media, NoKey}
      BY <2>w
    <3> QED
      BY <1>0, <2>k, <3>1 DEF Inv, PromotedRowsSettle
  <2>7. SweepsHoldExpired'
    BY <1>0, <2>0, <2>m DEF Inv, SweepsHoldExpired, StillExpired
  <2>8. SourceLockIsHeld'
    BY <1>0, <2>0, <2>m, LockKeeps DEF Inv
  <2>9. SubmissionsSpendReceipts'
    BY <1>0, <2>0, <2>m DEF Inv, SubmissionsSpendReceipts
  <2>10. PublicOnlyThroughApproval'
    BY <1>0, <2>0, <2>m DEF Inv, PublicOnlyThroughApproval
  <2>11. StoreMatchesRows'
    BY <1>0, <2>0, <2>m DEF Inv, StoreMatchesRows, PrivateRowsHaveBytes, DeletedRowsHaveNoBytes
  <2>12. DestinationHasOneWriter'
    BY <1>0, <2>k, <2>w DEF Inv, DestinationHasOneWriter, WorkersHoldJobs
  <2> QED
    BY <1>0, <2>2, <2>3, <2>4, <2>5, <2>6, <2>7, <2>8, <2>9, <2>10, <2>11, <2>12,
       KeepTriesHoldBytes, KeepOneSubmissionPerUpload DEF Inv
<1> QED
  BY <1>1, <1>2

\* A lease that runs out changes no row but the job's own flag.
LEMMA PromotionLeaseExpiresStep ==
    ASSUME Inv, NEW u \in Uploads,
           PromotionLeaseExpires(u)
    PROVE  Inv'
<1> USE MediaKinds
<1>0. UNCHANGED <<objects, media, receipt, submission, bindings, uploading, deriving, worker, sweep, faults>>
  BY DEF PromotionLeaseExpires, databaseVars, DerivativeVars
<1>1. TypeOK'
  <2>1. JobType'
    <3> DEFINE Jobs == [state : JobStates, attempts : 0 .. MaxAttempts,
                        owner : Workers \cup {NoKey}, lease : BOOLEAN, source : Keys]
               r    == [job[u] EXCEPT !.lease = FALSE]
    <3>1. job \in [Uploads -> Jobs] /\ job' = [job EXCEPT ![u] = r]
      BY TypeParts DEF PromotionLeaseExpires, Inv, JobType
    <3>2. r \in Jobs
      BY <3>1
    <3> HIDE DEF Jobs, r
    <3>3. job' \in [Uploads -> Jobs]
      BY <3>1, <3>2
    <3> QED
      BY <3>3 DEF Jobs, JobType
  <2>2. MediaType' /\ ReceiptType' /\ SubmissionType' /\ BindingType' /\ UploadingType'
           /\ DerivingType' /\ WorkerType' /\ SweepType' /\ (objects \subseteq Keys)'
           /\ (faults \in FaultRecords)'
    BY <1>0, TypeParts
       DEF Inv, MediaType, ReceiptType, SubmissionType, BindingType, UploadingType,
       DerivingType, WorkerType, SweepType
  <2> QED
    BY <2>1, <2>2, TypeParts, PTL
<1>2. /\ job[u].state = "leased"
      /\ \A x \in Uploads : x # u => job'[x] = job[x]
      /\ job'[u].state = "leased"
      /\ job'[u].source = job[u].source
  BY <1>0, TypeParts DEF PromotionLeaseExpires, Inv, JobType
<1>s. \A v \in Uploads : \A k : Settled(v, k) => Settled(v, k)'
  BY <1>0, KeepSettled
<1>3. JobsFollowRows'
  BY <1>0, <1>2, <1>s DEF Inv, JobsFollowRows
<1>4. WorkersHoldJobs'
  BY <1>0, <1>2 DEF Inv, WorkersHoldJobs
<1> QED
  BY <1>0, <1>1, <1>3, <1>4, KeepRowKeys, KeepPromotedRowsSettle, KeepSweepsHoldExpired,
     KeepTriesHoldBytes, KeepSourceLockIsHeld, KeepSubmissionsSpendReceipts,
     KeepOneSubmissionPerUpload, KeepPublicOnlyThroughApproval, KeepStoreMatchesRows,
     KeepDestinationHasOneWriter DEF Inv

\* A verdict keeps the key and the deadline of its row.
LEMMA ReviewPrivateMediaStep ==
    ASSUME Inv, NEW u \in Uploads, NEW v \in {"approved_private", "rejected"},
           ReviewPrivateMedia(u, v)
    PROVE  Inv'
<1> USE MediaKinds
<1>0. UNCHANGED <<objects, receipt, submission, job, bindings, uploading, deriving, worker, sweep, faults>>
  BY DEF ReviewPrivateMedia, databaseVars, DerivativeVars
<1>1. TypeOK'
  <2>1. MediaType'
    BY <1>0, TypeParts, KeysTyped, MediaAssumption
       DEF ReviewPrivateMedia, Inv, MediaType, RowTypes, MediaStates, DeletableStates
  <2>2. ReceiptType' /\ SubmissionType' /\ JobType' /\ BindingType' /\ UploadingType'
           /\ DerivingType' /\ WorkerType' /\ SweepType' /\ (objects \subseteq Keys)'
           /\ (faults \in FaultRecords)'
    BY <1>0, TypeParts
       DEF Inv, ReceiptType, SubmissionType, JobType, BindingType, UploadingType, DerivingType,
       WorkerType, SweepType
  <2> QED
    BY <2>1, <2>2, TypeParts, PTL
<1>2. /\ media[u].state = "quarantined"
      /\ \A x \in Media : x # u => media'[x] = media[x]
      /\ media'[u].state = v
      /\ media'[u].key = media[u].key
      /\ media'[u].expired = media[u].expired
  BY <1>0, TypeParts DEF ReviewPrivateMedia, RowFree, Holding, Inv, MediaType, RowTypes
<1>s. \A x \in Uploads : \A k : Settled(x, k) => Settled(x, k)'
  BY <1>0, KeepSettled
<1>3. RowKeys'
  BY <1>0, <1>2, <1>s DEF Inv, RowKeys
<1>4. JobsFollowRows'
  BY <1>0, <1>2, <1>s DEF Inv, JobsFollowRows
<1>5. WorkersHoldJobs'
  BY <1>0, <1>2 DEF Inv, WorkersHoldJobs
<1>6. PromotedRowsSettle'
  BY <1>0, <1>2 DEF Inv, PromotedRowsSettle, WorkersHoldJobs
<1>7. SweepsHoldExpired'
  BY <1>0, <1>2 DEF Inv, SweepsHoldExpired, StillExpired
<1>8. SourceLockIsHeld'
  <2>1. \A e \in Derivatives, r \in Renders :
            deriving'[<<e, r>>] \in Holding => deriving[<<e, r>>] \in Holding
    BY <1>0
  <2>2. \A e \in Derivatives : media[e].state = "none" => media'[e].state = "none"
    BY <1>2
  <2>3. SourceLockIsHeld
    BY DEF Inv
  <2> QED
    BY <2>1, <2>2, <2>3, LockKeeps
<1>9. SubmissionsSpendReceipts'
  BY <1>0, <1>2 DEF Inv, SubmissionsSpendReceipts
<1>10. PublicOnlyThroughApproval'
  BY <1>0, <1>2 DEF Inv, PublicOnlyThroughApproval
<1>11. StoreMatchesRows'
  BY <1>0, <1>2 DEF Inv, StoreMatchesRows, PrivateRowsHaveBytes, DeletedRowsHaveNoBytes
<1>12. DestinationHasOneWriter'
  BY <1>0, <1>2 DEF Inv, DestinationHasOneWriter, WorkersHoldJobs
<1> QED
  BY <1>0, <1>1, <1>3, <1>4, <1>5, <1>6, <1>7, <1>8, <1>9, <1>10, <1>11, <1>12,
     KeepTriesHoldBytes, KeepOneSubmissionPerUpload DEF Inv

\* No decision but approval publishes, and none leaves the approved state.
LEMMA ModerateSubmissionStep ==
    ASSUME Inv, NEW s \in Submissions,
           NEW a \in {"start_review", "request_changes", "reject"},
           ModerateSubmission(s, a)
    PROVE  Inv'
<1> USE MediaKinds
<1>0. UNCHANGED <<objects, media, receipt, job, bindings, uploading, deriving, worker, sweep, faults>>
  BY DEF ModerateSubmission, databaseVars, DerivativeVars
<1>1. TypeOK'
  <2>1. SubmissionType'
    BY <1>0, TypeParts, KeysTyped, MediaAssumption
       DEF ModerateSubmission, MayModerate, NextSubmissionState, SubmissionTransitions,
       SubmissionStates, Inv, SubmissionType
  <2>2. MediaType' /\ ReceiptType' /\ JobType' /\ BindingType' /\ UploadingType'
           /\ DerivingType' /\ WorkerType' /\ SweepType' /\ (objects \subseteq Keys)'
           /\ (faults \in FaultRecords)'
    BY <1>0, TypeParts
       DEF Inv, MediaType, ReceiptType, JobType, BindingType, UploadingType, DerivingType,
       WorkerType, SweepType
  <2> QED
    BY <2>1, <2>2, TypeParts, PTL
<1>2. /\ submission[s].state \notin {"none", "approved"}
      /\ \A x \in Submissions : x # s => submission'[x] = submission[x]
      /\ submission'[s].state # "none"
      /\ submission'[s].media = submission[s].media
  BY <1>0, TypeParts
     DEF ModerateSubmission, MayModerate, NextSubmissionState, SubmissionTransitions,
     SubmissionStates, Inv, SubmissionType
<1>3. SubmissionsSpendReceipts'
  BY <1>0, <1>2 DEF Inv, SubmissionsSpendReceipts
<1>4. OneSubmissionPerUpload'
  BY <1>0, <1>2 DEF Inv, OneSubmissionPerUpload, SubmissionsSpendReceipts
<1>5. PublicOnlyThroughApproval'
  BY <1>0, <1>2 DEF Inv, PublicOnlyThroughApproval
<1> QED
  BY <1>0, <1>1, <1>3, <1>4, <1>5, KeepRowKeys, KeepJobsFollowRows, KeepWorkersHoldJobs,
     KeepPromotedRowsSettle, KeepSweepsHoldExpired, KeepTriesHoldBytes, KeepSourceLockIsHeld,
     KeepStoreMatchesRows, KeepDestinationHasOneWriter DEF Inv

\* The derivative becomes public in the step that approves the submission of
\* its source.
LEMMA ApproveSubmissionStep ==
    ASSUME Inv, NEW s \in Submissions, NEW d \in Derivatives, NEW o \in Operators,
           ApproveSubmission(s, d, o)
    PROVE  Inv'
<1> USE MediaKinds
<1>0. UNCHANGED <<objects, receipt, job, uploading, deriving, worker, sweep, faults>>
  BY DEF ApproveSubmission, databaseVars, DerivativeVars
<1>1. TypeOK'
  <2>1. MediaType'
    BY <1>0, TypeParts, KeysTyped, MediaAssumption
       DEF ApproveSubmission, MayModerate, NextSubmissionState, Inv, MediaType, SubmissionType,
       BindingType, RowTypes, MediaStates, DeletableStates
  <2>2. SubmissionType'
    BY <1>0, TypeParts, KeysTyped, MediaAssumption
       DEF ApproveSubmission, MayModerate, NextSubmissionState, Inv, MediaType, SubmissionType,
       BindingType, RowTypes, MediaStates, DeletableStates
  <2>3. BindingType'
    BY <1>0, TypeParts, KeysTyped, MediaAssumption
       DEF ApproveSubmission, MayModerate, NextSubmissionState, Inv, MediaType, SubmissionType,
       BindingType, RowTypes, MediaStates, DeletableStates
  <2>4. ReceiptType' /\ JobType' /\ UploadingType' /\ DerivingType' /\ WorkerType' /\ SweepType'
           /\ (objects \subseteq Keys)' /\ (faults \in FaultRecords)'
    BY <1>0, TypeParts
       DEF Inv, ReceiptType, JobType, UploadingType, DerivingType, WorkerType, SweepType
  <2> QED
    BY <2>1, <2>2, <2>3, <2>4, TypeParts, PTL
<1>2. /\ media[d].state = "redacted_derivative"
      /\ submission[s].state # "none"
      /\ submission[s].media = Source(d)
      /\ \A x \in Media : x # d => media'[x] = media[x]
      /\ media'[d].state = "approved_public"
      /\ media'[d].key = media[d].key
      /\ media'[d].expired = media[d].expired
      /\ \A x \in Submissions : x # s => submission'[x] = submission[x]
      /\ submission'[s].state = "approved"
      /\ submission'[s].media = submission[s].media
  BY <1>0, TypeParts
     DEF ApproveSubmission, MayModerate, NextSubmissionState, Inv, MediaType, SubmissionType,
     BindingType, RowTypes
<1>s. \A v \in Uploads : \A k : Settled(v, k) => Settled(v, k)'
  BY <1>0, KeepSettled
<1>3. RowKeys'
  BY <1>0, <1>2, <1>s DEF Inv, RowKeys
<1>4. JobsFollowRows'
  BY <1>0, <1>2, <1>s DEF Inv, JobsFollowRows
<1>5. WorkersHoldJobs'
  BY <1>0, <1>2 DEF Inv, WorkersHoldJobs
<1>6. PromotedRowsSettle'
  BY <1>0, <1>2 DEF Inv, PromotedRowsSettle, WorkersHoldJobs
<1>7. SweepsHoldExpired'
  BY <1>0, <1>2 DEF Inv, SweepsHoldExpired, StillExpired
<1>8. SourceLockIsHeld'
  BY <1>0, <1>2, LockKeeps DEF Inv
<1>9. SubmissionsSpendReceipts'
  BY <1>0, <1>2 DEF Inv, SubmissionsSpendReceipts
<1>10. OneSubmissionPerUpload'
  BY <1>0, <1>2 DEF Inv, OneSubmissionPerUpload, SubmissionsSpendReceipts
<1>11. PublicOnlyThroughApproval'
  BY <1>0, <1>2 DEF Inv, PublicOnlyThroughApproval
<1>12. StoreMatchesRows'
  BY <1>0, <1>2 DEF Inv, StoreMatchesRows, PrivateRowsHaveBytes, DeletedRowsHaveNoBytes
<1>13. DestinationHasOneWriter'
  BY <1>0, <1>2 DEF Inv, DestinationHasOneWriter, WorkersHoldJobs
<1> QED
  BY <1>0, <1>1, <1>3, <1>4, <1>5, <1>6, <1>7, <1>8, <1>9, <1>10, <1>11, <1>12, <1>13,
     KeepTriesHoldBytes DEF Inv

\* A binding receipt moves no state.
LEMMA IssueMediaBindingReceiptStep ==
    ASSUME Inv, NEW s \in Submissions, NEW d \in Derivatives, NEW o \in Operators,
           IssueMediaBindingReceipt(d, s, o)
    PROVE  Inv'
<1> USE MediaKinds
<1>0. UNCHANGED <<objects, media, receipt, submission, job, uploading, deriving, worker, sweep, faults>>
  BY DEF IssueMediaBindingReceipt, databaseVars, DerivativeVars
<1>1. TypeOK'
  <2>1. BindingType'
    BY <1>0, TypeParts, KeysTyped, MediaAssumption DEF IssueMediaBindingReceipt, Inv,
       BindingType
  <2>2. MediaType' /\ ReceiptType' /\ SubmissionType' /\ JobType' /\ UploadingType'
           /\ DerivingType' /\ WorkerType' /\ SweepType' /\ (objects \subseteq Keys)'
           /\ (faults \in FaultRecords)'
    BY <1>0, TypeParts
       DEF Inv, MediaType, ReceiptType, SubmissionType, JobType, UploadingType, DerivingType,
       WorkerType, SweepType
  <2> QED
    BY <2>1, <2>2, TypeParts, PTL
<1> QED
  BY <1>0, <1>1, KeepRowKeys, KeepJobsFollowRows, KeepWorkersHoldJobs, KeepPromotedRowsSettle,
     KeepSweepsHoldExpired, KeepTriesHoldBytes, KeepSourceLockIsHeld,
     KeepSubmissionsSpendReceipts, KeepOneSubmissionPerUpload, KeepPublicOnlyThroughApproval,
     KeepStoreMatchesRows, KeepDestinationHasOneWriter DEF Inv

\* What is removed from public view was approved, and stays under its key.
LEMMA RemovePublicMediaStep ==
    ASSUME Inv, NEW d \in Derivatives,
           RemovePublicMedia(d)
    PROVE  Inv'
<1> USE MediaKinds
<1>0. UNCHANGED <<objects, receipt, submission, job, bindings, uploading, deriving, worker, sweep, faults>>
  BY DEF RemovePublicMedia, databaseVars, DerivativeVars
<1>1. TypeOK'
  <2>1. MediaType'
    BY <1>0, TypeParts, KeysTyped, MediaAssumption
       DEF RemovePublicMedia, Inv, MediaType, RowTypes, MediaStates, DeletableStates
  <2>2. ReceiptType' /\ SubmissionType' /\ JobType' /\ BindingType' /\ UploadingType'
           /\ DerivingType' /\ WorkerType' /\ SweepType' /\ (objects \subseteq Keys)'
           /\ (faults \in FaultRecords)'
    BY <1>0, TypeParts
       DEF Inv, ReceiptType, SubmissionType, JobType, BindingType, UploadingType, DerivingType,
       WorkerType, SweepType
  <2> QED
    BY <2>1, <2>2, TypeParts, PTL
<1>2. /\ media[d].state = "approved_public"
      /\ \A x \in Media : x # d => media'[x] = media[x]
      /\ media'[d].state = "removed"
      /\ media'[d].key = media[d].key
      /\ media'[d].expired = media[d].expired
  BY <1>0, TypeParts DEF RemovePublicMedia, Inv, MediaType, RowTypes
<1>s. \A v \in Uploads : \A k : Settled(v, k) => Settled(v, k)'
  BY <1>0, KeepSettled
<1>3. RowKeys'
  BY <1>0, <1>2, <1>s DEF Inv, RowKeys
<1>4. JobsFollowRows'
  BY <1>0, <1>2, <1>s DEF Inv, JobsFollowRows
<1>5. WorkersHoldJobs'
  BY <1>0, <1>2 DEF Inv, WorkersHoldJobs
<1>6. PromotedRowsSettle'
  BY <1>0, <1>2 DEF Inv, PromotedRowsSettle, WorkersHoldJobs
<1>7. SweepsHoldExpired'
  BY <1>0, <1>2 DEF Inv, SweepsHoldExpired, StillExpired
<1>8. SourceLockIsHeld'
  <2>1. \A e \in Derivatives, r \in Renders :
            deriving'[<<e, r>>] \in Holding => deriving[<<e, r>>] \in Holding
    BY <1>0
  <2>2. \A e \in Derivatives : media[e].state = "none" => media'[e].state = "none"
    BY <1>2
  <2>3. SourceLockIsHeld
    BY DEF Inv
  <2> QED
    BY <2>1, <2>2, <2>3, LockKeeps
<1>9. SubmissionsSpendReceipts'
  BY <1>0, <1>2 DEF Inv, SubmissionsSpendReceipts
<1>10. PublicOnlyThroughApproval'
  BY <1>0, <1>2 DEF Inv, PublicOnlyThroughApproval
<1>11. StoreMatchesRows'
  BY <1>0, <1>2 DEF Inv, StoreMatchesRows, PrivateRowsHaveBytes, DeletedRowsHaveNoBytes
<1>12. DestinationHasOneWriter'
  BY <1>0, <1>2 DEF Inv, DestinationHasOneWriter, WorkersHoldJobs
<1> QED
  BY <1>0, <1>1, <1>3, <1>4, <1>5, <1>6, <1>7, <1>8, <1>9, <1>10, <1>11, <1>12,
     KeepTriesHoldBytes, KeepOneSubmissionPerUpload DEF Inv

\* The row lock of the source lets one transaction at a time look for the
\* derivative's row.
LEMMA BeginDerivativeStep ==
    ASSUME Inv, NEW d \in Derivatives, NEW t \in Renders,
           BeginDerivative(d, t)
    PROVE  Inv'
<1> USE MediaKinds
<1>0. UNCHANGED <<objects, media, receipt, submission, job, bindings, uploading, worker, sweep, faults>>
  BY DEF BeginDerivative, databaseVars, DerivativeVars
<1>1. TypeOK'
  <2>1. DerivingType'
    BY <1>0, TypeParts, KeysTyped, MediaAssumption DEF BeginDerivative, Inv, DerivingType
  <2>2. MediaType' /\ ReceiptType' /\ SubmissionType' /\ JobType' /\ BindingType'
           /\ UploadingType' /\ WorkerType' /\ SweepType' /\ (objects \subseteq Keys)'
           /\ (faults \in FaultRecords)'
    BY <1>0, TypeParts
       DEF Inv, MediaType, ReceiptType, SubmissionType, JobType, BindingType, UploadingType,
       WorkerType, SweepType
  <2> QED
    BY <2>1, <2>2, TypeParts, PTL
<1>2. /\ media[d].state = "none"
      /\ \A e \in Derivatives, r \in Renders : Source(e) = Source(d) => deriving[<<e, r>>] \notin Holding
      /\ \A e \in Derivatives, r \in Renders : <<e, r>> # <<d, t>> => deriving'[<<e, r>>] = deriving[<<e, r>>]
      /\ deriving'[<<d, t>>] = "locked"
  BY <1>0, TypeParts DEF BeginDerivative, RowFree, Holding, Inv, DerivingType
<1>3. SourceLockIsHeld'
  <2>1. /\ media[d].state = "none" /\ RowFree(Source(d)) /\ DerivingType
        /\ deriving' = [deriving EXCEPT ![<<d, t>>] = "locked"]
    BY TypeParts DEF BeginDerivative, Inv
  <2>2. \A e \in Derivatives, r \in Renders : Source(e) = Source(d) => deriving[<<e, r>>] \notin Holding
    <3> SUFFICES ASSUME NEW e \in Derivatives, NEW r \in Renders, Source(e) = Source(d)
                 PROVE  deriving[<<e, r>>] \notin Holding
      OBVIOUS
    <3>1. <<e, r>> \in Derivatives \X Renders /\ <<e, r>>[1] = e
      OBVIOUS
    <3> QED
      BY <2>1, <3>1 DEF RowFree, Holding
  <2>3. \A e \in Derivatives, r \in Renders :
            deriving'[<<e, r>>] \in Holding =>
                \/ e = d /\ r = t
                \/ deriving[<<e, r>>] \in Holding /\ Source(e) # Source(d)
    BY <2>1, <2>2 DEF DerivingType
  <2>4. media' = media /\ media[d].state = "none"
    BY <1>0, <2>1
  <2> SUFFICES ASSUME NEW e \in Derivatives, NEW r \in Renders, deriving'[<<e, r>>] \in Holding
               PROVE  /\ media'[e].state = "none"
                      /\ \A f \in Derivatives, q \in Renders :
                            deriving'[<<f, q>>] \in Holding /\ Source(f) = Source(e) => f = e /\ q = r
    BY DEF SourceLockIsHeld, Holding
  <2>5. CASE e = d /\ r = t
    BY <2>3, <2>4, <2>5
  <2>6. CASE ~(e = d /\ r = t)
    <3>1. deriving[<<e, r>>] \in Holding /\ Source(e) # Source(d)
      BY <2>3, <2>6
    <3>2. \A f \in Derivatives, q \in Renders :
              deriving'[<<f, q>>] \in Holding /\ Source(f) = Source(e) => deriving[<<f, q>>] \in Holding
      BY <2>3, <3>1
    <3> QED
      BY <2>4, <3>1, <3>2 DEF Inv, SourceLockIsHeld
  <2> QED
    BY <2>5, <2>6
<1> QED
  BY <1>0, <1>1, <1>3, KeepRowKeys, KeepJobsFollowRows, KeepWorkersHoldJobs,
     KeepPromotedRowsSettle, KeepSweepsHoldExpired, KeepTriesHoldBytes,
     KeepSubmissionsSpendReceipts, KeepOneSubmissionPerUpload, KeepPublicOnlyThroughApproval,
     KeepStoreMatchesRows, KeepDestinationHasOneWriter DEF Inv

\* The derivative's row is not there yet, so its bytes are named by nobody.
LEMMA WriteDerivativeStep ==
    ASSUME Inv, NEW d \in Derivatives, NEW t \in Renders,
           WriteDerivative(d, t)
    PROVE  Inv'
<1> USE MediaKinds
<1>0. UNCHANGED <<media, receipt, submission, job, bindings, uploading, worker, sweep, faults>>
  BY DEF WriteDerivative, databaseVars, DerivativeVars
<1>1. TypeOK'
  <2>1. DerivingType'
    BY <1>0, TypeParts, KeysTyped, MediaAssumption DEF WriteDerivative, Writable, Inv,
       DerivingType
  <2>2. (objects \subseteq Keys)'
    BY <1>0, TypeParts, KeysTyped, MediaAssumption DEF WriteDerivative, Writable, Inv,
       DerivingType
  <2>3. MediaType' /\ ReceiptType' /\ SubmissionType' /\ JobType' /\ BindingType'
           /\ UploadingType' /\ WorkerType' /\ SweepType' /\ (faults \in FaultRecords)'
    BY <1>0, TypeParts
       DEF Inv, MediaType, ReceiptType, SubmissionType, JobType, BindingType, UploadingType,
       WorkerType, SweepType
  <2> QED
    BY <2>1, <2>2, <2>3, TypeParts, PTL
<1>2. /\ deriving[<<d, t>>] \in Holding
      /\ deriving'[<<d, t>>] \in Holding
      /\ \A e \in Derivatives, r \in Renders : <<e, r>> # <<d, t>> => deriving'[<<e, r>>] = deriving[<<e, r>>]
      /\ objects' = objects \cup {DerivativeKey(d)}
  BY <1>0, TypeParts DEF WriteDerivative, Writable, Holding, Inv, DerivingType
<1>3. WorkersHoldJobs'
  BY <1>0, <1>2 DEF Inv, WorkersHoldJobs
<1>4. PromotedRowsSettle'
  BY <1>0, <1>2 DEF Inv, PromotedRowsSettle, WorkersHoldJobs
<1>5. SweepsHoldExpired' /\ StoreMatchesRows'
  <2>1. media[d].state = "none"
    BY <1>2 DEF Inv, SourceLockIsHeld
  <2>2. \A m \in Media : media[m].key # DerivativeKey(d)
    BY <2>1, RowsNameOwnKeys DEF Inv
  <2> QED
    BY <1>0, <1>2, <2>2, WriteKeeps
<1>6. TriesHoldBytes'
  BY <1>0, <1>2 DEF Inv, TriesHoldBytes
<1>7. SourceLockIsHeld'
  BY <1>0, <1>2, LockKeeps DEF Inv
<1>8. StoreMatchesRows'
  BY <1>5
<1> QED
  BY <1>0, <1>1, <1>3, <1>4, <1>5, <1>6, <1>7, <1>8, KeepRowKeys, KeepJobsFollowRows,
     KeepSubmissionsSpendReceipts, KeepOneSubmissionPerUpload, KeepPublicOnlyThroughApproval,
     KeepDestinationHasOneWriter DEF Inv

\* The row is created under the lock, and the transaction that creates it is
\* the only one that could.
LEMMA DerivativeCommits ==
    ASSUME Inv, NEW d \in Derivatives, NEW t \in Renders, NEW next \in {"done", "cleanup", "idle"},
           deriving[<<d, t>>] \in Holding, DerivativeRow(d),
           deriving' = [deriving EXCEPT ![<<d, t>>] = next],
           UNCHANGED <<objects, receipt, submission, job, bindings, uploading, worker, sweep>>,
           faults' \in FaultRecords, faults.lostAnswers \subseteq faults'.lostAnswers
    PROVE  Inv'
<1> USE MediaKinds
<1>1. TypeOK'
  <2>1. MediaType'
    BY TypeParts, KeysTyped, MediaAssumption
       DEF DerivativeRow, Inv, MediaType, DerivingType, RowTypes, MediaStates,
       DeletableStates
  <2>2. DerivingType'
    BY TypeParts, KeysTyped, MediaAssumption
       DEF DerivativeRow, Inv, MediaType, DerivingType, RowTypes, MediaStates,
       DeletableStates
  <2>3. ReceiptType' /\ SubmissionType' /\ JobType' /\ BindingType' /\ UploadingType'
           /\ WorkerType' /\ SweepType' /\ (objects \subseteq Keys)'
    BY TypeParts
       DEF Inv, ReceiptType, SubmissionType, JobType, BindingType, UploadingType, WorkerType,
       SweepType
  <2>4. (faults \in FaultRecords)'
    OBVIOUS
  <2> QED
    BY <2>1, <2>2, <2>3, <2>4, TypeParts, PTL
<1>2. /\ deriving[<<d, t>>] \in Holding
      /\ \A e \in Derivatives, r \in Renders : <<e, r>> # <<d, t>> => deriving'[<<e, r>>] = deriving[<<e, r>>]
      /\ deriving'[<<d, t>>] \notin Holding
      /\ \A x \in Media : x # d => media'[x] = media[x]
      /\ media'[d].state = "redacted_derivative"
      /\ media'[d].key = DerivativeKey(d)
      /\ media'[d].expired = FALSE
  BY TypeParts DEF DerivativeRow, Holding, Inv, MediaType, DerivingType, RowTypes
<1>s. \A v \in Uploads : \A k : Settled(v, k) => Settled(v, k)'
  BY KeepSettled
<1>3. RowKeys'
  BY <1>2, <1>s DEF Inv, RowKeys
<1>4. JobsFollowRows'
  BY <1>2, <1>s DEF Inv, JobsFollowRows
<1>5. WorkersHoldJobs'
  BY <1>2 DEF Inv, WorkersHoldJobs
<1>6. PromotedRowsSettle'
  BY <1>2 DEF Inv, PromotedRowsSettle, WorkersHoldJobs
<1>7. SweepsHoldExpired'
  <2>1. media[d].state = "none"
    BY <1>2 DEF Inv, SourceLockIsHeld
  <2> QED
    BY <1>2, <2>1 DEF Inv, SweepsHoldExpired, StillExpired
<1>8. SourceLockIsHeld'
  <2>1. \A e \in Derivatives, r \in Renders :
            deriving'[<<e, r>>] \in Holding => deriving[<<e, r>>] \in Holding /\ e # d
    <3>1. \A e \in Derivatives, r \in Renders :
             deriving'[<<e, r>>] \in Holding => <<e, r>> # <<d, t>> /\ deriving[<<e, r>>] \in Holding
      BY <1>2
    <3>2. \A e \in Derivatives, r \in Renders :
             deriving[<<e, r>>] \in Holding /\ Source(e) = Source(d) => e = d /\ r = t
      BY <1>2 DEF Inv, SourceLockIsHeld
    <3> QED
      BY <3>1, <3>2
  <2>2. \A e \in Derivatives : e # d => media'[e] = media[e]
    BY <1>2
  <2> SUFFICES ASSUME NEW e \in Derivatives, NEW r \in Renders, deriving'[<<e, r>>] \in Holding
               PROVE  /\ media'[e].state = "none"
                      /\ \A f \in Derivatives, q \in Renders :
                            deriving'[<<f, q>>] \in Holding /\ Source(f) = Source(e) => f = e /\ q = r
    BY DEF SourceLockIsHeld, Holding
  <2> QED
    BY <2>1, <2>2 DEF Inv, SourceLockIsHeld
<1>9. SubmissionsSpendReceipts'
  BY <1>2 DEF Inv, SubmissionsSpendReceipts
<1>10. PublicOnlyThroughApproval'
  BY <1>2 DEF Inv, PublicOnlyThroughApproval
<1>11. StoreMatchesRows'
  BY <1>2 DEF Inv, StoreMatchesRows, PrivateRowsHaveBytes, DeletedRowsHaveNoBytes
<1>12. DestinationHasOneWriter'
  BY <1>2 DEF Inv, DestinationHasOneWriter, WorkersHoldJobs
<1> QED
  BY <1>1, <1>3, <1>4, <1>5, <1>6, <1>7, <1>8, <1>9, <1>10, <1>11, <1>12,
     KeepTriesHoldBytes, KeepOneSubmissionPerUpload DEF Inv

\* The transaction ends with its row.
LEMMA CommitDerivativeStep ==
    ASSUME Inv, NEW d \in Derivatives, NEW t \in Renders,
           CommitDerivative(d, t)
    PROVE  Inv'
<1>1. /\ deriving[<<d, t>>] \in Holding /\ DerivativeRow(d)
      /\ deriving' = [deriving EXCEPT ![<<d, t>>] = "done"]
      /\ UNCHANGED <<objects, receipt, submission, job, bindings, uploading, worker, sweep, faults>>
  BY DEF CommitDerivative, DerivativeVars, Holding
<1>2. faults \in FaultRecords
  BY TypeParts DEF Inv
<1> QED
  BY <1>1, <1>2, DerivativeCommits

\* So does the one whose answer is lost: what it cleans up is no upload's.
LEMMA DerivativeAnswerLostStep ==
    ASSUME Inv, NEW d \in Derivatives, NEW t \in Renders,
           DerivativeAnswerLost(d, t)
    PROVE  Inv'
<1> DEFINE q == IF deriving[<<d, t>>] = "written" THEN "cleanup" ELSE "idle"
<1>1. /\ deriving[<<d, t>>] \in Holding /\ DerivativeRow(d)
      /\ deriving' = [deriving EXCEPT ![<<d, t>>] = q]
      /\ LosesAnswer(d)
      /\ UNCHANGED <<objects, receipt, submission, job, bindings, uploading, worker, sweep>>
  BY DEF DerivativeAnswerLost, DerivativeVars, Holding
<1>2. faults' \in FaultRecords /\ faults.lostAnswers \subseteq faults'.lostAnswers
  BY <1>1, TypeParts, FaultCounts, MediaKinds DEF Inv
<1>3. q \in {"done", "cleanup", "idle"}
  OBVIOUS
<1> HIDE DEF q
<1> QED
  BY <1>1, <1>2, <1>3, DerivativeCommits

\* A failed transaction releases the lock before its bytes are cleaned up.
LEMMA DerivativeTransactionFailsStep ==
    ASSUME Inv, NEW d \in Derivatives, NEW t \in Renders,
           DerivativeTransactionFails(d, t)
    PROVE  Inv'
<1> USE MediaKinds
<1>0. UNCHANGED <<objects, media, receipt, submission, job, bindings, uploading, worker, sweep>>
  BY DEF DerivativeTransactionFails, databaseVars, DerivativeVars
<1>f. faults' \in FaultRecords /\ faults.lostAnswers \subseteq faults'.lostAnswers
  BY TypeParts, FaultCounts DEF DerivativeTransactionFails, Inv
<1>1. TypeOK'
  <2>1. DerivingType'
    BY <1>0, TypeParts, KeysTyped, MediaAssumption
       DEF DerivativeTransactionFails, Inv, DerivingType
  <2>2. (faults \in FaultRecords)'
    BY <1>f
  <2>3. MediaType' /\ ReceiptType' /\ SubmissionType' /\ JobType' /\ BindingType'
           /\ UploadingType' /\ WorkerType' /\ SweepType' /\ (objects \subseteq Keys)'
    BY <1>0, TypeParts
       DEF Inv, MediaType, ReceiptType, SubmissionType, JobType, BindingType, UploadingType,
       WorkerType, SweepType
  <2> QED
    BY <2>1, <2>2, <2>3, TypeParts, PTL
<1>2. /\ \A e \in Derivatives, r \in Renders : <<e, r>> # <<d, t>> => deriving'[<<e, r>>] = deriving[<<e, r>>]
      /\ deriving'[<<d, t>>] \notin Holding
      /\ faults.lostAnswers \subseteq faults'.lostAnswers
  BY <1>0, <1>f, TypeParts DEF DerivativeTransactionFails, Holding, Inv, DerivingType
<1>3. PromotedRowsSettle'
  BY <1>0, <1>2 DEF Inv, PromotedRowsSettle, WorkersHoldJobs
<1>4. SourceLockIsHeld'
  BY <1>0, <1>2, LockKeeps DEF Inv
<1>5. StoreMatchesRows'
  BY <1>0, <1>2 DEF Inv, StoreMatchesRows, PrivateRowsHaveBytes, DeletedRowsHaveNoBytes
<1>6. DestinationHasOneWriter'
  BY <1>0, <1>2 DEF Inv, DestinationHasOneWriter, WorkersHoldJobs
<1> QED
  BY <1>0, <1>f, <1>1, <1>3, <1>4, <1>5, <1>6, KeepRowKeys, KeepJobsFollowRows, KeepWorkersHoldJobs,
     KeepSweepsHoldExpired, KeepTriesHoldBytes, KeepSubmissionsSpendReceipts,
     KeepOneSubmissionPerUpload, KeepPublicOnlyThroughApproval DEF Inv

\* The clean-up may take a later request's bytes, but none of a private
\* upload.
LEMMA CleanUpDerivativeStep ==
    ASSUME Inv, NEW d \in Derivatives, NEW t \in Renders,
           CleanUpDerivative(d, t)
    PROVE  Inv'
<1> USE MediaKinds
<1>0. UNCHANGED <<media, receipt, submission, job, bindings, uploading, worker, sweep, faults>>
  BY DEF CleanUpDerivative, databaseVars, DerivativeVars
<1>1. TypeOK'
  <2>1. DerivingType'
    BY <1>0, TypeParts, KeysTyped, MediaAssumption DEF CleanUpDerivative, Inv, DerivingType
  <2>2. (objects \subseteq Keys)'
    BY <1>0, TypeParts, KeysTyped, MediaAssumption DEF CleanUpDerivative, Inv, DerivingType
  <2>3. MediaType' /\ ReceiptType' /\ SubmissionType' /\ JobType' /\ BindingType'
           /\ UploadingType' /\ WorkerType' /\ SweepType' /\ (faults \in FaultRecords)'
    BY <1>0, TypeParts
       DEF Inv, MediaType, ReceiptType, SubmissionType, JobType, BindingType, UploadingType,
       WorkerType, SweepType
  <2> QED
    BY <2>1, <2>2, <2>3, TypeParts, PTL
<1>2. /\ \A e \in Derivatives, r \in Renders : <<e, r>> # <<d, t>> => deriving'[<<e, r>>] = deriving[<<e, r>>]
      /\ deriving'[<<d, t>>] \notin Holding
      /\ objects' = objects \ {DerivativeKey(d)}
  BY <1>0, TypeParts DEF CleanUpDerivative, Holding, Inv, DerivingType
<1>3. WorkersHoldJobs'
  BY <1>0, <1>2, KeyParts, SettledKeys DEF Inv, WorkersHoldJobs, RowKeys
<1>4. PromotedRowsSettle'
  BY <1>0, <1>2, KeyParts, SettledKeys DEF Inv, PromotedRowsSettle, WorkersHoldJobs, RowKeys
<1>5. SweepsHoldExpired'
  BY <1>0, <1>2 DEF Inv, SweepsHoldExpired, StillExpired
<1>6. TriesHoldBytes'
  <2>1. \A v, n : StagingKey(v, n) # DerivativeKey(d)
    BY KeyParts
  <2> QED
    BY <1>0, <1>2, <2>1 DEF Inv, TriesHoldBytes
<1>7. SourceLockIsHeld'
  <2>1. \A e \in Derivatives, r \in Renders :
            deriving'[<<e, r>>] \in Holding => deriving[<<e, r>>] \in Holding
    BY <1>2
  <2>2. \A e \in Derivatives : media[e].state = "none" => media'[e].state = "none"
    BY <1>0
  <2>3. SourceLockIsHeld
    BY DEF Inv
  <2> QED
    BY <2>1, <2>2, <2>3, LockKeeps
<1>8. StoreMatchesRows'
  BY <1>0, <1>2, KeyParts, SettledKeys
     DEF Inv, StoreMatchesRows, PrivateRowsHaveBytes, DeletedRowsHaveNoBytes, RowKeys, Over
<1> QED
  BY <1>0, <1>1, <1>3, <1>4, <1>5, <1>6, <1>7, <1>8, KeepRowKeys, KeepJobsFollowRows,
     KeepSubmissionsSpendReceipts, KeepOneSubmissionPerUpload, KeepPublicOnlyThroughApproval,
     KeepDestinationHasOneWriter DEF Inv

\* A call that dies releases its lock.
LEMMA DerivativeCrashesStep ==
    ASSUME Inv, NEW d \in Derivatives, NEW t \in Renders,
           DerivativeCrashes(d, t)
    PROVE  Inv'
<1> USE MediaKinds
<1>0. UNCHANGED <<objects, media, receipt, submission, job, bindings, uploading, worker, sweep>>
  BY DEF DerivativeCrashes, databaseVars, DerivativeVars
<1>f. faults' \in FaultRecords /\ faults.lostAnswers \subseteq faults'.lostAnswers
  BY TypeParts, FaultCounts DEF DerivativeCrashes, Inv
<1>1. TypeOK'
  <2>1. DerivingType'
    BY <1>0, TypeParts, KeysTyped, MediaAssumption DEF DerivativeCrashes, Inv,
       DerivingType
  <2>2. (faults \in FaultRecords)'
    BY <1>f
  <2>3. MediaType' /\ ReceiptType' /\ SubmissionType' /\ JobType' /\ BindingType'
           /\ UploadingType' /\ WorkerType' /\ SweepType' /\ (objects \subseteq Keys)'
    BY <1>0, TypeParts
       DEF Inv, MediaType, ReceiptType, SubmissionType, JobType, BindingType, UploadingType,
       WorkerType, SweepType
  <2> QED
    BY <2>1, <2>2, <2>3, TypeParts, PTL
<1>2. /\ \A e \in Derivatives, r \in Renders : <<e, r>> # <<d, t>> => deriving'[<<e, r>>] = deriving[<<e, r>>]
      /\ deriving'[<<d, t>>] \notin Holding
      /\ faults.lostAnswers \subseteq faults'.lostAnswers
  BY <1>0, <1>f, TypeParts DEF DerivativeCrashes, Holding, Inv, DerivingType
<1>3. PromotedRowsSettle'
  BY <1>0, <1>2 DEF Inv, PromotedRowsSettle, WorkersHoldJobs
<1>4. SourceLockIsHeld'
  BY <1>0, <1>2, LockKeeps DEF Inv
<1>5. StoreMatchesRows'
  BY <1>0, <1>2 DEF Inv, StoreMatchesRows, PrivateRowsHaveBytes, DeletedRowsHaveNoBytes
<1>6. DestinationHasOneWriter'
  BY <1>0, <1>2 DEF Inv, DestinationHasOneWriter, WorkersHoldJobs
<1> QED
  BY <1>0, <1>f, <1>1, <1>3, <1>4, <1>5, <1>6, KeepRowKeys, KeepJobsFollowRows, KeepWorkersHoldJobs,
     KeepSweepsHoldExpired, KeepTriesHoldBytes, KeepSubmissionsSpendReceipts,
     KeepOneSubmissionPerUpload, KeepPublicOnlyThroughApproval DEF Inv

\* What the query lists is expired, and expired rows keep their key.
LEMMA SweepReadsStep ==
    ASSUME Inv, NEW p \in Sweepers,
           SweepReads(p)
    PROVE  Inv'
<1> USE MediaKinds
<1>0. UNCHANGED <<objects, media, receipt, submission, job, bindings, uploading, deriving, worker, faults>>
  BY DEF SweepReads, databaseVars, DerivativeVars
<1>1. TypeOK'
  <2>1. SweepType'
    BY <1>0, TypeParts, KeysTyped, MediaAssumption
       DEF SweepReads, Sweepable, Candidate, DeletableStates, Inv, SweepType, MediaType,
       RowTypes, MediaStates, Candidates
  <2>2. MediaType' /\ ReceiptType' /\ SubmissionType' /\ JobType' /\ BindingType'
           /\ UploadingType' /\ DerivingType' /\ WorkerType' /\ (objects \subseteq Keys)'
           /\ (faults \in FaultRecords)'
    BY <1>0, TypeParts
       DEF Inv, MediaType, ReceiptType, SubmissionType, JobType, BindingType, UploadingType,
       DerivingType, WorkerType
  <2> QED
    BY <2>1, <2>2, TypeParts, PTL
<1>2. /\ \A x \in Sweepers : x # p => sweep'[x] = sweep[x]
      /\ sweep'[p].pc = "next"
      /\ \A c \in sweep'[p].todo : \E m \in Media : Sweepable(m) /\ c = Candidate(m)
  BY <1>0, TypeParts
     DEF SweepReads, Sweepable, Candidate, DeletableStates, Inv, SweepType, Candidates
<1>3. SweepsHoldExpired'
  <2>1. ASSUME NEW m \in Media, Sweepable(m)
        PROVE  StillExpired(Candidate(m))
    <3>1. media[m].expired /\ media[m].state \notin {"none", "promotion_pending"}
      BY <2>1 DEF Inv, Sweepable, DeletableStates, JobsFollowRows, RowKeys
    <3> QED
      BY <3>1 DEF StillExpired, Candidate
  <2>2. \A c : StillExpired(c) => StillExpired(c)'
    BY <1>0 DEF StillExpired
  <2> QED
    BY <1>0, <1>2, <2>1, <2>2 DEF Inv, SweepsHoldExpired
<1> QED
  BY <1>0, <1>1, <1>3, KeepRowKeys, KeepJobsFollowRows, KeepWorkersHoldJobs,
     KeepPromotedRowsSettle, KeepTriesHoldBytes, KeepSourceLockIsHeld,
     KeepSubmissionsSpendReceipts, KeepOneSubmissionPerUpload, KeepPublicOnlyThroughApproval,
     KeepStoreMatchesRows, KeepDestinationHasOneWriter DEF Inv

\* The sweep takes the bytes of an expired row, under which nobody writes
\* again.
LEMMA SweepRemovesStep ==
    ASSUME Inv, NEW p \in Sweepers, NEW c \in sweep[p].todo,
           SweepRemoves(p, c)
    PROVE  Inv'
<1> USE MediaKinds
<1>0. UNCHANGED <<media, receipt, submission, job, bindings, uploading, deriving, worker, faults>>
  BY DEF SweepRemoves, databaseVars, DerivativeVars
<1>1. TypeOK'
  <2>1. SweepType'
    BY <1>0, TypeParts, KeysTyped, MediaAssumption
       DEF SweepRemoves, Inv, SweepType, MediaType, RowTypes, MediaStates, DeletableStates,
       Candidates
  <2>2. (objects \subseteq Keys)'
    BY <1>0, TypeParts, KeysTyped, MediaAssumption
       DEF SweepRemoves, Inv, SweepType, MediaType, RowTypes, MediaStates, DeletableStates,
       Candidates
  <2>3. MediaType' /\ ReceiptType' /\ SubmissionType' /\ JobType' /\ BindingType'
           /\ UploadingType' /\ DerivingType' /\ WorkerType' /\ (faults \in FaultRecords)'
    BY <1>0, TypeParts
       DEF Inv, MediaType, ReceiptType, SubmissionType, JobType, BindingType, UploadingType,
       DerivingType, WorkerType
  <2> QED
    BY <2>1, <2>2, <2>3, TypeParts, PTL
<1>2. /\ \A x \in Sweepers : x # p => sweep'[x] = sweep[x]
      /\ objects' = objects \ {c.key}
      /\ sweep'[p].todo \subseteq sweep[p].todo
      /\ sweep'[p].current = c
  BY <1>0, TypeParts DEF SweepRemoves, Inv, SweepType, Candidates
<1>c. /\ c.id \in Media /\ media[c.id].key = c.key /\ media[c.id].expired
  BY DEF Inv, SweepsHoldExpired, StillExpired
<1>3. WorkersHoldJobs'
  <2>1. ASSUME NEW v \in Workers, worker[v].media \in Uploads, DurableKey(worker[v].media) = c.key
        PROVE  FALSE
    BY <1>c, <2>1, RowsNameOwnKeys DEF Inv, PromotedRowsSettle
  <2> QED
    BY <1>0, <1>2, <2>1 DEF Inv, WorkersHoldJobs
<1>4. PromotedRowsSettle'
  BY <1>0, <1>2, KeyParts, SettledKeys
     DEF Inv, PromotedRowsSettle, WorkersHoldJobs, RowKeys, SweepsHoldExpired, StillExpired
<1>5. SweepsHoldExpired'
  BY <1>0, <1>2 DEF Inv, SweepsHoldExpired, StillExpired
<1>6. TriesHoldBytes'
  <2>1. \A v, t : c.key = StagingKey(v, t) => uploading[<<v, t>>].pc # "staged"
    BY <1>c, RowsNameOwnKeys DEF Inv, Over
  <2> QED
    BY <1>0, <1>2, <2>1 DEF Inv, TriesHoldBytes
<1>7. StoreMatchesRows'
  BY <1>0, <1>2, KeyParts, SettledKeys
     DEF Inv, StoreMatchesRows, PrivateRowsHaveBytes, DeletedRowsHaveNoBytes, RowKeys,
     SweepsHoldExpired, StillExpired
<1> QED
  BY <1>0, <1>1, <1>3, <1>4, <1>5, <1>6, <1>7, KeepRowKeys, KeepJobsFollowRows,
     KeepSourceLockIsHeld, KeepSubmissionsSpendReceipts, KeepOneSubmissionPerUpload,
     KeepPublicOnlyThroughApproval, KeepDestinationHasOneWriter DEF Inv

\* A candidate that was skipped keeps its bytes.
LEMMA SweepRemoveFailsStep ==
    ASSUME Inv, NEW p \in Sweepers, NEW c \in sweep[p].todo,
           SweepRemoveFails(p, c)
    PROVE  Inv'
<1> USE MediaKinds
<1>0. UNCHANGED <<objects, media, receipt, submission, job, bindings, uploading, deriving, worker>>
  BY DEF SweepRemoveFails, databaseVars, DerivativeVars
<1>f. faults' \in FaultRecords /\ faults.lostAnswers \subseteq faults'.lostAnswers
  BY TypeParts, FaultCounts DEF SweepRemoveFails, Inv
<1>1. TypeOK'
  <2>1. SweepType'
    BY <1>0, TypeParts, KeysTyped, MediaAssumption
       DEF SweepRemoveFails, Inv, SweepType, MediaType, RowTypes, MediaStates,
       DeletableStates, Candidates
  <2>2. (faults \in FaultRecords)'
    BY <1>f
  <2>3. MediaType' /\ ReceiptType' /\ SubmissionType' /\ JobType' /\ BindingType'
           /\ UploadingType' /\ DerivingType' /\ WorkerType' /\ (objects \subseteq Keys)'
    BY <1>0, TypeParts
       DEF Inv, MediaType, ReceiptType, SubmissionType, JobType, BindingType, UploadingType,
       DerivingType, WorkerType
  <2> QED
    BY <2>1, <2>2, <2>3, TypeParts, PTL
<1>2. /\ \A x \in Sweepers : x # p => sweep'[x] = sweep[x]
      /\ sweep[p].pc = "next" /\ sweep'[p].pc = "next"
      /\ sweep'[p].todo \subseteq sweep[p].todo
      /\ faults.lostAnswers \subseteq faults'.lostAnswers
  BY <1>0, <1>f, TypeParts DEF SweepRemoveFails, Inv, SweepType, Candidates
<1>3. PromotedRowsSettle'
  BY <1>0, <1>2 DEF Inv, PromotedRowsSettle, WorkersHoldJobs
<1>4. SweepsHoldExpired'
  BY <1>0, <1>2 DEF Inv, SweepsHoldExpired, StillExpired
<1>5. StoreMatchesRows'
  BY <1>0, <1>2 DEF Inv, StoreMatchesRows, PrivateRowsHaveBytes, DeletedRowsHaveNoBytes
<1>6. DestinationHasOneWriter'
  BY <1>0, <1>2 DEF Inv, DestinationHasOneWriter, WorkersHoldJobs
<1> QED
  BY <1>0, <1>f, <1>1, <1>3, <1>4, <1>5, <1>6, KeepRowKeys, KeepJobsFollowRows, KeepWorkersHoldJobs,
     KeepTriesHoldBytes, KeepSourceLockIsHeld, KeepSubmissionsSpendReceipts,
     KeepOneSubmissionPerUpload, KeepPublicOnlyThroughApproval DEF Inv

\* A row is called deleted when its bytes are gone.
LEMMA SweepCommitsStep ==
    ASSUME Inv, NEW p \in Sweepers,
           SweepCommits(p)
    PROVE  Inv'
<1> USE MediaKinds
<1>0. UNCHANGED <<objects, receipt, submission, job, bindings, uploading, deriving, worker, faults>>
  BY DEF SweepCommits, databaseVars, DerivativeVars
<1>1. TypeOK'
  <2>1. MediaType'
    <3> DEFINE c == sweep[p].current
    <3>1. \/ media' = media
          \/ media' = [media EXCEPT ![c.id].state = "deleted", ![c.id].version = @ + 1]
      BY DEF SweepCommits
    <3>2. c.id \in Media
      BY DEF Inv, SweepCommits, SweepsHoldExpired, StillExpired
    <3>3. MediaType /\ "deleted" \in MediaStates
      BY TypeParts DEF Inv, MediaStates
    <3> HIDE DEF c
    <3>4. CASE media' = media
      BY <3>3, <3>4 DEF MediaType
    <3>5. CASE media' = [media EXCEPT ![c.id].state = "deleted", ![c.id].version = @ + 1]
      BY <3>2, <3>3, <3>5, RowMoves
    <3> QED
      BY <3>1, <3>4, <3>5
  <2>2. SweepType'
    <3> DEFINE next == [sweep[p] EXCEPT !.pc = "next"]
               Sweeps == [pc : {"idle", "next", "commit"}, todo : SUBSET Candidates,
                          current : Candidates \cup {NoKey}]
    <3>1. SweepType /\ sweep[p] \in Sweeps
      BY TypeParts DEF Inv, SweepType
    <3>2. next \in Sweeps
      BY <3>1
    <3>3. sweep' = [sweep EXCEPT ![p] = [next EXCEPT !.current = NoKey]]
      BY DEF SweepCommits
    <3> HIDE DEF next
    <3>4. [next EXCEPT !.current = NoKey] \in Sweeps
      BY <3>2
    <3> QED
      BY <3>1, <3>3, <3>4 DEF SweepType
  <2>3. ReceiptType' /\ SubmissionType' /\ JobType' /\ BindingType' /\ UploadingType'
           /\ DerivingType' /\ WorkerType' /\ (objects \subseteq Keys)'
           /\ (faults \in FaultRecords)'
    BY <1>0, TypeParts
       DEF Inv, ReceiptType, SubmissionType, JobType, BindingType, UploadingType, DerivingType,
       WorkerType
  <2> QED
    BY <2>1, <2>2, <2>3, TypeParts, PTL
<1>2. /\ sweep[p].pc = "commit"
      /\ \A x \in Sweepers : x # p => sweep'[x] = sweep[x]
      /\ sweep'[p].pc = "next"
      /\ sweep'[p].todo = sweep[p].todo
  BY TypeParts DEF SweepCommits, Inv, SweepType, Candidates
<1> DEFINE m == sweep[p].current.id
<1>m. /\ m \in Media /\ media[m].expired /\ media[m].key = sweep[p].current.key
      /\ media[m].state \notin {"none", "promotion_pending"}
      /\ media[m].key \notin objects
  BY <1>2 DEF Inv, SweepsHoldExpired, StillExpired
<1>d. \/ UNCHANGED media
      \/ /\ media'[m].state = "deleted" /\ media'[m].expired /\ media'[m].key = media[m].key
         /\ \A x \in Media : x # m => media'[x] = media[x]
  <2>1. \/ UNCHANGED media
        \/ media' = [media EXCEPT ![m].state = "deleted", ![m].version = @ + 1]
    BY DEF SweepCommits
  <2> HIDE DEF m
  <2> QED
    BY <1>m, <2>1, TypeParts, RowMoves DEF Inv, MediaStates
<1> HIDE DEF m
<1>s. \A v \in Uploads : \A k : Settled(v, k) => Settled(v, k)'
  BY <1>0, KeepSettled
<1>3. RowKeys'
  BY <1>0, <1>2, <1>m, <1>d, <1>s DEF Inv, RowKeys
<1>4. JobsFollowRows'
  BY <1>0, <1>2, <1>m, <1>d, <1>s DEF Inv, JobsFollowRows
<1>5. WorkersHoldJobs'
  BY <1>0, <1>2, <1>m, <1>d DEF Inv, WorkersHoldJobs
<1>6. PromotedRowsSettle'
  BY <1>0, <1>2, <1>m, <1>d DEF Inv, PromotedRowsSettle, WorkersHoldJobs
<1>7. SweepsHoldExpired'
  BY <1>0, <1>2, <1>m, <1>d DEF Inv, SweepsHoldExpired, StillExpired
<1>8. SourceLockIsHeld'
  BY <1>0, <1>m, <1>d, LockKeeps DEF Inv
<1>9. SubmissionsSpendReceipts'
  BY <1>0, <1>2, <1>m, <1>d DEF Inv, SubmissionsSpendReceipts
<1>10. PublicOnlyThroughApproval'
  BY <1>0, <1>2, <1>m, <1>d DEF Inv, PublicOnlyThroughApproval
<1>11. StoreMatchesRows'
  BY <1>0, <1>2, <1>m, <1>d DEF Inv, StoreMatchesRows, PrivateRowsHaveBytes,
     DeletedRowsHaveNoBytes
<1>12. DestinationHasOneWriter'
  BY <1>0, <1>2, <1>m, <1>d DEF Inv, DestinationHasOneWriter, WorkersHoldJobs
<1> QED
  BY <1>0, <1>1, <1>3, <1>4, <1>5, <1>6, <1>7, <1>8, <1>9, <1>10, <1>11, <1>12,
     KeepTriesHoldBytes, KeepOneSubmissionPerUpload DEF Inv

\* An empty list ends the invocation.
LEMMA SweepEndsStep ==
    ASSUME Inv, NEW p \in Sweepers,
           SweepEnds(p)
    PROVE  Inv'
<1> USE MediaKinds
<1>0. UNCHANGED <<objects, media, receipt, submission, job, bindings, uploading, deriving, worker, faults>>
  BY DEF SweepEnds, databaseVars, DerivativeVars
<1>1. TypeOK'
  <2>1. SweepType'
    BY <1>0, TypeParts, KeysTyped, MediaAssumption
       DEF SweepEnds, IdleSweep, Inv, SweepType, MediaType, RowTypes, MediaStates,
       DeletableStates, Candidates
  <2>2. MediaType' /\ ReceiptType' /\ SubmissionType' /\ JobType' /\ BindingType'
           /\ UploadingType' /\ DerivingType' /\ WorkerType' /\ (objects \subseteq Keys)'
           /\ (faults \in FaultRecords)'
    BY <1>0, TypeParts
       DEF Inv, MediaType, ReceiptType, SubmissionType, JobType, BindingType, UploadingType,
       DerivingType, WorkerType
  <2> QED
    BY <2>1, <2>2, TypeParts, PTL
<1>2. /\ \A x \in Sweepers : x # p => sweep'[x] = sweep[x]
      /\ sweep'[p].pc = "idle" /\ sweep'[p].todo = {}
  BY <1>0, TypeParts DEF SweepEnds, IdleSweep, Inv, SweepType, Candidates
<1>3. SweepsHoldExpired'
  BY <1>0, <1>2 DEF Inv, SweepsHoldExpired, StillExpired
<1> QED
  BY <1>0, <1>1, <1>3, KeepRowKeys, KeepJobsFollowRows, KeepWorkersHoldJobs,
     KeepPromotedRowsSettle, KeepTriesHoldBytes, KeepSourceLockIsHeld,
     KeepSubmissionsSpendReceipts, KeepOneSubmissionPerUpload, KeepPublicOnlyThroughApproval,
     KeepStoreMatchesRows, KeepDestinationHasOneWriter DEF Inv

\* An invocation that dies forgets what it read.
LEMMA SweepCrashesStep ==
    ASSUME Inv, NEW p \in Sweepers,
           SweepCrashes(p)
    PROVE  Inv'
<1> USE MediaKinds
<1>0. UNCHANGED <<objects, media, receipt, submission, job, bindings, uploading, deriving, worker>>
  BY DEF SweepCrashes, databaseVars, DerivativeVars
<1>f. faults' \in FaultRecords /\ faults.lostAnswers \subseteq faults'.lostAnswers
  BY TypeParts, FaultCounts DEF SweepCrashes, Inv
<1>1. TypeOK'
  <2>1. SweepType'
    BY <1>0, TypeParts, KeysTyped, MediaAssumption
       DEF SweepCrashes, IdleSweep, Inv, SweepType, MediaType, RowTypes, MediaStates,
       DeletableStates, Candidates
  <2>2. (faults \in FaultRecords)'
    BY <1>f
  <2>3. MediaType' /\ ReceiptType' /\ SubmissionType' /\ JobType' /\ BindingType'
           /\ UploadingType' /\ DerivingType' /\ WorkerType' /\ (objects \subseteq Keys)'
    BY <1>0, TypeParts
       DEF Inv, MediaType, ReceiptType, SubmissionType, JobType, BindingType, UploadingType,
       DerivingType, WorkerType
  <2> QED
    BY <2>1, <2>2, <2>3, TypeParts, PTL
<1>2. /\ \A x \in Sweepers : x # p => sweep'[x] = sweep[x]
      /\ sweep'[p].pc = "idle" /\ sweep'[p].todo = {}
      /\ faults.lostAnswers \subseteq faults'.lostAnswers
  BY <1>0, <1>f, TypeParts DEF SweepCrashes, IdleSweep, Inv, SweepType, Candidates
<1>3. PromotedRowsSettle'
  BY <1>0, <1>2 DEF Inv, PromotedRowsSettle, WorkersHoldJobs
<1>4. SweepsHoldExpired'
  BY <1>0, <1>2 DEF Inv, SweepsHoldExpired, StillExpired
<1>5. StoreMatchesRows'
  BY <1>0, <1>2 DEF Inv, StoreMatchesRows, PrivateRowsHaveBytes, DeletedRowsHaveNoBytes
<1>6. DestinationHasOneWriter'
  BY <1>0, <1>2 DEF Inv, DestinationHasOneWriter, WorkersHoldJobs
<1> QED
  BY <1>0, <1>f, <1>1, <1>3, <1>4, <1>5, <1>6, KeepRowKeys, KeepJobsFollowRows, KeepWorkersHoldJobs,
     KeepTriesHoldBytes, KeepSourceLockIsHeld, KeepSubmissionsSpendReceipts,
     KeepOneSubmissionPerUpload, KeepPublicOnlyThroughApproval DEF Inv

\* A receipt that runs out can no longer be spent.
LEMMA ReceiptExpiresStep ==
    ASSUME Inv, NEW u \in Uploads,
           ReceiptExpires(u)
    PROVE  Inv'
<1> USE MediaKinds
<1>0. UNCHANGED <<objects, media, submission, job, bindings, uploading, deriving, worker, sweep, faults>>
  BY DEF ReceiptExpires, databaseVars, DerivativeVars
<1>1. TypeOK'
  <2>1. ReceiptType'
    BY <1>0, TypeParts, KeysTyped, MediaAssumption DEF ReceiptExpires, Inv, ReceiptType
  <2>2. MediaType' /\ SubmissionType' /\ JobType' /\ BindingType' /\ UploadingType'
           /\ DerivingType' /\ WorkerType' /\ SweepType' /\ (objects \subseteq Keys)'
           /\ (faults \in FaultRecords)'
    BY <1>0, TypeParts
       DEF Inv, MediaType, SubmissionType, JobType, BindingType, UploadingType, DerivingType,
       WorkerType, SweepType
  <2> QED
    BY <2>1, <2>2, TypeParts, PTL
<1>2. /\ \A x \in Uploads : x # u => receipt'[x] = receipt[x]
      /\ receipt'[u].state = receipt[u].state
  BY <1>0, TypeParts DEF ReceiptExpires, Inv, ReceiptType
<1>3. SubmissionsSpendReceipts'
  BY <1>0, <1>2 DEF Inv, SubmissionsSpendReceipts
<1> QED
  BY <1>0, <1>1, <1>3, KeepRowKeys, KeepJobsFollowRows, KeepWorkersHoldJobs,
     KeepPromotedRowsSettle, KeepSweepsHoldExpired, KeepTriesHoldBytes, KeepSourceLockIsHeld,
     KeepOneSubmissionPerUpload, KeepPublicOnlyThroughApproval, KeepStoreMatchesRows,
     KeepDestinationHasOneWriter DEF Inv

\* A row expires only when no promotion worker is left on it.
LEMMA MediaExpiresStep ==
    ASSUME Inv, NEW m \in Media,
           MediaExpires(m)
    PROVE  Inv'
<1> USE MediaKinds
<1>0. UNCHANGED <<objects, receipt, submission, job, bindings, uploading, deriving, worker, sweep, faults>>
  BY DEF MediaExpires, databaseVars, DerivativeVars
<1>1. TypeOK'
  <2>1. MediaType'
    <3> DEFINE r == [media[m] EXCEPT !.expired = TRUE]
    <3>1. MediaType /\ media' = [media EXCEPT ![m] = r]
      BY TypeParts DEF Inv, MediaExpires
    <3>2. r \in RowTypes
      BY <3>1 DEF MediaType, RowTypes
    <3> HIDE DEF r
    <3> QED
      BY <3>1, <3>2, RowChanges
  <2>2. ReceiptType' /\ SubmissionType' /\ JobType' /\ BindingType' /\ UploadingType'
           /\ DerivingType' /\ WorkerType' /\ SweepType' /\ (objects \subseteq Keys)'
           /\ (faults \in FaultRecords)'
    BY <1>0, TypeParts
       DEF Inv, ReceiptType, SubmissionType, JobType, BindingType, UploadingType, DerivingType,
       WorkerType, SweepType
  <2> QED
    BY <2>1, <2>2, TypeParts, PTL
<1>2. /\ media[m].state # "none"
      /\ \A w \in Workers : worker[w].media # m
      /\ \A x \in Media : x # m => media'[x] = media[x]
      /\ media'[m].state = media[m].state
      /\ media'[m].key = media[m].key
      /\ media'[m].expired = TRUE
  BY <1>0, TypeParts DEF MediaExpires, Inv, MediaType, RowTypes
<1>s. \A v \in Uploads : \A k : Settled(v, k) => Settled(v, k)'
  BY <1>0, KeepSettled
<1>3. RowKeys'
  BY <1>0, <1>2, <1>s DEF Inv, RowKeys
<1>4. JobsFollowRows'
  BY <1>0, <1>2, <1>s DEF Inv, JobsFollowRows
<1>5. WorkersHoldJobs'
  BY <1>0, <1>2 DEF Inv, WorkersHoldJobs
<1>6. PromotedRowsSettle'
  BY <1>0, <1>2 DEF Inv, PromotedRowsSettle, WorkersHoldJobs
<1>7. SweepsHoldExpired'
  BY <1>0, <1>2 DEF Inv, SweepsHoldExpired, StillExpired
<1>8. SourceLockIsHeld'
  BY <1>0, <1>2, LockKeeps DEF Inv
<1>9. SubmissionsSpendReceipts'
  BY <1>0, <1>2 DEF Inv, SubmissionsSpendReceipts
<1>10. PublicOnlyThroughApproval'
  BY <1>0, <1>2 DEF Inv, PublicOnlyThroughApproval
<1>11. StoreMatchesRows'
  BY <1>0, <1>2 DEF Inv, StoreMatchesRows, PrivateRowsHaveBytes, DeletedRowsHaveNoBytes
<1>12. DestinationHasOneWriter'
  BY <1>0, <1>2 DEF Inv, DestinationHasOneWriter, WorkersHoldJobs
<1> QED
  BY <1>0, <1>1, <1>3, <1>4, <1>5, <1>6, <1>7, <1>8, <1>9, <1>10, <1>11, <1>12,
     KeepTriesHoldBytes, KeepOneSubmissionPerUpload DEF Inv

\* A binding that runs out publishes nothing.
LEMMA BindingExpiresStep ==
    ASSUME Inv, NEW b \in bindings,
           BindingExpires(b)
    PROVE  Inv'
<1> USE MediaKinds
<1>0. UNCHANGED <<objects, media, receipt, submission, job, uploading, deriving, worker, sweep, faults>>
  BY DEF BindingExpires, databaseVars, DerivativeVars
<1>1. TypeOK'
  <2>1. BindingType'
    BY <1>0, TypeParts, KeysTyped, MediaAssumption DEF BindingExpires, Inv, BindingType
  <2>2. MediaType' /\ ReceiptType' /\ SubmissionType' /\ JobType' /\ UploadingType'
           /\ DerivingType' /\ WorkerType' /\ SweepType' /\ (objects \subseteq Keys)'
           /\ (faults \in FaultRecords)'
    BY <1>0, TypeParts
       DEF Inv, MediaType, ReceiptType, SubmissionType, JobType, UploadingType, DerivingType,
       WorkerType, SweepType
  <2> QED
    BY <2>1, <2>2, TypeParts, PTL
<1> QED
  BY <1>0, <1>1, KeepRowKeys, KeepJobsFollowRows, KeepWorkersHoldJobs, KeepPromotedRowsSettle,
     KeepSweepsHoldExpired, KeepTriesHoldBytes, KeepSourceLockIsHeld,
     KeepSubmissionsSpendReceipts, KeepOneSubmissionPerUpload, KeepPublicOnlyThroughApproval,
     KeepStoreMatchesRows, KeepDestinationHasOneWriter DEF Inv

-----------------------------------------------------------------------------
(* The invariant holds in every reachable state.                           *)

\* Nothing is stored and no call is under way.
LEMMA InitInv == Init => Inv
<1> SUFFICES ASSUME Init PROVE Inv
  OBVIOUS
<1> USE MediaKinds
<1>i. /\ objects = {} /\ bindings = {} /\ faults = [count |-> 0, lostAnswers |-> {}]
      /\ \A m \in Media : media[m].state = "none" /\ media[m].key = NoKey
      /\ \A u \in Uploads : job[u].state = "none"
      /\ \A s \in Submissions : submission[s].state = "none" /\ submission[s].media = NoKey
      /\ \A u \in Uploads, t \in Tries : uploading[<<u, t>>].pc = "idle"
      /\ \A d \in Derivatives, t \in Renders : deriving[<<d, t>>] = "idle"
      /\ \A w \in Workers : worker[w].pc = "idle" /\ worker[w].media = NoKey
      /\ \A p \in Sweepers : sweep[p].pc = "idle" /\ sweep[p].todo = {}
  BY DEF Init, NoRow, NoPromotion, NoSubmission, IdleUpload, IdleWorker, IdleSweep
<1>1. TypeOK
  <2>1. MediaType
    <3>1. NoRow \in RowTypes
      BY KeysTyped DEF NoRow, RowTypes, MediaStates
    <3> QED
      BY <3>1 DEF Init, MediaType
  <2>2. ReceiptType
    BY DEF Init, ReceiptType, NoReceipt
  <2>3. SubmissionType
    BY DEF Init, SubmissionType, NoSubmission
  <2>4. JobType
    <3>1. NoPromotion \in [state : JobStates, attempts : 0 .. MaxAttempts,
                           owner : Workers \cup {NoKey}, lease : BOOLEAN, source : Keys]
      BY KeysTyped, MediaAssumption DEF NoPromotion, JobStates
    <3> QED
      BY <3>1 DEF Init, JobType
  <2>5. UploadingType
    BY DEF Init, UploadingType, UploadCalls, IdleUpload
  <2>6. DerivingType
    BY DEF Init, DerivingType
  <2>7. WorkerType
    BY MediaAssumption DEF Init, WorkerType, IdleWorker
  <2>8. SweepType
    BY DEF Init, SweepType, IdleSweep
  <2>9. faults \in FaultRecords
    BY <1>i, MediaAssumption DEF FaultRecords
  <2> QED
    BY <1>i, <2>1, <2>2, <2>3, <2>4, <2>5, <2>6, <2>7, <2>8, <2>9, TypeParts DEF BindingType
<1>2. RowKeys /\ JobsFollowRows
  BY <1>i, KeyParts DEF RowKeys, JobsFollowRows
<1>3. WorkersHoldJobs /\ PromotedRowsSettle /\ DestinationHasOneWriter
  BY <1>i, KeyParts DEF WorkersHoldJobs, PromotedRowsSettle, DestinationHasOneWriter
<1>4. SweepsHoldExpired /\ TriesHoldBytes /\ SourceLockIsHeld
  BY <1>i DEF SweepsHoldExpired, TriesHoldBytes, SourceLockIsHeld, Holding
<1>5. SubmissionsSpendReceipts /\ OneSubmissionPerUpload /\ PublicOnlyThroughApproval
  BY <1>i DEF SubmissionsSpendReceipts, OneSubmissionPerUpload, PublicOnlyThroughApproval
<1>6. StoreMatchesRows
  BY <1>i DEF StoreMatchesRows, PrivateRowsHaveBytes, DeletedRowsHaveNoBytes
<1> QED
  BY <1>1, <1>2, <1>3, <1>4, <1>5, <1>6 DEF Inv

\* A step of something else.
LEMMA StutterStep == Inv /\ UNCHANGED vars => Inv'
<1> SUFFICES ASSUME Inv, UNCHANGED vars PROVE Inv'
  OBVIOUS
<1>0. UNCHANGED <<objects, media, receipt, submission, job, bindings, uploading, deriving, worker, sweep, faults>>
  BY DEF vars, databaseVars
<1>1. TypeOK'
  <2>1. MediaType' /\ ReceiptType' /\ SubmissionType' /\ JobType' /\ BindingType'
           /\ UploadingType' /\ DerivingType' /\ WorkerType' /\ SweepType'
           /\ (objects \subseteq Keys)' /\ (faults \in FaultRecords)'
    BY <1>0, TypeParts
       DEF Inv, MediaType, ReceiptType, SubmissionType, JobType, BindingType, UploadingType,
       DerivingType, WorkerType, SweepType
  <2> QED
    BY <2>1, TypeParts, PTL
<1> QED
  BY <1>0, <1>1, KeepRowKeys, KeepJobsFollowRows, KeepWorkersHoldJobs, KeepPromotedRowsSettle,
     KeepSweepsHoldExpired, KeepTriesHoldBytes, KeepSourceLockIsHeld,
     KeepSubmissionsSpendReceipts, KeepOneSubmissionPerUpload, KeepPublicOnlyThroughApproval,
     KeepStoreMatchesRows, KeepDestinationHasOneWriter DEF Inv

\* Every step of the pipeline keeps the invariant.
LEMMA NextStep == Inv /\ Next => Inv'
<1> SUFFICES ASSUME Inv, Next PROVE Inv'
  OBVIOUS
<1>1. ASSUME NEW u \in Uploads, NEW t \in Tries,
             \/ \E c \in Contents : StageUpload(u, t, c)
             \/ CommitUpload(u, t) \/ UploadTransactionFails(u, t)
             \/ UploadAnswerLost(u, t) \/ DiscardStaged(u, t) \/ UploadCrashes(u, t)
      PROVE  Inv'
  BY <1>1, StageUploadStep, CommitUploadStep, UploadTransactionFailsStep,
     UploadAnswerLostStep, DiscardStagedStep, UploadCrashesStep
<1>2. ASSUME NEW w \in Workers,
             \/ \E u \in Uploads : ClaimPromotion(w, u)
             \/ ContinuePromotion(w) \/ WriteAnswerLost(w) \/ VerifyFails(w) \/ FinalizeFails(w)
             \/ FinalizeAnswerLost(w) \/ WorkerCrashes(w)
      PROVE  Inv'
  BY <1>2, ClaimPromotionStep, ReadSourceStep, WriteDestinationStep, FinalizePromotionStep,
     RemoveDestinationStep, RemoveSourceStep, RecordPromotionFailureStep, WriteAnswerLostStep,
     VerifyFailsStep, FinalizeFailsStep, FinalizeAnswerLostStep, WorkerCrashesStep
  DEF ContinuePromotion
<1>3. ASSUME NEW d \in Derivatives, NEW t \in Renders,
             \/ BeginDerivative(d, t) \/ WriteDerivative(d, t) \/ CommitDerivative(d, t)
             \/ DerivativeTransactionFails(d, t) \/ DerivativeAnswerLost(d, t)
             \/ CleanUpDerivative(d, t) \/ DerivativeCrashes(d, t)
      PROVE  Inv'
  BY <1>3, BeginDerivativeStep, WriteDerivativeStep, CommitDerivativeStep,
     DerivativeTransactionFailsStep, DerivativeAnswerLostStep, CleanUpDerivativeStep,
     DerivativeCrashesStep
<1>4. ASSUME NEW p \in Sweepers,
             \/ Sweep(p) \/ SweepCrashes(p)
             \/ \E c \in sweep[p].todo : SweepRemoveFails(p, c)
      PROVE  Inv'
  BY <1>4, SweepReadsStep, SweepRemovesStep, SweepRemoveFailsStep, SweepCommitsStep,
     SweepEndsStep, SweepCrashesStep DEF Sweep
<1>5. ASSUME \/ \E s \in Submissions, u \in Uploads : CreatePrivateSubmission(s, u)
             \/ \E u \in Uploads, v \in {"approved_private", "rejected"} : ReviewPrivateMedia(u, v)
             \/ \E s \in Submissions, a \in {"start_review", "request_changes", "reject"} :
                   ModerateSubmission(s, a)
             \/ \E s \in Submissions, d \in Derivatives, o \in Operators :
                   ApproveSubmission(s, d, o) \/ IssueMediaBindingReceipt(d, s, o)
             \/ \E d \in Derivatives : RemovePublicMedia(d)
      PROVE  Inv'
  BY <1>5, CreatePrivateSubmissionStep, ReviewPrivateMediaStep, ModerateSubmissionStep,
     ApproveSubmissionStep, IssueMediaBindingReceiptStep, RemovePublicMediaStep
<1>6. ASSUME \/ \E u \in Uploads : PromotionLeaseExpires(u) \/ ReceiptExpires(u)
             \/ \E m \in Media : MediaExpires(m)
             \/ \E b \in bindings : BindingExpires(b)
      PROVE  Inv'
  BY <1>6, PromotionLeaseExpiresStep, ReceiptExpiresStep, MediaExpiresStep, BindingExpiresStep
<1> QED
  BY <1>1, <1>2, <1>3, <1>4, <1>5, <1>6 DEF Next

\* The invariant of the argument: who may still write or remove an object.
LEMMA Invariance == Spec => []Inv
<1>1. Inv /\ [Next]_vars => Inv'
  BY NextStep, StutterStep
<1> QED
  BY <1>1, InitInv, PTL DEF Spec

\* Whatever is retried, overtaken or swept: until its deadline a private row's
\* bytes are in the store, unless the answer of the transaction that staged or
\* promoted this very row was lost; and a deleted row has none.
THEOREM StoreMatches == Spec => []StoreMatchesRows
<1>1. Inv => StoreMatchesRows
  BY DEF Inv
<1> QED
  BY <1>1, Invariance, PTL

\* Of any number of promotion workers, leased, overtaken or late, one at most
\* has written the durable object of an upload, and what it will remove is
\* named by no row but one whose own promotion lost its answer.
THEOREM OneWriter == Spec => []DestinationHasOneWriter
<1>1. Inv => DestinationHasOneWriter
  BY DEF Inv
<1> QED
  BY <1>1, Invariance, PTL

\* The four tables keep their types, an upload belongs to one submission, and
\* what is public was approved with its submission.
THEOREM RowsAgree == Spec => []MediaRowsAgree
<1>1. Inv => MediaRowsAgree
  BY DEF Inv, MediaRowsAgree
<1> QED
  BY <1>1, Invariance, PTL

-----------------------------------------------------------------------------
(* No terminal state is left.                                              *)

Final(state) == state \in {"promotion_failed", "rejected", "removed", "deleted"}

RevivesNone ==
    /\ \A s \in Submissions :
          submission[s].state \in {"approved", "rejected"} => submission'[s] = submission[s]
    /\ \A m \in Media : Final(media[m].state) => media'[m].state \in {media[m].state, "deleted"}

\* A row that changes was not final, or is deleted.
LEMMA RowsOnly ==
    ASSUME submission' = submission, NEW x,
           \A m \in Media : m # x => media'[m] = media[m],
           x \in Media => ~Final(media[x].state) \/ media'[x].state \in {media[x].state, "deleted"}
    PROVE  RevivesNone
  BY DEF RevivesNone

\* A step that leaves submissions and media rows alone revives nothing.
LEMMA NothingMoves == UNCHANGED <<submission, media>> => RevivesNone
  BY DEF RevivesNone

\* Moderation and the public rows.
LEMMA ModerationRevivesNone ==
    ASSUME Inv,
           \/ \E s \in Submissions, u \in Uploads : CreatePrivateSubmission(s, u)
           \/ \E u \in Uploads, v \in {"approved_private", "rejected"} : ReviewPrivateMedia(u, v)
           \/ \E s \in Submissions, a \in {"start_review", "request_changes", "reject"} :
                 ModerateSubmission(s, a)
           \/ \E s \in Submissions, d \in Derivatives, o \in Operators :
                 ApproveSubmission(s, d, o) \/ IssueMediaBindingReceipt(d, s, o)
           \/ \E d \in Derivatives : RemovePublicMedia(d)
    PROVE  RevivesNone
<1>t. MediaType /\ SubmissionType
  BY TypeParts DEF Inv
<1>m. \A m \in Uploads \cup Derivatives : m \in Media
  BY MediaKinds
<1>1. ASSUME NEW s \in Submissions, NEW u \in Uploads, CreatePrivateSubmission(s, u)
      PROVE  RevivesNone
  <2>1. /\ submission[s].state = "none" /\ media[u].state = "staged"
        /\ submission' = [submission EXCEPT ![s] = NewSubmission(u)]
        /\ media' = [media EXCEPT ![u].state = "promotion_pending", ![u].version = @ + 1]
    BY <1>1 DEF CreatePrivateSubmission, ReceiptUsable
  <2>2. \A x \in Media : x # u => media'[x] = media[x]
    BY <1>t, <2>1 DEF MediaType
  <2>3. \A x \in Submissions : x # s => submission'[x] = submission[x]
    BY <1>t, <2>1 DEF SubmissionType
  <2> QED
    BY <2>1, <2>2, <2>3 DEF RevivesNone, Final
<1>2. ASSUME NEW u \in Uploads, NEW v \in {"approved_private", "rejected"}, ReviewPrivateMedia(u, v)
      PROVE  RevivesNone
  <2>1. /\ media[u].state = "quarantined" /\ UNCHANGED submission
        /\ media' = [media EXCEPT ![u].state = v, ![u].version = @ + 1]
    BY <1>2 DEF ReviewPrivateMedia
  <2>2. \A x \in Media : x # u => media'[x] = media[x]
    BY <1>t, <2>1 DEF MediaType
  <2> QED
    BY <2>1, <2>2, RowsOnly DEF Final
<1>3. ASSUME NEW s \in Submissions, NEW a \in {"start_review", "request_changes", "approve", "reject"},
             MayModerate(s, a)
      PROVE  submission[s].state \notin {"approved", "rejected"}
  <2>1. submission[s].state \in SubmissionStates
    BY <1>t, <1>3 DEF MayModerate, SubmissionType
  <2>2. \A from \in {"approved", "rejected"} : SubmissionTransitions[from] = {}
    BY DEF SubmissionTransitions, SubmissionStates
  <2> QED
    BY <1>3, <2>1, <2>2 DEF MayModerate
<1>4. ASSUME NEW s \in Submissions, NEW a \in {"start_review", "request_changes", "reject"},
             ModerateSubmission(s, a)
      PROVE  RevivesNone
  <2>1. /\ submission[s].state \notin {"approved", "rejected"} /\ UNCHANGED media
        /\ submission' = [submission EXCEPT ![s].state = NextSubmissionState(a)]
    BY <1>3, <1>4 DEF ModerateSubmission
  <2>2. \A x \in Submissions : x # s => submission'[x] = submission[x]
    BY <1>t, <2>1 DEF SubmissionType
  <2> QED
    BY <2>1, <2>2 DEF RevivesNone
<1>5. ASSUME NEW s \in Submissions, NEW d \in Derivatives, NEW o \in Operators,
             ApproveSubmission(s, d, o)
      PROVE  RevivesNone
  <2>1. /\ submission[s].state \notin {"approved", "rejected"}
        /\ media[d].state = "redacted_derivative"
        /\ submission' = [submission EXCEPT ![s].state = "approved"]
        /\ media' = [media EXCEPT ![d].state = "approved_public", ![d].version = @ + 1]
    BY <1>3, <1>5 DEF ApproveSubmission
  <2>2. \A x \in Media : x # d => media'[x] = media[x]
    BY <1>t, <2>1 DEF MediaType
  <2>3. \A x \in Submissions : x # s => submission'[x] = submission[x]
    BY <1>t, <2>1 DEF SubmissionType
  <2> QED
    BY <2>1, <2>2, <2>3 DEF RevivesNone, Final
<1>6. ASSUME NEW d \in Derivatives, RemovePublicMedia(d)
      PROVE  RevivesNone
  <2>1. /\ media[d].state = "approved_public" /\ UNCHANGED submission
        /\ media' = [media EXCEPT ![d].state = "removed", ![d].version = @ + 1]
    BY <1>6 DEF RemovePublicMedia
  <2>2. \A x \in Media : x # d => media'[x] = media[x]
    BY <1>t, <2>1 DEF MediaType
  <2> QED
    BY <2>1, <2>2, RowsOnly DEF Final
<1>7. ASSUME NEW s \in Submissions, NEW d \in Derivatives, NEW o \in Operators,
             IssueMediaBindingReceipt(d, s, o)
      PROVE  RevivesNone
  BY <1>7, NothingMoves DEF IssueMediaBindingReceipt
<1> QED
  BY <1>1, <1>2, <1>4, <1>5, <1>6, <1>7

\* Uploads, promotion, derivatives, the sweep and the deadlines.
LEMMA CommitUploadRevivesNone ==
    ASSUME Inv, NEW u \in Uploads, NEW t \in Tries,
           CommitUpload(u, t) \/ UploadAnswerLost(u, t)
    PROVE  RevivesNone
<1>1. CASE media[u].state = "none"
  <2>1. media' = media \/ \A x \in Media : x # u => media'[x] = media[x]
    BY TypeParts DEF Inv, CommitUpload, UploadAnswerLost, StagedRow, MediaType
  <2>2. UNCHANGED submission
    BY DEF CommitUpload, UploadAnswerLost
  <2> QED
    BY <1>1, <2>1, <2>2, RowsOnly, NothingMoves DEF Final
<1>2. CASE media[u].state # "none"
  <2>1. UNCHANGED <<submission, media>>
    BY <1>2 DEF CommitUpload, UploadAnswerLost, UploadDisposition
  <2> QED
    BY <2>1, NothingMoves
<1> QED
  BY <1>1, <1>2

\* A promotion worker changes only a row that still waits for it.
LEMMA WorkerRevivesNone ==
    ASSUME Inv, NEW w \in Workers,
           \/ FinalizePromotion(w) \/ FinalizeAnswerLost(w) \/ RecordPromotionFailure(w)
    PROVE  RevivesNone
<1> DEFINE u == worker[w].media
<1>1. MediaType /\ UNCHANGED submission
  BY TypeParts DEF Inv, FinalizePromotion, FinalizeAnswerLost, RecordPromotionFailure
<1>2. \/ UNCHANGED media
      \/ /\ media[u].state = "promotion_pending"
         /\ \/ media' = [media EXCEPT ![u].state = "quarantined", ![u].key = DurableKey(u),
                                      ![u].version = @ + 1, ![u].expired = FALSE]
            \/ media' = [media EXCEPT ![u].state = "promotion_failed", ![u].version = @ + 1]
  <2>1. CASE FinalizePromotion(w) \/ FinalizeAnswerLost(w)
    BY <2>1 DEF FinalizePromotion, FinalizeAnswerLost, MayFinalize, Promoted
  <2>2. CASE RecordPromotionFailure(w)
    BY <2>2 DEF RecordPromotionFailure
  <2> QED
    BY <2>1, <2>2
<1> HIDE DEF u
<1>3. CASE UNCHANGED media
  BY <1>1, <1>3, NothingMoves
<1>4. CASE media[u].state = "promotion_pending" /\ ~UNCHANGED media
  <2>1. \A x \in Media : x # u => media'[x] = media[x]
    BY <1>1, <1>2, <1>4 DEF MediaType
  <2> QED
    BY <1>1, <1>4, <2>1, RowsOnly DEF Final
<1> QED
  BY <1>2, <1>3, <1>4

\* A derivative's row is created once, where there was none.
LEMMA CommitDerivativeRevivesNone ==
    ASSUME Inv, NEW d \in Derivatives, NEW t \in Renders,
           CommitDerivative(d, t) \/ DerivativeAnswerLost(d, t)
    PROVE  RevivesNone
<1>1. media[d].state = "none"
  BY DEF Inv, SourceLockIsHeld, CommitDerivative, DerivativeAnswerLost, Holding
<1>2. UNCHANGED submission /\ \A x \in Media : x # d => media'[x] = media[x]
  BY TypeParts
  DEF Inv, CommitDerivative, DerivativeAnswerLost, DerivativeRow, DerivativeVars, MediaType
<1> QED
  BY <1>1, <1>2, RowsOnly DEF Final

\* The sweep changes a row to deleted or not at all.
LEMMA SweepRevivesNone ==
    ASSUME Inv, NEW p \in Sweepers, SweepCommits(p)
    PROVE  RevivesNone
<1> DEFINE m == sweep[p].current.id
<1>1. MediaType /\ UNCHANGED submission
  BY TypeParts DEF Inv, SweepCommits
<1>2. UNCHANGED media \/ media' = [media EXCEPT ![m].state = "deleted", ![m].version = @ + 1]
  BY DEF SweepCommits
<1>3. CASE UNCHANGED media
  BY <1>1, <1>3, NothingMoves
<1>4. CASE media' = [media EXCEPT ![m].state = "deleted", ![m].version = @ + 1]
  <2> HIDE DEF m
  <2>1. \A x \in Media : x # m => media'[x] = media[x]
    BY <1>1, <1>4 DEF MediaType
  <2>2. m \in Media => media'[m].state = "deleted"
    BY <1>1, <1>4, RowMoves DEF MediaStates
  <2> QED
    BY <1>1, <2>1, <2>2, RowsOnly
<1> QED
  BY <1>2, <1>3, <1>4

\* A deadline is no state.
LEMMA DeadlineRevivesNone ==
    ASSUME Inv, NEW m \in Media, MediaExpires(m)
    PROVE  RevivesNone
<1>1. MediaType /\ UNCHANGED submission /\ media' = [media EXCEPT ![m].expired = TRUE]
  BY TypeParts DEF Inv, MediaExpires
<1>2. /\ \A x \in Media : x # m => media'[x] = media[x]
      /\ media'[m].state = media[m].state
  BY <1>1 DEF MediaType, RowTypes
<1> QED
  BY <1>1, <1>2, RowsOnly

\* No step of the pipeline revives a decided row.
LEMMA StepRevivesNone == Inv /\ [Next]_vars => RevivesNone
<1> SUFFICES ASSUME Inv, [Next]_vars PROVE RevivesNone
  OBVIOUS
<1>0. CASE UNCHANGED vars
  BY <1>0, NothingMoves DEF vars, databaseVars
<1>1. ASSUME NEW u \in Uploads, NEW t \in Tries,
             \/ \E c \in Contents : StageUpload(u, t, c)
             \/ CommitUpload(u, t) \/ UploadTransactionFails(u, t)
             \/ UploadAnswerLost(u, t) \/ DiscardStaged(u, t) \/ UploadCrashes(u, t)
      PROVE  RevivesNone
  BY <1>1, CommitUploadRevivesNone, NothingMoves
  DEF StageUpload, UploadTransactionFails, DiscardStaged, UploadCrashes, databaseVars
<1>2. ASSUME NEW w \in Workers,
             \/ \E u \in Uploads : ClaimPromotion(w, u)
             \/ ContinuePromotion(w) \/ WriteAnswerLost(w) \/ VerifyFails(w) \/ FinalizeFails(w)
             \/ FinalizeAnswerLost(w) \/ WorkerCrashes(w)
      PROVE  RevivesNone
  <2>1. CASE FinalizePromotion(w) \/ FinalizeAnswerLost(w) \/ RecordPromotionFailure(w)
    BY <2>1, WorkerRevivesNone
  <2>2. CASE ~(FinalizePromotion(w) \/ FinalizeAnswerLost(w) \/ RecordPromotionFailure(w))
    <3>1. UNCHANGED <<submission, media>>
      BY <1>2, <2>2 DEF ContinuePromotion, ClaimPromotion, ReadSource, WriteDestination,
         RemoveDestination,
         RemoveSource, WriteAnswerLost, VerifyFails, FinalizeFails, WorkerCrashes, databaseVars
    <3> QED
      BY <3>1, NothingMoves
  <2> QED
    BY <2>1, <2>2
<1>3. ASSUME NEW d \in Derivatives, NEW t \in Renders,
             \/ BeginDerivative(d, t) \/ WriteDerivative(d, t) \/ CommitDerivative(d, t)
             \/ DerivativeTransactionFails(d, t) \/ DerivativeAnswerLost(d, t)
             \/ CleanUpDerivative(d, t) \/ DerivativeCrashes(d, t)
      PROVE  RevivesNone
  BY <1>3, CommitDerivativeRevivesNone, NothingMoves
  DEF BeginDerivative, WriteDerivative, DerivativeTransactionFails, CleanUpDerivative,
      DerivativeCrashes, DerivativeVars
<1>4. ASSUME NEW p \in Sweepers,
             \/ Sweep(p) \/ SweepCrashes(p)
             \/ \E c \in sweep[p].todo : SweepRemoveFails(p, c)
      PROVE  RevivesNone
  BY <1>4, SweepRevivesNone, NothingMoves
  DEF Sweep, SweepReads, SweepRemoves, SweepEnds, SweepCrashes, SweepRemoveFails, databaseVars
<1>5. ASSUME \/ \E u \in Uploads : PromotionLeaseExpires(u) \/ ReceiptExpires(u)
             \/ \E m \in Media : MediaExpires(m)
             \/ \E b \in bindings : BindingExpires(b)
      PROVE  RevivesNone
  BY <1>5, DeadlineRevivesNone, NothingMoves
     DEF PromotionLeaseExpires, ReceiptExpires, BindingExpires
<1> QED
  BY <1>0, <1>1, <1>2, <1>3, <1>4, <1>5, ModerationRevivesNone DEF Next

\* However old the request, the claim or the sweep's list: a decided
\* submission is not decided again, and a failed, rejected, removed or deleted
\* photograph is at most deleted.
THEOREM NothingComesBack == Spec => NothingIsRevived
<1>1. Inv /\ [Next]_vars => RevivesNone
  BY StepRevivesNone
<1>2. RevivesNone =>
        /\ \A s \in Submissions :
              submission[s].state \in {"approved", "rejected"} => submission'[s] = submission[s]
        /\ \A m \in Media :
              media[m].state \in {"promotion_failed", "rejected", "removed", "deleted"} =>
                  media'[m].state \in {media[m].state, "deleted"}
  BY DEF RevivesNone, Final
<1> QED
  BY <1>1, <1>2, Invariance, PTL DEF Spec, NothingIsRevived
=============================================================================
