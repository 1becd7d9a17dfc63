--------------------------- MODULE MediaPipeline ----------------------------
(***************************************************************************)
(* A private photograph from upload to deletion: staging, the submission   *)
(* that attaches it, promotion to durable storage, human review, the       *)
(* redacted derivative that approval makes public, and the retention       *)
(* sweep.  The object store and the database are two systems: every        *)
(* service changes one, then the other, and may be overtaken or die in     *)
(* between.                                                                *)
(*                                                                         *)
(* A database transaction is one action, except createPublicDerivative's,  *)
(* which reads and writes the object store while it holds its locks.       *)
(* Bytes are never overwritten, so a stored object is present or absent.   *)
(* Wall-clock time is abstracted to one flag per deadline, raised at any   *)
(* moment.  Identifiers derived from an idempotency key are that key: the  *)
(* uploads are the media rows, a submission is its key.                    *)
(***************************************************************************)
EXTENDS Naturals, Workflow

CONSTANTS
    Uploads,        \* idempotency keys of uploads, which are media ids
    MaxTries,       \* bound: requests a client makes with one key
    Contents,       \* normalised images a client may send
    MaxSubmissions, \* bound: submissions, numbered in the order they are accepted
    DerivativeKeys, \* idempotency keys of derivatives of one source
    Renders,        \* createPublicDerivative calls in parallel for one key
    Operators,      \* moderators
    Workers,        \* invocations of processMediaPromotion
    Sweepers,       \* invocations of sweepExpiredMedia
    AttemptLimit,   \* attempts after which a failure is a dead letter: 5 in the code
    MaxAttempts,    \* bound: attempt_count stops counting here
    MaxFaults,      \* bound: crashes, failed transactions and lost answers
    Faults          \* which of AllFaults may happen

AllFaults == { "crash",        \* a process dies between two steps
               "transaction",  \* a transaction fails and has no effect
               "commit_answer",\* a transaction commits but the caller sees an error
               "storage",      \* a storage call fails and has no effect
               "write_answer" }\* an object is written but the caller sees an error

Tries == 1 .. MaxTries
Submissions == 1 .. MaxSubmissions
Derivatives == Uploads \X DerivativeKeys
Media == Uploads \cup Derivatives
Source(d) == d[1]
NoKey == <<"none">>

\* An upload id is neither a derivative id nor the null key.
ASSUME MediaAssumption ==
    /\ Uploads \cap Derivatives = {} /\ NoKey \notin Media
    /\ MaxTries \in Nat /\ MaxSubmissions \in Nat
    /\ AttemptLimit \in Nat /\ MaxAttempts \in Nat /\ AttemptLimit <= MaxAttempts
    /\ MaxFaults \in Nat /\ Faults \subseteq AllFaults

VARIABLES
    objects,    \* keys under which the object store holds bytes
    media,      \* nagarik.media_objects
    receipt,    \* the submission_media capability of an upload
    submission, \* nagarik.submissions with its submission_media link
    job,        \* the media_promote outbox job of an upload
    bindings,   \* active operator_media capabilities: derivative, target, issuer
    uploading,  \* createStagedUpload calls
    deriving,   \* createPublicDerivative calls
    worker,     \* processMediaPromotion calls
    sweep,      \* sweepExpiredMedia calls
    faults      \* how many faults so far, and the rows whose commit lost its answer

databaseVars == <<media, receipt, submission, job, bindings>>
vars == <<objects, databaseVars, uploading, deriving, worker, sweep, faults>>

-----------------------------------------------------------------------------
(* Storage keys.                                                           *)

\* Mutant: the staging key is a function of the media id.
StagingKey_PerUpload(u, t) == <<"staging", u>>

\* newStagingStorageKey draws a random component, so each try has its own key.
StagingKey(u, t) == <<"staging", u, t>>
\* durableKey is a function of the media id: every promotion writes here.
DurableKey(u) == <<"durable", u>>
\* derivativeStorageKey is a function of source and derivative id.
DerivativeKey(d) == <<"derivative", d>>

\* Mutant: an existing object is overwritten.
Writable_Overwrites(k) == TRUE

\* writePrivateObject refuses an existing key (allowOverwrite false, 'wx').
Writable(k) == k \notin objects

NoRow == [state |-> "none", key |-> NoKey, content |-> NoKey, version |-> 0, expired |-> FALSE]
NoReceipt == [state |-> "none", expired |-> FALSE]
NoSubmission == [state |-> "none", media |-> NoKey]
NoPromotion == [state |-> "none", attempts |-> 0, owner |-> NoKey,
                lease |-> FALSE, source |-> NoKey]
IdleUpload == [pc |-> "idle", content |-> NoKey]
EndedUpload == [pc |-> "ended", content |-> NoKey]
IdleWorker == [pc |-> "idle", media |-> NoKey, attempt |-> 0]
IdleSweep == [pc |-> "idle", todo |-> {}, current |-> NoKey]

Init ==
    /\ objects = {}
    /\ media = [m \in Media |-> NoRow]
    /\ receipt = [u \in Uploads |-> NoReceipt]
    /\ submission = [s \in Submissions |-> NoSubmission]
    /\ job = [u \in Uploads |-> NoPromotion]
    /\ bindings = {}
    /\ uploading = [x \in Uploads \X Tries |-> IdleUpload]
    /\ deriving = [x \in Derivatives \X Renders |-> "idle"]
    /\ worker = [w \in Workers |-> IdleWorker]
    /\ sweep = [p \in Sweepers |-> IdleSweep]
    /\ faults = [count |-> 0, lostAnswers |-> {}]

\* A fault that leaves no trace but in the count.
Fault(f) ==
    /\ f \in Faults /\ faults.count < MaxFaults
    /\ faults' = [faults EXCEPT !.count = @ + 1]

\* The transaction that writes the row of m commits, but its caller sees an error.
LosesAnswer(m) ==
    /\ "commit_answer" \in Faults /\ faults.count < MaxFaults
    /\ faults' = [count |-> faults.count + 1, lostAnswers |-> faults.lostAnswers \cup {m}]

\* A createPublicDerivative transaction holds the row lock of its source.
RowFree(u) == \A x \in Derivatives \X Renders :
                 Source(x[1]) = u => deriving[x] \notin {"locked", "written", "found"}

-----------------------------------------------------------------------------
(* createStagedUpload.                                                     *)

\* Stages the bytes under a fresh key before the database is touched.  Tries
\* are numbered as they begin; any number of them may be under way.
StageUpload(u, t, c) ==
    /\ uploading[<<u, t>>].pc = "idle"
    /\ \A earlier \in 1 .. t - 1 : uploading[<<u, earlier>>].pc # "idle"
    /\ objects' = objects \cup {StagingKey(u, t)}
    /\ uploading' = [uploading EXCEPT ![<<u, t>>] = [pc |-> "staged", content |-> c]]
    /\ UNCHANGED <<databaseVars, deriving, worker, sweep, faults>>

\* reserve_idempotency: the response of a completed key is replayed, and a
\* key seen with another request hash is refused.
UploadDisposition(u, c) ==
    IF media[u].state = "none" THEN "reserved"
    ELSE IF media[u].content = c THEN "replay" ELSE "conflict"

\* The media_objects row and the receipt capability of a fresh upload.
StagedRow(u, t) ==
    /\ media' = [media EXCEPT ![u] = [state |-> "staged", key |-> StagingKey(u, t),
                                      content |-> uploading[<<u, t>>].content,
                                      version |-> 1, expired |-> FALSE]]
    /\ receipt' = [receipt EXCEPT ![u] = [state |-> "active", expired |-> FALSE]]

\* The transaction.  A replay or a conflict leaves the database alone, and
\* the copy this try staged is then removed.
CommitUpload(u, t) ==
    /\ uploading[<<u, t>>].pc = "staged"
    /\ IF UploadDisposition(u, uploading[<<u, t>>].content) = "reserved"
       THEN /\ StagedRow(u, t)
            /\ uploading' = [uploading EXCEPT ![<<u, t>>] = EndedUpload]
       ELSE /\ uploading' = [uploading EXCEPT ![<<u, t>>].pc = "discard"]
            /\ UNCHANGED <<media, receipt>>
    /\ UNCHANGED <<objects, submission, job, bindings, deriving, worker, sweep, faults>>

\* The transaction fails before it has an effect.
UploadTransactionFails(u, t) ==
    /\ uploading[<<u, t>>].pc = "staged"
    /\ uploading' = [uploading EXCEPT ![<<u, t>>].pc = "discard"]
    /\ Fault("transaction")
    /\ UNCHANGED <<objects, databaseVars, deriving, worker, sweep>>

\* The transaction commits and its answer is lost: the catch clause cannot
\* tell, and goes on to remove the bytes the new row names.
UploadAnswerLost(u, t) ==
    /\ uploading[<<u, t>>].pc = "staged"
    /\ UploadDisposition(u, uploading[<<u, t>>].content) = "reserved"
    /\ StagedRow(u, t)
    /\ uploading' = [uploading EXCEPT ![<<u, t>>].pc = "discard"]
    /\ LosesAnswer(u)
    /\ UNCHANGED <<objects, submission, job, bindings, deriving, worker, sweep>>

\* remove(staged), after a replay and in the catch clause.
DiscardStaged(u, t) ==
    /\ uploading[<<u, t>>].pc = "discard"
    /\ objects' = objects \ {StagingKey(u, t)}
    /\ uploading' = [uploading EXCEPT ![<<u, t>>] = EndedUpload]
    /\ UNCHANGED <<databaseVars, deriving, worker, sweep, faults>>

UploadCrashes(u, t) ==
    /\ uploading[<<u, t>>].pc \in {"staged", "discard"}
    /\ uploading' = [uploading EXCEPT ![<<u, t>>] = EndedUpload]
    /\ Fault("crash")
    /\ UNCHANGED <<objects, databaseVars, deriving, worker, sweep>>

-----------------------------------------------------------------------------
(* createPrivateSubmission: one transaction under the row locks of the     *)
(* receipt and of the media row.                                           *)

\* receipt.state, both deadlines, and the state of the media row.
ReceiptUsable(u) ==
    /\ receipt[u].state = "active"
    /\ ~receipt[u].expired /\ ~media[u].expired
    /\ media[u].state = "staged"

\* The submission, its first revision and the submission_media link.
NewSubmission(u) == [state |-> "received", media |-> u]

\* The media_promote job pins the source key and the deterministic destination.
PromotionJob(u) == [NoPromotion EXCEPT !.state = "pending", !.source = media[u].key]

\* A replay (same key, same receipt) or a conflict (same key, another
\* receipt) comes before ReceiptUsable and changes nothing.
CreatePrivateSubmission(s, u) ==
    /\ submission[s].state = "none"
    /\ \A earlier \in 1 .. s - 1 : submission[earlier].state # "none"
    /\ ReceiptUsable(u)
    /\ submission' = [submission EXCEPT ![s] = NewSubmission(u)]
    /\ media' = [media EXCEPT ![u].state = "promotion_pending", ![u].version = @ + 1]
    /\ receipt' = [receipt EXCEPT ![u].state = "consumed"]
    /\ job' = [job EXCEPT ![u] = PromotionJob(u)]
    /\ UNCHANGED <<objects, bindings, uploading, deriving, worker, sweep, faults>>

-----------------------------------------------------------------------------
(* The promotion worker.                                                   *)

\* claim_outbox_jobs (a media_promote job has no issue, so no predecessor).
Promotable(u) ==
    \/ job[u].state = "pending"
    \/ job[u].state = "leased" /\ ~job[u].lease

\* Mutant: an attempt is not counted.
NextAttempt_NotCounted(u) == job[u].attempts

\* attempt_count + 1.  Only its comparison with AttemptLimit matters, so it
\* stops counting at MaxAttempts.
NextAttempt(u) == IF job[u].attempts < MaxAttempts THEN job[u].attempts + 1 ELSE MaxAttempts

ClaimPromotion(w, u) ==
    /\ worker[w].pc = "idle"
    /\ Promotable(u)
    /\ job' = [job EXCEPT ![u].state = "leased", ![u].owner = w, ![u].lease = TRUE,
                          ![u].attempts = NextAttempt(u)]
    /\ worker' = [worker EXCEPT ![w] = [pc |-> "read", media |-> u,
                                        attempt |-> NextAttempt(u)]]
    /\ UNCHANGED <<objects, media, receipt, submission, bindings,
                   uploading, deriving, sweep, faults>>

PromotionLeaseExpires(u) ==
    /\ job[u].state = "leased" /\ job[u].lease
    /\ job' = [job EXCEPT ![u].lease = FALSE]
    /\ UNCHANGED <<objects, media, receipt, submission, bindings,
                   uploading, deriving, worker, sweep, faults>>

\* read(sourceStorageKey).
ReadSource(w) ==
    /\ worker[w].pc = "read"
    /\ worker' = [worker EXCEPT ![w].pc =
                     IF job[worker[w].media].source \in objects THEN "write" ELSE "fail"]
    /\ UNCHANGED <<objects, databaseVars, uploading, deriving, sweep, faults>>

\* write(destinationStorageKey): an existing object is an error, and the
\* catch clause then has no destination to remove.
WriteDestination(w) ==
    /\ worker[w].pc = "write"
    /\ LET k == DurableKey(worker[w].media) IN
       IF Writable(k)
       THEN /\ objects' = objects \cup {k}
            /\ worker' = [worker EXCEPT ![w].pc = "finalize"]
       ELSE /\ worker' = [worker EXCEPT ![w].pc = "fail"]
            /\ UNCHANGED objects
    /\ UNCHANGED <<databaseVars, uploading, deriving, sweep, faults>>

\* The write answers with an error although the object was stored.
WriteAnswerLost(w) ==
    /\ worker[w].pc = "write"
    /\ Writable(DurableKey(worker[w].media))
    /\ objects' = objects \cup {DurableKey(worker[w].media)}
    /\ worker' = [worker EXCEPT ![w].pc = "fail"]
    /\ Fault("write_answer")
    /\ UNCHANGED <<databaseVars, uploading, deriving, sweep>>

\* The verifying read fails; the catch clause removes the destination.
VerifyFails(w) ==
    /\ worker[w].pc = "finalize"
    /\ objects' = objects \ {DurableKey(worker[w].media)}
    /\ worker' = [worker EXCEPT ![w].pc = "fail"]
    /\ Fault("storage")
    /\ UNCHANGED <<databaseVars, uploading, deriving, sweep>>

HoldsPromotionLease(w) ==
    job[worker[w].media].state = "leased" /\ job[worker[w].media].owner = w

\* The conditions of the finalising transaction.
MayFinalize(w) ==
    LET u == worker[w].media IN
    /\ HoldsPromotionLease(w)
    /\ media[u].state = "promotion_pending"
    /\ media[u].key = job[u].source

Promoted(u) ==
    /\ media' = [media EXCEPT ![u].state = "quarantined", ![u].key = DurableKey(u),
                              ![u].version = @ + 1, ![u].expired = FALSE]
    /\ job' = [job EXCEPT ![u].state = "confirmed", ![u].owner = NoKey, ![u].lease = FALSE]

FinalizePromotion(w) ==
    /\ worker[w].pc = "finalize"
    /\ IF MayFinalize(w)
       THEN /\ Promoted(worker[w].media)
            /\ worker' = [worker EXCEPT ![w].pc = "remove_source"]
       ELSE /\ worker' = [worker EXCEPT ![w].pc = "remove_destination"]
            /\ UNCHANGED <<media, job>>
    /\ UNCHANGED <<objects, receipt, submission, bindings, uploading, deriving, sweep, faults>>

\* The finalising transaction fails for reasons of its own.
FinalizeFails(w) ==
    /\ worker[w].pc = "finalize"
    /\ worker' = [worker EXCEPT ![w].pc = "remove_destination"]
    /\ Fault("transaction")
    /\ UNCHANGED <<objects, databaseVars, uploading, deriving, sweep>>

\* The finalising transaction commits, but its caller sees an error.
FinalizeAnswerLost(w) ==
    /\ worker[w].pc = "finalize"
    /\ MayFinalize(w)
    /\ Promoted(worker[w].media)
    /\ worker' = [worker EXCEPT ![w].pc = "remove_destination"]
    /\ LosesAnswer(worker[w].media)
    /\ UNCHANGED <<objects, receipt, submission, bindings, uploading, deriving, sweep>>

RemoveDestination(w) ==
    /\ worker[w].pc = "remove_destination"
    /\ objects' = objects \ {DurableKey(worker[w].media)}
    /\ worker' = [worker EXCEPT ![w] = IdleWorker]
    /\ UNCHANGED <<databaseVars, uploading, deriving, sweep, faults>>

RemoveSource(w) ==
    /\ worker[w].pc = "remove_source"
    /\ objects' = objects \ {job[worker[w].media].source}
    /\ worker' = [worker EXCEPT ![w] = IdleWorker]
    /\ UNCHANGED <<databaseVars, uploading, deriving, sweep, faults>>

\* recordFailure: throws when the lease is gone, else retry or dead letter.
RecordPromotionFailure(w) ==
    /\ worker[w].pc = "fail"
    /\ worker' = [worker EXCEPT ![w] = IdleWorker]
    /\ LET u == worker[w].media
           dead == worker[w].attempt >= AttemptLimit IN
       IF HoldsPromotionLease(w)
       THEN /\ job' = [job EXCEPT ![u].state = IF dead THEN "dead_letter" ELSE "pending",
                                  ![u].owner = NoKey, ![u].lease = FALSE]
            /\ media' = IF dead /\ media[u].state = "promotion_pending"
                        THEN [media EXCEPT ![u].state = "promotion_failed", ![u].version = @ + 1]
                        ELSE media
       ELSE UNCHANGED <<job, media>>
    /\ UNCHANGED <<objects, receipt, submission, bindings, uploading, deriving, sweep, faults>>

WorkerCrashes(w) ==
    /\ worker[w].pc # "idle"
    /\ worker' = [worker EXCEPT ![w] = IdleWorker]
    /\ Fault("crash")
    /\ UNCHANGED <<objects, databaseVars, uploading, deriving, sweep>>

-----------------------------------------------------------------------------
(* Moderation.  The expected version a moderator sends is the one of the   *)
(* state the action finds; any other request is refused.                   *)

\* reviewPrivateMedia.
ReviewPrivateMedia(u, verdict) ==
    /\ RowFree(u)
    /\ media[u].state = "quarantined"
    /\ media' = [media EXCEPT ![u].state = verdict, ![u].version = @ + 1]
    /\ UNCHANGED <<objects, receipt, submission, job, bindings,
                   uploading, deriving, worker, sweep, faults>>

\* nextSubmissionState.
NextSubmissionState(decision) ==
    CASE decision = "start_review"    -> "under_review"
      [] decision = "request_changes" -> "changes_requested"
      [] decision = "approve"         -> "approved"
      [] decision = "reject"          -> "rejected"

\* Mutant: the transition table is not consulted.
MayModerate_NoTable(s, decision) == submission[s].state # "none"

\* moderateSubmission up to the decision: row locks and transition table.
MayModerate(s, decision) ==
    /\ submission[s].state # "none"
    /\ RowFree(submission[s].media)
    /\ NextSubmissionState(decision) \in SubmissionTransitions[submission[s].state]

\* moderateSubmission, every decision but approve.
ModerateSubmission(s, decision) ==
    /\ decision # "approve"
    /\ MayModerate(s, decision)
    /\ submission' = [submission EXCEPT ![s].state = NextSubmissionState(decision)]
    /\ UNCHANGED <<objects, media, receipt, job, bindings,
                   uploading, deriving, worker, sweep, faults>>

\* authorizeOperatorMediaReceipt: an active receipt for this derivative and
\* submission, issued by the same moderator.
AuthorizedBinding(d, s, o) == <<d, s, o>> \in bindings

\* moderateSubmission, decision approve: consumes the receipt and publishes
\* the derivative.  The derivative's own deadline is not looked at.
ApproveSubmission(s, d, o) ==
    /\ MayModerate(s, "approve")
    /\ media[submission[s].media].state = "approved_private"
    /\ AuthorizedBinding(d, s, o)
    /\ media[d].state = "redacted_derivative"
    /\ Source(d) = submission[s].media
    /\ submission' = [submission EXCEPT ![s].state = "approved"]
    /\ media' = [media EXCEPT ![d].state = "approved_public", ![d].version = @ + 1]
    /\ bindings' = bindings \ {<<d, s, o>>}
    /\ UNCHANGED <<objects, receipt, job, uploading, deriving, worker, sweep, faults>>

\* removePublishedIssue and its confirmation take the derivative back.
RemovePublicMedia(d) ==
    /\ media[d].state = "approved_public"
    /\ media' = [media EXCEPT ![d].state = "removed", ![d].version = @ + 1]
    /\ UNCHANGED <<objects, receipt, submission, job, bindings,
                   uploading, deriving, worker, sweep, faults>>

\* issueMediaBindingReceipt: the target's current revision links the source.
IssueMediaBindingReceipt(d, s, o) ==
    /\ media[d].state = "redacted_derivative"
    /\ submission[s].state # "none"
    /\ submission[s].media = Source(d)
    /\ bindings' = bindings \cup {<<d, s, o>>}
    /\ UNCHANGED <<objects, media, receipt, submission, job,
                   uploading, deriving, worker, sweep, faults>>

-----------------------------------------------------------------------------
(* createPublicDerivative.  The transaction holds the reservation of its   *)
(* key and the row lock of the source from "locked" on; the clean-up in    *)
(* the finally clause runs after both are released.                        *)

DerivativeVars == <<receipt, submission, job, bindings, uploading, worker, sweep>>

\* reserve_idempotency, the state of the source and the read of its bytes.
BeginDerivative(d, t) ==
    /\ deriving[<<d, t>>] = "idle"
    /\ media[d].state = "none"
    /\ RowFree(Source(d))
    /\ media[Source(d)].state = "approved_private"
    /\ media[Source(d)].key \in objects
    /\ deriving' = [deriving EXCEPT ![<<d, t>>] = "locked"]
    /\ UNCHANGED <<objects, media, faults, DerivativeVars>>

\* The rendered bytes are stored; bytes an earlier request left are accepted.
WriteDerivative(d, t) ==
    /\ deriving[<<d, t>>] = "locked"
    /\ objects' = objects \cup {DerivativeKey(d)}
    /\ deriving' = [deriving EXCEPT ![<<d, t>>] = IF Writable(DerivativeKey(d))
                                              THEN "written" ELSE "found"]
    /\ UNCHANGED <<media, faults, DerivativeVars>>

\* The row of a fresh derivative.
DerivativeRow(d) ==
    media' = [media EXCEPT ![d] = [state |-> "redacted_derivative", key |-> DerivativeKey(d),
                                   content |-> NoKey, version |-> 1, expired |-> FALSE]]

CommitDerivative(d, t) ==
    /\ deriving[<<d, t>>] \in {"written", "found"}
    /\ DerivativeRow(d)
    /\ deriving' = [deriving EXCEPT ![<<d, t>>] = "done"]
    /\ UNCHANGED <<objects, faults, DerivativeVars>>

\* The transaction fails: written is set only when this call stored bytes.
DerivativeTransactionFails(d, t) ==
    /\ deriving[<<d, t>>] \in {"locked", "written", "found"}
    /\ deriving' = [deriving EXCEPT ![<<d, t>>] = IF @ = "written" THEN "cleanup" ELSE "idle"]
    /\ Fault("transaction")
    /\ UNCHANGED <<objects, media, DerivativeVars>>

\* It commits and its answer is lost: the finally clause then removes the
\* bytes the row names, if this call stored them.
DerivativeAnswerLost(d, t) ==
    /\ deriving[<<d, t>>] \in {"written", "found"}
    /\ DerivativeRow(d)
    /\ deriving' = [deriving EXCEPT ![<<d, t>>] = IF @ = "written" THEN "cleanup" ELSE "idle"]
    /\ LosesAnswer(d)
    /\ UNCHANGED <<objects, DerivativeVars>>

CleanUpDerivative(d, t) ==
    /\ deriving[<<d, t>>] = "cleanup"
    /\ objects' = objects \ {DerivativeKey(d)}
    /\ deriving' = [deriving EXCEPT ![<<d, t>>] = "idle"]
    /\ UNCHANGED <<media, faults, DerivativeVars>>

DerivativeCrashes(d, t) ==
    /\ deriving[<<d, t>>] \in {"locked", "written", "found", "cleanup"}
    /\ deriving' = [deriving EXCEPT ![<<d, t>>] = "idle"]
    /\ Fault("crash")
    /\ UNCHANGED <<objects, media, DerivativeVars>>

-----------------------------------------------------------------------------
(* sweepExpiredMedia.                                                      *)

\* Mutant: failed promotions are forgotten.
DeletableStates_NoFailed == {"staged", "promotion_pending", "quarantined", "approved_private",
                             "redacted_derivative", "rejected", "expired", "removed"}

DeletableStates == {"staged", "promotion_pending", "promotion_failed", "quarantined",
                    "approved_private", "redacted_derivative", "rejected", "expired", "removed"}

Sweepable(m) ==
    /\ media[m].state \in DeletableStates
    /\ media[m].expired
    /\ m \in Uploads => job[m].state \notin {"pending", "leased", "submitted_unknown", "confirming"}

Candidate(m) == [id |-> m, state |-> media[m].state, key |-> media[m].key]

\* The query, outside any transaction (the limit is above the instances).
SweepReads(p) ==
    /\ sweep[p].pc = "idle"
    /\ \E m \in Media : Sweepable(m)
    /\ sweep' = [sweep EXCEPT ![p] = [pc |-> "next", current |-> NoKey,
                                      todo |-> {Candidate(m) : m \in {x \in Media : Sweepable(x)}}]]
    /\ UNCHANGED <<objects, databaseVars, uploading, deriving, worker, faults>>

\* The bytes are removed first; a failed removal skips the candidate.
SweepRemoves(p, c) ==
    /\ sweep[p].pc = "next" /\ c \in sweep[p].todo
    /\ objects' = objects \ {c.key}
    /\ sweep' = [sweep EXCEPT ![p] = [pc |-> "commit", current |-> c, todo |-> @.todo \ {c}]]
    /\ UNCHANGED <<databaseVars, uploading, deriving, worker, faults>>

SweepRemoveFails(p, c) ==
    /\ sweep[p].pc = "next" /\ c \in sweep[p].todo
    /\ sweep' = [sweep EXCEPT ![p].todo = @ \ {c}]
    /\ Fault("storage")
    /\ UNCHANGED <<objects, databaseVars, uploading, deriving, worker>>

\* The where clause of the update.
StillCandidate(c) ==
    /\ media[c.id].state = c.state
    /\ media[c.id].key = c.key
    /\ media[c.id].expired

SweepCommits(p) ==
    /\ sweep[p].pc = "commit"
    /\ LET c == sweep[p].current IN
       /\ c.id \in Uploads => RowFree(c.id)
       /\ media' = IF StillCandidate(c)
                   THEN [media EXCEPT ![c.id].state = "deleted", ![c.id].version = @ + 1]
                   ELSE media
    /\ sweep' = [sweep EXCEPT ![p].pc = "next", ![p].current = NoKey]
    /\ UNCHANGED <<objects, receipt, submission, job, bindings,
                   uploading, deriving, worker, faults>>

SweepEnds(p) ==
    /\ sweep[p].pc = "next" /\ sweep[p].todo = {}
    /\ sweep' = [sweep EXCEPT ![p] = IdleSweep]
    /\ UNCHANGED <<objects, databaseVars, uploading, deriving, worker, faults>>

SweepCrashes(p) ==
    /\ sweep[p].pc # "idle"
    /\ sweep' = [sweep EXCEPT ![p] = IdleSweep]
    /\ Fault("crash")
    /\ UNCHANGED <<objects, databaseVars, uploading, deriving, worker>>

-----------------------------------------------------------------------------
(* Deadlines.                                                              *)

ReceiptExpires(u) ==
    /\ receipt[u].state # "none" /\ ~receipt[u].expired
    /\ receipt' = [receipt EXCEPT ![u].expired = TRUE]
    /\ UNCHANGED <<objects, media, submission, job, bindings,
                   uploading, deriving, worker, sweep, faults>>

\* A receipt ends at most 30 minutes after an upload, staged media 24 hours;
\* a deadline is a day or more away and a promotion call lasts minutes.
MediaExpires(m) ==
    /\ media[m].state # "none" /\ ~media[m].expired
    /\ m \in Uploads => receipt[m].expired
    /\ \A w \in Workers : worker[w].media # m
    /\ media' = [media EXCEPT ![m].expired = TRUE]
    /\ UNCHANGED <<objects, receipt, submission, job, bindings,
                   uploading, deriving, worker, sweep, faults>>

BindingExpires(b) ==
    /\ b \in bindings
    /\ bindings' = bindings \ {b}
    /\ UNCHANGED <<objects, media, receipt, submission, job,
                   uploading, deriving, worker, sweep, faults>>

-----------------------------------------------------------------------------

\* An invocation that has claimed its job goes on.
ContinuePromotion(w) ==
    \/ ReadSource(w) \/ WriteDestination(w) \/ FinalizePromotion(w)
    \/ RemoveDestination(w) \/ RemoveSource(w) \/ RecordPromotionFailure(w)

Sweep(p) ==
    \/ SweepReads(p) \/ SweepCommits(p) \/ SweepEnds(p)
    \/ \E c \in sweep[p].todo : SweepRemoves(p, c)

Next ==
    \/ \E u \in Uploads, t \in Tries :
          \/ \E c \in Contents : StageUpload(u, t, c)
          \/ CommitUpload(u, t) \/ UploadTransactionFails(u, t)
          \/ UploadAnswerLost(u, t) \/ DiscardStaged(u, t) \/ UploadCrashes(u, t)
    \/ \E s \in Submissions, u \in Uploads : CreatePrivateSubmission(s, u)
    \/ \E w \in Workers :
          \/ \E u \in Uploads : ClaimPromotion(w, u)
          \/ ContinuePromotion(w) \/ WriteAnswerLost(w) \/ VerifyFails(w) \/ FinalizeFails(w)
          \/ FinalizeAnswerLost(w) \/ WorkerCrashes(w)
    \/ \E u \in Uploads, v \in {"approved_private", "rejected"} : ReviewPrivateMedia(u, v)
    \/ \E s \in Submissions, a \in {"start_review", "request_changes", "reject"} :
          ModerateSubmission(s, a)
    \/ \E s \in Submissions, d \in Derivatives, o \in Operators :
          ApproveSubmission(s, d, o) \/ IssueMediaBindingReceipt(d, s, o)
    \/ \E d \in Derivatives : RemovePublicMedia(d)
    \/ \E d \in Derivatives, t \in Renders :
          \/ BeginDerivative(d, t) \/ WriteDerivative(d, t) \/ CommitDerivative(d, t)
          \/ DerivativeTransactionFails(d, t) \/ DerivativeAnswerLost(d, t)
          \/ CleanUpDerivative(d, t) \/ DerivativeCrashes(d, t)
    \/ \E p \in Sweepers :
          \/ Sweep(p) \/ SweepCrashes(p)
          \/ \E c \in sweep[p].todo : SweepRemoveFails(p, c)
    \/ \E u \in Uploads : PromotionLeaseExpires(u) \/ ReceiptExpires(u)
    \/ \E m \in Media : MediaExpires(m)
    \/ \E b \in bindings : BindingExpires(b)

Spec == Init /\ [][Next]_vars

\* The scheduler keeps invoking the sweep; nothing calls the promotion worker
\* for sure, but an invocation of it runs on once it has claimed a job; and a
\* lease whose worker died runs out.
FairSpec ==
    /\ Spec
    /\ \A p \in Sweepers : WF_vars(Sweep(p))
    /\ \A w \in Workers : WF_vars(ContinuePromotion(w))
    /\ \A u \in Uploads : WF_vars(PromotionLeaseExpires(u))
    /\ \A x \in Uploads \X Tries :
          WF_vars(CommitUpload(x[1], x[2])) /\ WF_vars(DiscardStaged(x[1], x[2]))
    /\ \A x \in Derivatives \X Renders :
          /\ WF_vars(WriteDerivative(x[1], x[2]))
          /\ WF_vars(CommitDerivative(x[1], x[2]))
          /\ WF_vars(CleanUpDerivative(x[1], x[2]))

-----------------------------------------------------------------------------
(* Properties.                                                             *)

MediaStates == DeletableStates \cup {"none", "approved_public", "deleted"}
Keys == {NoKey} \cup {StagingKey(u, t) : u \in Uploads, t \in Tries}
          \cup {DurableKey(u) : u \in Uploads} \cup {DerivativeKey(d) : d \in Derivatives}

FaultRecords == [count : 0 .. MaxFaults, lostAnswers : SUBSET Media]

\* The rows, receipts, jobs and calls have the shape of their tables and of
\* the services' local variables.
TypeOK ==
    /\ objects \subseteq Keys
    /\ media \in [Media -> [state : MediaStates, key : Keys, content : Contents \cup {NoKey},
                            version : Nat, expired : BOOLEAN]]
    /\ receipt \in [Uploads -> [state : {"none", "active", "consumed"}, expired : BOOLEAN]]
    /\ submission \in [Submissions -> [state : SubmissionStates \cup {"none"},
                                       media : Uploads \cup {NoKey}]]
    /\ job \in [Uploads -> [state : {"none", "pending", "leased", "confirmed", "dead_letter"},
                            attempts : 0 .. MaxAttempts, owner : Workers \cup {NoKey},
                            lease : BOOLEAN, source : Keys]]
    /\ bindings \subseteq Derivatives \X Submissions \X Operators
    /\ uploading \in [Uploads \X Tries ->
                        [pc : {"idle", "staged", "discard", "ended"},
                         content : Contents \cup {NoKey}]]
    /\ deriving \in [Derivatives \X Renders ->
                        {"idle", "locked", "written", "found", "cleanup", "done"}]
    /\ worker \in [Workers -> [pc : {"idle", "read", "write", "finalize", "remove_source",
                                     "remove_destination", "fail"},
                               media : Uploads \cup {NoKey}, attempt : 0 .. MaxAttempts]]
    /\ sweep \in [Sweepers ->
                    [pc : {"idle", "next", "commit"},
                     todo : SUBSET [id : Media, state : MediaStates, key : Keys],
                     current : [id : Media, state : MediaStates, key : Keys] \cup {NoKey}]]
    /\ faults \in FaultRecords

\* While its deadline has not passed, a row from 'staged' to
\* 'approved_private' names bytes the store holds: neither a retry of an
\* upload, nor a worker that lost its lease, nor the sweep takes them away.
\* The exception is a row whose own staging or promoting transaction
\* committed and lost its answer: the caller then removes what it stored.
PrivateRowsHaveBytes ==
    \A u \in Uploads :
        /\ media[u].state \in {"staged", "promotion_pending", "quarantined", "approved_private"}
        /\ ~media[u].expired /\ u \notin faults.lostAnswers
        => media[u].key \in objects

\* No two workers believe they wrote the same destination, and the one a
\* worker is about to remove is named by no row (but for a lost answer).
DestinationHasOneWriter ==
    \A w \in Workers :
        worker[w].pc \in {"finalize", "remove_destination"} =>
            /\ \/ media[worker[w].media].key # DurableKey(worker[w].media)
               \/ worker[w].media \in faults.lostAnswers
            /\ \A v \in Workers \ {w} :
                  worker[v].media = worker[w].media =>
                      worker[v].pc \notin {"finalize", "remove_destination"}

\* A deleted row leaves no bytes under its key, and nothing writes there again.
DeletedRowsHaveNoBytes ==
    \A m \in Media : media[m].state = "deleted" => media[m].key \notin objects

\* One accepted upload feeds one submission: a receipt is spent once, by
\* whichever submission key comes first.
OneSubmissionPerUpload ==
    \A s, t \in Submissions :
        submission[s].state # "none" /\ submission[s].media = submission[t].media => s = t

\* A derivative is public only through an approved submission of its own
\* source that a moderator had reviewed as private media first.
PublicOnlyThroughApproval ==
    \A d \in Derivatives :
        media[d].state \in {"approved_public", "removed"} =>
            \E s \in Submissions : submission[s].state = "approved"
                                   /\ submission[s].media = Source(d)

\* Decisions are final and media states only move forward: a terminal
\* submission never changes, a deleted or failed object is never revived.
NothingIsRevived ==
    [][ /\ \A s \in Submissions :
              submission[s].state \in {"approved", "rejected"} => submission'[s] = submission[s]
        /\ \A m \in Media :
              media[m].state \in {"promotion_failed", "rejected", "removed", "deleted"} =>
                  media'[m].state \in {media[m].state, "deleted"} ]_vars

\* The sweep deletes every expired row it may delete, in spite of the rows
\* that change under it and of invocations that die.
ExpiredMediaIsDeleted ==
    \A m \in Media :
        /\ media[m].expired
        /\ media[m].state \notin {"none", "promotion_pending", "approved_public", "deleted"}
        ~> media[m].state \in {"deleted", "approved_public"}

\* A worker that goes on although another has taken its job over.
Overtaken(u) ==
    \E w \in Workers : worker[w].media = u /\ job[u].owner # w

\* A promotion is not retried for ever: if invocations keep taking the job of
\* an attached photograph up, it ends promoted or failed for good, whatever a
\* worker that died has left at the destination - unless leases run out under
\* living workers again and again.  Whether anything invokes the worker is
\* not assumed.
PromotionSettles ==
    \A u \in Uploads :
        []<>(\E w \in Workers : worker[w].media = u) =>
            \/ []<>Overtaken(u)
            \/ media[u].state = "promotion_pending" ~> media[u].state # "promotion_pending"

\* The store and the rows that name its objects agree at both ends of a
\* photograph's life: bytes as long as they are needed, none once deleted.
StoreMatchesRows == PrivateRowsHaveBytes /\ DeletedRowsHaveNoBytes

\* The rows of the four tables agree with each other: they have their types,
\* an upload belongs to one submission, and what is public was approved.
MediaRowsAgree == TypeOK /\ OneSubmissionPerUpload /\ PublicOnlyThroughApproval
=============================================================================
