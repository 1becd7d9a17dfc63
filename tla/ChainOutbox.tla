---------------------------- MODULE ChainOutbox -----------------------------
(***************************************************************************)
(* One published issue from approval to removal: the operator services     *)
(* that queue chain jobs in the transaction of the domain change, the      *)
(* outbox workers that commit the jobs to the Solana program, the          *)
(* reconciler that repairs rows from what the chain holds, and the public  *)
(* projection, which only a finalised commitment may change.               *)
(*                                                                         *)
(* Claims, leases, FIFO order and blocking are all per issue, so one issue *)
(* shows every interaction.  A database transaction is one action, an RPC  *)
(* call is one action, and a worker may be overtaken or die between any    *)
(* two of them.  Wall-clock time is abstracted: a lease may expire and a   *)
(* backoff may elapse at any moment (LeasesOutlastAttempts restricts that).*)
(***************************************************************************)
EXTENDS ChainJob, FiniteSets

CONSTANTS
    Workers,        \* invocations of processChainOutboxBatch
    Reconcilers,    \* invocations of reconcileChainOutbox with dryRun = false
    Owner,          \* the lease owner string each process writes
    Sigs,           \* transaction signatures (numbers, the smallest free one is used)
    MaxJobs,        \* bound: chain jobs queued for the issue
    MaxTxs,         \* bound: transactions of the issue in flight
    AttemptLimit,   \* attempts after which a failure is a dead letter: 8 in the code
    MaxAttempts,    \* bound: attempt_count stops counting here (above AttemptLimit)
    Changes,        \* the domain changes the operators make (names of Operations)
    Lifecycles,     \* the lifecycle targets they choose
    Disturbances,   \* what may go wrong or be switched, a subset of AllDisturbances
    LeasesOutlastAttempts
                    \* whether every attempt ends within its lease and backoff

AllDisturbances ==
    { "rollback",        \* the cluster abandons unfinalised blocks
      "database_fault",  \* a transaction fails for reasons of its own
      "crash",           \* a process dies between two steps
      "answer_lost",     \* a transaction is sent but the RPC call fails
      "policy",          \* the signing policy rejects a transaction
      "switch" }         \* publicationEnabled is turned off and on

Processes == Workers \cup Reconcilers
JobIds    == 1 .. MaxJobs
NoOwner   == "no owner"    \* null in lease_owner
NoSig     == 0             \* null in a signature column
Tombstone == -1            \* the metadata hash of a removal event

ASSUME ConstantsAssumption ==
    /\ Workers \cap Reconcilers = {}
    /\ MaxJobs \in 0 .. MaxSequence /\ MaxTxs \in Nat
    /\ AttemptLimit \in Nat /\ MaxAttempts \in Nat /\ AttemptLimit <= MaxAttempts
    /\ Sigs \subseteq Nat \ {NoSig}
    /\ NoOwner \notin {Owner[p] : p \in Processes}
    /\ Changes \subseteq Operations
    /\ Lifecycles \subseteq LifecycleStates
    /\ Disturbances \subseteq AllDisturbances
    /\ LeasesOutlastAttempts \in BOOLEAN

VARIABLES
    payload,    \* outbox_jobs.canonical_payload: immutable, the i-th has chain_sequence i
    row,        \* the mutable columns of outbox_jobs
    issue,      \* nagarik.issues and its handoff_aggregates row
    versions,   \* issue_versions.state
    media,      \* media_objects.state of the public derivative
    restricted, \* is_issue_access_restricted: the latest overlay is 'restricted'
    binding,    \* issue_chain_bindings.signature, NoSig where there is no row
    public,     \* public.issue_projection and public.proof_projection
    enabled,    \* the publicationEnabled capability switch
    tip,        \* the chain as of its latest block
    final,      \* the chain as of its latest finalised block
    txs,        \* signed transactions that are neither included nor expired
    proc        \* what each worker and reconciler is doing

dbVars    == <<payload, row, issue, versions, media, restricted, binding, public>>
chainVars == <<tip, final, txs>>
vars      == <<dbVars, chainVars, enabled, proc>>

-----------------------------------------------------------------------------
(* Initial state: no issue row, no accounts, idle processes.               *)

NoEvent == [type |-> "none", sequence |-> 0, previous |-> ZeroHead, head |-> ZeroHead,
            lifecycle |-> "open", removed |-> FALSE, meta |-> ZeroHash, sig |-> NoSig]
NoJob   == [state |-> "absent", attempts |-> 0, owner |-> NoOwner,
            lease |-> "none", sig |-> NoSig]
NoChain == [acc |-> NoAccount, events |-> [i \in JobIds |-> NoEvent]]
NoProof == [count |-> 0, timeline |-> ZeroHead, handoff |-> ZeroHead,
            meta |-> ZeroHash, sig |-> NoSig]
Idle    == [pc |-> "idle", job |-> 0, attempt |-> 0, sig |-> NoSig]

Init ==
    /\ payload = << >>
    /\ row = [i \in JobIds |-> NoJob]
    /\ issue = [ publication |-> "none", lifecycle |-> "open", version |-> 0,
                 handoffState |-> "none",
                 count |-> 0, timeline |-> ZeroHead, handoff |-> ZeroHead,
                 confCount |-> 0, confTimeline |-> ZeroHead, confHandoff |-> ZeroHead,
                 blockedFrom |-> 0 ]
    /\ versions = [i \in JobIds |-> "absent"]
    /\ media = "redacted_derivative"
    /\ restricted = FALSE
    /\ binding = [i \in JobIds |-> NoSig]
    /\ public = [state |-> "absent", version |-> 0, lifecycle |-> "none", proof |-> NoProof]
    /\ enabled = TRUE
    /\ tip = NoChain /\ final = NoChain
    /\ txs = {}
    /\ proc = [p \in Processes |-> Idle]

-----------------------------------------------------------------------------
(* The operator services.  Each is one transaction that holds the issue    *)
(* row lock.  The operatorMutationsEnabled switch, the caller's expected   *)
(* version and head, and the idempotency reservation can only refuse a     *)
(* request, which is the action not happening.                             *)

NextId == Len(payload) + 1

\* Mutant: a service builds on the CONFIRMED checkpoint.
ProjectedSnapshot_Confirmed ==
    [ count |-> issue.confCount, timeline |-> issue.confTimeline,
      handoff |-> issue.confHandoff, lifecycle |-> issue.lifecycle,
      removed |-> FALSE, meta |-> issue.version ]

\* The snapshot the services read from the issue and its current version:
\* the PROJECTED count, heads and lifecycle, and publicationRemoved = false.
ProjectedSnapshot ==
    [ count |-> issue.count, timeline |-> issue.timeline, handoff |-> issue.handoff,
      lifecycle |-> issue.lifecycle, removed |-> FALSE, meta |-> issue.version ]

\* The insert into outbox_jobs and the issue's projected checkpoint, which
\* every service writes; changed holds the service's own issue columns.
Enqueue(job, changed) ==
    /\ payload' = Append(payload, job)
    /\ row' = [row EXCEPT ![NextId] = [NoJob EXCEPT !.state = "pending"]]
    /\ issue' = [ changed EXCEPT !.count = job.next.count,
                                 !.timeline = job.next.timeline,
                                 !.handoff = job.next.handoff ]
    /\ UNCHANGED <<binding, public, chainVars, enabled, proc>>

Accepting == issue.publication = "published" /\ issue.blockedFrom = 0

\* moderateSubmission, decision 'approve': the issue, version 1 and the
\* issue_created job; the redacted derivative becomes the public one.
Approve ==
    /\ NextId <= MaxJobs
    /\ issue.publication = "none"
    /\ enabled
    /\ media = "redacted_derivative"
    /\ media' = "approved_public"
    /\ versions' = [versions EXCEPT ![1] = "commit_pending"]
    /\ Enqueue(BuildChainJob("issue_created", NextId, NoAccount, "open", FALSE, 1, 1, "approved"),
               [issue EXCEPT !.publication = "commit_pending", !.lifecycle = "open",
                             !.version = 1])
    /\ UNCHANGED restricted

\* correctPublishedIssue refuses an issue that waits or is blocked, and one
\* whose public derivative is gone.
MayCorrect ==
    /\ "metadata_version_committed" \in Changes /\ NextId <= MaxJobs
    /\ Accepting
    /\ enabled
    /\ media = "approved_public"

\* The envelope that commits version v on top of what is projected.
CorrectionJob(v) ==
    BuildChainJob("metadata_version_committed", NextId, ProjectedSnapshot,
                  issue.lifecycle, FALSE, v, v, "corrected")

\* A new version over the same media; the issue leaves 'published' until the
\* version is committed.
CorrectPublishedIssue ==
    LET v == issue.version + 1
    IN  /\ MayCorrect
        /\ versions' = [versions EXCEPT ![v] = "commit_pending"]
        /\ Enqueue(CorrectionJob(v), [issue EXCEPT !.publication = "commit_pending", !.version = v])
        /\ UNCHANGED <<media, restricted>>

\* changeIssueLifecycle: the private lifecycle moves at once.
ChangeIssueLifecycle(to) ==
    /\ "lifecycle_changed" \in Changes /\ NextId <= MaxJobs
    /\ Accepting
    /\ to \in LifecycleTransitions[issue.lifecycle]
    /\ Enqueue(BuildChainJob("lifecycle_changed", NextId, ProjectedSnapshot,
                             to, FALSE, issue.version, issue.version, to),
               [issue EXCEPT !.lifecycle = to])
    /\ UNCHANGED <<versions, media, restricted>>

\* recordIssueHandoff: the state the aggregate is in admits the event.
MayRecordHandoff(type) ==
    /\ "handoff_checkpointed" \in Changes /\ NextId <= MaxJobs
    /\ Accepting
    /\ IF type = "action_recorded"
       THEN issue.handoffState \in {"acknowledged", "closed"}
       ELSE type \in HandoffTransitions[issue.handoffState]

\* Every event type, private or public, is checkpointed.
RecordIssueHandoff(type) ==
    /\ MayRecordHandoff(type)
    /\ Enqueue(BuildChainJob("handoff_checkpointed", NextId, ProjectedSnapshot,
                             issue.lifecycle, FALSE, issue.version, issue.version, type),
               [issue EXCEPT !.handoffState =
                   IF type = "action_recorded" THEN @ ELSE type])
    /\ UNCHANGED <<versions, media, restricted>>

\* removePublishedIssue for a v2 issue: the access overlay restricts the
\* issue at once, publication_state stays 'published' until the commitment.
RemovePublishedIssue ==
    /\ "publication_removed" \in Changes /\ NextId <= MaxJobs
    /\ Accepting
    /\ restricted' = TRUE
    /\ Enqueue(BuildChainJob("publication_removed", NextId, ProjectedSnapshot,
                             issue.lifecycle, TRUE, Tombstone, issue.version, "removed"),
               issue)
    /\ UNCHANGED <<versions, media>>

\* An operator flips the publicationEnabled switch.
SetPublicationEnabled ==
    /\ "switch" \in Disturbances
    /\ enabled' = ~enabled
    /\ UNCHANGED <<dbVars, chainVars, proc>>

-----------------------------------------------------------------------------
(* Leases and the three ways a process may still write a row it works on.  *)

\* Null-coalescing of a signature column.
Coalesce(sig, other) == IF sig = NoSig THEN other ELSE sig

\* state = 'leased' and lease_owner = the process's own owner string.
HoldsLease(p) ==
    LET r == row[proc[p].job] IN r.state = "leased" /\ r.owner = Owner[p]

\* state = 'confirming' and submitted_signature = the signature it knows.
HoldsSubmission(p) ==
    LET r == row[proc[p].job] IN r.state = "confirming" /\ r.sig = proc[p].sig

\* Somebody is working on the job: used only to bound time.
Attended(i) == \E p \in Processes : proc[p].job = i

Leased(i, p) ==
    [ row[i] EXCEPT !.state = "leased", !.owner = Owner[p], !.lease = "live",
                    !.attempts = IF @ < MaxAttempts THEN @ + 1 ELSE @ ]

Released(i, state) ==
    [ row[i] EXCEPT !.state = state, !.owner = NoOwner, !.lease = "none" ]

\* Mutant: the claim forgets rows whose lease has expired.
Claimable_NoTakeover(i) ==
    /\ row[i].state \in {"pending", "submitted_unknown", "confirming"}
    /\ \A k \in 1 .. (i - 1) : row[k].state = "confirmed"
    /\ LeasesOutlastAttempts => ~Attended(i)

\* claim_chain_outbox_jobs: due or expired, and every predecessor confirmed.
Claimable(i) ==
    /\ \/ row[i].state \in {"pending", "submitted_unknown", "confirming"}
       \/ row[i].state = "leased" /\ row[i].lease = "expired"
    /\ \A k \in 1 .. (i - 1) : row[k].state = "confirmed"
    /\ LeasesOutlastAttempts => ~Attended(i)

\* The claim, and parseClaimedJob on the row it returns.
Claim(p, i) ==
    /\ proc[p] = Idle
    /\ i \in 1 .. Len(payload)
    /\ Claimable(i)
    /\ row' = [row EXCEPT ![i] = Leased(i, p)]
    /\ proc' = [proc EXCEPT ![p] =
                  [ pc |-> IF Prepares(i, payload[i]) THEN "inspect" ELSE "failHard",
                    job |-> i, attempt |-> Leased(i, p).attempts, sig |-> NoSig ]]
    /\ UNCHANGED <<payload, issue, versions, media, restricted, binding, public,
                   chainVars, enabled>>

LeaseExpires(i) ==
    /\ row[i].state = "leased" /\ row[i].lease = "live"
    /\ LeasesOutlastAttempts => ~Attended(i)
    /\ row' = [row EXCEPT ![i].lease = "expired"]
    /\ UNCHANGED <<payload, issue, versions, media, restricted, binding, public,
                   chainVars, enabled, proc>>

-----------------------------------------------------------------------------
(* processJob, one action per call it awaits.                              *)

\* Process p moves to pc, knowing sig.
Continue(p, pc, sig) ==
    proc' = [proc EXCEPT ![p].pc = pc, ![p].sig = sig]

\* signer.inspect, answered: readEvent reads the event account, its raw
\* bytes and its signatures at 'finalized'.
Inspect(p) ==
    LET i     == proc[p].job
        event == final.events[i]
    IN  /\ proc[p].pc = "inspect"
        /\ IF event = NoEvent THEN Continue(p, "submit", NoSig)
           ELSE IF ObservationMatches(payload[i], event)
                THEN Continue(p, "finalizeExisting", event.sig)
                ELSE Continue(p, "failHard", NoSig)
        /\ UNCHANGED <<dbVars, chainVars, enabled>>

InspectFails(p) ==
    /\ proc[p].pc = "inspect"
    /\ Continue(p, "fail", NoSig)
    /\ UNCHANGED <<dbVars, chainVars, enabled>>

SigsInUse(i) ==
    {row[i].sig, binding[i], tip.events[i].sig}
        \cup {t.sig : t \in {u \in txs : u.job = i}}
        \cup {proc[p].sig : p \in {q \in Processes : proc[q].job = i}}

\* A new transaction has a new signature, unless it carries the blockhash of
\* one that is still in flight: then it is that transaction again.
NextSigs(i) ==
    {s \in Sigs \ SigsInUse(i) : \A r \in Sigs \ SigsInUse(i) : s <= r}
        \cup {t.sig : t \in {u \in txs : u.job = i}}

\* BoundedChainSigner.submit goes as far as sending only if the simulation,
\* at 'finalized', succeeds.
Simulates(i) == final.events[i] = NoEvent /\ Accepts(final.acc, payload[i])

Send(i, sig) ==
    /\ Simulates(i)
    /\ Cardinality(txs) < MaxTxs
    /\ txs' = txs \cup {[job |-> i, sig |-> sig]}

\* signer.submit returns the signature.
Submit(p) ==
    /\ proc[p].pc = "submit"
    /\ \E sig \in NextSigs(proc[p].job) :
          Send(proc[p].job, sig) /\ Continue(p, "mark", sig)
    /\ UNCHANGED <<dbVars, tip, final, enabled>>

\* signer.submit throws: the transaction was never sent...
SubmitFails(p) ==
    /\ proc[p].pc = "submit"
    /\ Continue(p, "fail", NoSig)
    /\ UNCHANGED <<dbVars, chainVars, enabled>>

\* ...or was sent and the answer lost.
SubmitAnswerLost(p) ==
    /\ "answer_lost" \in Disturbances
    /\ proc[p].pc = "submit"
    /\ \E sig \in NextSigs(proc[p].job) : Send(proc[p].job, sig)
    /\ Continue(p, "fail", NoSig)
    /\ UNCHANGED <<dbVars, tip, final, enabled>>

\* The signing policy refuses what simulated well (compute, fee): final.
SubmitRejected(p) ==
    /\ "policy" \in Disturbances
    /\ proc[p].pc = "submit"
    /\ Simulates(proc[p].job)
    /\ Continue(p, "failHard", NoSig)
    /\ UNCHANGED <<dbVars, chainVars, enabled>>

\* markSubmitted gives up the lease and records the signature.
MarkSubmitted(p) ==
    LET i == proc[p].job
    IN  /\ proc[p].pc = "mark"
        /\ HoldsLease(p)
        /\ row' = [row EXCEPT ![i] = [Released(i, "confirming") EXCEPT !.sig = proc[p].sig]]
        /\ Continue(p, "confirm", proc[p].sig)
        /\ UNCHANGED <<payload, issue, versions, media, restricted, binding, public,
                       chainVars, enabled>>

MarkSubmittedFails(p) ==
    /\ proc[p].pc = "mark"
    /\ ~HoldsLease(p) \/ "database_fault" \in Disturbances
    /\ Continue(p, "fail", NoSig)
    /\ UNCHANGED <<dbVars, chainVars, enabled>>

\* Mutant: confirmTransaction waits for 'confirmed', not 'finalized'.
Confirm_Unfinalised(p) ==
    LET i     == proc[p].job
        event == tip.events[i]
    IN  /\ proc[p].pc = "confirm"
        /\ event.sig = proc[p].sig
        /\ Continue(p, IF ObservationMatches(payload[i], event)
                       THEN "finalizeSubmitted" ELSE "conflict", proc[p].sig)
        /\ UNCHANGED <<dbVars, chainVars, enabled>>

\* signer.confirm: the transaction finalised without error and created the event.
Confirm(p) ==
    LET i     == proc[p].job
        event == final.events[i]
    IN  /\ proc[p].pc = "confirm"
        /\ event.sig = proc[p].sig
        /\ Continue(p, IF ObservationMatches(payload[i], event)
                       THEN "finalizeSubmitted" ELSE "conflict", proc[p].sig)
        /\ UNCHANGED <<dbVars, chainVars, enabled>>

\* signer.confirm throws (the transaction failed) or times out.
ConfirmFails(p) ==
    /\ proc[p].pc = "confirm"
    /\ Continue(p, "unknown", proc[p].sig)
    /\ UNCHANGED <<dbVars, chainVars, enabled>>

-----------------------------------------------------------------------------
(* The rows a process writes after an attempt, each in one transaction     *)
(* that first checks that the row is still its to write.                   *)

\* issues.blocked_from_sequence = coalesce(blocked_from_sequence, i)
Blocked(i) == [issue EXCEPT !.blockedFrom = IF @ = 0 THEN i ELSE @]

Finish(p) == proc' = [proc EXCEPT ![p] = Idle]

\* Mutant: recordFailure does not check that it still holds the lease.
RecordFailure_Unchecked(p) ==
    LET i    == proc[p].job
        dead == proc[p].pc = "failHard" \/ proc[p].attempt >= AttemptLimit
    IN  /\ proc[p].pc \in {"fail", "failHard"}
        /\ row' = [row EXCEPT ![i] = Released(i, IF dead THEN "dead_letter" ELSE "pending")]
        /\ issue' = IF dead THEN Blocked(i) ELSE issue
        /\ Finish(p)
        /\ UNCHANGED <<payload, versions, media, restricted, binding, public,
                       chainVars, enabled>>

\* Mutant: a dead letter does not block the issue.
RecordFailure_NotBlocking(p) ==
    LET i    == proc[p].job
        dead == proc[p].pc = "failHard" \/ proc[p].attempt >= AttemptLimit
    IN  /\ proc[p].pc \in {"fail", "failHard"}
        /\ HoldsLease(p)
        /\ row' = [row EXCEPT ![i] = Released(i, IF dead THEN "dead_letter" ELSE "pending")]
        /\ Finish(p)
        /\ UNCHANGED <<payload, issue, versions, media, restricted, binding, public,
                       chainVars, enabled>>

\* recordFailure, and recordInvalidClaim for a row that does not parse.
RecordFailure(p) ==
    LET i    == proc[p].job
        dead == proc[p].pc = "failHard" \/ proc[p].attempt >= AttemptLimit
    IN  /\ proc[p].pc \in {"fail", "failHard"}
        /\ HoldsLease(p)
        /\ row' = [row EXCEPT ![i] = Released(i, IF dead THEN "dead_letter" ELSE "pending")]
        /\ issue' = IF dead THEN Blocked(i) ELSE issue
        /\ Finish(p)
        /\ UNCHANGED <<payload, versions, media, restricted, binding, public,
                       chainVars, enabled>>

\* recordSubmittedUnknown
RecordSubmittedUnknown(p) ==
    LET i == proc[p].job
    IN  /\ proc[p].pc = "unknown"
        /\ HoldsSubmission(p)
        /\ row' = [row EXCEPT ![i].state = "submitted_unknown"]
        /\ Finish(p)
        /\ UNCHANGED <<payload, issue, versions, media, restricted, binding, public,
                       chainVars, enabled>>

\* recordPostSubmitConflict
RecordPostSubmitConflict(p) ==
    LET i == proc[p].job
    IN  /\ proc[p].pc = "conflict"
        /\ HoldsSubmission(p)
        /\ row' = [row EXCEPT ![i].state = "dead_letter"]
        /\ issue' = Blocked(i)
        /\ Finish(p)
        /\ UNCHANGED <<payload, versions, media, restricted, binding, public,
                       chainVars, enabled>>

\* recordProjectionDeferred
RecordProjectionDeferred(p) ==
    LET i == proc[p].job
    IN  /\ proc[p].pc = "defer"
        /\ HoldsLease(p) \/ HoldsSubmission(p)
        /\ row' = [row EXCEPT ![i] = [Released(i, "submitted_unknown")
                                         EXCEPT !.sig = Coalesce(@, proc[p].sig)]]
        /\ Finish(p)
        /\ UNCHANGED <<payload, issue, versions, media, restricted, binding, public,
                       chainVars, enabled>>

\* The same four when the check fails: chain_outbox_lease_lost and
\* chain_outbox_confirmation_state_lost leave processJob and end the batch.
StateLost(p) ==
    /\ \/ proc[p].pc \in {"fail", "failHard"} /\ ~HoldsLease(p)
       \/ proc[p].pc \in {"unknown", "conflict"} /\ ~HoldsSubmission(p)
       \/ proc[p].pc = "defer" /\ ~HoldsLease(p) /\ ~HoldsSubmission(p)
    /\ Finish(p)
    /\ UNCHANGED <<dbVars, chainVars, enabled>>

\* The process dies, or a transaction of its own fails where nothing catches it.
Crash(p) ==
    /\ "crash" \in Disturbances
    /\ proc[p] # Idle
    /\ Finish(p)
    /\ UNCHANGED <<dbVars, chainVars, enabled>>

-----------------------------------------------------------------------------
(* finalizeConfirmed and the projection it applies in the same transaction. *)

Publishes(i) == payload[i].op \in {"issue_created", "metadata_version_committed"}

AtExpected(i) ==
    /\ issue.confCount = payload[i].expected.count
    /\ issue.confTimeline = payload[i].expected.timeline
    /\ issue.confHandoff = payload[i].expected.handoff

AtNext(i) ==
    /\ issue.confCount = payload[i].next.count
    /\ issue.confTimeline = payload[i].next.timeline
    /\ issue.confHandoff = payload[i].next.handoff

\* What finalizeConfirmed checks before it projects: the row, the confirmed
\* count and heads, and a binding that is absent or already this one.
Confirmable(p) ==
    LET i == proc[p].job
    IN  /\ HoldsLease(p) \/ HoldsSubmission(p)
        /\ AtExpected(i) \/ AtNext(i)
        /\ binding[i] \in {NoSig, proc[p].sig}

\* applyConfirmedPublicProjection returns false ...
Deferred(i) == Publishes(i) /\ ~enabled

\* ... or throws: the version is not the current pending one, or its media
\* is not public.
Projectable(i) ==
    Publishes(i) => /\ issue.version = payload[i].version
                    /\ issue.publication = "commit_pending"
                    /\ media = "approved_public"

\* Mutant: the version published before is not superseded.
VersionsAfter_NotSuperseding(i) ==
    [ v \in JobIds |->
        CASE Publishes(i) /\ v = payload[i].version -> "published"
          [] payload[i].op = "publication_removed" /\ v = issue.version
                /\ versions[v] \in {"commit_pending", "published"} -> "removed"
          [] OTHER -> versions[v] ]

\* Mutant: the version published before gets a state the column does not admit.
VersionsAfter_Retired(i) ==
    [ v \in JobIds |->
        CASE Publishes(i) /\ v = payload[i].version -> "published"
          [] Publishes(i) /\ v # payload[i].version /\ versions[v] = "published" -> "retired"
          [] OTHER -> versions[v] ]

\* projectPublishedVersion on issue_versions; projectRemoval retires the
\* CURRENT version only.
VersionsAfter(i) ==
    [ v \in JobIds |->
        CASE Publishes(i) /\ v = payload[i].version -> "published"
          [] Publishes(i) /\ v # payload[i].version /\ versions[v] = "published" -> "superseded"
          [] payload[i].op = "publication_removed" /\ v = issue.version
                /\ versions[v] \in {"commit_pending", "published"} -> "removed"
          [] OTHER -> versions[v] ]

\* Mutant: the proof shows the signature the row recorded, which may belong
\* to a transaction that never landed.
ProofOf_RowSignature(i, sig) ==
    [ count |-> payload[i].next.count, timeline |-> payload[i].next.timeline,
      handoff |-> payload[i].next.handoff, meta |-> payload[i].next.meta,
      sig |-> Coalesce(row[i].sig, sig) ]

\* upsertProof: the committed snapshot of the job and its signature.
ProofOf(i, sig) ==
    [ count |-> payload[i].next.count, timeline |-> payload[i].next.timeline,
      handoff |-> payload[i].next.handoff, meta |-> payload[i].next.meta, sig |-> sig ]

\* Mutant: projectLifecycle copies the issue's current, private lifecycle.
ProjectedLifecycle_Current(i) == issue.lifecycle

\* projectLifecycle copies the lifecycle of the lifecycle event.
ProjectedLifecycle(i) == payload[i].detail

\* issue_projection after projectPublishedVersion, projectLifecycle,
\* projectHandoff or projectRemoval, and proof_projection after upsertProof.
PublicAfter(i, sig) ==
    IF Publishes(i)
    THEN [ state |-> "published", version |-> payload[i].version,
           lifecycle |-> issue.lifecycle, proof |-> ProofOf(i, sig) ]
    ELSE IF public.state = "absent"
    THEN public
    ELSE IF payload[i].op = "publication_removed"
    THEN [ state |-> "removed", version |-> 0, lifecycle |-> "none",
           proof |-> ProofOf(i, sig) ]
    ELSE IF payload[i].op = "lifecycle_changed" /\ public.state = "published"
    THEN [ public EXCEPT !.lifecycle = ProjectedLifecycle(i), !.proof = ProofOf(i, sig) ]
    ELSE [ public EXCEPT !.proof = ProofOf(i, sig) ]

DeadLetters == {i \in JobIds : row[i].state = "dead_letter"}

\* select min(chain_sequence) of the dead letters, null when there is none.
FirstOf(S) == IF S = {} THEN 0 ELSE CHOOSE i \in S : \A k \in S : i <= k

IssueAfter(i) ==
    [ issue EXCEPT
        !.confCount    = IF AtExpected(i) THEN payload[i].next.count ELSE @,
        !.confTimeline = IF AtExpected(i) THEN payload[i].next.timeline ELSE @,
        !.confHandoff  = IF AtExpected(i) THEN payload[i].next.handoff ELSE @,
        !.publication  = IF Publishes(i) THEN "published"
                         ELSE IF payload[i].op = "publication_removed" THEN "removed" ELSE @,
        !.blockedFrom  = FirstOf(DeadLetters \ {i}) ]

\* finalizeConfirmed commits.
FinalizeConfirmed(p) ==
    LET i   == proc[p].job
        sig == proc[p].sig
    IN  /\ proc[p].pc \in {"finalizeExisting", "finalizeSubmitted"}
        /\ Confirmable(p)
        /\ ~Deferred(i)
        /\ Projectable(i)
        /\ issue' = IssueAfter(i)
        /\ binding' = [binding EXCEPT ![i] = sig]
        /\ versions' = VersionsAfter(i)
        /\ media' = IF payload[i].op = "publication_removed" /\ media = "approved_public"
                    THEN "removed" ELSE media
        /\ public' = PublicAfter(i, sig)
        /\ row' = [row EXCEPT ![i] = [Released(i, "confirmed") EXCEPT !.sig = Coalesce(@, sig)]]
        /\ Finish(p)
        /\ UNCHANGED <<payload, restricted, chainVars, enabled>>

\* PublicProjectionDeferredError: everything rolls back.
FinalizeDeferred(p) ==
    /\ proc[p].pc \in {"finalizeExisting", "finalizeSubmitted"}
    /\ Confirmable(p)
    /\ Deferred(proc[p].job)
    /\ Continue(p, "defer", proc[p].sig)
    /\ UNCHANGED <<dbVars, chainVars, enabled>>

\* Any other error, whatever its cause, is treated as a conflict.
FinalizeThrows(p) ==
    /\ proc[p].pc \in {"finalizeExisting", "finalizeSubmitted"}
    /\ \/ ~Confirmable(p)
       \/ ~Deferred(proc[p].job) /\ ~Projectable(proc[p].job)
       \/ "database_fault" \in Disturbances
    /\ IF proc[p].pc = "finalizeExisting"
       THEN Continue(p, "failHard", NoSig)
       ELSE Continue(p, "conflict", proc[p].sig)
    /\ UNCHANGED <<dbVars, chainVars, enabled>>

-----------------------------------------------------------------------------
(* reconcileChainOutbox with dryRun = false.  Each row of its batch is an  *)
(* element of Reconcilers: the row is read once, compared with the chain   *)
(* later and leased later still.  (A dry run writes nothing.)              *)

\* The batch query.  What is remembered of the row is whether it could be
\* found consistent: its binding if it is confirmed and the issue's
\* confirmed count and heads are this job's, otherwise nothing.
ReconcileRead(r, i) ==
    /\ proc[r] = Idle
    /\ i \in 1 .. Len(payload)
    /\ Prepares(i, payload[i])
    /\ proc' = [proc EXCEPT ![r] =
                  [ pc |-> "observe", job |-> i, attempt |-> 0,
                    sig |-> IF row[i].state = "confirmed" /\ AtNext(i)
                            THEN binding[i] ELSE NoSig ]]
    /\ UNCHANGED <<dbVars, chainVars, enabled>>

\* Mutant: the reconciler trusts an event that is not finalised.
ReconcileObserve_Unfinalised(r) ==
    LET i     == proc[r].job
        event == tip.events[i]
    IN  /\ proc[r].pc = "observe"
        /\ event # NoEvent
        /\ ObservationMatches(payload[i], event)
        /\ event.sig # proc[r].sig
        /\ Continue(r, "repair", event.sig)
        /\ UNCHANGED <<dbVars, chainVars, enabled>>

\* signer.inspect finds the exact event and the row read was not consistent
\* with it.
ReconcileObserve(r) ==
    LET i     == proc[r].job
        event == final.events[i]
    IN  /\ proc[r].pc = "observe"
        /\ event # NoEvent
        /\ ObservationMatches(payload[i], event)
        /\ event.sig # proc[r].sig
        /\ Continue(r, "repair", event.sig)
        /\ UNCHANGED <<dbVars, chainVars, enabled>>

\* consistent, missing, conflict or rpc_error: reported, nothing written.
ReconcileReport(r) ==
    /\ proc[r].pc = "observe"
    /\ Finish(r)
    /\ UNCHANGED <<dbVars, chainVars, enabled>>

\* reconcileExactChainOutboxJob leases the row in any state but a live lease.
ReconcileLease(r) ==
    LET i == proc[r].job
    IN  /\ proc[r].pc = "repair"
        /\ ~(row[i].state = "leased" /\ row[i].lease = "live")
        /\ row' = [row EXCEPT ![i] = Leased(i, r)]
        /\ proc' = [proc EXCEPT ![r].pc = "finalizeExisting",
                                ![r].attempt = Leased(i, r).attempts]
        /\ UNCHANGED <<payload, issue, versions, media, restricted, binding, public,
                       chainVars, enabled>>

\* 'busy': another process holds the row.
ReconcileBusy(r) ==
    LET i == proc[r].job
    IN  /\ proc[r].pc = "repair"
        /\ row[i].state = "leased" /\ row[i].lease = "live"
        /\ Finish(r)
        /\ UNCHANGED <<dbVars, chainVars, enabled>>

-----------------------------------------------------------------------------
(* The cluster.  A transaction the program rejects leaves no trace and can *)
(* still be included on another fork until it expires.  A paused protocol  *)
(* or a revoked role is a transaction that does not land.                  *)

Land(t) ==
    LET job == payload[t.job]
    IN  /\ t \in txs
        /\ tip.events[t.job] = NoEvent
        /\ Accepts(tip.acc, job)
        /\ tip' = [ acc    |-> Execute(tip.acc, t.job, job),
                    events |-> [tip.events EXCEPT ![t.job] =
                                  CommitmentEvent(tip.acc, t.job, job, t.sig)] ]
        /\ txs' = txs \ {t}
        /\ UNCHANGED <<dbVars, final, enabled, proc>>

Expire(t) ==
    /\ t \in txs
    /\ txs' = txs \ {t}
    /\ UNCHANGED <<dbVars, tip, final, enabled, proc>>

FinalizeBlock ==
    /\ tip # final
    /\ final' = tip
    /\ UNCHANGED <<dbVars, tip, txs, enabled, proc>>

\* An unfinalised fork is abandoned; its transactions may land again.
Rollback ==
    LET lost == {i \in JobIds : tip.events[i] # final.events[i]}
    IN  /\ "rollback" \in Disturbances
        /\ tip # final
        /\ tip' = final
        /\ txs' = txs \cup {[job |-> i, sig |-> tip.events[i].sig] : i \in lost}
        /\ UNCHANGED <<dbVars, final, enabled, proc>>

-----------------------------------------------------------------------------
Operators ==
    \/ Approve
    \/ CorrectPublishedIssue
    \/ \E to \in Lifecycles : ChangeIssueLifecycle(to)
    \/ \E type \in HandoffStates \cup {"action_recorded"} : RecordIssueHandoff(type)
    \/ RemovePublishedIssue
    \/ SetPublicationEnabled

\* The steps a process takes once it works on a job.
Step(p) ==
    \/ Inspect(p) \/ InspectFails(p)
    \/ Submit(p) \/ SubmitFails(p) \/ SubmitAnswerLost(p) \/ SubmitRejected(p)
    \/ MarkSubmitted(p) \/ MarkSubmittedFails(p)
    \/ Confirm(p) \/ ConfirmFails(p)
    \/ FinalizeConfirmed(p) \/ FinalizeDeferred(p) \/ FinalizeThrows(p)
    \/ RecordFailure(p) \/ RecordSubmittedUnknown(p)
    \/ RecordPostSubmitConflict(p) \/ RecordProjectionDeferred(p)
    \/ StateLost(p)

Reconcile(r) ==
    \/ \E i \in JobIds : ReconcileRead(r, i)
    \/ ReconcileObserve(r) \/ ReconcileReport(r)
    \/ ReconcileLease(r) \/ ReconcileBusy(r)

Cluster ==
    \/ \E t \in txs : Land(t) \/ Expire(t)
    \/ FinalizeBlock
    \/ Rollback

Next ==
    \/ Operators
    \/ \E w \in Workers, i \in JobIds : Claim(w, i)
    \/ \E i \in JobIds : LeaseExpires(i)
    \/ \E p \in Processes : Step(p) \/ Crash(p)
    \/ \E r \in Reconcilers : Reconcile(r)
    \/ Cluster

Spec == Init /\ [][Next]_vars

\* The scheduler keeps invoking workers, an attempt that started goes on, and
\* leases run out.  A worker that asks again and again is answered, sends and
\* commits in the end, a transaction that is sent again and again lands in
\* the end, one that does not land expires, and blocks are finalised.
\* Operators promise nothing.
Fairness ==
    /\ \A w \in Workers :
          /\ WF_vars(\E i \in JobIds : Claim(w, i))
          /\ WF_vars(Step(w))
          /\ SF_vars(Inspect(w)) /\ SF_vars(Submit(w)) /\ SF_vars(FinalizeConfirmed(w))
    /\ \A i \in JobIds : WF_vars(LeaseExpires(i))
    /\ SF_vars(\E t \in txs : Land(t))
    /\ \A i \in JobIds, sig \in Sigs : WF_vars(Expire([job |-> i, sig |-> sig]))
    /\ WF_vars(FinalizeBlock)

FairSpec == Spec /\ Fairness

-----------------------------------------------------------------------------
(* Types.                                                                  *)

RowStates == {"absent", "pending", "leased", "confirming", "submitted_unknown",
              "confirmed", "dead_letter"}
Steps     == {"idle", "inspect", "submit", "mark", "confirm", "unknown", "defer",
              "finalizeExisting", "finalizeSubmitted", "fail", "failHard",
              "conflict", "observe", "repair"}
AnySig    == Sigs \cup {NoSig}
Details   == {"approved", "corrected", "removed", "action_recorded"}
                \cup LifecycleStates \cup HandoffStates
Links     == [ id : Nat, op : Operations, sequence : Nat, lifecycle : LifecycleStates,
               removed : BOOLEAN, meta : Int ]
Heads     == Seq(Links)
Snapshots == [ count : Nat, timeline : Heads, handoff : Heads,
               lifecycle : LifecycleStates, removed : BOOLEAN, meta : Int ]
Envelopes == [ op : Operations, expected : Snapshots, next : Snapshots,
               version : Nat, detail : Details ]
Events    == [ type : Operations \cup {"none"}, sequence : Nat, previous : Heads,
               head : Heads, lifecycle : LifecycleStates, removed : BOOLEAN,
               meta : Int, sig : AnySig ]
Chains    == [ acc : Snapshots, events : [JobIds -> Events] ]
Owners    == {Owner[p] : p \in Processes} \cup {NoOwner}
Rows      == [ state : RowStates, attempts : 0 .. MaxAttempts,
               owner : Owners,
               lease : {"none", "live", "expired"},   \* lease_expires_at
               sig : AnySig ]
Issues    == [ publication : {"none", "commit_pending", "published", "removed"},
               lifecycle : LifecycleStates, version : Nat,
               handoffState : HandoffStates \cup {"none"},
               count : Nat, timeline : Heads, handoff : Heads,
               confCount : Nat, confTimeline : Heads, confHandoff : Heads,
               blockedFrom : 0 .. MaxJobs ]
Publics   == [ state : {"absent", "published", "removed"}, version : Nat,
               lifecycle : LifecycleStates \cup {"none"},
               proof : [ count : Nat, timeline : Heads, handoff : Heads,
                         meta : Int, sig : AnySig ] ]

\* Every table, account and process holds a value its columns admit.
TypeOK ==
    /\ payload \in Seq(Envelopes)
    /\ Len(payload) <= MaxJobs
    /\ row \in [JobIds -> Rows]
    /\ issue \in Issues
    /\ versions \in [JobIds -> {"absent", "commit_pending", "published",
                                "superseded", "removed"}]
    /\ media \in {"redacted_derivative", "approved_public", "removed"}
    /\ restricted \in BOOLEAN
    /\ binding \in [JobIds -> AnySig]
    /\ public \in Publics
    /\ enabled \in BOOLEAN
    /\ tip \in Chains
    /\ final \in Chains
    /\ txs \subseteq [job : JobIds, sig : Sigs]
    /\ proc \in [Processes -> [ pc : Steps, job : 0 .. MaxJobs,
                                attempt : 0 .. MaxAttempts, sig : AnySig ]]

-----------------------------------------------------------------------------
(* What makes the outbox correct.                                          *)

\* Some job up to i removes the publication.
RemovedBy(i) == \E k \in 1 .. i : payload[k].op = "publication_removed"

\* The account, and the set of event accounts, of a chain that holds exactly
\* the first n jobs.
HoldsPrefix(chain, n) ==
    /\ n \in 0 .. Len(payload)
    /\ chain.acc = IF n = 0 THEN NoAccount ELSE payload[n].next
    /\ \A i \in JobIds :
          IF i \in 1 .. n
          THEN chain.events[i].sig \in Sigs /\ ObservationMatches(payload[i], chain.events[i])
          ELSE chain.events[i] = NoEvent

\* Every fork of the chain holds exactly a prefix of the issue's queue: no
\* job is skipped, applied twice or applied to another state than the
\* service that queued it expected, and its event account is the one the
\* envelope predicts (so chain_event_conflict cannot happen), however
\* workers with lost leases, retries and repeated submissions interleave.
ChainHoldsQueuePrefix ==
    /\ HoldsPrefix(tip, tip.acc.count)
    /\ HoldsPrefix(final, final.acc.count)
    /\ final.acc.count <= tip.acc.count

\* The database never runs ahead of finality and is at most one commitment
\* behind it: the confirmed count and heads of the issue row are those of
\* the finalised prefix or of its predecessor, and a job has a binding
\* exactly when it is confirmed, with the signature that created its event.
DatabaseFollowsFinality ==
    LET n == issue.confCount
    IN  /\ n <= final.acc.count
        /\ tip.acc.count <= n + 1
        /\ issue.confTimeline = IF n = 0 THEN ZeroHead ELSE payload[n].next.timeline
        /\ issue.confHandoff = IF n = 0 THEN ZeroHead ELSE payload[n].next.handoff
        /\ \A i \in JobIds :
              binding[i] = IF i <= n THEN final.events[i].sig ELSE NoSig

\* The public site shows the latest confirmed commitment and nothing else:
\* its version, lifecycle and removal are those the chain committed to, also
\* while private lifecycle changes and corrections are pending, and its
\* proof row carries the count, heads, metadata hash and signature of that
\* commitment.
PublicShowsCommitted ==
    LET n == issue.confCount
    IN  IF n = 0 THEN public.state = "absent"
        ELSE /\ public.state = IF payload[n].next.removed THEN "removed" ELSE "published"
             /\ public.state = "published" => /\ public.version = payload[n].next.meta
                                               /\ public.lifecycle = payload[n].next.lifecycle
             /\ public.proof = [ count |-> n, timeline |-> payload[n].next.timeline,
                                 handoff |-> payload[n].next.handoff,
                                 meta |-> payload[n].next.meta, sig |-> final.events[n].sig ]

\* While the public site shows a version, it is the one issue_versions row in
\* state 'published'.
PublishedVersionIsPublic ==
    public.state = "published" =>
        {v \in JobIds : versions[v] = "published"} = {public.version}

\* Every envelope a service queues passes prepareChainJob when a worker reads
\* it, and starts from the snapshot its predecessor leaves (after a removal
\* only count and heads: the services keep expecting a published issue).
QueueIsWellFormed ==
    \A i \in 1 .. Len(payload) :
        /\ Prepares(i, payload[i])
        /\ i > 1 =>
             LET before == payload[i - 1].next
                 after  == payload[i].expected
             IN  /\ after.timeline = before.timeline /\ after.handoff = before.handoff
                 /\ ~RemovedBy(i - 1) => after = before

\* Without repairs, the rows in state 'confirmed' are exactly the first
\* confirmed_update_count jobs: FIFO, no gap, and nothing a late worker
\* writes reopens or fails a confirmed row.
ConfirmedRowsArePrefix ==
    \A i \in JobIds : row[i].state = "confirmed" <=> i <= issue.confCount

\* Without repairs, blocked_from_sequence is set exactly while the queue has
\* a dead letter, and names it.
BlockedNamesDeadLetter ==
    /\ issue.blockedFrom = FirstOf(DeadLetters)
    /\ DeadLetters \subseteq {issue.confCount + 1}

\* Under Fairness, unless publication stays switched off, every queued job is
\* confirmed or the queue ends in a dead letter: no crash, lost answer,
\* expired lease or deferred projection leaves a job waiting for ever.
JobsSettle ==
    <>[]enabled =>
        \A i \in JobIds :
            (i <= Len(payload)) ~> (row[i].state = "confirmed" \/ DeadLetters # {})

-----------------------------------------------------------------------------
(* What the documents say and the code does not do.                        *)

\* "a chain outage cannot force unsafe content to remain visible"
\* (docs/production/state-machines.md): while content is visible, a removal
\* is accepted.
RemovalStaysPossible ==
    public.state = "published" /\ ~restricted => Accepting

\* The site shows the latest confirmed commitment, and the version it shows
\* is the one the versions table calls published.
SiteFollowsDatabase == PublicShowsCommitted /\ PublishedVersionIsPublic
=============================================================================
