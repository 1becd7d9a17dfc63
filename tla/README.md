# Nagarik Signal: a TLA+ verification project

Nagarik Signal keeps civic records in Postgres and anchors each public change of a
record on Solana. Its central promise is that the public site, the database and
the chain tell one story: what is public is what a finalised commitment says, in
the order in which operators decided it, whatever workers, RPC endpoints and the
cluster do in between. Around that path stand the ways a record comes to be
(reports, photographs, moderation), the people who read it (pages, proofs,
signals) and the key holders who may change the rules (administration).

This project models those parts as TLA+ modules, model-checks them with TLC on
small instances, and proves with TLAPS, for every value of the constants, the
properties that matter most. Paths below are relative to `src/`; paths that begin
with `lib/`, `app/` or `components/` are under `apps/web/`. `PROJECT.json` maps every
definition to the lines it models, lists the hazards at their lines and names the
property aimed at each.

1. Inventory — the system and what is hard in it
2. Modules — what models what, state and actions
3. Properties and runs — instances, bounds, fairness
4. Proofs — theorems, assumptions, invariants
5. Where the code departs from its documents
6. What is not modelled, and what is left

## 1. Inventory

| Component | State it keeps | Operations | Modelled in |
| --- | --- | --- | --- |
| Operator publication services (`lib/services/{moderation,publication,status,handoffs}.ts`) | `issues`, `issue_versions`, `handoff_aggregates`, access overlays | approve, correct, change lifecycle, record handoff, remove; each writes its `outbox_jobs` row in its own transaction | ChainOutbox |
| Chain envelope (`lib/chain/chainJob.ts`, `lib/solana/v2/protocol.ts`) | none (pure) | buildChainJob, prepareChainJob, chainObservationMatches | ChainJob |
| Chain outbox workers (`lib/chain/outboxWorker.ts`, migration `000600`) | `outbox_jobs`, `issue_chain_bindings`, confirmed count and heads | claim, inspect, submit, mark, confirm, finalise, fail, defer | ChainOutbox |
| Chain reconciler (`lib/chain/reconciler.ts`) | none of its own | read a batch, observe, repair | ChainOutbox |
| Public projection (`lib/chain/publicProjection.ts`) | `public.issue_projection`, `proof_projection` | project version, lifecycle, handoff, removal, inside the finalising transaction | ChainOutbox, CommittedHistory |
| Signer and transport (`lib/chain/signer.ts`, `lib/solana/v2/anchorTransport.ts`) | none | inspect, simulate, policy, send, confirm | ChainOutbox |
| Solana program v2, issues (`programs/nagarik_signal_v2`) | `IssueCommitment`, `CommitmentEvent` accounts | five issue instructions | SignalProgramV2 |
| Solana program v2, administration | `ProtocolConfig`, `RoleGrant` | initialise, roles, pause, authority transfer; the bootstrap script | ProtocolAdmin |
| Report form and intake (`lib/services/{publicIntake,submissions,privacyRequests}.ts`) | intake sessions, hourly buckets, submissions, privacy requests | ask for a session, upload, submit, track, ask for privacy | ReportIntake |
| Media pipeline (`lib/services/{uploads,mediaPromotion,mediaWorkflow,mediaRetention}.ts`) | `media_objects`, receipts, promotion jobs, stored bytes | upload, promote, review, derive, bind, approve, remove, sweep | MediaPipeline |
| Moderation page (`components/operator/OperatorReview.tsx`, `moderation.ts`, `mediaWorkflow.ts`) | tabs, three versioned rows | review, derive, bind, decide | ReviewConsole |
| Issue manager (`components/operator/OperatorIssueManager.tsx`) and idempotency (`operatorMutation.ts`, migration `000500`) | tabs, idempotency keys | reserve, replay, conflict, complete; reloads | OperatorConsole |
| Pilot invitations and signals (`pilotInvitations.ts`, `signals.ts`) | invitations, capabilities, sessions, signals, public count | invite, exchange, signal, retract | PilotAccess |
| Issue page and proof check (`app/api/v2/issues/[publicId]`, `lib/solana/v2/readOnly.ts`) | shared cache, page, check | read in three statements, verify with two providers | PublicReads |
| Solana program v1 (`programs/nagarik_signal`) | registry, stewards, issues, verifications, updates | its six instructions | SignalProgramV1 |
| Kill switches (`capabilitySwitches.ts`) | switch rows | change | the modules that read them |
| Worker authentication, rate limits, health, alerts, JSON store, import and release tooling | – | – | not modelled (section 6) |

What is hard here, and where the properties are aimed:

* **Shared identity and lost leases.** Scheduled invocations of one release all write the
  owner string `outbox:<release>`: a worker whose lease ran out passes the "still my lease"
  check while a later one works on the same row.
* **Reads that go stale.** A worker submits on an inspection another attempt has overtaken;
  the reconciler repairs rows it read at the start of a batch; the retention sweep deletes bytes
  of a candidate it read earlier; routes authorise a request that a service applies later;
  moderators decide on screens loaded before.
* **Unknown outcomes.** A transaction is sent and the answer lost; a commit succeeds and its
  answer is lost; a browser repeats a request it does not know the fate of.
* **Forks.** A transaction in an unfinalised block can vanish and land again.
* **Pipelining.** Operators queue changes ahead of confirmation, so the issue row runs ahead
  of the public site by any number of changes, of five kinds.
* **Two stores, no transaction.** Objects are written before, and deleted before, the rows that
  name them.
* **Signed messages that wait.** Administration transactions and v1 updates land late, in any
  order, after a revocation too.
* **Getting stuck.** Expired leases, deferred projections, dead letters, sessions refused or
  outlived, buttons that wait for an answer that does not come, a bootstrap that dies half-way.

## 2. Modules

```
 Workflow      SignalProgramV2
    |  \          /      \
    |   \     ChainJob    CommittedHistory ---- PublicReads -- MCPublicReads,  PublicReads_proofs
    |    \       |              ^
    |     ChainOutbox           | implements
    |         |                 |
    |     ChainHistory ---------+
    |         |
    |         +-- MCChainOutbox,   ChainHistory_proofs
    |
    +-- MediaPipeline -- MCMediaPipeline,     MediaPipeline_proofs
    +-- OperatorConsole -- MCOperatorConsole, OperatorConsole_proofs
    +-- ReviewConsole -- MCReviewConsole,     ReviewConsole_proofs

 PilotAccess   -- MCPilotAccess,   PilotAccess_proofs
 ReportIntake  -- MCReportIntake,  ReportIntake_proofs
 ProtocolAdmin   -- MCProtocolAdmin   \
                                       Programs_proofs
 SignalProgramV1 -- MCSignalProgramV1 /
```

Definitions named `X_Something` beside a definition `X` are the same definition with a plausible
bug; each property is listed in `PROJECT.json` with one that breaks it.

### Workflow, SignalProgramV2, ChainJob

* **Workflow**: the submission, lifecycle and handoff tables of `lib/domain/workflow.ts`.
* **SignalProgramV2**: the five issue instructions as operators. `Accepts` is the `require!`
  clauses, `Execute` the account afterwards, `CommitmentEvent` the event account. A stream head is
  the sequence of everything hashed into it, that is, SHA-256 is injective.
* **ChainJob**: the envelope the services store: how it is built, what a worker demands of it
  when it reads it back (`Prepares`), how it is compared with an event (`ObservationMatches`).
  The lifecycle table exists three times in the code (domain, envelope, program); the model keeps
  all three.

### ChainOutbox

One issue, its queue, any number of workers and reconcilers, the projection and the cluster.

| Variable | Code |
| --- | --- |
| `payload` | `outbox_jobs.canonical_payload`, immutable, by `chain_sequence` |
| `row` | `state, attempt_count, lease_owner, lease_expires_at, submitted_signature` of `outbox_jobs` |
| `issue` | `issues`: publication and lifecycle state, current version, projected and confirmed count and heads, `blocked_from_sequence`; state of `handoff_aggregates` |
| `versions`, `media`, `restricted` | `issue_versions.state`, state of the public derivative, access overlay |
| `binding` | `issue_chain_bindings.signature` |
| `public` | `public.issue_projection`, `public.proof_projection` |
| `enabled` | the `publicationEnabled` switch |
| `tip`, `final` | the issue's accounts at the latest block and at the latest finalised block |
| `txs` | transactions sent, neither included nor expired |
| `proc` | per process: the `await` it stands at, its job, attempt number and signature |

| Actions | Code |
| --- | --- |
| `Approve`, `CorrectPublishedIssue`, `ChangeIssueLifecycle`, `RecordIssueHandoff`, `RemovePublishedIssue` | the five services that queue a job; each is one transaction under the issue row lock |
| `SetPublicationEnabled` | `changeCapabilitySwitch` |
| `Claim`, `LeaseExpires` | `claim_chain_outbox_jobs` and `parseClaimedJob`; the lease clock |
| `Inspect`, `InspectFails`, `Submit`, `SubmitFails`, `SubmitAnswerLost`, `SubmitRejected`, `MarkSubmitted`, `MarkSubmittedFails`, `Confirm`, `ConfirmFails` | `processJob`, one action per awaited call and outcome |
| `FinalizeConfirmed`, `FinalizeDeferred`, `FinalizeThrows` | `finalizeConfirmed` with the projection it applies in the same transaction |
| `RecordFailure`, `RecordSubmittedUnknown`, `RecordPostSubmitConflict`, `RecordProjectionDeferred`, `StateLost` | the four closing transactions, and what happens when their check fails |
| `ReconcileRead`, `ReconcileObserve`, `ReconcileReport`, `ReconcileLease`, `ReconcileBusy` | `reconcileChainOutbox` with `dryRun` false; the repair then finalises like a worker |
| `Crash` | the process dies between two awaits |
| `Land`, `Expire`, `FinalizeBlock`, `Rollback` | the cluster (external) |

Abstractions, and why they are safe:

* *One issue.* Row locks, the FIFO rule, `blocked_from_sequence`, PDAs and the projection are
  all per issue. A batch claims up to ten rows, but the FIFO rule makes at most one row per issue
  eligible.
* *Time.* A lease may run out and a backoff elapse at any moment. With `LeasesOutlastAttempts`
  the model adds that neither happens while a process works on the row; the runs for races leave
  it FALSE.
* *Hashes* are injective, and an identifier derived from a hash is the job's number.
* *Signatures.* A new transaction gets the smallest free number, or that of one still in
  flight (same blockhash, hence the same transaction).
* *Refused requests.* The idempotency reservation, the caller's expected version and the operator
  switches can only refuse a service; here a refusal is the action not happening (OperatorConsole
  models them). A paused protocol, a revoked role or a preflight failure is a transaction that is
  not sent or does not land. The preflight at `confirmed` is not a guard: the model sends more than
  the code does.
* *Left out of the rows:* `outbox_attempts` and audit rows, `event_projection` (append-only
  copies), backoff times, the rate of the scheduler.

### CommittedHistory and ChainHistory

CommittedHistory is what everybody who reads the site relies on, without queues, leases, retries
or forks. `ledger` is the finalised history of an issue; it grows by one legal commitment at a
time, on top of the page that is public (`Publication`, `Correction`, `LifecycleChange`, `Checkpoint`,
`Removal`), and `TurnPage` moves the public record from the page of one prefix to the page of the
next. ChainHistory gives the refinement mapping (`ledger <- Ledger`, the finalised event accounts in
order; `public` is the same variable) and states `ImplementsCommittedHistory`, which TLC checks and
TLAPS proves. PublicReads is built on top of CommittedHistory, so what it shows of readers holds of
anything that implements it.

### MediaPipeline

| Variable | Code |
| --- | --- |
| `objects` | keys under which the object store holds bytes |
| `media`, `receipt`, `submission`, `job`, `bindings` | `media_objects`, the `submission_media` capability, `submissions` with its link, the `media_promote` outbox job, `operator_media` capabilities |
| `uploading`, `deriving`, `worker`, `sweep` | where each call of `createStagedUpload`, `createPublicDerivative`, `processMediaPromotion`, `sweepExpiredMedia` stands, with what it has read |
| `faults` | how many faults so far, and the rows whose commit lost its answer |

`StageUpload`, `CommitUpload`, `UploadTransactionFails`, `UploadAnswerLost`, `DiscardStaged`,
`UploadCrashes` are `uploads.ts`; `CreatePrivateSubmission` the media part of a submission;
`ClaimPromotion`, `ContinuePromotion` and the failures `processMediaPromotion` step by step (claim, read,
write, finalise, remove); `ReviewPrivateMedia`,
`BeginDerivative` … `CleanUpDerivative`, `IssueMediaBindingReceipt` `mediaWorkflow.ts`;
`ModerateSubmission`, `ApproveSubmission` `moderation.ts`; `RemovePublicMedia` the removal; `Sweep`
and its failures the retention sweep. Every deadline is a flag that may be set at any moment
(`MediaExpires`, `ReceiptExpires`, `BindingExpires`, `PromotionLeaseExpires`). What an object holds is
its key: an object is never overwritten with other bytes under one key.

### PilotAccess

`invitation`, `session`, `children` are the invitation row with its purpose-1 capability, the
completed reservation of (invitation, key) and the purpose-2 and -3 capabilities; `signal`,
`projection`, `audits` the rows `signals.ts` writes; `browser` the button and the cookie; `drawn` the
idempotency keys drawn. `HandleSession` and `HandleSignal` are one service transaction with the fate of
its answer (lost, or delivered again); `AuthorizeSignal` is the route's check, a step of its own
because the service runs later. `PublishProjection` and `RemoveProjection` stand for the chain pipeline,
`ToggleSwitch` for the kill switches.

### ReportIntake

The form of `components/report` (gate and sending state), its two cookies, the recovery tokens at hand in
each browser, the hourly bucket of one network address, the day capabilities (`<<policy version, day>>`),
submissions and privacy requests.
`CheckSession`, `PostSession`, `TryAgain` are the session gate; `SendReport`, `Upload`,
`AuthorizeSubmission`, `Submit` the press of Send, one action per request; `CallSession` is any other
client of the address; `Tick`, `RotatePolicy`, `ToggleIntake` the surroundings. The answer to a submission
carries the token of its tracking capability and sets it as the cookie; a person may take a token to another
browser (`HandOver`). The tracking route (`TrackingPage`) and `CreatePrivacyRequest` take the token from the
header `Authorization: NagarikTracking` or else from the cookie (`Presented`); a request about a published
issue needs the intake cookie only. A request sent again under its idempotency key is the same request. What a report says and the
location policy are data no property tells apart, and the 90 days of a tracking
capability are longer than the clock runs.

### ProtocolAdmin

`config` and `grants` are the accounts; `wire` every signed message, which may land at any time and
again; `log` the emitted events; `writes` the issue instructions let through; `boot` the script
`scripts/bootstrap-v2-devnet.ts`, which sends one transaction at a time, may die (`BootDies`) and be
started again. `Land` is the six instructions with the checks of `validate_admin`, in their order;
`SignRole`, `SignPause`, `SignTransfer` what holders of a key sign; `WriteIssue` the role check of an
issue instruction. `AfterEvent` is what one event tells a reader who knows the accounts before it;
`Replay` applies it along the log.

### OperatorConsole and ReviewConsole

Both are a page, its requests, the service behind it and the answers on their way back. A press takes
the versions on the screen and a fresh idempotency key (`Mutate`); `Deliver` is the service transaction,
possibly long after the page gave up; `AnswerArrives`, `AnswerLost`, `LoadArrives`, `LoadFails` are the
page's handlers, in any order.

* **OperatorConsole**: the issue manager with reservation, replay, conflict and completion of
  `operatorMutation.ts` (`Disposition`), the expected version and the forms for status, handoff,
  correction and removal; `ChainConfirms` and `ChainBlocks` stand for the outbox.
* **ReviewConsole**: the moderation page. The submission, its photo and its derivatives are three
  rows with versions of their own; `ModerationAnswer`, `MediaCurrent`, `ReceiptHolds` are the checks of
  the services in their order, `ReceiptExpires`, `SweepDerivative`, `SweepMedia`, `ToggleSwitch` what
  happens behind a review.

### PublicReads

The issue page reads its issue row, the presence of a proof and the events in three statements
(`ReadIssueRow`, `ReadProofPresence`, `ReadEvents`, `AnswerDetail`), beside a shared cache; the proof check
reads issue row and proof row in two statements on two connections, and then asks two providers whose
nodes lag. `HistoryMoves` is CommittedHistory. What the check is for is in the model: stored fields
and bytes may be altered behind the services (`Alter`), and one provider may answer falsely.

### SignalProgramV1

The six instructions of the retired program: registry, stewards, issues, verifications and signed
status updates that land in any order. Its top definitions are called `V1Init`, `V1Next`, `V1Spec` and
`V1TypeOK`, so that one proof module can extend both programs.

## 3. Properties and runs

Runs that pass:

| Run | Instance | Properties |
| --- | --- | --- |
| MCHistory | one worker, a reconciler, three jobs of every kind and order, lost answers | `TypeOK`, `QueueIsWellFormed`, `DatabaseFollowsFinality`, `SiteFollowsDatabase`, `ImplementsCommittedHistory` |
| MCFaults | two workers sharing an owner string, two jobs, leases that run out, rollbacks, database faults, lost answers, provider disagreement, the switch | `ChainHoldsQueuePrefix`, `DatabaseFollowsFinality`, `ConfirmedRowsArePrefix`, `BlockedNamesDeadLetter`, `ImplementsCommittedHistory` |
| MCLiveness | one worker, three jobs, a crash, the switch | `JobsSettle` |
| MCMedia | one photograph, two tries to upload it, two reports that want it, two promotion workers, one derivative, one sweep, any one fault | `StoreMatchesRows`, `DestinationHasOneWriter`, `MediaRowsAgree`, `NothingIsRevived`, `ExpiredMediaIsDeleted`, `PromotionSettles` |
| MCPilot | two invitations, browsers and keys, one issue, five presses, one switch change | `AccessRowsAgree`, `CountIsActiveSignals`, `SignalChangesAreSanctioned` |
| MCReport | two browsers, other callers, two reports, one privacy request, three hours of one-hour days, two policies, one switch change, one lost answer | `SessionsAreBounded`, `TrackingNeedsTheToken`, `AcceptedUnderActivePolicy`, `ReportingComesBack` |
| MCAdmin | two keys, the service subject, one role, two administration messages beside the bootstrap, one crash | `TrailJustifiesWrites`, `NoTransferWhileOpen`, `MessagesLandOnce`, `TransfersAreProposed`, `BootstrapCompletes` |
| MCConsole | one administrator's tab, two requests, one reload under way, one fault | `TabsTellTheTruth`, `KeysAreFinal`, `ButtonsComeBack` |
| MCReview | one moderator's tab, from three stages of a review, three requests, one fault | `ReviewsAreInSight`, `ApprovalIsOneDerivative` |
| MCReads | two providers, one of them false, two commitments, one altered field | `ConfirmedMeansCommitted`, `FalseAlarmsNeedNewCommitments`, `PagesAreWhole`, `RestrictedContentLeaves` |
| MCVersion1 | three wallets, one issue, three updates | `AccountsAgree`, `UpdatesAreInOrder` |

MCRemovalPossible expects a violation (section 5).

What the properties say:

* `ChainHoldsQueuePrefix`: every fork holds exactly a prefix of the queue, with the events the
  envelopes predict. No job is skipped, doubled or applied to another state.
* `QueueIsWellFormed`: every queued envelope passes `prepareChainJob` and starts from what its
  predecessor leaves.
* `DatabaseFollowsFinality`: confirmed count, heads and bindings are those of the finalised prefix,
  at most one commitment behind.
* `SiteFollowsDatabase` = `PublicShowsCommitted` (version, lifecycle, removal and proof on the site are
  those of the latest confirmed commitment, also while the private row is ahead) and
  `PublishedVersionIsPublic` (that version is the one in state `published`).
* `ConfirmedRowsArePrefix`, `BlockedNamesDeadLetter`: without repairs, the confirmed rows are the first
  `confirmed_update_count` ones and `blocked_from_sequence` names the dead letter.
* `JobsSettle`: every queued job is confirmed or the queue ends in a dead letter.
* `StoreMatchesRows`: a private row whose deadline has not passed names bytes the store holds, a deleted
  row leaves none. `DestinationHasOneWriter`: no two workers believe they wrote one durable object, and
  one about to be removed is named by no row. Both make an exception for a row whose own staging or promoting
  transaction committed and lost its answer (section 5). `MediaRowsAgree`: types, one submission per upload,
  publication only through an approval. `NothingIsRevived`: decisions are final. `ExpiredMediaIsDeleted`: the
  sweep gets there. `PromotionSettles`: if invocations keep taking a promotion up, it ends promoted or failed
  for good, unless leases run out under living workers again and again.
* `AccessRowsAgree`: an invitation is consumed once, by one key, and its children are its scopes.
  `CountIsActiveSignals`: the public count is the number of active signals. `SignalChangesAreSanctioned`:
  every change of a signal has an audit event, happens with the switch on and on a published issue only;
  that a retraction may be refused for its audit id (section 5) is not against it.
* `SessionsAreBounded`: sessions within the hourly limit and gone the day after.
  `AcceptedUnderActivePolicy`, `ReportingComesBack`: as named. `TrackingNeedsTheToken`: a tracking record
  opens, and a request about a submission is taken, only on the token of that submission, by cookie or header;
  and whoever has a token has it, directly or not, from the answer the report's own sender received.
* `TrailJustifiesWrites`: the emitted events alone give back the accounts and justify every issue write.
  `NoTransferWhileOpen`, `MessagesLandOnce`, `TransfersAreProposed`: no writes during a transfer, no
  message twice, no authority without a proposal. `BootstrapCompletes`: the script, started again after
  each failure and left alone by other holders of the key, ends with the protocol open and configured.
* `TabsTellTheTruth`: a change is made on the text, lifecycle and handoff its operator's screen showed at the
  press (not on the text a form was edited from, section 5), and "recorded" is said only of what was
  recorded. `KeysAreFinal`: a key changes the issue once and is
  answered the same from then on. `ButtonsComeBack`: a busy page becomes usable.
* `ReviewsAreInSight`: verdicts are passed on what the screen showed, on a photo once.
  `ApprovalIsOneDerivative`: an approved submission has exactly one public derivative, the one its
  moderator bound having seen the photo reviewed.
* `ConfirmedMeansCommitted`: "confirmed" is said only of what the chain committed to, whatever was altered
  and whichever provider is false. `FalseAlarmsNeedNewCommitments`: an honest record is reported as a
  mismatch only if something was committed beyond what was public when the check began. `PagesAreWhole`: the
  events of a page cover the record above them. `RestrictedContentLeaves`: the shared cache runs out of
  restricted content in the end, and for good; a page that is open keeps what it shows.
* `AccountsAgree`, `UpdatesAreInOrder`: v1 counts, statuses and the chain of updates fit together.

**Bounds, and why they are enough.** `MaxJobs` 3 gives a job that is both successor and predecessor,
and every order of correction, lifecycle change, handoff and removal behind an approval; two jobs are
enough for races between two workers, and two signatures for one transaction that lands beside one
that is late. `AttemptLimit` 2 stands for 8: a first failure is retried, the second is final.
`MaxAttempts` saturates the counter, so it bounds no retries. `MaxSequence` 9 is above every count. In
MCMedia, `MaxTries` 2 and `MaxSubmissions` 2 give each race over an upload key and over a receipt its two
sides; `MaxFaults` 1 lets any one fault happen anywhere, and the derivative has one render per key,
because what a second render would race for is the key itself. In MCPilot five presses reach signal,
retract, signal and the refused second retraction. In MCReport one-hour days put midnight between any two
hours and `RateLimit` 2 is reached by two browsers or one and a caller; two reports give a
browser a second cookie, and one privacy request may be asked with any token for either. In MCAdmin two messages besides the
script's own are the smallest number in which one overtakes the other. The two consoles are checked with
one tab: other operators' changes reach a tab only as newer versions, which the tab's own late
requests, `ChainConfirms` and the sweep produce as well; the theorems about both hold for any number of
tabs. MCReads has one check at a time, as checks share nothing but rows. `MaxUpdates` 3 in
MCVersion1 leaves an update between a first and a last one. Symmetry is over interchangeable workers,
browsers, keys and wallets, and only in runs that check no liveness property.

Where a run says `CHECK_DEADLOCK FALSE`, the bounded instance really ends (no presses, messages or
hours are left, or an issue is blocked for good). What must not get stuck is stated as a liveness
property.

**The reconciler** is absent from MCFaults, because `ConfirmedRowsArePrefix` and `BlockedNamesDeadLetter` are
false with it (section 5); MCHistory has it.

**Fairness**, and what in the code justifies it:

* ChainOutbox: the cron route keeps invoking workers and an attempt that started goes on (weak
  fairness of claims and steps); leases expire and blocks are finalised (weak). Strong fairness of
  `Inspect`, `Submit`, `FinalizeConfirmed` and `Land`: a call that is made again and again succeeds at some
  time; the code retries and relies on it. Operators promise nothing. `JobsSettle` is conditional on
  publication being on in the end, and assumes that `v2WritesEnabled` stays on.
* MediaPipeline: the scheduled sweep goes on (`api/internal/retention`), leases run out, and a call that
  has reached the store goes on to its transaction and its clean-up, unless it dies. Nothing in the
  repository calls `processMediaPromotion` (section 5), so no fairness is assumed of `ClaimPromotion`: an
  invocation that has claimed a job runs on, and `PromotionSettles` speaks of a photograph whose job is taken
  up again and again. Batch limits of the sweep and repeated failures of one removal are outside the bounds.
* ReportIntake: time passes, and a page that checks, asks for a session or is told to try again does so.
* ProtocolAdmin: the script goes on, and its own last transaction lands. Its failures end with its
  crashes, which are bounded.
* OperatorConsole: a fetch ends, with an answer or an error (weak), and a reload started again and
  again ends (strong: an action of another tab may disable it in between).
* PublicReads: a cached copy reaches its age, and an open request is answered.

PilotAccess, ReviewConsole and SignalProgramV1 have safety properties only.

## 4. Proofs

Every safety invariant and every action property that a run checks is a theorem. They are proved for
every value of the constants, under the assumption each module states about them:

* `ConstantsAssumption`, `MaxSequenceAssumption`, `MediaAssumption`, `PilotAssumption`, `IntakeAssumption`,
  `ProtocolAdminAssumption`, `OperatorConsoleAssumption`: bounds are numbers, sets that stand for different
  things are disjoint, and what stands for "none" is no key, owner, photograph or browser.
* `ReviewConsoleAssumption`: a review starts from a submission that is not approved, with a photo that is
  not deleted.
* `ReadsAssumption`: of two providers at most one is false. The code asks two and takes their agreement for
  the chain's word; nothing could be shown of two that lie together.
* `SignalProgramV1Assumption`: there are finitely many wallets, since a count is compared with a
  cardinality.

| Theorem | Module | States |
| --- | --- | --- |
| `TypeCorrect` | ChainHistory_proofs | `TypeOK` |
| `QueueWellFormed`, `ChainFollowsQueue` | ChainHistory_proofs | `QueueIsWellFormed`, `ChainHoldsQueuePrefix` |
| `DatabaseFollows` | ChainHistory_proofs | `DatabaseFollowsFinality` |
| `ConfirmedRows`, `BlockedNamesIt` | ChainHistory_proofs | `ConfirmedRowsArePrefix`, `BlockedNamesDeadLetter`, without reconcilers |
| `SiteFollows` | ChainHistory_proofs | `SiteFollowsDatabase` |
| `ChainImplementsHistory` | ChainHistory_proofs | `ImplementsCommittedHistory`, the refinement |
| `StoreMatches`, `OneWriter`, `RowsAgree`, `NothingComesBack` | MediaPipeline_proofs | `StoreMatchesRows`, `DestinationHasOneWriter`, `MediaRowsAgree`, `NothingIsRevived` |
| `CountsExact`, `AccessRows`, `SanctionedSignals` | PilotAccess_proofs | `CountIsActiveSignals`, `AccessRowsAgree`, `SignalChangesAreSanctioned` |
| `BoundedSessions`, `TokenHoldersOnly`, `ActivePolicy` | ReportIntake_proofs | `SessionsAreBounded`, `TrackingNeedsTheToken`, `AcceptedUnderActivePolicy` |
| `ReviewsInSight`, `OneDerivative` | ReviewConsole_proofs | `ReviewsAreInSight`, `ApprovalIsOneDerivative` |
| `TabsAreTrue`, `KeysStayFinal` | OperatorConsole_proofs | `TabsTellTheTruth`, `KeysAreFinal` |
| `ConfirmedIsCommitted`, `FalseAlarmsAreNew`, `PagesStayWhole` | PublicReads_proofs | `ConfirmedMeansCommitted`, `FalseAlarmsNeedNewCommitments`, `PagesAreWhole` |
| `AdminTypeCorrect`, `OpenMeansSettled`, `MessagesLandAtMostOnce`, `TransfersFollowProposals`, `EventsTellAll` | Programs_proofs | `TypeOK`, `NoTransferWhileOpen`, `MessagesLandOnce`, `TransfersAreProposed`, `TrailJustifiesWrites` |
| `VersionOneAgrees`, `VersionOneIsOrdered` | Programs_proofs | `AccountsAgree`, `UpdatesAreInOrder` |

Each proof has one step per action (or one lemma per group of actions that touch the same state), and
lemmas for the operators used in several of them.

**The chain** (ChainHistory_proofs, in four parts), bottom up; leases may run out at any time, owners may be
shared, any disturbance may happen:

1. *Types.* `TypeOK` is not inductive: `Submit` copies a process's job and `Rollback` an event's signature
   into `txs`, and `projectLifecycle` copies the detail of a job to the site. `TypeInv` adds
   `WorksOnQueuedJob`, `InFlightOfQueue` and `LifecycleDetails`.
2. *The chain and the queue* (`PrefixInv`). `TailInIssue` says that the projected columns of the issue row
   describe the tail of the queue, so the next envelope fits. An event can be created only by `Land`;
   `validate_append` compares count and heads, heads are injective histories, so only the job after
   the prefix fits, and `QueueIsWellFormed` says that the account it produces is the one its envelope
   predicts, as long as no removal came before (`NoRemovalBefore`), after which nothing lands. Leases and
   FIFO play no part: on the chain the program alone keeps order.
3. *The database and finality* (`FinalityInv` = `PrefixInv` and `FollowsInv`). A worker acts on a job
   only after its predecessors were confirmed, and confirmations are never taken back; so whatever is in
   flight (`InFlightFollows`) or in a process's hands (`WorkFollows`) is at most the job after the
   confirmed ones, which bounds the chain from above. What a process is about to confirm it has read
   at `finalized` (`ConfirmsFinal`), and a finalised event stays (`TipExtendsFinal`), which bounds the
   database. A repair may reopen a confirmed row, so of the rows only `ConfirmedIsCounted` survives.
4. *The rows*, without reconcilers (`RowsInv`): exactly the counted rows are confirmed, and there is at
   most one dead letter, the one the issue names.
5. *The site* (`SiteInv`). A confirmation reads columns of the issue row that later services may have
   moved on. `ServicesBuild` says which envelopes the services build, `VersionsGrow` and `StreamsContinue`
   that versions and streams are numbered without gaps, `PendingIsLast` that a correction pending on the
   row is the last one queued, so that what the projection reads is what its job means; `PublicIsPage`
   is then inductive.
6. *The refinement.* Initial states map to the initial state, `FinalizeBlock` to a commitment (or, if no
   event of this issue was in the block, to a stutter; never to two, by `DatabaseFollowsFinality`),
   `FinalizeConfirmed` to `TurnPage`, and every other step to a stutter.

**MediaPipeline.** Nothing about rows alone is inductive here, because the store is written and cleared by
calls that hold no lock on the rows. `Inv` says, key by key, who may still write or remove the object:

* A staging key belongs to one try. What the try staged is there until it decides (`TriesHoldBytes`), and
  once a row or a job names the key the try is over (`Over`, `Settled`, in `RowKeys` and `JobsFollowRows`): it
  has ended, or it is about to discard the bytes of a row whose answer it never got.
* A durable key belongs to the one worker that wrote it until the row names it
  (`DestinationHasOneWriter`, `WorkersHoldJobs`), because the store refuses a second object under a key; then
  to the row, which expires only when no worker is left on it (`PromotedRowsSettle`).
* A caller whose commit succeeded and whose answer was lost removes what the row names. That is the one
  exception; it concerns that row only, and every part of the invariant that makes it says so by
  `faults.lostAnswers`.
* A derivative's key belongs to the call that holds the lock of its source, for a row that is not there
  (`SourceLockIsHeld`).
* What a sweep has read still holds, but for the state, as an expired row keeps its key and is never
  promoted again (`SweepsHoldExpired`): so deleting first and asking later is safe for every private
  photograph.

`NothingComesBack` is an action property: each transaction finds the row it changes in a state that is not
final.

**PublicReads.** `HistoryInv` is about CommittedHistory, hence of whatever implements it: each commitment
extends the head of its own stream, and what is public is the page of a prefix (`LedgerIsLegal`,
`PublicIsPage`). Heads of a prefix never change (`AppendKeepsHeads`), so what a reader knows of commitment n
stays true. `ReadersInv` is what readers know: a page's row is not newer than the events read after it, also
in the cache (`PagesComeWhole`); a check's proof row names a commitment no older than what was public when
it began (`CheckAdvances`); an honest provider's answer is an observation of the ledger from that
commitment's slot on (`AnswersAreHonest`); undisturbed rows are as written (`RowsAreTrue`). `ConfirmedIsCommitted`
then needs one provider that is honest: to agree with it, a row must be commitment n.

**OperatorConsole.** Whatever a tab, a reload under way or a request carries of the record is `Genuine`: of a
version not newer than the row's, and equal to the row where the version is the same. The service
compares versions in the transaction that changes the row, so a change that is made is made on what was
shown. Keys are drawn once (`KeysAreFresh`), and completed reservations are exactly the changes made
(`RecordsAreChanges`), which makes replays say what happened. `LoadsAreBounded` is a type fact that needs the
phase of the tab: only the reload a mutation waits for exceeds the bound.

**PilotAccess.** `Inv` = `TypeInv`, `RequestsAreAddressed`, `SessionsConsume`, `CountsAreExact`. An
invitation's rows are consumed exactly when some key has a session, which is what makes a second exchange
fail however requests interleave. The count is recomputed from the rows of an issue, and only by
transactions that lock it, so it is the cardinality of a finite set that grows or shrinks by one.
`SanctionedSignals` is an action property: a change of a signal needs the switch and the state of the
projection as they are in that step, not as the route saw them.

**ReportIntake.** `Inv` = `RowTypes`, `SessionsAreCounted` (the bucket row counts every request granted in
the hour, and refused ones beyond the limit), `CapabilitiesAreDated` (no capability is of a later day than
today), `CookiesAreIssued`, `TokensAreHandedOn` (a cookie is one of the browser's tokens, and each token was
in an answer its sender received: a tab gains tokens by its own answer or from another tab). Days are numbers
of hours; that at most two days are live at once is arithmetic about them (`LiveDays`).

**ProtocolAdmin.** `Inv` adds to `TypeOK` that messages that have taken effect are stale
(`LandedAreStale`: every effect moves the revision the message names), that only the script initialises,
and that a pending authority is explained by the end of the log. `TrailInv` is for `EventsTellAll`: the replay
of the log gives the accounts as they are. `Replay` is a recursive function, and TLA+ defines one only if
its equation has a solution; that it has one is therefore the first part of the invariant (`Replays`). A log
that grows by an event extends the solution for the log before it (`ReplayGrows`), and two solutions agree,
by a least number at which they would not (`ReplaysAgree`), so the replay up to an older write stays what it
was.

**SignalProgramV1.** The accounts of different issues have nothing in common, so `V1Inv` is one invariant per
issue (`IssueInv`): verifications are counted and never the reporter's (`Counted`), the status is explained
(`Explained`), the hashes chain (`Chained`), updates landed as signed (`AsSigned`). Of messages under way
(`SignedInv`): one that may still land is numbered one ahead of its issue, whose status since is what the
steward saw or, by two verifiers, "verified".

**ReviewConsole.** `Inv` = `ServerInv` and `ClientInv`. Of the server: a photo has derivatives only after
its review, every receipt was asked for by a moderator who saw the derivative and the photo reviewed
(`ReceiptsAreBindings`), approval is final and its derivative the only public one (`ApprovalsHold`).
Of the clients: records are genuine (`Genuine`: read at some time, hence of a version not newer than the
row's, and of the row's state if of its version), a request asks for what its tab showed when it was
sent (`PostsAreOfTheirTab`), and receipts reach only the tab that asked. A version that still matches
then says that the moderator saw the state the row is in.

**Only model-checked:** the liveness properties (`JobsSettle`, `ExpiredMediaIsDeleted`, `PromotionSettles`,
`ReportingComesBack`, `BootstrapCompletes`, `ButtonsComeBack`, `RestrictedContentLeaves`), because fairness and
ENABLED are beyond the prover, and the violation of section 5.

## 5. Where the code departs from its documents

Shown by a run:

* **Removal waits for the chain** (MCRemovalPossible). `docs/production/state-machines.md:177`: "a chain
  outage cannot force unsafe content to remain visible". `removePublishedIssue` (`publication.ts:572`)
  refuses while a correction is pending, and nothing else removes. (It refuses while a dead letter blocks the
  issue as well; the run stops at the correction.)

Met while modelling; the models keep what the code does, and no run is spent on them. The chain:

* `docs/adr/0004-idempotency-outbox-and-reconciliation.md:85`: "`confirmed` is terminal".
  `reconcileExactChainOutboxJob` (`outboxWorker.ts:712`) leases confirmed rows too; if a worker confirmed
  the job after the batch was read, or a later job moved the confirmed head, the projection throws and
  the confirmed job becomes a dead letter that blocks the issue.
* `state-machines.md:244`: prepared and failed handoffs "never receive a public sequence or chain event".
  `recordIssueHandoff` (`handoffs.ts:217`) queues a checkpoint for every event type.
* `state-machines.md:168` takes published and superseded versions to `removed`. `projectRemoval`
  (`publicProjection.ts:285`) moves the current version only, which may be a correction queued behind the
  removal.
* `state-machines.md:280`: "maximum attempts not exceeded". Only `recordFailure` (`outboxWorker.ts:281`)
  counts; jobs in `submitted_unknown` or deferred are retried without limit.
* `commit_failed` is never set and no `retry_exact` exists; `action_recorded` is refused after `sent`
  (`handoffs.ts:190`, against `state-machines.md:253`); a handoff that failed or was closed cannot be
  prepared again (`workflow.ts`, against `state-machines.md:230`); a transient database error in
  `finalizeConfirmed` is final (`outboxWorker.ts:647`); an unknown fee is a final policy rejection
  (`anchorTransport.ts:315`).

Media and moderation:

* `uploads.ts:370`, `mediaPromotion.ts:275` and `mediaWorkflow.ts:476` remove what they wrote whenever their
  transaction throws, also when it committed and only the answer was lost: a row is left whose bytes are gone
  (`state-machines.md:117`, `architecture-contract.md:437`). The models do the same (`UploadAnswerLost`,
  `FinalizeAnswerLost`, `DerivativeAnswerLost`), and `PrivateRowsHaveBytes` and `DestinationHasOneWriter`
  make an exception for such a row (`faults.lostAnswers`). The bytes of derivatives are no part of
  `PrivateRowsHaveBytes`: the clean-up of a failed render runs after its locks are gone and may also take bytes
  that another request of its key has found and committed.
* `mediaRetention.ts:77` deletes the bytes before its update checks the row; a derivative approved in
  between stays public without them (`architecture-contract.md:474`).
* `moderation.ts:250` lets a review start while the photo waits for promotion
  (`state-machines.md:143`).
* No code lists the durable prefix for orphans (`architecture-contract.md:732`), and nothing calls
  `processMediaPromotion` outside tests (`architecture-contract.md:410`).
* `OperatorReview.tsx:745` says "Public derivative ready" of a deleted one and offers no other; `:302` draws a
  fresh key per press, so a press after a lost answer makes a second derivative
  (`threat-model.md:177`); `:312` sends rectangles with "No redaction", which the service refuses
  (`api-contracts.md:1159`).

Citizens and operators:

* `signals.ts:229` derives the audit id of a retraction from the signal alone, and it is a primary key: the
  second retraction of one capability on one issue is rolled back (`api-contracts.md:979`).
* The submission route stores one tracking cookie for the whole site (`app/api/v2/submissions`), so a second
  report locks its sender out of the first (`TrackingRecord.tsx:104`); the recovery token that would let him in
  there or on another browser (`api-contracts.md:500`) is accepted by the routes, but no page shows it or
  sends it; the form draws a new key per press
  (`ReportExperience.tsx:206`), so a retry after a lost answer makes a second submission.
* `publicIntake.ts:86` reads the database switch only, not the release's static enable
  (`docs/adr/0007-release-profile-and-kill-switches.md:58`).
* `OperatorIssueManager.tsx:565`: the correction form keeps its old text after a conflict reloads a newer
  version and sends it under the new version number (`threat-model.md:180`). In OperatorConsole the text
  of a form is what was on the screen when it was edited.
* `admin.rs:101`: a new role is granted while the protocol is open (`protocol-v2-contract.md:899`).

Readers:

* `readOnly.ts:532` requires the issue account to equal the proof row, so an honest record is a "mismatch"
  between the finality of the next commitment and its projection (`api-contracts.md:1074`).
* `[publicId]/route.ts:104` lets a shared cache keep the page of an issue restricted since
  (`api-contracts.md:748`); `:28` does not read the `publicReadEnabled` switch
  (`architecture-contract.md:668`).
* `PublicIssueRecord.tsx:139` shows "Matches" whatever the chain check said (`docs/security-model.md:30`).
* A correction replaces the sort key of the list (`publicProjection.ts:126`), so an issue moves under a visitor's
  cursor (`release-criteria.md:111`).

## 6. What is not modelled, and what is left

Not modelled, because no state of theirs takes part in the properties: worker authentication and
request rate limits, health, readiness and alerts, rendering, release tooling. Retired or run once: the
JSON store, its import, the demo seed and the v1 client. Without an implementation in the code: deciding
privacy requests, revision and withdrawal of a submission by a citizen, revocation of an
invitation or a capability. Left out for size: the explore list with its cursor, statistics and filters,
the second approval of a switch change, the check of version 1 proofs (hashes only), location policy and
pixel transformations, which are pure functions of data no property tells apart.

What is left: of the proofs, liveness. Of the model, the explore list under a visitor's cursor and the
second approval of a switch change, in this order.
