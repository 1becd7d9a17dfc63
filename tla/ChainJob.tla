------------------------------ MODULE ChainJob ------------------------------
(***************************************************************************)
(* The outbox envelope of apps/web/lib/chain/chainJob.ts: how the services *)
(* build it, what prepareChainJob demands of it when a worker reads it     *)
(* back, and how chainObservationMatches compares it with a CommitmentEvent *)
(* read from the chain.                                                    *)
(***************************************************************************)
EXTENDS SignalProgramV2, Workflow

\* buildChainJob.  The caller supplies the snapshot it expects and the next
\* lifecycle, removal flag and metadata hash; count and heads are derived.
BuildChainJob(op, id, expected, lifecycle, removed, meta, version, detail) ==
    LET count   == expected.count + 1
        handoff == op = "handoff_checkpointed"
        head    == StreamHead(IF handoff THEN expected.handoff ELSE expected.timeline,
                              id, op, count, lifecycle, removed, meta)
    IN  [ op       |-> op,
          expected |-> expected,
          next     |-> [ count     |-> count,
                         timeline  |-> IF handoff THEN expected.timeline ELSE head,
                         handoff   |-> IF handoff THEN head ELSE expected.handoff,
                         lifecycle |-> lifecycle,
                         removed   |-> removed,
                         meta      |-> meta ],
          version  |-> version,     \* issue_version_id of the outbox row
          detail   |-> detail ]     \* the domain event the job points at

\* allowedLifecycleTransition, the envelope's own copy of the table.
AllowedLifecycleTransition(from, to) ==
    CASE from = "open"        -> to \in {"in_progress", "disputed", "closed"}
      [] from = "in_progress" -> to \in {"resolved", "disputed", "closed"}
      [] from = "resolved"    -> to \in {"disputed", "closed"}
      [] from = "disputed"    -> to \in {"open", "in_progress", "resolved", "closed"}
      [] OTHER                -> FALSE

\* validateOperationSemantics
OperationSemantics(job) ==
    LET e == job.expected
        n == job.next
    IN  CASE job.op = "issue_created" ->
               /\ e.count = 0 /\ e.timeline = ZeroHead /\ e.handoff = ZeroHead
               /\ e.meta = ZeroHash /\ ~e.removed
               /\ n.lifecycle = "open" /\ ~n.removed /\ n.meta # ZeroHash
          [] job.op = "metadata_version_committed" ->
               ~e.removed /\ n.lifecycle = e.lifecycle /\ ~n.removed /\ n.meta # ZeroHash
          [] job.op = "lifecycle_changed" ->
               /\ ~e.removed /\ ~n.removed /\ n.meta = e.meta
               /\ AllowedLifecycleTransition(e.lifecycle, n.lifecycle)
          [] job.op = "handoff_checkpointed" ->
               ~e.removed /\ ~n.removed /\ n.lifecycle = e.lifecycle /\ n.meta = e.meta
          [] OTHER ->
               ~e.removed /\ n.removed /\ n.meta # ZeroHash /\ n.lifecycle = e.lifecycle

\* prepareChainJob and prepareChainOutboxRecord: the checks a worker makes on
\* a row before it acts on it.  sequence is the row's chain_sequence column.
Prepares(sequence, job) ==
    LET n == job.next
    IN  /\ sequence = n.count
        /\ n.count = job.expected.count + 1
        /\ n.count <= MaxSequence
        /\ OperationSemantics(job)
        /\ n = BuildChainJob(job.op, sequence, job.expected, n.lifecycle,
                             n.removed, n.meta, job.version, job.detail).next

\* chainObservationMatches
ObservationMatches(job, event) ==
    LET handoff == job.op = "handoff_checkpointed"
    IN  /\ event.type = job.op
        /\ event.sequence = job.next.count
        /\ event.previous = IF handoff THEN job.expected.handoff ELSE job.expected.timeline
        /\ event.head = IF handoff THEN job.next.handoff ELSE job.next.timeline
        /\ event.meta = job.next.meta
        /\ event.lifecycle = job.next.lifecycle
        /\ event.removed = job.next.removed
=============================================================================
