-------------------------- MODULE SignalProgramV2 ---------------------------
(***************************************************************************)
(* The issue instructions of programs/nagarik_signal_v2 as pure operators: *)
(* which transactions the program accepts on an issue account, the account *)
(* each one leaves and the CommitmentEvent account it creates.             *)
(*                                                                         *)
(* A transaction carries a chain job j, in the form of the envelope that   *)
(* ChainJob builds; id is the 32-byte event id, which the program uses     *)
(* only as a PDA seed and inside hashes.                                   *)
(*                                                                         *)
(* SHA-256 is injective here: a stream head is the sequence of everything  *)
(* hashed into it.  Category, evidence and location never differ between   *)
(* an envelope's two snapshots in the services, and are left out.          *)
(***************************************************************************)
EXTENDS Integers, Sequences

CONSTANT MaxSequence   \* MAX_SEQUENCE, 2^53 - 1 in the program

ASSUME MaxSequenceAssumption == MaxSequence \in Nat \ {0}

Operations ==
    {"issue_created", "metadata_version_committed", "lifecycle_changed",
     "handoff_checkpointed", "publication_removed"}

ZeroHash == 0          \* [0; 32] as a metadata hash
ZeroHead == << >>      \* [0; 32] as a stream head

\* The issue PDA before create_issue initialises it.
NoAccount ==
    [ count |-> 0, timeline |-> ZeroHead, handoff |-> ZeroHead,
      lifecycle |-> "open", removed |-> FALSE, meta |-> ZeroHash ]

\* record_hash and new_head of build_event: the event's fields, chained
\* onto the previous head of the event's own stream.
StreamHead(previous, id, op, sequence, lifecycle, removed, meta) ==
    Append(previous, [ id |-> id, op |-> op, sequence |-> sequence,
                       lifecycle |-> lifecycle, removed |-> removed,
                       meta |-> meta ])

ValidLifecycleTransition(from, to) ==
    CASE from = "open"        -> to \in {"in_progress", "disputed", "closed"}
      [] from = "in_progress" -> to \in {"resolved", "disputed", "closed"}
      [] from = "resolved"    -> to \in {"disputed", "closed"}
      [] from = "disputed"    -> to \in {"open", "in_progress", "resolved", "closed"}
      [] OTHER                -> FALSE

\* validate_append: the count and both heads the caller expects.
ValidateAppend(acc, expected) ==
    /\ acc.count = expected.count
    /\ acc.timeline = expected.timeline
    /\ acc.handoff = expected.handoff
    /\ acc.count < MaxSequence

\* The require! clauses of the five instructions.  create_issue initialises
\* the issue PDA, the others read it.
Accepts(acc, job) ==
    /\ job.op \in {"issue_created", "metadata_version_committed", "publication_removed"}
          => job.next.meta # ZeroHash
    /\ IF job.op = "issue_created"
       THEN acc = NoAccount
       ELSE /\ acc # NoAccount
            /\ ValidateAppend(acc, job.expected)
            /\ ~acc.removed
            /\ job.op = "lifecycle_changed" =>
                  /\ acc.lifecycle = job.expected.lifecycle
                  /\ ValidLifecycleTransition(job.expected.lifecycle, job.next.lifecycle)

\* previous_head of the event: zero for create_issue, otherwise the expected
\* head of the event's stream.
PreviousHead(job) ==
    CASE job.op = "issue_created"        -> ZeroHead
      [] job.op = "handoff_checkpointed" -> job.expected.handoff
      [] OTHER                           -> job.expected.timeline

\* The issue account after the instruction.  The program takes from the
\* transaction only the fields the instruction is about, the rest from the
\* account itself.
Execute(acc, id, job) ==
    LET sequence  == IF job.op = "issue_created" THEN 1 ELSE job.expected.count + 1
        lifecycle == CASE job.op = "issue_created"     -> "open"
                       [] job.op = "lifecycle_changed" -> job.next.lifecycle
                       [] OTHER                        -> acc.lifecycle
        meta      == IF job.op \in {"lifecycle_changed", "handoff_checkpointed"}
                     THEN acc.meta ELSE job.next.meta
        removed   == job.op = "publication_removed"
        handoff   == job.op = "handoff_checkpointed"
        newHead   == StreamHead(PreviousHead(job), id, job.op, sequence,
                                lifecycle, removed, meta)
    IN  [ count     |-> sequence,
          timeline  |-> IF handoff THEN acc.timeline ELSE newHead,
          handoff   |-> IF handoff THEN newHead ELSE acc.handoff,
          lifecycle |-> lifecycle,
          removed   |-> removed,
          meta      |-> meta ]

\* Mutant: the event records the lifecycle the account had before.
CommitmentEvent_StaleLifecycle(acc, id, job, sig) ==
    LET next    == Execute(acc, id, job)
        handoff == job.op = "handoff_checkpointed"
    IN  [ type      |-> job.op,
          sequence  |-> next.count,
          previous  |-> PreviousHead(job),
          head      |-> IF handoff THEN next.handoff ELSE next.timeline,
          lifecycle |-> acc.lifecycle,
          removed   |-> next.removed,
          meta      |-> next.meta,
          sig       |-> sig ]

\* The CommitmentEvent account created with it, and the signature of the
\* transaction that created it.
CommitmentEvent(acc, id, job, sig) ==
    LET next    == Execute(acc, id, job)
        handoff == job.op = "handoff_checkpointed"
    IN  [ type      |-> job.op,
          sequence  |-> next.count,
          previous  |-> PreviousHead(job),
          head      |-> IF handoff THEN next.handoff ELSE next.timeline,
          lifecycle |-> next.lifecycle,
          removed   |-> next.removed,
          meta      |-> next.meta,
          sig       |-> sig ]
=============================================================================
