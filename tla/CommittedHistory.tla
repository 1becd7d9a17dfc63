-------------------------- MODULE CommittedHistory --------------------------
(***************************************************************************)
(* What the chain pipeline promises to everybody who reads the public      *)
(* site, without queues, leases, retries or forks: the finalised history   *)
(* of an issue only grows, by legal commitments, and the public record is  *)
(* always the page of one of its prefixes, at most one commitment behind.  *)
(* ChainOutbox implements this specification; PublicReads builds on it.    *)
(***************************************************************************)
EXTENDS SignalProgramV2, Workflow

CONSTANTS
    Sigs,           \* transaction signatures
    MaxCommits,     \* bound: commitments of the issue
    Changes,        \* the operations the history may hold beside issue_created
    Lifecycles      \* the lifecycle targets

Tombstone == -1     \* the metadata hash of a removal event

VARIABLES
    ledger,     \* the finalised CommitmentEvent accounts, in order
    public      \* public.issue_projection and public.proof_projection

history == <<ledger, public>>

\* The head of a stream after the first n commitments: that of its last event.
HeadAfter(n, handoffs) ==
    LET stream == {i \in 1 .. n : (ledger[i].op = "handoff_checkpointed") = handoffs}
    IN  IF stream = {} THEN ZeroHead
        ELSE ledger[CHOOSE i \in stream : \A k \in stream : k <= i].head

\* The public record after n commitments.
Page(n) ==
    LET c == ledger[n]
    IN  [ state     |-> IF c.removed THEN "removed" ELSE "published",
          version   |-> IF c.removed THEN 0 ELSE c.meta,
          lifecycle |-> IF c.removed THEN "none" ELSE c.lifecycle,
          proof     |-> [ count |-> n, timeline |-> HeadAfter(n, FALSE), handoff |-> HeadAfter(n, TRUE),
                          meta |-> c.meta, sig |-> c.sig ] ]

NoPage == [ state |-> "absent", version |-> 0, lifecycle |-> "none",
            proof |-> [ count |-> 0, timeline |-> ZeroHead, handoff |-> ZeroHead,
                        meta |-> ZeroHash, sig |-> 0 ] ]

HistoryInit == ledger = << >> /\ public = NoPage

\* A commitment is made on top of the page the public sees, and chained onto
\* the head of its own stream.
Commit(op, lifecycle, removed, meta) ==
    LET n    == Len(ledger) + 1
        head == StreamHead(HeadAfter(n - 1, op = "handoff_checkpointed"), n, op, n,
                           lifecycle, removed, meta)
    IN  /\ n <= MaxCommits /\ n = public.proof.count + 1
        /\ \E sig \in Sigs :
              ledger' = Append(ledger, [ op |-> op, lifecycle |-> lifecycle, removed |-> removed,
                                         meta |-> meta, head |-> head, sig |-> sig ])
        /\ UNCHANGED public

Last == ledger[Len(ledger)]
Open(op) == op \in Changes /\ ledger # << >> /\ ~Last.removed

Publication == ledger = << >> /\ Commit("issue_created", "open", FALSE, 1)

Correction ==
    /\ Open("metadata_version_committed")
    /\ Commit("metadata_version_committed", Last.lifecycle, FALSE, Last.meta + 1)

LifecycleChange(to) ==
    /\ Open("lifecycle_changed") /\ to \in LifecycleTransitions[Last.lifecycle]
    /\ Commit("lifecycle_changed", to, FALSE, Last.meta)

Checkpoint ==
    /\ Open("handoff_checkpointed")
    /\ Commit("handoff_checkpointed", Last.lifecycle, FALSE, Last.meta)

Removal ==
    /\ Open("publication_removed")
    /\ Commit("publication_removed", Last.lifecycle, TRUE, Tombstone)

\* The transaction that confirms the next commitment turns the page.
TurnPage ==
    /\ public.proof.count < Len(ledger)
    /\ public' = Page(public.proof.count + 1)
    /\ UNCHANGED ledger

Commits == \/ Publication \/ Correction \/ Checkpoint \/ Removal
           \/ \E to \in Lifecycles : LifecycleChange(to)

HistoryNext == Commits \/ TurnPage

HistorySpec == HistoryInit /\ [][HistoryNext]_history
=============================================================================
