---------------------------- MODULE ChainHistory ----------------------------
(* ChainOutbox implements CommittedHistory. *)
EXTENDS ChainOutbox

\* The finalised commitments as CommittedHistory sees them.
Ledger ==
    [i \in 1 .. final.acc.count |->
        [ op |-> final.events[i].type, lifecycle |-> final.events[i].lifecycle,
          removed |-> final.events[i].removed, meta |-> final.events[i].meta,
          head |-> final.events[i].head, sig |-> final.events[i].sig ]]

History == INSTANCE CommittedHistory WITH ledger <- Ledger, MaxCommits <- MaxJobs

\* The whole pipeline (operator services, outbox workers, signer, program and
\* public projection) implements CommittedHistory: with every fork, lease,
\* retry and repair hidden, finalised history grows by one legal commitment at
\* a time on top of what is public, versions are numbered without gaps, and
\* the public record goes from page to page of that history.
ImplementsCommittedHistory == History!HistorySpec
=============================================================================
