------------------------- MODULE ChainHistory_proofs -------------------------
(***************************************************************************)
(* Proofs about ChainOutbox and ChainHistory for every number of workers   *)
(* and reconcilers, jobs, signatures and attempts, and every set of        *)
(* disturbances, in four parts that build on each other:                   *)
(*                                                                         *)
(*   1. rows, processes and chain keep their types;                        *)
(*   2. every fork of the chain holds a prefix of the issue's queue;       *)
(*   3. the database never runs ahead of finality;                         *)
(*   4. the public site shows the latest confirmed commitment, and the     *)
(*      pipeline implements CommittedHistory.                              *)
(***************************************************************************)
EXTENDS ChainHistory, WellFoundedInduction, SequenceTheorems, TLAPS

-----------------------------------------------------------------------------
(***************************************************************************)
(* PART 1.  TYPES                                                          *)
(***************************************************************************)

(* Facts about the operators of the model.                                 *)

\* A non-empty set of numbers has a least element, so the minimum that
\* finalizeConfirmed selects exists.
LEMMA SmallestExists ==
    ASSUME NEW S, S \subseteq Nat, S # {}
    PROVE  \E i \in S : \A k \in S : i <= k
<1> DEFINE R == OpToRel(<, Nat)
<1>1. R = {ss \in Nat \X Nat : ss[1] < ss[2]}
  BY Zenon DEF OpToRel
<1>2. PICK x \in S : \A y \in S : ~(<<y, x>> \in R)
  <2> HIDE DEF R
  <2>1. IsWellFoundedOn(R, Nat)
    BY NatLessThanWellFounded, Zenon DEF R
  <2> QED
    BY <2>1, WFMin
<1>3. \A y \in S : ~(y < x)
  BY <1>1, <1>2
<1> QED
  BY <1>3

\* blocked_from_sequence is null (0) or a chain sequence of the issue.
LEMMA FirstOfType ==
    ASSUME NEW S, S \subseteq JobIds
    PROVE  FirstOf(S) \in 0 .. MaxJobs
<1>1. JobIds \subseteq Nat /\ JobIds \subseteq 0 .. MaxJobs /\ 0 \in 0 .. MaxJobs
  BY ConstantsAssumption, MaxSequenceAssumption DEF JobIds
<1>2. CASE S = {}
  BY <1>1, <1>2 DEF FirstOf
<1>3. CASE S # {}
  <2>1. \E i \in S : \A k \in S : i <= k
    BY <1>1, <1>3, SmallestExists
  <2>2. FirstOf(S) \in S
    BY <1>3, <2>1, Zenon DEF FirstOf
  <2> QED
    BY <1>1, <2>2
<1> QED
  BY <1>2, <1>3

\* The numbers the constants stand for.
LEMMA ConstantTypes ==
    /\ MaxJobs \in Nat /\ MaxJobs <= MaxSequence /\ MaxSequence \in Nat
    /\ MaxAttempts \in Nat /\ AttemptLimit \in Nat
    /\ JobIds \subseteq Nat /\ JobIds \subseteq 0 .. MaxJobs /\ 0 \in 0 .. MaxJobs
    /\ AnySig \subseteq Nat /\ Sigs \subseteq AnySig /\ NoSig \in AnySig /\ NoSig \notin Sigs
    /\ NoOwner \in Owners /\ \A p \in Processes : Owner[p] \in Owners
BY ConstantsAssumption, MaxSequenceAssumption DEF JobIds, AnySig, NoSig, Owners

\* Appending a link to a stream head gives a stream head.
LEMMA StreamHeadType ==
    ASSUME NEW previous \in Heads, NEW id \in Nat, NEW op \in Operations,
           NEW sequence \in Nat, NEW lifecycle \in LifecycleStates,
           NEW removed \in BOOLEAN, NEW meta \in Int
    PROVE  StreamHead(previous, id, op, sequence, lifecycle, removed, meta) \in Heads
<1>1. [ id |-> id, op |-> op, sequence |-> sequence, lifecycle |-> lifecycle,
        removed |-> removed, meta |-> meta ] \in Links
  BY DEF Links
<1> QED
  BY <1>1 DEF StreamHead, Heads

\* buildChainJob returns an envelope.
LEMMA BuildChainJobType ==
    ASSUME NEW op \in Operations, NEW id \in Nat, NEW expected \in Snapshots,
           NEW lifecycle \in LifecycleStates, NEW removed \in BOOLEAN,
           NEW meta \in Int, NEW version \in Nat, NEW detail \in Details
    PROVE  BuildChainJob(op, id, expected, lifecycle, removed, meta, version, detail)
               \in Envelopes
<1> DEFINE head == StreamHead(IF op = "handoff_checkpointed" THEN expected.handoff
                                                            ELSE expected.timeline,
                              id, op, expected.count + 1, lifecycle, removed, meta)
<1>1. head \in Heads
  BY StreamHeadType DEF Snapshots
<1> HIDE DEF head
<1> QED
  BY <1>1 DEF BuildChainJob, head, Snapshots, Envelopes

\* Every instruction of the program leaves a well-typed issue account and
\* creates a well-typed event account.
LEMMA ExecuteType ==
    ASSUME NEW acc \in Snapshots, NEW id \in Nat, NEW job \in Envelopes, NEW sig \in AnySig
    PROVE  /\ Execute(acc, id, job) \in Snapshots
           /\ CommitmentEvent(acc, id, job, sig) \in Events
<1> DEFINE sequence  == IF job.op = "issue_created" THEN 1 ELSE job.expected.count + 1
           lifecycle == CASE job.op = "issue_created"     -> "open"
                          [] job.op = "lifecycle_changed" -> job.next.lifecycle
                          [] OTHER                        -> acc.lifecycle
           meta      == IF job.op \in {"lifecycle_changed", "handoff_checkpointed"}
                        THEN acc.meta ELSE job.next.meta
           removed   == job.op = "publication_removed"
           newHead   == StreamHead(PreviousHead(job), id, job.op, sequence,
                                   lifecycle, removed, meta)
<1>1. /\ job.op \in Operations /\ job.expected \in Snapshots /\ job.next \in Snapshots
  BY DEF Envelopes
<1>2. /\ sequence \in Nat /\ lifecycle \in LifecycleStates /\ removed \in BOOLEAN
      /\ meta \in Int
  BY <1>1 DEF Snapshots, LifecycleStates
<1>3. PreviousHead(job) \in Heads
  BY <1>1 DEF PreviousHead, Snapshots, ZeroHead, Heads
<1>4. newHead \in Heads
  <2> HIDE DEF sequence, lifecycle, meta, removed
  <2> QED BY <1>1, <1>2, <1>3, StreamHeadType
<1>5. Execute(acc, id, job) =
        [ count     |-> sequence,
          timeline  |-> IF job.op = "handoff_checkpointed" THEN acc.timeline ELSE newHead,
          handoff   |-> IF job.op = "handoff_checkpointed" THEN newHead ELSE acc.handoff,
          lifecycle |-> lifecycle, removed |-> removed, meta |-> meta ]
  BY DEF Execute
<1>6. Execute(acc, id, job) \in Snapshots
  <2> HIDE DEF sequence, lifecycle, meta, removed, newHead
  <2> QED BY <1>2, <1>4, <1>5 DEF Snapshots
<1>7. CommitmentEvent(acc, id, job, sig) \in Events
  BY <1>1, <1>3, <1>6 DEF CommitmentEvent, Snapshots, Events
<1> QED
  BY <1>6, <1>7

-----------------------------------------------------------------------------
(* Type correctness.                                                       *)

\* A process that is not idle works on a job of the queue.
WorksOnQueuedJob ==
    \A p \in Processes : proc[p].pc # "idle" => proc[p].job \in 1 .. Len(payload)

\* Transactions in flight, and events that only the unfinalised fork has, are
\* of queued jobs and carry a signature.
InFlightOfQueue ==
    /\ \A t \in txs : t.job \in 1 .. Len(payload)
    /\ \A i \in JobIds :
          tip.events[i] # final.events[i] =>
              i \in 1 .. Len(payload) /\ tip.events[i].sig \in Sigs

\* The lifecycle event of a lifecycle job is about the lifecycle it commits.
LifecycleDetails ==
    \A i \in 1 .. Len(payload) :
        payload[i].op = "lifecycle_changed" => payload[i].detail = payload[i].next.lifecycle

\* TypeOK is not inductive: Submit and Rollback put the job of a process and
\* the signature of an event into txs, and projectLifecycle copies the
\* detail of a job to the public site.
TypeInv == TypeOK /\ WorksOnQueuedJob /\ InFlightOfQueue /\ LifecycleDetails

\* The type of the process table, the part of TypeOK most steps are about.
ProcType == proc \in [Processes -> [ pc : Steps, job : 0 .. MaxJobs,
                                     attempt : 0 .. MaxAttempts, sig : AnySig ]]

\* The empty database, the empty chain and idle processes satisfy it.
LEMMA InitType == Init => TypeInv
<1> SUFFICES ASSUME Init PROVE TypeInv
  OBVIOUS
<1> USE ConstantTypes
<1>1. NoAccount \in Snapshots
  BY DEF NoAccount, Snapshots, ZeroHead, ZeroHash, Heads, LifecycleStates
<1>2. NoEvent \in Events
  BY DEF NoEvent, Events, ZeroHead, ZeroHash, Heads, LifecycleStates
<1>3. NoChain \in Chains
  BY <1>1, <1>2 DEF NoChain, Chains
<1>4. NoJob \in Rows
  BY DEF NoJob, Rows, RowStates
<1>5. issue \in Issues
  BY DEF Init, Issues, ZeroHead, Heads, LifecycleStates
<1>6. public \in Publics
  BY DEF Init, Publics, NoProof, ZeroHead, ZeroHash, Heads, LifecycleStates
<1>7. ProcType
  BY DEF Init, ProcType, Idle, Steps
<1>8. TypeOK
  <2>1. payload \in Seq(Envelopes) /\ Len(payload) <= MaxJobs
    BY DEF Init
  <2>2. row \in [JobIds -> Rows] /\ binding \in [JobIds -> AnySig]
    BY <1>4 DEF Init
  <2> QED
    BY <1>3, <1>5, <1>6, <1>7, <2>1, <2>2 DEF Init, TypeOK, ProcType
<1>9. WorksOnQueuedJob /\ InFlightOfQueue /\ LifecycleDetails
  BY DEF Init, WorksOnQueuedJob, InFlightOfQueue, LifecycleDetails, Idle
<1> QED
  BY <1>8, <1>9 DEF TypeInv

\* A process that moves on keeps its job.
LEMMA ContinueType ==
    ASSUME TypeInv, NEW p \in Processes, NEW pc \in Steps, NEW sig \in AnySig,
           proc[p].pc # "idle", payload' = payload, Continue(p, pc, sig)
    PROVE  ProcType' /\ WorksOnQueuedJob'
BY DEF TypeInv, TypeOK, ProcType, WorksOnQueuedJob, Continue

\* A process that is done holds nothing.
LEMMA FinishType ==
    ASSUME TypeInv, NEW p \in Processes, payload' = payload, Finish(p)
    PROVE  ProcType' /\ WorksOnQueuedJob'
<1>1. Idle \in [ pc : Steps, job : 0 .. MaxJobs, attempt : 0 .. MaxAttempts, sig : AnySig ]
  BY ConstantTypes DEF Idle, Steps
<1> QED
  BY <1>1 DEF TypeInv, TypeOK, ProcType, WorksOnQueuedJob, Finish, Idle

\* A step that changes only what processes know.
LEMMA OnlyProcType ==
    ASSUME TypeInv, ProcType', WorksOnQueuedJob', UNCHANGED <<dbVars, chainVars, enabled>>
    PROVE  TypeInv'
BY DEF TypeInv, TypeOK, ProcType, InFlightOfQueue, LifecycleDetails, dbVars, chainVars

\* A step of a process that writes the row of its job, and the issue.
LEMMA RowStepType ==
    ASSUME TypeInv, NEW i \in JobIds, NEW new, i \in JobIds => new \in Rows,
           row' = [row EXCEPT ![i] = new], issue' \in Issues,
           ProcType', WorksOnQueuedJob',
           UNCHANGED <<payload, versions, media, restricted, binding, public,
                       chainVars, enabled>>
    PROVE  TypeInv'
BY DEF TypeInv, TypeOK, ProcType, InFlightOfQueue, LifecycleDetails, chainVars

\* The job of a process that is not idle is a row, an envelope and an event slot.
LEMMA BusyJob ==
    ASSUME TypeInv, NEW p \in Processes, proc[p].pc # "idle"
    PROVE  /\ proc[p].job \in 1 .. Len(payload) /\ proc[p].job \in JobIds
           /\ payload[proc[p].job] \in Envelopes
           /\ row[proc[p].job] \in Rows
           /\ proc[p].sig \in AnySig /\ proc[p].attempt \in 0 .. MaxAttempts
           /\ issue \in Issues
BY ConstantTypes DEF TypeInv, TypeOK, WorksOnQueuedJob, JobIds

\* Giving up a lease leaves a well-typed row.
LEMMA ReleasedType ==
    ASSUME NEW i \in JobIds, row[i] \in Rows, NEW state \in RowStates
    PROVE  Released(i, state) \in Rows
BY ConstantTypes DEF Released, Rows

\* Taking a lease leaves a well-typed row: the attempt counter is capped.
LEMMA LeasedType ==
    ASSUME NEW i \in JobIds, row[i] \in Rows, NEW p \in Processes
    PROVE  Leased(i, p) \in Rows /\ Leased(i, p).attempts \in 0 .. MaxAttempts
<1> DEFINE n == IF row[i].attempts < MaxAttempts THEN row[i].attempts + 1
                                                 ELSE row[i].attempts
<1>1. n \in 0 .. MaxAttempts
  BY ConstantTypes DEF Rows
<1>2. Leased(i, p) = [ row[i] EXCEPT !.state = "leased", !.owner = Owner[p],
                                     !.lease = "live", !.attempts = n ]
  BY DEF Leased
<1> HIDE DEF n
<1> QED
  BY <1>1, <1>2, ConstantTypes DEF Rows, RowStates

\* A dead letter leaves a well-typed issue row.
LEMMA BlockedType ==
    ASSUME issue \in Issues, NEW i \in JobIds
    PROVE  Blocked(i) \in Issues
BY ConstantTypes DEF Blocked, Issues

\* The insert that every service ends with.
LEMMA EnqueueType ==
    ASSUME TypeInv, NEW job \in Envelopes, NEW changed \in Issues,
           job.op = "lifecycle_changed" => job.detail = job.next.lifecycle,
           NextId <= MaxJobs, Enqueue(job, changed)
    PROVE  /\ payload' \in Seq(Envelopes) /\ Len(payload') <= MaxJobs
           /\ row' \in [JobIds -> Rows] /\ issue' \in Issues
           /\ ProcType' /\ WorksOnQueuedJob' /\ InFlightOfQueue' /\ LifecycleDetails'
           /\ UNCHANGED <<binding, public, chainVars, enabled, proc>>
<1> USE ConstantTypes
<1>1. job.next.count \in Nat /\ job.next.timeline \in Heads /\ job.next.handoff \in Heads
  BY DEF Envelopes, Snapshots
<1>2. issue' \in Issues
  BY <1>1 DEF Enqueue, Issues
<1>3. payload' \in Seq(Envelopes) /\ Len(payload') = Len(payload) + 1
  BY DEF Enqueue, TypeInv, TypeOK
<1>4. row' \in [JobIds -> Rows]
  <2>1. [NoJob EXCEPT !.state = "pending"] \in Rows
    BY DEF NoJob, Rows, RowStates
  <2> QED
    BY <2>1 DEF Enqueue, TypeInv, TypeOK
<1>5. ProcType' /\ WorksOnQueuedJob' /\ InFlightOfQueue'
  BY <1>3 DEF Enqueue, TypeInv, TypeOK, ProcType, WorksOnQueuedJob, InFlightOfQueue, chainVars
<1>6. Len(payload') <= MaxJobs
  BY <1>3 DEF NextId, TypeInv, TypeOK
<1>7. LifecycleDetails'
  <2>1. \A i \in 1 .. Len(payload') :
           payload'[i] = IF i = Len(payload) + 1 THEN job ELSE payload[i]
    BY <1>3 DEF Enqueue, TypeInv, TypeOK
  <2>2. Len(payload) \in Nat
    BY DEF TypeInv, TypeOK
  <2>3. ASSUME NEW i \in 1 .. Len(payload'), payload'[i].op = "lifecycle_changed"
        PROVE  payload'[i].detail = payload'[i].next.lifecycle
    <3>1. i = Len(payload) + 1 \/ i \in 1 .. Len(payload)
      BY <1>3, <2>2
    <3> QED
      BY <2>1, <2>2, <2>3, <3>1 DEF TypeInv, LifecycleDetails
  <2> QED
    BY <2>3 DEF LifecycleDetails
<1> QED
  BY <1>2, <1>3, <1>4, <1>5, <1>6, <1>7 DEF Enqueue

\* The operator services.
LEMMA OperatorsType == TypeInv /\ Operators => TypeInv'
<1> SUFFICES ASSUME TypeInv, Operators PROVE TypeInv'
  OBVIOUS
<1> USE ConstantTypes
<1>1. /\ issue \in Issues /\ NextId \in Nat
      /\ versions \in [JobIds -> {"absent", "commit_pending", "published",
                                  "superseded", "removed"}]
  BY DEF TypeInv, TypeOK, NextId
<1>2. ProjectedSnapshot \in Snapshots
  BY <1>1 DEF ProjectedSnapshot, Snapshots, Issues
<1>3. NoAccount \in Snapshots
  BY DEF NoAccount, Snapshots, ZeroHead, ZeroHash, Heads, LifecycleStates
<1>4. ASSUME NEW job \in Envelopes, NEW changed \in Issues,
             job.op = "lifecycle_changed" => job.detail = job.next.lifecycle,
             NextId <= MaxJobs, Enqueue(job, changed),
             versions' \in [JobIds -> {"absent", "commit_pending", "published",
                                       "superseded", "removed"}],
             media' \in {"redacted_derivative", "approved_public", "removed"},
             restricted' \in BOOLEAN
      PROVE  TypeInv'
  <2>1. /\ payload' \in Seq(Envelopes) /\ Len(payload') <= MaxJobs
        /\ row' \in [JobIds -> Rows] /\ issue' \in Issues
        /\ ProcType' /\ WorksOnQueuedJob' /\ InFlightOfQueue' /\ LifecycleDetails'
        /\ UNCHANGED <<binding, public, chainVars, enabled, proc>>
    BY <1>4, EnqueueType
  <2> QED
    BY <1>4, <2>1 DEF TypeInv, TypeOK, ProcType, chainVars
<1>5. CASE Approve
  <2> DEFINE job == BuildChainJob("issue_created", NextId, NoAccount, "open", FALSE, 1, 1,
                                  "approved")
  <2>1. job \in Envelopes
    <3>1. /\ "issue_created" \in Operations /\ "open" \in LifecycleStates
          /\ 1 \in Nat /\ 1 \in Int /\ "approved" \in Details /\ FALSE \in BOOLEAN
      BY DEF Operations, LifecycleStates, Details
    <3> QED
      BY <1>1, <1>3, <3>1, BuildChainJobType, Zenon
  <2>2. [issue EXCEPT !.publication = "commit_pending", !.lifecycle = "open",
                      !.version = 1] \in Issues
    BY <1>1 DEF Issues, LifecycleStates
  <2>3. versions' \in [JobIds -> {"absent", "commit_pending", "published",
                                  "superseded", "removed"}]
    BY <1>1, <1>5 DEF Approve
  <2>4. job.op # "lifecycle_changed"
    BY DEF BuildChainJob
  <2> QED
    BY <1>4, <1>5, <2>1, <2>2, <2>3, <2>4 DEF Approve, TypeInv, TypeOK
<1>6. CASE CorrectPublishedIssue
  <2> DEFINE v   == issue.version + 1
             job == BuildChainJob("metadata_version_committed", NextId, ProjectedSnapshot,
                                  issue.lifecycle, FALSE, v, v, "corrected")
  <2>1. v \in Nat /\ issue.lifecycle \in LifecycleStates
    BY <1>1 DEF Issues
  <2>2. job \in Envelopes
    <3>1. /\ "metadata_version_committed" \in Operations /\ "corrected" \in Details
          /\ v \in Int /\ FALSE \in BOOLEAN
      BY <2>1 DEF Operations, Details
    <3> HIDE DEF v
    <3> QED
      BY <1>1, <1>2, <2>1, <3>1, BuildChainJobType, Zenon
  <2>3. [issue EXCEPT !.publication = "commit_pending", !.version = v] \in Issues
    BY <1>1, <2>1 DEF Issues
  <2>4. versions' \in [JobIds -> {"absent", "commit_pending", "published",
                                  "superseded", "removed"}]
    BY <1>1, <1>6 DEF CorrectPublishedIssue
  <2>5. job.op # "lifecycle_changed"
    BY DEF BuildChainJob
  <2> QED
    BY <1>4, <1>6, <2>2, <2>3, <2>4, <2>5 DEF CorrectPublishedIssue, MayCorrect, CorrectionJob, TypeInv, TypeOK
<1>7. CASE \E to \in Lifecycles : ChangeIssueLifecycle(to)
  <2>1. PICK to \in Lifecycles : ChangeIssueLifecycle(to)
    BY <1>7
  <2> DEFINE job == BuildChainJob("lifecycle_changed", NextId, ProjectedSnapshot,
                                  to, FALSE, issue.version, issue.version, to)
  <2>2. to \in LifecycleStates /\ to \in Details /\ issue.version \in Nat
    BY <1>1, ConstantsAssumption DEF Issues, Details
  <2>3. job \in Envelopes
    <3>1. "lifecycle_changed" \in Operations /\ issue.version \in Int /\ FALSE \in BOOLEAN
      BY <2>2 DEF Operations
    <3> QED
      BY <1>1, <1>2, <2>2, <3>1, BuildChainJobType, Zenon
  <2>4. [issue EXCEPT !.lifecycle = to] \in Issues
    BY <1>1, <2>2 DEF Issues
  <2>5. job.detail = job.next.lifecycle
    BY DEF BuildChainJob
  <2> QED
    BY <1>4, <2>1, <2>3, <2>4, <2>5 DEF ChangeIssueLifecycle, TypeInv, TypeOK
<1>8. CASE \E type \in HandoffStates \cup {"action_recorded"} : RecordIssueHandoff(type)
  <2>1. PICK type \in HandoffStates \cup {"action_recorded"} : RecordIssueHandoff(type)
    BY <1>8
  <2> DEFINE job == BuildChainJob("handoff_checkpointed", NextId, ProjectedSnapshot,
                                  issue.lifecycle, FALSE, issue.version, issue.version, type)
             new == [issue EXCEPT !.handoffState =
                                     IF type = "action_recorded" THEN @ ELSE type]
  <2>2. type \in Details /\ issue.lifecycle \in LifecycleStates /\ issue.version \in Nat
    BY <1>1 DEF Issues, Details
  <2>3. job \in Envelopes
    <3>1. "handoff_checkpointed" \in Operations /\ issue.version \in Int /\ FALSE \in BOOLEAN
      BY <2>2 DEF Operations
    <3> QED
      BY <1>1, <1>2, <2>2, <3>1, BuildChainJobType, Zenon
  <2>4. new \in Issues
    BY <1>1 DEF Issues
  <2>5. job.op # "lifecycle_changed"
    BY DEF BuildChainJob
  <2> QED
    BY <1>4, <2>1, <2>3, <2>4, <2>5 DEF RecordIssueHandoff, MayRecordHandoff, TypeInv, TypeOK
<1>9. CASE RemovePublishedIssue
  <2> DEFINE job == BuildChainJob("publication_removed", NextId, ProjectedSnapshot,
                                  issue.lifecycle, TRUE, Tombstone, issue.version, "removed")
  <2>1. issue.lifecycle \in LifecycleStates /\ issue.version \in Nat /\ Tombstone \in Int
    BY <1>1 DEF Issues, Tombstone
  <2>2. job \in Envelopes
    <3>1. /\ "publication_removed" \in Operations /\ "removed" \in Details
          /\ TRUE \in BOOLEAN
      BY DEF Operations, Details
    <3> QED
      BY <1>1, <1>2, <2>1, <3>1, BuildChainJobType, Zenon
  <2>3. job.op # "lifecycle_changed"
    BY DEF BuildChainJob
  <2> QED
    BY <1>1, <1>4, <1>9, <2>2, <2>3 DEF RemovePublishedIssue, TypeInv, TypeOK
<1>10. CASE SetPublicationEnabled
  BY <1>10 DEF SetPublicationEnabled, TypeInv, TypeOK, WorksOnQueuedJob, InFlightOfQueue,
               LifecycleDetails, dbVars, chainVars
<1> QED
  BY <1>5, <1>6, <1>7, <1>8, <1>9, <1>10 DEF Operators

\* What finalizeConfirmed writes.
LEMMA FinalizeTypes ==
    ASSUME TypeInv, NEW i \in JobIds, i \in 1 .. Len(payload), NEW sig \in AnySig
    PROVE  /\ IssueAfter(i) \in Issues
           /\ PublicAfter(i, sig) \in Publics
           /\ VersionsAfter(i) \in [JobIds -> {"absent", "commit_pending", "published",
                                               "superseded", "removed"}]
<1>1. /\ payload[i] \in Envelopes /\ issue \in Issues /\ public \in Publics
      /\ versions \in [JobIds -> {"absent", "commit_pending", "published",
                                  "superseded", "removed"}]
  BY DEF TypeInv, TypeOK
<1>2. payload[i].next \in Snapshots /\ payload[i].version \in Nat
  BY <1>1 DEF Envelopes
<1>3. IssueAfter(i) \in Issues
  <2>1. FirstOf(DeadLetters \ {i}) \in 0 .. MaxJobs
    BY FirstOfType DEF DeadLetters
  <2> QED
    BY <1>1, <1>2, <2>1 DEF IssueAfter, Issues, Snapshots
<1>4. ProofOf(i, sig) \in [ count : Nat, timeline : Heads, handoff : Heads,
                            meta : Int, sig : AnySig ]
  BY <1>2 DEF ProofOf, Snapshots
<1>5. PublicAfter(i, sig) \in Publics
  <2>1. CASE Publishes(i)
    BY <1>1, <1>2, <1>4, <2>1 DEF PublicAfter, Publics, Issues
  <2>2. CASE ~Publishes(i) /\ public.state = "absent"
    BY <1>1, <2>2 DEF PublicAfter
  <2>3. CASE /\ ~Publishes(i) /\ public.state # "absent"
             /\ payload[i].op = "publication_removed"
    BY <1>1, <1>4, <2>3 DEF PublicAfter, Publics
  <2>4. CASE /\ ~Publishes(i) /\ public.state # "absent"
             /\ payload[i].op = "lifecycle_changed" /\ public.state = "published"
    <3>1. ProjectedLifecycle(i) \in LifecycleStates
      BY <1>2, <2>4 DEF ProjectedLifecycle, TypeInv, LifecycleDetails, Snapshots
    <3> QED
      BY <1>1, <1>4, <2>4, <3>1 DEF PublicAfter, Publics
  <2>5. CASE /\ ~Publishes(i) /\ public.state # "absent"
             /\ payload[i].op # "publication_removed"
             /\ ~(payload[i].op = "lifecycle_changed" /\ public.state = "published")
    BY <1>1, <1>4, <2>5 DEF PublicAfter, Publics
  <2> QED
    BY <2>1, <2>2, <2>3, <2>4, <2>5
<1>6. VersionsAfter(i) \in [JobIds -> {"absent", "commit_pending", "published",
                                       "superseded", "removed"}]
  BY <1>1 DEF VersionsAfter
<1> QED
  BY <1>3, <1>5, <1>6

\* What one transaction of a worker or reconciler does to the types.
LEMMA StepType ==
    ASSUME TypeInv, NEW p \in Processes, Step(p)
    PROVE  TypeInv'
<1> DEFINE i == proc[p].job
<1> USE ConstantTypes
<1>1. proc[p].pc # "idle"
  BY DEF Step, Inspect, InspectFails, Submit, SubmitFails, SubmitAnswerLost,
         SubmitRejected, MarkSubmitted, MarkSubmittedFails, Confirm, ConfirmFails,
         FinalizeConfirmed, FinalizeDeferred, FinalizeThrows, RecordFailure,
         RecordSubmittedUnknown, RecordPostSubmitConflict, RecordProjectionDeferred,
         StateLost
<1>2. /\ i \in 1 .. Len(payload) /\ i \in JobIds /\ row[i] \in Rows
      /\ payload[i] \in Envelopes /\ proc[p].sig \in AnySig /\ issue \in Issues
  BY <1>1, BusyJob
<1>3. ASSUME NEW pc \in Steps, NEW sig \in AnySig, Continue(p, pc, sig),
             UNCHANGED <<dbVars, chainVars, enabled>>
      PROVE  TypeInv'
  BY <1>1, <1>3, ContinueType, OnlyProcType DEF dbVars
<1>4. final.events[i].sig \in AnySig
  BY <1>2 DEF TypeInv, TypeOK, Chains, Events
<1>5. CASE Inspect(p)
  BY <1>3, <1>4, <1>5 DEF Inspect, Steps
<1>6. CASE InspectFails(p) \/ SubmitFails(p) \/ SubmitRejected(p) \/ MarkSubmittedFails(p)
  BY <1>3, <1>6 DEF InspectFails, SubmitFails, SubmitRejected, MarkSubmittedFails, Steps
<1>7. CASE Confirm(p)
  BY <1>2, <1>3, <1>7 DEF Confirm, Steps
<1>8. CASE ConfirmFails(p) \/ FinalizeDeferred(p) \/ FinalizeThrows(p)
  BY <1>2, <1>3, <1>8 DEF ConfirmFails, FinalizeDeferred, FinalizeThrows, Steps
<1>9. ASSUME NEW sig \in NextSigs(i), Send(i, sig), ProcType', WorksOnQueuedJob',
             UNCHANGED <<dbVars, tip, final, enabled>>
      PROVE  TypeInv'
  <2>1. sig \in Sigs
    BY DEF NextSigs, TypeInv, TypeOK
  <2>2. txs' \subseteq [job : JobIds, sig : Sigs]
    BY <1>2, <1>9, <2>1 DEF Send, TypeInv, TypeOK
  <2>3. InFlightOfQueue'
    BY <1>2, <1>9 DEF Send, TypeInv, InFlightOfQueue, dbVars
  <2> QED
    BY <1>9, <2>2, <2>3 DEF TypeInv, TypeOK, ProcType, LifecycleDetails, dbVars
<1>10. CASE Submit(p)
  <2>1. PICK sig \in NextSigs(i) : Send(i, sig) /\ Continue(p, "mark", sig)
    BY <1>10 DEF Submit
  <2>2. sig \in AnySig /\ "mark" \in Steps
    BY DEF NextSigs, TypeInv, TypeOK, Steps
  <2>3. UNCHANGED <<dbVars, tip, final, enabled>>
    BY <1>10 DEF Submit
  <2>4. ProcType' /\ WorksOnQueuedJob'
    BY <1>1, <2>1, <2>2, <2>3, ContinueType DEF dbVars
  <2> QED
    BY <1>9, <2>1, <2>3, <2>4
<1>11. CASE SubmitAnswerLost(p)
  <2>1. PICK sig \in NextSigs(i) : Send(i, sig)
    BY <1>11 DEF SubmitAnswerLost
  <2>2. /\ UNCHANGED <<dbVars, tip, final, enabled>>
        /\ Continue(p, "fail", NoSig) /\ "fail" \in Steps
    BY <1>11 DEF SubmitAnswerLost, Steps
  <2>3. ProcType' /\ WorksOnQueuedJob'
    BY <1>1, <2>2, ContinueType DEF dbVars
  <2> QED
    BY <1>9, <2>1, <2>2, <2>3
<1>12. CASE MarkSubmitted(p)
  <2>1. Released(i, "confirming") \in Rows
    BY <1>2, ReleasedType DEF RowStates
  <2>2. [Released(i, "confirming") EXCEPT !.sig = proc[p].sig] \in Rows
    BY <1>2, <2>1 DEF Rows
  <2>3. ProcType' /\ WorksOnQueuedJob'
    BY <1>1, <1>2, <1>12, ContinueType DEF MarkSubmitted, Steps
  <2> QED
    BY <1>2, <1>12, <2>2, <2>3, RowStepType DEF MarkSubmitted
<1>13. CASE FinalizeConfirmed(p)
  <2>1. /\ IssueAfter(i) \in Issues /\ PublicAfter(i, proc[p].sig) \in Publics
        /\ VersionsAfter(i) \in [JobIds -> {"absent", "commit_pending", "published",
                                            "superseded", "removed"}]
    BY <1>2, FinalizeTypes
  <2>2. Released(i, "confirmed") \in Rows
    BY <1>2, ReleasedType DEF RowStates
  <2>3. [Released(i, "confirmed") EXCEPT !.sig = Coalesce(@, proc[p].sig)] \in Rows
    BY <1>2, <2>2 DEF Rows, Coalesce
  <2>4. ProcType' /\ WorksOnQueuedJob'
    BY <1>13, FinishType DEF FinalizeConfirmed
  <2>5. /\ issue' \in Issues /\ public' \in Publics
        /\ versions' \in [JobIds -> {"absent", "commit_pending", "published",
                                     "superseded", "removed"}]
        /\ row' \in [JobIds -> Rows]
    BY <1>2, <1>13, <2>1, <2>3 DEF FinalizeConfirmed, TypeInv, TypeOK
  <2>6. /\ binding' \in [JobIds -> AnySig]
        /\ media' \in {"redacted_derivative", "approved_public", "removed"}
    BY <1>2, <1>13 DEF FinalizeConfirmed, TypeInv, TypeOK
  <2>7. UNCHANGED <<payload, restricted, chainVars, enabled>>
    BY <1>13 DEF FinalizeConfirmed
  <2> QED
    BY <2>4, <2>5, <2>6, <2>7 DEF TypeInv, TypeOK, ProcType, InFlightOfQueue,
                                  LifecycleDetails, chainVars
<1>14. CASE RecordFailure(p)
  <2> DEFINE dead == proc[p].pc = "failHard" \/ proc[p].attempt >= AttemptLimit
             new  == Released(i, IF dead THEN "dead_letter" ELSE "pending")
  <2>1. new \in Rows
    BY <1>2, ReleasedType DEF RowStates
  <2>2. issue' \in Issues
    BY <1>2, <1>14, BlockedType DEF RecordFailure
  <2>3. ProcType' /\ WorksOnQueuedJob'
    BY <1>14, FinishType DEF RecordFailure
  <2> QED
    BY <1>2, <1>14, <2>1, <2>2, <2>3, RowStepType DEF RecordFailure
<1>15. CASE RecordSubmittedUnknown(p)
  <2>1. [row[i] EXCEPT !.state = "submitted_unknown"] \in Rows
    BY <1>2 DEF Rows, RowStates
  <2>2. ProcType' /\ WorksOnQueuedJob'
    BY <1>15, FinishType DEF RecordSubmittedUnknown
  <2> QED
    BY <1>2, <1>15, <2>1, <2>2, RowStepType DEF RecordSubmittedUnknown
<1>16. CASE RecordPostSubmitConflict(p)
  <2>1. [row[i] EXCEPT !.state = "dead_letter"] \in Rows
    BY <1>2 DEF Rows, RowStates
  <2>2. ProcType' /\ WorksOnQueuedJob'
    BY <1>16, FinishType DEF RecordPostSubmitConflict
  <2>3. issue' \in Issues
    BY <1>2, <1>16, BlockedType DEF RecordPostSubmitConflict
  <2> QED
    BY <1>2, <1>16, <2>1, <2>2, <2>3, RowStepType DEF RecordPostSubmitConflict
<1>17. CASE RecordProjectionDeferred(p)
  <2>1. Released(i, "submitted_unknown") \in Rows
    BY <1>2, ReleasedType DEF RowStates
  <2>2. [Released(i, "submitted_unknown") EXCEPT !.sig = Coalesce(@, proc[p].sig)] \in Rows
    BY <1>2, <2>1 DEF Rows, Coalesce
  <2>3. ProcType' /\ WorksOnQueuedJob'
    BY <1>17, FinishType DEF RecordProjectionDeferred
  <2> QED
    BY <1>2, <1>17, <2>2, <2>3, RowStepType DEF RecordProjectionDeferred
<1>18. CASE StateLost(p)
  BY <1>18, FinishType, OnlyProcType DEF StateLost, dbVars
<1> QED
  BY <1>5, <1>6, <1>7, <1>8, <1>10, <1>11, <1>12, <1>13, <1>14, <1>15, <1>16, <1>17, <1>18
     DEF Step

\* The claim, the expiry of a lease, and a crash.
LEMMA LeaseTypes ==
    ASSUME TypeInv, \/ \E w \in Workers, i \in JobIds : Claim(w, i)
                    \/ \E i \in JobIds : LeaseExpires(i)
                    \/ \E p \in Processes : Crash(p)
    PROVE  TypeInv'
<1> USE ConstantTypes
<1>1. ASSUME NEW w \in Workers, NEW i \in JobIds, Claim(w, i)
      PROVE  TypeInv'
  <2>1. w \in Processes /\ row[i] \in Rows
    BY DEF Processes, TypeInv, TypeOK
  <2>2. Leased(i, w) \in Rows /\ Leased(i, w).attempts \in 0 .. MaxAttempts
    BY <2>1, LeasedType
  <2>3. ProcType' /\ WorksOnQueuedJob'
    BY <1>1, <2>1, <2>2 DEF Claim, TypeInv, TypeOK, ProcType, WorksOnQueuedJob, Steps
  <2>4. issue' \in Issues
    BY <1>1 DEF Claim, TypeInv, TypeOK
  <2> QED
    BY <1>1, <2>2, <2>3, <2>4, RowStepType DEF Claim
<1>2. ASSUME NEW i \in JobIds, LeaseExpires(i)
      PROVE  TypeInv'
  <2> row[i] \in Rows
    BY DEF TypeInv, TypeOK
  <2>1. [row[i] EXCEPT !.lease = "expired"] \in Rows
    BY DEF Rows
  <2>2. ProcType' /\ WorksOnQueuedJob' /\ issue' \in Issues
    BY <1>2 DEF LeaseExpires, TypeInv, TypeOK, ProcType, WorksOnQueuedJob
  <2> QED
    BY <1>2, <2>1, <2>2, RowStepType DEF LeaseExpires
<1>3. ASSUME NEW p \in Processes, Crash(p)
      PROVE  TypeInv'
  BY <1>3, FinishType, OnlyProcType DEF Crash, dbVars
<1> QED
  BY <1>1, <1>2, <1>3

\* The reconciler.
LEMMA ReconcileType ==
    ASSUME TypeInv, NEW r \in Reconcilers, Reconcile(r)
    PROVE  TypeInv'
<1> DEFINE i == proc[r].job
<1> USE ConstantTypes
<1>1. r \in Processes
  BY DEF Processes
<1>2. ASSUME NEW k \in JobIds, ReconcileRead(r, k)
      PROVE  TypeInv'
  <2>1. binding[k] \in AnySig
    BY DEF TypeInv, TypeOK
  <2>2. ProcType' /\ WorksOnQueuedJob'
    BY <1>1, <1>2, <2>1 DEF ReconcileRead, TypeInv, TypeOK, ProcType, WorksOnQueuedJob,
                            Steps, dbVars
  <2> QED
    BY <1>2, <2>2, OnlyProcType DEF ReconcileRead
<1>3. CASE ReconcileObserve(r)
  <2>1. /\ proc[r].pc # "idle" /\ "repair" \in Steps
        /\ Continue(r, "repair", final.events[i].sig)
        /\ UNCHANGED <<dbVars, chainVars, enabled>>
    BY <1>3 DEF ReconcileObserve, Steps
  <2>2. final.events[i].sig \in AnySig
    BY <1>1, <2>1, BusyJob DEF TypeInv, TypeOK, Chains, Events
  <2> QED
    BY <1>1, <2>1, <2>2, ContinueType, OnlyProcType DEF dbVars
<1>4. CASE ReconcileReport(r) \/ ReconcileBusy(r)
  BY <1>1, <1>4, FinishType, OnlyProcType DEF ReconcileReport, ReconcileBusy, dbVars
<1>5. CASE ReconcileLease(r)
  <2>1. proc[r].pc # "idle"
    BY <1>5 DEF ReconcileLease
  <2>2. i \in JobIds /\ row[i] \in Rows /\ i \in 1 .. Len(payload) /\ issue \in Issues
    BY <1>1, <2>1, BusyJob
  <2>3. Leased(i, r) \in Rows /\ Leased(i, r).attempts \in 0 .. MaxAttempts
    BY <1>1, <2>2, LeasedType
  <2>4. ProcType' /\ WorksOnQueuedJob'
    <3>1. ProcType /\ WorksOnQueuedJob
      BY <1>1 DEF TypeInv, TypeOK, ProcType
    <3>2. /\ proc' = [proc EXCEPT ![r].pc = "finalizeExisting",
                                  ![r].attempt = Leased(i, r).attempts]
          /\ payload' = payload
      BY <1>5 DEF ReconcileLease
    <3>3. ProcType'
      <4> DEFINE attempt == Leased(i, r).attempts
                 new == [proc[r] EXCEPT !.pc = "finalizeExisting", !.attempt = attempt]
      <4>1. "finalizeExisting" \in Steps /\ attempt \in 0 .. MaxAttempts
        BY <2>3 DEF Steps
      <4>2. proc' = [proc EXCEPT ![r] = new]
        BY <3>2
      <4> HIDE DEF attempt
      <4>3. proc[r] \in [ pc : Steps, job : 0 .. MaxJobs, attempt : 0 .. MaxAttempts,
                          sig : AnySig ]
        BY <1>1, <3>1 DEF ProcType
      <4>4. new \in [ pc : Steps, job : 0 .. MaxJobs, attempt : 0 .. MaxAttempts, sig : AnySig ]
        BY <4>1, <4>3
      <4> HIDE DEF new
      <4> QED
        BY <3>1, <4>2, <4>4 DEF ProcType
    <3>4. WorksOnQueuedJob'
      BY <2>1, <3>1, <3>2 DEF WorksOnQueuedJob, ProcType
    <3> QED
      BY <3>3, <3>4
  <2> QED
    BY <1>5, <2>2, <2>3, <2>4, RowStepType DEF ReconcileLease
<1> QED
  BY <1>2, <1>3, <1>4, <1>5 DEF Reconcile

\* The cluster.
LEMMA ClusterType == TypeInv /\ Cluster => TypeInv'
<1> SUFFICES ASSUME TypeInv, Cluster PROVE TypeInv'
  OBVIOUS
<1> USE ConstantTypes
<1>1. ASSUME tip' \in Chains, final' \in Chains, txs' \subseteq [job : JobIds, sig : Sigs],
             InFlightOfQueue', UNCHANGED <<dbVars, enabled, proc>>
      PROVE  TypeInv'
  BY <1>1 DEF TypeInv, TypeOK, WorksOnQueuedJob, LifecycleDetails, dbVars
<1>2. /\ tip \in Chains /\ final \in Chains /\ txs \subseteq [job : JobIds, sig : Sigs]
      /\ payload \in Seq(Envelopes) /\ InFlightOfQueue
  BY DEF TypeInv, TypeOK
<1>3. ASSUME NEW t \in txs, Land(t)
      PROVE  TypeInv'
  <2>1. /\ t.job \in 1 .. Len(payload) /\ t.job \in JobIds /\ t.sig \in Sigs
        /\ payload[t.job] \in Envelopes
    BY <1>2 DEF InFlightOfQueue
  <2>2. tip.acc \in Snapshots /\ tip.events \in [JobIds -> Events]
    BY <1>2 DEF Chains
  <2> DEFINE acc   == Execute(tip.acc, t.job, payload[t.job])
             event == CommitmentEvent(tip.acc, t.job, payload[t.job], t.sig)
  <2>3. acc \in Snapshots /\ event \in Events
    BY <2>1, <2>2, ExecuteType
  <2>4. event.sig = t.sig
    BY DEF CommitmentEvent
  <2>5. tip' = [acc |-> acc, events |-> [tip.events EXCEPT ![t.job] = event]]
    BY <1>3 DEF Land
  <2> HIDE DEF acc, event
  <2>6. tip' \in Chains
    BY <2>1, <2>2, <2>3, <2>5 DEF Chains
  <2>7. InFlightOfQueue'
    <3>1. txs' \subseteq txs /\ final' = final /\ payload' = payload
      BY <1>3 DEF Land, dbVars
    <3>2. ASSUME NEW k \in JobIds, tip'.events[k] # final'.events[k]
          PROVE  k \in 1 .. Len(payload') /\ tip'.events[k].sig \in Sigs
      <4>1. CASE k = t.job
        <5>1. tip'.events[k] = event
          BY <2>1, <2>2, <2>5, <4>1
        <5> QED
          BY <2>1, <2>4, <3>1, <4>1, <5>1
      <4>2. CASE k # t.job
        <5>1. tip'.events[k] = tip.events[k]
          BY <2>2, <2>5, <4>2
        <5> QED
          BY <1>2, <3>1, <3>2, <5>1 DEF InFlightOfQueue
      <4> QED
        BY <4>1, <4>2
    <3> QED
      BY <1>2, <3>1, <3>2 DEF InFlightOfQueue
  <2> QED
    BY <1>1, <1>2, <1>3, <2>6, <2>7 DEF Land
<1>4. CASE \E t \in txs : Expire(t)
  BY <1>1, <1>2, <1>4 DEF Expire, InFlightOfQueue, dbVars
<1>5. CASE FinalizeBlock
  BY <1>1, <1>2, <1>5 DEF FinalizeBlock, InFlightOfQueue, dbVars
<1>6. CASE Rollback
  <2> DEFINE lost == {i \in JobIds : tip.events[i] # final.events[i]}
  <2>1. \A i \in lost : i \in 1 .. Len(payload) /\ tip.events[i].sig \in Sigs
    BY <1>2 DEF InFlightOfQueue
  <2>2. txs' \subseteq [job : JobIds, sig : Sigs]
    BY <1>2, <1>6, <2>1 DEF Rollback
  <2>3. InFlightOfQueue'
    BY <1>2, <1>6, <2>1 DEF Rollback, InFlightOfQueue, dbVars
  <2> QED
    BY <1>1, <1>2, <1>6, <2>2, <2>3 DEF Rollback
<1> QED
  BY <1>3, <1>4, <1>5, <1>6 DEF Cluster

\* Every step keeps the invariant.
LEMMA TypeStep == TypeInv /\ [Next]_vars => TypeInv'
<1> SUFFICES ASSUME TypeInv, [Next]_vars PROVE TypeInv'
  OBVIOUS
<1>1. CASE Operators
  BY <1>1, OperatorsType
<1>2. CASE \/ \E w \in Workers, i \in JobIds : Claim(w, i)
           \/ \E i \in JobIds : LeaseExpires(i)
           \/ \E p \in Processes : Crash(p)
  BY <1>2, LeaseTypes
<1>3. CASE \E p \in Processes : Step(p)
  BY <1>3, StepType
<1>4. CASE \E r \in Reconcilers : Reconcile(r)
  BY <1>4, ReconcileType
<1>5. CASE Cluster
  BY <1>5, ClusterType
<1>6. CASE UNCHANGED vars
  BY <1>6 DEF vars, dbVars, chainVars, TypeInv, TypeOK, WorksOnQueuedJob,
              InFlightOfQueue, LifecycleDetails
<1> QED
  BY <1>1, <1>2, <1>3, <1>4, <1>5, <1>6 DEF Next

\* The inductive invariant holds in every reachable state.
LEMMA TypeInvariance == Spec => []TypeInv
<1> QED
  BY InitType, TypeStep, PTL DEF Spec

\* Type correctness: every table, account and process of the outbox, the
\* program and the projection holds a value its columns admit, in every
\* reachable state and for every number of processes, jobs and attempts.
THEOREM TypeCorrect == Spec => []TypeOK
<1>1. TypeInv => TypeOK
  BY DEF TypeInv
<1> QED
  BY <1>1, TypeInvariance, PTL

-----------------------------------------------------------------------------
(***************************************************************************)
(* PART 2.  EVERY FORK HOLDS A PREFIX OF THE QUEUE                         *)
(*                                                                         *)
(* The proof that every fork of the chain holds exactly a prefix of the    *)
(* issue's queue, whatever workers, reconcilers and the cluster do.        *)
(*                                                                         *)
(* The argument never looks at leases or row states: the services link     *)
(* every envelope to the issue row, the issue row always describes the     *)
(* tail of the queue, and the program accepts a transaction only on the    *)
(* count and heads its envelope expects.  After a removal the services     *)
(* keep queueing envelopes that expect a published issue; these the        *)
(* program must refuse, which is why the invariant says that no removal    *)
(* lies below the top of a fork.                                           *)
(***************************************************************************)

\* issue_created is the first job, and only the first, and expects nothing.
CreatedFirst ==
    \A i \in 1 .. Len(payload) :
        /\ payload[i].op = "issue_created" <=> i = 1
        /\ i = 1 => payload[i].expected = NoAccount

\* The projected columns of the issue row describe the tail of the queue;
\* after a removal only the count and the heads do.
TailInIssue ==
    LET n == Len(payload)
    IN  /\ issue.publication = "none" <=> n = 0
        /\ issue.count = n
        /\ n > 0 => /\ issue.timeline = payload[n].next.timeline
                    /\ issue.handoff = payload[n].next.handoff
                    /\ ~RemovedBy(n) => /\ issue.lifecycle = payload[n].next.lifecycle
                                        /\ issue.version = payload[n].next.meta

\* Of the first n jobs only the last may be a removal.
NoRemovalBefore(n) == \A k \in 1 .. (n - 1) : payload[k].op # "publication_removed"

\* The part of the invariant about the database: the queue and its tail.
QueueInv == QueueIsWellFormed /\ CreatedFirst /\ TailInIssue

\* The part of the invariant about the chain: its two forks, the latest block
\* and the latest finalised one, and what either holds of the queue.
ForkInv ==
    /\ ChainHoldsQueuePrefix
    /\ NoRemovalBefore(tip.acc.count) /\ NoRemovalBefore(final.acc.count)

\* The inductive invariant.
PrefixInv == TypeInv /\ QueueInv /\ ForkInv

-----------------------------------------------------------------------------
(* Facts about the program and the envelope.                               *)

\* What an envelope that prepareChainJob accepts looks like.
LEMMA PreparesFacts ==
    ASSUME NEW i \in Nat, NEW job \in Envelopes, Prepares(i, job)
    PROVE  /\ job.next.count = i /\ job.expected.count = i - 1
           /\ job.next.removed <=> job.op = "publication_removed"
           /\ OperationSemantics(job)
<1>1. /\ i = job.next.count /\ job.next.count = job.expected.count + 1
      /\ OperationSemantics(job)
  BY DEF Prepares
<1>2. job.expected.count \in Nat /\ job.op \in Operations
  BY DEF Envelopes, Snapshots
<1>3. job.next.removed <=> job.op = "publication_removed"
  <2>1. CASE job.op = "issue_created"
    BY <1>1, <2>1 DEF OperationSemantics
  <2>2. CASE job.op = "metadata_version_committed"
    BY <1>1, <2>2 DEF OperationSemantics
  <2>3. CASE job.op = "lifecycle_changed"
    BY <1>1, <2>3 DEF OperationSemantics
  <2>4. CASE job.op = "handoff_checkpointed"
    BY <1>1, <2>4 DEF OperationSemantics
  <2>5. CASE job.op = "publication_removed"
    BY <1>1, <2>5 DEF OperationSemantics
  <2> QED
    BY <1>2, <2>1, <2>2, <2>3, <2>4, <2>5 DEF Operations
<1> QED
  BY <1>1, <1>2, <1>3

\* build_event in the program and buildChainJob in the web application agree:
\* an accepted transaction on the account its envelope expects leaves the
\* snapshot the envelope predicts, and creates the event it predicts.
LEMMA ExecuteIsNext ==
    ASSUME NEW i \in Nat, NEW job \in Envelopes, NEW sig \in AnySig, Prepares(i, job),
           job.op = "issue_created" => job.expected = NoAccount
    PROVE  /\ Execute(job.expected, i, job) = job.next
           /\ ObservationMatches(job, CommitmentEvent(job.expected, i, job, sig))
<1> DEFINE e == job.expected
           n == job.next
           h == job.op = "handoff_checkpointed"
           head == StreamHead(IF h THEN e.handoff ELSE e.timeline,
                              i, job.op, e.count + 1, n.lifecycle, n.removed, n.meta)
<1>1. e \in Snapshots /\ n \in Snapshots /\ job.op \in Operations
  BY DEF Envelopes
<1>2. /\ n.count = i /\ e.count = i - 1 /\ e.count + 1 = i
      /\ n.removed = (job.op = "publication_removed")
      /\ OperationSemantics(job)
  BY <1>1, PreparesFacts DEF Snapshots
<1>3. /\ n.timeline = IF h THEN e.timeline ELSE head
      /\ n.handoff = IF h THEN head ELSE e.handoff
  <2>1. n = BuildChainJob(job.op, i, e, n.lifecycle, n.removed, n.meta,
                          job.version, job.detail).next
    BY DEF Prepares
  <2>2. BuildChainJob(job.op, i, e, n.lifecycle, n.removed, n.meta,
                      job.version, job.detail).next
          = [ count |-> e.count + 1,
              timeline |-> IF h THEN e.timeline ELSE head,
              handoff |-> IF h THEN head ELSE e.handoff,
              lifecycle |-> n.lifecycle, removed |-> n.removed, meta |-> n.meta ]
    BY DEF BuildChainJob
  <2> HIDE DEF head
  <2> QED
    BY <2>1, <2>2
<1> DEFINE lifecycle == CASE job.op = "issue_created"     -> "open"
                          [] job.op = "lifecycle_changed" -> n.lifecycle
                          [] OTHER                        -> e.lifecycle
           meta == IF job.op \in {"lifecycle_changed", "handoff_checkpointed"}
                   THEN e.meta ELSE n.meta
<1>4. lifecycle = n.lifecycle /\ meta = n.meta
  <2>1. CASE job.op = "issue_created"
    BY <1>2, <2>1 DEF OperationSemantics
  <2>2. CASE job.op = "metadata_version_committed"
    BY <1>2, <2>2 DEF OperationSemantics
  <2>3. CASE job.op = "lifecycle_changed"
    BY <1>2, <2>3 DEF OperationSemantics
  <2>4. CASE job.op = "handoff_checkpointed"
    BY <1>2, <2>4 DEF OperationSemantics
  <2>5. CASE job.op = "publication_removed"
    BY <1>2, <2>5 DEF OperationSemantics
  <2> QED
    BY <1>1, <2>1, <2>2, <2>3, <2>4, <2>5 DEF Operations
<1>5. PreviousHead(job) = IF h THEN e.handoff ELSE e.timeline
  BY <1>1 DEF PreviousHead, NoAccount, Operations
<1>6. (IF job.op = "issue_created" THEN 1 ELSE e.count + 1) = i
  BY <1>2 DEF NoAccount
<1>7. Execute(e, i, job) =
        [ count |-> i, timeline |-> IF h THEN e.timeline ELSE head,
          handoff |-> IF h THEN head ELSE e.handoff,
          lifecycle |-> n.lifecycle, removed |-> n.removed, meta |-> n.meta ]
  <2>1. Execute(e, i, job) =
          LET newHead == StreamHead(PreviousHead(job), i, job.op,
                            IF job.op = "issue_created" THEN 1 ELSE e.count + 1,
                            lifecycle, job.op = "publication_removed", meta)
          IN  [ count |-> IF job.op = "issue_created" THEN 1 ELSE e.count + 1,
                timeline |-> IF h THEN e.timeline ELSE newHead,
                handoff |-> IF h THEN newHead ELSE e.handoff,
                lifecycle |-> lifecycle, removed |-> job.op = "publication_removed",
                meta |-> meta ]
    BY Zenon DEF Execute
  <2>2. head = StreamHead(IF h THEN e.handoff ELSE e.timeline, i, job.op, i,
                          n.lifecycle, n.removed, n.meta)
    BY <1>2
  <2> HIDE DEF lifecycle, meta, head
  <2> QED
    BY <1>2, <1>4, <1>5, <1>6, <2>1, <2>2, Zenon
<1>8. Execute(e, i, job) = n
  <2> HIDE DEF head
  <2> QED BY <1>1, <1>2, <1>3, <1>7 DEF Snapshots
<1>9. ObservationMatches(job, CommitmentEvent(e, i, job, sig))
  <2> HIDE DEF head
  <2> QED BY <1>2, <1>5, <1>8 DEF CommitmentEvent, ObservationMatches
<1> QED
  BY <1>8, <1>9

-----------------------------------------------------------------------------
(* The chain.                                                              *)

\* A transaction the program accepts is the next job of the fork, and finds
\* the account its envelope expects.
LEMMA AcceptedIsNext ==
    ASSUME PrefixInv, NEW i \in 1 .. Len(payload), Accepts(tip.acc, payload[i])
    PROVE  /\ tip.acc.count = i - 1 /\ tip.acc = payload[i].expected
           /\ NoRemovalBefore(i)
<1>1. /\ payload \in Seq(Envelopes) /\ Len(payload) \in Nat
      /\ \A k \in 1 .. Len(payload) : payload[k] \in Envelopes /\ Prepares(k, payload[k])
  BY DEF PrefixInv, TypeInv, TypeOK, QueueInv, QueueIsWellFormed
<1>2. /\ payload[i].op = "issue_created" <=> i = 1
      /\ i = 1 => payload[i].expected = NoAccount
  BY DEF PrefixInv, QueueInv, CreatedFirst
<1>3. CASE i = 1
  <2>1. tip.acc = NoAccount
    BY <1>2, <1>3 DEF Accepts
  <2> QED
    BY <1>2, <1>3, <2>1 DEF NoAccount, NoRemovalBefore
<1>4. CASE i # 1
  <2>1. /\ tip.acc.count = payload[i].expected.count /\ ~tip.acc.removed
    BY <1>2, <1>4 DEF Accepts, ValidateAppend
  <2>2. tip.acc.count = i - 1
    BY <1>1, <2>1, PreparesFacts
  <2> DEFINE k == i - 1
  <2>3. k \in 1 .. Len(payload) /\ k # 0
    BY <1>1, <1>4
  <2>4. tip.acc = payload[k].next
    BY <2>2, <2>3 DEF PrefixInv, ForkInv, ChainHoldsQueuePrefix, HoldsPrefix
  <2>5. payload[k].op # "publication_removed"
    BY <1>1, <2>1, <2>3, <2>4, PreparesFacts
  <2>6. \A j \in 1 .. (k - 1) : payload[j].op # "publication_removed"
    BY <2>2 DEF PrefixInv, ForkInv, NoRemovalBefore
  <2>7. \A j \in 1 .. k : payload[j].op # "publication_removed"
    BY <2>3, <2>5, <2>6
  <2>8. payload[i].expected = payload[k].next
    BY <1>1, <1>4, <2>7 DEF PrefixInv, QueueInv, QueueIsWellFormed, RemovedBy
  <2> QED
    BY <2>2, <2>4, <2>7, <2>8 DEF NoRemovalBefore
<1> QED
  BY <1>3, <1>4

\* A transaction that lands extends the chain by the next job of the queue,
\* whichever worker sent it and however late.
LEMMA LandPrefix ==
    ASSUME PrefixInv, TypeInv', NEW t \in txs, Land(t)
    PROVE  PrefixInv'
<1> DEFINE i == t.job
<1>1. /\ i \in 1 .. Len(payload) /\ i \in JobIds /\ i \in Nat /\ t.sig \in Sigs
      /\ t.sig \in AnySig /\ payload[i] \in Envelopes /\ Len(payload) \in Nat
      /\ tip.events \in [JobIds -> Events]
  <2>1. /\ txs \subseteq [job : JobIds, sig : Sigs] /\ payload \in Seq(Envelopes)
        /\ tip \in Chains /\ InFlightOfQueue
    BY DEF PrefixInv, TypeInv, TypeOK
  <2>2. t \in [job : JobIds, sig : Sigs]
    BY <2>1
  <2>3. i \in 1 .. Len(payload)
    BY <2>1 DEF InFlightOfQueue
  <2>4. tip.events \in [JobIds -> Events]
    BY <2>1 DEF Chains
  <2>5. payload[i] \in Envelopes /\ Len(payload) \in Nat
    BY <2>1, <2>3
  <2>6. i \in JobIds /\ t.sig \in Sigs
    BY <2>2
  <2> QED
    BY <2>3, <2>4, <2>5, <2>6, ConstantTypes
<1>2. Accepts(tip.acc, payload[i]) /\ payload' = payload /\ final' = final /\ issue' = issue
  BY DEF Land, dbVars
<1>3. /\ tip.acc.count = i - 1 /\ tip.acc = payload[i].expected /\ NoRemovalBefore(i)
  BY <1>1, <1>2, AcceptedIsNext
<1>4. Prepares(i, payload[i]) /\ (payload[i].op = "issue_created" => payload[i].expected = NoAccount)
  BY <1>1 DEF PrefixInv, QueueInv, QueueIsWellFormed, CreatedFirst
<1> DEFINE event == CommitmentEvent(tip.acc, i, payload[i], t.sig)
<1>5. /\ Execute(tip.acc, i, payload[i]) = payload[i].next
      /\ ObservationMatches(payload[i], event)
  BY <1>1, <1>3, <1>4, ExecuteIsNext
<1>6. event.sig = t.sig
  BY DEF CommitmentEvent
<1>7. tip' = [acc |-> payload[i].next, events |-> [tip.events EXCEPT ![i] = event]]
  BY <1>5 DEF Land
<1> HIDE DEF event
<1>8. payload[i].next.count = i
  BY <1>1, <1>4, PreparesFacts
<1>9. HoldsPrefix(tip, i - 1) /\ HoldsPrefix(final, final.acc.count) /\ final.acc.count <= i - 1
      /\ NoRemovalBefore(final.acc.count)
  BY <1>3 DEF PrefixInv, ForkInv, ChainHoldsQueuePrefix
<1>10. HoldsPrefix(tip, i)'
  <2>1. i \in 0 .. Len(payload') /\ i # 0 /\ tip'.acc = payload'[i].next
    BY <1>1, <1>2, <1>7
  <2>2. ASSUME NEW k \in JobIds
        PROVE  IF k \in 1 .. i
               THEN /\ tip'.events[k].sig \in Sigs
                    /\ ObservationMatches(payload'[k], tip'.events[k])
               ELSE tip'.events[k] = NoEvent
    <3>1. CASE k = i
      <4>1. tip'.events[k] = event
        BY <1>1, <1>7, <3>1
      <4> QED
        BY <1>1, <1>2, <1>5, <1>6, <3>1, <4>1
    <3>2. CASE k # i
      <4>1. tip'.events[k] = tip.events[k]
        BY <1>1, <1>7, <3>2
      <4>2. k \in Nat /\ (k \in 1 .. i <=> k \in 1 .. (i - 1))
        BY <1>1, <3>2, ConstantTypes
      <4> QED
        BY <1>2, <1>9, <4>1, <4>2 DEF HoldsPrefix
    <3> QED
      BY <3>1, <3>2
  <2> QED
    BY <2>1, <2>2 DEF HoldsPrefix
<1>11. tip'.acc.count = i
  BY <1>7, <1>8
<1>12. HoldsPrefix(final, final.acc.count)'
  BY <1>2, <1>9 DEF HoldsPrefix
<1>13. ForkInv'
  <2>1. NoRemovalBefore(i)' /\ NoRemovalBefore(final.acc.count)'
    BY <1>2, <1>3, <1>9 DEF NoRemovalBefore
  <2>2. final.acc.count \in Nat /\ final'.acc.count <= tip'.acc.count
    BY <1>1, <1>2, <1>9, <1>11 DEF HoldsPrefix
  <2> QED
    BY <1>10, <1>11, <1>12, <2>1, <2>2 DEF ForkInv, ChainHoldsQueuePrefix
<1>14. QueueInv'
  BY <1>2 DEF PrefixInv, QueueInv, QueueIsWellFormed, CreatedFirst, TailInIssue, RemovedBy
<1> QED
  BY <1>13, <1>14 DEF PrefixInv

\* Expiry, finality and rollback.
LEMMA ClusterPrefix ==
    ASSUME PrefixInv, TypeInv', Cluster
    PROVE  PrefixInv'
<1>1. CASE \E t \in txs : Land(t)
  BY <1>1, LandPrefix
<1>2. CASE (\E t \in txs : Expire(t)) \/ FinalizeBlock \/ Rollback
  <2>1. /\ payload' = payload /\ issue' = issue
        /\ \/ tip' = tip /\ final' = final
           \/ tip' = tip /\ final' = tip
           \/ tip' = final /\ final' = final
    BY <1>2 DEF Expire, FinalizeBlock, Rollback, dbVars
  <2>2. QueueInv'
    BY <2>1 DEF PrefixInv, QueueInv, QueueIsWellFormed, CreatedFirst, TailInIssue, RemovedBy
  <2>3. /\ HoldsPrefix(tip, tip.acc.count) /\ HoldsPrefix(final, final.acc.count)
        /\ final.acc.count <= tip.acc.count
        /\ NoRemovalBefore(tip.acc.count) /\ NoRemovalBefore(final.acc.count)
    BY DEF PrefixInv, ForkInv, ChainHoldsQueuePrefix
  <2>4. HoldsPrefix(tip, tip.acc.count)' /\ HoldsPrefix(final, final.acc.count)'
    BY <2>1, <2>3 DEF HoldsPrefix
  <2>5. NoRemovalBefore(tip.acc.count)' /\ NoRemovalBefore(final.acc.count)'
    BY <2>1, <2>3 DEF NoRemovalBefore
  <2>6. tip.acc.count \in Nat /\ final.acc.count \in Nat
    BY DEF PrefixInv, TypeInv, TypeOK, Chains, Snapshots
  <2>7. final'.acc.count <= tip'.acc.count
    BY <2>1, <2>3, <2>6
  <2> QED
    BY <2>2, <2>4, <2>5, <2>7 DEF PrefixInv, ForkInv, ChainHoldsQueuePrefix
<1> QED
  BY <1>1, <1>2 DEF Cluster

-----------------------------------------------------------------------------
(* The queue.                                                              *)

\* Appending to the queue leaves what the chain holds alone.
LEMMA EnqueueFork ==
    ASSUME PrefixInv, NEW job, payload' = Append(payload, job), UNCHANGED chainVars
    PROVE  ForkInv'
<1>1. payload \in Seq(Envelopes) /\ Len(payload) \in Nat
  BY DEF PrefixInv, TypeInv, TypeOK
<1>2. /\ Len(payload') = Len(payload) + 1
      /\ \A k \in 1 .. Len(payload) : payload'[k] = payload[k]
  BY <1>1
<1>3. tip' = tip /\ final' = final
  BY DEF chainVars
<1>4. ASSUME NEW chain, HoldsPrefix(chain, chain.acc.count)
      PROVE  /\ chain.acc.count \in 0 .. Len(payload')
             /\ chain.acc = IF chain.acc.count = 0 THEN NoAccount
                            ELSE payload'[chain.acc.count].next
             /\ \A k \in JobIds :
                   IF k \in 1 .. chain.acc.count
                   THEN /\ chain.events[k].sig \in Sigs
                        /\ ObservationMatches(payload'[k], chain.events[k])
                   ELSE chain.events[k] = NoEvent
  <2>1. chain.acc.count \in 0 .. Len(payload)
    BY <1>4 DEF HoldsPrefix
  <2>2. \A k \in 1 .. chain.acc.count : payload'[k] = payload[k]
    BY <1>1, <1>2, <2>1
  <2> QED
    BY <1>1, <1>2, <1>4, <2>1, <2>2 DEF HoldsPrefix
<1>5. /\ HoldsPrefix(tip, tip.acc.count) /\ HoldsPrefix(final, final.acc.count)
      /\ final.acc.count <= tip.acc.count
      /\ NoRemovalBefore(tip.acc.count) /\ NoRemovalBefore(final.acc.count)
  BY DEF PrefixInv, ForkInv, ChainHoldsQueuePrefix
<1>6. HoldsPrefix(tip, tip.acc.count)' /\ HoldsPrefix(final, final.acc.count)'
  BY <1>3, <1>4, <1>5 DEF HoldsPrefix
<1>7. tip.acc.count \in 0 .. Len(payload) /\ final.acc.count \in 0 .. Len(payload)
  BY <1>5 DEF HoldsPrefix
<1>8. NoRemovalBefore(tip.acc.count)' /\ NoRemovalBefore(final.acc.count)'
  BY <1>1, <1>2, <1>3, <1>5, <1>7 DEF NoRemovalBefore
<1> QED
  BY <1>3, <1>5, <1>6, <1>8 DEF ForkInv, ChainHoldsQueuePrefix

\* A service that queues a prepared job which expects the projected snapshot,
\* and keeps lifecycle and version of the issue row in step with it.
LEMMA EnqueueQueue ==
    ASSUME PrefixInv, NEW job \in Envelopes, NEW changed \in Issues,
           Len(payload) > 0, Enqueue(job, changed),
           Prepares(NextId, job), job.op # "issue_created",
           job.expected = ProjectedSnapshot,
           changed.publication # "none",
           job.op # "publication_removed" =>
               changed.lifecycle = job.next.lifecycle /\ changed.version = job.next.meta
    PROVE  QueueInv'
<1>0. PICK n \in Nat : n = Len(payload)
  BY DEF PrefixInv, TypeInv, TypeOK
<1>1. payload \in Seq(Envelopes) /\ n = Len(payload) /\ n \in 1 .. n
  BY <1>0 DEF PrefixInv, TypeInv, TypeOK
<1>2. /\ Len(payload') = n + 1 /\ payload'[n + 1] = job
      /\ \A k \in 1 .. n : payload'[k] = payload[k]
  BY <1>1 DEF Enqueue
<1>3. /\ issue'.publication = changed.publication
      /\ issue'.lifecycle = changed.lifecycle /\ issue'.version = changed.version
      /\ issue'.count = job.next.count /\ issue'.timeline = job.next.timeline
      /\ issue'.handoff = job.next.handoff
  BY DEF Enqueue, Issues
<1>4. QueueIsWellFormed /\ CreatedFirst /\ TailInIssue
  BY DEF PrefixInv, QueueInv
<1>5. \A k \in 1 .. n : RemovedBy(k)' <=> RemovedBy(k)
  BY <1>1, <1>2 DEF RemovedBy
<1>6. ~RemovedBy(n + 1)' => ~RemovedBy(n) /\ job.op # "publication_removed"
  BY <1>1, <1>2 DEF RemovedBy
<1>7. QueueIsWellFormed'
  <2> DEFINE before == payload'[n].next
  <2>1. before = payload[n].next
    BY <1>1, <1>2
  <2>2. /\ job.expected.timeline = before.timeline /\ job.expected.handoff = before.handoff
    BY <1>1, <1>4, <2>1 DEF TailInIssue, ProjectedSnapshot
  <2>3. ~RemovedBy(n) => job.expected = before
    <3> SUFFICES ASSUME ~RemovedBy(n) PROVE job.expected = before
      OBVIOUS
    <3>1. payload[n] \in Envelopes /\ before \in Snapshots
      <4>1. payload[n] \in Envelopes
        BY <1>1
      <4>2. payload[n].next \in Snapshots
        BY <4>1 DEF Envelopes
      <4> QED
        BY <2>1, <4>1, <4>2
    <3>2. before.count = n /\ (before.removed <=> payload[n].op = "publication_removed")
      BY <1>1, <1>4, <2>1, <3>1, PreparesFacts DEF QueueIsWellFormed
    <3>3. before.removed = FALSE
      BY <1>1, <3>1, <3>2 DEF RemovedBy, Snapshots
    <3>4. before.lifecycle = issue.lifecycle /\ before.meta = issue.version
          /\ before.timeline = issue.timeline /\ before.handoff = issue.handoff
          /\ issue.count = n
      BY <1>1, <1>4, <2>1 DEF TailInIssue
    <3> QED
      BY <3>1, <3>2, <3>3, <3>4 DEF ProjectedSnapshot, Snapshots
  <2>4. ASSUME NEW k \in 1 .. (n + 1)
        PROVE  /\ Prepares(k, payload'[k])
               /\ k > 1 =>
                    /\ payload'[k].expected.timeline = payload'[k - 1].next.timeline
                    /\ payload'[k].expected.handoff = payload'[k - 1].next.handoff
                    /\ ~RemovedBy(k - 1)' => payload'[k].expected = payload'[k - 1].next
    <3>1. CASE k = n + 1
      <4>1. k - 1 = n /\ payload'[k] = job /\ NextId = k
        BY <1>1, <1>2, <3>1 DEF NextId
      <4> QED
        BY <1>1, <1>5, <2>2, <2>3, <4>1
    <3>2. CASE k # n + 1
      <4>1. k \in 1 .. n /\ payload'[k] = payload[k]
        BY <1>1, <1>2, <3>2
      <4>2. k > 1 => k - 1 \in 1 .. n /\ payload'[k - 1] = payload[k - 1]
        BY <1>1, <1>2, <4>1
      <4> QED
        BY <1>1, <1>4, <1>5, <4>1, <4>2 DEF QueueIsWellFormed
    <3> QED
      BY <3>1, <3>2
  <2> QED
    BY <1>2, <2>4 DEF QueueIsWellFormed
<1>8. CreatedFirst'
  <2>1. ASSUME NEW k \in 1 .. (n + 1)
        PROVE  /\ payload'[k].op = "issue_created" <=> k = 1
               /\ k = 1 => payload'[k].expected = NoAccount
    <3>1. CASE k = n + 1
      BY <1>1, <1>2, <3>1
    <3>2. CASE k # n + 1
      <4>1. k \in 1 .. n /\ payload'[k] = payload[k]
        BY <1>1, <1>2, <3>2
      <4> QED
        BY <1>1, <1>4, <4>1 DEF CreatedFirst
    <3> QED
      BY <3>1, <3>2
  <2> QED
    BY <1>2, <2>1 DEF CreatedFirst
<1>9. TailInIssue'
  <2>1. job.next.count = n + 1
    BY <1>1, PreparesFacts DEF NextId
  <2>2. /\ issue'.publication # "none" /\ n + 1 # 0 /\ issue'.count = n + 1
        /\ issue'.timeline = payload'[n + 1].next.timeline
        /\ issue'.handoff = payload'[n + 1].next.handoff
    BY <1>1, <1>2, <1>3, <2>1
  <2>3. ~RemovedBy(n + 1)' => /\ issue'.lifecycle = payload'[n + 1].next.lifecycle
                              /\ issue'.version = payload'[n + 1].next.meta
    BY <1>2, <1>3, <1>6
  <2> QED
    BY <1>2, <2>2, <2>3 DEF TailInIssue
<1> QED
  BY <1>7, <1>8, <1>9 DEF QueueInv

\* What a service builds on the snapshot it expects passes prepareChainJob,
\* if its operation's own rules hold.
LEMMA BuiltJobPrepares ==
    ASSUME NEW op, NEW id \in Nat, NEW expected, NEW lifecycle, NEW removed,
           NEW meta, NEW version, NEW detail,
           expected.count + 1 = id, id <= MaxSequence,
           OperationSemantics(BuildChainJob(op, id, expected, lifecycle, removed, meta,
                                            version, detail))
    PROVE  Prepares(id, BuildChainJob(op, id, expected, lifecycle, removed, meta,
                                      version, detail))
<1> DEFINE job == BuildChainJob(op, id, expected, lifecycle, removed, meta, version, detail)
<1>1. /\ job.op = op /\ job.expected = expected /\ job.version = version
      /\ job.detail = detail /\ job.next.count = expected.count + 1
      /\ job.next.lifecycle = lifecycle /\ job.next.removed = removed
      /\ job.next.meta = meta
  BY DEF BuildChainJob
<1>2. job.next = BuildChainJob(job.op, id, job.expected, job.next.lifecycle,
                               job.next.removed, job.next.meta, job.version, job.detail).next
  <2> HIDE DEF job
  <2> QED BY <1>1 DEF job
<1> HIDE DEF job
<1>3. Prepares(id, job)
  BY <1>1, <1>2 DEF job, Prepares
<1> QED
  BY <1>3 DEF job

\* approve queues the first job.
LEMMA ApprovePrefix ==
    ASSUME PrefixInv, TypeInv', Approve
    PROVE  PrefixInv'
<1> DEFINE job == BuildChainJob("issue_created", NextId, NoAccount, "open", FALSE, 1, 1,
                                "approved")
<1>1. payload = << >> /\ NextId = 1 /\ NextId <= MaxJobs
  BY DEF Approve, PrefixInv, TypeInv, TypeOK, QueueInv, TailInIssue, NextId
<1>2. payload' = Append(payload, job) /\ UNCHANGED chainVars
  BY DEF Approve, Enqueue
<1>3. ForkInv'
  BY <1>2, EnqueueFork
<1>4. /\ job.op = "issue_created" /\ job.expected = NoAccount
      /\ job.next.count = 1 /\ job.next.lifecycle = "open" /\ job.next.removed = FALSE
      /\ job.next.meta = 1
  BY DEF BuildChainJob, NoAccount
<1>5. Prepares(1, job)
  <2>1. OperationSemantics(job)
    <3> HIDE DEF job
    <3> QED BY <1>4 DEF OperationSemantics, NoAccount, ZeroHead, ZeroHash
  <2>2. NoAccount.count + 1 = 1 /\ 1 <= MaxSequence /\ 1 \in Nat
    BY <1>1, ConstantTypes DEF NoAccount
  <2> QED
    BY <1>1, <2>1, <2>2, BuiltJobPrepares
<1>6. Len(payload') = 1 /\ payload'[1] = job
  BY <1>1, <1>2
<1>7. /\ issue'.publication = "commit_pending" /\ issue'.version = 1
      /\ issue'.lifecycle = "open"
      /\ issue'.count = job.next.count /\ issue'.timeline = job.next.timeline
      /\ issue'.handoff = job.next.handoff
  <2>1. issue \in Issues
    BY DEF PrefixInv, TypeInv, TypeOK
  <2> HIDE DEF job
  <2> QED BY <2>1 DEF job, Approve, Enqueue, Issues
<1> HIDE DEF job
<1>8. QueueIsWellFormed' /\ CreatedFirst'
  BY <1>4, <1>5, <1>6 DEF QueueIsWellFormed, CreatedFirst
<1>9. TailInIssue'
  BY <1>4, <1>6, <1>7 DEF TailInIssue
<1> QED
  BY <1>3, <1>8, <1>9 DEF PrefixInv, QueueInv

\* The services that change a published issue.
LEMMA OperatorsPrefix ==
    ASSUME PrefixInv, TypeInv', Operators
    PROVE  PrefixInv'
<1> USE ConstantTypes
<1>1. /\ issue \in Issues /\ NextId \in Nat /\ Len(payload) \in Nat
      /\ NextId = Len(payload) + 1 /\ TypeInv
  BY DEF PrefixInv, TypeInv, TypeOK, NextId
<1>2. /\ ProjectedSnapshot.count + 1 = NextId /\ ~ProjectedSnapshot.removed
      /\ ProjectedSnapshot.lifecycle = issue.lifecycle
      /\ ProjectedSnapshot.meta = issue.version
  BY <1>1 DEF ProjectedSnapshot, PrefixInv, QueueInv, TailInIssue
<1>3. Accepting => Len(payload) > 0
  BY <1>1 DEF Accepting, PrefixInv, QueueInv, TailInIssue
<1>4. issue.version \in Nat
  BY <1>1 DEF Issues
<1>5. ASSUME NEW op, NEW lifecycle, NEW removed, NEW meta, NEW version, NEW detail,
             NEW changed \in Issues, op # "issue_created", Accepting, NextId <= MaxJobs,
             Enqueue(BuildChainJob(op, NextId, ProjectedSnapshot, lifecycle, removed,
                                   meta, version, detail), changed),
             OperationSemantics(BuildChainJob(op, NextId, ProjectedSnapshot, lifecycle,
                                              removed, meta, version, detail)),
             changed.publication # "none",
             op # "publication_removed" =>
                 changed.lifecycle = lifecycle /\ changed.version = meta
      PROVE  PrefixInv'
  <2> DEFINE job == BuildChainJob(op, NextId, ProjectedSnapshot, lifecycle, removed,
                                  meta, version, detail)
  <2>1. Prepares(NextId, job)
    BY <1>1, <1>2, <1>5, BuiltJobPrepares
  <2>2. /\ job.op = op /\ job.expected = ProjectedSnapshot
        /\ job.next.lifecycle = lifecycle /\ job.next.meta = meta
    BY DEF BuildChainJob
  <2> HIDE DEF job
  <2>3. Enqueue(job, changed)
    BY <1>5 DEF job
  <2>4. payload' = Append(payload, job) /\ UNCHANGED chainVars
    BY <2>3 DEF Enqueue
  <2>5. job \in Envelopes
    <3>1. /\ payload \in Seq(Envelopes) /\ payload' \in Seq(Envelopes)
      BY <1>1 DEF TypeInv, TypeOK
    <3>2. Len(payload') = Len(payload) + 1 /\ payload'[Len(payload) + 1] = job
      BY <2>4, <3>1
    <3> QED
      BY <1>1, <3>1, <3>2
  <2>6. ForkInv'
    BY <2>4, EnqueueFork
  <2>7. QueueInv'
    BY <1>3, <1>5, <2>1, <2>2, <2>3, <2>5, EnqueueQueue
  <2> QED
    BY <2>6, <2>7 DEF PrefixInv
<1>6. CASE Approve
  BY <1>6, ApprovePrefix
<1>7. CASE CorrectPublishedIssue
  <2> DEFINE v       == issue.version + 1
             changed == [issue EXCEPT !.publication = "commit_pending", !.version = v]
             job     == BuildChainJob("metadata_version_committed", NextId,
                            ProjectedSnapshot, issue.lifecycle, FALSE, v, v, "corrected")
  <2>1. v \in Nat /\ v # 0
    BY <1>4
  <2>2. /\ changed \in Issues /\ changed.publication # "none"
        /\ changed.lifecycle = issue.lifecycle /\ changed.version = v
    BY <1>1, <2>1 DEF Issues
  <2>3. /\ job.op = "metadata_version_committed" /\ job.expected = ProjectedSnapshot
        /\ job.next.lifecycle = issue.lifecycle /\ job.next.removed = FALSE
        /\ job.next.meta = v
    BY DEF BuildChainJob
  <2>4. OperationSemantics(job)
    <3> HIDE DEF job, v
    <3> QED BY <1>2, <2>1, <2>3 DEF OperationSemantics, ZeroHash
  <2>5. Accepting /\ NextId <= MaxJobs /\ Enqueue(job, changed)
    BY <1>7 DEF CorrectPublishedIssue, MayCorrect, CorrectionJob
  <2> HIDE DEF changed
  <2> QED
    BY <1>5, <2>2, <2>4, <2>5
<1>8. CASE \E to \in Lifecycles : ChangeIssueLifecycle(to)
  <2>1. PICK to \in Lifecycles : ChangeIssueLifecycle(to)
    BY <1>8
  <2> DEFINE changed == [issue EXCEPT !.lifecycle = to]
             job     == BuildChainJob("lifecycle_changed", NextId, ProjectedSnapshot,
                                      to, FALSE, issue.version, issue.version, to)
  <2>2. to \in LifecycleStates
    BY ConstantsAssumption
  <2>3. Accepting /\ NextId <= MaxJobs /\ Enqueue(job, changed)
    BY <2>1 DEF ChangeIssueLifecycle
  <2>4. /\ changed \in Issues /\ changed.publication # "none"
        /\ changed.lifecycle = to /\ changed.version = issue.version
    BY <1>1, <2>2, <2>3 DEF Issues, Accepting
  <2>5. AllowedLifecycleTransition(issue.lifecycle, to)
    <3>1. issue.lifecycle \in LifecycleStates /\ to \in LifecycleTransitions[issue.lifecycle]
      BY <1>1, <2>1 DEF ChangeIssueLifecycle, Issues
    <3> QED
      BY <3>1 DEF LifecycleTransitions, LifecycleStates, AllowedLifecycleTransition
  <2>6. /\ job.op = "lifecycle_changed" /\ job.expected = ProjectedSnapshot
        /\ job.next.lifecycle = to /\ job.next.removed = FALSE
        /\ job.next.meta = issue.version
    BY DEF BuildChainJob
  <2>7. OperationSemantics(job)
    <3> HIDE DEF job
    <3> QED BY <1>2, <2>5, <2>6 DEF OperationSemantics
  <2> HIDE DEF changed
  <2> QED
    BY <1>5, <2>3, <2>4, <2>7
<1>9. CASE \E type \in HandoffStates \cup {"action_recorded"} : RecordIssueHandoff(type)
  <2>1. PICK type \in HandoffStates \cup {"action_recorded"} : RecordIssueHandoff(type)
    BY <1>9
  <2> DEFINE changed == [issue EXCEPT !.handoffState =
                                         IF type = "action_recorded" THEN @ ELSE type]
             job     == BuildChainJob("handoff_checkpointed", NextId, ProjectedSnapshot,
                            issue.lifecycle, FALSE, issue.version, issue.version, type)
  <2>2. Accepting /\ NextId <= MaxJobs /\ Enqueue(job, changed)
    BY <2>1 DEF RecordIssueHandoff, MayRecordHandoff
  <2>3. /\ changed \in Issues /\ changed.publication # "none"
        /\ changed.lifecycle = issue.lifecycle /\ changed.version = issue.version
    BY <1>1, <2>2 DEF Issues, Accepting
  <2>4. /\ job.op = "handoff_checkpointed" /\ job.expected = ProjectedSnapshot
        /\ job.next.lifecycle = issue.lifecycle /\ job.next.removed = FALSE
        /\ job.next.meta = issue.version
    BY DEF BuildChainJob
  <2>5. OperationSemantics(job)
    <3> HIDE DEF job
    <3> QED BY <1>2, <2>4 DEF OperationSemantics
  <2> HIDE DEF changed
  <2> QED
    BY <1>5, <2>2, <2>3, <2>5
<1>10. CASE RemovePublishedIssue
  <2> DEFINE job == BuildChainJob("publication_removed", NextId, ProjectedSnapshot,
                        issue.lifecycle, TRUE, Tombstone, issue.version, "removed")
  <2>1. Accepting /\ NextId <= MaxJobs /\ Enqueue(job, issue)
    BY <1>10 DEF RemovePublishedIssue
  <2>2. /\ job.op = "publication_removed" /\ job.expected = ProjectedSnapshot
        /\ job.next.lifecycle = issue.lifecycle /\ job.next.removed = TRUE
        /\ job.next.meta = Tombstone
    BY DEF BuildChainJob
  <2>3. OperationSemantics(job)
    <3> HIDE DEF job
    <3> QED BY <1>2, <2>2 DEF OperationSemantics, ZeroHash, Tombstone
  <2>4. issue.publication # "none"
    BY <2>1 DEF Accepting
  <2> QED
    BY <1>1, <1>5, <2>1, <2>3, <2>4
<1>11. CASE SetPublicationEnabled
  BY <1>11 DEF SetPublicationEnabled, PrefixInv, QueueInv, ForkInv, QueueIsWellFormed,
               CreatedFirst, TailInIssue, RemovedBy, ChainHoldsQueuePrefix, HoldsPrefix,
               NoRemovalBefore, dbVars, chainVars
<1> QED
  BY <1>6, <1>7, <1>8, <1>9, <1>10, <1>11 DEF Operators

-----------------------------------------------------------------------------
(* Workers and reconcilers never touch the queue, the projected columns or *)
(* the chain.                                                              *)

\* Workers and reconcilers write neither the queue nor the chain: they only
\* put transactions of queued jobs in flight.
LEMMA ProcessPrefix ==
    ASSUME PrefixInv, TypeInv',
           \/ \E w \in Workers, i \in JobIds : Claim(w, i)
           \/ \E i \in JobIds : LeaseExpires(i)
           \/ \E p \in Processes : Step(p) \/ Crash(p)
           \/ \E r \in Reconcilers : Reconcile(r)
    PROVE  PrefixInv'
<1>1. issue \in Issues
  BY DEF PrefixInv, TypeInv, TypeOK
<1>2. payload' = payload /\ tip' = tip /\ final' = final
  <2>1. ASSUME NEW p \in Processes, Step(p)
        PROVE  payload' = payload /\ tip' = tip /\ final' = final
    BY <2>1 DEF Step, Inspect, InspectFails, Submit, SubmitFails, SubmitAnswerLost,
       SubmitRejected, MarkSubmitted, MarkSubmittedFails, Confirm, ConfirmFails,
       FinalizeConfirmed, FinalizeDeferred, FinalizeThrows, RecordFailure,
       RecordSubmittedUnknown, RecordPostSubmitConflict, RecordProjectionDeferred,
       StateLost, dbVars, chainVars
  <2> QED
    BY <2>1 DEF Claim, LeaseExpires, Crash, Reconcile, ReconcileRead, ReconcileObserve,
       ReconcileReport, ReconcileLease, ReconcileBusy, dbVars, chainVars
<1>3. \/ issue' = issue
      \/ \E p \in Processes : /\ proc[p].pc # "idle"
                              /\ issue' \in {Blocked(proc[p].job), IssueAfter(proc[p].job)}
  <2>1. ASSUME NEW p \in Processes, Step(p)
        PROVE  \/ issue' = issue
               \/ /\ proc[p].pc # "idle"
                  /\ issue' \in {Blocked(proc[p].job), IssueAfter(proc[p].job)}
    BY <2>1 DEF Step, Inspect, InspectFails, Submit, SubmitFails, SubmitAnswerLost,
       SubmitRejected, MarkSubmitted, MarkSubmittedFails, Confirm, ConfirmFails,
       FinalizeConfirmed, FinalizeDeferred, FinalizeThrows, RecordFailure,
       RecordSubmittedUnknown, RecordPostSubmitConflict, RecordProjectionDeferred,
       StateLost, dbVars
  <2> QED
    BY <2>1 DEF Claim, LeaseExpires, Crash, Reconcile, ReconcileRead, ReconcileObserve,
       ReconcileReport, ReconcileLease, ReconcileBusy, dbVars
<1>4. /\ issue'.count = issue.count /\ issue'.timeline = issue.timeline
      /\ issue'.handoff = issue.handoff /\ issue'.lifecycle = issue.lifecycle
      /\ issue'.version = issue.version
      /\ issue'.publication = "none" <=> issue.publication = "none"
  <2>1. ASSUME NEW p \in Processes, proc[p].pc # "idle",
               issue' \in {Blocked(proc[p].job), IssueAfter(proc[p].job)}
        PROVE  /\ issue'.count = issue.count /\ issue'.timeline = issue.timeline
               /\ issue'.handoff = issue.handoff /\ issue'.lifecycle = issue.lifecycle
               /\ issue'.version = issue.version
               /\ issue'.publication = "none" <=> issue.publication = "none"
    <3>1. issue.publication # "none"
      <4>1. proc[p].job \in 1 .. Len(payload) /\ Len(payload) \in Nat
        BY <2>1, BusyJob DEF PrefixInv, TypeInv, TypeOK
      <4> QED
        BY <4>1 DEF PrefixInv, QueueInv, TailInIssue
    <3> QED
      BY <1>1, <2>1, <3>1 DEF Blocked, IssueAfter, Issues
  <2> QED
    BY <1>3, <2>1
<1>5. QueueInv'
  BY <1>2, <1>4 DEF PrefixInv, QueueInv, QueueIsWellFormed, CreatedFirst, TailInIssue, RemovedBy
<1>6. ForkInv'
  BY <1>2 DEF PrefixInv, ForkInv, ChainHoldsQueuePrefix, HoldsPrefix, NoRemovalBefore
<1> QED
  BY <1>5, <1>6 DEF PrefixInv

\* The empty queue and the empty chain satisfy it.
LEMMA InitPrefix == Init => PrefixInv
<1> SUFFICES ASSUME Init PROVE PrefixInv
  OBVIOUS
<1>1. TypeInv
  BY InitType
<1>2. payload = << >> /\ Len(payload) = 0 /\ tip = NoChain /\ final = NoChain
  BY DEF Init
<1>3. QueueInv
  BY <1>2 DEF Init, QueueInv, QueueIsWellFormed, CreatedFirst, TailInIssue
<1>4. NoChain.acc = NoAccount /\ NoChain.acc.count = 0
      /\ \A i \in JobIds : NoChain.events[i] = NoEvent
  BY DEF NoChain, NoAccount
<1>5. HoldsPrefix(NoChain, 0)
  BY <1>2, <1>4 DEF HoldsPrefix
<1>6. ForkInv
  BY <1>2, <1>4, <1>5 DEF ForkInv, ChainHoldsQueuePrefix, NoRemovalBefore
<1> QED
  BY <1>1, <1>3, <1>6 DEF PrefixInv

\* Every step keeps the invariant.
LEMMA PrefixStep == PrefixInv /\ [Next]_vars => PrefixInv'
<1> SUFFICES ASSUME PrefixInv, [Next]_vars PROVE PrefixInv'
  OBVIOUS
<1>1. TypeInv'
  BY TypeStep DEF PrefixInv
<1>2. CASE Operators
  BY <1>1, <1>2, OperatorsPrefix
<1>3. CASE \/ \E w \in Workers, i \in JobIds : Claim(w, i)
           \/ \E i \in JobIds : LeaseExpires(i)
           \/ \E p \in Processes : Step(p) \/ Crash(p)
           \/ \E r \in Reconcilers : Reconcile(r)
  BY <1>1, <1>3, ProcessPrefix
<1>4. CASE Cluster
  BY <1>1, <1>4, ClusterPrefix
<1>5. CASE UNCHANGED vars
  BY <1>1, <1>5 DEF vars, dbVars, chainVars, PrefixInv, QueueInv, ForkInv,
     QueueIsWellFormed, CreatedFirst, TailInIssue, RemovedBy, ChainHoldsQueuePrefix,
     HoldsPrefix, NoRemovalBefore
<1> QED
  BY <1>2, <1>3, <1>4, <1>5 DEF Next

\* The inductive invariant holds in every reachable state.
LEMMA PrefixInvariance == Spec => []PrefixInv
<1> QED
  BY InitPrefix, PrefixStep, PTL DEF Spec

\* Every envelope the services queue is accepted by prepareChainJob and starts
\* where its predecessor ends, however many changes are pending and whatever
\* happens to earlier ones.
THEOREM QueueWellFormed == Spec => []QueueIsWellFormed
<1>1. PrefixInv => QueueIsWellFormed
  BY DEF PrefixInv, QueueInv
<1> QED
  BY <1>1, PrefixInvariance, PTL

\* Every fork of the chain holds exactly a prefix of the queue, with the
\* accounts and events the envelopes predict: no commitment is skipped,
\* repeated or applied to a state the operator did not see, for any number
\* of workers, reconcilers, retries, resubmissions and rollbacks.
THEOREM ChainFollowsQueue == Spec => []ChainHoldsQueuePrefix
<1>1. PrefixInv => ChainHoldsQueuePrefix
  BY DEF PrefixInv, ForkInv
<1> QED
  BY <1>1, PrefixInvariance, PTL

-----------------------------------------------------------------------------
(***************************************************************************)
(* PART 3.  THE DATABASE FOLLOWS FINALITY                                  *)
(*                                                                         *)
(* The proof that the database never runs ahead of finality and is at most *)
(* one commitment behind it, with repairs, stale reads and lost leases.    *)
(*                                                                         *)
(* A worker may act on a job only after its predecessors were confirmed,   *)
(* and confirmations are never taken back, so whatever is still in flight  *)
(* or in somebody's hands is at most the job after the confirmed ones:     *)
(* this bounds the chain from above.  What a process is about to confirm   *)
(* it has read at 'finalized', and a finalised event stays: this bounds    *)
(* the database.  A repair may reopen a confirmed row, so rows themselves  *)
(* give one direction only (ConfirmedIsCounted).                           *)
(***************************************************************************)

\* A finalised event is on every later fork.
TipExtendsFinal == \A i \in 1 .. final.acc.count : tip.events[i] = final.events[i]

\* A row in state 'confirmed' has been counted.
ConfirmedIsCounted == \A i \in JobIds : row[i].state = "confirmed" => i <= issue.confCount

\* Nothing in flight is more than one commitment ahead of the database...
InFlightFollows == \A t \in txs : t.job <= issue.confCount + 1

\* ... and no process that may still send or confirm is.
WorkFollows ==
    \A p \in Processes :
        proc[p].pc \notin {"idle", "observe"} => proc[p].job <= issue.confCount + 1

\* What a process is about to confirm is final, under the signature it knows.
ConfirmsFinal ==
    \A p \in Processes :
        proc[p].pc \in {"repair", "finalizeExisting", "finalizeSubmitted"} =>
            /\ proc[p].job <= final.acc.count
            /\ proc[p].sig = final.events[proc[p].job].sig

\* The part of the invariant that relates database, processes and chain.
FollowsInv ==
    /\ DatabaseFollowsFinality
    /\ TipExtendsFinal /\ ConfirmedIsCounted
    /\ InFlightFollows /\ WorkFollows /\ ConfirmsFinal

\* The inductive invariant.
FinalityInv == PrefixInv /\ FollowsInv

-----------------------------------------------------------------------------
(* Facts every step uses.                                                  *)

\* The counts of database, chain and queue are numbers in this order.
LEMMA Counts ==
    ASSUME PrefixInv, issue.confCount <= final.acc.count
    PROVE  /\ issue.confCount \in Nat /\ final.acc.count \in Nat /\ tip.acc.count \in Nat
           /\ Len(payload) \in Nat
           /\ final.acc.count <= tip.acc.count /\ tip.acc.count <= Len(payload)
           /\ Len(payload) <= MaxJobs
<1>1. /\ issue \in Issues /\ Len(payload) \in Nat /\ Len(payload) <= MaxJobs
  BY DEF PrefixInv, TypeInv, TypeOK
<1>2. /\ final.acc.count \in 0 .. Len(payload) /\ tip.acc.count \in 0 .. Len(payload)
      /\ final.acc.count <= tip.acc.count
  BY DEF PrefixInv, ForkInv, ChainHoldsQueuePrefix, HoldsPrefix
<1> QED
  BY <1>1, <1>2 DEF Issues

\* An event account a reader finds at 'finalized' is one of the prefix.
LEMMA EventInPrefix ==
    ASSUME PrefixInv, NEW i \in JobIds, final.events[i] # NoEvent
    PROVE  i \in 1 .. final.acc.count
BY DEF PrefixInv, ForkInv, ChainHoldsQueuePrefix, HoldsPrefix

\* chainObservationMatches never accepts the absence of an event.
LEMMA MatchIsEvent ==
    ASSUME NEW job \in Envelopes, NEW event, ObservationMatches(job, event)
    PROVE  event # NoEvent
<1>1. event.type = job.op /\ job.op \in Operations
  BY DEF ObservationMatches, Envelopes
<1> QED
  BY <1>1 DEF NoEvent, Operations

\* What Continue and Finish leave in the process table.
LEMMA Continued ==
    ASSUME TypeInv, NEW p \in Processes, NEW pc, NEW sig, Continue(p, pc, sig)
    PROVE  /\ proc'[p].pc = pc /\ proc'[p].sig = sig /\ proc'[p].job = proc[p].job
           /\ \A q \in Processes \ {p} : proc'[q] = proc[q]
BY DEF TypeInv, TypeOK, Continue

LEMMA Finished ==
    ASSUME TypeInv, NEW p \in Processes, Finish(p)
    PROVE  proc'[p].pc = "idle" /\ \A q \in Processes \ {p} : proc'[q] = proc[q]
BY DEF TypeInv, TypeOK, Finish, Idle

-----------------------------------------------------------------------------
(* Steps that confirm nothing.                                             *)

\* A step of a process, or of the lease clock, that leaves queue, chain,
\* bindings and confirmed columns alone: what is left to check is the row it
\* wrote, what it sent and what it knows.
LEMMA QuietStep ==
    ASSUME FinalityInv, PrefixInv', NEW p,
           payload' = payload, tip' = tip, final' = final, binding' = binding,
           issue'.confCount = issue.confCount, issue'.confTimeline = issue.confTimeline,
           issue'.confHandoff = issue.confHandoff,
           \A i \in JobIds : row'[i].state = "confirmed" => row[i].state = "confirmed",
           \A t \in txs' : t \in txs \/ t.job <= issue.confCount + 1,
           \A q \in Processes \ {p} : proc'[q] = proc[q],
           p \in Processes /\ proc'[p].pc \notin {"idle", "observe"} =>
               proc'[p].job <= issue.confCount + 1,
           p \in Processes /\ proc'[p].pc \in {"repair", "finalizeExisting", "finalizeSubmitted"} =>
               /\ proc'[p].job <= final.acc.count
               /\ proc'[p].sig = final.events[proc'[p].job].sig
    PROVE  FinalityInv'
<1>1. DatabaseFollowsFinality' /\ TipExtendsFinal'
  BY DEF FinalityInv, FollowsInv, DatabaseFollowsFinality, TipExtendsFinal
<1>2. ConfirmedIsCounted' /\ InFlightFollows'
  BY DEF FinalityInv, FollowsInv, ConfirmedIsCounted, InFlightFollows
<1>3. WorkFollows'
  BY DEF FinalityInv, FollowsInv, WorkFollows
<1>4. ConfirmsFinal'
  BY DEF FinalityInv, FollowsInv, ConfirmsFinal
<1> QED
  BY <1>1, <1>2, <1>3, <1>4 DEF FinalityInv, FollowsInv

\* A step that leaves all of it alone.
LEMMA NothingMoves ==
    ASSUME FinalityInv, PrefixInv',
           UNCHANGED <<payload, row, issue, binding, tip, final, txs, proc>>
    PROVE  FinalityInv'
BY DEF FinalityInv, FollowsInv, DatabaseFollowsFinality, TipExtendsFinal, ConfirmedIsCounted,
       InFlightFollows, WorkFollows, ConfirmsFinal

\* The services only add a job to the queue.
LEMMA OperatorsFinality ==
    ASSUME FinalityInv, PrefixInv', Operators
    PROVE  FinalityInv'
<1>1. CASE SetPublicationEnabled
  BY <1>1, NothingMoves DEF SetPublicationEnabled, dbVars, chainVars
<1>2. ASSUME NEW job, NEW changed \in Issues, Enqueue(job, changed), NextId <= MaxJobs,
             changed.confCount = issue.confCount,
             changed.confTimeline = issue.confTimeline,
             changed.confHandoff = issue.confHandoff
      PROVE  FinalityInv'
  <2>1. Enqueue(job, changed) /\ NextId <= MaxJobs
    BY <1>2
  <2>2. /\ payload \in Seq(Envelopes) /\ row \in [JobIds -> Rows]
    BY DEF FinalityInv, PrefixInv, TypeInv, TypeOK
  <2>3. /\ issue'.confCount = issue.confCount /\ issue'.confTimeline = issue.confTimeline
        /\ issue'.confHandoff = issue.confHandoff
        /\ UNCHANGED <<binding, tip, final, txs, proc>>
    BY <1>2, <2>1 DEF Enqueue, chainVars, Issues
  <2>4. DatabaseFollowsFinality /\ TipExtendsFinal /\ ConfirmedIsCounted
        /\ InFlightFollows /\ WorkFollows /\ ConfirmsFinal /\ PrefixInv
    BY DEF FinalityInv, FollowsInv
  <2>5. \A k \in 1 .. Len(payload) : payload'[k] = payload[k]
    BY <2>1, <2>2 DEF Enqueue
  <2>6. issue.confCount \in Nat /\ issue.confCount <= Len(payload) /\ Len(payload) \in Nat
    BY <2>4, Counts DEF DatabaseFollowsFinality
  <2>7. issue.confCount # 0 => payload'[issue.confCount] = payload[issue.confCount]
    BY <2>5, <2>6
  <2>8. DatabaseFollowsFinality'
    BY <2>3, <2>4, <2>7 DEF DatabaseFollowsFinality
  <2>9. ConfirmedIsCounted'
    <3>1. \A i \in JobIds : row'[i].state = "confirmed" => row[i].state = "confirmed"
      <4>1. row' = [row EXCEPT ![NextId] = [NoJob EXCEPT !.state = "pending"]]
        BY <2>1 DEF Enqueue
      <4>2. [NoJob EXCEPT !.state = "pending"].state = "pending"
        BY DEF NoJob
      <4> QED
        BY <2>2, <4>1, <4>2
    <3> QED
      BY <2>3, <2>4, <3>1 DEF ConfirmedIsCounted
  <2>10. TipExtendsFinal' /\ InFlightFollows' /\ WorkFollows' /\ ConfirmsFinal'
    BY <2>3, <2>4 DEF TipExtendsFinal, InFlightFollows, WorkFollows, ConfirmsFinal
  <2> QED
    BY <2>8, <2>9, <2>10 DEF FinalityInv, FollowsInv
<1>3. issue \in Issues /\ issue.version + 1 \in Nat
  BY DEF FinalityInv, PrefixInv, TypeInv, TypeOK, Issues
<1>4. CASE Approve
  <2> DEFINE changed == [issue EXCEPT !.publication = "commit_pending", !.lifecycle = "open",
                                      !.version = 1]
  <2>1. changed \in Issues /\ changed.confCount = issue.confCount
        /\ changed.confTimeline = issue.confTimeline
        /\ changed.confHandoff = issue.confHandoff
    BY <1>3 DEF Issues, LifecycleStates
  <2> HIDE DEF changed
  <2> QED
    BY <1>2, <1>4, <2>1, Zenon DEF Approve, changed
<1>5. CASE CorrectPublishedIssue
  <2> DEFINE changed == [issue EXCEPT !.publication = "commit_pending",
                                      !.version = issue.version + 1]
  <2>1. changed \in Issues /\ changed.confCount = issue.confCount
        /\ changed.confTimeline = issue.confTimeline
        /\ changed.confHandoff = issue.confHandoff
    BY <1>3 DEF Issues
  <2>2. Enqueue(CorrectionJob(issue.version + 1), changed) /\ NextId <= MaxJobs
    BY <1>5, Zenon DEF CorrectPublishedIssue, MayCorrect
  <2> HIDE DEF changed
  <2> QED
    BY <1>2, <2>1, <2>2
<1>6. ASSUME NEW to \in Lifecycles, ChangeIssueLifecycle(to)
      PROVE  FinalityInv'
  <2> DEFINE changed == [issue EXCEPT !.lifecycle = to]
             job     == BuildChainJob("lifecycle_changed", NextId, ProjectedSnapshot,
                                      to, FALSE, issue.version, issue.version, to)
  <2>1. changed \in Issues /\ changed.confCount = issue.confCount
        /\ changed.confTimeline = issue.confTimeline
        /\ changed.confHandoff = issue.confHandoff
    BY <1>3, ConstantsAssumption DEF Issues
  <2>2. Enqueue(job, changed) /\ NextId <= MaxJobs
    BY <1>6, Zenon DEF ChangeIssueLifecycle
  <2> HIDE DEF changed, job
  <2> QED
    BY <1>2, <2>1, <2>2
<1>7. ASSUME NEW type \in HandoffStates \cup {"action_recorded"}, RecordIssueHandoff(type)
      PROVE  FinalityInv'
  <2> DEFINE changed == [issue EXCEPT !.handoffState =
                                         IF type = "action_recorded" THEN @ ELSE type]
             job     == BuildChainJob("handoff_checkpointed", NextId, ProjectedSnapshot,
                            issue.lifecycle, FALSE, issue.version, issue.version, type)
  <2>1. changed \in Issues /\ changed.confCount = issue.confCount
        /\ changed.confTimeline = issue.confTimeline
        /\ changed.confHandoff = issue.confHandoff
    BY <1>3 DEF Issues
  <2>2. Enqueue(job, changed) /\ NextId <= MaxJobs
    BY <1>7, Zenon DEF RecordIssueHandoff, MayRecordHandoff
  <2> HIDE DEF changed, job
  <2> QED
    BY <1>2, <2>1, <2>2
<1>8. CASE RemovePublishedIssue
  <2> DEFINE job == BuildChainJob("publication_removed", NextId, ProjectedSnapshot,
                        issue.lifecycle, TRUE, Tombstone, issue.version, "removed")
  <2>1. Enqueue(job, issue) /\ NextId <= MaxJobs
    BY <1>8, Zenon DEF RemovePublishedIssue
  <2> HIDE DEF job
  <2> QED
    BY <1>2, <1>3, <2>1
<1> QED
  BY <1>1, <1>4, <1>5, <1>6, <1>7, <1>8 DEF Operators

-----------------------------------------------------------------------------
(* Claims, leases and attempts.                                            *)

\* A row a process writes without confirming it.
LEMMA RowWritten ==
    ASSUME TypeInv, NEW i, NEW r, row' = [row EXCEPT ![i] = r], r.state # "confirmed"
    PROVE  \A k \in JobIds : row'[k].state = "confirmed" => row[k].state = "confirmed"
BY DEF TypeInv, TypeOK

\* A claim finds every predecessor confirmed, so the job is at most the one
\* after the confirmed ones.
LEMMA ClaimFinality ==
    ASSUME FinalityInv, PrefixInv', NEW p \in Workers, NEW i \in JobIds, Claim(p, i)
    PROVE  FinalityInv'
<1>1. /\ TypeInv /\ ConfirmedIsCounted /\ issue.confCount \in Nat /\ p \in Processes
      /\ i \in Nat /\ i # 0 /\ proc \in [Processes -> [ pc : Steps, job : 0 .. MaxJobs,
                                              attempt : 0 .. MaxAttempts, sig : AnySig ]]
  <2>1. TypeOK /\ TypeInv /\ ConfirmedIsCounted
    BY DEF FinalityInv, FollowsInv, PrefixInv, TypeInv
  <2>2. issue \in Issues /\ proc \in [Processes -> [ pc : Steps, job : 0 .. MaxJobs,
                                              attempt : 0 .. MaxAttempts, sig : AnySig ]]
    BY <2>1 DEF TypeOK
  <2>3. issue.confCount \in Nat
    BY <2>2, ConstantTypes DEF Issues
  <2>4. p \in Processes /\ i \in Nat /\ i # 0
    BY ConstantTypes DEF Processes, JobIds
  <2> QED
    BY <2>1, <2>2, <2>3, <2>4
<1>2. i <= issue.confCount + 1
  <2>1. CASE i = 1
    BY <1>1, <2>1
  <2>2. CASE i # 1
    <3>1. row[i - 1].state = "confirmed" /\ i - 1 \in JobIds
      BY <1>1, <2>2, ConstantTypes DEF Claim, Claimable, JobIds
    <3>2. i - 1 <= issue.confCount
      BY <1>1, <3>1 DEF ConfirmedIsCounted
    <3> QED
      BY <1>1, <3>2
  <2> QED
    BY <2>1, <2>2
<1>3. Leased(i, p).state # "confirmed"
  BY <1>1 DEF Leased, TypeInv, TypeOK, Rows
<1>4. \A k \in JobIds : row'[k].state = "confirmed" => row[k].state = "confirmed"
  BY <1>1, <1>3, RowWritten DEF Claim
<1>5. /\ payload' = payload /\ tip' = tip /\ final' = final /\ binding' = binding
      /\ issue' = issue /\ txs' = txs
  BY DEF Claim, chainVars
<1>6. /\ proc'[p].job = i /\ proc'[p].pc \in {"inspect", "failHard"}
      /\ \A q \in Processes \ {p} : proc'[q] = proc[q]
  BY <1>1 DEF Claim
<1> QED
  BY <1>2, <1>4, <1>5, <1>6, QuietStep

\* An expired lease confirms nothing.
LEMMA ExpiryFinality ==
    ASSUME FinalityInv, PrefixInv', NEW i \in JobIds, LeaseExpires(i)
    PROVE  FinalityInv'
<1>1. TypeInv /\ row[i] \in Rows
  BY DEF FinalityInv, PrefixInv, TypeInv, TypeOK
<1>2. row' = [row EXCEPT ![i] = [row[i] EXCEPT !.lease = "expired"]]
      /\ row[i].state = "leased"
  BY DEF LeaseExpires
<1>3. [row[i] EXCEPT !.lease = "expired"].state # "confirmed"
  BY <1>1, <1>2 DEF Rows
<1>4. \A k \in JobIds : row'[k].state = "confirmed" => row[k].state = "confirmed"
  BY <1>1, <1>2, <1>3, RowWritten
<1>5. UNCHANGED <<payload, issue, binding, tip, final, txs, proc>>
  BY DEF LeaseExpires, chainVars
<1> QED
  BY <1>4, <1>5 DEF FinalityInv, FollowsInv, DatabaseFollowsFinality, TipExtendsFinal,
     ConfirmedIsCounted, InFlightFollows, WorkFollows, ConfirmsFinal

\* What a process does between two of its transactions: it knows what it read
\* at 'finalized', and sends the job it works on.
LEMMA AttemptFinality ==
    ASSUME FinalityInv, PrefixInv', NEW p \in Processes,
           \/ Inspect(p) \/ InspectFails(p)
           \/ Submit(p) \/ SubmitFails(p) \/ SubmitAnswerLost(p) \/ SubmitRejected(p)
           \/ MarkSubmittedFails(p) \/ Confirm(p) \/ ConfirmFails(p)
           \/ FinalizeDeferred(p) \/ FinalizeThrows(p) \/ StateLost(p) \/ Crash(p)
    PROVE  FinalityInv'
<1> DEFINE i == proc[p].job
<1>1. TypeInv /\ WorkFollows /\ PrefixInv /\ payload \in Seq(Envelopes)
  BY DEF FinalityInv, FollowsInv, PrefixInv, TypeInv, TypeOK
<1>2. ASSUME proc[p].pc # "idle"
      PROVE  i \in JobIds /\ payload[i] \in Envelopes
  <2>1. i \in 1 .. Len(payload) /\ Len(payload) <= MaxJobs /\ Len(payload) \in Nat
    BY <1>1, <1>2, BusyJob DEF TypeInv, TypeOK
  <2> QED
    BY <1>1, <2>1, ConstantTypes DEF JobIds
<1>3. UNCHANGED <<payload, row, issue, binding, tip, final>>
  BY DEF Inspect, InspectFails, Submit, SubmitFails, SubmitAnswerLost, SubmitRejected,
     MarkSubmittedFails, Confirm, ConfirmFails, FinalizeDeferred, FinalizeThrows, StateLost,
     Crash, dbVars, chainVars
<1>4. ASSUME NEW pc, NEW sig, Continue(p, pc, sig), proc[p].pc \notin {"idle", "observe"},
             \A t \in txs' : t \in txs \/ t.job = i,
             pc \in {"repair", "finalizeExisting", "finalizeSubmitted"} =>
                 i <= final.acc.count /\ sig = final.events[i].sig
      PROVE  FinalityInv'
  <2>1. i <= issue.confCount + 1
    BY <1>1, <1>4 DEF WorkFollows
  <2>2. /\ proc'[p].pc = pc /\ proc'[p].sig = sig /\ proc'[p].job = i
        /\ \A q \in Processes \ {p} : proc'[q] = proc[q]
    BY <1>1, <1>4, Continued
  <2> QED
    BY <1>3, <1>4, <2>1, <2>2, QuietStep
<1>5. ASSUME Finish(p), txs' = txs
      PROVE  FinalityInv'
  <2>1. proc'[p].pc = "idle" /\ \A q \in Processes \ {p} : proc'[q] = proc[q]
    BY <1>1, <1>5, Finished
  <2> QED
    BY <1>3, <1>5, <2>1, QuietStep
<1>6. CASE Inspect(p)
  <2>1. proc[p].pc = "inspect" /\ txs' = txs
    BY <1>6 DEF Inspect, chainVars
  <2>2. CASE final.events[i] = NoEvent
    BY <1>4, <1>6, <2>1, <2>2 DEF Inspect
  <2>3. CASE final.events[i] # NoEvent
    <3>1. i <= final.acc.count
      <4>1. i \in 1 .. final.acc.count /\ final.acc.count \in Nat
        BY <1>1, <1>2, <2>1, <2>3, EventInPrefix DEF PrefixInv, TypeInv, TypeOK, Chains, Snapshots
      <4> QED
        BY <4>1
    <3> QED
      BY <1>4, <1>6, <2>1, <2>3, <3>1 DEF Inspect
  <2> QED
    BY <2>2, <2>3
<1>7. CASE InspectFails(p) \/ SubmitFails(p) \/ SubmitRejected(p) \/ MarkSubmittedFails(p)
           \/ ConfirmFails(p)
  BY <1>4, <1>7 DEF InspectFails, SubmitFails, SubmitRejected, MarkSubmittedFails,
     ConfirmFails, chainVars
<1>8. CASE Submit(p) \/ SubmitAnswerLost(p)
  <2>1. PICK sig \in NextSigs(i) : Send(i, sig) /\ proc[p].pc = "submit"
                                   /\ (Continue(p, "mark", sig) \/ Continue(p, "fail", NoSig))
    BY <1>8 DEF Submit, SubmitAnswerLost
  <2>2. \A t \in txs' : t \in txs \/ t.job = i
    BY <2>1 DEF Send
  <2> QED
    BY <1>4, <2>1, <2>2
<1>9. CASE Confirm(p)
  <2>1. /\ proc[p].pc = "confirm" /\ txs' = txs /\ final.events[i].sig = proc[p].sig
        /\ Continue(p, IF ObservationMatches(payload[i], final.events[i])
                       THEN "finalizeSubmitted" ELSE "conflict", proc[p].sig)
    BY <1>9 DEF Confirm, chainVars
  <2>2. CASE ObservationMatches(payload[i], final.events[i])
    <3>1. i \in 1 .. final.acc.count /\ final.acc.count \in Nat
      BY <1>1, <1>2, <2>1, <2>2, EventInPrefix, MatchIsEvent
      DEF PrefixInv, TypeInv, TypeOK, Chains, Snapshots
    <3>2. i <= final.acc.count
      BY <3>1
    <3> QED
      BY <1>4, <2>1, <2>2, <3>2
  <2>3. CASE ~ObservationMatches(payload[i], final.events[i])
    BY <1>4, <2>1, <2>3
  <2> QED
    BY <2>2, <2>3
<1>10. CASE FinalizeDeferred(p) \/ FinalizeThrows(p)
  <2>1. /\ proc[p].pc \in {"finalizeExisting", "finalizeSubmitted"} /\ txs' = txs
        /\ Continue(p, "defer", proc[p].sig) \/ Continue(p, "failHard", NoSig)
           \/ Continue(p, "conflict", proc[p].sig)
    BY <1>10 DEF FinalizeDeferred, FinalizeThrows, chainVars
  <2> QED
    BY <1>4, <2>1
<1>11. CASE StateLost(p) \/ Crash(p)
  BY <1>5, <1>11 DEF StateLost, Crash, chainVars
<1> QED
  BY <1>6, <1>7, <1>8, <1>9, <1>10, <1>11

\* The transactions that end an attempt without confirming the job.
LEMMA RecordFinality ==
    ASSUME FinalityInv, PrefixInv', NEW p \in Processes,
           \/ MarkSubmitted(p) \/ RecordFailure(p) \/ RecordSubmittedUnknown(p)
           \/ RecordPostSubmitConflict(p) \/ RecordProjectionDeferred(p)
    PROVE  FinalityInv'
<1> DEFINE i == proc[p].job
<1>1. TypeInv /\ WorkFollows /\ issue \in Issues /\ row \in [JobIds -> Rows]
  BY DEF FinalityInv, FollowsInv, PrefixInv, TypeInv, TypeOK
<1>2. i \in JobIds /\ row[i] \in Rows /\ i <= issue.confCount + 1
  <2>1. proc[p].pc \notin {"idle", "observe"}
    BY DEF MarkSubmitted, RecordFailure, RecordSubmittedUnknown, RecordPostSubmitConflict,
       RecordProjectionDeferred
  <2>2. i \in 1 .. Len(payload) /\ Len(payload) <= MaxJobs /\ Len(payload) \in Nat
    BY <1>1, <2>1, BusyJob DEF TypeInv, TypeOK
  <2> QED
    BY <1>1, <2>1, <2>2, ConstantTypes DEF JobIds, WorkFollows
<1>3. UNCHANGED <<payload, binding, tip, final, txs>>
  BY DEF MarkSubmitted, RecordFailure, RecordSubmittedUnknown, RecordPostSubmitConflict,
     RecordProjectionDeferred, chainVars
<1>4. issue' \in {issue, Blocked(i)}
  BY DEF MarkSubmitted, RecordFailure, RecordSubmittedUnknown, RecordPostSubmitConflict,
     RecordProjectionDeferred
<1>5. /\ issue'.confCount = issue.confCount /\ issue'.confTimeline = issue.confTimeline
      /\ issue'.confHandoff = issue.confHandoff
  BY <1>1, <1>4 DEF Blocked, Issues
<1>6. PICK r : row' = [row EXCEPT ![i] = r] /\ r.state # "confirmed"
  <2> SUFFICES \E r : row' = [row EXCEPT ![i] = r] /\ r.state # "confirmed"
    OBVIOUS
  <2>1. ASSUME NEW state \in RowStates
        PROVE  Released(i, state) \in Rows /\ Released(i, state).state = state
    BY <1>1, <1>2, ReleasedType DEF Released, Rows
  <2>2. CASE MarkSubmitted(p)
    <3> DEFINE r == [Released(i, "confirming") EXCEPT !.sig = proc[p].sig]
    <3>1. row' = [row EXCEPT ![i] = r]
      BY <2>2, Zenon DEF MarkSubmitted
    <3>2. r.state # "confirmed"
      BY <2>1 DEF Rows, RowStates
    <3> QED
      BY <3>1, <3>2, Zenon
  <2>3. CASE RecordFailure(p)
    <3> DEFINE dead == proc[p].pc = "failHard" \/ proc[p].attempt >= AttemptLimit
               r    == Released(i, IF dead THEN "dead_letter" ELSE "pending")
    <3>1. row' = [row EXCEPT ![i] = r]
      BY <2>3, Zenon DEF RecordFailure
    <3>2. r.state # "confirmed"
      <4> HIDE DEF dead
      <4> QED BY <2>1 DEF RowStates
    <3> QED
      BY <3>1, <3>2, Zenon
  <2>4. CASE RecordSubmittedUnknown(p) \/ RecordPostSubmitConflict(p)
    <3>1. PICK state \in {"submitted_unknown", "dead_letter"} :
              row' = [row EXCEPT ![i].state = state]
      BY <2>4 DEF RecordSubmittedUnknown, RecordPostSubmitConflict
    <3> DEFINE r == [row[i] EXCEPT !.state = state]
    <3>2. row' = [row EXCEPT ![i] = r]
      BY <3>1
    <3>3. r.state # "confirmed"
      BY <1>2 DEF Rows
    <3> QED
      BY <3>2, <3>3, Zenon
  <2>5. CASE RecordProjectionDeferred(p)
    <3> DEFINE r == [Released(i, "submitted_unknown") EXCEPT !.sig = Coalesce(@, proc[p].sig)]
    <3>1. row' = [row EXCEPT ![i] = r]
      BY <2>5, Zenon DEF RecordProjectionDeferred
    <3>2. r.state # "confirmed"
      BY <2>1 DEF Rows, RowStates
    <3> QED
      BY <3>1, <3>2, Zenon
  <2> QED
    BY <2>2, <2>3, <2>4, <2>5
<1>7. \A k \in JobIds : row'[k].state = "confirmed" => row[k].state = "confirmed"
  BY <1>1, <1>6, RowWritten
<1>8. CASE MarkSubmitted(p)
  <2>1. /\ proc'[p].pc = "confirm" /\ proc'[p].job = i
        /\ \A q \in Processes \ {p} : proc'[q] = proc[q]
    BY <1>1, <1>8, Continued DEF MarkSubmitted
  <2> QED
    BY <1>2, <1>3, <1>5, <1>7, <2>1, QuietStep
<1>9. CASE ~MarkSubmitted(p)
  <2>1. Finish(p)
    BY <1>9 DEF RecordFailure, RecordSubmittedUnknown, RecordPostSubmitConflict,
       RecordProjectionDeferred
  <2>2. proc'[p].pc = "idle" /\ \A q \in Processes \ {p} : proc'[q] = proc[q]
    BY <1>1, <2>1, Finished
  <2> QED
    BY <1>3, <1>5, <1>7, <2>2, QuietStep
<1> QED
  BY <1>8, <1>9

-----------------------------------------------------------------------------
(* The transaction that confirms a job.                                    *)

\* What finalizeConfirmed finds: the job is final, the signature is that of its
\* event, and the issue row stands right before the job or right behind it.
LEMMA ConfirmableFacts ==
    ASSUME FinalityInv, NEW p \in Processes, FinalizeConfirmed(p)
    PROVE  LET i == proc[p].job
           IN  /\ i \in JobIds /\ i \in Nat /\ i <= final.acc.count
               /\ payload[i] \in Envelopes /\ payload[i].next.count = i
               /\ proc[p].sig = final.events[i].sig
               /\ \/ AtExpected(i) /\ issue.confCount + 1 = i
                  \/ ~AtExpected(i) /\ AtNext(i) /\ issue.confCount = i
<1> DEFINE i == proc[p].job
<1>1. /\ TypeInv /\ QueueIsWellFormed /\ ConfirmsFinal /\ issue.confCount \in Nat
      /\ proc[p].pc \in {"finalizeExisting", "finalizeSubmitted"}
  BY DEF FinalityInv, FollowsInv, PrefixInv, QueueInv, TypeInv, TypeOK, Issues, FinalizeConfirmed
<1>2. i \in JobIds /\ i \in Nat /\ i \in 1 .. Len(payload) /\ payload[i] \in Envelopes
  BY <1>1, BusyJob, ConstantTypes
<1>3. payload[i].next.count = i /\ payload[i].expected.count = i - 1
  BY <1>1, <1>2, PreparesFacts DEF QueueIsWellFormed
<1>4. i <= final.acc.count /\ proc[p].sig = final.events[i].sig
  BY <1>1 DEF ConfirmsFinal
<1>5. AtExpected(i) \/ AtNext(i)
  BY DEF FinalizeConfirmed, Confirmable
<1>6. /\ AtExpected(i) => issue.confCount = i - 1
      /\ AtNext(i) => issue.confCount = i
  BY <1>3 DEF AtExpected, AtNext
<1> QED
  BY <1>1, <1>2, <1>3, <1>4, <1>5, <1>6

\* A confirmation counts the job, or finds it counted.
LEMMA ConfirmedColumns ==
    ASSUME FinalityInv, NEW p \in Processes, FinalizeConfirmed(p)
    PROVE  LET i == proc[p].job
           IN  /\ issue'.confCount = i
               /\ issue'.confTimeline = payload[i].next.timeline
               /\ issue'.confHandoff = payload[i].next.handoff
               /\ issue.confCount \in Nat /\ issue.confCount <= i
               /\ i <= issue.confCount + 1
<1> DEFINE i == proc[p].job
<1>1. /\ i \in Nat /\ payload[i].next.count = i
      /\ \/ AtExpected(i) /\ issue.confCount + 1 = i
         \/ ~AtExpected(i) /\ AtNext(i) /\ issue.confCount = i
  BY ConfirmableFacts
<1>2. issue \in Issues /\ issue.confCount \in Nat
  BY DEF FinalityInv, PrefixInv, TypeInv, TypeOK, Issues
<1>3. issue' = IssueAfter(i)
  BY DEF FinalizeConfirmed
<1>4. CASE AtExpected(i)
  BY <1>1, <1>2, <1>3, <1>4 DEF IssueAfter, Issues
<1>5. CASE ~AtExpected(i)
  <2>1. /\ issue'.confCount = issue.confCount /\ issue'.confTimeline = issue.confTimeline
        /\ issue'.confHandoff = issue.confHandoff
    BY <1>2, <1>3, <1>5 DEF IssueAfter, Issues
  <2> QED
    BY <1>1, <1>2, <1>5, <2>1 DEF AtNext
<1> QED
  BY <1>4, <1>5

\* finalizeConfirmed moves the database at most to the finalised prefix, and
\* binds the signature of the finalised event.
LEMMA ConfirmFinality ==
    ASSUME FinalityInv, PrefixInv', NEW p \in Processes, FinalizeConfirmed(p)
    PROVE  FinalityInv'
<1> DEFINE i == proc[p].job
           n == issue.confCount
<1>1. /\ i \in JobIds /\ i \in Nat /\ i # 0 /\ i <= final.acc.count
      /\ proc[p].sig = final.events[i].sig
  BY ConfirmableFacts DEF JobIds
<1>2. /\ issue'.confCount = i /\ issue'.confTimeline = payload[i].next.timeline
      /\ issue'.confHandoff = payload[i].next.handoff
      /\ n \in Nat /\ n <= i /\ i <= n + 1
  BY ConfirmedColumns
<1>3. /\ TypeInv /\ DatabaseFollowsFinality /\ TipExtendsFinal /\ ConfirmedIsCounted
      /\ InFlightFollows /\ WorkFollows /\ ConfirmsFinal
      /\ row \in [JobIds -> Rows] /\ binding \in [JobIds -> AnySig]
      /\ txs \subseteq [job : JobIds, sig : Sigs]
      /\ \A q \in Processes : proc[q].job \in Nat
  <2>1. /\ TypeInv /\ DatabaseFollowsFinality /\ TipExtendsFinal /\ ConfirmedIsCounted
        /\ InFlightFollows /\ WorkFollows /\ ConfirmsFinal
    BY DEF FinalityInv, FollowsInv, PrefixInv
  <2>2. /\ row \in [JobIds -> Rows] /\ binding \in [JobIds -> AnySig]
        /\ txs \subseteq [job : JobIds, sig : Sigs]
    BY <2>1 DEF TypeInv, TypeOK
  <2>3. \A q \in Processes : proc[q].job \in Nat
    BY <2>1, ConstantTypes DEF TypeInv, TypeOK
  <2> QED
    BY <2>1, <2>2, <2>3
<1>4. UNCHANGED <<payload, tip, final, txs>>
  BY DEF FinalizeConfirmed, chainVars
<1>5. \A k \in JobIds : k \in Nat
  BY ConstantTypes
<1>6. tip.acc.count <= i + 1
  <2>1. tip.acc.count \in Nat /\ tip.acc.count <= n + 1
    BY <1>3, Counts DEF DatabaseFollowsFinality, FinalityInv
  <2> QED
    BY <1>1, <1>2, <2>1
<1>7. DatabaseFollowsFinality'
  <2>1. binding' = [binding EXCEPT ![i] = proc[p].sig]
    BY DEF FinalizeConfirmed
  <2>2. ASSUME NEW k \in JobIds
        PROVE  binding'[k] = IF k <= i THEN final.events[k].sig ELSE NoSig
    <3>1. CASE k = i
      BY <1>1, <1>3, <2>1, <3>1
    <3>2. CASE k # i
      <4>1. binding'[k] = binding[k] /\ (k <= i <=> k <= n)
        BY <1>1, <1>2, <1>3, <1>5, <2>1, <3>2
      <4> QED
        BY <1>3, <4>1 DEF DatabaseFollowsFinality
    <3> QED
      BY <3>1, <3>2
  <2> QED
    BY <1>1, <1>2, <1>4, <1>6, <2>2 DEF DatabaseFollowsFinality
<1>8. ConfirmedIsCounted'
  <2>1. \A k \in JobIds \ {i} : row'[k] = row[k]
    BY <1>3 DEF FinalizeConfirmed
  <2> QED
    BY <1>1, <1>2, <1>3, <1>5, <2>1 DEF ConfirmedIsCounted
<1>9. InFlightFollows'
  BY <1>1, <1>2, <1>3, <1>4, <1>5 DEF InFlightFollows
<1>10. proc'[p].pc = "idle" /\ \A q \in Processes \ {p} : proc'[q] = proc[q]
  BY <1>3, Finished DEF FinalizeConfirmed
<1>11. WorkFollows'
  BY <1>1, <1>2, <1>3, <1>10 DEF WorkFollows
<1>12. ConfirmsFinal' /\ TipExtendsFinal'
  BY <1>3, <1>4, <1>10 DEF ConfirmsFinal, TipExtendsFinal
<1> QED
  BY <1>7, <1>8, <1>9, <1>11, <1>12 DEF FinalityInv, FollowsInv

\* Every step of processJob.
LEMMA StepFinality ==
    ASSUME FinalityInv, PrefixInv', NEW p \in Processes, Step(p) \/ Crash(p)
    PROVE  FinalityInv'
BY AttemptFinality, RecordFinality, ConfirmFinality DEF Step

-----------------------------------------------------------------------------
(* The reconciler and the cluster.                                         *)

\* The reconciler takes the signature of a finalised event, whatever it read
\* of the row before.
LEMMA ReconcileFinality ==
    ASSUME FinalityInv, PrefixInv', NEW r \in Reconcilers, Reconcile(r)
    PROVE  FinalityInv'
<1> DEFINE i == proc[r].job
<1>1. /\ TypeInv /\ PrefixInv /\ DatabaseFollowsFinality /\ WorkFollows /\ ConfirmsFinal
      /\ r \in Processes /\ row \in [JobIds -> Rows]
      /\ proc \in [Processes -> [ pc : Steps, job : 0 .. MaxJobs,
                                  attempt : 0 .. MaxAttempts, sig : AnySig ]]
  BY DEF FinalityInv, FollowsInv, PrefixInv, TypeInv, TypeOK, Processes
<1>2. UNCHANGED <<payload, issue, binding, tip, final, txs>>
  BY DEF Reconcile, ReconcileRead, ReconcileObserve, ReconcileReport, ReconcileLease,
     ReconcileBusy, dbVars, chainVars
<1>3. CASE \/ \E k \in JobIds : ReconcileRead(r, k)
           \/ ReconcileReport(r) \/ ReconcileBusy(r)
  <2>1. row' = row /\ proc'[r].pc \in {"idle", "observe"}
        /\ \A q \in Processes \ {r} : proc'[q] = proc[q]
    BY <1>1, <1>3, Finished DEF ReconcileRead, ReconcileReport, ReconcileBusy, dbVars
  <2> QED
    BY <1>1, <1>2, <2>1, QuietStep
<1>4. CASE ReconcileObserve(r)
  <2>1. /\ proc[r].pc = "observe" /\ row' = row /\ final.events[i] # NoEvent
        /\ Continue(r, "repair", final.events[i].sig)
    BY <1>4 DEF ReconcileObserve, dbVars
  <2>2. i \in 1 .. final.acc.count
    BY <1>1, <2>1, BusyJob, EventInPrefix
  <2>3. i <= final.acc.count /\ i <= issue.confCount + 1
    <3>1. /\ final.acc.count \in Nat /\ tip.acc.count \in Nat /\ issue.confCount \in Nat
          /\ final.acc.count <= tip.acc.count /\ tip.acc.count <= issue.confCount + 1
      BY <1>1, Counts DEF DatabaseFollowsFinality
    <3> QED
      BY <2>2, <3>1
  <2>4. /\ proc'[r].pc = "repair" /\ proc'[r].sig = final.events[i].sig /\ proc'[r].job = i
        /\ \A q \in Processes \ {r} : proc'[q] = proc[q]
    BY <1>1, <2>1, Continued
  <2> QED
    BY <1>1, <1>2, <2>1, <2>3, <2>4, QuietStep
<1>5. CASE ReconcileLease(r)
  <2>1. proc[r].pc = "repair" /\ i \in JobIds /\ row[i] \in Rows
    BY <1>1, <1>5, BusyJob DEF ReconcileLease
  <2>2. Leased(i, r).state # "confirmed" /\ row' = [row EXCEPT ![i] = Leased(i, r)]
    BY <1>5, <2>1 DEF Leased, Rows, ReconcileLease
  <2>3. \A k \in JobIds : row'[k].state = "confirmed" => row[k].state = "confirmed"
    BY <1>1, <2>2, RowWritten
  <2>4. /\ proc'[r].pc = "finalizeExisting" /\ proc'[r].sig = proc[r].sig /\ proc'[r].job = i
        /\ \A q \in Processes \ {r} : proc'[q] = proc[q]
    BY <1>1, <1>5 DEF ReconcileLease
  <2>5. /\ i <= issue.confCount + 1 /\ i <= final.acc.count
        /\ proc[r].sig = final.events[i].sig
    BY <1>1, <2>1 DEF WorkFollows, ConfirmsFinal
  <2> QED
    BY <1>1, <1>2, <2>3, <2>4, <2>5, QuietStep
<1> QED
  BY <1>3, <1>4, <1>5 DEF Reconcile

\* A transaction that lands is at most the job after the confirmed ones.
LEMMA LandFinality ==
    ASSUME FinalityInv, PrefixInv', NEW t \in txs, Land(t)
    PROVE  FinalityInv'
<1> DEFINE i == t.job
<1>1. /\ PrefixInv /\ QueueInv /\ DatabaseFollowsFinality /\ TipExtendsFinal
      /\ ConfirmedIsCounted /\ InFlightFollows /\ WorkFollows /\ ConfirmsFinal
      /\ tip.events \in [JobIds -> Events] /\ payload \in Seq(Envelopes)
      /\ i \in 1 .. Len(payload)
  BY DEF FinalityInv, FollowsInv, PrefixInv, TypeInv, TypeOK, InFlightOfQueue, Chains
<1>2. /\ UNCHANGED <<payload, row, issue, binding, final, proc>>
      /\ txs' \subseteq txs
      /\ Accepts(tip.acc, payload[i])
      /\ tip'.acc = Execute(tip.acc, i, payload[i])
      /\ \A k \in JobIds \ {i} : tip'.events[k] = tip.events[k]
  BY <1>1 DEF Land, dbVars
<1>3. tip.acc.count = i - 1 /\ i \in Nat /\ i <= issue.confCount + 1
  BY <1>1, <1>2, AcceptedIsNext DEF InFlightFollows
<1>4. tip'.acc.count = i
  <2>1. /\ payload[i] \in Envelopes /\ Prepares(i, payload[i])
        /\ payload[i].op = "issue_created" <=> i = 1
    BY <1>1 DEF QueueInv, QueueIsWellFormed, CreatedFirst
  <2>2. payload[i].expected.count + 1 = i
    BY <1>3, <2>1, PreparesFacts
  <2> QED
    BY <1>2, <2>1, <2>2 DEF Execute
<1>5. /\ final.acc.count \in Nat /\ final.acc.count < i
      /\ final.acc.count <= Len(payload) /\ Len(payload) <= MaxJobs /\ Len(payload) \in Nat
  BY <1>1, <1>3, Counts DEF DatabaseFollowsFinality
<1>6. TipExtendsFinal'
  <2>1. \A k \in 1 .. final.acc.count : k \in JobIds \ {i}
    BY <1>3, <1>5, ConstantTypes DEF JobIds
  <2> QED
    BY <1>1, <1>2, <2>1 DEF TipExtendsFinal
<1>7. DatabaseFollowsFinality'
  BY <1>1, <1>2, <1>3, <1>4 DEF DatabaseFollowsFinality
<1>8. ConfirmedIsCounted' /\ InFlightFollows' /\ WorkFollows' /\ ConfirmsFinal'
  BY <1>1, <1>2 DEF ConfirmedIsCounted, InFlightFollows, WorkFollows, ConfirmsFinal
<1> QED
  BY <1>6, <1>7, <1>8 DEF FinalityInv, FollowsInv

\* Landing, expiry, finality and rollback.
LEMMA ClusterFinality ==
    ASSUME FinalityInv, PrefixInv', Cluster
    PROVE  FinalityInv'
<1>1. /\ PrefixInv /\ DatabaseFollowsFinality /\ TipExtendsFinal /\ ConfirmedIsCounted
      /\ InFlightFollows /\ WorkFollows /\ ConfirmsFinal
      /\ HoldsPrefix(tip, tip.acc.count) /\ HoldsPrefix(final, final.acc.count)
  BY DEF FinalityInv, FollowsInv, PrefixInv, ForkInv, ChainHoldsQueuePrefix
<1>2. /\ issue.confCount \in Nat /\ final.acc.count \in Nat /\ tip.acc.count \in Nat
      /\ final.acc.count <= tip.acc.count /\ issue.confCount <= final.acc.count
      /\ tip.acc.count <= issue.confCount + 1
  BY <1>1, Counts DEF DatabaseFollowsFinality
<1>3. JobIds \subseteq Nat \ {0}
  BY ConstantTypes DEF JobIds
<1>4. CASE \E t \in txs : Land(t)
  BY <1>4, LandFinality
<1>5. ASSUME NEW t \in txs, Expire(t)
      PROVE  FinalityInv'
  <2>1. UNCHANGED <<payload, row, issue, binding, tip, final, proc>> /\ txs' \subseteq txs
    BY <1>5 DEF Expire, dbVars
  <2> QED
    BY <1>1, <2>1 DEF FinalityInv, FollowsInv, DatabaseFollowsFinality, TipExtendsFinal,
       ConfirmedIsCounted, InFlightFollows, WorkFollows, ConfirmsFinal
<1>6. CASE FinalizeBlock
  <2>1. UNCHANGED <<payload, row, issue, binding, tip, txs, proc>> /\ final' = tip
    BY <1>6 DEF FinalizeBlock, dbVars
  <2>2. ASSUME NEW k \in JobIds, k <= final.acc.count
        PROVE  tip.events[k] = final.events[k]
    <3>1. k \in 1 .. final.acc.count
      BY <1>2, <1>3, <2>2
    <3> QED
      BY <1>1, <3>1 DEF TipExtendsFinal
  <2>3. DatabaseFollowsFinality'
    <3>1. \A k \in JobIds : k <= issue.confCount => tip.events[k] = final.events[k]
      BY <1>2, <1>3, <2>2
    <3>2. \A k \in JobIds :
              binding[k] = IF k <= issue.confCount THEN tip.events[k].sig ELSE NoSig
      BY <1>1, <3>1 DEF DatabaseFollowsFinality
    <3>3. issue.confCount <= tip.acc.count
      BY <1>2
    <3> QED
      BY <1>1, <2>1, <3>2, <3>3 DEF DatabaseFollowsFinality
  <2>4. ConfirmsFinal'
    <3>1. ASSUME NEW p \in Processes,
                 proc[p].pc \in {"repair", "finalizeExisting", "finalizeSubmitted"}
          PROVE  proc[p].job <= tip.acc.count /\ proc[p].sig = tip.events[proc[p].job].sig
      <4>1. proc[p].job \in JobIds /\ proc[p].job \in Nat
        BY <1>1, <1>3, <3>1, BusyJob DEF PrefixInv
      <4>2. proc[p].job <= final.acc.count /\ proc[p].sig = final.events[proc[p].job].sig
        BY <1>1, <3>1 DEF ConfirmsFinal
      <4> QED
        BY <1>2, <2>2, <4>1, <4>2
    <3> QED
      BY <2>1, <3>1 DEF ConfirmsFinal
  <2>5. TipExtendsFinal' /\ ConfirmedIsCounted' /\ InFlightFollows' /\ WorkFollows'
    BY <1>1, <2>1 DEF TipExtendsFinal, ConfirmedIsCounted, InFlightFollows, WorkFollows
  <2> QED
    BY <2>3, <2>4, <2>5 DEF FinalityInv, FollowsInv
<1>7. CASE Rollback
  <2>1. UNCHANGED <<payload, row, issue, binding, final, proc>> /\ tip' = final
    BY <1>7 DEF Rollback, dbVars
  <2>2. \A k \in JobIds : tip.events[k] # final.events[k] => k <= issue.confCount + 1
    <3>1. ASSUME NEW k \in JobIds, ~(k <= issue.confCount + 1)
          PROVE  tip.events[k] = final.events[k]
      <4>1. k \notin 1 .. tip.acc.count /\ k \notin 1 .. final.acc.count
        BY <1>2, <1>3, <3>1
      <4> QED
        BY <1>1, <4>1 DEF HoldsPrefix
    <3> QED
      BY <3>1
  <2>3. InFlightFollows'
    <3>1. \A t \in txs' : t \in txs \/ \E k \in JobIds : /\ tip.events[k] # final.events[k]
                                                         /\ t.job = k
      BY <1>7 DEF Rollback
    <3> QED
      BY <1>1, <2>1, <2>2, <3>1 DEF InFlightFollows
  <2>4. DatabaseFollowsFinality'
    <3>1. final.acc.count <= issue.confCount + 1
      BY <1>2
    <3> QED
      BY <1>1, <2>1, <3>1 DEF DatabaseFollowsFinality
  <2>5. TipExtendsFinal' /\ ConfirmedIsCounted' /\ WorkFollows' /\ ConfirmsFinal'
    BY <1>1, <2>1 DEF TipExtendsFinal, ConfirmedIsCounted, WorkFollows, ConfirmsFinal
  <2> QED
    BY <2>3, <2>4, <2>5 DEF FinalityInv, FollowsInv
<1> QED
  BY <1>4, <1>5, <1>6, <1>7 DEF Cluster

-----------------------------------------------------------------------------
(* The theorem.                                                            *)

\* Nothing is confirmed, in flight or in anybody's hands.
LEMMA InitFinality == Init => FinalityInv
<1> SUFFICES ASSUME Init PROVE FinalityInv
  OBVIOUS
<1>1. PrefixInv
  BY InitPrefix
<1>2. /\ issue.confCount = 0 /\ issue.confTimeline = ZeroHead /\ issue.confHandoff = ZeroHead
      /\ tip = final /\ tip.acc.count = 0 /\ txs = {}
      /\ \A i \in JobIds : row[i].state = "absent" /\ binding[i] = NoSig
      /\ \A p \in Processes : proc[p].pc = "idle"
  BY DEF Init, NoChain, NoAccount, NoJob, Idle
<1>3. \A i \in JobIds : ~(i <= 0)
  BY ConstantTypes DEF JobIds
<1>4. DatabaseFollowsFinality
  BY <1>2, <1>3 DEF DatabaseFollowsFinality
<1>5. TipExtendsFinal /\ ConfirmedIsCounted /\ InFlightFollows /\ WorkFollows /\ ConfirmsFinal
  BY <1>2 DEF TipExtendsFinal, ConfirmedIsCounted, InFlightFollows, WorkFollows, ConfirmsFinal
<1> QED
  BY <1>1, <1>4, <1>5 DEF FinalityInv, FollowsInv

\* Every step keeps the invariant.
LEMMA FinalityStep == FinalityInv /\ [Next]_vars => FinalityInv'
<1> SUFFICES ASSUME FinalityInv, [Next]_vars PROVE FinalityInv'
  OBVIOUS
<1>1. PrefixInv'
  BY PrefixStep DEF FinalityInv
<1>2. CASE Operators
  BY <1>1, <1>2, OperatorsFinality
<1>3. CASE \E w \in Workers, i \in JobIds : Claim(w, i)
  BY <1>1, <1>3, ClaimFinality
<1>4. CASE \E i \in JobIds : LeaseExpires(i)
  BY <1>1, <1>4, ExpiryFinality
<1>5. CASE \E p \in Processes : Step(p) \/ Crash(p)
  BY <1>1, <1>5, StepFinality
<1>6. CASE \E r \in Reconcilers : Reconcile(r)
  BY <1>1, <1>6, ReconcileFinality
<1>7. CASE Cluster
  BY <1>1, <1>7, ClusterFinality
<1>8. CASE UNCHANGED vars
  BY <1>1, <1>8, NothingMoves DEF vars, dbVars, chainVars
<1> QED
  BY <1>2, <1>3, <1>4, <1>5, <1>6, <1>7, <1>8 DEF Next

\* The inductive invariant holds in every reachable state.
LEMMA FinalityInvariance == Spec => []FinalityInv
<1> QED
  BY InitFinality, FinalityStep, PTL DEF Spec

\* The database never runs ahead of finality and is at most one commitment
\* behind the newest fork, with the heads and signatures of what is final, for
\* any number of workers and reconcilers, stale reads, lost leases, lost
\* answers, rollbacks and crashes.
THEOREM DatabaseFollows == Spec => []DatabaseFollowsFinality
<1>1. FinalityInv => DatabaseFollowsFinality
  BY DEF FinalityInv, FollowsInv
<1> QED
  BY <1>1, FinalityInvariance, PTL

-----------------------------------------------------------------------------
(* The rows, without repairs.  With Reconcilers = {} a process writes only *)
(* a row it holds, which is neither confirmed nor a dead letter, and the   *)
(* job of such a row is the one after the confirmed ones.                  *)

\* Only queued jobs have a row.
RowsOfQueue == \A i \in JobIds : i > Len(payload) => row[i].state = "absent"

\* The inductive invariant.
RowsInv == ConfirmedRowsArePrefix /\ BlockedNamesDeadLetter /\ RowsOfQueue

\* The minimum of a set of chain sequences is null exactly for the empty set,
\* and of one dead letter it is that one.
LEMMA FirstOfFacts ==
    ASSUME NEW S, S \subseteq JobIds
    PROVE  /\ FirstOf(S) = 0 <=> S = {}
           /\ \A i \in JobIds : S = {i} => FirstOf(S) = i
<1>1. JobIds \subseteq Nat \ {0}
  BY ConstantTypes DEF JobIds
<1>2. S # {} => FirstOf(S) \in S
  <2>1. S # {} => \E i \in S : \A k \in S : i <= k
    BY <1>1, SmallestExists
  <2> QED
    BY <2>1, Zenon DEF FirstOf
<1> QED
  BY <1>1, <1>2 DEF FirstOf

\* A step that leaves the queue, the rows and the issue row's count and block
\* alone.
LEMMA RowsAlone ==
    ASSUME RowsInv, payload' = payload, row' = row,
           issue'.confCount = issue.confCount, issue'.blockedFrom = issue.blockedFrom
    PROVE  RowsInv'
BY DEF RowsInv, ConfirmedRowsArePrefix, BlockedNamesDeadLetter, RowsOfQueue, DeadLetters

\* A step that moves a live row of the queue to another live state.
LEMMA RowMoves ==
    ASSUME TypeInv, RowsInv, NEW i \in JobIds, NEW r, row' = [row EXCEPT ![i] = r],
           i \in 1 .. Len(payload),
           row[i].state \notin {"confirmed", "dead_letter"},
           r.state \notin {"confirmed", "dead_letter"},
           payload' = payload, issue' = issue
    PROVE  RowsInv'
<1>1. row \in [JobIds -> Rows] /\ Len(payload) \in Nat
  BY DEF TypeInv, TypeOK
<1>2. \A k \in JobIds : row'[k] = IF k = i THEN r ELSE row[k]
  BY <1>1
<1>3. DeadLetters' = DeadLetters
  BY <1>2 DEF DeadLetters
<1>4. ConfirmedRowsArePrefix'
  BY <1>2 DEF RowsInv, ConfirmedRowsArePrefix
<1>5. BlockedNamesDeadLetter'
  BY <1>3 DEF RowsInv, BlockedNamesDeadLetter
<1>6. RowsOfQueue'
  BY <1>1, <1>2 DEF RowsInv, RowsOfQueue
<1> QED
  BY <1>4, <1>5, <1>6 DEF RowsInv

\* A dead letter is the first row that is not confirmed, there was none
\* before, and the issue is blocked from it on.
LEMMA RowDies ==
    ASSUME TypeInv, RowsInv, NEW i \in JobIds, NEW r, row' = [row EXCEPT ![i] = r],
           i \in 1 .. Len(payload), i <= issue.confCount + 1,
           row[i].state \notin {"confirmed", "dead_letter"},
           r.state = "dead_letter",
           payload' = payload, issue' = Blocked(i)
    PROVE  RowsInv'
<1>1. /\ row \in [JobIds -> Rows] /\ Len(payload) \in Nat
      /\ issue \in Issues /\ issue.confCount \in Nat /\ i \in Nat
  BY ConstantTypes DEF TypeInv, TypeOK, Issues
<1>2. \A k \in JobIds : row'[k] = IF k = i THEN r ELSE row[k]
  BY <1>1
<1>3. i = issue.confCount + 1
  BY <1>1 DEF RowsInv, ConfirmedRowsArePrefix
<1>4. DeadLetters = {} /\ DeadLetters' = {i}
  <2>1. i \notin DeadLetters /\ DeadLetters \subseteq {i}
    BY <1>3 DEF RowsInv, BlockedNamesDeadLetter, DeadLetters
  <2>2. DeadLetters' = {i}
    BY <1>2, <2>1 DEF DeadLetters
  <2> QED
    BY <2>1, <2>2
<1>5. issue.blockedFrom = 0
  BY <1>4, FirstOfFacts DEF RowsInv, BlockedNamesDeadLetter, FirstOf
<1>6. issue'.blockedFrom = i /\ issue'.confCount = issue.confCount
  BY <1>1, <1>5 DEF Blocked, Issues
<1>7. ConfirmedRowsArePrefix'
  BY <1>2, <1>6 DEF RowsInv, ConfirmedRowsArePrefix
<1>8. BlockedNamesDeadLetter'
  <2>1. FirstOf({i}) = i
    BY FirstOfFacts
  <2> QED
    BY <1>3, <1>4, <1>6, <2>1 DEF BlockedNamesDeadLetter
<1>9. RowsOfQueue'
  BY <1>1, <1>2 DEF RowsInv, RowsOfQueue
<1> QED
  BY <1>7, <1>8, <1>9 DEF RowsInv

\* The insert of a job gives a fresh row.
LEMMA EnqueueRows ==
    ASSUME TypeInv, TypeInv', RowsInv, issue.confCount <= Len(payload), NextId <= MaxJobs,
           NEW job, NEW changed \in Issues, Enqueue(job, changed),
           changed.confCount = issue.confCount, changed.blockedFrom = issue.blockedFrom
    PROVE  RowsInv'
<1>1. /\ row \in [JobIds -> Rows] /\ Len(payload) \in Nat /\ payload \in Seq(Envelopes)
      /\ NextId \in JobIds /\ NextId = Len(payload) + 1 /\ issue.confCount \in Nat
      /\ JobIds \subseteq Nat
  <2>1. /\ row \in [JobIds -> Rows] /\ payload \in Seq(Envelopes)
        /\ issue.confCount \in Nat
    BY DEF TypeInv, TypeOK, Issues
  <2>2. Len(payload) \in Nat
    BY <2>1
  <2>3. JobIds \subseteq Nat /\ MaxJobs \in Nat
    BY ConstantTypes DEF JobIds
  <2> QED
    BY <2>1, <2>2, <2>3 DEF NextId, JobIds
<1>2. /\ issue'.confCount = issue.confCount /\ issue'.blockedFrom = issue.blockedFrom
      /\ Len(payload') = Len(payload) + 1
  BY <1>1 DEF Enqueue, Issues
<1>3. \A k \in JobIds : row'[k].state = IF k = NextId THEN "pending" ELSE row[k].state
  <2>1. row' = [row EXCEPT ![NextId] = [NoJob EXCEPT !.state = "pending"]]
    BY DEF Enqueue
  <2>2. [NoJob EXCEPT !.state = "pending"].state = "pending"
    BY DEF NoJob
  <2> QED
    BY <1>1, <2>1, <2>2
<1>4. row[NextId].state = "absent"
  BY <1>1 DEF RowsInv, RowsOfQueue
<1>5. DeadLetters' = DeadLetters
  BY <1>3, <1>4 DEF DeadLetters
<1>6. ConfirmedRowsArePrefix'
  BY <1>1, <1>2, <1>3, <1>4 DEF RowsInv, ConfirmedRowsArePrefix
<1>7. BlockedNamesDeadLetter'
  BY <1>2, <1>5 DEF RowsInv, BlockedNamesDeadLetter
<1>8. RowsOfQueue'
  <2>1. \A k \in JobIds : k > Len(payload') => k # NextId /\ k > Len(payload)
    BY <1>1, <1>2
  <2> QED
    BY <1>3, <2>1 DEF RowsInv, RowsOfQueue
<1> QED
  BY <1>6, <1>7, <1>8 DEF RowsInv

\* The services and the switch.
LEMMA OperatorsRows ==
    ASSUME FinalityInv, TypeInv', RowsInv, Operators
    PROVE  RowsInv'
<1>1. /\ TypeInv /\ issue \in Issues /\ issue.version + 1 \in Nat
      /\ issue.confCount <= Len(payload)
  <2>1. /\ issue.confCount \in Nat /\ final.acc.count \in Nat /\ Len(payload) \in Nat
        /\ tip.acc.count \in Nat
        /\ issue.confCount <= final.acc.count /\ final.acc.count <= tip.acc.count
        /\ tip.acc.count <= Len(payload)
    BY Counts DEF FinalityInv, FollowsInv, DatabaseFollowsFinality
  <2>2. issue.confCount <= Len(payload)
    BY <2>1
  <2> QED
    BY <2>2 DEF FinalityInv, PrefixInv, TypeInv, TypeOK, Issues
<1>2. CASE Approve
  <2> DEFINE changed == [issue EXCEPT !.publication = "commit_pending", !.lifecycle = "open",
                                      !.version = 1]
  <2>1. changed \in Issues /\ changed.confCount = issue.confCount
        /\ changed.blockedFrom = issue.blockedFrom
    BY <1>1 DEF Issues, LifecycleStates
  <2>2. NextId <= MaxJobs /\ \E job : Enqueue(job, changed)
    BY <1>2, Zenon DEF Approve
  <2> HIDE DEF changed
  <2> QED
    BY <1>1, <2>1, <2>2, EnqueueRows
<1>3. CASE CorrectPublishedIssue
  <2> DEFINE changed == [issue EXCEPT !.publication = "commit_pending",
                                      !.version = issue.version + 1]
  <2>1. changed \in Issues /\ changed.confCount = issue.confCount
        /\ changed.blockedFrom = issue.blockedFrom
    BY <1>1 DEF Issues
  <2>2. NextId <= MaxJobs /\ \E job : Enqueue(job, changed)
    BY <1>3, Zenon DEF CorrectPublishedIssue, MayCorrect
  <2> HIDE DEF changed
  <2> QED
    BY <1>1, <2>1, <2>2, EnqueueRows
<1>4. ASSUME NEW to \in Lifecycles, ChangeIssueLifecycle(to)
      PROVE  RowsInv'
  <2> DEFINE changed == [issue EXCEPT !.lifecycle = to]
  <2>1. changed \in Issues /\ changed.confCount = issue.confCount
        /\ changed.blockedFrom = issue.blockedFrom
    BY <1>1, ConstantsAssumption DEF Issues
  <2>2. NextId <= MaxJobs /\ \E job : Enqueue(job, changed)
    BY <1>4, Zenon DEF ChangeIssueLifecycle
  <2> HIDE DEF changed
  <2> QED
    BY <1>1, <2>1, <2>2, EnqueueRows
<1>5. ASSUME NEW type \in HandoffStates \cup {"action_recorded"}, RecordIssueHandoff(type)
      PROVE  RowsInv'
  <2> DEFINE changed == [issue EXCEPT !.handoffState =
                                         IF type = "action_recorded" THEN @ ELSE type]
  <2>1. changed \in Issues /\ changed.confCount = issue.confCount
        /\ changed.blockedFrom = issue.blockedFrom
    BY <1>1 DEF Issues
  <2>2. NextId <= MaxJobs /\ \E job : Enqueue(job, changed)
    BY <1>5, Zenon DEF RecordIssueHandoff, MayRecordHandoff
  <2> HIDE DEF changed
  <2> QED
    BY <1>1, <2>1, <2>2, EnqueueRows
<1>6. CASE RemovePublishedIssue
  <2>1. NextId <= MaxJobs /\ \E job : Enqueue(job, issue)
    BY <1>6, Zenon DEF RemovePublishedIssue
  <2> QED
    BY <1>1, <2>1, EnqueueRows
<1>7. CASE SetPublicationEnabled
  BY <1>7, RowsAlone DEF SetPublicationEnabled, dbVars
<1> QED
  BY <1>2, <1>3, <1>4, <1>5, <1>6, <1>7 DEF Operators

\* A worker's steps: whatever it writes, it writes to a row it holds.
LEMMA StepRows ==
    ASSUME FinalityInv, RowsInv, NEW p \in Processes, Step(p) \/ Crash(p)
    PROVE  RowsInv'
<1> DEFINE i == proc[p].job
<1>1. /\ TypeInv /\ WorkFollows /\ row \in [JobIds -> Rows] /\ issue \in Issues
  BY DEF FinalityInv, FollowsInv, PrefixInv, TypeInv, TypeOK
<1>2. ASSUME proc[p].pc \notin {"idle", "observe"}, HoldsLease(p) \/ HoldsSubmission(p)
      PROVE  /\ i \in JobIds /\ i \in 1 .. Len(payload) /\ row[i] \in Rows
             /\ i <= issue.confCount + 1
             /\ row[i].state \notin {"confirmed", "dead_letter"}
  BY <1>1, <1>2, BusyJob DEF WorkFollows, HoldsLease, HoldsSubmission
<1>3. ASSUME i \in JobIds, row[i] \in Rows, NEW state \in RowStates
      PROVE  Released(i, state) \in Rows /\ Released(i, state).state = state
  BY <1>1, <1>3, ReleasedType DEF Released, Rows
<1>4. CASE \/ Inspect(p) \/ InspectFails(p)
           \/ Submit(p) \/ SubmitFails(p) \/ SubmitAnswerLost(p) \/ SubmitRejected(p)
           \/ MarkSubmittedFails(p) \/ Confirm(p) \/ ConfirmFails(p)
           \/ FinalizeDeferred(p) \/ FinalizeThrows(p) \/ StateLost(p) \/ Crash(p)
  <2>1. payload' = payload /\ row' = row /\ issue' = issue
    BY <1>4 DEF Inspect, InspectFails, Submit, SubmitFails, SubmitAnswerLost, SubmitRejected,
       MarkSubmittedFails, Confirm, ConfirmFails, FinalizeDeferred, FinalizeThrows, StateLost,
       Crash, dbVars
  <2> QED
    BY <2>1, RowsAlone
<1>5. CASE MarkSubmitted(p)
  <2> DEFINE r == [Released(i, "confirming") EXCEPT !.sig = proc[p].sig]
  <2>1. row' = [row EXCEPT ![i] = r] /\ payload' = payload /\ issue' = issue
    BY <1>5, Zenon DEF MarkSubmitted
  <2>2. proc[p].pc \notin {"idle", "observe"} /\ HoldsLease(p)
    BY <1>5 DEF MarkSubmitted
  <2>3. r.state = "confirming"
    BY <1>2, <1>3, <2>2 DEF Rows, RowStates
  <2> HIDE DEF r
  <2> QED
    BY <1>1, <1>2, <2>1, <2>2, <2>3, RowMoves
<1>6. CASE RecordFailure(p)
  <2> DEFINE dead == proc[p].pc = "failHard" \/ proc[p].attempt >= AttemptLimit
             r    == Released(i, IF dead THEN "dead_letter" ELSE "pending")
  <2>1. /\ row' = [row EXCEPT ![i] = r] /\ payload' = payload
        /\ issue' = IF dead THEN Blocked(i) ELSE issue
    BY <1>6, Zenon DEF RecordFailure
  <2>2. proc[p].pc \notin {"idle", "observe"} /\ HoldsLease(p)
    BY <1>6 DEF RecordFailure
  <2>3. r.state = IF dead THEN "dead_letter" ELSE "pending"
    <3> HIDE DEF dead
    <3> QED BY <1>2, <1>3, <2>2 DEF RowStates
  <2> HIDE DEF dead, r
  <2>4. CASE dead
    BY <1>1, <1>2, <2>1, <2>2, <2>3, <2>4, RowDies
  <2>5. CASE ~dead
    BY <1>1, <1>2, <2>1, <2>2, <2>3, <2>5, RowMoves
  <2> QED
    BY <2>4, <2>5
<1>7. CASE RecordSubmittedUnknown(p)
  <2>1. row' = [row EXCEPT ![i] = [row[i] EXCEPT !.state = "submitted_unknown"]]
        /\ payload' = payload /\ issue' = issue
    BY <1>7 DEF RecordSubmittedUnknown
  <2>2. proc[p].pc \notin {"idle", "observe"} /\ HoldsSubmission(p)
    BY <1>7 DEF RecordSubmittedUnknown
  <2>3. [row[i] EXCEPT !.state = "submitted_unknown"].state = "submitted_unknown"
    BY <1>2, <2>2 DEF Rows
  <2> QED
    BY <1>1, <1>2, <2>1, <2>2, <2>3, RowMoves
<1>8. CASE RecordPostSubmitConflict(p)
  <2>1. row' = [row EXCEPT ![i] = [row[i] EXCEPT !.state = "dead_letter"]]
        /\ payload' = payload /\ issue' = Blocked(i)
    BY <1>8 DEF RecordPostSubmitConflict
  <2>2. proc[p].pc \notin {"idle", "observe"} /\ HoldsSubmission(p)
    BY <1>8 DEF RecordPostSubmitConflict
  <2>3. [row[i] EXCEPT !.state = "dead_letter"].state = "dead_letter"
    BY <1>2, <2>2 DEF Rows
  <2> QED
    BY <1>1, <1>2, <2>1, <2>2, <2>3, RowDies
<1>9. CASE RecordProjectionDeferred(p)
  <2> DEFINE r == [Released(i, "submitted_unknown") EXCEPT !.sig = Coalesce(@, proc[p].sig)]
  <2>1. row' = [row EXCEPT ![i] = r] /\ payload' = payload /\ issue' = issue
    BY <1>9, Zenon DEF RecordProjectionDeferred
  <2>2. proc[p].pc \notin {"idle", "observe"} /\ (HoldsLease(p) \/ HoldsSubmission(p))
    BY <1>9 DEF RecordProjectionDeferred
  <2>3. r.state = "submitted_unknown"
    BY <1>2, <1>3, <2>2 DEF Rows, RowStates
  <2> HIDE DEF r
  <2> QED
    BY <1>1, <1>2, <2>1, <2>2, <2>3, RowMoves
<1>10. CASE FinalizeConfirmed(p)
  <2>1. /\ i \in JobIds /\ i \in Nat /\ issue'.confCount = i
        /\ issue.confCount \in Nat /\ issue.confCount <= i /\ i <= issue.confCount + 1
    BY <1>10, ConfirmableFacts, ConfirmedColumns
  <2>2. row[i].state \notin {"confirmed", "dead_letter"} /\ i \in 1 .. Len(payload)
        /\ row[i] \in Rows
    <3>1. proc[p].pc \notin {"idle", "observe"} /\ (HoldsLease(p) \/ HoldsSubmission(p))
      BY <1>10 DEF FinalizeConfirmed, Confirmable
    <3> QED
      BY <1>2, <3>1
  <2>3. i = issue.confCount + 1
    BY <2>1, <2>2 DEF RowsInv, ConfirmedRowsArePrefix
  <2>4. DeadLetters = {}
    BY <2>2, <2>3 DEF RowsInv, BlockedNamesDeadLetter, DeadLetters
  <2> DEFINE r == [Released(i, "confirmed") EXCEPT !.sig = Coalesce(@, proc[p].sig)]
  <2>5. row' = [row EXCEPT ![i] = r] /\ payload' = payload /\ issue' = IssueAfter(i)
    BY <1>10, Zenon DEF FinalizeConfirmed
  <2>6. r.state = "confirmed"
    BY <1>3, <2>1, <2>2 DEF Rows, RowStates
  <2> HIDE DEF r
  <2>7. \A k \in JobIds : row'[k] = IF k = i THEN r ELSE row[k]
    BY <1>1, <2>1, <2>5
  <2>8. DeadLetters' = {}
    BY <2>4, <2>6, <2>7 DEF DeadLetters
  <2>9. issue'.blockedFrom = 0
    <3>1. issue'.blockedFrom = FirstOf(DeadLetters \ {i})
      BY <1>1, <2>5 DEF IssueAfter, Issues
    <3> QED
      BY <2>4, <3>1 DEF FirstOf
  <2>10. ConfirmedRowsArePrefix'
    <3>1. JobIds \subseteq Nat
      BY ConstantTypes
    <3> QED
      BY <2>1, <2>3, <2>6, <2>7, <3>1 DEF RowsInv, ConfirmedRowsArePrefix
  <2>11. BlockedNamesDeadLetter'
    BY <2>8, <2>9 DEF BlockedNamesDeadLetter, FirstOf
  <2>12. RowsOfQueue'
    BY <1>1, <2>2, <2>5, <2>7 DEF RowsInv, RowsOfQueue, TypeInv, TypeOK
  <2> QED
    BY <2>10, <2>11, <2>12 DEF RowsInv
<1> QED
  BY <1>4, <1>5, <1>6, <1>7, <1>8, <1>9, <1>10 DEF Step

\* Nothing is queued.
LEMMA InitRows == Init => RowsInv
<1> SUFFICES ASSUME Init PROVE RowsInv
  OBVIOUS
<1>1. /\ \A i \in JobIds : row[i].state = "absent" /\ ~(i <= 0)
      /\ issue.confCount = 0 /\ issue.blockedFrom = 0
  BY ConstantTypes DEF Init, NoJob, JobIds
<1>2. DeadLetters = {}
  BY <1>1 DEF DeadLetters
<1> QED
  BY <1>1, <1>2 DEF RowsInv, ConfirmedRowsArePrefix, BlockedNamesDeadLetter, RowsOfQueue, FirstOf

\* Every step keeps the invariant where nobody reconciles.
LEMMA RowsStep ==
    ASSUME Reconcilers = {}
    PROVE  FinalityInv /\ RowsInv /\ [Next]_vars => RowsInv'
<1> SUFFICES ASSUME FinalityInv, RowsInv, [Next]_vars PROVE RowsInv'
  OBVIOUS
<1>1. TypeInv /\ TypeInv' /\ row \in [JobIds -> Rows]
  BY TypeStep DEF FinalityInv, PrefixInv, TypeInv, TypeOK
<1>2. CASE Operators
  BY <1>1, <1>2, OperatorsRows
<1>3. CASE \E w \in Workers, i \in JobIds : Claim(w, i)
  <2>1. PICK w \in Workers, i \in JobIds : Claim(w, i)
    BY <1>3
  <2>2. /\ row' = [row EXCEPT ![i] = Leased(i, w)] /\ i \in 1 .. Len(payload)
        /\ row[i].state \notin {"confirmed", "dead_letter"}
        /\ payload' = payload /\ issue' = issue
    BY <2>1 DEF Claim, Claimable
  <2>3. Leased(i, w).state = "leased"
    BY <1>1 DEF Leased, Rows
  <2> QED
    BY <1>1, <2>2, <2>3, RowMoves
<1>4. CASE \E i \in JobIds : LeaseExpires(i)
  <2>1. PICK i \in JobIds : LeaseExpires(i)
    BY <1>4
  <2>2. /\ row' = [row EXCEPT ![i] = [row[i] EXCEPT !.lease = "expired"]]
        /\ row[i].state = "leased" /\ payload' = payload /\ issue' = issue
    BY <2>1 DEF LeaseExpires
  <2>3. [row[i] EXCEPT !.lease = "expired"].state = "leased"
    BY <1>1, <2>2 DEF Rows
  <2>4. i \in 1 .. Len(payload)
    <3>1. i \in Nat /\ i # 0 /\ Len(payload) \in Nat
      BY <1>1, ConstantTypes DEF TypeInv, TypeOK, JobIds
    <3>2. ~(i > Len(payload))
      BY <2>2 DEF RowsInv, RowsOfQueue
    <3> QED
      BY <3>1, <3>2
  <2> QED
    BY <1>1, <2>2, <2>3, <2>4, RowMoves
<1>5. CASE \E p \in Processes : Step(p) \/ Crash(p)
  BY <1>5, StepRows
<1>6. CASE Cluster
  <2>1. payload' = payload /\ row' = row /\ issue' = issue
    BY <1>6 DEF Cluster, Land, Expire, FinalizeBlock, Rollback, dbVars
  <2> QED
    BY <2>1, RowsAlone
<1>7. CASE UNCHANGED vars
  BY <1>7, RowsAlone DEF vars, dbVars
<1> QED
  BY <1>2, <1>3, <1>4, <1>5, <1>6, <1>7 DEF Next

\* Where nobody reconciles, the rows in state 'confirmed' are exactly the
\* first confirmed_update_count jobs, however leases expire under workers that
\* go on working.
THEOREM ConfirmedRows ==
    ASSUME Reconcilers = {}
    PROVE  Spec => []ConfirmedRowsArePrefix
<1>1. FinalityInv /\ RowsInv /\ [Next]_vars => RowsInv'
  BY RowsStep
<1>2. RowsInv => ConfirmedRowsArePrefix
  BY DEF RowsInv
<1> QED
  BY <1>1, <1>2, InitRows, FinalityInvariance, PTL DEF Spec

\* Where nobody reconciles, the issue is blocked exactly while the job after
\* the confirmed ones is a dead letter, and from that job on.
THEOREM BlockedNamesIt ==
    ASSUME Reconcilers = {}
    PROVE  Spec => []BlockedNamesDeadLetter
<1>1. FinalityInv /\ RowsInv /\ [Next]_vars => RowsInv'
  BY RowsStep
<1>2. RowsInv => BlockedNamesDeadLetter
  BY DEF RowsInv
<1> QED
  BY <1>1, <1>2, InitRows, FinalityInvariance, PTL DEF Spec

-----------------------------------------------------------------------------
(***************************************************************************)
(* PART 4.  THE SITE FOLLOWS THE DATABASE                                  *)
(*                                                                         *)
(* The proofs that the public site always shows the page of the latest     *)
(* confirmed commitment, and that the whole pipeline implements            *)
(* CommittedHistory, for every number of workers, reconcilers and jobs.    *)
(*                                                                         *)
(* Part 3 bounds the distance between chain, database and queue: a job     *)
(* that is confirmed is the confirmed one or the one after it.             *)
(* What remains is about the data.  A confirmation reads columns of the    *)
(* issue row that later services have moved on, so the invariant says when *)
(* they cannot have (PendingIsLast, VersionsGrow) and which envelopes the  *)
(* services build (ServicesBuild, StreamsContinue).                        *)
(***************************************************************************)

\* What the operator services put into an envelope beside what prepareChainJob
\* demands: the operation is one the constants admit, a published version is
\* the next one and carries its own number, a lifecycle target is one the
\* operators choose, and a removal commits to the tombstone.
ServicesBuild ==
    \A i \in 1 .. Len(payload) :
        /\ i > 1 => payload[i].op \in Changes
        /\ Publishes(i) => /\ payload[i].version = payload[i].next.meta
                           /\ payload[i].next.meta = payload[i].expected.meta + 1
        /\ payload[i].op = "lifecycle_changed" =>
               /\ payload[i].next.lifecycle \in Lifecycles
               /\ payload[i].next.lifecycle \in LifecycleTransitions[payload[i].expected.lifecycle]
        /\ payload[i].op = "publication_removed" => payload[i].next.meta = Tombstone

\* Versions are numbered upwards: an envelope that publishes commits to a
\* greater number than every envelope before it, and the issue row holds the
\* greatest, which is one of the issue's versions.
VersionsGrow ==
    /\ \A j \in 1 .. Len(payload) :
          /\ payload[j].next.meta <= issue.version
          /\ Publishes(j) =>
                 /\ payload[j].next.meta > 0
                 /\ \A k \in 1 .. (j - 1) : payload[k].next.meta < payload[j].next.meta
    /\ issue.version <= Len(payload)

\* The issue waits for a version exactly while the last job publishes it and is
\* not confirmed; behind a removal that is on its way nothing can be relied on.
PendingIsLast ==
    LET n    == issue.confCount
        last == Len(payload)
    IN  /\ issue.publication = "commit_pending" =>
               n < last /\ Publishes(last) /\ payload[last].version = issue.version
        /\ \A i \in (n + 1) .. last :
               Publishes(i) /\ ~RemovedBy(i) =>
                   i = last /\ issue.publication = "commit_pending"

\* Which of its two streams an envelope extends, and the heads it leaves.
Handoff(i) == payload[i].op = "handoff_checkpointed"
HeadOf(i, handoffs) == IF handoffs THEN payload[i].next.handoff ELSE payload[i].next.timeline

\* A stream is where its last envelope left it.
StreamsContinue ==
    \A k \in 1 .. Len(payload), h \in BOOLEAN :
        /\ (\A i \in 1 .. k : Handoff(i) # h) => HeadOf(k, h) = ZeroHead
        /\ \A i \in 1 .. k :
               Handoff(i) = h /\ (\A j \in (i + 1) .. k : Handoff(j) # h) =>
                   HeadOf(k, h) = HeadOf(i, h)

\* The page the public reads when the first n jobs are confirmed.
JobPage(n) ==
    IF n = 0 THEN [state |-> "absent", version |-> 0, lifecycle |-> "none", proof |-> NoProof]
    ELSE LET c == payload[n].next
         IN  [ state     |-> IF c.removed THEN "removed" ELSE "published",
               version   |-> IF c.removed THEN 0 ELSE c.meta,
               lifecycle |-> IF c.removed THEN "none" ELSE c.lifecycle,
               proof     |-> ProofOf(n, final.events[n].sig) ]

PublicIsPage == public = JobPage(issue.confCount)

\* The part of the invariant about the queue and the issue row ...
ServicesInv == ServicesBuild /\ VersionsGrow /\ PendingIsLast /\ StreamsContinue

\* ... and the part about what the public reads.
SiteInv == ServicesInv /\ PublicIsPage /\ PublishedVersionIsPublic

-----------------------------------------------------------------------------
(* Facts about the queue.                                                  *)

\* The stream an envelope does not extend stays where its predecessor left it.
LEMMA OtherStream ==
    PrefixInv => \A i \in 1 .. Len(payload), h \in BOOLEAN :
        Handoff(i) # h => HeadOf(i, h) = IF i = 1 THEN ZeroHead ELSE HeadOf(i - 1, h)
<1> SUFFICES ASSUME PrefixInv, NEW i \in 1 .. Len(payload), NEW h \in BOOLEAN, Handoff(i) # h
             PROVE  HeadOf(i, h) = IF i = 1 THEN ZeroHead ELSE HeadOf(i - 1, h)
  OBVIOUS
<1> DEFINE job == payload[i]
<1>1. /\ Len(payload) \in Nat /\ QueueIsWellFormed /\ CreatedFirst
  BY DEF PrefixInv, TypeInv, TypeOK, QueueInv
<1>2. HeadOf(i, h) = IF h THEN job.expected.handoff ELSE job.expected.timeline
  <2>1. job.next = BuildChainJob(job.op, i, job.expected, job.next.lifecycle, job.next.removed,
                                 job.next.meta, job.version, job.detail).next
    BY <1>1 DEF QueueIsWellFormed, Prepares
  <2> HIDE DEF job
  <2>2. /\ job.op = "handoff_checkpointed" => job.next.timeline = job.expected.timeline
        /\ job.op # "handoff_checkpointed" => job.next.handoff = job.expected.handoff
    BY <2>1 DEF BuildChainJob
  <2> QED
    BY <2>2 DEF job, HeadOf, Handoff
<1>3. CASE i = 1
  BY <1>1, <1>2, <1>3 DEF CreatedFirst, NoAccount
<1>4. CASE i # 1
  <2>1. /\ job.expected.timeline = payload[i - 1].next.timeline
        /\ job.expected.handoff = payload[i - 1].next.handoff
    BY <1>1, <1>4 DEF QueueIsWellFormed
  <2> QED
    BY <1>2, <1>4, <2>1 DEF HeadOf
<1> QED
  BY <1>3, <1>4

\* The same in the state after a step.
LEMMA OtherStreamNext ==
    PrefixInv' => (\A i \in 1 .. Len(payload), h \in BOOLEAN :
        Handoff(i) # h => HeadOf(i, h) = IF i = 1 THEN ZeroHead ELSE HeadOf(i - 1, h))'
BY OtherStream, PTL

\* What the program and the envelope agree on about a job that no removal
\* precedes: it starts from the snapshot its predecessor leaves.
LEMMA JobFacts ==
    ASSUME PrefixInv, NEW i \in 1 .. Len(payload), NoRemovalBefore(i)
    PROVE  /\ payload[i] \in Envelopes /\ OperationSemantics(payload[i])
           /\ payload[i].next.count = i
           /\ payload[i].next.removed = (payload[i].op = "publication_removed")
           /\ payload[i].op = "issue_created" <=> i = 1
           /\ payload[i].expected = IF i = 1 THEN NoAccount ELSE payload[i - 1].next
<1>1. /\ payload \in Seq(Envelopes) /\ Len(payload) \in Nat /\ QueueIsWellFormed /\ CreatedFirst
  BY DEF PrefixInv, TypeInv, TypeOK, QueueInv
<1>2. payload[i] \in Envelopes /\ payload[i].next \in Snapshots /\ Prepares(i, payload[i])
  <2>1. payload[i] \in Envelopes
    BY <1>1
  <2> QED
    BY <1>1, <2>1 DEF Envelopes, QueueIsWellFormed
<1>3. i # 1 => payload[i].expected = payload[i - 1].next
  <2>1. ~RemovedBy(i - 1)
    BY DEF NoRemovalBefore, RemovedBy
  <2> QED
    BY <1>1, <2>1 DEF QueueIsWellFormed
<1>4. payload[i].next.count = i /\ OperationSemantics(payload[i])
      /\ payload[i].next.removed = (payload[i].op = "publication_removed")
  BY <1>2, PreparesFacts DEF Snapshots
<1> QED
  BY <1>1, <1>2, <1>3, <1>4 DEF CreatedFirst

\* The confirmed count is the count its last job leaves.
LEMMA JobCounts ==
    ASSUME FinalityInv, issue.confCount # 0
    PROVE  payload[issue.confCount].next.count = issue.confCount
<1> DEFINE n == issue.confCount
<1>1. /\ n \in Nat /\ final.acc.count \in Nat /\ Len(payload) \in Nat /\ tip.acc.count \in Nat
      /\ n <= final.acc.count /\ final.acc.count <= tip.acc.count
      /\ tip.acc.count <= Len(payload)
  BY Counts DEF FinalityInv, FollowsInv, DatabaseFollowsFinality
<1>2. n \in 1 .. Len(payload)
  BY <1>1
<1>3. payload[n] \in Envelopes /\ Prepares(n, payload[n])
  BY <1>2 DEF FinalityInv, PrefixInv, TypeInv, TypeOK, QueueInv, QueueIsWellFormed
<1> QED
  BY <1>1, <1>3, PreparesFacts

-----------------------------------------------------------------------------
(* The services.                                                           *)

\* A service that builds one of the envelopes ServicesBuild describes, on an
\* issue that waits for no version, keeps all of it.
LEMMA EnqueueServices ==
    ASSUME FinalityInv, PrefixInv', ServicesInv, NEW job, NEW changed \in Issues,
           Enqueue(job, changed), NextId <= MaxJobs,
           issue.publication # "commit_pending",
           changed.confCount = issue.confCount,
           NextId > 1 => job.op \in Changes,
           job.op = "lifecycle_changed" =>
               /\ job.next.lifecycle \in Lifecycles
               /\ job.next.lifecycle \in LifecycleTransitions[job.expected.lifecycle],
           job.op = "publication_removed" => job.next.meta = Tombstone,
           IF job.op \in {"issue_created", "metadata_version_committed"}
           THEN /\ changed.publication = "commit_pending"
                /\ changed.version = issue.version + 1
                /\ job.version = changed.version /\ job.next.meta = changed.version
                /\ job.next.meta = job.expected.meta + 1
           ELSE /\ changed.publication = issue.publication
                /\ changed.version = issue.version
                /\ job.next.meta <= issue.version
    PROVE  ServicesInv'
<1>0. PICK N \in Nat : N = Len(payload)
  BY DEF FinalityInv, PrefixInv, TypeInv, TypeOK
<1> DEFINE K == N + 1
<1>1. /\ payload \in Seq(Envelopes) /\ Len(payload) \in Nat /\ issue \in Issues
      /\ issue.version \in Nat /\ issue.confCount \in Nat /\ issue.confCount <= Len(payload)
      /\ PrefixInv /\ N = Len(payload)
  <2>1. /\ issue.confCount \in Nat /\ final.acc.count \in Nat /\ Len(payload) \in Nat
        /\ tip.acc.count \in Nat
        /\ issue.confCount <= final.acc.count /\ final.acc.count <= tip.acc.count
        /\ tip.acc.count <= Len(payload)
    BY Counts DEF FinalityInv, FollowsInv, DatabaseFollowsFinality
  <2>2. issue.confCount <= Len(payload)
    BY <2>1
  <2> QED
    BY <1>0, <2>1, <2>2 DEF FinalityInv, PrefixInv, TypeInv, TypeOK, Issues
<1>2. /\ Len(payload') = K /\ payload'[K] = job /\ NextId = K
      /\ \A k \in 1 .. Len(payload) : payload'[k] = payload[k]
  BY <1>1 DEF Enqueue, NextId
<1>3. /\ issue'.publication = changed.publication /\ issue'.version = changed.version
      /\ issue'.confCount = issue.confCount
  BY DEF Enqueue, Issues
<1>4. \A k \in 1 .. K : k = K \/ k \in 1 .. Len(payload)
  BY <1>1
<1>5. job \in Envelopes /\ job.next.meta \in Int
  <2>1. payload' \in Seq(Envelopes)
    BY DEF PrefixInv, TypeInv, TypeOK
  <2>2. job \in Envelopes
    BY <1>1, <1>2, <2>1
  <2> QED
    BY <2>2 DEF Envelopes, Snapshots
<1>6. ServicesBuild'
  <2>1. ASSUME NEW i \in 1 .. K
        PROVE  /\ i > 1 => payload'[i].op \in Changes
               /\ payload'[i].op \in {"issue_created", "metadata_version_committed"} =>
                      /\ payload'[i].version = payload'[i].next.meta
                      /\ payload'[i].next.meta = payload'[i].expected.meta + 1
               /\ payload'[i].op = "lifecycle_changed" =>
                      /\ payload'[i].next.lifecycle \in Lifecycles
                      /\ payload'[i].next.lifecycle
                             \in LifecycleTransitions[payload'[i].expected.lifecycle]
               /\ payload'[i].op = "publication_removed" => payload'[i].next.meta = Tombstone
    <3>1. CASE i = K
      BY <1>2, <3>1
    <3>2. CASE i # K
      <4>1. i \in 1 .. Len(payload) /\ payload'[i] = payload[i]
        BY <1>2, <1>4, <3>2
      <4> QED
        BY <4>1 DEF ServicesInv, ServicesBuild, Publishes
    <3> QED
      BY <3>1, <3>2
  <2> QED
    BY <1>2, <2>1 DEF ServicesBuild, Publishes
<1>7. VersionsGrow'
  <2>1. \A k \in 1 .. Len(payload) : payload[k].next.meta <= issue.version
                                     /\ payload[k].next.meta \in Int
    <3>1. \A k \in 1 .. Len(payload) : payload[k] \in Envelopes
      BY <1>1
    <3> QED
      BY <3>1 DEF ServicesInv, VersionsGrow, Envelopes, Snapshots
  <2>2. ASSUME NEW j \in 1 .. K
        PROVE  /\ payload'[j].next.meta <= changed.version
               /\ payload'[j].op \in {"issue_created", "metadata_version_committed"} =>
                     /\ payload'[j].next.meta > 0
                     /\ \A k \in 1 .. (j - 1) : payload'[k].next.meta < payload'[j].next.meta
    <3>1. CASE j = K
      <4>1. \A k \in 1 .. (j - 1) : payload'[k] = payload[k] /\ k \in 1 .. Len(payload)
        BY <1>1, <1>2, <3>1
      <4> QED
        BY <1>1, <1>2, <1>5, <2>1, <3>1, <4>1
    <3>2. CASE j # K
      <4>1. j \in 1 .. Len(payload) /\ payload'[j] = payload[j]
        BY <1>2, <1>4, <3>2
      <4>2. \A k \in 1 .. (j - 1) : payload'[k] = payload[k] /\ k \in 1 .. Len(payload)
        BY <1>1, <1>2, <4>1
      <4>3. payload[j].next.meta <= changed.version
        BY <1>1, <2>1, <4>1
      <4> QED
        BY <4>1, <4>2, <4>3 DEF ServicesInv, VersionsGrow, Publishes
    <3> QED
      BY <3>1, <3>2
  <2>3. changed.version <= K
    BY <1>1 DEF ServicesInv, VersionsGrow
  <2> QED
    BY <1>2, <1>3, <2>2, <2>3 DEF VersionsGrow, Publishes
<1>8. PendingIsLast'
  <2>1. issue'.publication = "commit_pending" =>
            /\ issue'.confCount < Len(payload') /\ Publishes(Len(payload))'
            /\ payload'[Len(payload')].version = issue'.version
    BY <1>1, <1>2, <1>3 DEF Publishes
  <2>2. ASSUME NEW i \in (issue.confCount + 1) .. K, Publishes(i)', ~RemovedBy(i)'
        PROVE  i = K /\ issue'.publication = "commit_pending"
    <3>1. CASE i = K
      BY <1>2, <1>3, <2>2, <3>1 DEF Publishes
    <3>2. CASE i # K
      <4>1. i \in (issue.confCount + 1) .. Len(payload) /\ i \in 1 .. Len(payload)
        BY <1>1, <3>2
      <4>2. \A k \in 1 .. i : payload'[k] = payload[k]
        BY <1>1, <1>2, <4>1
      <4>3. Publishes(i) /\ ~RemovedBy(i)
        BY <2>2, <4>1, <4>2 DEF Publishes, RemovedBy
      <4> QED
        BY <4>1, <4>3 DEF ServicesInv, PendingIsLast
    <3> QED
      BY <3>1, <3>2
  <2> QED
    BY <1>2, <1>3, <2>1, <2>2 DEF PendingIsLast
<1>9. StreamsContinue'
  <2>1. ASSUME NEW k \in 1 .. K, NEW h \in BOOLEAN
        PROVE  /\ (\A i \in 1 .. k : Handoff(i)' # h) => HeadOf(k, h)' = ZeroHead
               /\ \A i \in 1 .. k :
                     Handoff(i)' = h /\ (\A j \in (i + 1) .. k : Handoff(j)' # h) =>
                         HeadOf(k, h)' = HeadOf(i, h)'
    <3>1. \A i \in 1 .. Len(payload) : Handoff(i)' = Handoff(i) /\ HeadOf(i, h)' = HeadOf(i, h)
      BY <1>2 DEF Handoff, HeadOf
    <3>2. CASE k # K
      <4>1. k \in 1 .. Len(payload) /\ \A i \in 1 .. k : i \in 1 .. Len(payload)
        BY <1>1, <1>4, <3>2
      <4>2. \A i \in 1 .. k : \A j \in (i + 1) .. k : j \in 1 .. Len(payload)
        BY <4>1
      <4>3. /\ (\A i \in 1 .. k : Handoff(i) # h) => HeadOf(k, h) = ZeroHead
            /\ \A i \in 1 .. k :
                  Handoff(i) = h /\ (\A j \in (i + 1) .. k : Handoff(j) # h) =>
                      HeadOf(k, h) = HeadOf(i, h)
        BY <4>1 DEF ServicesInv, StreamsContinue
      <4> QED
        BY <3>1, <4>1, <4>2, <4>3
    <3>3. CASE k = K /\ Handoff(K)' = h
      <4>1. K \in 1 .. k /\ \A i \in 1 .. k : i # K => K \in (i + 1) .. k
        BY <1>1, <3>3
      <4> QED
        BY <3>3, <4>1
    <3>4. CASE k = K /\ Handoff(K)' # h
      <4>1. HeadOf(K, h)' = IF K = 1 THEN ZeroHead ELSE HeadOf(K - 1, h)'
        BY <1>1, <1>2, <3>4, OtherStreamNext
      <4>2. CASE K = 1
        <5>1. \A i \in 1 .. k : i = K
          BY <3>4, <4>2
        <5> QED
          BY <3>4, <4>1, <4>2, <5>1
      <4>3. CASE K # 1
        <5>1. Len(payload) \in 1 .. Len(payload) /\ K - 1 = Len(payload)
          BY <1>1, <4>3
        <5>2. HeadOf(K, h)' = HeadOf(Len(payload), h)
          BY <3>1, <4>1, <4>3, <5>1
        <5>3. /\ (\A i \in 1 .. Len(payload) : Handoff(i) # h) =>
                     HeadOf(Len(payload), h) = ZeroHead
              /\ \A i \in 1 .. Len(payload) :
                    Handoff(i) = h /\ (\A j \in (i + 1) .. Len(payload) : Handoff(j) # h) =>
                        HeadOf(Len(payload), h) = HeadOf(i, h)
          BY <5>1 DEF ServicesInv, StreamsContinue
        <5>4. \A i \in 1 .. k : Handoff(i)' = h => i \in 1 .. Len(payload)
          BY <1>4, <3>4
        <5>5. \A i \in 1 .. Len(payload) : /\ i \in 1 .. k
                                           /\ \A j \in (i + 1) .. Len(payload) :
                                                 j \in (i + 1) .. k /\ j \in 1 .. Len(payload)
          BY <1>1, <3>4
        <5> QED
          BY <3>1, <3>4, <5>2, <5>3, <5>4, <5>5
      <4> QED
        BY <4>2, <4>3
    <3> QED
      BY <3>2, <3>3, <3>4
  <2> QED
    BY <1>2, <2>1 DEF StreamsContinue
<1> QED
  BY <1>6, <1>7, <1>8, <1>9 DEF ServicesInv

\* Queueing a job, and opening the row of the next version for it, changes
\* nothing the public reads.
LEMMA EnqueueSite ==
    ASSUME FinalityInv, SiteInv, ServicesInv', NEW job, NEW changed \in Issues,
           Enqueue(job, changed), changed.confCount = issue.confCount,
           \/ versions' = versions
           \/ versions' = [versions EXCEPT ![issue.version + 1] = "commit_pending"]
    PROVE  SiteInv'
<1> DEFINE n == issue.confCount
<1>1. /\ payload \in Seq(Envelopes) /\ Len(payload) \in Nat /\ issue.version \in Nat
      /\ n \in Nat /\ n <= Len(payload)
      /\ PublicIsPage /\ PublishedVersionIsPublic /\ VersionsGrow
      /\ versions \in [JobIds -> {"absent", "commit_pending", "published",
                                  "superseded", "removed"}]
  <2>1. /\ n \in Nat /\ final.acc.count \in Nat /\ Len(payload) \in Nat
        /\ tip.acc.count \in Nat
        /\ n <= final.acc.count /\ final.acc.count <= tip.acc.count
        /\ tip.acc.count <= Len(payload)
    BY Counts DEF FinalityInv, FollowsInv, DatabaseFollowsFinality
  <2>2. n <= Len(payload)
    BY <2>1
  <2> QED
    BY <2>1, <2>2 DEF FinalityInv, PrefixInv, TypeInv, TypeOK, Issues, SiteInv, ServicesInv
<1>2. /\ issue'.confCount = n /\ public' = public /\ final' = final
      /\ n # 0 => payload'[n] = payload[n]
  BY <1>1 DEF Enqueue, chainVars, Issues
<1>3. PublicIsPage'
  BY <1>1, <1>2 DEF PublicIsPage, JobPage, ProofOf
<1>4. PublishedVersionIsPublic'
  <2>1. CASE versions' = versions
    BY <1>1, <1>2, <2>1 DEF PublishedVersionIsPublic
  <2>2. CASE versions' = [versions EXCEPT ![issue.version + 1] = "commit_pending"]
    <3>1. public.state = "published" => public.version # issue.version + 1
      <4>1. public.state = "published" => n \in 1 .. Len(payload)
                                          /\ public.version = payload[n].next.meta
        BY <1>1 DEF PublicIsPage, JobPage
      <4>2. n \in 1 .. Len(payload) => payload[n].next.meta <= issue.version
        BY <1>1 DEF VersionsGrow
      <4>3. n \in 1 .. Len(payload) => payload[n].next.meta \in Int
        <5>1. n \in 1 .. Len(payload) => payload[n] \in Envelopes
          BY <1>1
        <5> QED
          BY <5>1 DEF Envelopes, Snapshots
      <4> QED
        BY <1>1, <4>1, <4>2, <4>3
    <3>2. \A v \in JobIds : v # issue.version + 1 => versions'[v] = versions[v]
      BY <1>1, <2>2
    <3>3. \A v \in JobIds : v = issue.version + 1 => versions'[v] # "published"
      BY <1>1, <2>2
    <3>4. public.state = "published" =>
              \A v \in JobIds : versions'[v] = "published" <=> versions[v] = "published"
      BY <1>1, <3>1, <3>2, <3>3 DEF PublishedVersionIsPublic
    <3> QED
      BY <1>1, <1>2, <3>4 DEF PublishedVersionIsPublic
  <2> QED
    BY <2>1, <2>2
<1> QED
  BY <1>3, <1>4 DEF SiteInv

\* The services and the switch.
LEMMA OperatorsSite ==
    ASSUME FinalityInv, PrefixInv', SiteInv, Operators
    PROVE  SiteInv'
<1>1. /\ issue \in Issues /\ issue.version \in Nat /\ issue.version + 1 \in Nat
      /\ NextId = Len(payload) + 1 /\ Len(payload) \in Nat
      /\ ServicesInv /\ VersionsGrow /\ TailInIssue
  BY DEF FinalityInv, PrefixInv, TypeInv, TypeOK, Issues, SiteInv, ServicesInv, NextId, QueueInv
<1>2. CASE Approve
  <2> DEFINE changed == [issue EXCEPT !.publication = "commit_pending", !.lifecycle = "open",
                                      !.version = 1]
             job     == BuildChainJob("issue_created", NextId, NoAccount, "open", FALSE, 1, 1,
                                      "approved")
  <2>1. issue.publication = "none" /\ Len(payload) = 0 /\ issue.version = 0
    BY <1>1, <1>2 DEF Approve, TailInIssue, VersionsGrow
  <2>2. /\ changed \in Issues /\ changed.publication = "commit_pending" /\ changed.version = 1
        /\ changed.confCount = issue.confCount
    BY <1>1 DEF Issues, LifecycleStates
  <2>3. /\ job.op = "issue_created" /\ job.version = 1 /\ job.next.meta = 1
        /\ job.expected.meta = 0
    BY DEF BuildChainJob, NoAccount, ZeroHash
  <2>4. /\ NextId <= MaxJobs /\ Enqueue(job, changed)
        /\ versions' = [versions EXCEPT ![1] = "commit_pending"]
    BY <1>2, Zenon DEF Approve
  <2> HIDE DEF changed, job
  <2>5. ServicesInv'
    BY <1>1, <2>1, <2>2, <2>3, <2>4, EnqueueServices
  <2> QED
    BY <2>1, <2>2, <2>4, <2>5, EnqueueSite
<1>3. CASE CorrectPublishedIssue
  <2> DEFINE v       == issue.version + 1
             changed == [issue EXCEPT !.publication = "commit_pending", !.version = v]
             job     == CorrectionJob(v)
  <2>1. /\ changed \in Issues /\ changed.publication = "commit_pending" /\ changed.version = v
        /\ changed.confCount = issue.confCount
    BY <1>1 DEF Issues
  <2>2. /\ job.op = "metadata_version_committed" /\ job.version = v /\ job.next.meta = v
        /\ job.expected.meta = issue.version
    BY DEF CorrectionJob, BuildChainJob, ProjectedSnapshot
  <2>3. /\ NextId <= MaxJobs /\ Enqueue(job, changed) /\ Accepting
        /\ "metadata_version_committed" \in Changes
        /\ versions' = [versions EXCEPT ![v] = "commit_pending"]
    BY <1>3, Zenon DEF CorrectPublishedIssue, MayCorrect
  <2> HIDE DEF changed, job
  <2>4. ServicesInv'
    BY <1>1, <2>1, <2>2, <2>3, EnqueueServices DEF Accepting
  <2> QED
    BY <2>1, <2>3, <2>4, EnqueueSite
<1>4. ASSUME NEW to \in Lifecycles, ChangeIssueLifecycle(to)
      PROVE  SiteInv'
  <2> DEFINE changed == [issue EXCEPT !.lifecycle = to]
             job     == BuildChainJob("lifecycle_changed", NextId, ProjectedSnapshot,
                                      to, FALSE, issue.version, issue.version, to)
  <2>1. /\ changed \in Issues /\ changed.publication = issue.publication
        /\ changed.version = issue.version /\ changed.confCount = issue.confCount
    BY <1>1, ConstantsAssumption DEF Issues
  <2>2. /\ job.op = "lifecycle_changed" /\ job.next.meta = issue.version
        /\ job.next.lifecycle = to /\ job.expected.lifecycle = issue.lifecycle
    BY DEF BuildChainJob, ProjectedSnapshot
  <2>3. /\ NextId <= MaxJobs /\ Enqueue(job, changed) /\ Accepting
        /\ "lifecycle_changed" \in Changes /\ to \in LifecycleTransitions[issue.lifecycle]
        /\ versions' = versions
    BY <1>4, Zenon DEF ChangeIssueLifecycle
  <2> HIDE DEF changed, job
  <2>4. ServicesInv'
    BY <1>1, <2>1, <2>2, <2>3, EnqueueServices DEF Accepting
  <2> QED
    BY <2>1, <2>3, <2>4, EnqueueSite
<1>5. ASSUME NEW type \in HandoffStates \cup {"action_recorded"}, RecordIssueHandoff(type)
      PROVE  SiteInv'
  <2> DEFINE changed == [issue EXCEPT !.handoffState =
                                         IF type = "action_recorded" THEN @ ELSE type]
             job     == BuildChainJob("handoff_checkpointed", NextId, ProjectedSnapshot,
                            issue.lifecycle, FALSE, issue.version, issue.version, type)
  <2>1. /\ changed \in Issues /\ changed.publication = issue.publication
        /\ changed.version = issue.version /\ changed.confCount = issue.confCount
    BY <1>1 DEF Issues
  <2>2. job.op = "handoff_checkpointed" /\ job.next.meta = issue.version
    BY DEF BuildChainJob
  <2>3. /\ NextId <= MaxJobs /\ Enqueue(job, changed) /\ Accepting
        /\ "handoff_checkpointed" \in Changes /\ versions' = versions
    BY <1>5, Zenon DEF RecordIssueHandoff, MayRecordHandoff
  <2> HIDE DEF changed, job
  <2>4. ServicesInv'
    BY <1>1, <2>1, <2>2, <2>3, EnqueueServices DEF Accepting
  <2> QED
    BY <2>1, <2>3, <2>4, EnqueueSite
<1>6. CASE RemovePublishedIssue
  <2> DEFINE job == BuildChainJob("publication_removed", NextId, ProjectedSnapshot,
                        issue.lifecycle, TRUE, Tombstone, issue.version, "removed")
  <2>1. job.op = "publication_removed" /\ job.next.meta = Tombstone
    BY DEF BuildChainJob
  <2>2. /\ NextId <= MaxJobs /\ Enqueue(job, issue) /\ Accepting
        /\ "publication_removed" \in Changes /\ versions' = versions
    BY <1>6, Zenon DEF RemovePublishedIssue
  <2>3. Tombstone <= issue.version
    BY <1>1 DEF Tombstone
  <2> HIDE DEF job
  <2>4. ServicesInv'
    BY <1>1, <2>1, <2>2, <2>3, EnqueueServices DEF Accepting
  <2> QED
    BY <1>1, <2>2, <2>4, EnqueueSite
<1>7. CASE SetPublicationEnabled
  <2>1. UNCHANGED <<payload, issue, versions, public, final>>
    BY <1>7 DEF SetPublicationEnabled, dbVars, chainVars
  <2> QED
    BY <2>1 DEF SiteInv, ServicesInv, ServicesBuild, VersionsGrow, PendingIsLast, StreamsContinue,
       PublicIsPage, PublishedVersionIsPublic, Publishes, RemovedBy, Handoff, HeadOf, JobPage,
       ProofOf
<1> QED
  BY <1>2, <1>3, <1>4, <1>5, <1>6, <1>7 DEF Operators

-----------------------------------------------------------------------------
(* Confirmations.                                                          *)

\* The job a confirmation is about: it is final, no removal precedes it, and
\* its predecessor is the last job confirmed before, or it is that job.
LEMMA ConfirmedJob ==
    ASSUME FinalityInv, NEW p \in Processes, FinalizeConfirmed(p)
    PROVE  LET i == proc[p].job
           IN  /\ i \in 1 .. Len(payload) /\ i \in JobIds /\ i \in Nat
               /\ i <= final.acc.count /\ final.acc.count <= issue.confCount + 1
               /\ issue.confCount \in Nat /\ final.acc.count \in Nat
               /\ issue.confCount = i - 1 \/ issue.confCount = i
               /\ NoRemovalBefore(i)
<1> DEFINE i == proc[p].job
<1>1. /\ i \in JobIds /\ i \in Nat /\ i # 0 /\ i <= final.acc.count
      /\ issue.confCount + 1 = i \/ issue.confCount = i
  BY ConfirmableFacts DEF JobIds
<1>2. /\ issue.confCount \in Nat /\ final.acc.count \in Nat /\ tip.acc.count \in Nat
      /\ Len(payload) \in Nat /\ final.acc.count <= tip.acc.count
      /\ tip.acc.count <= Len(payload) /\ tip.acc.count <= issue.confCount + 1
  BY Counts DEF FinalityInv, FollowsInv, DatabaseFollowsFinality
<1>3. NoRemovalBefore(final.acc.count)
  BY DEF FinalityInv, PrefixInv, ForkInv
<1>4. NoRemovalBefore(i)
  BY <1>1, <1>2, <1>3 DEF NoRemovalBefore
<1> QED
  BY <1>1, <1>2, <1>4

\* A version is confirmed only while the issue waits for it: then its job is
\* the last of the queue, and the columns that projectPublishedVersion copies
\* are still those the envelope committed to.  A repair that confirms an older
\* version again finds the issue waiting for another one, or for none.
LEMMA PublishedJob ==
    ASSUME FinalityInv, SiteInv, NEW p \in Processes, FinalizeConfirmed(p),
           Publishes(proc[p].job)
    PROVE  LET i == proc[p].job
           IN  /\ i = Len(payload) /\ issue.confCount = i - 1
               /\ payload[i].version = issue.version
               /\ payload[i].next.meta = issue.version
               /\ payload[i].next.lifecycle = issue.lifecycle
               /\ payload[i].version \in JobIds
<1> DEFINE i == proc[p].job
           N == Len(payload)
<1>1. /\ i \in 1 .. N /\ i \in Nat /\ N \in Nat /\ issue.confCount \in Nat
      /\ issue.confCount = i - 1 \/ issue.confCount = i
      /\ NoRemovalBefore(i) /\ N <= MaxJobs
  BY ConfirmedJob DEF FinalityInv, PrefixInv, TypeInv, TypeOK
<1>2. issue.publication = "commit_pending" /\ issue.version = payload[i].version
  BY DEF FinalizeConfirmed, Projectable
<1>3. /\ issue.confCount < N /\ Publishes(N) /\ payload[N].version = issue.version
      /\ ServicesBuild /\ VersionsGrow
  BY <1>2 DEF SiteInv, ServicesInv, PendingIsLast
<1>4. /\ payload[i].version = payload[i].next.meta /\ payload[N].version = payload[N].next.meta
      /\ payload[i].next.meta > 0 /\ N \in 1 .. N
  BY <1>1, <1>3 DEF ServicesBuild, VersionsGrow
<1>5. payload[i].next.meta \in Int /\ payload[i].version \in Nat
  <2>1. payload[i] \in Envelopes
    BY <1>1 DEF FinalityInv, PrefixInv, TypeInv, TypeOK
  <2> QED
    BY <2>1 DEF Envelopes, Snapshots
<1>6. i = N
  <2>1. ASSUME i # N PROVE FALSE
    <3>1. i \in 1 .. (N - 1)
      BY <1>1, <2>1
    <3>2. payload[i].next.meta < payload[N].next.meta
      BY <1>3, <1>4, <3>1 DEF VersionsGrow
    <3> QED
      BY <1>2, <1>3, <1>4, <1>5, <3>2
  <2> QED
    BY <2>1
<1>7. payload[i].next.lifecycle = issue.lifecycle
  <2>1. ~RemovedBy(N)
    BY <1>1, <1>6 DEF RemovedBy, NoRemovalBefore, Publishes
  <2> QED
    BY <1>1, <1>6, <2>1 DEF FinalityInv, PrefixInv, QueueInv, TailInIssue
<1>8. payload[i].version \in JobIds
  <2>1. payload[i].version <= N /\ payload[i].version > 0
    BY <1>2, <1>3, <1>4 DEF VersionsGrow
  <2> QED
    BY <1>1, <1>5, <2>1, ConstantTypes DEF JobIds
<1> QED
  BY <1>1, <1>2, <1>3, <1>4, <1>6, <1>7, <1>8

\* The proof row after a confirmation, in the words of the page.
LEMMA ConfirmedProof ==
    ASSUME FinalityInv, NEW p \in Processes, FinalizeConfirmed(p)
    PROVE  LET i == proc[p].job
           IN  ProofOf(i, proc[p].sig) = ProofOf(i, final.events[i].sig)
BY ConfirmableFacts

\* projectPublishedVersion, projectLifecycle, projectHandoff and
\* projectRemoval each turn the page of the job before, or of the job itself,
\* into the page of the job: what they do not write, the job did not change.
LEMMA ConfirmedPage ==
    ASSUME FinalityInv, SiteInv, NEW p \in Processes, FinalizeConfirmed(p)
    PROVE  PublicAfter(proc[p].job, proc[p].sig) = JobPage(proc[p].job)
<1> DEFINE i == proc[p].job
           n == issue.confCount
           c == payload[i].next
<1>1. /\ i \in 1 .. Len(payload) /\ i \in Nat /\ i # 0 /\ n \in Nat
      /\ n = i - 1 \/ n = i
      /\ NoRemovalBefore(i) /\ TypeInv /\ PrefixInv
      /\ public = JobPage(n)
  BY ConfirmedJob DEF FinalityInv, PrefixInv, SiteInv, PublicIsPage
<1>2. /\ payload[i] \in Envelopes /\ OperationSemantics(payload[i])
      /\ c.removed = (payload[i].op = "publication_removed")
      /\ payload[i].op = "issue_created" <=> i = 1
      /\ payload[i].expected = IF i = 1 THEN NoAccount ELSE payload[i - 1].next
  BY <1>1, JobFacts
<1>3. payload[i].op \in Operations
  BY <1>2 DEF Envelopes
<1>4. JobPage(i) =
        [ state     |-> IF c.removed THEN "removed" ELSE "published",
          version   |-> IF c.removed THEN 0 ELSE c.meta,
          lifecycle |-> IF c.removed THEN "none" ELSE c.lifecycle,
          proof     |-> ProofOf(i, proc[p].sig) ]
  BY <1>1, ConfirmedProof DEF JobPage
<1>5. CASE Publishes(i)
  <2>1. /\ payload[i].version = c.meta /\ c.lifecycle = issue.lifecycle /\ ~c.removed
    BY <1>2, <1>5, PublishedJob DEF Publishes
  <2> QED
    BY <1>4, <1>5, <2>1 DEF PublicAfter
<1>6. CASE ~Publishes(i)
  <2>1. i # 1 /\ payload[i].op \in {"lifecycle_changed", "handoff_checkpointed",
                                    "publication_removed"}
    BY <1>2, <1>3, <1>6 DEF Publishes, Operations
  <2>2. i - 1 \in 1 .. Len(payload) /\ NoRemovalBefore(i - 1) /\ i - 1 \in Nat
    BY <1>1, <2>1 DEF NoRemovalBefore
  <2>3. ~payload[i - 1].next.removed
    <3>1. payload[i - 1].op # "publication_removed"
      BY <1>1, <2>1 DEF NoRemovalBefore
    <3> QED
      BY <1>1, <2>2, <3>1, JobFacts
  <2>4. public.state # "absent"
    BY <1>1, <2>1, <2>2 DEF JobPage
  <2>5. CASE payload[i].op = "publication_removed"
    BY <1>2, <1>4, <1>6, <2>4, <2>5 DEF PublicAfter
  <2>6. CASE payload[i].op # "publication_removed"
    <3>1. /\ ~c.removed /\ c.meta = payload[i - 1].next.meta
          /\ payload[i].op = "handoff_checkpointed" =>
                 c.lifecycle = payload[i - 1].next.lifecycle
      BY <1>2, <2>1, <2>6 DEF OperationSemantics
    <3>2. \E proof : public =
            [ state |-> "published", version |-> c.meta,
              lifecycle |-> IF n = i THEN c.lifecycle ELSE payload[i - 1].next.lifecycle,
              proof |-> proof ]
      <4>1. CASE n = i
        BY <1>1, <1>4, <3>1, <4>1
      <4>2. CASE n = i - 1
        <5>1. n # 0 /\ n # i
          BY <1>1, <2>1, <4>2
        <5> QED
          BY <1>1, <2>3, <3>1, <4>2, <5>1 DEF JobPage
      <4> QED
        BY <1>1, <4>1, <4>2
    <3>3. JobPage(i) = [ state |-> "published", version |-> c.meta,
                         lifecycle |-> c.lifecycle, proof |-> ProofOf(i, proc[p].sig) ]
      BY <1>4, <3>1
    <3>4. CASE payload[i].op = "lifecycle_changed"
      <4>1. payload[i].detail = c.lifecycle
        BY <1>1, <3>4 DEF TypeInv, LifecycleDetails
      <4>2. PublicAfter(i, proc[p].sig) =
              [ public EXCEPT !.lifecycle = c.lifecycle, !.proof = ProofOf(i, proc[p].sig) ]
        BY <1>6, <2>4, <3>2, <3>4, <4>1 DEF PublicAfter, ProjectedLifecycle
      <4>3. PICK lifecycle, proof :
              public = [ state |-> "published", version |-> c.meta,
                         lifecycle |-> lifecycle, proof |-> proof ]
        BY <3>2
      <4>4. PublicAfter(i, proc[p].sig) =
              [ state |-> "published", version |-> c.meta, lifecycle |-> c.lifecycle,
                proof |-> ProofOf(i, proc[p].sig) ]
        BY <4>2, <4>3
      <4> QED
        BY <3>3, <4>4
    <3>5. CASE payload[i].op = "handoff_checkpointed"
      <4>1. PublicAfter(i, proc[p].sig) = [ public EXCEPT !.proof = ProofOf(i, proc[p].sig) ]
        BY <1>6, <2>4, <3>5 DEF PublicAfter
      <4> QED
        BY <3>1, <3>2, <3>3, <3>5, <4>1
    <3> QED
      BY <2>1, <2>6, <3>4, <3>5
  <2> QED
    BY <2>5, <2>6
<1> QED
  BY <1>5, <1>6

\* A confirmation shows the page of its job, publishes the version it shows
\* and no other, and lets the issue wait no longer.
LEMMA ConfirmSite ==
    ASSUME FinalityInv, SiteInv, NEW p \in Processes, FinalizeConfirmed(p)
    PROVE  SiteInv'
<1> DEFINE i == proc[p].job
           n == issue.confCount
<1>1. /\ i \in 1 .. Len(payload) /\ i \in JobIds /\ i \in Nat /\ i # 0 /\ n \in Nat
      /\ n = i - 1 \/ n = i
      /\ NoRemovalBefore(i) /\ Len(payload) \in Nat /\ issue \in Issues
      /\ versions \in [JobIds -> {"absent", "commit_pending", "published",
                                  "superseded", "removed"}]
  BY ConfirmedJob DEF FinalityInv, PrefixInv, TypeInv, TypeOK
<1>2. /\ payload' = payload /\ final' = final /\ issue' = IssueAfter(i)
      /\ versions' = VersionsAfter(i) /\ public' = PublicAfter(i, proc[p].sig)
  BY DEF FinalizeConfirmed, chainVars
<1>3. issue'.confCount = i
  BY ConfirmedColumns
<1>4. /\ issue'.version = issue.version
      /\ issue'.publication = IF Publishes(i) THEN "published"
                              ELSE IF payload[i].op = "publication_removed" THEN "removed"
                              ELSE issue.publication
  BY <1>1, <1>2 DEF IssueAfter, Issues
<1>5. public' = JobPage(i)
  BY <1>2, ConfirmedPage
<1>6. PublicIsPage'
  BY <1>2, <1>3, <1>5 DEF PublicIsPage, JobPage, ProofOf
<1>7. ServicesBuild' /\ VersionsGrow' /\ StreamsContinue'
  BY <1>2, <1>4 DEF SiteInv, ServicesInv, ServicesBuild, VersionsGrow, StreamsContinue,
     Publishes, Handoff, HeadOf
<1>8. PendingIsLast'
  <2>1. PendingIsLast
    BY DEF SiteInv, ServicesInv
  <2>2. CASE Publishes(i)
    <3>1. i = Len(payload)
      BY <2>2, PublishedJob
    <3>2. issue'.publication # "commit_pending" /\ (i + 1) .. Len(payload) = {}
      BY <1>1, <1>4, <2>2, <3>1
    <3> QED
      BY <1>2, <1>3, <3>2 DEF PendingIsLast
  <2>3. CASE ~Publishes(i) /\ payload[i].op = "publication_removed"
    <3>1. \A k \in (i + 1) .. Len(payload) : RemovedBy(k)
      BY <1>1, <2>3 DEF RemovedBy
    <3>2. issue'.publication = "removed"
      BY <1>4, <2>3
    <3> QED
      BY <1>2, <1>3, <3>1, <3>2 DEF PendingIsLast, RemovedBy
  <2>4. CASE ~Publishes(i) /\ payload[i].op # "publication_removed"
    <3>1. issue'.publication = issue.publication
      BY <1>4, <2>4
    <3>2. issue.publication = "commit_pending" => i < Len(payload)
      BY <1>1, <2>1, <2>4 DEF PendingIsLast
    <3>3. \A k \in (i + 1) .. Len(payload) : k \in (n + 1) .. Len(payload)
      BY <1>1
    <3> QED
      BY <1>2, <1>3, <1>4, <2>1, <3>1, <3>2, <3>3 DEF PendingIsLast, Publishes, RemovedBy
  <2> QED
    BY <2>2, <2>3, <2>4
<1>9. PublishedVersionIsPublic'
  <2>1. CASE Publishes(i)
    <3>1. payload[i].version \in JobIds /\ payload[i].next.meta = payload[i].version
      BY <2>1, PublishedJob
    <3>2. public'.version = payload[i].version
      BY <1>2, <2>1 DEF PublicAfter
    <3>3. payload[i].op # "publication_removed"
      BY <2>1 DEF Publishes
    <3>4. \A v \in JobIds : versions'[v] = "published" <=> v = payload[i].version
      BY <1>2, <2>1, <3>1, <3>3 DEF VersionsAfter
    <3> QED
      BY <3>1, <3>2, <3>4 DEF PublishedVersionIsPublic
  <2>2. CASE ~Publishes(i) /\ payload[i].op = "publication_removed"
    <3>1. payload[i].next.removed
      BY <1>1, <2>2, JobFacts DEF FinalityInv
    <3>2. public'.state = "removed"
      BY <1>1, <1>5, <3>1 DEF JobPage
    <3> QED
      BY <3>2 DEF PublishedVersionIsPublic
  <2>3. CASE ~Publishes(i) /\ payload[i].op # "publication_removed"
    <3>1. \A v \in JobIds : versions'[v] = versions[v]
      BY <1>2, <2>3 DEF VersionsAfter
    <3>2. public'.state = public.state /\ public'.version = public.version
      <4>1. \E lifecycle, proof :
              public' \in {public, [public EXCEPT !.proof = proof],
                           [public EXCEPT !.lifecycle = lifecycle, !.proof = proof]}
        BY <1>2, <2>3 DEF PublicAfter
      <4>2. public \in Publics
        BY DEF FinalityInv, PrefixInv, TypeInv, TypeOK
      <4> QED
        BY <4>1, <4>2 DEF Publics
    <3> QED
      BY <3>1, <3>2 DEF SiteInv, PublishedVersionIsPublic
  <2> QED
    BY <2>1, <2>2, <2>3
<1> QED
  BY <1>6, <1>7, <1>8, <1>9 DEF SiteInv, ServicesInv

-----------------------------------------------------------------------------
(* Everything else.                                                        *)

\* Only services and confirmations touch what the site depends on, and only
\* FinalizeBlock the finalised chain.
LEMMA OtherSteps ==
    ASSUME TypeInv, [Next]_vars, ~Operators, \A p \in Processes : ~FinalizeConfirmed(p)
    PROVE  /\ UNCHANGED <<payload, versions, public>>
           /\ issue'.publication = issue.publication /\ issue'.version = issue.version
           /\ issue'.confCount = issue.confCount
           /\ final' = final \/ FinalizeBlock
<1>1. issue \in Issues
  BY DEF TypeInv, TypeOK
<1>2. /\ UNCHANGED <<payload, versions, public>>
      /\ issue' = issue \/ \E i : issue' = Blocked(i)
      /\ final' = final \/ FinalizeBlock
  <2>1. ASSUME NEW p \in Processes, Step(p) \/ Crash(p)
        PROVE  /\ UNCHANGED <<payload, versions, public, final>>
               /\ issue' = issue \/ \E i : issue' = Blocked(i)
    <3>1. ~FinalizeConfirmed(p)
      OBVIOUS
    <3> QED
      BY <2>1, <3>1 DEF Step, Inspect, InspectFails, Submit, SubmitFails, SubmitAnswerLost,
         SubmitRejected, MarkSubmitted, MarkSubmittedFails, Confirm, ConfirmFails,
         FinalizeDeferred, FinalizeThrows, RecordFailure, RecordSubmittedUnknown,
         RecordPostSubmitConflict, RecordProjectionDeferred, StateLost, Crash,
         dbVars, chainVars
  <2>2. CASE \/ \E w \in Workers, i \in JobIds : Claim(w, i)
             \/ \E i \in JobIds : LeaseExpires(i)
             \/ \E r \in Reconcilers : Reconcile(r)
             \/ UNCHANGED vars
    BY <2>2 DEF Claim, LeaseExpires, Reconcile, ReconcileRead, ReconcileObserve,
       ReconcileReport, ReconcileLease, ReconcileBusy, vars, dbVars, chainVars
  <2>3. CASE Cluster
    BY <2>3 DEF Cluster, Land, Expire, FinalizeBlock, Rollback, dbVars
  <2> QED
    BY <2>1, <2>2, <2>3 DEF Next
<1> QED
  BY <1>1, <1>2 DEF Blocked, Issues

\* A finalised event stays where it is.
LEMMA FinalStays ==
    ASSUME FinalityInv, FinalizeBlock
    PROVE  /\ final' = tip
           /\ \A k \in 1 .. final.acc.count : final'.events[k] = final.events[k]
BY DEF FinalityInv, FollowsInv, TipExtendsFinal, FinalizeBlock

\* Those steps leave the site alone: blocks that become final lie behind the
\* commitment it shows.
LEMMA OtherSite ==
    ASSUME FinalityInv, SiteInv, [Next]_vars, ~Operators,
           \A p \in Processes : ~FinalizeConfirmed(p)
    PROVE  SiteInv'
<1> DEFINE n == issue.confCount
<1>1. /\ UNCHANGED <<payload, versions, public>>
      /\ issue'.publication = issue.publication /\ issue'.version = issue.version
      /\ issue'.confCount = n
      /\ final' = final \/ FinalizeBlock
  BY OtherSteps DEF FinalityInv, PrefixInv
<1>2. ServicesInv' /\ PublishedVersionIsPublic'
  <2>1. /\ payload' = payload /\ versions' = versions /\ public' = public
        /\ issue'.publication = issue.publication /\ issue'.version = issue.version
        /\ issue'.confCount = issue.confCount
    BY <1>1
  <2>2. ServicesBuild' /\ VersionsGrow'
    BY <2>1 DEF SiteInv, ServicesInv, ServicesBuild, VersionsGrow, Publishes
  <2>3. PendingIsLast'
    BY <2>1 DEF SiteInv, ServicesInv, PendingIsLast, Publishes, RemovedBy
  <2>4. StreamsContinue'
    BY <2>1 DEF SiteInv, ServicesInv, StreamsContinue, Handoff, HeadOf
  <2>5. PublishedVersionIsPublic'
    BY <2>1 DEF SiteInv, PublishedVersionIsPublic
  <2> QED
    BY <2>2, <2>3, <2>4, <2>5 DEF ServicesInv
<1>3. n # 0 => final'.events[n] = final.events[n]
  <2>1. n \in Nat /\ final.acc.count \in Nat /\ n <= final.acc.count
    BY Counts DEF FinalityInv, FollowsInv, DatabaseFollowsFinality
  <2>2. n # 0 => n \in 1 .. final.acc.count
    BY <2>1
  <2> QED
    BY <1>1, <2>2, FinalStays
<1>4. PublicIsPage'
  BY <1>1, <1>3 DEF SiteInv, PublicIsPage, JobPage, ProofOf
<1> QED
  BY <1>2, <1>4 DEF SiteInv

\* Nothing is queued and nothing is public.
LEMMA InitSite == Init => SiteInv
<1> SUFFICES ASSUME Init PROVE SiteInv
  OBVIOUS
<1>1. /\ payload = << >> /\ Len(payload) = 0 /\ issue.version = 0 /\ issue.confCount = 0
      /\ issue.publication = "none"
      /\ public = [state |-> "absent", version |-> 0, lifecycle |-> "none", proof |-> NoProof]
  BY DEF Init
<1>2. ServicesInv
  BY <1>1 DEF ServicesInv, ServicesBuild, VersionsGrow, PendingIsLast, StreamsContinue
<1>3. PublicIsPage /\ PublishedVersionIsPublic
  BY <1>1 DEF PublicIsPage, PublishedVersionIsPublic, JobPage
<1> QED
  BY <1>2, <1>3 DEF SiteInv

\* Every step keeps the invariant.
LEMMA SiteStep == FinalityInv /\ PrefixInv' /\ SiteInv /\ [Next]_vars => SiteInv'
<1> SUFFICES ASSUME FinalityInv, PrefixInv', SiteInv, [Next]_vars PROVE SiteInv'
  OBVIOUS
<1>1. CASE Operators
  BY <1>1, OperatorsSite
<1>2. CASE \E p \in Processes : FinalizeConfirmed(p)
  BY <1>2, ConfirmSite
<1>3. CASE ~Operators /\ \A p \in Processes : ~FinalizeConfirmed(p)
  BY <1>3, OtherSite
<1> QED
  BY <1>1, <1>2, <1>3

\* The inductive invariant holds in every reachable state.
LEMMA SiteInvariance == Spec => []SiteInv
<1> QED
  BY InitSite, SiteStep, PrefixInvariance, FinalityInvariance, PTL DEF Spec

\* Whatever is pending, repaired or rolled back, the public site shows the
\* latest confirmed commitment, in version, lifecycle, removal and proof, and
\* the version it shows is the one issue_versions calls published.
THEOREM SiteFollows == Spec => []SiteFollowsDatabase
<1>1. FinalityInv /\ SiteInv => SiteFollowsDatabase
  <2> SUFFICES ASSUME FinalityInv, SiteInv PROVE SiteFollowsDatabase
    OBVIOUS
  <2> DEFINE n == issue.confCount
  <2>1. public = JobPage(n) /\ PublishedVersionIsPublic
    BY DEF SiteInv, PublicIsPage
  <2>2. CASE n = 0
    BY <2>1, <2>2 DEF JobPage, SiteFollowsDatabase, PublicShowsCommitted
  <2>3. CASE n # 0
    <3>1. payload[n].next.count = n
      BY <2>3, JobCounts
    <3> QED
      BY <2>1, <2>3, <3>1 DEF JobPage, ProofOf, SiteFollowsDatabase, PublicShowsCommitted
  <2> QED
    BY <2>2, <2>3
<1> QED
  BY <1>1, FinalityInvariance, SiteInvariance, PTL

-----------------------------------------------------------------------------
(* The refinement: the finalised chain as CommittedHistory's ledger.       *)

\* What an entry of the ledger holds.
Entries == [ op : Operations \cup {"none"}, lifecycle : LifecycleStates, removed : BOOLEAN,
             meta : Int, head : Heads, sig : AnySig ]

\* The finalised commitments are a sequence as long as the account counts.
LEMMA LedgerType ==
    FinalityInv => Ledger \in Seq(Entries) /\ Len(Ledger) = final.acc.count
<1> SUFFICES ASSUME FinalityInv
             PROVE  Ledger \in Seq(Entries) /\ Len(Ledger) = final.acc.count
  OBVIOUS
<1> DEFINE m == final.acc.count
<1>1. /\ m \in Nat /\ final.events \in [JobIds -> Events] /\ 1 .. m \subseteq JobIds
  <2>1. /\ m \in Nat /\ tip.acc.count \in Nat /\ Len(payload) \in Nat
        /\ m <= tip.acc.count /\ tip.acc.count <= Len(payload) /\ Len(payload) <= MaxJobs
    BY Counts DEF FinalityInv, FollowsInv, DatabaseFollowsFinality
  <2>2. 1 .. m \subseteq JobIds
    BY <2>1, ConstantTypes DEF JobIds
  <2> QED
    BY <2>1, <2>2 DEF FinalityInv, PrefixInv, TypeInv, TypeOK, Chains
<1>2. Ledger \in [1 .. m -> Entries]
  BY <1>1 DEF Ledger, Entries, Events
<1>3. Ledger \in Seq(Entries)
  BY <1>1, <1>2, SeqDef
<1> QED
  BY <1>1, <1>2, <1>3, LenProperties

\* The same in the state after a step.
LEMMA LedgerTypeNext ==
    FinalityInv' => (Ledger \in Seq(Entries) /\ Len(Ledger) = final.acc.count)'
BY LedgerType, PTL

\* Entry i is what job i committed to.
LEMMA LedgerEntry ==
    ASSUME FinalityInv, NEW i \in 1 .. final.acc.count
    PROVE  /\ Ledger[i].op = payload[i].op
           /\ Ledger[i].lifecycle = payload[i].next.lifecycle
           /\ Ledger[i].removed = payload[i].next.removed
           /\ Ledger[i].meta = payload[i].next.meta
           /\ Ledger[i].head = IF payload[i].op = "handoff_checkpointed"
                              THEN payload[i].next.handoff ELSE payload[i].next.timeline
           /\ Ledger[i].sig = final.events[i].sig
           /\ i \in 1 .. Len(payload)
<1>1. /\ HoldsPrefix(final, final.acc.count)
      /\ final.acc.count \in 0 .. Len(payload) /\ Len(payload) \in Nat /\ Len(payload) <= MaxJobs
  BY DEF FinalityInv, PrefixInv, TypeInv, TypeOK, ForkInv, ChainHoldsQueuePrefix, HoldsPrefix
<1>2. i \in JobIds /\ i \in 1 .. Len(payload)
  BY <1>1, ConstantTypes DEF JobIds
<1>3. ObservationMatches(payload[i], final.events[i])
  BY <1>1, <1>2 DEF HoldsPrefix
<1>4. Ledger[i] = [ op |-> final.events[i].type, lifecycle |-> final.events[i].lifecycle,
                    removed |-> final.events[i].removed, meta |-> final.events[i].meta,
                    head |-> final.events[i].head, sig |-> final.events[i].sig ]
  BY DEF Ledger
<1> QED
  BY <1>2, <1>3, <1>4 DEF ObservationMatches

\* A non-empty set of numbers below a bound has a greatest element.
LEMMA GreatestExists ==
    ASSUME NEW k \in Nat, NEW S, S \subseteq 1 .. k, S # {}
    PROVE  \E i \in S : \A j \in S : j <= i
<1> DEFINE D == {k - i : i \in S}
<1>1. D \subseteq Nat /\ D # {}
  <2>1. ASSUME NEW i \in S PROVE k - i \in Nat
    <3>1. i \in 1 .. k
      OBVIOUS
    <3> QED
      BY <3>1
  <2> QED
    BY <2>1
<1>2. PICK d \in D : \A e \in D : d <= e
  BY <1>1, SmallestExists
<1>3. PICK i \in S : d = k - i
  OBVIOUS
<1>4. \A j \in S : j <= i
  <2> SUFFICES ASSUME NEW j \in S PROVE j <= i
    OBVIOUS
  <2>1. k - j \in D /\ i \in 1 .. k /\ j \in 1 .. k
    OBVIOUS
  <2> QED
    BY <1>2, <1>3, <2>1
<1> QED
  BY <1>3, <1>4

\* The head that CommittedHistory reads off the ledger is the one the envelope
\* predicts.
LEMMA HeadsAgree ==
    ASSUME FinalityInv, SiteInv, NEW k \in 0 .. final.acc.count, NEW h \in BOOLEAN
    PROVE  History!HeadAfter(k, h) = IF k = 0 THEN ZeroHead ELSE HeadOf(k, h)
<1> DEFINE stream == {i \in 1 .. k : (Ledger[i].op = "handoff_checkpointed") = h}
<1>1. final.acc.count \in Nat /\ k \in Nat
  BY DEF FinalityInv, PrefixInv, TypeInv, TypeOK, Chains, Snapshots
<1>2. \A i \in 1 .. k : /\ i \in 1 .. final.acc.count /\ i \in 1 .. Len(payload)
                        /\ Ledger[i].head = HeadOf(i, Handoff(i))
                        /\ (Ledger[i].op = "handoff_checkpointed") = Handoff(i)
  <2> SUFFICES ASSUME NEW i \in 1 .. k
               PROVE  /\ i \in 1 .. final.acc.count /\ i \in 1 .. Len(payload)
                      /\ Ledger[i].head = HeadOf(i, Handoff(i))
                      /\ (Ledger[i].op = "handoff_checkpointed") = Handoff(i)
    OBVIOUS
  <2>1. i \in 1 .. final.acc.count
    BY <1>1
  <2>2. /\ Ledger[i].op = payload[i].op /\ i \in 1 .. Len(payload)
        /\ Ledger[i].head = IF payload[i].op = "handoff_checkpointed"
                           THEN payload[i].next.handoff ELSE payload[i].next.timeline
    BY <2>1, LedgerEntry
  <2> QED
    BY <2>1, <2>2 DEF Handoff, HeadOf
<1>3. stream = {i \in 1 .. k : Handoff(i) = h}
  BY <1>2
<1>4. History!HeadAfter(k, h) = IF stream = {} THEN ZeroHead
                                ELSE Ledger[CHOOSE i \in stream : \A j \in stream : j <= i].head
  BY DEF History!HeadAfter, History!ZeroHead, ZeroHead
<1> HIDE DEF stream
<1>5. k # 0 => /\ (\A i \in 1 .. k : Handoff(i) # h) => HeadOf(k, h) = ZeroHead
               /\ \A i \in 1 .. k :
                     Handoff(i) = h /\ (\A j \in (i + 1) .. k : Handoff(j) # h) =>
                         HeadOf(k, h) = HeadOf(i, h)
  <2>1. k # 0 => k \in 1 .. k
    BY <1>1
  <2>2. k # 0 => k \in 1 .. Len(payload)
    BY <1>2, <2>1
  <2> QED
    BY <2>2 DEF SiteInv, ServicesInv, StreamsContinue
<1>6. CASE stream = {}
  BY <1>1, <1>3, <1>4, <1>5, <1>6
<1>7. CASE stream # {}
  <2> DEFINE c == CHOOSE i \in stream : \A j \in stream : j <= i
  <2>1. c \in stream /\ \A j \in stream : j <= c
    <3>1. \E i \in stream : \A j \in stream : j <= i
      BY <1>1, <1>3, <1>7, GreatestExists
    <3> QED
      BY <3>1, Zenon
  <2>2. History!HeadAfter(k, h) = Ledger[c].head
    BY <1>4, <1>7
  <2> HIDE DEF c
  <2>3. c \in 1 .. k /\ Handoff(c) = h /\ k # 0
    BY <1>1, <1>3, <2>1
  <2>4. \A j \in (c + 1) .. k : Handoff(j) # h
    BY <1>1, <1>3, <2>1, <2>3
  <2> QED
    BY <1>2, <1>5, <2>2, <2>3, <2>4
<1> QED
  BY <1>6, <1>7

\* The page that CommittedHistory turns to is the page of the job.
LEMMA PagesAgree ==
    ASSUME FinalityInv, SiteInv, NEW i \in 1 .. final.acc.count, payload[i].next.count = i
    PROVE  History!Page(i) = JobPage(i)
<1>1. final.acc.count \in Nat /\ i \in 0 .. final.acc.count /\ i # 0
  BY DEF FinalityInv, PrefixInv, TypeInv, TypeOK, Chains, Snapshots
<1>2. /\ History!HeadAfter(i, FALSE) = payload[i].next.timeline
      /\ History!HeadAfter(i, TRUE) = payload[i].next.handoff
  BY <1>1, HeadsAgree DEF HeadOf
<1>3. /\ Ledger[i].lifecycle = payload[i].next.lifecycle
      /\ Ledger[i].removed = payload[i].next.removed
      /\ Ledger[i].meta = payload[i].next.meta
      /\ Ledger[i].sig = final.events[i].sig
  BY LedgerEntry
<1>4. i # 0
  BY <1>1
<1> HIDE DEF Ledger, History!HeadAfter
<1> QED
  BY <1>2, <1>3, <1>4 DEF History!Page, JobPage, ProofOf

\* A block that becomes final holds exactly one new commitment, the one after
\* the page the public reads: a worker sends a job only after its predecessor
\* is confirmed.
LEMMA BlockIsCommit ==
    ASSUME FinalityInv, FinalityInv', SiteInv, FinalizeBlock
    PROVE  LET k == final.acc.count + 1
               c == payload[k].next
           IN  /\ issue.confCount = final.acc.count
               /\ k \in 1 .. Len(payload) /\ NoRemovalBefore(k)
               /\ History!Commit(payload[k].op, c.lifecycle, c.removed, c.meta)
<1> DEFINE n == issue.confCount
           m == final.acc.count
           k == m + 1
           c == payload[k].next
<1>1. /\ n \in Nat /\ m \in Nat /\ tip.acc.count \in Nat /\ Len(payload) \in Nat
      /\ n <= m /\ m <= tip.acc.count /\ tip.acc.count <= Len(payload) /\ Len(payload) <= MaxJobs
      /\ tip.acc.count <= n + 1
  BY Counts DEF FinalityInv, FollowsInv, DatabaseFollowsFinality
<1>2. /\ tip # final /\ final' = tip /\ payload' = payload /\ public' = public
      /\ \A i \in 1 .. m : final'.events[i] = final.events[i]
  BY FinalStays DEF FinalizeBlock, dbVars
<1>3. tip.acc.count # m
  <2> SUFFICES ASSUME tip.acc.count = m PROVE FALSE
    OBVIOUS
  <2>1. /\ tip \in Chains /\ final \in Chains /\ JobIds \subseteq Nat \ {0}
        /\ HoldsPrefix(tip, m) /\ HoldsPrefix(final, m)
    BY ConstantTypes DEF FinalityInv, PrefixInv, TypeInv, TypeOK, ForkInv,
       ChainHoldsQueuePrefix, JobIds
  <2>2. tip.acc = final.acc
    BY <2>1 DEF HoldsPrefix
  <2>3. \A i \in JobIds : tip.events[i] = final.events[i]
    BY <1>2, <2>1 DEF HoldsPrefix
  <2>4. tip.events = final.events
    <3>1. tip.events \in [JobIds -> Events] /\ final.events \in [JobIds -> Events]
      BY <2>1 DEF Chains
    <3> QED
      BY <2>3, <3>1
  <2> QED
    BY <1>2, <2>1, <2>2, <2>4 DEF Chains
<1>4. n = m /\ tip.acc.count = k /\ k \in 1 .. Len(payload) /\ k <= MaxJobs
  <2>1. MaxJobs \in Nat
    BY ConstantTypes
  <2> HIDE DEF n, m
  <2> QED
    BY <1>1, <1>3, <2>1
<1>5. NoRemovalBefore(k)
  BY <1>4 DEF FinalityInv, PrefixInv, ForkInv
<1>6. /\ payload[k] \in Envelopes /\ c.count = k
      /\ payload[k].op = "issue_created" <=> k = 1
  BY <1>4, <1>5, JobFacts DEF FinalityInv
<1> DEFINE h == payload[k].op = "handoff_checkpointed"
           previous == IF k = 1 THEN ZeroHead ELSE HeadOf(k - 1, h)
           head == StreamHead(previous, k, payload[k].op, k, c.lifecycle, c.removed, c.meta)
<1>7. HeadOf(k, h) = head
  <2>1. /\ Prepares(k, payload[k]) /\ payload[k].expected.count = k - 1
        /\ k = 1 => payload[k].expected = NoAccount
        /\ k # 1 => /\ payload[k].expected.timeline = payload[k - 1].next.timeline
                    /\ payload[k].expected.handoff = payload[k - 1].next.handoff
    <3>1. k # 1 => k - 1 \in 1 .. Len(payload) /\ k > 1
      BY <1>1, <1>4
    <3>2. QueueIsWellFormed /\ CreatedFirst
      BY DEF FinalityInv, PrefixInv, QueueInv
    <3>3. /\ Prepares(k, payload[k])
          /\ k = 1 => payload[k].expected = NoAccount
          /\ k > 1 => /\ payload[k].expected.timeline = payload[k - 1].next.timeline
                      /\ payload[k].expected.handoff = payload[k - 1].next.handoff
      <4>1. /\ Prepares(k, payload[k])
            /\ k > 1 => /\ payload[k].expected.timeline = payload[k - 1].next.timeline
                        /\ payload[k].expected.handoff = payload[k - 1].next.handoff
        BY <1>4, <3>2 DEF QueueIsWellFormed
      <4>2. k = 1 => payload[k].expected = NoAccount
        BY <1>4, <3>2 DEF CreatedFirst
      <4> QED
        BY <4>1, <4>2
    <3>4. payload[k].expected.count = k - 1
      BY <1>1, <1>6, <3>3, PreparesFacts
    <3> QED
      BY <3>1, <3>3, <3>4
  <2>2. c = BuildChainJob(payload[k].op, k, payload[k].expected, c.lifecycle, c.removed,
                          c.meta, payload[k].version, payload[k].detail).next
    BY <2>1 DEF Prepares
  <2>3. previous = IF h THEN payload[k].expected.handoff ELSE payload[k].expected.timeline
    BY <2>1 DEF HeadOf, NoAccount
  <2>4. payload[k].expected.count + 1 = k
    BY <1>1, <2>1
  <2> DEFINE built == StreamHead(IF h THEN payload[k].expected.handoff
                                      ELSE payload[k].expected.timeline,
                                 k, payload[k].op, payload[k].expected.count + 1,
                                 c.lifecycle, c.removed, c.meta)
  <2>5. BuildChainJob(payload[k].op, k, payload[k].expected, c.lifecycle, c.removed,
                      c.meta, payload[k].version, payload[k].detail).next
          = [ count     |-> payload[k].expected.count + 1,
              timeline  |-> IF h THEN payload[k].expected.timeline ELSE built,
              handoff   |-> IF h THEN built ELSE payload[k].expected.handoff,
              lifecycle |-> c.lifecycle, removed |-> c.removed, meta |-> c.meta ]
    BY DEF BuildChainJob
  <2>6. built = head
    BY <2>3, <2>4
  <2> HIDE DEF built, head, previous
  <2>7. HeadOf(k, h) = built
    <3>1. c = [ count     |-> payload[k].expected.count + 1,
                timeline  |-> IF h THEN payload[k].expected.timeline ELSE built,
                handoff   |-> IF h THEN built ELSE payload[k].expected.handoff,
                lifecycle |-> c.lifecycle, removed |-> c.removed, meta |-> c.meta ]
      BY <2>2, <2>5
    <3> HIDE DEF h, c
    <3>2. /\ c.handoff = IF h THEN built ELSE payload[k].expected.handoff
          /\ c.timeline = IF h THEN payload[k].expected.timeline ELSE built
      BY <3>1
    <3>3. (IF h THEN c.handoff ELSE c.timeline) = built
      BY <3>2
    <3> QED
      BY <3>3 DEF HeadOf, c
  <2> QED
    BY <2>6, <2>7
<1>8. History!HeadAfter(m, h) = previous
  <2>1. m \in 0 .. final.acc.count /\ (m = 0 <=> k = 1) /\ k - 1 = m /\ h \in BOOLEAN
    BY <1>1
  <2> QED
    BY <2>1, HeadsAgree
<1> DEFINE entry == [ op |-> payload[k].op, lifecycle |-> c.lifecycle, removed |-> c.removed,
                      meta |-> c.meta, head |-> head, sig |-> tip.events[k].sig ]
<1>9. tip.events[k].sig \in Sigs /\ ObservationMatches(payload[k], tip.events[k])
  <2>1. HoldsPrefix(tip, k) /\ k \in JobIds /\ k \in 1 .. k
    BY <1>1, <1>4, ConstantTypes
    DEF FinalityInv, PrefixInv, ForkInv, ChainHoldsQueuePrefix, JobIds
  <2> QED
    BY <2>1 DEF HoldsPrefix
<1>10. Ledger' = Append(Ledger, entry)
  <2>1. /\ Ledger \in Seq(Entries) /\ Len(Ledger) = m
        /\ Ledger' \in Seq(Entries) /\ Len(Ledger') = k
    BY <1>2, <1>4, LedgerType, LedgerTypeNext
  <2>2. ASSUME NEW i \in 1 .. k
        PROVE  Ledger'[i] = [ op |-> tip.events[i].type, lifecycle |-> tip.events[i].lifecycle,
                              removed |-> tip.events[i].removed, meta |-> tip.events[i].meta,
                              head |-> tip.events[i].head, sig |-> tip.events[i].sig ]
    BY <1>2, <1>4 DEF Ledger
  <2>3. Ledger'[k] = entry
    <3>1. k \in 1 .. k
      BY <1>1
    <3> HIDE DEF head
    <3> QED
      BY <1>7, <1>9, <2>2, <3>1 DEF ObservationMatches, HeadOf
  <2>4. ASSUME NEW i \in 1 .. m
        PROVE  Ledger'[i] = Ledger[i]
    <3>1. i \in 1 .. k
      BY <1>1
    <3> QED
      BY <1>2, <2>2, <3>1 DEF Ledger
  <2> HIDE DEF entry
  <2>5. entry \in Entries
    BY <1>1, <2>1, <2>3
  <2>6. /\ Append(Ledger, entry) \in Seq(Entries) /\ Len(Append(Ledger, entry)) = k
        /\ \A i \in 1 .. m : Append(Ledger, entry)[i] = Ledger[i]
        /\ Append(Ledger, entry)[k] = entry
    BY <1>1, <2>1, <2>5
  <2>7. \A i \in 1 .. k : i = k \/ i \in 1 .. m
    BY <1>1
  <2>8. \A i \in 1 .. k : Ledger'[i] = Append(Ledger, entry)[i]
    BY <2>3, <2>4, <2>6, <2>7
  <2> QED
    BY <2>1, <2>6, <2>8, SeqEqual
<1>11. public.proof.count = m
  BY <1>4, <1>1, JobCounts DEF SiteInv, PublicIsPage, JobPage, ProofOf, NoProof
<1>12. History!StreamHead(History!HeadAfter(m, h), k, payload[k].op, k,
                          c.lifecycle, c.removed, c.meta) = head
  BY <1>8 DEF History!StreamHead, StreamHead
<1>13. Len(Ledger) = m /\ k - 1 = m
  BY <1>1, LedgerType
<1>14. History!Commit(payload[k].op, c.lifecycle, c.removed, c.meta)
  <2> HIDE DEF head, previous
  <2>1. \E sig \in Sigs : Ledger' = Append(Ledger,
            [ op |-> payload[k].op, lifecycle |-> c.lifecycle, removed |-> c.removed,
              meta |-> c.meta, head |-> head, sig |-> sig ])
    BY <1>9, <1>10
  <2> HIDE DEF h, c, k
  <2> QED
    BY <1>2, <1>4, <1>11, <1>12, <1>13, <2>1 DEF History!Commit, h, k
<1> QED
  BY <1>4, <1>5, <1>14

\* The page the public reads counts the confirmed jobs.
LEMMA PublicCount ==
    ASSUME FinalityInv, SiteInv
    PROVE  public.proof.count = issue.confCount
<1>1. CASE issue.confCount = 0
  BY <1>1 DEF SiteInv, PublicIsPage, JobPage, NoProof
<1>2. CASE issue.confCount # 0
  BY <1>2, JobCounts DEF SiteInv, PublicIsPage, JobPage, ProofOf
<1> QED
  BY <1>1, <1>2

\* While the finalised chain stands, so does the ledger.
LEMMA LedgerStays == final' = final => Ledger' = Ledger
BY DEF Ledger

\* Which of the five commitments a finalised block makes, and that it is a
\* legal one, follows from what the services build and from the envelope's
\* own semantics: the snapshot it expects is the last entry of the ledger.
LEMMA BlockRefines ==
    ASSUME FinalityInv, FinalityInv', SiteInv, FinalizeBlock
    PROVE  History!Commits
<1> DEFINE m == final.acc.count
           k == m + 1
           op == payload[k].op
           e == payload[k].expected
           c == payload[k].next
<1>1. /\ k \in 1 .. Len(payload) /\ NoRemovalBefore(k)
      /\ History!Commit(op, c.lifecycle, c.removed, c.meta)
  BY BlockIsCommit
<1>2. m \in Nat /\ Len(payload) \in Nat /\ Len(Ledger) = m
  BY LedgerType DEF FinalityInv, PrefixInv, TypeInv, TypeOK, Chains, Snapshots
<1>3. /\ payload[k] \in Envelopes /\ OperationSemantics(payload[k])
      /\ c.removed = (op = "publication_removed")
      /\ op = "issue_created" <=> k = 1
      /\ e = IF k = 1 THEN NoAccount ELSE payload[k - 1].next
  BY <1>1, JobFacts DEF FinalityInv
<1>4. /\ k > 1 => op \in Changes
      /\ op \in {"issue_created", "metadata_version_committed"} => c.meta = e.meta + 1
      /\ op = "lifecycle_changed" =>
             c.lifecycle \in Lifecycles /\ c.lifecycle \in LifecycleTransitions[e.lifecycle]
      /\ op = "publication_removed" => c.meta = Tombstone
  BY <1>1 DEF SiteInv, ServicesInv, ServicesBuild, Publishes
<1>5. op \in Operations
  BY <1>3 DEF Envelopes
<1> HIDE DEF op, e, c
<1>6. CASE k = 1
  <2>1. Ledger = << >>
    BY <1>2, <1>6, LedgerType, EmptySeq
  <2>2. op = "issue_created" /\ e = NoAccount
    BY <1>3, <1>6
  <2>3. c.lifecycle = "open" /\ c.removed = FALSE
    BY <1>3, <2>2 DEF OperationSemantics, op, e, c
  <2>4. c.meta = 1
    BY <1>4, <2>2 DEF NoAccount, ZeroHash
  <2> QED
    BY <1>1, <2>1, <2>2, <2>3, <2>4 DEF History!Commits, History!Publication
<1>7. CASE k # 1
  <2> DEFINE last == Ledger[Len(Ledger)]
  <2>1. m \in 1 .. final.acc.count /\ k - 1 = m /\ k > 1
    BY <1>2, <1>7
  <2>2. /\ last.lifecycle = e.lifecycle /\ last.removed = e.removed /\ last.meta = e.meta
    BY <1>2, <1>3, <1>7, <2>1, LedgerEntry
  <2>3. op \in Changes /\ op # "issue_created" /\ Ledger # << >>
    BY <1>2, <1>3, <1>4, <1>7, <2>1
  <2>4. ~e.removed
    BY <1>3, <1>5, <2>3 DEF OperationSemantics, Operations, op, e, c
  <2> HIDE DEF last
  <2>5. History!Open(op)
    BY <2>2, <2>3, <2>4 DEF History!Open, History!Last, last
  <2>6. CASE op = "metadata_version_committed"
    <3>1. c.lifecycle = last.lifecycle /\ c.removed = FALSE /\ c.meta = last.meta + 1
      BY <1>3, <1>4, <2>2, <2>6 DEF OperationSemantics, op, e, c
    <3> QED
      BY <1>1, <2>5, <2>6, <3>1 DEF History!Commits, History!Correction, History!Last, last
  <2>7. CASE op = "lifecycle_changed"
    <3>1. /\ c.lifecycle \in Lifecycles /\ c.lifecycle \in LifecycleTransitions[last.lifecycle]
          /\ c.removed = FALSE /\ c.meta = last.meta
      BY <1>3, <1>4, <2>2, <2>7 DEF OperationSemantics, op, e, c
    <3>2. c.lifecycle \in History!LifecycleTransitions[last.lifecycle]
      <4>1. History!LifecycleTransitions = LifecycleTransitions
        BY DEF History!LifecycleTransitions, LifecycleTransitions, History!LifecycleStates,
           LifecycleStates
      <4> QED
        BY <3>1, <4>1
    <3> QED
      BY <1>1, <2>5, <2>7, <3>1, <3>2
      DEF History!Commits, History!LifecycleChange, History!Last, last
  <2>8. CASE op = "handoff_checkpointed"
    <3>1. c.lifecycle = last.lifecycle /\ c.removed = FALSE /\ c.meta = last.meta
      BY <1>3, <2>2, <2>8 DEF OperationSemantics, op, e, c
    <3> QED
      BY <1>1, <2>5, <2>8, <3>1 DEF History!Commits, History!Checkpoint, History!Last, last
  <2>9. CASE op = "publication_removed"
    <3>1. c.lifecycle = last.lifecycle /\ c.removed = TRUE /\ c.meta = History!Tombstone
      BY <1>3, <1>4, <2>2, <2>9 DEF OperationSemantics, Tombstone, History!Tombstone, op, e, c
    <3> QED
      BY <1>1, <2>5, <2>9, <3>1 DEF History!Commits, History!Removal, History!Last, last
  <2> QED
    BY <1>5, <2>3, <2>6, <2>7, <2>8, <2>9 DEF Operations
<1> QED
  BY <1>6, <1>7

\* Confirming a job turns the page, or finds it turned by the process that
\* confirmed the job before.
LEMMA ConfirmRefines ==
    ASSUME FinalityInv, SiteInv, NEW p \in Processes, FinalizeConfirmed(p)
    PROVE  History!TurnPage \/ UNCHANGED <<Ledger, public>>
<1> DEFINE i == proc[p].job
           n == issue.confCount
<1>1. /\ i \in 1 .. Len(payload) /\ i \in Nat /\ i <= final.acc.count
      /\ n \in Nat /\ final.acc.count \in Nat
      /\ n = i - 1 \/ n = i
      /\ NoRemovalBefore(i)
  BY ConfirmedJob
<1>2. public' = JobPage(i) /\ final' = final
  BY ConfirmedPage DEF FinalizeConfirmed, chainVars
<1>3. Ledger' = Ledger
  BY <1>2, LedgerStays
<1>4. CASE n = i
  BY <1>2, <1>3, <1>4 DEF SiteInv, PublicIsPage
<1>5. CASE n = i - 1
  <2>1. public.proof.count = n /\ n + 1 = i
    BY <1>1, <1>5, PublicCount
  <2>2. n < Len(Ledger)
    BY <1>1, <1>5, LedgerType
  <2>3. History!Page(i) = JobPage(i)
    <3>1. payload[i].next.count = i
      BY <1>1, JobFacts DEF FinalityInv
    <3>2. i \in 1 .. final.acc.count
      BY <1>1
    <3> QED
      BY <3>1, <3>2, PagesAgree
  <2> QED
    BY <1>2, <1>3, <2>1, <2>2, <2>3 DEF History!TurnPage
<1> QED
  BY <1>1, <1>4, <1>5

\* Every step of the pipeline is a step of CommittedHistory or leaves what
\* CommittedHistory sees alone.
LEMMA StepRefines ==
    FinalityInv /\ FinalityInv' /\ SiteInv /\ [Next]_vars =>
        [History!HistoryNext]_<<Ledger, public>>
<1> SUFFICES ASSUME FinalityInv, FinalityInv', SiteInv, [Next]_vars
             PROVE  History!HistoryNext \/ UNCHANGED <<Ledger, public>>
  OBVIOUS
<1>1. CASE Operators
  <2>1. final' = final /\ public' = public
    BY <1>1 DEF Operators, Approve, CorrectPublishedIssue, ChangeIssueLifecycle,
       RecordIssueHandoff, RemovePublishedIssue, SetPublicationEnabled, Enqueue, chainVars, dbVars
  <2> QED
    BY <2>1, LedgerStays
<1>2. ASSUME NEW p \in Processes, FinalizeConfirmed(p)
      PROVE  History!HistoryNext \/ UNCHANGED <<Ledger, public>>
  BY <1>2, ConfirmRefines DEF History!HistoryNext
<1>3. CASE ~Operators /\ \A p \in Processes : ~FinalizeConfirmed(p)
  <2>1. /\ public' = public
        /\ final' = final \/ FinalizeBlock
    BY <1>3, OtherSteps DEF FinalityInv, PrefixInv
  <2>2. CASE final' = final
    BY <2>1, <2>2, LedgerStays
  <2>3. CASE FinalizeBlock
    BY <2>3, BlockRefines DEF History!HistoryNext
  <2> QED
    BY <2>1, <2>2, <2>3
<1> QED
  BY <1>1, <1>2, <1>3

\* Nothing is published yet.
LEMMA InitRefines == Init => History!HistoryInit
<1> SUFFICES ASSUME Init PROVE Ledger = << >> /\ public = History!NoPage
  BY DEF History!HistoryInit
<1>1. final = NoChain /\ public = [state |-> "absent", version |-> 0, lifecycle |-> "none",
                                   proof |-> NoProof]
  BY DEF Init
<1>2. Ledger = << >>
  <2>1. final.acc.count = 0
    BY <1>1 DEF NoChain, NoAccount
  <2> QED
    BY <2>1 DEF Ledger
<1> QED
  BY <1>1, <1>2 DEF History!NoPage, History!ZeroHead, History!ZeroHash, NoProof, ZeroHead,
     ZeroHash, NoSig

\* The whole pipeline implements CommittedHistory: finalised history grows by
\* one legal commitment at a time, made on top of the page the public reads,
\* and the public record goes from one page of that history to the next.
THEOREM ChainImplementsHistory == Spec => ImplementsCommittedHistory
<1>1. Init => History!HistoryInit
  BY InitRefines
<1>2. FinalityInv /\ FinalityInv' /\ SiteInv /\ [Next]_vars =>
          [History!HistoryNext]_(History!history)
  BY StepRefines DEF History!history
<1> QED
  BY <1>1, <1>2, FinalityInvariance, SiteInvariance, PTL
  DEF Spec, ImplementsCommittedHistory, History!HistorySpec
=============================================================================
