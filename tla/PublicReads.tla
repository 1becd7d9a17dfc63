---------------------------- MODULE PublicReads -----------------------------
(***************************************************************************)
(* What a visitor of the public site gets: the issue page with its shared  *)
(* cache, and the proof check, which compares the public rows with the     *)
(* delivered bytes and with what two Solana providers answer.  The         *)
(* readers run beside CommittedHistory: commitments are finalised and      *)
(* pages turned between any two of their database statements and RPC       *)
(* calls.                                                                  *)
(*                                                                         *)
(* Hashes are injective: a hash is the value hashed.  The photo and the    *)
(* place of an issue never change in v2.  Commitment n is in slot n.       *)
(* What the check is for is in the model too: rows and bytes may be        *)
(* altered outside the services, and a provider may answer falsely.        *)
(***************************************************************************)
EXTENDS CommittedHistory, FiniteSets

CONSTANTS
    Providers,      \* the two RPC providers
    FalseProviders, \* those that may answer what they like
    Alterable,      \* the fields that may be altered, a subset of Fields
    MaxAltered      \* bound: fields altered at a time

ProofFields == {"canonical", "metadata", "evidence", "location", "count", "timeline",
                "handoff", "signature"}
Fields == ProofFields \cup {"text", "place", "bytes"}

ASSUME ReadsAssumption ==
    /\ Cardinality(Providers) = 2
    /\ FalseProviders \subseteq Providers /\ FalseProviders # Providers
    /\ Alterable \subseteq Fields
    /\ MaxAltered \in Nat /\ MaxCommits \in Nat

VARIABLES
    altered,     \* fields whose stored value is not the one the services wrote
    restricted,  \* is_issue_access_restricted
    readEnabled, \* the publicReadEnabled switch
    cached,      \* the shared cache's copy of the issue page
    page,        \* the visitor's page: PublicIssueRecord and the request it makes
    check        \* the proof request of the page

readers == <<altered, restricted, readEnabled, cached, page, check>>
vars    == <<history, readers>>

Photo  == "photo"
Place  == "place"
Forged == "forged"
Absent == "absent"
ForgedMeta == -7
ForgedHead == <<[ id |-> 0, op |-> "lifecycle_changed", sequence |-> 0, lifecycle |-> "open",
                  removed |-> FALSE, meta |-> ForgedMeta ]>>

-----------------------------------------------------------------------------
(* The rows as a statement reads them.                                     *)

Stored(field, value, forged) == IF field \in altered THEN forged ELSE value

\* findPublicIssue: the restriction is read in the same statement.
IssueRow ==
    [ state      |-> public.state,
      text       |-> Stored("text", public.version, ForgedMeta),
      lifecycle  |-> public.lifecycle,
      place      |-> IF public.state = "removed" THEN Absent ELSE Stored("place", Place, Forged),
      restricted |-> restricted,
      at         |-> public.proof.count ]

NoRow == [ state |-> "absent", text |-> 0, lifecycle |-> "none", place |-> Absent,
           restricted |-> FALSE, at |-> 0 ]

\* findPublicIssueProof; event is the commitment its event_account names.
ProofRow ==
    [ canonical |-> Stored("canonical", public.proof.meta, ForgedMeta),
      metadata  |-> Stored("metadata", public.proof.meta, ForgedMeta),
      evidence  |-> Stored("evidence", Photo, Forged),
      location  |-> Stored("location", Place, Forged),
      count     |-> Stored("count", public.proof.count, 0),
      timeline  |-> Stored("timeline", public.proof.timeline, ForgedHead),
      handoff   |-> Stored("handoff", public.proof.handoff, ForgedHead),
      sig       |-> Stored("signature", public.proof.sig, 0),
      event     |-> public.proof.count ]

NoProofRow == [ canonical |-> 0, metadata |-> 0, evidence |-> Absent, location |-> Absent,
                count |-> 0, timeline |-> ZeroHead, handoff |-> ZeroHead, sig |-> 0, event |-> 0 ]

\* GET /api/media/[file]: served while the projection is eligible, the issue
\* unrestricted and reading enabled; bytes that are not the recorded ones are
\* refused.
DeliveredBytes ==
    IF /\ public.state = "published" /\ ~restricted /\ readEnabled
       /\ "bytes" \notin altered
    THEN Photo ELSE Absent

-----------------------------------------------------------------------------
NoDetail == [kind |-> "none", row |-> NoRow, proofAvailable |-> FALSE, events |-> 0]

IdlePage  == [ pc |-> "idle", row |-> NoRow, proofAvailable |-> FALSE, detail |-> NoDetail ]
NoVerdict == [metadata |-> "none", location |-> "none", evidence |-> "none", chain |-> "none"]
Unread    == [kind |-> "unread"]
\* shownAtStart is what was public when the visitor asked; disturbed, that a row
\* or a provider was false since.
IdleCheck == [ pc |-> "idle", row |-> NoRow, proof |-> NoProofRow, bytes |-> Absent,
               answers |-> [p \in Providers |-> Unread], verdict |-> NoVerdict,
               shownAtStart |-> 0, disturbed |-> FALSE ]

Init ==
    /\ HistoryInit
    /\ altered = {} /\ restricted = FALSE /\ readEnabled = TRUE
    /\ cached = NoDetail /\ page = IdlePage /\ check = IdleCheck

-----------------------------------------------------------------------------
(* What happens around the readers.                                        *)

\* Which stored fields the projection of commitment n writes again.  The
\* proof row is replaced, but lifecycle and handoff commitments copy its
\* canonical_metadata from the row itself.
Rewritten(n) ==
    IF ledger[n].op \in {"lifecycle_changed", "handoff_checkpointed"}
    THEN ProofFields \ {"canonical"} ELSE Fields \ {"bytes"}

\* A removal is queued by the transaction that restricts the issue.
HistoryMoves ==
    \/ Commits /\ (Last'.removed => restricted) /\ UNCHANGED readers
    \/ /\ TurnPage
       /\ altered' = altered \ Rewritten(public.proof.count + 1)
       /\ UNCHANGED <<restricted, readEnabled, cached, page, check>>

\* Something outside the services changes a stored value.
Alter(field) ==
    /\ field \in Alterable \ altered
    /\ public.state # "absent"
    /\ Cardinality(altered) < MaxAltered
    /\ altered' = altered \cup {field}
    /\ check' = [check EXCEPT !.disturbed = TRUE]
    /\ UNCHANGED <<history, restricted, readEnabled, cached, page>>

\* removePublishedIssue writes the overlay before the removal is committed.
Restrict ==
    /\ public.state = "published" /\ ~restricted
    /\ restricted' = TRUE
    /\ UNCHANGED <<history, altered, readEnabled, cached, page, check>>

\* changeCapabilitySwitch: disabling public reads needs the reference of a
\* cache purge.
ToggleRead ==
    /\ readEnabled' = ~readEnabled
    /\ cached' = IF readEnabled THEN NoDetail ELSE cached
    /\ UNCHANGED <<history, altered, restricted, page, check>>

CacheExpires ==
    /\ cached # NoDetail
    /\ cached' = NoDetail
    /\ UNCHANGED <<history, altered, restricted, readEnabled, page, check>>

-----------------------------------------------------------------------------
(* The issue page: GET /api/v2/issues/[publicId] in three statements.      *)

\* The page is opened and answered by the cache.
OpenFromCache ==
    /\ page.pc = "idle" /\ cached # NoDetail
    /\ page' = [IdlePage EXCEPT !.pc = "shown", !.detail = cached]
    /\ UNCHANGED <<history, altered, restricted, readEnabled, cached, check>>

\* The page is opened and the origin reads the issue row: no row, no record.
ReadIssueRow ==
    /\ page.pc = "idle" /\ cached = NoDetail
    /\ page' = [IdlePage EXCEPT !.pc = IF IssueRow.state = "absent" THEN "missing" ELSE "proof",
                                !.row = IssueRow]
    /\ UNCHANGED <<history, altered, restricted, readEnabled, cached, check>>

\* Mutant: the route trusts publication_state alone.
Hidden_IgnoresOverlay(row) == FALSE

\* A restricted issue is answered with a tombstone of its own.
Hidden(row) == row.restricted

\* Then the proof row, and unless the issue is gone or hidden, the events.
ReadProofPresence ==
    /\ page.pc = "proof"
    /\ page' = [page EXCEPT !.pc = IF page.row.state = "removed" \/ Hidden(page.row)
                                   THEN "answer" ELSE "events",
                            !.proofAvailable = public.proof.count > 0]
    /\ UNCHANGED <<history, altered, restricted, readEnabled, cached, check>>

ReadEvents ==
    /\ page.pc = "events"
    /\ page' = [page EXCEPT !.pc = "answer", !.detail.events = public.proof.count]
    /\ UNCHANGED <<history, altered, restricted, readEnabled, cached, check>>

\* Mutant: the issue row is read last.
DetailAnswer_RowLast ==
    [ kind |-> CASE page.row.state = "removed" -> "tombstone"
                 [] Hidden(page.row)           -> "restricted"
                 [] OTHER                      -> "content",
      row  |-> IssueRow,
      proofAvailable |-> page.proofAvailable /\ (page.row.state = "removed" \/ ~Hidden(page.row)),
      events |-> page.detail.events ]

\* The body: a removed issue is a tombstone, a restricted one reads like it.
DetailAnswer ==
    [ kind |-> CASE page.row.state = "removed" -> "tombstone"
                 [] Hidden(page.row)           -> "restricted"
                 [] OTHER                      -> "content",
      row  |-> page.row,
      proofAvailable |-> page.proofAvailable /\ (page.row.state = "removed" \/ ~Hidden(page.row)),
      events |-> page.detail.events ]

\* The answer arrives; every answer but the restricted one may be cached.
AnswerDetail ==
    /\ page.pc = "answer"
    /\ page' = [page EXCEPT !.pc = "shown", !.row = NoRow, !.detail = DetailAnswer]
    /\ cached' \in IF DetailAnswer.kind = "restricted" THEN {cached} ELSE {cached, DetailAnswer}
    /\ UNCHANGED <<history, altered, restricted, readEnabled, check>>

\* Any error of a read is answered 'not found'.
DetailFails ==
    /\ page.pc \in {"proof", "events"}
    /\ page' = [page EXCEPT !.pc = "missing", !.detail = NoDetail]
    /\ UNCHANGED <<history, altered, restricted, readEnabled, cached, check>>

\* The visitor leaves; requests under way are aborted.
LeavePage ==
    /\ page.pc # "idle"
    /\ page' = IdlePage /\ check' = IdleCheck
    /\ UNCHANGED <<history, altered, restricted, readEnabled, cached>>

-----------------------------------------------------------------------------
(* The proof check: GET /api/v2/issues/[publicId]/proof.                   *)

\* loadProof: after a detail that announces a proof, or again after an error.
StartCheck ==
    /\ page.pc = "shown" /\ page.detail.proofAvailable
    /\ check.pc \in {"idle", "error"}
    /\ check' = [IdleCheck EXCEPT !.pc = "rows", !.shownAtStart = public.proof.count,
                                  !.disturbed = altered # {}]
    /\ UNCHANGED <<history, altered, restricted, readEnabled, cached, page>>

\* Both statements run at once, on connections of their own.
CheckReadsIssue ==
    /\ check.pc = "rows" /\ check.row = NoRow
    /\ check' = [check EXCEPT !.row = IssueRow]
    /\ UNCHANGED <<history, altered, restricted, readEnabled, cached, page>>

CheckReadsProof ==
    /\ check.pc = "rows" /\ check.proof = NoProofRow
    /\ check' = [check EXCEPT !.proof = ProofRow]
    /\ UNCHANGED <<history, altered, restricted, readEnabled, cached, page>>

\* A restricted issue has no proof until its removal is public.
BeginVerification ==
    /\ check.pc = "rows" /\ check.row # NoRow /\ check.proof # NoProofRow
    /\ check' = [check EXCEPT !.pc = IF check.row.restricted /\ check.row.state # "removed"
                                     THEN "error" ELSE "verify"]
    /\ UNCHANGED <<history, altered, restricted, readEnabled, cached, page>>

\* verifyDeliveredEvidence fetches the photo through the site itself.
FetchEvidence ==
    /\ check.pc = "verify" /\ check.row.state # "removed" /\ check.bytes = Absent
    /\ DeliveredBytes # Absent
    /\ check' = [check EXCEPT !.bytes = DeliveredBytes]
    /\ UNCHANGED <<history, altered, restricted, readEnabled, cached, page>>

\* The issue account after n commitments and the event account of the n-th,
\* as readProvider decodes them.
Account(n) ==
    [ count |-> n, timeline |-> HeadAfter(n, FALSE), handoff |-> HeadAfter(n, TRUE),
      lifecycle |-> ledger[n].lifecycle, removed |-> ledger[n].removed, meta |-> ledger[n].meta,
      evidence |-> Photo, location |-> Place ]

Event(n) ==
    LET handoff == ledger[n].op = "handoff_checkpointed"
    IN  [ op |-> ledger[n].op, sequence |-> n, lifecycle |-> ledger[n].lifecycle,
          removed |-> ledger[n].removed, meta |-> ledger[n].meta,
          evidence |-> Photo, location |-> Place,
          previous |-> HeadAfter(n - 1, handoff), head |-> HeadAfter(n, handoff) ]

Observation(seen, n) ==
    [kind |-> "observed", issue |-> Account(seen), event |-> Event(n)]

\* Mutant: minContextSlot is not sent.
Views_AnyAge(n) == 1 .. Len(ledger)

\* The nodes of a provider lag behind each other, but minContextSlot keeps
\* them from answering from before the slot of the proof.
Views(n) == n .. Len(ledger)

\* An honest provider: a signature that names no transaction is an error.
ProviderAnswers(p) ==
    /\ check.pc = "verify" /\ check.answers[p] = Unread
    /\ check.proof.sig = ledger[check.proof.event].sig
    /\ \E seen \in Views(check.proof.event) :
          check' = [check EXCEPT !.answers[p] = Observation(seen, check.proof.event)]
    /\ UNCHANGED <<history, altered, restricted, readEnabled, cached, page>>

\* A false one confirms whatever the rows say.
ProviderAnswersFalsely(p) ==
    LET e == check.proof
        removed == check.row.state = "removed"
        handoff == ledger[e.event].op = "handoff_checkpointed"
        head == IF handoff THEN e.handoff ELSE e.timeline
    IN  /\ p \in FalseProviders
        /\ check.pc = "verify" /\ check.answers[p] = Unread
        /\ check' = [check EXCEPT !.disturbed = TRUE, !.answers[p] =
             [ kind  |-> "observed",
               issue |-> [ count |-> e.count, timeline |-> e.timeline, handoff |-> e.handoff,
                           lifecycle |-> ledger[e.event].lifecycle, removed |-> removed,
                           meta |-> e.metadata, evidence |-> e.evidence,
                           location |-> e.location ],
               event |-> [ op |-> ledger[e.event].op, sequence |-> e.count,
                           lifecycle |-> ledger[e.event].lifecycle, removed |-> removed,
                           meta |-> e.metadata, evidence |-> e.evidence,
                           location |-> e.location,
                           previous |-> IF head = ZeroHead THEN ZeroHead
                                        ELSE SubSeq(head, 1, Len(head) - 1),
                           head |-> head ] ]]
        /\ UNCHANGED <<history, altered, restricted, readEnabled, cached, page>>

ProviderFails(p) ==
    /\ check.pc = "verify" /\ check.answers[p] = Unread
    /\ check' = [check EXCEPT !.answers[p] = [kind |-> "failed"]]
    /\ UNCHANGED <<history, altered, restricted, readEnabled, cached, page>>

\* observationMatches: the two accounts against the row and each other.
ObservationMatches(o, e, removed) ==
    /\ o.issue.meta = e.metadata /\ o.issue.evidence = e.evidence
    /\ o.issue.location = e.location
    /\ o.issue.timeline = e.timeline /\ o.issue.handoff = e.handoff
    /\ o.issue.count = e.count /\ o.issue.removed = removed
    /\ o.event.sequence = e.count
    /\ o.event.lifecycle = o.issue.lifecycle /\ o.event.removed = o.issue.removed
    /\ (o.event.op = "publication_removed") = removed
    /\ o.event.meta = e.metadata /\ o.event.evidence = e.evidence
    /\ o.event.location = e.location
    /\ o.event.head # ZeroHead
    /\ o.event.previous = SubSeq(o.event.head, 1, Len(o.event.head) - 1)
    /\ o.event.head = IF o.event.op = "handoff_checkpointed" THEN e.handoff ELSE e.timeline

\* Mutant: one provider that confirms is enough.
ChainVerdict_OneProvider(answers, e, removed) ==
    LET observed == {p \in Providers : answers[p].kind = "observed"}
    IN  IF observed = {} THEN "unknown_dependency_error"
        ELSE IF \E p \in observed : ObservationMatches(answers[p], e, removed)
        THEN "confirmed" ELSE "mismatch"

\* verifyV2PublicProof: both providers, byte for byte the same, and matching.
ChainVerdict(answers, e, removed) ==
    IF \/ \E p \in Providers : answers[p].kind # "observed"
       \/ \E p, q \in Providers : answers[p] # answers[q]
    THEN "unknown_dependency_error"
    ELSE IF \A p \in Providers : ObservationMatches(answers[p], e, removed)
    THEN "confirmed" ELSE "mismatch"

\* buildPublicProofResponse.
Verdict ==
    LET e == check.proof
    IN  [ metadata |-> IF e.canonical = e.metadata THEN "match" ELSE "mismatch",
          location |-> CASE check.row.place = Absent     -> "not_available_after_removal"
                         [] check.row.place = e.location -> "match"
                         [] OTHER                        -> "mismatch",
          evidence |-> CASE check.bytes = Absent     -> "unavailable"
                         [] check.bytes = e.evidence -> "match"
                         [] OTHER                    -> "mismatch",
          chain    |-> ChainVerdict(check.answers, e, check.row.state = "removed") ]

\* The photo may still be unread: its fetch failed or timed out.
Decide ==
    /\ check.pc = "verify" /\ \A p \in Providers : check.answers[p] # Unread
    /\ check' = [check EXCEPT !.pc = "ready", !.verdict = Verdict]
    /\ UNCHANGED <<history, altered, restricted, readEnabled, cached, page>>

\* A statement fails, or the answer is lost: 'temporarily unavailable'.
CheckFails ==
    /\ check.pc \in {"rows", "verify"}
    /\ check' = [check EXCEPT !.pc = "error"]
    /\ UNCHANGED <<history, altered, restricted, readEnabled, cached, page>>

-----------------------------------------------------------------------------
PageSteps == \/ OpenFromCache \/ ReadIssueRow \/ ReadProofPresence \/ ReadEvents
             \/ AnswerDetail \/ DetailFails \/ LeavePage

CheckSteps == \/ StartCheck \/ CheckReadsIssue \/ CheckReadsProof \/ BeginVerification
              \/ FetchEvidence \/ Decide \/ CheckFails
              \/ \E p \in Providers :
                    ProviderAnswers(p) \/ ProviderAnswersFalsely(p) \/ ProviderFails(p)

Next == \/ HistoryMoves \/ Restrict \/ ToggleRead \/ CacheExpires
        \/ \E field \in Fields : Alter(field)
        \/ PageSteps \/ CheckSteps

Spec == Init /\ [][Next]_vars

\* Cached copies run out, and a request that started is answered or fails.
FairSpec == Spec /\ WF_vars(CacheExpires)
                 /\ WF_vars(ReadProofPresence) /\ WF_vars(ReadEvents) /\ WF_vars(AnswerDetail)

-----------------------------------------------------------------------------
\* Rows, answers and verdicts have their declared shapes.
TypeOK ==
    /\ altered \subseteq Fields /\ restricted \in BOOLEAN /\ readEnabled \in BOOLEAN
    /\ cached.kind \in {"none", "tombstone", "content"}
    /\ page.pc \in {"idle", "missing", "proof", "events", "answer", "shown"}
    /\ page.detail.kind \in {"none", "tombstone", "content", "restricted"}
    /\ page.detail.events \in 0 .. MaxCommits
    /\ check.pc \in {"idle", "rows", "verify", "ready", "error"}
    /\ check.verdict.metadata \in {"none", "match", "mismatch"}
    /\ check.verdict.location \in {"none", "match", "mismatch", "not_available_after_removal"}
    /\ check.verdict.evidence \in {"none", "match", "mismatch", "unavailable"}
    /\ check.verdict.chain \in {"none", "confirmed", "mismatch", "unknown_dependency_error"}

Confirmed == check.verdict.chain = "confirmed"

\* A confirmed binding is true, whatever was altered in the rows, the bytes or
\* the answer of one provider, and however commitments interleave with the
\* check: the row read is commitment n of the chain with its heads, no older
\* than the one public when the visitor asked, and each dimension that
\* matches was delivered as it was committed.
ConfirmedMeansCommitted ==
    Confirmed =>
        LET e == check.proof
            n == e.event
        IN  /\ e.count = n /\ n >= check.shownAtStart
            /\ e.metadata = ledger[n].meta /\ e.evidence = Photo /\ e.location = Place
            /\ e.timeline = HeadAfter(n, FALSE) /\ e.handoff = HeadAfter(n, TRUE)
            /\ (check.row.state = "removed") = ledger[n].removed
            /\ check.verdict.metadata = "match" => e.canonical = ledger[n].meta
            /\ check.verdict.location = "match" => check.row.place = Place
            /\ check.verdict.evidence = "match" => check.bytes = Photo

\* Where nothing was altered and every provider answers honestly, the only false
\* alarm of a check is the chain's, and only if a commitment beyond what was
\* public when the check began is finalised before it ends, also where its
\* two rows were read on two sides of a removal; a provider that lags behind
\* is never taken for a mismatch.
FalseAlarmsNeedNewCommitments ==
    (check.pc = "ready" /\ ~check.disturbed) =>
        /\ "mismatch" \notin {check.verdict.metadata, check.verdict.location,
                              check.verdict.evidence}
        /\ check.verdict.chain = "mismatch" => Len(ledger) > check.shownAtStart

\* The events listed on a page are at least as recent as the record above
\* them, although they are read by another statement: no public step that
\* the shown status or text comes from is missing in the list.
EventsCoverRecord ==
    page.pc = "shown" /\ page.detail.kind = "content" =>
        page.detail.events >= page.detail.row.at

\* Once an issue is restricted, its content leaves the shared cache in the
\* end and for good: a copy ages, a request that read the row before may
\* store one more, and then nothing brings it back, even if the removal
\* itself is never committed.  (A page that is open keeps what it shows.)
RestrictedContentLeaves ==
    restricted ~> [](cached.kind # "content")

\* A page is whole, although three statements read it: its events cover its
\* record, and rows, pages and checks have their types.
PagesAreWhole == TypeOK /\ EventsCoverRecord
=============================================================================
