---------------------------- MODULE ReviewConsole ----------------------------
(***************************************************************************)
(* Moderators review one submission, each in a tab of OperatorReview: start*)
(* the review, approve the private photo, make a public derivative, bind   *)
(* it, approve or turn down.  The submission, its photo and its            *)
(* derivatives are three rows with versions of their own, so a tab can be  *)
(* right about one and wrong about another.                                *)
(*                                                                         *)
(* Requests are delivered late, answers and reloads may be lost, and the   *)
(* retention sweep deletes media a review has been left with.  Keys and    *)
(* replays are in OperatorConsole; the bytes behind the rows are in        *)
(* MediaPipeline.  Derivatives are dated in the order they commit.         *)
(***************************************************************************)
EXTENDS Integers, Sequences, FiniteSets, Workflow

CONSTANTS
    Moderators,  \* subjects holding moderator or org_admin
    Redacting,   \* bound: the moderators who try redaction modes
    Starts,      \* pairs <<submission state, photo state>> a run starts from
    MaxPosts,    \* bound: requests sent
    MaxLoads,    \* bound: GET answers under way at once, by tab
    MaxFaults    \* bound: expiries, sweeps and switch changes

ASSUME ReviewConsoleAssumption ==
    /\ Starts \subseteq (SubmissionStates \ {"approved"}) \X
                        {"quarantined", "approved_private", "rejected"}
    /\ Redacting \subseteq Moderators
    /\ MaxPosts \in Nat
    /\ MaxLoads \in Nat
    /\ MaxFaults \in Nat

VARIABLES
    submission,   \* state and version of the submissions row
    media,        \* [state, version] of the private photo
    derivatives,  \* sequence of [state, version], oldest first
    receipts,     \* operator_media capabilities: derivative, version, owner, state
    enabled,      \* the two kill switches the services read
    tab,          \* [Moderators -> what the tab shows and does]
    wire,         \* requests under way
    answers,      \* answers under way
    loads,        \* GET answers under way
    sent,         \* requests sent so far
    faults,       \* expiries, sweeps and switch changes so far
    verdicts      \* recorded decisions, with what the moderator saw

vars == <<submission, media, derivatives, receipts, enabled, tab, wire, answers,
          loads, sent, faults, verdicts>>

server == <<submission, media, derivatives, receipts, enabled, verdicts>>

NoRow == [state |-> "none", version |-> 0]

\* What GET /api/operator/moderation/{id} answers: one statement joins the
\* submission, its photo and the photo's latest derivative, in any state.
Record ==
    [ submission |-> submission, media |-> media,
      latest |-> Len(derivatives),
      derivative |-> IF derivatives = << >> THEN NoRow ELSE derivatives[Len(derivatives)] ]

NoRecord == [submission |-> NoRow, media |-> NoRow, latest |-> 0, derivative |-> NoRow]

NoTab == [record |-> NoRecord, busy |-> 0, receipt |-> 0, mode |-> "clear", rectangles |-> FALSE]

Init ==
    /\ \E start \in Starts :
          /\ submission = [state |-> start[1], version |-> 1]
          /\ media = [state |-> start[2], version |-> 1]
    /\ derivatives = << >>
    /\ receipts = << >>
    /\ enabled = [mutations |-> TRUE, publication |-> TRUE]
    /\ tab = [o \in Moderators |-> NoTab]
    /\ wire = {}
    /\ answers = {}
    /\ loads = [o \in Moderators |-> {}]
    /\ sent = 0
    /\ faults = 0
    /\ verdicts = << >>

-----------------------------------------------------------------------------
(* The services.                                                           *)

NextState(decision) ==
    CASE decision = "start_review"    -> "under_review"
      [] decision = "request_changes" -> "changes_requested"
      [] decision = "approve"         -> "approved"
      [] decision = "reject"          -> "rejected"

\* Mutant: the state of the derivative is not looked at again.
ReceiptHolds_AnyDerivative(p) ==
    /\ p.receipt # 0
    /\ receipts[p.receipt].by = p.by
    /\ receipts[p.receipt].state = "active"
    /\ ~receipts[p.receipt].expired

\* authorizeOperatorMediaReceipt, and the derivative as it was when bound.
ReceiptHolds(p) ==
    /\ p.receipt # 0
    /\ LET receipt == receipts[p.receipt]
       IN  /\ receipt.by = p.by
           /\ receipt.state = "active"
           /\ ~receipt.expired
           /\ derivatives[receipt.derivative] =
                 [state |-> "redacted_derivative", version |-> receipt.version]

\* moderateSubmission, in the order of its checks.
ModerationAnswer(p) ==
    CASE ~enabled.mutations                       -> "operator_mutations_disabled"
      [] p.expected.version # submission.version  -> "stale_resource_version"
      [] NextState(p.kind) \notin SubmissionTransitions[submission.state]
                                                  -> "moderation_transition_invalid"
      [] p.kind = "approve" /\ ~enabled.publication -> "publication_disabled"
      [] p.kind = "approve" /\ media.state # "approved_private"
                                                  -> "moderation_media_unavailable"
      [] p.kind = "approve" /\ ~ReceiptHolds(p)   -> "moderation_media_receipt_invalid"
      [] OTHER                                    -> "recorded"

\* Approval consumes the receipt and makes its derivative public; the update
\* of the derivative names the state it expects.
Moderate(p) ==
    /\ submission' = [state |-> NextState(p.kind), version |-> submission.version + 1]
    /\ IF p.kind = "approve"
       THEN LET d == receipts[p.receipt].derivative
            IN  /\ receipts' = [receipts EXCEPT ![p.receipt].state = "consumed"]
                /\ derivatives' =
                      IF derivatives[d].state = "redacted_derivative"
                      THEN [derivatives EXCEPT ![d] = [state   |-> "approved_public",
                                                       version |-> @.version + 1]]
                      ELSE derivatives
       ELSE UNCHANGED <<receipts, derivatives>>
    /\ UNCHANGED media

\* Mutant: the review of a photo does not look at its state and version.
MediaCurrent_Trusts(p, row) == row.state # "deleted"

\* The expected state and version of the three media services.
MediaCurrent(p, row) == p.expected = row

\* reviewPrivateMedia.
ReviewMedia(p) ==
    /\ media' = [ state   |-> IF p.kind = "media_approve" THEN "approved_private" ELSE "rejected",
                  version |-> media.version + 1 ]
    /\ UNCHANGED <<submission, derivatives, receipts>>

\* createPublicDerivative: a row of its own; the photo keeps its version.
MakeDerivative(p) ==
    /\ derivatives' = Append(derivatives, [state |-> "redacted_derivative", version |-> 1])
    /\ UNCHANGED <<submission, media, receipts>>

\* issueMediaBindingReceipt: valid for a day, for the moderator who asked.
IssueReceipt(p) ==
    /\ receipts' = Append(receipts, [ derivative |-> p.target, version |-> p.expected.version,
                                      by |-> p.by, state |-> "active", expired |-> FALSE ])
    /\ UNCHANGED <<submission, media, derivatives>>

\* parsePublicDerivativeInput: no rectangles without a redaction, and at
\* least one with it.
ValidDerivative(p) == (p.mode = "redact") <=> p.rectangles

Decisions == {"start_review", "request_changes", "approve", "reject"}
MediaDecisions == {"media_approve", "media_reject"}

Answer(p) ==
    CASE p.kind \in Decisions                            -> ModerationAnswer(p)
      [] p.kind = "derivative" /\ ~ValidDerivative(p)    -> "media_workflow_invalid"
      [] ~enabled.mutations                              -> "operator_mutations_disabled"
      [] ~MediaCurrent(p, IF p.kind = "binding" THEN derivatives[p.target] ELSE media)
                                                         -> "stale_resource_version"
      [] OTHER                                           -> "recorded"

Effect(p) ==
    CASE p.kind \in Decisions      -> Moderate(p)
      [] p.kind \in MediaDecisions -> ReviewMedia(p)
      [] p.kind = "derivative"     -> MakeDerivative(p)
      [] p.kind = "binding"        -> IssueReceipt(p)

\* One transaction of one service.  The answer carries the receipt made; it
\* is dropped when the tab waits for it no more.
Deliver(p) ==
    LET result == Answer(p)
    IN  /\ wire' = wire \ {p}
        /\ IF result = "recorded"
           THEN /\ Effect(p)
                /\ verdicts' = Append(verdicts, [post |-> p, before |-> Record])
           ELSE UNCHANGED <<submission, media, derivatives, receipts, verdicts>>
        /\ answers' = IF tab[p.by].busy = p.key
                      THEN answers \cup {[key |-> p.key, kind |-> p.kind, result |-> result,
                              receipt |-> IF p.kind = "binding" /\ result = "recorded"
                                          THEN Len(receipts) + 1 ELSE 0]}
                      ELSE answers
        /\ UNCHANGED <<enabled, tab, loads, sent, faults>>

Fault ==
    /\ faults < MaxFaults
    /\ faults' = faults + 1
    /\ UNCHANGED <<submission, tab, wire, answers, loads, sent, verdicts>>

\* A receipt is a day old.
ReceiptExpires(r) ==
    /\ receipts[r].state = "active"
    /\ ~receipts[r].expired
    /\ receipts' = [receipts EXCEPT ![r].expired = TRUE]
    /\ Fault
    /\ UNCHANGED <<media, derivatives, enabled>>

\* sweepExpiredMedia takes an unpublished derivative or the photo.
SweepDerivative(d) ==
    /\ derivatives[d].state = "redacted_derivative"
    /\ derivatives' = [derivatives EXCEPT ![d] = [state |-> "deleted", version |-> @.version + 1]]
    /\ Fault
    /\ UNCHANGED <<media, receipts, enabled>>

SweepMedia ==
    /\ media.state # "deleted"
    /\ media' = [state |-> "deleted", version |-> media.version + 1]
    /\ Fault
    /\ UNCHANGED <<derivatives, receipts, enabled>>

ToggleSwitch(s) ==
    /\ enabled' = [enabled EXCEPT ![s] = ~@]
    /\ Fault
    /\ UNCHANGED <<media, derivatives, receipts>>

-----------------------------------------------------------------------------
(* The tab.                                                                *)

\* A GET: the record is read now, its answer is under way.
Load(o, inside) ==
    loads' = [loads EXCEPT ![o] = @ \cup {[record |-> Record, inside |-> inside]}]

\* The page is opened (or reloaded: everything the tab held is gone).
OpenPage(o) ==
    /\ tab[o].busy = 0
    /\ tab' = [tab EXCEPT ![o] = NoTab]
    /\ loads' = [loads EXCEPT ![o] = {[record |-> Record, inside |-> FALSE]}]
    /\ UNCHANGED <<server, wire, answers, sent, faults>>

\* The Refresh button.
Refresh(o) ==
    /\ tab[o].busy = 0
    /\ tab[o].record # NoRecord
    /\ Cardinality(loads[o]) < MaxLoads
    /\ Load(o, FALSE)
    /\ UNCHANGED <<server, tab, wire, answers, sent, faults>>

canModerate(o) == tab[o].record.submission.state = "under_review"

derivative(o) == tab[o].record.latest # 0

\* mutate(): busy, a fresh key, the versions on the screen.
Mutate(o, kind, expected) ==
    LET p == [ key |-> sent + 1, by |-> o, kind |-> kind, expected |-> expected,
               target |-> IF kind = "binding" THEN tab[o].record.latest ELSE 0,
               receipt |-> IF kind = "approve" THEN tab[o].receipt ELSE 0,
               mode |-> IF kind = "derivative" THEN tab[o].mode ELSE "clear",
               rectangles |-> kind = "derivative" /\ tab[o].rectangles,
               seen |-> tab[o].record ]
    IN  /\ tab[o].busy = 0
        /\ sent < MaxPosts
        /\ sent' = sent + 1
        /\ wire' = wire \cup {p}
        /\ tab' = [tab EXCEPT ![o].busy = sent + 1]
        /\ UNCHANGED <<server, answers, loads, faults>>

\* The panels of the page, each offered in some states of the record.
OffersReview(o) == tab[o].record.submission.state \in {"received", "revision_pending"}

OffersPhoto(o) == canModerate(o) /\ tab[o].record.media.state = "quarantined"

OffersDerivative(o) ==
    canModerate(o) /\ tab[o].record.media.state = "approved_private" /\ ~derivative(o)

OffersBinding(o) == canModerate(o) /\ derivative(o) /\ tab[o].receipt = 0

OffersApproval(o) == canModerate(o) /\ derivative(o) /\ tab[o].receipt # 0

OffersDecision(o) == canModerate(o)

StartReview(o) ==
    /\ OffersReview(o)
    /\ Mutate(o, "start_review", tab[o].record.submission)

\* The page always expects a quarantined photo.
ReviewPhoto(o, decision) ==
    /\ OffersPhoto(o)
    /\ Mutate(o, decision, tab[o].record.media)

\* "No redaction" leaves the rectangles drawn so far; "Redact" draws the
\* first one.
ChooseClear(o) ==
    /\ OffersDerivative(o)
    /\ tab[o].mode = "redact"
    /\ tab' = [tab EXCEPT ![o].mode = "clear"]
    /\ UNCHANGED <<server, wire, answers, loads, sent, faults>>

ChooseRedact(o) ==
    /\ OffersDerivative(o)
    /\ <<tab[o].mode, tab[o].rectangles>> # <<"redact", TRUE>>
    /\ tab' = [tab EXCEPT ![o].mode = "redact", ![o].rectangles = TRUE]
    /\ UNCHANGED <<server, wire, answers, loads, sent, faults>>

RemoveRectangles(o) ==
    /\ OffersDerivative(o)
    /\ tab[o].mode = "redact"
    /\ tab[o].rectangles
    /\ tab' = [tab EXCEPT ![o].rectangles = FALSE]
    /\ UNCHANGED <<server, wire, answers, loads, sent, faults>>

\* createDerivative: the page stops only a redaction without rectangles.
CreateDerivative(o) ==
    /\ OffersDerivative(o)
    /\ tab[o].mode = "redact" => tab[o].rectangles
    /\ Mutate(o, "derivative", tab[o].record.media)

\* issueBinding: offered for the latest derivative, whatever its state, as
\* long as the tab holds no receipt; the request always expects a
\* redacted_derivative.
IssueBinding(o) ==
    /\ OffersBinding(o)
    /\ Mutate(o, "binding", [tab[o].record.derivative EXCEPT !.state = "redacted_derivative"])

SubmitDecision(o, decision) ==
    /\ OffersDecision(o)
    /\ Mutate(o, decision, tab[o].record.submission)

Approve(o) ==
    /\ OffersApproval(o)
    /\ Mutate(o, "approve", tab[o].record.submission)

\* The answer: the buttons come back; a recorded change other than a binding
\* loads the record after that, a stale version loads it before.
AnswerArrives(o) ==
    \E a \in answers :
        LET recorded == a.result = "recorded"
            stale    == a.result = "stale_resource_version"
        IN  /\ a.key = tab[o].busy
            /\ answers' = answers \ {a}
            /\ tab' = [tab EXCEPT
                  ![o].busy = IF stale THEN @ ELSE 0,
                  ![o].receipt = CASE recorded /\ a.kind = "binding" -> a.receipt
                                   [] recorded /\ a.kind = "approve" -> 0
                                   [] OTHER                          -> @]
            /\ IF stale \/ (recorded /\ a.kind # "binding")
               THEN Load(o, stale) ELSE UNCHANGED loads
            /\ UNCHANGED <<server, wire, sent, faults>>

\* The connection fails; the request may still be delivered.
AnswerLost(o) ==
    /\ tab[o].busy # 0
    /\ ~\E load \in loads[o] : load.inside
    /\ tab' = [tab EXCEPT ![o].busy = 0]
    /\ answers' = {a \in answers : a.key # tab[o].busy}
    /\ UNCHANGED <<server, wire, loads, sent, faults>>

\* fetchRecord shows whichever answer arrives; a receipt held is kept.
LoadArrives(o) ==
    \E load \in loads[o] :
        /\ loads' = [loads EXCEPT ![o] = @ \ {load}]
        /\ tab' = [tab EXCEPT ![o].record = load.record,
                              ![o].busy = IF load.inside THEN 0 ELSE @]
        /\ UNCHANGED <<server, wire, answers, sent, faults>>

LoadFails(o) ==
    \E load \in loads[o] :
        /\ loads' = [loads EXCEPT ![o] = @ \ {load}]
        /\ tab' = [tab EXCEPT ![o].busy = IF load.inside THEN 0 ELSE @]
        /\ UNCHANGED <<server, wire, answers, sent, faults>>

-----------------------------------------------------------------------------
Next ==
    \/ \E p \in wire : Deliver(p)
    \/ \E r \in DOMAIN receipts : ReceiptExpires(r)
    \/ \E d \in DOMAIN derivatives : SweepDerivative(d)
    \/ SweepMedia
    \/ \E s \in DOMAIN enabled : ToggleSwitch(s)
    \/ \E o \in Moderators :
          \/ OpenPage(o)
          \/ Refresh(o)
          \/ StartReview(o)
          \/ \E decision \in MediaDecisions : ReviewPhoto(o, decision)
          \/ o \in Redacting /\ (ChooseClear(o) \/ ChooseRedact(o) \/ RemoveRectangles(o))
          \/ CreateDerivative(o)
          \/ IssueBinding(o)
          \/ \E decision \in {"request_changes", "reject"} : SubmitDecision(o, decision)
          \/ Approve(o)
          \/ AnswerArrives(o)
          \/ AnswerLost(o)
          \/ LoadArrives(o)
          \/ LoadFails(o)

Spec == Init /\ [][Next]_vars

-----------------------------------------------------------------------------
(* Properties.                                                             *)

Public == {d \in DOMAIN derivatives : derivatives[d].state = "approved_public"}

\* Rows, receipts and tabs have their types; a tab holds its own receipts.
TypeOK ==
    /\ submission.state \in SubmissionStates
    /\ media.state \in {"quarantined", "approved_private", "rejected", "deleted"}
    /\ \A d \in DOMAIN derivatives :
          derivatives[d].state \in {"redacted_derivative", "approved_public", "deleted"}
    /\ \A o \in Moderators :
          /\ tab[o].busy \in 0..sent
          /\ tab[o].receipt \in 0..Len(receipts)
          /\ tab[o].receipt # 0 => receipts[tab[o].receipt].by = o

\* An approved submission has exactly one public derivative, bound by the
\* moderator who approved, who saw the approved photo when he asked for the
\* binding; a submission that is not approved has none.  Three rows with
\* separate versions, a sweep and late requests all have to line up.
ApprovalIsOneDerivative ==
    /\ submission.state = "approved" => Cardinality(Public) = 1
    /\ submission.state # "approved" => Public = {}
    /\ \A i \in DOMAIN verdicts :
          verdicts[i].post.kind = "approve" =>
             LET receipt == receipts[verdicts[i].post.receipt]
             IN  /\ receipt.by = verdicts[i].post.by
                 /\ Public = {receipt.derivative}
                 /\ verdicts[i].before.media.state = "approved_private"
                 /\ \E j \in 1..(i - 1) :
                       /\ verdicts[j].post.kind = "binding"
                       /\ verdicts[j].post.by = receipt.by
                       /\ verdicts[j].post.seen.latest = receipt.derivative
                       /\ verdicts[j].post.seen.media.state # "quarantined"

\* A verdict on the submission or the photo is passed on the state the
\* moderator's screen showed, and on the photo at most once.
VerdictsAreMadeInSight ==
    /\ \A i \in DOMAIN verdicts :
          LET seen == verdicts[i].post.seen  before == verdicts[i].before
          IN  /\ verdicts[i].post.kind \in Decisions =>
                    seen.submission.state = before.submission.state
              /\ verdicts[i].post.kind \in MediaDecisions \cup {"derivative"} =>
                    seen.media.state = before.media.state
    /\ \A i, j \in DOMAIN verdicts :
          verdicts[i].post.kind \in MediaDecisions /\ verdicts[j].post.kind \in MediaDecisions
             => i = j

\* Verdicts fit the screens they were passed on, rows and tabs their types.
ReviewsAreInSight == TypeOK /\ VerdictsAreMadeInSight
=============================================================================
