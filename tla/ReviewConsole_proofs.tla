------------------------ MODULE ReviewConsole_proofs ------------------------
(***************************************************************************)
(* Proofs about ReviewConsole for every number of moderators, requests,    *)
(* reloads and faults, from every start.                                   *)
(***************************************************************************)
EXTENDS ReviewConsole, FiniteSetTheorems, TLAPS

-----------------------------------------------------------------------------
(* The inductive invariant.                                                *)

MediaStates == {"quarantined", "approved_private", "rejected", "deleted"}
DerivativeStates == {"redacted_derivative", "approved_public", "deleted"}
Kinds == Decisions \cup MediaDecisions \cup {"derivative", "binding"}

Rows == [state : SubmissionStates \cup MediaStates \cup DerivativeStates \cup {"none"},
         version : Nat]
Records == [submission : Rows, media : Rows, latest : Nat, derivative : Rows]
Tabs == [record : Records, busy : Nat, receipt : Nat, mode : {"clear", "redact"},
         rectangles : BOOLEAN]
Posts == [key : Nat, by : Moderators, kind : Kinds, expected : Rows, target : Nat,
          receipt : Nat, mode : {"clear", "redact"}, rectangles : BOOLEAN, seen : Records]
Receipts == [derivative : Nat, version : Nat, by : Moderators, state : {"active", "consumed"},
             expired : BOOLEAN]
Loads == [record : Records, inside : BOOLEAN]
Verdicts == [post : Posts, before : Records]

\* The rows of the server.
ServerType ==
    /\ submission \in Rows /\ submission.state \in SubmissionStates /\ submission.version > 0
    /\ media \in Rows /\ media.state \in MediaStates
    /\ derivatives \in Seq(Rows)
    /\ \A d \in 1 .. Len(derivatives) : derivatives[d].state \in DerivativeStates
    /\ receipts \in Seq(Receipts)
    /\ verdicts \in Seq(Verdicts)

\* Tabs and messages.
ClientType ==
    /\ sent \in Nat
    /\ tab \in [Moderators -> Tabs]
    /\ loads \in [Moderators -> SUBSET Loads]
    /\ wire \subseteq Posts

\* A photo has derivatives only after its review.
PhotoIsReviewed == Len(derivatives) # 0 => media.state # "quarantined"

\* A record somebody holds was read now or earlier: its version of the
\* submission is this one or an older one, and so is its latest derivative.
Genuine(r) ==
    /\ r.latest <= Len(derivatives)
    /\ r.latest # 0 => r.media.state # "quarantined"
    /\ r.submission.version <= submission.version
    /\ r.submission.version = submission.version => r.submission.state = submission.state

RecordsAreGenuine ==
    /\ \A o \in Moderators : Genuine(tab[o].record)
    /\ \A o \in Moderators : \A load \in loads[o] : Genuine(load.record)
    /\ \A p \in wire : Genuine(p.seen)

\* What a request asks for is what the tab showed when it was sent.
Asked(p) ==
    /\ p.kind \in Decisions => p.expected = p.seen.submission
    /\ p.kind \in MediaDecisions => p.expected = p.seen.media /\ p.expected.state = "quarantined"
    /\ p.kind = "derivative" => p.expected = p.seen.media /\ p.expected.state = "approved_private"
    /\ p.kind = "binding" => p.target = p.seen.latest /\ p.target # 0

\* Requests have keys of their own, and a tab waits for its own.
PostsAreOfTheirTab ==
    \A p \in wire :
        /\ Asked(p)
        /\ p.key <= sent /\ p.key # 0 /\ p.receipt <= Len(receipts)
        /\ \A o \in Moderators : tab[o].busy = p.key => o = p.by

\* The receipt in an answer is the one its tab asked for.
AnswersAreOfTheirTab ==
    \A a \in answers :
        /\ a.key \in Nat /\ a.key # 0 /\ a.key <= sent
        /\ a.receipt \in Nat /\ a.receipt <= Len(receipts)
        /\ a.receipt # 0 => \A o \in Moderators : tab[o].busy = a.key => receipts[a.receipt].by = o

\* A tab holds only receipts of its moderator.
TabsHoldTheirReceipts ==
    \A o \in Moderators :
        /\ tab[o].busy <= sent /\ tab[o].receipt <= Len(receipts)
        /\ tab[o].receipt # 0 => receipts[tab[o].receipt].by = o

\* Verdict j asked for receipt's derivative to be bound, having seen its photo
\* reviewed.
Binds(j, receipt) ==
    /\ verdicts[j].post.kind = "binding"
    /\ verdicts[j].post.by = receipt.by
    /\ verdicts[j].post.seen.latest = receipt.derivative
    /\ verdicts[j].post.seen.media.state # "quarantined"

\* A receipt names a derivative and was asked for.
ReceiptsAreBindings ==
    \A r \in 1 .. Len(receipts) :
        /\ receipts[r].derivative \in 1 .. Len(derivatives)
        /\ \E j \in 1 .. Len(verdicts) : Binds(j, receipts[r])

\* An approval is the last decision, of a photo approved, with a receipt of
\* its moderator for the one public derivative.
ApprovalHolds(i) ==
    LET post    == verdicts[i].post
        receipt == receipts[post.receipt]
    IN  /\ submission.state = "approved"
        /\ post.receipt \in 1 .. Len(receipts)
        /\ receipt.by = post.by
        /\ Public = {receipt.derivative}
        /\ verdicts[i].before.media.state = "approved_private"
        /\ \E j \in 1 .. (i - 1) : Binds(j, receipt)

ApprovalsHold ==
    /\ submission.state = "approved" => \E d \in 1 .. Len(derivatives) : Public = {d}
    /\ submission.state # "approved" => Public = {}
    /\ \A i \in 1 .. Len(verdicts) : verdicts[i].post.kind = "approve" => ApprovalHolds(i)

\* Verdicts are passed on what was seen, and the photo's once.
VerdictsHold ==
    /\ \A i \in 1 .. Len(verdicts) :
          LET post == verdicts[i].post  before == verdicts[i].before
          IN  /\ post.kind \in Decisions => post.seen.submission.state = before.submission.state
              /\ post.kind \in MediaDecisions \cup {"derivative"} =>
                    post.seen.media.state = before.media.state
              /\ post.kind \in MediaDecisions => media.state # "quarantined"
    /\ \A i, j \in 1 .. Len(verdicts) :
          verdicts[i].post.kind \in MediaDecisions /\ verdicts[j].post.kind \in MediaDecisions
             => i = j

\* What holds of the server's rows, and of tabs and messages.
ServerInv == ServerType /\ PhotoIsReviewed /\ ReceiptsAreBindings /\ ApprovalsHold /\ VerdictsHold
ClientInv == /\ ClientType /\ RecordsAreGenuine /\ PostsAreOfTheirTab
             /\ AnswersAreOfTheirTab /\ TabsHoldTheirReceipts

Inv == ServerInv /\ ClientInv

-----------------------------------------------------------------------------
(* What every step keeps.                                                  *)

\* Receipts and verdicts stay what they are; more may come.
ReceiptsKept ==
    /\ receipts' \in Seq(Receipts) /\ Len(receipts) <= Len(receipts')
    /\ \A r \in 1 .. Len(receipts) :
          receipts'[r].by = receipts[r].by /\ receipts'[r].derivative = receipts[r].derivative

VerdictsKept ==
    /\ verdicts' \in Seq(Verdicts) /\ Len(verdicts) <= Len(verdicts')
    /\ \A i \in 1 .. Len(verdicts) : verdicts'[i] = verdicts[i]

\* The rows only move forward.
RowsGrow ==
    /\ derivatives' \in Seq(Rows) /\ Len(derivatives) <= Len(derivatives')
    /\ submission' \in Rows /\ submission'.version >= submission.version
    /\ submission'.version = submission.version => submission'.state = submission.state

LEMMA Lengths ==
    ASSUME ServerType
    PROVE  /\ Len(derivatives) \in Nat /\ DOMAIN derivatives = 1 .. Len(derivatives)
           /\ Len(receipts) \in Nat /\ DOMAIN receipts = 1 .. Len(receipts)
           /\ Len(verdicts) \in Nat /\ DOMAIN verdicts = 1 .. Len(verdicts)
BY DEF ServerType

\* Nothing changes on the server.
LEMMA ServerKept ==
    ASSUME ServerInv, UNCHANGED <<submission, media, derivatives, receipts, verdicts>>
    PROVE  ServerInv' /\ ReceiptsKept /\ RowsGrow
<1>1. ServerType' /\ PhotoIsReviewed'
  BY DEF ServerInv, ServerType, PhotoIsReviewed
<1>2. ReceiptsAreBindings'
  BY DEF ServerInv, ReceiptsAreBindings, Binds
<1>3. ApprovalsHold'
  BY DEF ServerInv, ApprovalsHold, ApprovalHolds, Public, Binds
<1>4. VerdictsHold'
  BY DEF ServerInv, VerdictsHold
<1>5. ReceiptsKept /\ RowsGrow
  BY DEF ServerInv, ServerType, ReceiptsKept, RowsGrow, Rows
<1> QED
  BY <1>1, <1>2, <1>3, <1>4, <1>5 DEF ServerInv

\* What was bound stays bound.
LEMMA BindsKept ==
    ASSUME VerdictsKept, NEW j \in 1 .. Len(verdicts), NEW r, NEW s, Binds(j, r),
           s.by = r.by, s.derivative = r.derivative
    PROVE  /\ verdicts'[j].post.kind = "binding" /\ verdicts'[j].post.by = s.by
           /\ verdicts'[j].post.seen.latest = s.derivative
           /\ verdicts'[j].post.seen.media.state # "quarantined"
BY DEF VerdictsKept, Binds

\* Old receipts stay bindings.
LEMMA BindingsKept ==
    ASSUME ServerInv, ReceiptsKept, VerdictsKept, derivatives' \in Seq(Rows),
           Len(derivatives) <= Len(derivatives')
    PROVE  \A r \in 1 .. Len(receipts) :
               /\ receipts'[r].derivative \in 1 .. Len(derivatives')
               /\ \E j \in 1 .. Len(verdicts') : Binds(j, receipts[r])'
<1> SUFFICES ASSUME NEW r \in 1 .. Len(receipts)
             PROVE  /\ receipts'[r].derivative \in 1 .. Len(derivatives')
                    /\ \E j \in 1 .. Len(verdicts') : Binds(j, receipts[r])'
  OBVIOUS
<1>1. /\ Len(derivatives) \in Nat /\ Len(derivatives') \in Nat /\ Len(verdicts) \in Nat
      /\ Len(verdicts') \in Nat /\ Len(verdicts) <= Len(verdicts')
  BY Lengths DEF ServerInv, VerdictsKept
<1>2. receipts'[r].by = receipts[r].by /\ receipts'[r].derivative = receipts[r].derivative
  BY DEF ReceiptsKept
<1>3. PICK j \in 1 .. Len(verdicts) : Binds(j, receipts[r])
  BY DEF ServerInv, ReceiptsAreBindings
<1>4. Binds(j, receipts[r])'
  BY <1>2, <1>3, BindsKept DEF Binds
<1>5. receipts[r].derivative \in 1 .. Len(derivatives)
  BY DEF ServerInv, ReceiptsAreBindings
<1> QED
  BY <1>1, <1>2, <1>4, <1>5

\* Approvals stay what they are while the submission and the public
\* derivatives do.
LEMMA ApprovalsKept ==
    ASSUME ServerInv, ReceiptsKept, VerdictsKept, submission' = submission,
           Public' = Public, derivatives' \in Seq(Rows), Len(derivatives) <= Len(derivatives'),
           \A i \in 1 .. Len(verdicts') :
               i > Len(verdicts) => verdicts'[i].post.kind # "approve"
    PROVE  ApprovalsHold'
<1>1. /\ Len(derivatives) \in Nat /\ Len(derivatives') \in Nat /\ Len(verdicts) \in Nat
      /\ Len(verdicts') \in Nat /\ Len(receipts) \in Nat /\ Len(receipts') \in Nat
      /\ Len(receipts) <= Len(receipts')
  BY Lengths DEF ServerInv, VerdictsKept, ReceiptsKept
<1>2. /\ submission'.state = "approved" => \E d \in 1 .. Len(derivatives') : Public' = {d}
      /\ submission'.state # "approved" => Public' = {}
  BY <1>1 DEF ServerInv, ApprovalsHold
<1>3. ASSUME NEW i \in 1 .. Len(verdicts'), verdicts'[i].post.kind = "approve"
      PROVE  ApprovalHolds(i)'
  <2>1. i \in 1 .. Len(verdicts) /\ verdicts'[i] = verdicts[i]
    BY <1>1, <1>3 DEF VerdictsKept
  <2>2. ApprovalHolds(i)
    BY <1>3, <2>1 DEF ServerInv, ApprovalsHold
  <2> DEFINE q == verdicts[i].post.receipt
  <2>2a. q \in 1 .. Len(receipts)
    BY <2>2 DEF ApprovalHolds
  <2> HIDE DEF q
  <2>3. /\ q \in 1 .. Len(receipts) /\ q \in 1 .. Len(receipts')
        /\ receipts'[q].by = receipts[q].by /\ receipts'[q].derivative = receipts[q].derivative
    BY <1>1, <2>2a DEF ReceiptsKept
  <2> USE DEF q
  <2>4. PICK j \in 1 .. (i - 1) : Binds(j, receipts[q])
    BY <2>2 DEF ApprovalHolds
  <2>5. j \in 1 .. Len(verdicts)
    BY <1>1, <2>1
  <2>6. /\ verdicts'[j].post.kind = "binding" /\ verdicts'[j].post.by = receipts'[q].by
        /\ verdicts'[j].post.seen.latest = receipts'[q].derivative
        /\ verdicts'[j].post.seen.media.state # "quarantined"
    BY <2>3, <2>4, <2>5, BindsKept
  <2>7. /\ submission.state = "approved" /\ receipts[q].by = verdicts[i].post.by
        /\ Public = {receipts[q].derivative}
        /\ verdicts[i].before.media.state = "approved_private"
    BY <2>2 DEF ApprovalHolds
  <2> QED
    BY <2>1, <2>3, <2>6, <2>7 DEF ApprovalHolds, Binds
<1> QED
  BY <1>2, <1>3 DEF ApprovalsHold

\* A verdict more, passed on what was seen; the photo's only verdict.
LEMMA SightKept ==
    ASSUME ServerInv, VerdictsKept, Len(verdicts') <= Len(verdicts) + 1,
           media.state # "quarantined" => media'.state # "quarantined",
           NEW v, Len(verdicts') = Len(verdicts) + 1 => verdicts'[Len(verdicts) + 1] = v,
           v.post.kind \in Decisions =>
               v.post.seen.submission.state = v.before.submission.state,
           v.post.kind \in MediaDecisions \cup {"derivative"} =>
               v.post.seen.media.state = v.before.media.state,
           v.post.kind \in MediaDecisions =>
               media.state = "quarantined" /\ media'.state # "quarantined"
    PROVE  VerdictsHold'
<1>1. Len(verdicts) \in Nat /\ Len(verdicts') \in Nat
  BY Lengths DEF ServerInv, VerdictsKept
<1>2. \A i \in 1 .. Len(verdicts') :
          \/ i \in 1 .. Len(verdicts) /\ verdicts'[i] = verdicts[i]
          \/ i = Len(verdicts) + 1 /\ verdicts'[i] = v
  BY <1>1 DEF VerdictsKept
<1>3. \A i \in 1 .. Len(verdicts) :
          verdicts[i].post.kind \in MediaDecisions => media.state # "quarantined"
  BY DEF ServerInv, VerdictsHold
<1>4. \A i \in 1 .. Len(verdicts') :
          LET post == verdicts'[i].post  before == verdicts'[i].before
          IN  /\ post.kind \in Decisions => post.seen.submission.state = before.submission.state
              /\ post.kind \in MediaDecisions \cup {"derivative"} =>
                    post.seen.media.state = before.media.state
              /\ post.kind \in MediaDecisions => media'.state # "quarantined"
  BY <1>2, <1>3 DEF ServerInv, VerdictsHold
<1>5. \A i, j \in 1 .. Len(verdicts') :
          verdicts'[i].post.kind \in MediaDecisions /\ verdicts'[j].post.kind \in MediaDecisions
             => i = j
  BY <1>1, <1>2, <1>3 DEF ServerInv, VerdictsHold
<1> QED
  BY <1>4, <1>5 DEF VerdictsHold

-----------------------------------------------------------------------------
(* The server's steps.                                                     *)

\* The record a GET answers is genuine.
LEMMA RecordNow ==
    ASSUME ServerInv
    PROVE  Record \in Records /\ Genuine(Record)
<1>1. /\ submission \in Rows /\ media \in Rows /\ derivatives \in Seq(Rows)
      /\ Len(derivatives) \in Nat /\ PhotoIsReviewed
  BY Lengths DEF ServerInv, ServerType
<1>2. NoRow \in Rows
  BY DEF NoRow, Rows
<1>3. Record.derivative \in Rows
  <2>1. CASE derivatives = << >>
    BY <1>2, <2>1 DEF Record
  <2>2. CASE derivatives # << >>
    <3>1. Len(derivatives) \in 1 .. Len(derivatives)
      BY <1>1, <2>2
    <3>2. derivatives[Len(derivatives)] \in Rows
      BY <1>1, <3>1
    <3> QED
      BY <2>2, <3>2 DEF Record
  <2> QED
    BY <2>1, <2>2
<1>4. Record \in Records
  BY <1>1, <1>3 DEF Record, Records
<1>5. /\ Record.latest = Len(derivatives) /\ Record.media = media
      /\ Record.submission = submission
  BY DEF Record
<1>6. submission.version \in Nat
  BY <1>1 DEF Rows
<1> QED
  BY <1>1, <1>4, <1>5, <1>6 DEF Genuine, PhotoIsReviewed

\* A recorded request appends its verdict.
LEMMA VerdictAppended ==
    ASSUME ServerInv, NEW p \in Posts,
           verdicts' = Append(verdicts, [post |-> p, before |-> Record])
    PROVE  /\ VerdictsKept /\ Len(verdicts') = Len(verdicts) + 1
           /\ verdicts'[Len(verdicts) + 1].post = p
           /\ verdicts'[Len(verdicts) + 1].before.submission = submission
           /\ verdicts'[Len(verdicts) + 1].before.media = media
           /\ \A i \in 1 .. Len(verdicts') : i > Len(verdicts) => verdicts'[i].post = p
<1> DEFINE v == [post |-> p, before |-> Record]
<1>1. verdicts \in Seq(Verdicts) /\ Len(verdicts) \in Nat
  BY Lengths DEF ServerInv, ServerType
<1>2. v \in Verdicts /\ v.post = p /\ v.before.submission = submission /\ v.before.media = media
  BY RecordNow DEF Verdicts, Record
<1> HIDE DEF v
<1>3. /\ verdicts' \in Seq(Verdicts) /\ Len(verdicts') = Len(verdicts) + 1
      /\ verdicts'[Len(verdicts) + 1] = v
      /\ \A i \in 1 .. Len(verdicts) : verdicts'[i] = verdicts[i]
  BY <1>1, <1>2 DEF v
<1>4. VerdictsKept
  BY <1>1, <1>3 DEF VerdictsKept
<1>5. \A i \in 1 .. Len(verdicts') : i > Len(verdicts) => i = Len(verdicts) + 1
  BY <1>1, <1>3
<1> QED
  BY <1>2, <1>3, <1>4, <1>5

\* What a recorded decision has passed.
LEMMA ModerationFacts ==
    ASSUME NEW p \in Posts, ModerationAnswer(p) = "recorded"
    PROVE  /\ p.expected.version = submission.version
           /\ NextState(p.kind) \in SubmissionTransitions[submission.state]
           /\ p.kind = "approve" => media.state = "approved_private" /\ ReceiptHolds(p)
BY DEF ModerationAnswer

\* A decision is passed on the state its tab showed, never on an approved
\* submission, and only an approval approves.
LEMMA DecisionFacts ==
    ASSUME Inv, NEW p \in wire, p.kind \in Decisions, ModerationAnswer(p) = "recorded",
           Moderate(p)
    PROVE  /\ p.seen.submission.state = submission.state
           /\ submission.state # "approved"
           /\ submission' \in Rows /\ submission'.state \in SubmissionStates
           /\ submission'.version = submission.version + 1 /\ submission'.version > 0
           /\ submission'.state = "approved" <=> p.kind = "approve"
<1>1. /\ p \in Posts /\ Asked(p) /\ Genuine(p.seen) /\ p.expected = p.seen.submission
  BY DEF Inv, ClientInv, ClientType, PostsAreOfTheirTab, Asked, RecordsAreGenuine
<1>2. /\ p.expected.version = submission.version
      /\ NextState(p.kind) \in SubmissionTransitions[submission.state]
  BY <1>1, ModerationFacts
<1>3. submission \in Rows /\ submission.state \in SubmissionStates /\ submission.version \in Nat
  BY DEF Inv, ServerInv, ServerType, Rows
<1>4. p.seen.submission.state = submission.state
  BY <1>1, <1>2 DEF Genuine
<1>5. submission.state # "approved"
  BY <1>2, <1>3 DEF SubmissionTransitions, SubmissionStates
<1>6. /\ NextState(p.kind) \in SubmissionStates
      /\ NextState(p.kind) = "approved" <=> p.kind = "approve"
  BY DEF NextState, Decisions, SubmissionStates
<1>7. submission' = [state |-> NextState(p.kind), version |-> submission.version + 1]
  BY DEF Moderate
<1>8. /\ submission'.state = NextState(p.kind)
      /\ submission'.version = submission.version + 1
  BY <1>7
<1>9. submission' \in Rows
  BY <1>3, <1>6, <1>7 DEF Rows
<1> QED
  BY <1>3, <1>4, <1>5, <1>6, <1>8, <1>9

\* An approval makes the derivative of its receipt public, the first and only
\* one.
LEMMA ApproveStep ==
    ASSUME Inv, NEW p \in wire, p.kind = "approve", ModerationAnswer(p) = "recorded",
           Moderate(p), verdicts' = Append(verdicts, [post |-> p, before |-> Record])
    PROVE  ServerInv' /\ ReceiptsKept /\ RowsGrow
<1> DEFINE r == p.receipt
           d == receipts[r].derivative
<1>1. p \in Posts /\ p.receipt <= Len(receipts) /\ p.receipt \in Nat /\ p.kind \in Decisions
  BY DEF Inv, ClientInv, ClientType, PostsAreOfTheirTab, Posts, Decisions
<1>2. /\ ServerInv /\ ServerType /\ receipts \in Seq(Receipts) /\ derivatives \in Seq(Rows)
      /\ Len(receipts) \in Nat /\ Len(derivatives) \in Nat
      /\ media \in Rows
  BY Lengths DEF Inv, ServerInv, ServerType
<1>3. /\ submission.state # "approved" /\ submission' \in Rows
      /\ submission'.state \in SubmissionStates
      /\ submission'.version = submission.version + 1 /\ submission'.version > 0
      /\ submission'.state = "approved"
      /\ p.seen.submission.state = submission.state
  BY <1>1, DecisionFacts
<1>4. /\ media.state = "approved_private" /\ r # 0 /\ receipts[r].by = p.by
      /\ derivatives[d] = [state |-> "redacted_derivative", version |-> receipts[r].version]
  BY <1>1, ModerationFacts DEF ReceiptHolds
<1>5. /\ r \in 1 .. Len(receipts) /\ d \in 1 .. Len(derivatives)
      /\ derivatives[d].state = "redacted_derivative" /\ derivatives[d] \in Rows
      /\ receipts[r] \in Receipts
  BY <1>1, <1>2, <1>4 DEF ServerInv, ReceiptsAreBindings
<1>6. /\ receipts' = [receipts EXCEPT ![r].state = "consumed"]
      /\ derivatives' = [derivatives EXCEPT ![d] = [state   |-> "approved_public",
                                                    version |-> derivatives[d].version + 1]]
      /\ media' = media
  BY <1>5 DEF Moderate
<1>7. /\ receipts' \in Seq(Receipts) /\ Len(receipts') = Len(receipts)
      /\ \A q \in 1 .. Len(receipts) :
            receipts'[q].by = receipts[q].by /\ receipts'[q].derivative = receipts[q].derivative
  <2> DEFINE new == [receipts[r] EXCEPT !.state = "consumed"]
  <2>1. /\ new \in Receipts /\ new.by = receipts[r].by /\ new.derivative = receipts[r].derivative
    BY <1>5 DEF Receipts
  <2>2. receipts' = [receipts EXCEPT ![r] = new]
    BY <1>6
  <2> HIDE DEF new, r
  <2> QED
    BY <1>2, <1>5, <2>1, <2>2
<1>8. /\ derivatives' \in Seq(Rows) /\ Len(derivatives') = Len(derivatives)
      /\ derivatives'[d].state = "approved_public"
      /\ \A e \in 1 .. Len(derivatives) : e # d => derivatives'[e] = derivatives[e]
  <2> DEFINE new == [state |-> "approved_public", version |-> derivatives[d].version + 1]
  <2>1. new \in Rows /\ new.state = "approved_public"
    BY <1>5 DEF Rows, DerivativeStates
  <2>2. derivatives' = [derivatives EXCEPT ![d] = new]
    BY <1>6
  <2> HIDE DEF new, d
  <2> QED
    BY <1>2, <1>5, <2>1, <2>2
<1>9. Public = {}
  BY <1>2, <1>3 DEF ServerInv, ApprovalsHold
<1> HIDE DEF r, d
<1>10. Public' = {d}
  <2>1. DOMAIN derivatives' = 1 .. Len(derivatives') /\ DOMAIN derivatives = 1 .. Len(derivatives)
    BY <1>2, <1>8
  <2>2. \A e \in 1 .. Len(derivatives) : derivatives[e].state # "approved_public"
    BY <1>9, <2>1 DEF Public
  <2> QED
    BY <1>5, <1>8, <2>1, <2>2 DEF Public
<1>11. /\ VerdictsKept /\ Len(verdicts') = Len(verdicts) + 1 /\ Len(verdicts) \in Nat
       /\ verdicts'[Len(verdicts) + 1].post = p
       /\ verdicts'[Len(verdicts) + 1].before.submission = submission
       /\ verdicts'[Len(verdicts) + 1].before.media = media
       /\ \A i \in 1 .. Len(verdicts') : i > Len(verdicts) => verdicts'[i].post = p
  BY <1>1, <1>2, Lengths, VerdictAppended
<1>12. ReceiptsKept /\ RowsGrow
  <2>1. submission.version \in Nat
    BY <1>2 DEF ServerType, Rows
  <2> QED
    BY <1>2, <1>3, <1>7, <1>8, <2>1 DEF ReceiptsKept, RowsGrow
<1>13. ServerType' /\ PhotoIsReviewed'
  <2>1. \A e \in 1 .. Len(derivatives') : derivatives'[e].state \in DerivativeStates
    BY <1>2, <1>8 DEF ServerType, DerivativeStates
  <2> QED
    BY <1>2, <1>3, <1>4, <1>6, <1>7, <1>8, <1>11, <2>1
       DEF ServerType, PhotoIsReviewed, VerdictsKept
<1>14. \A q \in 1 .. Len(receipts) :
           /\ receipts'[q].derivative \in 1 .. Len(derivatives')
           /\ \E j \in 1 .. Len(verdicts') : Binds(j, receipts[q])'
  BY <1>2, <1>8, <1>11, <1>12, BindingsKept
<1>15. ReceiptsAreBindings'
  BY <1>7, <1>14 DEF ReceiptsAreBindings
<1>16. \A i \in 1 .. Len(verdicts) : verdicts[i].post.kind # "approve"
  BY <1>2, <1>3 DEF ServerInv, ApprovalsHold, ApprovalHolds
<1>17. ASSUME NEW i \in 1 .. Len(verdicts'), verdicts'[i].post.kind = "approve"
       PROVE  ApprovalHolds(i)'
  <2>1. i = Len(verdicts) + 1
    BY <1>11, <1>16, <1>17 DEF VerdictsKept
  <2>2. PICK j \in 1 .. Len(verdicts) : Binds(j, receipts[r])
    BY <1>2, <1>5 DEF ServerInv, ReceiptsAreBindings
  <2>3. /\ verdicts'[j].post.kind = "binding" /\ verdicts'[j].post.by = receipts'[r].by
        /\ verdicts'[j].post.seen.latest = receipts'[r].derivative
        /\ verdicts'[j].post.seen.media.state # "quarantined"
    BY <1>5, <1>7, <1>11, <2>2, BindsKept
  <2>4. j \in 1 .. (i - 1)
    BY <1>11, <2>1
  <2>5. /\ verdicts'[i].post = p /\ verdicts'[i].before.media = media
    BY <1>11, <2>1
  <2>6. /\ r \in 1 .. Len(receipts') /\ receipts'[r].by = p.by
        /\ receipts'[r].derivative = d /\ p.receipt = r
    BY <1>4, <1>5, <1>7 DEF r, d
  <2> QED
    BY <1>3, <1>4, <1>10, <2>3, <2>4, <2>5, <2>6 DEF ApprovalHolds, Binds
<1>18. ApprovalsHold'
  BY <1>3, <1>5, <1>8, <1>10, <1>17 DEF ApprovalsHold
<1>19. VerdictsHold'
  <2> DEFINE v == verdicts'[Len(verdicts) + 1]
  <2>1. /\ v.post = p /\ v.before.submission = submission /\ v.before.media = media
    BY <1>11
  <2>2. p.kind \notin MediaDecisions \cup {"derivative"}
    BY DEF MediaDecisions
  <2> HIDE DEF v
  <2> QED
    BY <1>2, <1>3, <1>6, <1>11, <2>1, <2>2, SightKept DEF v
<1> QED
  BY <1>12, <1>13, <1>15, <1>18, <1>19 DEF ServerInv

\* Any other decision leaves photo, derivatives and receipts alone.
LEMMA DecisionStep ==
    ASSUME Inv, NEW p \in wire, p.kind \in Decisions \ {"approve"},
           ModerationAnswer(p) = "recorded",
           Moderate(p), verdicts' = Append(verdicts, [post |-> p, before |-> Record])
    PROVE  ServerInv' /\ ReceiptsKept /\ RowsGrow
<1>1. p \in Posts
  BY DEF Inv, ClientInv, ClientType
<1>2. /\ ServerInv /\ ServerType /\ Len(verdicts) \in Nat /\ submission.version \in Nat
  BY Lengths DEF Inv, ServerInv, ServerType, Rows
<1>3. /\ submission.state # "approved" /\ submission' \in Rows
      /\ submission'.state \in SubmissionStates
      /\ submission'.version = submission.version + 1 /\ submission'.version > 0
      /\ submission'.state # "approved"
      /\ p.seen.submission.state = submission.state
  BY DecisionFacts
<1>4. UNCHANGED <<media, derivatives, receipts>>
  BY DEF Moderate
<1>5. /\ VerdictsKept /\ Len(verdicts') = Len(verdicts) + 1
      /\ verdicts'[Len(verdicts) + 1].post = p
      /\ verdicts'[Len(verdicts) + 1].before.submission = submission
      /\ verdicts'[Len(verdicts) + 1].before.media = media
      /\ \A i \in 1 .. Len(verdicts') : i > Len(verdicts) => verdicts'[i].post = p
  BY <1>1, <1>2, VerdictAppended
<1>6. ReceiptsKept /\ RowsGrow
  BY <1>2, <1>3, <1>4 DEF ServerType, ReceiptsKept, RowsGrow
<1>7. ServerType' /\ PhotoIsReviewed'
  BY <1>2, <1>3, <1>4, <1>5 DEF ServerInv, ServerType, PhotoIsReviewed, VerdictsKept
<1>8. ReceiptsAreBindings'
  <2>1. \A q \in 1 .. Len(receipts) :
           /\ receipts'[q].derivative \in 1 .. Len(derivatives')
           /\ \E j \in 1 .. Len(verdicts') : Binds(j, receipts[q])'
    BY <1>2, <1>5, <1>6, BindingsKept DEF RowsGrow
  <2> QED
    BY <1>4, <2>1 DEF ReceiptsAreBindings
<1>9. ApprovalsHold'
  <2>1. \A i \in 1 .. Len(verdicts) : verdicts[i].post.kind # "approve"
    BY <1>2, <1>3 DEF ServerInv, ApprovalsHold, ApprovalHolds
  <2>2. \A i \in 1 .. Len(verdicts') : verdicts'[i].post.kind # "approve"
    BY <1>2, <1>5, <2>1 DEF VerdictsKept
  <2>3. Public' = {}
    BY <1>2, <1>3, <1>4 DEF ServerInv, ApprovalsHold, Public
  <2> QED
    BY <1>3, <2>2, <2>3 DEF ApprovalsHold
<1>10. VerdictsHold'
  <2> DEFINE v == verdicts'[Len(verdicts) + 1]
  <2>1. /\ v.post = p /\ v.before.submission = submission /\ v.before.media = media
    BY <1>5
  <2>2. p.kind \notin MediaDecisions \cup {"derivative"}
    BY DEF MediaDecisions, Decisions
  <2> HIDE DEF v
  <2> QED
    BY <1>2, <1>3, <1>4, <1>5, <2>1, <2>2, SightKept DEF v
<1> QED
  BY <1>6, <1>7, <1>8, <1>9, <1>10 DEF ServerInv

\* What a recorded media request has passed: its row is as it was seen.
LEMMA ReviewStep ==
    ASSUME Inv, NEW p \in wire, p.kind \in MediaDecisions, MediaCurrent(p, media),
           ReviewMedia(p), verdicts' = Append(verdicts, [post |-> p, before |-> Record])
    PROVE  ServerInv' /\ ReceiptsKept /\ RowsGrow
<1>1. p \in Posts /\ p.expected = p.seen.media /\ p.expected.state = "quarantined"
  BY DEF Inv, ClientInv, ClientType, PostsAreOfTheirTab, Asked
<1>2. /\ ServerInv /\ ServerType /\ Len(verdicts) \in Nat /\ media.version \in Nat
      /\ Len(derivatives) \in Nat
  BY Lengths DEF Inv, ServerInv, ServerType, Rows
<1>3. media = p.seen.media /\ media.state = "quarantined"
  BY <1>1 DEF MediaCurrent
<1>4. /\ UNCHANGED <<submission, derivatives, receipts>>
      /\ media' \in Rows /\ media'.state \in {"approved_private", "rejected"}
  BY <1>2 DEF ReviewMedia, Rows, MediaStates, SubmissionStates
<1>5. /\ VerdictsKept /\ Len(verdicts') = Len(verdicts) + 1
      /\ verdicts'[Len(verdicts) + 1].post = p
      /\ verdicts'[Len(verdicts) + 1].before.media = media
      /\ \A i \in 1 .. Len(verdicts') : i > Len(verdicts) => verdicts'[i].post = p
  BY <1>1, <1>2, VerdictAppended
<1>6. ReceiptsKept /\ RowsGrow
  BY <1>2, <1>4 DEF ServerType, ReceiptsKept, RowsGrow, Rows
<1>7. ServerType' /\ PhotoIsReviewed'
  BY <1>2, <1>4, <1>5 DEF ServerType, PhotoIsReviewed, VerdictsKept, MediaStates
<1>8. ReceiptsAreBindings'
  <2>1. \A q \in 1 .. Len(receipts) :
           /\ receipts'[q].derivative \in 1 .. Len(derivatives')
           /\ \E j \in 1 .. Len(verdicts') : Binds(j, receipts[q])'
    BY <1>2, <1>5, <1>6, BindingsKept DEF RowsGrow
  <2> QED
    BY <1>4, <2>1 DEF ReceiptsAreBindings
<1>9. ApprovalsHold'
  <2>1. Public' = Public
    BY <1>4 DEF Public
  <2>2. p.kind # "approve"
    BY DEF MediaDecisions
  <2> QED
    BY <1>2, <1>4, <1>5, <1>6, <2>1, <2>2, ApprovalsKept DEF RowsGrow
<1>10. VerdictsHold'
  <2> DEFINE v == verdicts'[Len(verdicts) + 1]
  <2>1. v.post = p /\ v.before.media = media
    BY <1>5
  <2>2. p.kind \notin Decisions
    BY DEF MediaDecisions, Decisions
  <2> HIDE DEF v
  <2> QED
    BY <1>2, <1>3, <1>4, <1>5, <2>1, <2>2, SightKept DEF v
<1> QED
  BY <1>6, <1>7, <1>8, <1>9, <1>10 DEF ServerInv

\* A derivative is made of a photo that was approved, and is not public.
LEMMA DerivativeStep ==
    ASSUME Inv, NEW p \in wire, p.kind = "derivative", MediaCurrent(p, media),
           MakeDerivative(p), verdicts' = Append(verdicts, [post |-> p, before |-> Record])
    PROVE  ServerInv' /\ ReceiptsKept /\ RowsGrow
<1>1. p \in Posts /\ p.expected = p.seen.media /\ p.expected.state = "approved_private"
  BY DEF Inv, ClientInv, ClientType, PostsAreOfTheirTab, Asked
<1>2. /\ ServerInv /\ ServerType /\ Len(verdicts) \in Nat
      /\ Len(derivatives) \in Nat /\ derivatives \in Seq(Rows)
      /\ \A d \in 1 .. Len(derivatives) : derivatives[d].state \in DerivativeStates
  BY Lengths DEF Inv, ServerInv, ServerType
<1>3. media = p.seen.media /\ media.state = "approved_private"
  BY <1>1 DEF MediaCurrent
<1> DEFINE new == [state |-> "redacted_derivative", version |-> 1]
<1>4. /\ UNCHANGED <<submission, media, receipts>> /\ derivatives' = Append(derivatives, new)
  BY DEF MakeDerivative
<1>5. new \in Rows /\ new.state = "redacted_derivative"
  BY DEF Rows, DerivativeStates
<1> HIDE DEF new
<1>6. /\ derivatives' \in Seq(Rows) /\ Len(derivatives') = Len(derivatives) + 1
      /\ \A d \in 1 .. Len(derivatives) : derivatives'[d] = derivatives[d]
      /\ derivatives'[Len(derivatives) + 1].state = "redacted_derivative"
  BY <1>2, <1>4, <1>5
<1>7. /\ VerdictsKept /\ Len(verdicts') = Len(verdicts) + 1
      /\ verdicts'[Len(verdicts) + 1].post = p
      /\ verdicts'[Len(verdicts) + 1].before.media = media
      /\ \A i \in 1 .. Len(verdicts') : i > Len(verdicts) => verdicts'[i].post = p
  BY <1>1, <1>2, VerdictAppended
<1>8. ReceiptsKept /\ RowsGrow
  BY <1>2, <1>4, <1>6 DEF ServerType, ReceiptsKept, RowsGrow, Rows
<1>9. \A d \in 1 .. Len(derivatives') :
          \/ d \in 1 .. Len(derivatives) /\ derivatives'[d] = derivatives[d]
          \/ d = Len(derivatives) + 1 /\ derivatives'[d].state = "redacted_derivative"
  BY <1>2, <1>6
<1>10. ServerType' /\ PhotoIsReviewed'
  <2>1. \A d \in 1 .. Len(derivatives') : derivatives'[d].state \in DerivativeStates
    BY <1>2, <1>9 DEF DerivativeStates
  <2> QED
    BY <1>2, <1>3, <1>4, <1>6, <1>7, <2>1 DEF ServerType, PhotoIsReviewed, VerdictsKept
<1>11. ReceiptsAreBindings'
  <2>1. \A q \in 1 .. Len(receipts) :
           /\ receipts'[q].derivative \in 1 .. Len(derivatives')
           /\ \E j \in 1 .. Len(verdicts') : Binds(j, receipts[q])'
    BY <1>2, <1>7, <1>8, BindingsKept DEF RowsGrow
  <2> QED
    BY <1>4, <2>1 DEF ReceiptsAreBindings
<1>12. ApprovalsHold'
  <2>1. Public' = Public
    <3>1. DOMAIN derivatives' = 1 .. Len(derivatives') /\ DOMAIN derivatives = 1 .. Len(derivatives)
      BY <1>2, <1>6
    <3>2. 1 .. Len(derivatives) \subseteq 1 .. Len(derivatives')
      BY <1>2, <1>6
    <3> QED
      BY <1>6, <1>9, <3>1, <3>2 DEF Public
  <2> QED
    BY <1>2, <1>4, <1>7, <1>8, <2>1, ApprovalsKept DEF RowsGrow
<1>13. VerdictsHold'
  <2> DEFINE v == verdicts'[Len(verdicts) + 1]
  <2>1. v.post = p /\ v.before.media = media
    BY <1>7
  <2>2. p.kind \notin Decisions /\ p.kind \notin MediaDecisions
    BY DEF MediaDecisions, Decisions
  <2>3. /\ v.post.kind \notin Decisions /\ v.post.kind \notin MediaDecisions
        /\ v.post.seen.media.state = v.before.media.state
    BY <1>3, <2>1, <2>2
  <2>4. /\ Len(verdicts') <= Len(verdicts) + 1 /\ media' = media
        /\ (Len(verdicts') = Len(verdicts) + 1 => verdicts'[Len(verdicts) + 1] = v)
    BY <1>2, <1>4, <1>7
  <2> HIDE DEF v
  <2> QED
    BY <1>2, <1>7, <2>3, <2>4, SightKept
<1> QED
  BY <1>8, <1>10, <1>11, <1>12, <1>13 DEF ServerInv

\* A receipt is for the derivative on the screen of the moderator who asked.
LEMMA BindingStep ==
    ASSUME Inv, NEW p \in wire, p.kind = "binding",
           IssueReceipt(p), verdicts' = Append(verdicts, [post |-> p, before |-> Record])
    PROVE  /\ ServerInv' /\ ReceiptsKept /\ RowsGrow
           /\ Len(receipts') = Len(receipts) + 1
           /\ receipts'[Len(receipts) + 1].by = p.by
<1>1. /\ p \in Posts /\ p.target = p.seen.latest /\ p.target # 0 /\ Genuine(p.seen)
      /\ p.by \in Moderators /\ p.target \in Nat /\ p.expected.version \in Nat
  BY DEF Inv, ClientInv, ClientType, PostsAreOfTheirTab, Asked, RecordsAreGenuine, Posts, Rows
<1>2. /\ ServerInv /\ ServerType /\ Len(verdicts) \in Nat /\ Len(derivatives) \in Nat
      /\ Len(receipts) \in Nat /\ receipts \in Seq(Receipts)
  BY Lengths DEF Inv, ServerInv, ServerType
<1>3. p.target \in 1 .. Len(derivatives) /\ p.seen.media.state # "quarantined"
  BY <1>1, <1>2 DEF Genuine
<1> DEFINE new == [ derivative |-> p.target, version |-> p.expected.version,
                    by |-> p.by, state |-> "active", expired |-> FALSE ]
<1>4. UNCHANGED <<submission, media, derivatives>> /\ receipts' = Append(receipts, new)
  BY DEF IssueReceipt
<1>5. new \in Receipts /\ new.by = p.by /\ new.derivative = p.target
  BY <1>1 DEF Receipts
<1> HIDE DEF new
<1>6. /\ receipts' \in Seq(Receipts) /\ Len(receipts') = Len(receipts) + 1
      /\ \A r \in 1 .. Len(receipts) : receipts'[r] = receipts[r]
      /\ receipts'[Len(receipts) + 1].by = p.by
      /\ receipts'[Len(receipts) + 1].derivative = p.target
  BY <1>2, <1>4, <1>5
<1>7. /\ VerdictsKept /\ Len(verdicts') = Len(verdicts) + 1
      /\ verdicts'[Len(verdicts) + 1].post = p
      /\ \A i \in 1 .. Len(verdicts') : i > Len(verdicts) => verdicts'[i].post = p
  BY <1>1, <1>2, VerdictAppended
<1>8. ReceiptsKept /\ RowsGrow
  BY <1>2, <1>4, <1>6 DEF ServerType, ReceiptsKept, RowsGrow, Rows
<1>9. ServerType' /\ PhotoIsReviewed'
  BY <1>2, <1>4, <1>6, <1>7 DEF ServerInv, ServerType, PhotoIsReviewed, VerdictsKept
<1>10. ReceiptsAreBindings'
  <2>1. \A q \in 1 .. Len(receipts) :
           /\ receipts'[q].derivative \in 1 .. Len(derivatives')
           /\ \E j \in 1 .. Len(verdicts') : Binds(j, receipts[q])'
    BY <1>2, <1>7, <1>8, BindingsKept DEF RowsGrow
  <2>2. PICK n \in Nat, m \in Nat : n = Len(receipts) + 1 /\ m = Len(verdicts) + 1
    BY <1>2
  <2>3. receipts'[n].derivative \in 1 .. Len(derivatives') /\ Binds(m, receipts[n])'
    BY <1>1, <1>3, <1>4, <1>6, <1>7, <2>2 DEF Binds
  <2>4. m \in 1 .. Len(verdicts') /\ \A q \in 1 .. Len(receipts') : q \in 1 .. Len(receipts) \/ q = n
    BY <1>2, <1>6, <1>7, <2>2
  <2> QED
    BY <2>1, <2>3, <2>4 DEF ReceiptsAreBindings
<1>11. ApprovalsHold'
  <2>1. Public' = Public
    BY <1>4 DEF Public
  <2> QED
    BY <1>2, <1>4, <1>7, <1>8, <2>1, ApprovalsKept DEF RowsGrow
<1>12. VerdictsHold'
  <2> DEFINE v == verdicts'[Len(verdicts) + 1]
  <2>1. v.post = p
    BY <1>7
  <2>2. p.kind \notin Decisions /\ p.kind \notin MediaDecisions \cup {"derivative"}
    BY DEF MediaDecisions, Decisions
  <2> HIDE DEF v
  <2> QED
    BY <1>2, <1>4, <1>7, <2>1, <2>2, SightKept DEF v
<1> QED
  BY <1>6, <1>8, <1>9, <1>10, <1>11, <1>12 DEF ServerInv

\* Expiries, sweeps and switches.
LEMMA FaultStep ==
    ASSUME Inv,
           \/ \E r \in DOMAIN receipts : ReceiptExpires(r)
           \/ \E d \in DOMAIN derivatives : SweepDerivative(d)
           \/ SweepMedia
           \/ \E s \in DOMAIN enabled : ToggleSwitch(s)
    PROVE  /\ ServerInv' /\ ReceiptsKept /\ RowsGrow
           /\ UNCHANGED <<tab, wire, answers, loads, sent>>
<1>1. /\ ServerInv /\ ServerType /\ Len(verdicts) \in Nat /\ Len(derivatives) \in Nat
      /\ Len(receipts) \in Nat /\ receipts \in Seq(Receipts) /\ derivatives \in Seq(Rows)
      /\ media \in Rows
      /\ DOMAIN receipts = 1 .. Len(receipts) /\ DOMAIN derivatives = 1 .. Len(derivatives)
      /\ verdicts \in Seq(Verdicts)
      /\ \A d \in 1 .. Len(derivatives) : derivatives[d].state \in DerivativeStates
  BY Lengths DEF Inv, ServerInv, ServerType
<1>2. /\ UNCHANGED <<submission, tab, wire, answers, loads, sent, verdicts>>
  BY DEF ReceiptExpires, SweepDerivative, SweepMedia, ToggleSwitch, Fault
<1>3. VerdictsKept /\ Len(verdicts') = Len(verdicts)
  BY <1>1, <1>2 DEF VerdictsKept
<1>4. ASSUME receipts' \in Seq(Receipts), Len(receipts') = Len(receipts),
             \A r \in 1 .. Len(receipts) :
                receipts'[r].by = receipts[r].by /\ receipts'[r].derivative = receipts[r].derivative,
             derivatives' \in Seq(Rows), Len(derivatives') = Len(derivatives),
             \A d \in 1 .. Len(derivatives') : derivatives'[d].state \in DerivativeStates,
             Public' = Public, media' \in Rows, media'.state \in MediaStates,
             media.state # "quarantined" => media'.state # "quarantined"
      PROVE  ServerInv' /\ ReceiptsKept /\ RowsGrow
  <2>1. ReceiptsKept /\ RowsGrow
    BY <1>1, <1>2, <1>4 DEF ServerType, ReceiptsKept, RowsGrow, Rows
  <2>2. ServerType' /\ PhotoIsReviewed'
    BY <1>1, <1>2, <1>4 DEF ServerInv, ServerType, PhotoIsReviewed
  <2>3. ReceiptsAreBindings'
    <3>1. \A q \in 1 .. Len(receipts) :
             /\ receipts'[q].derivative \in 1 .. Len(derivatives')
             /\ \E j \in 1 .. Len(verdicts') : Binds(j, receipts[q])'
      BY <1>1, <1>3, <2>1, BindingsKept DEF RowsGrow
    <3> QED
      BY <1>4, <3>1 DEF ReceiptsAreBindings
  <2>4. ApprovalsHold'
    <3>1. \A i \in 1 .. Len(verdicts') : ~(i > Len(verdicts))
      BY <1>1, <1>3
    <3> QED
      BY <1>1, <1>2, <1>3, <1>4, <2>1, <3>1, ApprovalsKept DEF RowsGrow
  <2>5. VerdictsHold'
    BY <1>1, <1>2, <1>4 DEF ServerInv, VerdictsHold
  <2> QED
    BY <2>1, <2>2, <2>3, <2>4, <2>5 DEF ServerInv
<1>5. ASSUME NEW r \in DOMAIN receipts, ReceiptExpires(r)
      PROVE  ServerInv' /\ ReceiptsKept /\ RowsGrow
  <2> DEFINE new == [receipts[r] EXCEPT !.expired = TRUE]
  <2>1. /\ receipts' = [receipts EXCEPT ![r] = new] /\ UNCHANGED <<media, derivatives>>
    BY <1>5 DEF ReceiptExpires
  <2>2. receipts[r] \in Receipts
    BY <1>1, <1>5
  <2>3. /\ new \in Receipts /\ new.by = receipts[r].by /\ new.derivative = receipts[r].derivative
    BY <2>2 DEF Receipts
  <2> HIDE DEF new
  <2>4. /\ receipts' \in Seq(Receipts) /\ Len(receipts') = Len(receipts)
        /\ \A q \in 1 .. Len(receipts) :
              receipts'[q].by = receipts[q].by /\ receipts'[q].derivative = receipts[q].derivative
    BY <1>1, <1>5, <2>1, <2>3
  <2>5. Public' = Public /\ media'.state \in MediaStates
    BY <1>1, <2>1 DEF Public, ServerType
  <2> QED
    BY <1>1, <1>4, <2>1, <2>4, <2>5
<1>6. ASSUME NEW d \in DOMAIN derivatives, SweepDerivative(d)
      PROVE  ServerInv' /\ ReceiptsKept /\ RowsGrow
  <2> DEFINE new == [state |-> "deleted", version |-> derivatives[d].version + 1]
  <2>1. /\ derivatives' = [derivatives EXCEPT ![d] = new] /\ UNCHANGED <<media, receipts>>
        /\ derivatives[d].state = "redacted_derivative" /\ derivatives[d] \in Rows
    BY <1>1, <1>6 DEF SweepDerivative
  <2>2. new \in Rows /\ new.state = "deleted"
    BY <2>1 DEF Rows, DerivativeStates
  <2> HIDE DEF new
  <2>3. /\ derivatives' \in Seq(Rows) /\ Len(derivatives') = Len(derivatives)
        /\ DOMAIN derivatives' = DOMAIN derivatives
        /\ derivatives'[d].state = "deleted"
        /\ \A e \in 1 .. Len(derivatives) : e # d => derivatives'[e] = derivatives[e]
    BY <1>1, <1>6, <2>1, <2>2
  <2>4. \A e \in 1 .. Len(derivatives') : derivatives'[e].state \in DerivativeStates
    BY <1>1, <2>3 DEF DerivativeStates
  <2>5. Public' = Public
    BY <1>1, <2>1, <2>3 DEF Public
  <2>6. media'.state \in MediaStates
    BY <1>1, <2>1 DEF ServerType
  <2> QED
    BY <1>1, <1>4, <2>1, <2>3, <2>4, <2>5, <2>6
<1>7. ASSUME SweepMedia
      PROVE  ServerInv' /\ ReceiptsKept /\ RowsGrow
  <2>1. /\ media' = [state |-> "deleted", version |-> media.version + 1]
        /\ UNCHANGED <<derivatives, receipts>>
    BY <1>7 DEF SweepMedia
  <2>2. media' \in Rows /\ media'.state \in MediaStates /\ media'.state # "quarantined"
    BY <1>1, <2>1 DEF Rows, MediaStates
  <2>3. Public' = Public
    BY <2>1 DEF Public
  <2>4. /\ receipts' \in Seq(Receipts) /\ Len(receipts') = Len(receipts)
        /\ \A r \in 1 .. Len(receipts) :
              receipts'[r].by = receipts[r].by /\ receipts'[r].derivative = receipts[r].derivative
    BY <1>1, <2>1
  <2>5. /\ derivatives' \in Seq(Rows) /\ Len(derivatives') = Len(derivatives)
        /\ \A d \in 1 .. Len(derivatives') : derivatives'[d].state \in DerivativeStates
    BY <1>1, <2>1
  <2> QED
    BY <1>4, <2>2, <2>3, <2>4, <2>5
<1>8. ASSUME NEW s \in DOMAIN enabled, ToggleSwitch(s)
      PROVE  ServerInv' /\ ReceiptsKept /\ RowsGrow
  BY <1>1, <1>2, <1>8, ServerKept DEF ToggleSwitch
<1> QED
  BY <1>2, <1>5, <1>6, <1>7, <1>8

\* A request's answer: what is recorded has passed the checks of its kind and
\* has its effect.
LEMMA AnswerFacts ==
    ASSUME NEW p \in Posts, Answer(p) = "recorded"
    PROVE  /\ p.kind \in Decisions => ModerationAnswer(p) = "recorded"
           /\ p.kind \in MediaDecisions \cup {"derivative"} => MediaCurrent(p, media)
BY DEF Answer, Decisions, MediaDecisions

LEMMA EffectFacts ==
    ASSUME NEW p \in Posts, Effect(p)
    PROVE  /\ p.kind \in Decisions => Moderate(p)
           /\ p.kind \in MediaDecisions => ReviewMedia(p)
           /\ p.kind = "derivative" => MakeDerivative(p)
           /\ p.kind = "binding" => IssueReceipt(p)
BY DEF Effect, Decisions, MediaDecisions

\* An answer to a request may carry a receipt of the moderator who asked.
Answers(a, p) ==
    /\ a.key = p.key /\ a.receipt \in Nat /\ a.receipt <= Len(receipts)
    /\ a.receipt # 0 => receipts[a.receipt].by = p.by

LEMMA DeliverStep ==
    ASSUME Inv, NEW p \in wire, Deliver(p)
    PROVE  /\ ServerInv' /\ ReceiptsKept /\ RowsGrow
           /\ UNCHANGED <<tab, loads, sent>> /\ wire' \subseteq wire
           /\ \A a \in answers' : a \in answers \/ Answers(a, p)'
<1>1. p \in Posts /\ p.kind \in Kinds
  BY DEF Inv, ClientInv, ClientType, Posts
<1>2. ServerInv /\ Len(receipts) \in Nat
  BY Lengths DEF Inv, ServerInv
<1>3. UNCHANGED <<tab, loads, sent>> /\ wire' \subseteq wire
  BY DEF Deliver
<1> DEFINE result == Answer(p)
           made   == p.kind = "binding" /\ result = "recorded"
<1>4. ServerInv' /\ ReceiptsKept /\ RowsGrow
      /\ (made => Len(receipts') = Len(receipts) + 1 /\ receipts'[Len(receipts) + 1].by = p.by)
  <2>1. CASE result = "recorded"
    <3>1. Effect(p) /\ verdicts' = Append(verdicts, [post |-> p, before |-> Record])
      BY <2>1 DEF Deliver
    <3>2. CASE p.kind = "approve"
      <4>1. p.kind \in Decisions /\ p.kind # "binding"
        BY <3>2 DEF Decisions
      <4> QED
        BY <1>1, <2>1, <3>1, <3>2, <4>1, AnswerFacts, EffectFacts, ApproveStep
    <3>3. CASE p.kind \in Decisions \ {"approve"}
      <4>1. p.kind # "binding"
        BY <3>3 DEF Decisions
      <4> QED
        BY <1>1, <2>1, <3>1, <3>3, <4>1, AnswerFacts, EffectFacts, DecisionStep
    <3>4. CASE p.kind \in MediaDecisions
      <4>1. p.kind # "binding"
        BY <3>4 DEF MediaDecisions
      <4> QED
        BY <1>1, <2>1, <3>1, <3>4, <4>1, AnswerFacts, EffectFacts, ReviewStep
    <3>5. CASE p.kind = "derivative"
      BY <1>1, <2>1, <3>1, <3>5, AnswerFacts, EffectFacts, DerivativeStep
    <3>6. CASE p.kind = "binding"
      BY <1>1, <2>1, <3>1, <3>6, EffectFacts, BindingStep
    <3> QED
      BY <1>1, <3>2, <3>3, <3>4, <3>5, <3>6 DEF Kinds
  <2>2. CASE result # "recorded"
    <3>1. UNCHANGED <<submission, media, derivatives, receipts, verdicts>>
      BY <2>2 DEF Deliver
    <3> QED
      BY <1>2, <2>2, <3>1, ServerKept
  <2> QED
    BY <2>1, <2>2
<1>5. ASSUME NEW a \in answers', a \notin answers
      PROVE  Answers(a, p)'
  <2>1. a = [key |-> p.key, kind |-> p.kind, result |-> result,
             receipt |-> IF made THEN Len(receipts) + 1 ELSE 0]
    BY <1>5 DEF Deliver
  <2>2. a.key = p.key /\ a.receipt = IF made THEN Len(receipts) + 1 ELSE 0
    BY <2>1
  <2>3. Len(receipts') \in Nat
    BY <1>4, Lengths DEF ReceiptsKept
  <2> HIDE DEF made
  <2> QED
    BY <1>2, <1>4, <2>2, <2>3 DEF Answers
<1> QED
  BY <1>3, <1>4, <1>5

-----------------------------------------------------------------------------
(* The tabs.                                                               *)

\* A record that was read stays one that was read.
LEMMA GenuineKept ==
    ASSUME ServerInv, RowsGrow, NEW r \in Records, Genuine(r)
    PROVE  Genuine(r)'
<1>1. /\ Len(derivatives) \in Nat /\ Len(derivatives') \in Nat
      /\ Len(derivatives) <= Len(derivatives')
  BY Lengths DEF ServerInv, RowsGrow
<1>2. /\ submission.version \in Nat /\ submission'.version \in Nat
      /\ submission'.version >= submission.version
      /\ submission'.version = submission.version => submission'.state = submission.state
  BY DEF ServerInv, ServerType, RowsGrow, Rows
<1>3. r.latest \in Nat /\ r.submission.version \in Nat
  BY DEF Records, Rows
<1> QED
  BY <1>1, <1>2, <1>3 DEF Genuine

\* The server and its answers may move under the tabs.
LEMMA ClientKept ==
    ASSUME Inv, ServerInv', ReceiptsKept, RowsGrow, UNCHANGED <<tab, loads, sent>>,
           wire' \subseteq wire,
           \A a \in answers' : a \in answers \/ \E p \in wire : Answers(a, p)'
    PROVE  Inv'
<1>1. /\ ServerInv /\ ClientType /\ RecordsAreGenuine /\ PostsAreOfTheirTab
      /\ AnswersAreOfTheirTab /\ TabsHoldTheirReceipts
      /\ Len(receipts) \in Nat /\ Len(receipts') \in Nat /\ Len(receipts) <= Len(receipts')
  BY Lengths DEF Inv, ClientInv, ReceiptsKept, ServerInv
<1>2. ClientType'
  BY <1>1 DEF ClientType
<1>3. RecordsAreGenuine'
  <2>1. \A o \in Moderators : tab[o].record \in Records
    BY <1>1 DEF ClientType, Tabs
  <2>2. \A o \in Moderators : \A load \in loads[o] : load.record \in Records
    BY <1>1 DEF ClientType, Loads
  <2>3. \A p \in wire : p.seen \in Records
    BY <1>1 DEF ClientType, Posts
  <2>4. \A o \in Moderators : Genuine(tab[o].record)'
    BY <1>1, <2>1, GenuineKept DEF RecordsAreGenuine, Genuine
  <2>5. \A o \in Moderators : \A load \in loads[o] : Genuine(load.record)'
    BY <1>1, <2>2, GenuineKept DEF RecordsAreGenuine
  <2>6. \A p \in wire : Genuine(p.seen)'
    BY <1>1, <2>3, GenuineKept DEF RecordsAreGenuine
  <2> QED
    BY <2>4, <2>5, <2>6 DEF RecordsAreGenuine
<1>4. PostsAreOfTheirTab'
  <2>1. \A p \in wire : p.receipt \in Nat
    BY <1>1 DEF ClientType, Posts
  <2> QED
    BY <1>1, <2>1 DEF PostsAreOfTheirTab, Asked
<1>5. TabsHoldTheirReceipts'
  <2>1. \A o \in Moderators : tab[o].receipt \in Nat
    BY <1>1 DEF ClientType, Tabs
  <2> QED
    BY <1>1, <2>1 DEF TabsHoldTheirReceipts, ReceiptsKept
<1>6. AnswersAreOfTheirTab'
  <2>1. ASSUME NEW a \in answers', a \in answers
        PROVE  /\ a.key \in Nat /\ a.key # 0 /\ a.key <= sent /\ a.receipt \in Nat
               /\ a.receipt <= Len(receipts')
               /\ a.receipt # 0 =>
                     \A o \in Moderators : tab[o].busy = a.key => receipts'[a.receipt].by = o
    BY <1>1, <2>1 DEF AnswersAreOfTheirTab, ReceiptsKept
  <2>2. ASSUME NEW a \in answers', NEW p \in wire, Answers(a, p)'
        PROVE  /\ a.key \in Nat /\ a.key # 0 /\ a.key <= sent /\ a.receipt \in Nat
               /\ a.receipt <= Len(receipts')
               /\ a.receipt # 0 =>
                     \A o \in Moderators : tab[o].busy = a.key => receipts'[a.receipt].by = o
    <3>1. p.key \in Nat /\ p.key # 0 /\ p.key <= sent
      BY <1>1 DEF ClientType, Posts, PostsAreOfTheirTab
    <3>2. \A o \in Moderators : tab[o].busy = p.key => o = p.by
      BY <1>1 DEF PostsAreOfTheirTab
    <3> QED
      BY <2>2, <3>1, <3>2 DEF Answers
  <2> QED
    BY <2>1, <2>2 DEF AnswersAreOfTheirTab
<1> QED
  BY <1>2, <1>3, <1>4, <1>5, <1>6 DEF Inv, ClientInv

\* A tab changes what it shows, waits no more, or awaits a load.
LEMMA TabStep ==
    ASSUME Inv, UNCHANGED <<submission, media, derivatives, receipts, verdicts, sent, wire>>,
           answers' \subseteq answers,
           NEW o \in Moderators, NEW t \in Tabs, tab' = [tab EXCEPT ![o] = t],
           Genuine(t.record), t.busy \in {0, tab[o].busy},
           t.receipt <= Len(receipts), t.receipt # 0 => receipts[t.receipt].by = o,
           NEW l \in SUBSET Loads, loads' = [loads EXCEPT ![o] = l],
           \A load \in l : Genuine(load.record)
    PROVE  Inv'
<1>1. /\ ServerInv /\ ClientType /\ RecordsAreGenuine /\ PostsAreOfTheirTab
      /\ AnswersAreOfTheirTab /\ TabsHoldTheirReceipts
  BY DEF Inv, ClientInv
<1>2. ServerInv'
  BY <1>1, ServerKept
<1>3. /\ tab \in [Moderators -> Tabs] /\ tab' \in [Moderators -> Tabs]
      /\ \A x \in Moderators : tab'[x] = IF x = o THEN t ELSE tab[x]
      /\ loads' \in [Moderators -> SUBSET Loads]
      /\ \A x \in Moderators : loads'[x] = IF x = o THEN l ELSE loads[x]
  BY <1>1 DEF ClientType
<1>4. ClientType'
  BY <1>1, <1>3 DEF ClientType
<1>5. RecordsAreGenuine'
  BY <1>1, <1>3 DEF RecordsAreGenuine, Genuine
<1>6. PostsAreOfTheirTab'
  <2>1. ASSUME NEW p \in wire', NEW x \in Moderators, tab'[x].busy = p.key
        PROVE  x = p.by
    BY <1>1, <1>3, <2>1 DEF PostsAreOfTheirTab
  <2> QED
    BY <1>1, <2>1 DEF PostsAreOfTheirTab, Asked
<1>7. AnswersAreOfTheirTab'
  <2>1. ASSUME NEW a \in answers', a.receipt # 0, NEW x \in Moderators, tab'[x].busy = a.key
        PROVE  receipts[a.receipt].by = x
    BY <1>1, <1>3, <2>1 DEF AnswersAreOfTheirTab
  <2> QED
    BY <1>1, <2>1 DEF AnswersAreOfTheirTab
<1>8. TabsHoldTheirReceipts'
  <2>1. sent \in Nat /\ tab[o].busy <= sent
    BY <1>1 DEF ClientType, TabsHoldTheirReceipts
  <2> QED
    BY <1>1, <1>3, <2>1 DEF TabsHoldTheirReceipts
<1> QED
  BY <1>2, <1>4, <1>5, <1>6, <1>7, <1>8 DEF Inv, ClientInv

\* A request is new, its tab's, and asks for what the tab shows.
LEMMA MutateStep ==
    ASSUME Inv, NEW o \in Moderators, NEW kind \in Kinds, NEW expected \in Rows,
           Mutate(o, kind, expected),
           kind \in Decisions => expected = tab[o].record.submission,
           kind \in MediaDecisions =>
               expected = tab[o].record.media /\ expected.state = "quarantined",
           kind = "derivative" =>
               expected = tab[o].record.media /\ expected.state = "approved_private",
           kind = "binding" => tab[o].record.latest # 0
    PROVE  Inv'
<1>1. /\ ServerInv /\ ClientType /\ RecordsAreGenuine /\ PostsAreOfTheirTab
      /\ AnswersAreOfTheirTab /\ TabsHoldTheirReceipts /\ sent \in Nat
      /\ tab \in [Moderators -> Tabs] /\ Len(receipts) \in Nat
  BY Lengths DEF Inv, ClientInv, ClientType, ServerInv
<1>2. PICK t \in Tabs : t = tab[o]
  BY <1>1
<1>3. t.record \in Records /\ t.receipt \in Nat /\ t.mode \in {"clear", "redact"}
      /\ t.rectangles \in BOOLEAN /\ t.record.latest \in Nat
  BY <1>2 DEF Tabs, Records
<1> DEFINE p == [ key |-> sent + 1, by |-> o, kind |-> kind, expected |-> expected,
                  target |-> IF kind = "binding" THEN t.record.latest ELSE 0,
                  receipt |-> IF kind = "approve" THEN t.receipt ELSE 0,
                  mode |-> IF kind = "derivative" THEN t.mode ELSE "clear",
                  rectangles |-> kind = "derivative" /\ t.rectangles,
                  seen |-> t.record ]
           new == [t EXCEPT !.busy = sent + 1]
<1>4. p \in Posts
  BY <1>1, <1>3 DEF Posts
<1>5. /\ sent' = sent + 1 /\ wire' = wire \cup {p} /\ tab' = [tab EXCEPT ![o] = new]
      /\ UNCHANGED <<submission, media, derivatives, receipts, verdicts, answers, loads>>
  BY <1>2 DEF Mutate, server
<1>6. /\ p.key = sent + 1 /\ p.by = o /\ p.kind = kind /\ p.expected = expected
      /\ p.target = (IF kind = "binding" THEN t.record.latest ELSE 0)
      /\ p.receipt = (IF kind = "approve" THEN t.receipt ELSE 0)
      /\ p.seen = t.record
  OBVIOUS
<1>7. /\ new \in Tabs /\ new.record = t.record /\ new.busy = sent + 1 /\ new.receipt = t.receipt
  <2>1. sent + 1 \in Nat /\ t \in Tabs
    BY <1>1
  <2> QED
    BY <2>1 DEF Tabs
<1> HIDE DEF p, new
<1>8. /\ tab' \in [Moderators -> Tabs]
      /\ \A x \in Moderators : tab'[x] = IF x = o THEN new ELSE tab[x]
  BY <1>1, <1>5, <1>7
<1>9. \A x \in Moderators : tab[x].busy <= sent /\ tab[x].busy \in Nat
  BY <1>1 DEF TabsHoldTheirReceipts, Tabs
<1>10. /\ Genuine(t.record) /\ t.receipt <= Len(receipts)
       /\ t.receipt # 0 => receipts[t.receipt].by = o
  BY <1>1, <1>2 DEF RecordsAreGenuine, TabsHoldTheirReceipts
<1>11. ServerInv'
  BY <1>1, <1>5, ServerKept
<1>12. ClientType'
  BY <1>1, <1>4, <1>5, <1>8 DEF ClientType
<1>13. RecordsAreGenuine'
  BY <1>1, <1>5, <1>6, <1>7, <1>8, <1>10 DEF RecordsAreGenuine, Genuine
<1>14. PostsAreOfTheirTab'
  <2>1. ASSUME NEW q \in wire
        PROVE  /\ Asked(q) /\ q.key <= sent' /\ q.key # 0 /\ q.receipt <= Len(receipts)
               /\ \A x \in Moderators : tab'[x].busy = q.key => x = q.by
    <3>1. q.key \in Nat /\ q.key <= sent
      BY <1>1 DEF PostsAreOfTheirTab, ClientType, Posts
    <3> QED
      BY <1>1, <1>5, <1>7, <1>8, <3>1 DEF PostsAreOfTheirTab
  <2>2. Asked(p)
    BY <1>2, <1>3, <1>6 DEF Asked
  <2>3. p.key <= sent' /\ p.key # 0 /\ p.receipt <= Len(receipts)
    BY <1>1, <1>5, <1>6, <1>10
  <2>4. \A x \in Moderators : tab'[x].busy = p.key => x = p.by
    BY <1>1, <1>6, <1>8, <1>9
  <2>5. \A q \in wire' : q \in wire \/ q = p
    BY <1>5
  <2>6. \A q \in wire' :
           /\ Asked(q) /\ q.key <= sent' /\ q.key # 0 /\ q.receipt <= Len(receipts)
           /\ \A x \in Moderators : tab'[x].busy = q.key => x = q.by
    BY <2>1, <2>2, <2>3, <2>4, <2>5
  <2> QED
    BY <1>5, <2>6 DEF PostsAreOfTheirTab, Asked
<1>15. AnswersAreOfTheirTab'
  <2>1. \A a \in answers : a.key \in Nat /\ a.key <= sent
    BY <1>1 DEF AnswersAreOfTheirTab
  <2>2. \A a \in answers : \A x \in Moderators : tab'[x].busy = a.key => tab[x].busy = a.key
    BY <1>1, <1>7, <1>8, <2>1
  <2> QED
    BY <1>1, <1>5, <2>1, <2>2 DEF AnswersAreOfTheirTab
<1>16. TabsHoldTheirReceipts'
  BY <1>1, <1>5, <1>7, <1>8, <1>9, <1>10 DEF TabsHoldTheirReceipts
<1> QED
  BY <1>11, <1>12, <1>13, <1>14, <1>15, <1>16 DEF Inv, ClientInv

\* What a step finds in a tab and in its loads.
LEMMA TabFacts ==
    ASSUME Inv, NEW o \in Moderators
    PROVE  /\ tab[o] \in Tabs /\ Genuine(tab[o].record) /\ tab[o].receipt <= Len(receipts)
           /\ tab[o].receipt # 0 => receipts[tab[o].receipt].by = o
           /\ loads[o] \in SUBSET Loads /\ \A load \in loads[o] : Genuine(load.record)
           /\ loads = [loads EXCEPT ![o] = loads[o]]
           /\ tab = [tab EXCEPT ![o] = tab[o]]
<1>1. tab \in [Moderators -> Tabs] /\ loads \in [Moderators -> SUBSET Loads]
  BY DEF Inv, ClientInv, ClientType
<1> QED
  BY <1>1 DEF Inv, ClientInv, RecordsAreGenuine, TabsHoldTheirReceipts

\* A GET is of the record as it is.
LEMMA LoadNow ==
    ASSUME Inv, NEW o \in Moderators, NEW inside \in BOOLEAN
    PROVE  /\ loads[o] \cup {[record |-> Record, inside |-> inside]} \in SUBSET Loads
           /\ \A load \in loads[o] \cup {[record |-> Record, inside |-> inside]} :
                 Genuine(load.record)
<1>1. Record \in Records /\ Genuine(Record)
  BY RecordNow DEF Inv
<1> DEFINE new == [record |-> Record, inside |-> inside]
<1>2. new \in Loads /\ new.record = Record
  BY <1>1 DEF Loads
<1> HIDE DEF new
<1>3. loads[o] \cup {new} \in SUBSET Loads /\ \A load \in loads[o] \cup {new} : Genuine(load.record)
  BY <1>1, <1>2, TabFacts
<1> QED
  BY <1>3 DEF new

-----------------------------------------------------------------------------
(* The steps of a tab.                                                     *)

LEMMA OpenStep ==
    ASSUME Inv, NEW o \in Moderators, OpenPage(o)
    PROVE  Inv'
<1>1. NoTab \in Tabs /\ NoTab.busy = 0 /\ NoTab.receipt = 0 /\ Genuine(NoTab.record)
  <2>1. NoRow \in Rows
    BY DEF NoRow, Rows
  <2>2. NoRecord \in Records /\ NoRecord.latest = 0 /\ NoRecord.submission.version = 0
    BY <2>1 DEF NoRecord, Records, NoRow
  <2>3. NoTab \in Tabs /\ NoTab.busy = 0 /\ NoTab.receipt = 0 /\ NoTab.record = NoRecord
    BY <2>2 DEF NoTab, Tabs
  <2>4. Len(derivatives) \in Nat /\ submission.version \in Nat /\ submission.version > 0
    BY Lengths DEF Inv, ServerInv, ServerType, Rows
  <2> QED
    BY <2>2, <2>3, <2>4 DEF Genuine
<1>0. PICK l : l = {[record |-> Record, inside |-> FALSE]}
  OBVIOUS
<1>2. l \in SUBSET Loads /\ \A load \in l : Genuine(load.record)
  BY <1>0, LoadNow
<1>3. /\ UNCHANGED <<submission, media, derivatives, receipts, verdicts, sent, wire, answers>>
      /\ tab' = [tab EXCEPT ![o] = NoTab]
      /\ loads' = [loads EXCEPT ![o] = l]
  BY <1>0 DEF OpenPage, server
<1>4. Len(receipts) \in Nat
  BY Lengths DEF Inv, ServerInv
<1>5. PICK t \in Tabs : t = NoTab
  BY <1>1
<1>6. /\ Genuine(t.record) /\ t.busy \in {0, tab[o].busy}
      /\ t.receipt <= Len(receipts) /\ (t.receipt # 0 => receipts[t.receipt].by = o)
      /\ tab' = [tab EXCEPT ![o] = t] /\ answers' \subseteq answers
  BY <1>1, <1>3, <1>4, <1>5
<1> QED
  BY <1>2, <1>3, <1>6, TabStep

LEMMA RefreshStep ==
    ASSUME Inv, NEW o \in Moderators, Refresh(o)
    PROVE  Inv'
<1>1. PICK l : l = loads[o] \cup {[record |-> Record, inside |-> FALSE]}
  OBVIOUS
<1>2. l \in SUBSET Loads /\ \A load \in l : Genuine(load.record)
  BY <1>1, LoadNow
<1>3. /\ UNCHANGED <<submission, media, derivatives, receipts, verdicts, sent, wire, answers, tab>>
      /\ loads' = [loads EXCEPT ![o] = l]
  BY <1>1 DEF Refresh, Load, server
<1> QED
  BY <1>2, <1>3, TabFacts, TabStep

\* The requests of the panels.
LEMMA RequestStep ==
    ASSUME Inv, NEW o \in Moderators,
           \/ StartReview(o)
           \/ \E decision \in MediaDecisions : ReviewPhoto(o, decision)
           \/ CreateDerivative(o)
           \/ IssueBinding(o)
           \/ \E decision \in {"request_changes", "reject"} : SubmitDecision(o, decision)
           \/ Approve(o)
    PROVE  Inv'
<1>1. tab[o].record \in Records
  BY TabFacts DEF Tabs
<1>2. /\ tab[o].record.submission \in Rows /\ tab[o].record.media \in Rows
      /\ tab[o].record.derivative \in Rows
  BY <1>1 DEF Records
<1>3. ASSUME NEW kind \in Decisions, Mutate(o, kind, tab[o].record.submission)
      PROVE  Inv'
  <2>1. kind \in Kinds /\ kind \notin MediaDecisions /\ kind # "derivative" /\ kind # "binding"
    BY DEF Kinds, Decisions, MediaDecisions
  <2> QED
    BY <1>2, <1>3, <2>1, MutateStep
<1>4. CASE StartReview(o)
  BY <1>3, <1>4 DEF StartReview, Decisions
<1>5. ASSUME NEW decision \in {"request_changes", "reject"}, SubmitDecision(o, decision)
      PROVE  Inv'
  BY <1>3, <1>5 DEF SubmitDecision, Decisions
<1>6. CASE Approve(o)
  BY <1>3, <1>6 DEF Approve, Decisions
<1>7. ASSUME NEW decision \in MediaDecisions, ReviewPhoto(o, decision)
      PROVE  Inv'
  <2>1. /\ decision \in Kinds /\ decision \notin Decisions /\ decision # "derivative"
        /\ decision # "binding"
    BY DEF Kinds, Decisions, MediaDecisions
  <2>2. tab[o].record.media.state = "quarantined" /\ Mutate(o, decision, tab[o].record.media)
    BY <1>7 DEF ReviewPhoto, OffersPhoto
  <2> QED
    BY <1>2, <2>1, <2>2, MutateStep
<1>8. CASE CreateDerivative(o)
  <2>1. /\ "derivative" \in Kinds /\ "derivative" \notin Decisions
        /\ "derivative" \notin MediaDecisions
    BY DEF Kinds, Decisions, MediaDecisions
  <2>2. /\ tab[o].record.media.state = "approved_private"
        /\ Mutate(o, "derivative", tab[o].record.media)
    BY <1>8 DEF CreateDerivative, OffersDerivative
  <2> QED
    BY <1>2, <2>1, <2>2, MutateStep
<1>9. CASE IssueBinding(o)
  <2>1. /\ "binding" \in Kinds /\ "binding" \notin Decisions /\ "binding" \notin MediaDecisions
    BY DEF Kinds, Decisions, MediaDecisions
  <2> DEFINE e == [tab[o].record.derivative EXCEPT !.state = "redacted_derivative"]
  <2>2. e \in Rows
    BY <1>2 DEF Rows, DerivativeStates
  <2>3. Mutate(o, "binding", e) /\ tab[o].record.latest # 0
    BY <1>9 DEF IssueBinding, OffersBinding, derivative
  <2> HIDE DEF e
  <2> QED
    BY <2>1, <2>2, <2>3, MutateStep
<1> QED
  BY <1>4, <1>5, <1>6, <1>7, <1>8, <1>9

\* The redaction mode and its rectangles.
LEMMA ModeStep ==
    ASSUME Inv, NEW o \in Moderators, ChooseClear(o) \/ ChooseRedact(o) \/ RemoveRectangles(o)
    PROVE  Inv'
<1>1. PICK t \in Tabs : t = tab[o]
  BY TabFacts
<1>2. PICK n \in Tabs :
         /\ n.record = t.record /\ n.busy = t.busy /\ n.receipt = t.receipt
         /\ tab' = [tab EXCEPT ![o] = n]
  <2>1. CASE ChooseClear(o)
    <3>1. [t EXCEPT !.mode = "clear"] \in Tabs
      BY DEF Tabs
    <3>2. tab' = [tab EXCEPT ![o] = [t EXCEPT !.mode = "clear"]]
      BY <1>1, <2>1 DEF ChooseClear
    <3> QED
      BY <3>1, <3>2 DEF Tabs
  <2>2. CASE ChooseRedact(o)
    <3>1. [t EXCEPT !.mode = "redact", !.rectangles = TRUE] \in Tabs
      BY DEF Tabs
    <3>2. tab' = [tab EXCEPT ![o] = [t EXCEPT !.mode = "redact", !.rectangles = TRUE]]
      BY <1>1, <2>2 DEF ChooseRedact
    <3> QED
      BY <3>1, <3>2 DEF Tabs
  <2>3. CASE RemoveRectangles(o)
    <3>1. [t EXCEPT !.rectangles = FALSE] \in Tabs
      BY DEF Tabs
    <3>2. tab' = [tab EXCEPT ![o] = [t EXCEPT !.rectangles = FALSE]]
      BY <1>1, <2>3 DEF RemoveRectangles
    <3> QED
      BY <3>1, <3>2 DEF Tabs
  <2> QED
    BY <2>1, <2>2, <2>3
<1>3. UNCHANGED <<submission, media, derivatives, receipts, verdicts, sent, wire, answers, loads>>
  BY DEF ChooseClear, ChooseRedact, RemoveRectangles, server
<1>4. /\ Genuine(n.record) /\ n.busy \in {0, tab[o].busy}
      /\ n.receipt <= Len(receipts) /\ (n.receipt # 0 => receipts[n.receipt].by = o)
      /\ loads[o] \in SUBSET Loads /\ loads' = [loads EXCEPT ![o] = loads[o]]
      /\ \A load \in loads[o] : Genuine(load.record)
  BY <1>1, <1>2, <1>3, TabFacts
<1> QED
  BY <1>2, <1>3, <1>4, TabStep

LEMMA AnswerStep ==
    ASSUME Inv, NEW o \in Moderators, AnswerArrives(o)
    PROVE  Inv'
<1>1. PICK t \in Tabs : t = tab[o]
  BY TabFacts
<1>2. PICK a \in answers :
         LET recorded == a.result = "recorded"
             stale    == a.result = "stale_resource_version"
         IN  /\ a.key = t.busy
             /\ answers' = answers \ {a}
             /\ tab' = [tab EXCEPT
                   ![o].busy = IF stale THEN @ ELSE 0,
                   ![o].receipt = CASE recorded /\ a.kind = "binding" -> a.receipt
                                    [] recorded /\ a.kind = "approve" -> 0
                                    [] OTHER                          -> @]
             /\ IF stale \/ (recorded /\ a.kind # "binding")
                THEN Load(o, stale) ELSE UNCHANGED loads
             /\ UNCHANGED <<server, wire, sent, faults>>
  BY <1>1 DEF AnswerArrives
<1> DEFINE recorded == a.result = "recorded"
           stale    == a.result = "stale_resource_version"
           busy     == IF stale THEN t.busy ELSE 0
           receipt  == CASE recorded /\ a.kind = "binding" -> a.receipt
                         [] recorded /\ a.kind = "approve" -> 0
                         [] OTHER                          -> t.receipt
           n        == [t EXCEPT !.busy = busy, !.receipt = receipt]
<1>3. /\ t.record \in Records /\ t.busy \in Nat /\ t.receipt \in Nat
      /\ t.receipt <= Len(receipts) /\ (t.receipt # 0 => receipts[t.receipt].by = o)
      /\ Len(receipts) \in Nat
  BY <1>1, TabFacts, Lengths DEF Tabs, Inv, ServerInv
<1>4. /\ a.receipt \in Nat /\ a.receipt <= Len(receipts)
      /\ a.receipt # 0 => receipts[a.receipt].by = o
  BY <1>1, <1>2 DEF Inv, ClientInv, AnswersAreOfTheirTab
<1>5. receipt \in {a.receipt, 0, t.receipt} /\ busy \in {0, t.busy} /\ stale \in BOOLEAN
  OBVIOUS
<1>6. tab' = [tab EXCEPT ![o] = n]
  BY <1>1, <1>2
<1>7. /\ answers' \subseteq answers
      /\ UNCHANGED <<submission, media, derivatives, receipts, verdicts, sent, wire>>
  BY <1>2 DEF server
<1>8. PICK l \in SUBSET Loads :
         loads' = [loads EXCEPT ![o] = l] /\ \A load \in l : Genuine(load.record)
  <2>1. CASE UNCHANGED loads
    BY <2>1, TabFacts
  <2>2. CASE Load(o, stale)
    <3>1. loads' = [loads EXCEPT ![o] = loads[o] \cup {[record |-> Record, inside |-> stale]}]
      BY <2>2 DEF Load
    <3> QED
      BY <1>5, <3>1, LoadNow
  <2> QED
    BY <1>2, <2>1, <2>2
<1> HIDE DEF recorded, stale, busy, receipt
<1>8a. receipt \in Nat /\ busy \in Nat
  BY <1>3, <1>4, <1>5
<1>9. /\ n \in Tabs /\ n.record = t.record /\ n.busy = busy /\ n.receipt = receipt
  BY <1>8a DEF Tabs
<1> HIDE DEF n
<1>10. /\ n.receipt <= Len(receipts)
       /\ n.receipt # 0 => receipts[n.receipt].by = o
  BY <1>3, <1>4, <1>5, <1>9
<1>11. Genuine(n.record) /\ n.busy \in {0, tab[o].busy}
  BY <1>1, <1>5, <1>9, TabFacts
<1> QED
  BY <1>6, <1>7, <1>8, <1>9, <1>10, <1>11, TabStep

LEMMA LostStep ==
    ASSUME Inv, NEW o \in Moderators, AnswerLost(o)
    PROVE  Inv'
<1>1. PICK t \in Tabs : t = tab[o]
  BY TabFacts
<1> DEFINE n == [t EXCEPT !.busy = 0]
<1>2. /\ tab' = [tab EXCEPT ![o] = n] /\ answers' \subseteq answers
      /\ UNCHANGED <<submission, media, derivatives, receipts, verdicts, sent, wire, loads>>
  BY <1>1 DEF AnswerLost, server
<1>3. n \in Tabs /\ n.record = t.record /\ n.busy = 0 /\ n.receipt = t.receipt
  BY DEF Tabs
<1> HIDE DEF n
<1>4. /\ Genuine(n.record) /\ n.busy \in {0, tab[o].busy}
      /\ n.receipt <= Len(receipts) /\ (n.receipt # 0 => receipts[n.receipt].by = o)
      /\ loads[o] \in SUBSET Loads /\ loads' = [loads EXCEPT ![o] = loads[o]]
      /\ \A load \in loads[o] : Genuine(load.record)
  BY <1>1, <1>2, <1>3, TabFacts
<1> QED
  BY <1>2, <1>3, <1>4, TabStep

\* A load arrives or fails.
LEMMA LoadStep ==
    ASSUME Inv, NEW o \in Moderators, LoadArrives(o) \/ LoadFails(o)
    PROVE  Inv'
<1>1. PICK t \in Tabs : t = tab[o]
  BY TabFacts
<1>2. PICK load \in loads[o] :
         /\ loads' = [loads EXCEPT ![o] = @ \ {load}]
         /\ \/ tab' = [tab EXCEPT ![o].record = load.record,
                                  ![o].busy = IF load.inside THEN 0 ELSE @]
            \/ tab' = [tab EXCEPT ![o].busy = IF load.inside THEN 0 ELSE @]
  BY DEF LoadArrives, LoadFails
<1>2a. PICK l : l = loads[o] \ {load}
  OBVIOUS
<1>2b. loads' = [loads EXCEPT ![o] = l]
  BY <1>2, <1>2a
<1>3. UNCHANGED <<submission, media, derivatives, receipts, verdicts, sent, wire, answers>>
  BY DEF LoadArrives, LoadFails, server
<1>4. /\ load.record \in Records /\ Genuine(load.record)
      /\ l \in SUBSET Loads /\ \A m \in l : Genuine(m.record)
  BY <1>2a, TabFacts DEF Loads
<1> DEFINE busy == IF load.inside THEN 0 ELSE t.busy
<1>5. busy \in {0, t.busy} /\ busy \in Nat
  BY DEF Tabs
<1>6. PICK n \in Tabs :
         /\ n.record \in {load.record, t.record} /\ n.busy = busy /\ n.receipt = t.receipt
         /\ tab' = [tab EXCEPT ![o] = n]
  <2>1. CASE tab' = [tab EXCEPT ![o].record = load.record,
                                ![o].busy = IF load.inside THEN 0 ELSE @]
    <3>1. tab' = [tab EXCEPT ![o] = [t EXCEPT !.record = load.record, !.busy = busy]]
      BY <1>1, <2>1
    <3> HIDE DEF busy
    <3> QED
      BY <1>4, <1>5, <3>1 DEF Tabs
  <2>2. CASE tab' = [tab EXCEPT ![o].busy = IF load.inside THEN 0 ELSE @]
    <3>1. tab' = [tab EXCEPT ![o] = [t EXCEPT !.busy = busy]]
      BY <1>1, <2>2
    <3> HIDE DEF busy
    <3> QED
      BY <1>5, <3>1 DEF Tabs
  <2> QED
    BY <1>2, <2>1, <2>2
<1> HIDE DEF busy
<1>7. /\ Genuine(n.record) /\ n.busy \in {0, tab[o].busy}
      /\ n.receipt <= Len(receipts) /\ (n.receipt # 0 => receipts[n.receipt].by = o)
  BY <1>1, <1>4, <1>5, <1>6, TabFacts
<1>8. /\ tab' = [tab EXCEPT ![o] = n] /\ loads' = [loads EXCEPT ![o] = l]
      /\ answers' \subseteq answers
  BY <1>2b, <1>3, <1>6
<1> QED
  BY <1>3, <1>4, <1>7, <1>8, TabStep

-----------------------------------------------------------------------------
(* The invariant.                                                          *)

LEMMA InitInv == Init => Inv
<1> SUFFICES ASSUME Init PROVE Inv
  OBVIOUS
<1>1. PICK start \in Starts : /\ submission = [state |-> start[1], version |-> 1]
                              /\ media = [state |-> start[2], version |-> 1]
  BY DEF Init
<1>2. /\ start[1] \in SubmissionStates \ {"approved"}
      /\ start[2] \in {"quarantined", "approved_private", "rejected"}
  BY <1>1, ReviewConsoleAssumption
<1>3. /\ submission \in Rows /\ submission.state \in SubmissionStates /\ submission.version = 1
      /\ submission.state # "approved"
      /\ media \in Rows /\ media.state \in MediaStates
  BY <1>1, <1>2 DEF Rows, MediaStates
<1>4. /\ derivatives = << >> /\ receipts = << >> /\ verdicts = << >> /\ sent = 0
      /\ wire = {} /\ answers = {}
      /\ tab = [o \in Moderators |-> NoTab] /\ loads = [o \in Moderators |-> {}]
  BY DEF Init
<1>5. /\ Len(derivatives) = 0 /\ Len(receipts) = 0 /\ Len(verdicts) = 0
  BY <1>4
<1>6. ServerType /\ PhotoIsReviewed /\ ReceiptsAreBindings /\ VerdictsHold
  BY <1>3, <1>4, <1>5 DEF ServerType, PhotoIsReviewed, ReceiptsAreBindings, VerdictsHold
<1>7. ApprovalsHold
  <2>1. Public = {}
    BY <1>4 DEF Public
  <2> QED
    BY <1>3, <1>5, <2>1 DEF ApprovalsHold
<1>8. NoTab \in Tabs /\ NoTab.busy = 0 /\ NoTab.receipt = 0 /\ Genuine(NoTab.record)
  <2>1. NoRow \in Rows
    BY DEF NoRow, Rows
  <2>2. NoRecord \in Records /\ NoRecord.latest = 0 /\ NoRecord.submission.version = 0
    BY <2>1 DEF NoRecord, Records, NoRow
  <2>3. NoTab \in Tabs /\ NoTab.busy = 0 /\ NoTab.receipt = 0 /\ NoTab.record = NoRecord
    BY <2>2 DEF NoTab, Tabs
  <2> QED
    BY <1>3, <1>5, <2>2, <2>3 DEF Genuine
<1> HIDE DEF NoTab
<1>9. ClientType
  BY <1>4, <1>8 DEF ClientType
<1>10. RecordsAreGenuine /\ PostsAreOfTheirTab /\ AnswersAreOfTheirTab /\ TabsHoldTheirReceipts
  BY <1>4, <1>5, <1>8
     DEF RecordsAreGenuine, PostsAreOfTheirTab, AnswersAreOfTheirTab, TabsHoldTheirReceipts
<1> QED
  BY <1>6, <1>7, <1>9, <1>10 DEF Inv, ServerInv, ClientInv

LEMMA StepInv == Inv /\ [Next]_vars => Inv'
<1> SUFFICES ASSUME Inv, [Next]_vars PROVE Inv'
  OBVIOUS
<1>1. ASSUME NEW p \in wire, Deliver(p) PROVE Inv'
  <2>1. /\ ServerInv' /\ ReceiptsKept /\ RowsGrow /\ UNCHANGED <<tab, loads, sent>>
        /\ wire' \subseteq wire
        /\ \A a \in answers' : a \in answers \/ Answers(a, p)'
    BY <1>1, DeliverStep
  <2> QED
    BY <2>1, ClientKept
<1>2. ASSUME \/ \E r \in DOMAIN receipts : ReceiptExpires(r)
             \/ \E d \in DOMAIN derivatives : SweepDerivative(d)
             \/ SweepMedia
             \/ \E s \in DOMAIN enabled : ToggleSwitch(s)
      PROVE  Inv'
  BY <1>2, FaultStep, ClientKept
<1>3. ASSUME NEW o \in Moderators, OpenPage(o) PROVE Inv'
  BY <1>3, OpenStep
<1>4. ASSUME NEW o \in Moderators, Refresh(o) PROVE Inv'
  BY <1>4, RefreshStep
<1>5. ASSUME NEW o \in Moderators,
             \/ StartReview(o)
             \/ \E decision \in MediaDecisions : ReviewPhoto(o, decision)
             \/ CreateDerivative(o)
             \/ IssueBinding(o)
             \/ \E decision \in {"request_changes", "reject"} : SubmitDecision(o, decision)
             \/ Approve(o)
      PROVE  Inv'
  BY <1>5, RequestStep
<1>6. ASSUME NEW o \in Moderators, ChooseClear(o) \/ ChooseRedact(o) \/ RemoveRectangles(o)
      PROVE  Inv'
  BY <1>6, ModeStep
<1>7. ASSUME NEW o \in Moderators, AnswerArrives(o) PROVE Inv'
  BY <1>7, AnswerStep
<1>8. ASSUME NEW o \in Moderators, AnswerLost(o) PROVE Inv'
  BY <1>8, LostStep
<1>9. ASSUME NEW o \in Moderators, LoadArrives(o) \/ LoadFails(o) PROVE Inv'
  BY <1>9, LoadStep
<1>10. CASE UNCHANGED vars
  BY <1>10, ServerKept, ClientKept DEF Inv, vars
<1> QED
  BY <1>1, <1>2, <1>3, <1>4, <1>5, <1>6, <1>7, <1>8, <1>9, <1>10 DEF Next

LEMMA Invariant == Spec => []Inv
<1>1. Init => Inv
  BY InitInv
<1>2. Inv /\ [Next]_vars => Inv'
  BY StepInv
<1> QED
  BY <1>1, <1>2, PTL DEF Spec

-----------------------------------------------------------------------------
(* The theorems.                                                           *)

\* Every verdict is passed on the state its moderator's screen showed, on the
\* photo at most once, and rows, receipts and tabs have their types, whatever
\* moderateSubmission and reviewPrivateMedia are sent, and when.
THEOREM ReviewsInSight == Spec => []ReviewsAreInSight
<1>1. Inv => TypeOK
  <2> SUFFICES ASSUME Inv PROVE TypeOK
    OBVIOUS
  <2>1. /\ submission.state \in SubmissionStates /\ media.state \in MediaStates
        /\ \A d \in DOMAIN derivatives : derivatives[d].state \in DerivativeStates
    BY Lengths DEF Inv, ServerInv, ServerType
  <2>2. ASSUME NEW o \in Moderators
        PROVE  /\ tab[o].busy \in 0 .. sent /\ tab[o].receipt \in 0 .. Len(receipts)
               /\ tab[o].receipt # 0 => receipts[tab[o].receipt].by = o
    <3>1. tab[o].busy \in Nat /\ tab[o].receipt \in Nat /\ sent \in Nat /\ Len(receipts) \in Nat
      BY Lengths, TabFacts DEF Tabs, Inv, ServerInv, ClientInv, ClientType
    <3> QED
      BY <3>1 DEF Inv, ClientInv, TabsHoldTheirReceipts
  <2> QED
    BY <2>1, <2>2 DEF TypeOK, MediaStates, DerivativeStates
<1>2. Inv => VerdictsAreMadeInSight
  BY Lengths DEF Inv, ServerInv, VerdictsHold, VerdictsAreMadeInSight
<1> QED
  BY <1>1, <1>2, Invariant, PTL DEF ReviewsAreInSight

\* An approved submission has one public derivative, the one its moderator
\* bound having seen the photo reviewed; before the approval there is none.
THEOREM OneDerivative == Spec => []ApprovalIsOneDerivative
<1>1. Inv => ApprovalIsOneDerivative
  <2> SUFFICES ASSUME Inv PROVE ApprovalIsOneDerivative
    OBVIOUS
  <2>1. ApprovalsHold /\ Len(verdicts) \in Nat /\ DOMAIN verdicts = 1 .. Len(verdicts)
    BY Lengths DEF Inv, ServerInv
  <2>2. submission.state = "approved" => Cardinality(Public) = 1
    BY <2>1, FS_Singleton DEF ApprovalsHold
  <2>3. ASSUME NEW i \in DOMAIN verdicts, verdicts[i].post.kind = "approve"
        PROVE  LET receipt == receipts[verdicts[i].post.receipt]
               IN  /\ receipt.by = verdicts[i].post.by
                   /\ Public = {receipt.derivative}
                   /\ verdicts[i].before.media.state = "approved_private"
                   /\ \E j \in 1 .. (i - 1) :
                         /\ verdicts[j].post.kind = "binding"
                         /\ verdicts[j].post.by = receipt.by
                         /\ verdicts[j].post.seen.latest = receipt.derivative
                         /\ verdicts[j].post.seen.media.state # "quarantined"
    <3>1. ApprovalHolds(i)
      BY <2>1, <2>3 DEF ApprovalsHold
    <3> QED
      BY <3>1 DEF ApprovalHolds, Binds
  <2> QED
    BY <2>1, <2>2, <2>3 DEF ApprovalIsOneDerivative, ApprovalsHold
<1> QED
  BY <1>1, Invariant, PTL
=============================================================================
