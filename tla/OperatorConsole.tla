--------------------------- MODULE OperatorConsole ---------------------------
(***************************************************************************)
(* Two or more operators work on one published issue, each in a browser    *)
(* tab of OperatorIssueManager: what a tab shows, the form it edits, the   *)
(* requests it sends and the answers it gets, against the idempotency      *)
(* reservation and the version checks of the four mutation services.       *)
(*                                                                         *)
(* A POST may be delivered late or more than once and its answer may be    *)
(* lost; an answer to a GET shows the row as it was when it was read, and  *)
(* answers arrive in any order.  What the services write to the chain      *)
(* queue is in ChainOutbox; here a change moves domain_version and what    *)
(* the page shows.  A text is named by the domain version that brought it. *)
(***************************************************************************)
EXTENDS Integers, Sequences, FiniteSets, Workflow

CONSTANTS
    Operators,   \* subjects with a tab on the issue
    Roles,       \* [Operators -> set of roles held in the organization]
    Lifecycles,  \* bound: lifecycle states an operator asks for
    MaxPosts,    \* bound: mutations sent
    MaxLoads,    \* bound: GET answers under way at once
    MaxFaults    \* bound: chain blocks, recoveries and switch changes

ASSUME OperatorConsoleAssumption ==
    /\ Lifecycles \subseteq LifecycleStates
    /\ MaxPosts \in Nat
    /\ MaxLoads \in Nat
    /\ MaxFaults \in Nat

VARIABLES
    issue,     \* the issues row, its current version and its handoff aggregate
    records,   \* idempotency_records: completed keys with their request
    enabled,   \* operatorMutationsEnabled
    tab,       \* [Operators -> what the tab shows and does]
    posts,     \* mutation requests sent
    answers,   \* answers the server gave, by key
    loads,     \* GET answers under way
    faults,    \* blocks and switch changes so far
    history    \* accepted changes, with what the operator saw

vars == <<issue, records, enabled, tab, posts, answers, loads, faults, history>>

NoIssue ==
    [ version |-> 0, text |-> 0, lifecycle |-> "open", handoff |-> "none",
      publication |-> "published", blocked |-> FALSE ]

NoPost == [key |-> 0, by |-> "nobody", kind |-> "none", to |-> "none",
           expected |-> 0, base |-> 0, seen |-> NoIssue]

NoTab == [view |-> NoIssue, dirty |-> FALSE, base |-> 0, phase |-> "loading",
          post |-> NoPost, message |-> "none"]

Init ==
    /\ \E handoff \in {"none", "acknowledged"} :
          issue = [NoIssue EXCEPT !.version = 1, !.text = 1, !.handoff = handoff]
    /\ records = {}
    /\ enabled = TRUE
    /\ tab = [o \in Operators |-> NoTab]
    /\ posts = {}
    /\ answers = {}
    /\ loads = [o \in Operators |-> {}]
    /\ faults = 0
    /\ history = << >>

-----------------------------------------------------------------------------
(* The server.                                                             *)

\* Mutant: a completed key is taken for a new one.
Disposition_Reserves(p) ==
    LET same == {r \in records : r.by = p.by /\ r.key = p.key}
    IN  IF \E r \in same : r # p THEN "conflict" ELSE "reserved"

\* reserve_idempotency under the advisory lock of (scope, actor, key).  The
\* reservation commits with the change it is for, so no reader ever sees a
\* record that is only reserved.
Disposition(p) ==
    LET same == {r \in records : r.by = p.by /\ r.key = p.key}
    IN  CASE same = {}              -> "reserved"
          [] \E r \in same : r # p  -> "conflict"
          [] OTHER                  -> "replay"

\* Publication state and chain block, checked before anything else.
Workable == issue.publication = "published" /\ ~issue.blocked

\* recordIssueHandoff: an action is recorded on an acknowledged or closed
\* handoff and leaves its state.
HandoffAllowed(from, event) ==
    IF event = "action_recorded" THEN from \in {"acknowledged", "closed"}
                                 ELSE event \in HandoffTransitions[from]

\* expectedDomainVersion; the expected head moves with it.
Current(p) == p.expected = issue.version

\* The answer of the service, in the order of its checks: the handoff
\* service looks at the transition before it looks at the version.
Answer(p) ==
    CASE ~enabled                                                -> "disabled"
      [] ~Workable                                               -> "workflow_conflict"
      [] p.kind = "handoff" /\ ~HandoffAllowed(issue.handoff, p.to) -> "invalid"
      [] ~Current(p)                                             -> "stale_resource_version"
      [] p.kind = "status" /\ p.to \notin LifecycleTransitions[issue.lifecycle] -> "invalid"
      [] OTHER                                                   -> "recorded"

\* Mutant: a handoff leaves domain_version alone.
Changed_KeepsVersion(p) ==
    LET next == issue.version + 1
    IN  CASE p.kind = "status"     -> [issue EXCEPT !.version = next, !.lifecycle = p.to]
          [] p.kind = "handoff"    -> [issue EXCEPT !.handoff =
                                         IF p.to = "action_recorded" THEN @ ELSE p.to]
          [] p.kind = "correction" -> [issue EXCEPT !.version = next, !.text = next,
                                                    !.publication = "commit_pending"]
          [] p.kind = "removal"    -> [issue EXCEPT !.version = next]

\* The issues row after each of the four services.
Changed(p) ==
    LET next == issue.version + 1
    IN  CASE p.kind = "status"     -> [issue EXCEPT !.version = next, !.lifecycle = p.to]
          [] p.kind = "handoff"    -> [issue EXCEPT !.version = next, !.handoff =
                                         IF p.to = "action_recorded" THEN @ ELSE p.to]
          [] p.kind = "correction" -> [issue EXCEPT !.version = next, !.text = next,
                                                    !.publication = "commit_pending"]
          [] p.kind = "removal"    -> [issue EXCEPT !.version = next]

\* One transaction: reserve, check, change, complete; anything but success
\* rolls the reservation back.
Deliver(p) ==
    LET disposition == Disposition(p)
        result      == CASE disposition = "conflict" -> "idempotency_key_reused"
                         [] disposition = "replay"   -> "recorded"
                         [] OTHER                    -> Answer(p)
        change      == disposition = "reserved" /\ result = "recorded"
    IN  /\ answers' = answers \cup {[key |-> p.key, result |-> result]}
        /\ issue' = IF change THEN Changed(p) ELSE issue
        /\ records' = IF change THEN records \cup {p} ELSE records
        /\ history' = IF change THEN Append(history, [post |-> p, before |-> issue]) ELSE history
        /\ UNCHANGED <<enabled, tab, posts, loads, faults>>

\* The worker confirms the pending checkpoints: a correction is published, a
\* removal takes the issue out of public view.
ChainConfirms ==
    /\ ~issue.blocked
    /\ \/ /\ issue.publication = "commit_pending"
          /\ issue' = [issue EXCEPT !.publication = "published"]
       \/ /\ issue.publication = "published"
          /\ \E i \in DOMAIN history : history[i].post.kind = "removal"
          /\ issue' = [issue EXCEPT !.publication = "removed"]
    /\ UNCHANGED <<records, enabled, tab, posts, answers, loads, faults, history>>

\* A dead letter blocks the queue; reconciliation clears the block.
ChainBlocks ==
    /\ faults < MaxFaults
    /\ faults' = faults + 1
    /\ issue' = [issue EXCEPT !.blocked = ~@]
    /\ UNCHANGED <<records, enabled, tab, posts, answers, loads, history>>

ToggleMutations ==
    /\ faults < MaxFaults
    /\ faults' = faults + 1
    /\ enabled' = ~enabled
    /\ UNCHANGED <<issue, records, tab, posts, answers, loads, history>>

-----------------------------------------------------------------------------
(* The tab.                                                                *)

RoleAllows(o, allowed) ==
    "system_admin" \in Roles[o] \/ Roles[o] \cap allowed # {}

CanSteward(o) == RoleAllows(o, {"steward", "org_admin"})
CanCorrect(o) == RoleAllows(o, {"moderator", "privacy_reviewer", "org_admin"})
CanRemove(o)  == RoleAllows(o, {"privacy_reviewer", "org_admin"})

\* handoffTransitions of the page.
OfferedHandoffs(state) ==
    CASE state = "acknowledged" -> {"action_recorded", "closed"}
      [] state = "closed"       -> {"action_recorded"}
      [] OTHER                  -> HandoffTransitions[state]

\* A GET: the row is read now, the answer is under way.  inside marks the
\* load that mutate() waits for.
Load(o, inside) ==
    loads' = [loads EXCEPT ![o] = @ \cup {[seen |-> issue, inside |-> inside]}]

\* useEffect on mount, and the Refresh button, which is never disabled.
Refresh(o) ==
    /\ Cardinality(loads[o]) < MaxLoads
    /\ Load(o, FALSE)
    /\ UNCHANGED <<issue, records, enabled, tab, posts, answers, faults, history>>

\* The submit buttons of the forms: idle, a record on screen, no block shown.
Ready(o) ==
    /\ tab[o].phase = "idle"
    /\ tab[o].view # NoIssue
    /\ ~tab[o].view.blocked

\* mutate(): a fresh Idempotency-Key with every click, and the version that
\* is on the screen when the button is pressed.
Post(o, kind, to) ==
    LET p == [key |-> Cardinality(posts) + 1, by |-> o, kind |-> kind, to |-> to,
              expected |-> tab[o].view.version, base |-> tab[o].base, seen |-> tab[o].view]
    IN  /\ Ready(o)
        /\ Cardinality(posts) < MaxPosts
        /\ posts' = posts \cup {p}
        /\ tab' = [tab EXCEPT ![o].phase = "posting", ![o].post = p, ![o].message = "none"]
        /\ UNCHANGED <<issue, records, enabled, answers, loads, faults, history>>

\* The four forms, each shown to a role and in a state of the record.
StatusForm(o, to) ==
    /\ CanSteward(o)
    /\ to \in LifecycleTransitions[tab[o].view.lifecycle]

HandoffForm(o, event) ==
    /\ CanSteward(o)
    /\ event \in OfferedHandoffs(tab[o].view.handoff)

CorrectionForm(o) ==
    /\ CanCorrect(o)
    /\ tab[o].view.publication = "published"

RemovalForm(o) ==
    /\ CanRemove(o)
    /\ tab[o].view.publication = "published"

\* Typing into the correction form: the text is written over the one shown.
EditText(o) ==
    /\ tab[o].view # NoIssue
    /\ CorrectionForm(o)
    /\ ~tab[o].dirty
    /\ tab' = [tab EXCEPT ![o].dirty = TRUE, ![o].base = tab[o].view.text]
    /\ UNCHANGED <<issue, records, enabled, posts, answers, loads, faults, history>>

ChangeStatus(o, to) ==
    /\ StatusForm(o, to)
    /\ Post(o, "status", to)

RecordHandoff(o, event) ==
    /\ HandoffForm(o, event)
    /\ Post(o, "handoff", event)

Correct(o) ==
    /\ CorrectionForm(o)
    /\ tab[o].dirty
    /\ Post(o, "correction", "none")

Remove(o) ==
    /\ RemovalForm(o)
    /\ Post(o, "removal", "none")

\* issueMessage, and the success message.
Message(result) ==
    IF result \in {"recorded", "stale_resource_version", "workflow_conflict"}
    THEN result ELSE "failed"

\* Success and a stale version load the record again before the button comes
\* back; any other answer only shows a message.
AnswerArrives(o) ==
    \E a \in answers :
        /\ tab[o].phase = "posting"
        /\ a.key = tab[o].post.key
        /\ IF a.result \in {"recorded", "stale_resource_version"}
           THEN /\ Load(o, TRUE)
                /\ tab' = [tab EXCEPT ![o].phase = "reloading", ![o].message = Message(a.result)]
           ELSE /\ UNCHANGED loads
                /\ tab' = [tab EXCEPT ![o].phase = "idle", ![o].message = Message(a.result)]
        /\ UNCHANGED <<issue, records, enabled, posts, answers, faults, history>>

\* The connection fails: the request may still be delivered.
AnswerLost(o) ==
    /\ tab[o].phase = "posting"
    /\ tab' = [tab EXCEPT ![o].phase = "idle", ![o].message = "failed"]
    /\ UNCHANGED <<issue, records, enabled, posts, answers, loads, faults, history>>

\* setIssue: whichever answer arrives is shown.  A field the operator has not
\* touched follows its defaultValue, a field being edited keeps its text.
LoadArrives(o) ==
    \E load \in loads[o] :
        /\ loads' = [loads EXCEPT ![o] = @ \ {load}]
        /\ tab' = [tab EXCEPT ![o].view = load.seen,
                              ![o].phase = IF load.inside \/ @ = "loading" THEN "idle" ELSE @]
        /\ UNCHANGED <<issue, records, enabled, posts, answers, faults, history>>

\* Mutant: the button stays busy when the reload fails.
LoadFails_StaysBusy(o) ==
    \E load \in loads[o] :
        /\ loads' = [loads EXCEPT ![o] = @ \ {load}]
        /\ tab' = [tab EXCEPT ![o].message = IF load.inside THEN "failed" ELSE @]
        /\ UNCHANGED <<issue, records, enabled, posts, answers, faults, history>>

\* A GET that fails.  After a recorded change it replaces the message by one
\* of failure; the button comes back in the finally clause.
LoadFails(o) ==
    \E load \in loads[o] :
        /\ loads' = [loads EXCEPT ![o] = @ \ {load}]
        /\ tab' = [tab EXCEPT
              ![o].phase = IF load.inside THEN "idle" ELSE @,
              ![o].message = IF load.inside /\ @ = "recorded" THEN "failed" ELSE @]
        /\ UNCHANGED <<issue, records, enabled, posts, answers, faults, history>>

-----------------------------------------------------------------------------
Next ==
    \/ \E p \in posts : Deliver(p)
    \/ ChainConfirms
    \/ ChainBlocks
    \/ ToggleMutations
    \/ \E o \in Operators :
          \/ Refresh(o)
          \/ EditText(o)
          \/ \E to \in Lifecycles : ChangeStatus(o, to)
          \/ \E event \in HandoffStates \cup {"action_recorded"} : RecordHandoff(o, event)
          \/ Correct(o)
          \/ Remove(o)
          \/ AnswerArrives(o)
          \/ AnswerLost(o)
          \/ LoadArrives(o)
          \/ LoadFails(o)

Spec == Init /\ [][Next]_vars

\* A fetch ends: with its answer or with an error.
FairSpec ==
    /\ Spec
    /\ \A o \in Operators :
          /\ WF_vars(AnswerArrives(o) \/ AnswerLost(o))
          /\ SF_vars(LoadArrives(o) \/ LoadFails(o))

-----------------------------------------------------------------------------
(* Properties.                                                             *)

\* Every tab, row and message has its type.
TypeOK ==
    /\ issue.publication \in {"published", "commit_pending", "removed"}
    /\ issue.lifecycle \in LifecycleStates
    /\ issue.handoff \in HandoffStates \cup {"none"}
    /\ \A o \in Operators :
          /\ tab[o].phase \in {"loading", "idle", "posting", "reloading"}
          /\ tab[o].message \in {"none", "recorded", "stale_resource_version",
                                 "workflow_conflict", "failed"}
          /\ Cardinality(loads[o]) <= MaxLoads + 1

\* A key that recorded a change never records another and is answered the
\* same way from then on, however often the request is delivered.
KeysAreFinal ==
    [][\A k \in 1..Cardinality(posts) :
          [key |-> k, result |-> "recorded"] \in answers =>
             /\ \A a \in answers' \ answers : a.key # k
             /\ issue' # issue =>
                   (\A i \in DOMAIN history' \ DOMAIN history : history'[i].post.key # k)]_vars

\* No change is made blind: when a mutation is recorded, its operator's
\* screen, at the press, showed the text, the lifecycle and the handoff it
\* changes.  (What a form's own text was edited from, base, may be older.)
ChangesAreMadeInSight ==
    \A i \in DOMAIN history :
        LET seen == history[i].post.seen  before == history[i].before
        IN  /\ seen.text = before.text
            /\ seen.lifecycle = before.lifecycle
            /\ seen.handoff = before.handoff

\* A tab that says its change is recorded is right.
RecordedMeansRecorded ==
    \A o \in Operators :
        tab[o].message = "recorded" =>
            \E i \in DOMAIN history : history[i].post = tab[o].post

\* A button that was pressed comes back: with the answer, with a message,
\* and after the reload that may follow, whatever is lost on the way.
ButtonsComeBack ==
    \A o \in Operators : tab[o].phase \in {"posting", "reloading"} ~> tab[o].phase = "idle"

\* What a tab shows at the press is what its operator changes, and what it
\* reports is what was recorded; rows, tabs and messages have their types.
TabsTellTheTruth == TypeOK /\ ChangesAreMadeInSight /\ RecordedMeansRecorded
=============================================================================
