---------------------------- MODULE ReportIntake ----------------------------
(***************************************************************************)
(* Reporting from a browser: the public intake session, the report form,   *)
(* the tracking page and privacy requests about what was sent.             *)
(*                                                                         *)
(* Every browser of the model is behind one network address, the case in   *)
(* which they share a rate-limit bucket and, its id being a function of    *)
(* address, policy and day, one intake capability.  The clock counts       *)
(* hours.  Storing the photograph and moderating the report are            *)
(* MediaPipeline's subject; here a submission is its idempotency key, and  *)
(* what a report says is left out.                                         *)
(***************************************************************************)
EXTENDS Naturals, FiniteSets

CONSTANTS
    Browsers,
    Keys,           \* idempotency keys; the form draws a new one for every send
    StaticIntake,   \* NAGARIK_CAP_INVITE_INTAKE = "true"
    RateLimit,      \* sessions per address and hour: 60 in the code
    HoursPerDay,
    MaxHour,        \* bound: the clock
    MaxVersion,     \* bound: pilot policy versions
    MaxToggles,     \* bound: changes of the intake kill switch
    MaxLost,        \* bound: answers lost
    MaxCalls,       \* bound: sessions asked for by other clients
    MaxRequests     \* bound: privacy requests

NoCookie == <<0, 0>>
NoKey == "none"
PublicIssue == "a published issue"  \* the other target of a privacy request

ASSUME IntakeAssumption ==
    /\ StaticIntake \in BOOLEAN
    /\ RateLimit \in Nat \ {0} /\ HoursPerDay \in Nat \ {0}
    /\ MaxHour \in Nat /\ MaxVersion \in Nat \ {0} /\ MaxToggles \in Nat
    /\ MaxLost \in Nat /\ MaxCalls \in Nat /\ MaxRequests \in Nat
    /\ NoKey \notin Keys \cup Browsers /\ PublicIssue \notin Keys

VARIABLES
    hour,           \* the clock
    policy,         \* boundary version of the active public-intake policy
    intakeEnabled,  \* inviteIntakeEnabled is not killed
    toggles, lost,
    bucket,         \* rate_limit_buckets row of the address and the current hour
    granted,        \* session requests granted in the current hour
    calls,          \* session requests by clients other than the form
    capabilities,   \* purpose-2 rows: <<policy version, day>>
    submission,     \* accepted submissions: key -> the browser that sent it
    privacy,        \* privacy_requests: who asked, target, tracking capability shown
    browser         \* form state, cookies and recovery tokens of each browser

vars == <<hour, policy, intakeEnabled, toggles, lost, bucket, granted, calls, capabilities,
          submission, privacy, browser>>
environmentVars == <<hour, policy, intakeEnabled, toggles>>
databaseVars == <<bucket, granted, calls, capabilities, submission, privacy>>

NoSubmission == NoKey
NewBrowser == [gate |-> "checking", cookie |-> NoCookie, pc |-> "idle",
               tracking |-> NoKey, page |-> FALSE, sent |-> {}, tokens |-> {}]

Init ==
    /\ hour = 0 /\ policy = 1 /\ intakeEnabled = TRUE /\ toggles = 0 /\ lost = 0
    /\ bucket = 0 /\ granted = 0 /\ calls = 0
    /\ capabilities = {}
    /\ submission = [k \in Keys |-> NoSubmission]
    /\ privacy = {}
    /\ browser = [b \in Browsers |-> NewBrowser]

-----------------------------------------------------------------------------
(* Environment.                                                            *)

\* The next hour has a bucket of its own; past ones are not read again.
Tick ==
    /\ hour < MaxHour /\ hour' = hour + 1
    /\ bucket' = 0 /\ granted' = 0
    /\ UNCHANGED <<policy, intakeEnabled, toggles, lost, calls, capabilities, submission,
                   privacy, browser>>

RotatePolicy ==
    /\ policy < MaxVersion /\ policy' = policy + 1
    /\ hour + 2 * HoursPerDay <= MaxHour   \* bound: today's capability can still expire
    /\ UNCHANGED <<hour, intakeEnabled, toggles, lost, databaseVars, browser>>

ToggleIntake ==
    /\ toggles < MaxToggles /\ toggles' = toggles + 1
    /\ intakeEnabled' = ~intakeEnabled
    /\ UNCHANGED <<hour, policy, lost, databaseVars, browser>>

-----------------------------------------------------------------------------
(* requireIntakeCapability and createPublicIntakeSession.                  *)

utcDay(h) == h \div HoursPerDay

\* utcDay: a capability of day d expires when day d + 2 starts.
ExpiryHour(day) == (day + 2) * HoursPerDay

Live(c) == c \in capabilities /\ hour < ExpiryHour(c[2])

\* requireIntakeCapability and authorizeIntakeCapability on a cookie.
IntakeStatus(c) ==
    IF ~StaticIntake THEN 503
    ELSE IF c = NoCookie THEN 401
    ELSE IF c \notin capabilities \/ ~intakeEnabled THEN 503
    ELSE IF ~Live(c) THEN 401
    ELSE 200

\* GET intake-sessions: the policy of the capability must still be active.
ContextStatus(c) ==
    IF IntakeStatus(c) # 200 THEN IntakeStatus(c)
    ELSE IF c[1] # policy THEN 503
    ELSE 200

\* coordinates: the capability an address gets under this policy today.
TodaysCapability == <<policy, utcDay(hour)>>

\* Mutant: the request that reaches the limit plus one is still served.
WithinLimit_OffByOne(count) == count <= RateLimit + 1

\* The count includes this request; more than the limit is refused.
WithinLimit(count) == count <= RateLimit

\* What the session transaction answers.
SessionStatus ==
    IF ~intakeEnabled THEN 503
    ELSE IF ~WithinLimit(bucket + 1) THEN 429
    ELSE 200

\* Counts above the limit are told apart no further.
Counted(count) == IF count > RateLimit + 1 THEN count ELSE count + 1

\* The transaction.  A refusal by the limit commits the count; any other
\* failure rolls it back.
CreatePublicIntakeSession ==
    /\ bucket' = IF SessionStatus = 503 THEN bucket ELSE Counted(bucket)
    /\ capabilities' = IF SessionStatus = 200 THEN capabilities \cup {TodaysCapability}
                       ELSE capabilities
    /\ granted' = IF SessionStatus = 200 THEN granted + 1 ELSE granted
    /\ UNCHANGED <<submission, privacy>>

\* An answer does not reach the browser.  (Losses, and calls by other
\* clients, stop before the clock does, so that the last hour's limit does
\* not stand in for a limit that never resets.)
Lose(loses) == loses => lost < MaxLost /\ hour < MaxHour
CountLost(loses) == lost' = IF loses THEN lost + 1 ELSE lost

-----------------------------------------------------------------------------
(* ReportExperience: the gate.                                             *)

\* Mutant: an expired session is treated as an error.
AfterCheck_NoRenewal(b, status) ==
    IF status = 200 THEN "ready" ELSE IF browser[b].cookie = NoCookie THEN "posting" ELSE "error"

\* establishPublicIntakeSession: only 401 on the first read asks for a session.
AfterCheck(b, status) ==
    CASE status = 200 -> "ready"
      [] status = 401 /\ browser[b].gate = "checking" -> "posting"
      [] OTHER -> "error"

CheckSession(b) ==
    /\ browser[b].gate \in {"checking", "confirming"}
    /\ browser' = [browser EXCEPT ![b].gate = AfterCheck(b, ContextStatus(browser[b].cookie))]
    /\ UNCHANGED <<environmentVars, lost, databaseVars>>

PostSession(b, loses) ==
    /\ browser[b].gate = "posting" /\ Lose(loses)
    /\ CreatePublicIntakeSession
    /\ browser' = IF SessionStatus = 200 /\ ~loses
                  THEN [browser EXCEPT ![b].gate = "confirming", ![b].cookie = TodaysCapability]
                  ELSE [browser EXCEPT ![b].gate = "error"]
    /\ CountLost(loses)
    /\ UNCHANGED <<environmentVars, calls>>

\* The route called by a client other than the form.
CallSession ==
    /\ calls < MaxCalls /\ hour < MaxHour /\ calls' = calls + 1
    /\ CreatePublicIntakeSession
    /\ UNCHANGED <<environmentVars, lost, browser>>

TryAgain(b) ==
    /\ browser[b].gate = "error"
    /\ browser' = [browser EXCEPT ![b].gate = "checking"]
    /\ UNCHANGED <<environmentVars, lost, databaseVars>>

-----------------------------------------------------------------------------
(* ReportExperience: sending a report.                                     *)

\* A failed request returns to the form; 401 also renews the session.
Failed(b, status) ==
    [browser EXCEPT ![b].pc = "idle", ![b].gate = IF status = 401 THEN "checking" ELSE @]

\* submitReport: the upload comes first, always under a key of its own.  A
\* report whose answer was lost is sent again as another.
SendReport(b) ==
    /\ browser[b].gate = "ready" /\ browser[b].pc = "idle" /\ ~browser[b].page
    /\ \E k \in Keys : submission[k] = NoSubmission  \* bound: keys that are left
    /\ browser' = [browser EXCEPT ![b].pc = "uploading"]
    /\ UNCHANGED <<environmentVars, lost, databaseVars>>

Upload(b) ==
    LET status == IntakeStatus(browser[b].cookie) IN
    /\ browser[b].pc = "uploading"
    /\ browser' = IF status = 200 THEN [browser EXCEPT ![b].pc = "sending"] ELSE Failed(b, status)
    /\ UNCHANGED <<environmentVars, lost, databaseVars>>

\* The submissions route authorises before the transaction reads anything.
AuthorizeSubmission(b) ==
    LET status == IntakeStatus(browser[b].cookie) IN
    /\ browser[b].pc = "sending"
    /\ browser' = IF status = 200 THEN [browser EXCEPT ![b].pc = "authorized"] ELSE Failed(b, status)
    /\ UNCHANGED <<environmentVars, lost, databaseVars>>

\* Mutant: the transaction trusts the policy version in the capability.
PolicyHolds_FromCapability(c) == TRUE

\* activePilotPolicy: the active policy, under a share lock, is the
\* capability's.
PolicyHolds(c) == c[1] = policy

\* createPrivateSubmission.  The answer carries the recovery token, and sets
\* it as the tracking cookie in the place of the last.  (The tracking
\* capability of submission k is k.)
Submit(b, k, loses) ==
    LET accepted == PolicyHolds(browser[b].cookie) IN
    /\ browser[b].pc = "authorized" /\ submission[k] = NoSubmission /\ Lose(loses)
    /\ k = CHOOSE l \in Keys : submission[l] = NoSubmission  \* keys are interchangeable
    /\ submission' = IF accepted THEN [submission EXCEPT ![k] = b] ELSE submission
    /\ browser' = IF accepted /\ ~loses
                  THEN [browser EXCEPT ![b].pc = "idle", ![b].tracking = k,
                                     ![b].page = TRUE, ![b].sent = @ \cup {k},
                                     ![b].tokens = @ \cup {k}]
                  ELSE Failed(b, 503)
    /\ CountLost(loses)
    /\ UNCHANGED <<environmentVars, bucket, granted, calls, capabilities, privacy>>

\* Leaving the tracking page for a new, empty form.
NewReport(b) ==
    /\ browser[b].page /\ browser[b].pc = "idle"
    /\ browser' = [browser EXCEPT ![b].page = FALSE]
    /\ UNCHANGED <<environmentVars, lost, databaseVars>>

-----------------------------------------------------------------------------
(* Tracking and privacy requests.                                          *)

\* The person at browser b takes a recovery token to browser c.
HandOver(b, c, k) ==
    /\ k \in browser[b].tokens \ browser[c].tokens
    /\ browser' = [browser EXCEPT ![c].tokens = @ \cup {k}]
    /\ UNCHANGED <<environmentVars, lost, databaseVars>>

\* What browser b may put into the header "Authorization: NagarikTracking".
Headers(b) == browser[b].tokens \cup {NoKey}

\* trackingToken: the header, if there is one, before the cookie.
Presented(b, header) == IF header # NoKey THEN header ELSE browser[b].tracking

\* Mutant: any tracking capability opens any submission.
TrackingAuthorized_Any(token, k) == token # NoKey

\* authorizeTrackingCapability: the capability is bound to one submission.
\* (It lasts 90 days, longer than the clock runs.)
TrackingAuthorized(token, k) == token # NoKey /\ token = k

\* GET submissions/[trackingId]: the record, or a neutral 404.
TrackingPage(b, header, k) ==
    IF TrackingAuthorized(Presented(b, header), k) THEN "ready" ELSE "missing"

\* createPrivacyRequest with an intake cookie.  A request about a submission
\* must show its tracking capability; one about a published issue shows none.
CreatePrivacyRequest(b, header, target) ==
    LET token == Presented(b, header)
        request == [by |-> b, target |-> target,
                    source |-> IF target = PublicIssue THEN NoKey ELSE token] IN
    /\ IntakeStatus(browser[b].cookie) = 200
    /\ target # PublicIssue =>
          submission[target] # NoSubmission /\ TrackingAuthorized(token, target)
    /\ request \notin privacy /\ Cardinality(privacy) < MaxRequests
    /\ privacy' = privacy \cup {request}
    /\ UNCHANGED <<environmentVars, lost, bucket, granted, calls, capabilities, submission, browser>>

Next ==
    \/ Tick \/ RotatePolicy \/ ToggleIntake \/ CallSession
    \/ \E b \in Browsers :
          \/ CheckSession(b) \/ TryAgain(b)
          \/ SendReport(b) \/ Upload(b) \/ AuthorizeSubmission(b) \/ NewReport(b)
          \/ \E loses \in BOOLEAN :
                PostSession(b, loses) \/ \E k \in Keys : Submit(b, k, loses)
          \/ \E c \in Browsers, k \in Keys : HandOver(b, c, k)
          \/ \E header \in Headers(b), target \in Keys \cup {PublicIssue} :
                CreatePrivacyRequest(b, header, target)

Spec == Init /\ [][Next]_vars

\* Requests in flight are answered, the clock moves, and a person faced with
\* the error page presses "Try again".
FairSpec ==
    /\ Spec /\ WF_vars(Tick)
    /\ \A b \in Browsers : /\ WF_vars(CheckSession(b)) /\ WF_vars(TryAgain(b))
                           /\ WF_vars(\E loses \in BOOLEAN : PostSession(b, loses))

-----------------------------------------------------------------------------
(* Properties.                                                             *)

\* Type of the state.
TypeOK ==
    /\ hour \in 0..MaxHour /\ policy \in 1..MaxVersion /\ intakeEnabled \in BOOLEAN
    /\ bucket \in 0..RateLimit + 2 /\ granted \in Nat /\ calls \in 0..MaxCalls
    /\ capabilities \subseteq (1..MaxVersion) \X Nat
    /\ \A b \in Browsers :
          /\ browser[b].gate \in {"checking", "posting", "confirming", "ready", "error"}
          /\ browser[b].pc \in {"idle", "uploading", "sending", "authorized"}
          /\ browser[b].cookie \in capabilities \cup {NoCookie}
          /\ browser[b].tracking \in Keys \cup {NoKey}

\* The browsers of one address never get more than RateLimit sessions in an
\* hour, however their requests interleave with refusals and lost answers.
SessionsWithinLimit == granted <= RateLimit

\* At most two days' capabilities of one policy are live at any moment, so
\* a session never lasts beyond the day after it was issued.
CapabilitiesAreShortLived ==
    \A v \in 1..MaxVersion : Cardinality({c \in capabilities : c[1] = v /\ Live(c)}) <= 2

\* A report is accepted only under the policy in force at that moment, even
\* when the form was opened and authorised under an earlier one.
AcceptedUnderActivePolicy ==
    [][\A k \in Keys : submission'[k] # submission[k]
          => browser[submission'[k]].cookie[1] = policy]_vars

\* A submission's tracking record opens, and a request about its data is
\* taken, only on the token of that very submission, by cookie or header,
\* although all browsers share one intake capability; and each token in
\* anybody's hands goes back to the answer its report's own sender received.
TrackingNeedsTheToken ==
    /\ \A x \in privacy : x.target # PublicIssue =>
          x.source = x.target /\ x.target \in browser[x.by].tokens
    /\ \A b \in Browsers, k \in Keys : \A header \in Headers(b) :
          TrackingPage(b, header, k) = "ready" => k \in browser[b].tokens
    /\ \A b \in Browsers : \A k \in browser[b].tokens :
          \E sender \in Browsers : submission[k] = sender /\ k \in browser[sender].sent

\* A browser that cannot report gets back to the form, unless intake is shut:
\* a session that ended with its policy is replaced once it expires, and one
\* refused by the limit is granted in a later hour.
ReportingComesBack ==
    \A b \in Browsers :
        browser[b].gate = "error" ~> (browser[b].gate = "ready" \/ ~intakeEnabled)

\* Sessions stay within the hourly limit and end the day after they were
\* issued, and every row and form has its type.
SessionsAreBounded == TypeOK /\ SessionsWithinLimit /\ CapabilitiesAreShortLived
=============================================================================
