------------------------ MODULE ReportIntake_proofs ------------------------
(***************************************************************************)
(* Proofs about ReportIntake for every set of browsers, reports and keys,  *)
(* every rate limit, length of the day and bound.                          *)
(***************************************************************************)
EXTENDS ReportIntake, FiniteSetTheorems, TLAPS

-----------------------------------------------------------------------------
(* The inductive invariant.                                                *)

Days == Nat
CapabilityNames == (1 .. MaxVersion) \X Days
Gates == {"checking", "posting", "confirming", "ready", "error"}
Forms == {"idle", "uploading", "sending", "authorized"}
Tabs == [ gate : Gates, cookie : CapabilityNames \cup {NoCookie}, pc : Forms,
          tracking : Keys \cup {NoKey}, page : BOOLEAN,
          sent : SUBSET Keys, tokens : SUBSET Keys ]
Submissions == Browsers \cup {NoKey}
Requests == [by : Browsers, target : Keys \cup {PublicIssue}, source : Keys \cup {NoKey}]

\* The rows and the clock.
RowTypes ==
    /\ hour \in 0 .. MaxHour /\ policy \in 1 .. MaxVersion /\ intakeEnabled \in BOOLEAN
    /\ bucket \in 0 .. RateLimit + 2 /\ calls \in 0 .. MaxCalls
    /\ submission \in [Keys -> Submissions]
    /\ privacy \subseteq Requests

\* The hour's sessions are counted in its bucket.
SessionsAreCounted == granted \in Nat /\ granted <= bucket /\ granted <= RateLimit

\* A capability is of today or of a day before.
CapabilitiesAreDated ==
    /\ capabilities \subseteq CapabilityNames
    /\ \A c \in capabilities : c[2] <= utcDay(hour)

\* Cookies are capabilities that were issued.
CookiesAreIssued ==
    /\ browser \in [Browsers -> Tabs]
    /\ \A b \in Browsers : browser[b].cookie \in capabilities \cup {NoCookie}

\* The token of k left the server in the answer its report's sender received.
CameFromTheSender(k) ==
    \E sender \in Browsers : submission[k] = sender /\ k \in browser[sender].sent

\* A cookie is a token one has, a token goes back to the sender, and a request
\* about a submission was asked by somebody who has its token.
TokensAreHandedOn ==
    /\ \A b \in Browsers : browser[b].tracking \in browser[b].tokens \cup {NoKey}
    /\ \A b \in Browsers : \A k \in browser[b].tokens : CameFromTheSender(k)
    /\ \A x \in privacy : x.target # PublicIssue =>
          x.source = x.target /\ x.target \in browser[x.by].tokens

Inv == /\ RowTypes /\ SessionsAreCounted /\ CapabilitiesAreDated /\ CookiesAreIssued
       /\ TokensAreHandedOn

-----------------------------------------------------------------------------
(* Days.                                                                   *)

\* The day of an hour, without division.
LEMMA DayBounds ==
    ASSUME NEW h \in Nat
    PROVE  /\ utcDay(h) \in Nat
           /\ utcDay(h) * HoursPerDay <= h /\ h < (utcDay(h) + 1) * HoursPerDay
BY IntakeAssumption DEF utcDay

\* The day of the next hour is not before the day of this one.
LEMMA DaysPass ==
    ASSUME NEW h \in Nat
    PROVE  utcDay(h) <= utcDay(h + 1)
<1> DEFINE d == utcDay(h)
           e == utcDay(h + 1)
           n == HoursPerDay
<1>1. n \in Nat /\ n > 0
  BY IntakeAssumption
<1>2. d \in Nat /\ d * n <= h
  BY DayBounds
<1>3. e \in Nat /\ h + 1 < (e + 1) * n
  BY DayBounds
<1> HIDE DEF d, e, n
<1>4. SUFFICES ASSUME d > e PROVE FALSE
  BY <1>2, <1>3 DEF d, e
<1>5. (e + 1) * n <= d * n
  <2>1. d - (e + 1) \in Nat
    BY <1>2, <1>3, <1>4
  <2>2. (d - (e + 1)) * n >= 0
    BY <1>1, <2>1
  <2> QED
    BY <1>1, <1>2, <1>3, <2>2
<1>6. (e + 1) * n \in Nat /\ d * n \in Nat
  BY <1>1, <1>2, <1>3
<1> QED
  BY <1>2, <1>3, <1>5, <1>6

\* A capability of a day that is over by two is not live.
LEMMA LiveDays ==
    ASSUME NEW h \in Nat, NEW d \in Nat, h < ExpiryHour(d)
    PROVE  utcDay(h) <= d + 1
<1> DEFINE e == utcDay(h)
           n == HoursPerDay
<1>1. n \in Nat /\ n > 0
  BY IntakeAssumption
<1>2. e \in Nat /\ e * n <= h /\ h < (d + 2) * n
  BY DayBounds DEF ExpiryHour
<1> HIDE DEF e, n
<1>3. SUFFICES ASSUME e > d + 1 PROVE FALSE
  BY <1>2 DEF e
<1>4. (e - (d + 2)) * n >= 0
  BY <1>1, <1>2, <1>3
<1>5. (d + 2) * n <= e * n
  BY <1>1, <1>2, <1>4
<1>6. (d + 2) * n \in Nat /\ e * n \in Nat
  BY <1>1, <1>2
<1> QED
  BY <1>2, <1>5, <1>6

-----------------------------------------------------------------------------
(* Lemmas on steps.                                                        *)

LEMMA Constants ==
    /\ RateLimit \in Nat /\ RateLimit > 0 /\ HoursPerDay \in Nat /\ HoursPerDay > 0
    /\ MaxHour \in Nat /\ MaxVersion \in Nat /\ MaxVersion > 0 /\ MaxCalls \in Nat
    /\ NoKey \notin Keys /\ NoKey \notin Browsers
BY IntakeAssumption

\* What the session transaction does to the rows: the bucket counts what was
\* granted, and the capability granted is of today.
LEMMA SessionStep ==
    ASSUME Inv, CreatePublicIntakeSession, UNCHANGED <<hour, policy>>
    PROVE  /\ bucket' \in 0 .. RateLimit + 2
           /\ SessionsAreCounted' /\ CapabilitiesAreDated'
           /\ capabilities \subseteq capabilities'
           /\ SessionStatus = 200 => TodaysCapability \in capabilities'
           /\ TodaysCapability \in CapabilityNames
<1>1. /\ hour \in Nat /\ policy \in 1 .. MaxVersion
      /\ bucket \in 0 .. RateLimit + 2 /\ bucket \in Nat
      /\ granted \in Nat /\ granted <= bucket /\ granted <= RateLimit
      /\ CapabilitiesAreDated
  BY Constants DEF Inv, RowTypes, SessionsAreCounted
<1>2. TodaysCapability \in CapabilityNames /\ TodaysCapability[2] <= utcDay(hour)
  <2>1. utcDay(hour) \in Nat
    BY <1>1, DayBounds
  <2> QED
    BY <1>1, <2>1 DEF TodaysCapability, CapabilityNames, Days
<1>3. SessionStatus = 200 => bucket + 1 <= RateLimit
  BY DEF SessionStatus, WithinLimit
<1>4. bucket' \in 0 .. RateLimit + 2 /\ bucket' \in Nat /\ bucket' >= bucket
  BY <1>1, Constants DEF CreatePublicIntakeSession, Counted
<1>5. SessionStatus = 200 => bucket' = bucket + 1
  <2>1. SessionStatus = 200 => bucket' = Counted(bucket)
    BY DEF CreatePublicIntakeSession
  <2> QED
    BY <1>1, <1>3, <2>1, Constants DEF Counted
<1>6. SessionsAreCounted'
  <2>1. granted' = IF SessionStatus = 200 THEN granted + 1 ELSE granted
    BY DEF CreatePublicIntakeSession
  <2> QED
    BY <1>1, <1>3, <1>4, <1>5, <2>1, Constants DEF SessionsAreCounted
<1>7. capabilities' = IF SessionStatus = 200 THEN capabilities \cup {TodaysCapability}
                      ELSE capabilities
  BY DEF CreatePublicIntakeSession
<1>8. CapabilitiesAreDated'
  BY <1>1, <1>2, <1>7 DEF CapabilitiesAreDated, utcDay
<1> QED
  BY <1>2, <1>4, <1>6, <1>7, <1>8

\* A tab keeps what b has; a token it gains is somebody's, or of its own report.
Gains(b, tab) ==
    /\ browser[b].sent \subseteq tab.sent /\ browser[b].tokens \subseteq tab.tokens
    /\ tab.tracking \in tab.tokens \cup {NoKey}
    /\ \A k \in tab.tokens : \/ \E o \in Browsers : k \in browser[o].tokens
                             \/ submission'[k] = b /\ k \in tab.sent

\* A step that changes one tab, and no submission that has a sender.
LEMMA TabStep ==
    ASSUME Inv, NEW b \in Browsers, NEW tab \in Tabs,
           browser' = [browser EXCEPT ![b] = tab],
           tab.cookie \in capabilities' \cup {NoCookie}, capabilities \subseteq capabilities',
           \A k \in Keys : submission[k] \in Browsers => submission'[k] = submission[k],
           Gains(b, tab), privacy' = privacy
    PROVE  CookiesAreIssued' /\ TokensAreHandedOn'
<1>1. /\ browser \in [Browsers -> Tabs] /\ privacy \subseteq Requests
      /\ \A o \in Browsers : browser[o].cookie \in capabilities \cup {NoCookie}
      /\ TokensAreHandedOn
  BY DEF Inv, RowTypes, CookiesAreIssued
<1>2. /\ browser' \in [Browsers -> Tabs] /\ browser'[b] = tab
      /\ \A o \in Browsers \ {b} : browser'[o] = browser[o]
  BY <1>1
<1>3. CookiesAreIssued'
  BY <1>1, <1>2 DEF CookiesAreIssued
<1>4. \A o \in Browsers : /\ browser[o].tokens \subseteq browser'[o].tokens
                           /\ browser[o].sent \subseteq browser'[o].sent
  BY <1>2 DEF Gains
<1>5. \A o \in Browsers : browser'[o].tracking \in browser'[o].tokens \cup {NoKey}
  BY <1>1, <1>2 DEF TokensAreHandedOn, Gains
<1>6. ASSUME NEW o \in Browsers, NEW k \in browser[o].tokens PROVE CameFromTheSender(k)'
  <2>1. k \in Keys
    BY <1>1 DEF Tabs
  <2>2. PICK sender \in Browsers : submission[k] = sender /\ k \in browser[sender].sent
    BY <1>1 DEF TokensAreHandedOn, CameFromTheSender
  <2>3. submission'[k] = sender /\ k \in browser'[sender].sent
    BY <1>4, <2>1, <2>2
  <2> QED
    BY <2>3 DEF CameFromTheSender
<1>7. ASSUME NEW o \in Browsers, NEW k \in browser'[o].tokens PROVE CameFromTheSender(k)'
  <2>1. CASE \E p \in Browsers : k \in browser[p].tokens
    BY <1>6, <2>1
  <2>2. CASE o = b /\ submission'[k] = b /\ k \in tab.sent
    BY <1>2, <2>2 DEF CameFromTheSender
  <2> QED
    BY <1>2, <1>7, <2>1, <2>2 DEF Gains
<1>8. \A x \in privacy : x.target # PublicIssue =>
          x.source = x.target /\ x.target \in browser'[x.by].tokens
  BY <1>1, <1>4 DEF TokensAreHandedOn, Requests
<1> QED
  BY <1>3, <1>5, <1>7, <1>8 DEF TokensAreHandedOn

\* The tab has the cookie, the tokens and the sent reports that b has.
Keeps(b, tab) == /\ tab.tracking = browser[b].tracking /\ tab.tokens = browser[b].tokens
                 /\ tab.sent = browser[b].sent

\* TabStep for a tab that keeps them.
LEMMA KeepingStep ==
    ASSUME Inv, NEW b \in Browsers, NEW tab \in Tabs, Keeps(b, tab),
           browser' = [browser EXCEPT ![b] = tab],
           tab.cookie \in capabilities' \cup {NoCookie}, capabilities \subseteq capabilities',
           \A k \in Keys : submission[k] \in Browsers => submission'[k] = submission[k],
           privacy' = privacy
    PROVE  CookiesAreIssued' /\ TokensAreHandedOn'
<1>1. Gains(b, tab)
  BY DEF Inv, TokensAreHandedOn, Keeps, Gains
<1> QED
  BY <1>1, TabStep

\* A step that leaves tabs, submissions and requests alone.
LEMMA TabsKept ==
    ASSUME Inv, UNCHANGED <<browser, submission, privacy>>, capabilities \subseteq capabilities'
    PROVE  CookiesAreIssued' /\ TokensAreHandedOn'
BY DEF Inv, CookiesAreIssued, TokensAreHandedOn, CameFromTheSender

\* A step that leaves the sessions' rows alone.
LEMMA SessionsKept ==
    ASSUME Inv, UNCHANGED <<hour, bucket, granted, capabilities>>
    PROVE  SessionsAreCounted' /\ CapabilitiesAreDated'
BY DEF Inv, SessionsAreCounted, CapabilitiesAreDated, utcDay

\* A step of a form that touches no row at all.
LEMMA FormStep ==
    ASSUME Inv, NEW b \in Browsers, NEW tab \in Tabs,
           browser' = [browser EXCEPT ![b] = tab],
           tab.cookie = browser[b].cookie, Keeps(b, tab),
           UNCHANGED <<environmentVars, databaseVars>>
    PROVE  Inv'
<1>1. /\ UNCHANGED <<hour, policy, intakeEnabled, bucket, granted, calls, capabilities,
                     submission, privacy>>
  BY DEF environmentVars, databaseVars
<1>2. RowTypes'
  BY <1>1 DEF Inv, RowTypes
<1>3. CookiesAreIssued' /\ TokensAreHandedOn'
  <2>1. tab.cookie \in capabilities' \cup {NoCookie}
    BY <1>1 DEF Inv, CookiesAreIssued
  <2> QED
    BY <1>1, <2>1, KeepingStep
<1> QED
  BY <1>1, <1>2, <1>3, SessionsKept DEF Inv

-----------------------------------------------------------------------------
(* The invariant.                                                          *)

LEMMA InitInv == Init => Inv
<1> SUFFICES ASSUME Init PROVE Inv
  OBVIOUS
<1>1. NewBrowser \in Tabs
  BY DEF NewBrowser, Tabs, Gates, Forms
<1>2. NoSubmission \in Submissions
  BY DEF NoSubmission, Submissions
<1>3. RowTypes
  BY <1>2, Constants DEF Init, RowTypes
<1>4. SessionsAreCounted /\ CapabilitiesAreDated
  BY Constants DEF Init, SessionsAreCounted, CapabilitiesAreDated
<1>5. CookiesAreIssued
  BY <1>1 DEF Init, CookiesAreIssued, NewBrowser
<1>6. TokensAreHandedOn
  BY DEF Init, TokensAreHandedOn, NewBrowser
<1> QED
  BY <1>3, <1>4, <1>5, <1>6 DEF Inv

\* The environment's steps.
LEMMA EnvironmentStep ==
    ASSUME Inv, Tick \/ RotatePolicy \/ ToggleIntake \/ CallSession \/ UNCHANGED vars
    PROVE  Inv'
<1>1. CASE Tick
  <2>1. /\ hour' = hour + 1 /\ hour < MaxHour /\ bucket' = 0 /\ granted' = 0
        /\ UNCHANGED <<policy, intakeEnabled, calls, capabilities, submission, privacy, browser>>
    BY <1>1 DEF Tick
  <2>2. hour \in Nat /\ hour' \in 0 .. MaxHour
    BY <2>1, Constants DEF Inv, RowTypes
  <2>3. RowTypes'
    BY <2>1, <2>2, Constants DEF Inv, RowTypes
  <2>4. SessionsAreCounted'
    BY <2>1, Constants DEF SessionsAreCounted
  <2>5. CapabilitiesAreDated'
    <3>1. utcDay(hour') \in Nat /\ utcDay(hour) \in Nat /\ utcDay(hour) <= utcDay(hour')
      BY <2>1, <2>2, DaysPass, DayBounds
    <3>2. utcDay(hour)' = utcDay(hour')
      BY DEF utcDay
    <3>3. \A c \in capabilities : c[2] \in Nat /\ c[2] <= utcDay(hour)
      BY DEF Inv, CapabilitiesAreDated, CapabilityNames, Days
    <3>4. \A c \in capabilities : c[2] <= utcDay(hour)'
      BY <3>1, <3>2, <3>3
    <3> QED
      BY <2>1, <3>4 DEF Inv, CapabilitiesAreDated
  <2> QED
    BY <2>1, <2>3, <2>4, <2>5, TabsKept DEF Inv
<1>2. CASE RotatePolicy
  <2>1. /\ policy' = policy + 1 /\ policy < MaxVersion
        /\ UNCHANGED <<hour, intakeEnabled, bucket, granted, calls, capabilities, submission,
                       privacy, browser>>
    BY <1>2 DEF RotatePolicy, databaseVars
  <2>2. RowTypes'
    BY <2>1, Constants DEF Inv, RowTypes
  <2> QED
    BY <2>1, <2>2, SessionsKept, TabsKept DEF Inv
<1>3. CASE ToggleIntake
  <2>1. /\ intakeEnabled' = ~intakeEnabled
        /\ UNCHANGED <<hour, policy, bucket, granted, calls, capabilities, submission,
                       privacy, browser>>
    BY <1>3 DEF ToggleIntake, databaseVars
  <2>2. RowTypes'
    BY <2>1 DEF Inv, RowTypes
  <2> QED
    BY <2>1, <2>2, SessionsKept, TabsKept DEF Inv
<1>4. CASE CallSession
  <2>1. /\ calls' = calls + 1 /\ calls < MaxCalls /\ CreatePublicIntakeSession
        /\ UNCHANGED <<hour, policy, intakeEnabled, submission, privacy, browser>>
    BY <1>4 DEF CallSession, environmentVars, CreatePublicIntakeSession
  <2>2. /\ bucket' \in 0 .. RateLimit + 2
        /\ SessionsAreCounted' /\ CapabilitiesAreDated' /\ capabilities \subseteq capabilities'
    BY <2>1, SessionStep
  <2>3. calls' \in 0 .. MaxCalls
    BY <2>1, Constants DEF Inv, RowTypes
  <2>4. RowTypes'
    BY <2>1, <2>2, <2>3 DEF Inv, RowTypes
  <2> QED
    BY <2>1, <2>2, <2>4, TabsKept DEF Inv
<1>5. CASE UNCHANGED vars
  <2>1. UNCHANGED <<hour, policy, intakeEnabled, bucket, granted, calls, capabilities,
                    submission, privacy, browser>>
    BY <1>5 DEF vars
  <2>2. RowTypes'
    BY <2>1 DEF Inv, RowTypes
  <2> QED
    BY <2>1, <2>2, SessionsKept, TabsKept DEF Inv
<1> QED
  BY <1>1, <1>2, <1>3, <1>4, <1>5

\* Failed leaves a tab idle with its cookies.
LEMMA FailedTab ==
    ASSUME Inv, NEW b \in Browsers, NEW status
    PROVE  \E tab \in Tabs : /\ Failed(b, status) = [browser EXCEPT ![b] = tab]
                             /\ tab.cookie = browser[b].cookie /\ Keeps(b, tab)
<1> DEFINE gate == IF status = 401 THEN "checking" ELSE browser[b].gate
           tab == [browser[b] EXCEPT !.pc = "idle", !.gate = gate]
<1>1. browser \in [Browsers -> Tabs] /\ browser[b] \in Tabs
  BY DEF Inv, CookiesAreIssued
<1>2. gate \in Gates
  BY <1>1 DEF Gates, Tabs
<1> HIDE DEF gate
<1>3. tab \in Tabs /\ tab.cookie = browser[b].cookie /\ Keeps(b, tab)
  BY <1>1, <1>2 DEF Tabs, Forms, Keeps
<1>4. Failed(b, status) = [browser EXCEPT ![b] = tab]
  BY <1>1 DEF Failed, gate
<1> QED
  BY <1>3, <1>4

\* The gate asks for a session: its answer, when it arrives, names the
\* capability the same transaction made.
LEMMA PostSessionStep ==
    ASSUME Inv, NEW b \in Browsers, NEW loses \in BOOLEAN, PostSession(b, loses)
    PROVE  Inv'
<1>1. /\ CreatePublicIntakeSession
      /\ UNCHANGED <<hour, policy, intakeEnabled, calls, submission, privacy>>
  BY DEF PostSession, environmentVars, CreatePublicIntakeSession
<1>2. /\ bucket' \in 0 .. RateLimit + 2
      /\ SessionsAreCounted' /\ CapabilitiesAreDated' /\ capabilities \subseteq capabilities'
      /\ SessionStatus = 200 => TodaysCapability \in capabilities'
      /\ TodaysCapability \in CapabilityNames
  BY <1>1, SessionStep
<1>3. RowTypes'
  BY <1>1, <1>2 DEF Inv, RowTypes
<1>4. browser[b] \in Tabs /\ browser[b].cookie \in capabilities' \cup {NoCookie}
  BY <1>1, <1>2 DEF Inv, CookiesAreIssued
<1>5. CookiesAreIssued' /\ TokensAreHandedOn'
  <2>1. CASE SessionStatus = 200 /\ ~loses
    <3> DEFINE tab == [browser[b] EXCEPT !.gate = "confirming", !.cookie = TodaysCapability]
    <3>1. browser' = [browser EXCEPT ![b] = tab]
      BY <2>1 DEF PostSession
    <3>2. tab \in Tabs /\ tab.cookie \in capabilities' \cup {NoCookie} /\ Keeps(b, tab)
      BY <1>2, <1>4, <2>1 DEF Tabs, Gates, Keeps
    <3> HIDE DEF tab
    <3> QED
      BY <1>1, <1>2, <3>1, <3>2, KeepingStep
  <2>2. CASE ~(SessionStatus = 200 /\ ~loses)
    <3> DEFINE tab == [browser[b] EXCEPT !.gate = "error"]
    <3>1. browser' = [browser EXCEPT ![b] = tab]
      BY <2>2 DEF PostSession
    <3>2. tab \in Tabs /\ tab.cookie = browser[b].cookie /\ Keeps(b, tab)
      BY <1>4 DEF Tabs, Gates, Keeps
    <3> HIDE DEF tab
    <3> QED
      BY <1>1, <1>2, <1>4, <3>1, <3>2, KeepingStep
  <2> QED
    BY <2>1, <2>2
<1> QED
  BY <1>2, <1>3, <1>5 DEF Inv

\* The steps of the gate and the form that touch no row.
LEMMA FormsStep ==
    ASSUME Inv, NEW b \in Browsers,
           \/ CheckSession(b) \/ TryAgain(b) \/ SendReport(b)
           \/ Upload(b) \/ AuthorizeSubmission(b) \/ NewReport(b)
    PROVE  Inv'
<1>1. browser \in [Browsers -> Tabs] /\ browser[b] \in Tabs
  BY DEF Inv, CookiesAreIssued
<1>2. CASE CheckSession(b)
  <2> DEFINE gate == AfterCheck(b, ContextStatus(browser[b].cookie))
             tab == [browser[b] EXCEPT !.gate = gate]
  <2>1. browser' = [browser EXCEPT ![b] = tab] /\ UNCHANGED <<environmentVars, databaseVars>>
    BY <1>2 DEF CheckSession
  <2>2. gate \in Gates
    BY DEF AfterCheck, Gates
  <2> HIDE DEF gate
  <2>3. tab \in Tabs /\ tab.cookie = browser[b].cookie /\ Keeps(b, tab)
    BY <1>1, <2>2 DEF Tabs, Keeps
  <2> HIDE DEF tab
  <2> QED
    BY <2>1, <2>3, FormStep
<1>3. CASE TryAgain(b)
  <2> DEFINE tab == [browser[b] EXCEPT !.gate = "checking"]
  <2>1. browser' = [browser EXCEPT ![b] = tab] /\ UNCHANGED <<environmentVars, databaseVars>>
    BY <1>3 DEF TryAgain
  <2>2. tab \in Tabs /\ tab.cookie = browser[b].cookie /\ Keeps(b, tab)
    BY <1>1 DEF Tabs, Gates, Keeps
  <2> HIDE DEF tab
  <2> QED
    BY <2>1, <2>2, FormStep
<1>4. ASSUME NEW pc \in Forms, browser' = [browser EXCEPT ![b].pc = pc],
             UNCHANGED <<environmentVars, databaseVars>>
      PROVE  Inv'
  <2> DEFINE tab == [browser[b] EXCEPT !.pc = pc]
  <2>1. browser' = [browser EXCEPT ![b] = tab]
    BY <1>4
  <2>2. tab \in Tabs /\ tab.cookie = browser[b].cookie /\ Keeps(b, tab)
    BY <1>1 DEF Tabs, Keeps
  <2> HIDE DEF tab
  <2> QED
    BY <1>4, <2>1, <2>2, FormStep
<1>5. ASSUME NEW status, browser' = Failed(b, status), UNCHANGED <<environmentVars, databaseVars>>
      PROVE  Inv'
  <2>1. PICK tab \in Tabs : /\ Failed(b, status) = [browser EXCEPT ![b] = tab]
                            /\ tab.cookie = browser[b].cookie /\ Keeps(b, tab)
    BY FailedTab
  <2> QED
    BY <1>5, <2>1, FormStep
<1>6. CASE Upload(b)
  <2>1. CASE IntakeStatus(browser[b].cookie) = 200
    BY <1>4, <1>6, <2>1 DEF Upload, Forms
  <2>2. CASE IntakeStatus(browser[b].cookie) # 200
    BY <1>5, <1>6, <2>2 DEF Upload
  <2> QED
    BY <2>1, <2>2
<1>7. CASE AuthorizeSubmission(b)
  <2>1. CASE IntakeStatus(browser[b].cookie) = 200
    BY <1>4, <1>7, <2>1 DEF AuthorizeSubmission, Forms
  <2>2. CASE IntakeStatus(browser[b].cookie) # 200
    BY <1>5, <1>7, <2>2 DEF AuthorizeSubmission
  <2> QED
    BY <2>1, <2>2
<1>8. CASE NewReport(b)
  <2> DEFINE tab == [browser[b] EXCEPT !.page = FALSE]
  <2>1. browser' = [browser EXCEPT ![b] = tab] /\ UNCHANGED <<environmentVars, databaseVars>>
    BY <1>8 DEF NewReport
  <2>2. tab \in Tabs /\ tab.cookie = browser[b].cookie /\ Keeps(b, tab)
    BY <1>1 DEF Tabs, Keeps
  <2> HIDE DEF tab
  <2> QED
    BY <2>1, <2>2, FormStep
<1>9. CASE SendReport(b)
  BY <1>4, <1>9 DEF SendReport, Forms
<1> QED
  BY <1>2, <1>3, <1>6, <1>7, <1>8, <1>9

\* A submission is stored under a key nobody has used, for the browser that
\* sent it; its tracking cookie goes to that browser.
LEMMA SubmitStep ==
    ASSUME Inv, NEW b \in Browsers, NEW k \in Keys, NEW loses \in BOOLEAN, Submit(b, k, loses)
    PROVE  Inv'
<1>1. /\ browser \in [Browsers -> Tabs] /\ browser[b] \in Tabs
      /\ submission \in [Keys -> Submissions]
      /\ browser[b].cookie \in capabilities \cup {NoCookie}
  BY DEF Inv, CookiesAreIssued, RowTypes
<1>2. /\ submission[k] = NoSubmission
      /\ UNCHANGED <<hour, policy, intakeEnabled, bucket, granted, calls, capabilities, privacy>>
  BY DEF Submit, environmentVars
<1>3. submission[k] \notin Browsers
  BY <1>2, Constants DEF NoSubmission
<1>4. b \in Submissions
  BY DEF Submissions
<1>5. submission' = IF PolicyHolds(browser[b].cookie) THEN [submission EXCEPT ![k] = b]
                    ELSE submission
  BY DEF Submit
<1>6. /\ submission' \in [Keys -> Submissions]
      /\ \A l \in Keys : submission[l] \in Browsers => submission'[l] = submission[l]
      /\ PolicyHolds(browser[b].cookie) => submission'[k] = b
  BY <1>1, <1>3, <1>4, <1>5
<1>7. RowTypes'
  BY <1>2, <1>6 DEF Inv, RowTypes
<1>8. CookiesAreIssued' /\ TokensAreHandedOn'
  <2>1. CASE PolicyHolds(browser[b].cookie) /\ ~loses
    <3> DEFINE sent == browser[b].sent \cup {k}
               tokens == browser[b].tokens \cup {k}
               tab == [browser[b] EXCEPT !.pc = "idle", !.tracking = k, !.page = TRUE,
                                         !.sent = sent, !.tokens = tokens]
    <3>1. browser' = [browser EXCEPT ![b].pc = "idle", ![b].tracking = k,
                                     ![b].page = TRUE, ![b].sent = @ \cup {k},
                                     ![b].tokens = @ \cup {k}]
      BY <2>1 DEF Submit
    <3>2. browser' = [browser EXCEPT ![b] = tab]
      BY <3>1
    <3>3. sent \in SUBSET Keys /\ tokens \in SUBSET Keys
      BY <1>1 DEF Tabs
    <3> HIDE DEF sent, tokens
    <3>4. /\ tab \in Tabs /\ tab.cookie = browser[b].cookie /\ tab.tracking = k
          /\ tab.sent = sent /\ tab.tokens = tokens
      BY <1>1, <3>3 DEF Tabs, Forms
    <3> HIDE DEF tab
    <3>5. Gains(b, tab)
      BY <1>6, <2>1, <3>4 DEF Gains, sent, tokens
    <3> QED
      BY <1>1, <1>2, <1>6, <3>2, <3>4, <3>5, TabStep
  <2>2. CASE ~(PolicyHolds(browser[b].cookie) /\ ~loses)
    <3>1. browser' = Failed(b, 503)
      BY <2>2 DEF Submit
    <3>2. PICK tab \in Tabs : /\ Failed(b, 503) = [browser EXCEPT ![b] = tab]
                              /\ tab.cookie = browser[b].cookie /\ Keeps(b, tab)
      BY FailedTab
    <3> QED
      BY <1>1, <1>2, <1>6, <3>1, <3>2, KeepingStep
  <2> QED
    BY <2>1, <2>2
<1> QED
  BY <1>2, <1>7, <1>8, SessionsKept DEF Inv

\* A token somebody has is taken to another browser.
LEMMA HandOverStep ==
    ASSUME Inv, NEW b \in Browsers, NEW c \in Browsers, NEW k \in Keys, HandOver(b, c, k)
    PROVE  Inv'
<1>1. /\ browser \in [Browsers -> Tabs] /\ browser[c] \in Tabs
      /\ browser[c].cookie \in capabilities \cup {NoCookie}
      /\ browser[c].tracking \in browser[c].tokens \cup {NoKey}
  BY DEF Inv, CookiesAreIssued, TokensAreHandedOn
<1>2. /\ k \in browser[b].tokens
      /\ browser' = [browser EXCEPT ![c].tokens = @ \cup {k}]
      /\ UNCHANGED <<hour, policy, intakeEnabled, bucket, granted, calls, capabilities,
                     submission, privacy>>
  BY DEF HandOver, environmentVars, databaseVars
<1> DEFINE tokens == browser[c].tokens \cup {k}
           tab == [browser[c] EXCEPT !.tokens = tokens]
<1>3. browser' = [browser EXCEPT ![c] = tab]
  BY <1>2
<1>4. tokens \in SUBSET Keys
  BY <1>1 DEF Tabs
<1> HIDE DEF tokens
<1>5. /\ tab \in Tabs /\ tab.cookie = browser[c].cookie /\ tab.tracking = browser[c].tracking
      /\ tab.sent = browser[c].sent /\ tab.tokens = tokens
  BY <1>1, <1>4 DEF Tabs
<1> HIDE DEF tab
<1>6. Gains(c, tab)
  BY <1>1, <1>2, <1>5 DEF Gains, tokens
<1>7. CookiesAreIssued' /\ TokensAreHandedOn'
  BY <1>1, <1>2, <1>3, <1>5, <1>6, TabStep
<1>8. RowTypes'
  BY <1>2 DEF Inv, RowTypes
<1> QED
  BY <1>2, <1>7, <1>8, SessionsKept DEF Inv

\* A request about a submission is made with its token, which the asker has.
LEMMA PrivacyStep ==
    ASSUME Inv, NEW b \in Browsers, NEW header \in Headers(b),
           NEW target \in Keys \cup {PublicIssue}, CreatePrivacyRequest(b, header, target)
    PROVE  Inv'
<1> DEFINE token == Presented(b, header)
           source == IF target = PublicIssue THEN NoKey ELSE token
           request == [by |-> b, target |-> target, source |-> source]
<1>1. /\ privacy' = privacy \cup {request}
      /\ target # PublicIssue => token = target /\ token # NoKey
      /\ UNCHANGED <<hour, policy, intakeEnabled, bucket, granted, calls, capabilities,
                     submission, browser>>
  BY DEF CreatePrivacyRequest, environmentVars, TrackingAuthorized
<1>2. token \in browser[b].tokens \cup {NoKey}
  BY DEF Inv, TokensAreHandedOn, Presented, Headers
<1> HIDE DEF token
<1>3. target # PublicIssue => source = target /\ target \in browser[b].tokens
  BY <1>1, <1>2
<1>4. source \in Keys \cup {NoKey}
  BY <1>1
<1> HIDE DEF source
<1>5. request \in Requests /\ request.by = b /\ request.target = target /\ request.source = source
  BY <1>4 DEF Requests
<1> HIDE DEF request
<1>6. RowTypes'
  BY <1>1, <1>5 DEF Inv, RowTypes
<1>7. TokensAreHandedOn'
  BY <1>1, <1>3, <1>5 DEF Inv, TokensAreHandedOn, CameFromTheSender
<1>8. CookiesAreIssued'
  BY <1>1 DEF Inv, CookiesAreIssued
<1> QED
  BY <1>1, <1>6, <1>7, <1>8, SessionsKept DEF Inv

LEMMA StepInv == Inv /\ [Next]_vars => Inv'
<1> SUFFICES ASSUME Inv, [Next]_vars PROVE Inv'
  OBVIOUS
<1>1. CASE Tick \/ RotatePolicy \/ ToggleIntake \/ CallSession \/ UNCHANGED vars
  BY <1>1, EnvironmentStep
<1>2. ASSUME NEW b \in Browsers,
             \/ CheckSession(b) \/ TryAgain(b) \/ SendReport(b)
             \/ Upload(b) \/ AuthorizeSubmission(b) \/ NewReport(b)
      PROVE  Inv'
  BY <1>2, FormsStep
<1>3. ASSUME NEW b \in Browsers, NEW loses \in BOOLEAN, PostSession(b, loses) PROVE Inv'
  BY <1>3, PostSessionStep
<1>4. ASSUME NEW b \in Browsers, NEW loses \in BOOLEAN, NEW k \in Keys, Submit(b, k, loses)
      PROVE  Inv'
  BY <1>4, SubmitStep
<1>5. ASSUME NEW b \in Browsers, NEW c \in Browsers, NEW k \in Keys, HandOver(b, c, k)
      PROVE  Inv'
  BY <1>5, HandOverStep
<1>6. ASSUME NEW b \in Browsers, NEW header \in Headers(b), NEW target \in Keys \cup {PublicIssue},
             CreatePrivacyRequest(b, header, target)
      PROVE  Inv'
  BY <1>6, PrivacyStep
<1> QED
  BY <1>1, <1>2, <1>3, <1>4, <1>5, <1>6 DEF Next

LEMMA Invariant == Spec => []Inv
  BY InitInv, StepInv, PTL DEF Spec

-----------------------------------------------------------------------------
(* Theorems.                                                               *)

\* No more sessions than the limit are granted in an hour, none lasts beyond
\* the next day, and rows and forms have their types, for every limit and
\* length of the day (createPublicIntakeSession).
THEOREM BoundedSessions == Spec => []SessionsAreBounded
<1>1. ASSUME Inv PROVE TypeOK
  <2>1. /\ hour \in 0 .. MaxHour /\ policy \in 1 .. MaxVersion /\ intakeEnabled \in BOOLEAN
        /\ bucket \in 0 .. RateLimit + 2 /\ granted \in Nat /\ calls \in 0 .. MaxCalls
        /\ capabilities \subseteq (1 .. MaxVersion) \X Nat
    BY <1>1 DEF Inv, RowTypes, SessionsAreCounted, CapabilitiesAreDated, CapabilityNames, Days
  <2>2. \A b \in Browsers :
            /\ browser[b].gate \in {"checking", "posting", "confirming", "ready", "error"}
            /\ browser[b].pc \in {"idle", "uploading", "sending", "authorized"}
            /\ browser[b].cookie \in capabilities \cup {NoCookie}
            /\ browser[b].tracking \in Keys \cup {NoKey}
    BY <1>1 DEF Inv, CookiesAreIssued, Tabs, Gates, Forms
  <2> QED
    BY <2>1, <2>2 DEF TypeOK
<1>2. ASSUME Inv PROVE CapabilitiesAreShortLived
  <2> SUFFICES ASSUME NEW v \in 1 .. MaxVersion
               PROVE  Cardinality({c \in capabilities : c[1] = v /\ Live(c)}) <= 2
    BY DEF CapabilitiesAreShortLived
  <2> DEFINE live == {c \in capabilities : c[1] = v /\ Live(c)}
             day == utcDay(hour)
             both == {<<v, day>>, <<v, day - 1>>}
  <2>1. hour \in Nat /\ day \in Nat
    BY <1>2, Constants, DayBounds DEF Inv, RowTypes
  <2>2. ASSUME NEW c \in live PROVE c \in both
    <3>1. PICK d \in Nat : c = <<v, d>>
      BY <1>2 DEF Inv, CapabilitiesAreDated, CapabilityNames, Days
    <3>2. d <= day /\ hour < ExpiryHour(d)
      BY <1>2, <3>1 DEF Inv, CapabilitiesAreDated, Live
    <3>3. day <= d + 1
      BY <2>1, <3>2, LiveDays
    <3> HIDE DEF day
    <3>4. d = day \/ d = day - 1
      BY <2>1, <3>2, <3>3
    <3> QED
      BY <3>1, <3>4
  <2>3. IsFiniteSet(both) /\ Cardinality(both) <= 2
    <3> DEFINE one == {<<v, day>>}
               other == <<v, day - 1>>
    <3>1. IsFiniteSet(one) /\ Cardinality(one) = 1
      BY FS_Singleton
    <3>2. both = one \cup {other}
      OBVIOUS
    <3> HIDE DEF both, one, other
    <3>3. /\ IsFiniteSet(one \cup {other})
          /\ Cardinality(one \cup {other}) = IF other \in one THEN Cardinality(one)
                                             ELSE Cardinality(one) + 1
      BY <3>1, FS_AddElement
    <3> QED
      BY <3>1, <3>2, <3>3
  <2>4. live \subseteq both
    BY <2>2
  <2> HIDE DEF live, both
  <2>5. Cardinality(live) <= Cardinality(both) /\ Cardinality(live) \in Nat
    BY <2>3, <2>4, FS_Subset, FS_CardinalityType
  <2>6. Cardinality(both) \in Nat
    BY <2>3, FS_CardinalityType
  <2> QED
    BY <2>3, <2>5, <2>6 DEF live
<1>3. Inv => SessionsWithinLimit
  BY DEF Inv, SessionsAreCounted, SessionsWithinLimit
<1> QED
  BY <1>1, <1>2, <1>3, Invariant, PTL DEF SessionsAreBounded

\* Whoever opens a submission's tracking record or asks for its data to be
\* handled shows the token of that submission, by cookie or header, and has it
\* from the sender (authorizeTrackingCapability, createPrivacyRequest).
THEOREM TokenHoldersOnly == Spec => []TrackingNeedsTheToken
<1>1. ASSUME Inv PROVE TrackingNeedsTheToken
  <2>1. ASSUME NEW b \in Browsers, NEW k \in Keys, NEW header \in Headers(b),
               TrackingPage(b, header, k) = "ready"
        PROVE  k \in browser[b].tokens
    <3>1. Presented(b, header) = k /\ k # NoKey
      BY <2>1 DEF TrackingPage, TrackingAuthorized
    <3>2. Presented(b, header) \in browser[b].tokens \cup {NoKey}
      BY <1>1 DEF Inv, TokensAreHandedOn, Presented, Headers
    <3> QED
      BY <3>1, <3>2
  <2> QED
    BY <1>1, <2>1 DEF Inv, TokensAreHandedOn, CameFromTheSender, TrackingNeedsTheToken
<1> QED
  BY <1>1, Invariant, PTL

\* A report is stored only while the policy its session was issued under is
\* the active one (activePilotPolicy in createPrivateSubmission).
THEOREM ActivePolicy == Spec => AcceptedUnderActivePolicy
<1>1. Inv /\ [Next]_vars => [\A k \in Keys : submission'[k] # submission[k]
          => browser[submission'[k]].cookie[1] = policy]_vars
  <2> SUFFICES ASSUME Inv, [Next]_vars, NEW k \in Keys, submission'[k] # submission[k]
               PROVE  browser[submission'[k]].cookie[1] = policy
    OBVIOUS
  <2>1. \/ UNCHANGED submission
        \/ \E b \in Browsers, loses \in BOOLEAN, l \in Keys : Submit(b, l, loses)
    <3>1. ASSUME Tick \/ RotatePolicy \/ ToggleIntake \/ CallSession \/ UNCHANGED vars
          PROVE  UNCHANGED submission
      BY <3>1 DEF Tick, RotatePolicy, ToggleIntake, CallSession, CreatePublicIntakeSession, vars,
                  databaseVars
    <3>2. ASSUME NEW b \in Browsers,
                 \/ CheckSession(b) \/ TryAgain(b) \/ SendReport(b)
                 \/ Upload(b) \/ AuthorizeSubmission(b) \/ NewReport(b)
          PROVE  UNCHANGED submission
      BY <3>2 DEF CheckSession, TryAgain, Upload, AuthorizeSubmission, NewReport, SendReport,
                  databaseVars
    <3>3. ASSUME NEW b \in Browsers, NEW loses \in BOOLEAN, PostSession(b, loses)
          PROVE  UNCHANGED submission
      BY <3>3 DEF PostSession, CreatePublicIntakeSession
    <3>4. ASSUME NEW b \in Browsers,
                 \/ \E c \in Browsers, l \in Keys : HandOver(b, c, l)
                 \/ \E header \in Headers(b), target \in Keys \cup {PublicIssue} :
                       CreatePrivacyRequest(b, header, target)
          PROVE  UNCHANGED submission
      BY <3>4 DEF HandOver, CreatePrivacyRequest, databaseVars
    <3> QED
      BY <3>1, <3>2, <3>3, <3>4 DEF Next
  <2>2. PICK b \in Browsers, loses \in BOOLEAN, l \in Keys : Submit(b, l, loses)
    BY <2>1
  <2>3. submission \in [Keys -> Submissions]
    BY DEF Inv, RowTypes
  <2>4. /\ PolicyHolds(browser[b].cookie)
        /\ submission' = [submission EXCEPT ![l] = b]
    BY <2>2 DEF Submit
  <2>5. k = l /\ submission'[k] = b
    BY <2>3, <2>4
  <2> QED
    BY <2>4, <2>5 DEF PolicyHolds
<1> QED
  BY <1>1, Invariant, PTL DEF Spec, AcceptedUnderActivePolicy
=============================================================================
