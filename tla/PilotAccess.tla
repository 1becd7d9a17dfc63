---------------------------- MODULE PilotAccess -----------------------------
(***************************************************************************)
(* Pilot invitations, the capabilities they are exchanged for, and the     *)
(* attention signals sent with them.  Several browsers may hold the same   *)
(* invitation; a request may be delivered twice and its answer may be      *)
(* lost; the signal button draws a new idempotency key for every click.    *)
(*                                                                         *)
(* A capability token is an HMAC of its coordinates: it verifies exactly   *)
(* when the row it names exists, so a token is its row's name.  An         *)
(* invitation is named by (organisation, operator, key).  Its children     *)
(* share its expiry.                                                       *)
(***************************************************************************)
EXTENDS Naturals, FiniteSets

CONSTANTS
    Invitations,    \* identities of createPilotInvitation requests
    PolicyScopes,   \* invitation_scope of the active pilot policy
    Browsers,       \* people with a copy of every invitation
    Keys,           \* idempotency keys; a browser never draws one twice
    Issues,         \* public ids
    MaxClicks,      \* bound: clicks of one browser
    MaxToggles      \* bound: kill-switch changes

Scopes == {"intake", "signal"}
Switches == {"inviteIntakeEnabled", "inviteSignalsEnabled", "operatorMutationsEnabled"}
SwitchOf == [intake |-> "inviteIntakeEnabled", signal |-> "inviteSignalsEnabled"]
Capabilities == Invitations \X Keys
NoCookie == <<"none">>
NoScopes == {}

ASSUME PilotAssumption ==
    /\ PolicyScopes \subseteq Scopes
    /\ MaxClicks \in Nat /\ MaxToggles \in Nat
    /\ NoCookie \notin Capabilities

VARIABLES
    enabled,    \* capability switches that are on
    toggles,    \* switch changes so far
    invitation, \* nagarik.pilot_invitations with its purpose-1 capability
    session,    \* completed intake-session reservation of (invitation, key): its scopes
    children,   \* purpose-2 and purpose-3 capabilities: <<scope, invitation, key>>
    projection, \* public.issue_projection: publication state and signal_count
    signal,     \* nagarik.signals: state by signal capability and issue
    audits,     \* ids in nagarik.audit_events of signal events
    drawn,      \* idempotency keys browsers have drawn
    browser     \* the signal button and the signal cookie of each browser

vars == <<enabled, toggles, invitation, session, children, projection, signal,
          audits, drawn, browser>>
accessVars == <<invitation, session, children>>

NoInvitation == [state |-> "none", capability |-> "none", scopes |-> NoScopes,
                 expired |-> FALSE]
IdleBrowser == [pc |-> "idle", cookie |-> NoCookie, active |-> FALSE, method |-> "POST",
                target |-> NoCookie, clicks |-> 0]

Init ==
    /\ enabled = Switches
    /\ toggles = 0
    /\ invitation = [i \in Invitations |-> NoInvitation]
    /\ session = [c \in Capabilities |-> NoScopes]
    /\ children = {}
    /\ projection = [p \in Issues |-> [state |-> "none", signalCount |-> 0]]
    /\ signal = [x \in Capabilities \X Issues |-> "none"]
    /\ audits = {}
    /\ drawn = {}
    /\ browser = [b \in Browsers |-> IdleBrowser]

-----------------------------------------------------------------------------
(* Operators: switches and invitations.                                    *)

ToggleSwitch(s) ==
    /\ toggles < MaxToggles
    /\ toggles' = toggles + 1
    /\ enabled' = IF s \in enabled THEN enabled \ {s} ELSE enabled \cup {s}
    /\ UNCHANGED <<accessVars, projection, signal, audits, drawn, browser>>

\* createPilotInvitation.  A repeated identity is replayed or refused by its
\* reservation and changes nothing.
CreatePilotInvitation(i, scopes) ==
    /\ invitation[i].state = "none"
    /\ "operatorMutationsEnabled" \in enabled
    /\ scopes # NoScopes /\ scopes \subseteq PolicyScopes
    /\ invitation' = [invitation EXCEPT ![i] =
           [state |-> "active", capability |-> "active", scopes |-> scopes, expired |-> FALSE]]
    /\ UNCHANGED <<enabled, toggles, session, children, projection, signal, audits, drawn, browser>>

InvitationExpires(i) ==
    /\ invitation[i].state # "none" /\ ~invitation[i].expired
    /\ invitation' = [invitation EXCEPT ![i].expired = TRUE]
    /\ UNCHANGED <<enabled, toggles, session, children, projection, signal, audits, drawn, browser>>

-----------------------------------------------------------------------------
(* consumePilotInvitation.                                                 *)

\* Mutant: the states of the locked rows are not checked.
MayConsume_AnyState(i) == ~invitation[i].expired /\ invitation[i].scopes # NoScopes

\* The locked rows are active, unexpired, and carry a scope.
MayConsume(i) ==
    /\ invitation[i].state = "active"
    /\ invitation[i].capability = "active"
    /\ ~invitation[i].expired
    /\ invitation[i].scopes # NoScopes

\* Every scope's switch is on.
ScopesEnabled(i) == \A s \in invitation[i].scopes : SwitchOf[s] \in enabled

\* The invitation and its capability are consumed.
Consumed(i) == [invitation EXCEPT ![i].state = "consumed", ![i].capability = "consumed"]

\* One child capability per scope, named by the invitation and the key.
ChildrenOf(i, k) == {<<s, i, k>> : s \in invitation[i].scopes}

\* What the transaction answers: the scopes of the session, or a refusal.
SessionAnswer(i, k) ==
    IF session[<<i, k>>] # NoScopes THEN "granted"
    ELSE IF ~MayConsume(i) THEN "401"
    ELSE IF ~ScopesEnabled(i) THEN "503"
    ELSE "granted"

\* The transaction, under the row locks of the capability and the invitation:
\* a completed reservation is replayed, a fresh one consumes.
ConsumePilotInvitation(i, k) ==
    IF session[<<i, k>>] = NoScopes /\ MayConsume(i) /\ ScopesEnabled(i)
    THEN /\ children' = children \cup ChildrenOf(i, k)
         /\ session' = [session EXCEPT ![<<i, k>>] = invitation[i].scopes]
         /\ invitation' = Consumed(i)
    ELSE UNCHANGED accessVars

\* The signal cookie the route sets, if the session has the signal scope.
CookieOf(i, k, old) ==
    IF "signal" \in invitation[i].scopes THEN <<i, k>> ELSE old

-----------------------------------------------------------------------------
(* requireSignalCapability, recordPublicSignal, retractPublicSignal.       *)

\* The cookie names an active, unexpired purpose-3 row and the switch is on.
Authorized(c) ==
    /\ c # NoCookie
    /\ "inviteSignalsEnabled" \in enabled
    /\ <<"signal", c[1], c[2]>> \in children
    /\ ~invitation[c[1]].expired

\* Mutant: the transaction trusts the switch read by requireSignalCapability.
Signalable_TrustsRoute(p) == projection[p].state = "published"

\* Both transactions lock the projection row of a published issue and read
\* the switch again; the capability is not read again.
Signalable(p) == projection[p].state = "published" /\ "inviteSignalsEnabled" \in enabled

\* The state the signal would have: POST inserts or reactivates, DELETE
\* retracts an active one.
NextSignal(state, method) ==
    CASE method = "POST" -> "active"
      [] method = "DELETE" /\ state = "active" -> "retracted"
      [] OTHER -> state

\* The deterministic id of the audit event of a change.
AuditId(c, p, state, method) ==
    CASE method = "DELETE" -> <<"retracted", c, p>>
      [] method = "POST" /\ state = "none" -> <<"recorded", c, p>>
      [] OTHER -> <<"reactivated", c, p>>

ActiveSignals(table, p) == Cardinality({c \in Capabilities : table[<<c, p>>] = "active"})

\* Mutant: the count is moved by one on every accepted request.
SignalCount_PerRequest(table, p, method) ==
    IF method = "POST" THEN projection[p].signalCount + 1
    ELSE IF projection[p].signalCount = 0 THEN 0 ELSE projection[p].signalCount - 1

\* The count is taken again from the rows of the issue.
SignalCount(table, p, method) == ActiveSignals(table, p)

\* The audit insert has no conflict clause: a known id fails the transaction.
AuditAccepted(id) == id \notin audits

SignalChanges(c, p, method) == NextSignal(signal[<<c, p>>], method) # signal[<<c, p>>]

SignalAnswer(c, p, method) ==
    IF ~Signalable(p) THEN IF "inviteSignalsEnabled" \in enabled THEN "404" ELSE "503"
    ELSE IF SignalChanges(c, p, method)
            /\ ~AuditAccepted(AuditId(c, p, signal[<<c, p>>], method)) THEN "signals_unavailable"
    ELSE "ok"

MutateSignal(c, p, method) ==
    IF SignalAnswer(c, p, method) = "ok"
    THEN LET table == [signal EXCEPT ![<<c, p>>] = NextSignal(@, method)] IN
         /\ signal' = table
         /\ projection' = [projection EXCEPT ![p].signalCount = SignalCount(table, p, method)]
         /\ audits' = IF SignalChanges(c, p, method)
                      THEN audits \cup {AuditId(c, p, signal[<<c, p>>], method)} ELSE audits
    ELSE UNCHANGED <<signal, projection, audits>>

-----------------------------------------------------------------------------
(* Publication, from the signals' point of view.                           *)

\* The upsert of the projection row leaves the count of an existing row.
PublishedRow(p) ==
    [state |-> "published",
     signalCount |-> IF projection[p].state = "none" THEN 0 ELSE projection[p].signalCount]

PublishProjection(p) ==
    /\ projection[p].state \in {"none", "published"}
    /\ projection' = [projection EXCEPT ![p] = PublishedRow(p)]
    /\ UNCHANGED <<enabled, toggles, accessVars, signal, audits, drawn, browser>>

RemoveProjection(p) ==
    /\ projection[p].state = "published"
    /\ projection' = [projection EXCEPT ![p].state = "removed"]
    /\ UNCHANGED <<enabled, toggles, accessVars, signal, audits, drawn, browser>>

-----------------------------------------------------------------------------
(* SignalButton.                                                           *)

\* openInvitation: a fresh key for every submit.
OpenInvitation(b, i, k) ==
    /\ browser[b].pc = "idle" /\ browser[b].clicks < MaxClicks
    /\ invitation[i].state # "none"
    /\ k \notin drawn
    /\ drawn' = drawn \cup {k}
    /\ browser' = [browser EXCEPT ![b].pc = "opening", ![b].target = <<i, k>>,
                                  ![b].clicks = @ + 1]
    /\ UNCHANGED <<enabled, toggles, accessVars, projection, signal, audits>>

\* The server handles the session request.  lost: the browser sees an error;
\* again: the request is delivered once more.
HandleSession(b, lost, again) ==
    LET i == browser[b].target[1]  k == browser[b].target[2]
        answer == IF lost THEN "lost" ELSE SessionAnswer(i, k) IN
    /\ browser[b].pc = "opening"
    /\ ConsumePilotInvitation(i, k)
    /\ browser' = IF again THEN browser
                  ELSE [browser EXCEPT ![b].pc = "idle",
                            ![b].cookie = IF answer = "granted" THEN CookieOf(i, k, @) ELSE @]
    /\ UNCHANGED <<enabled, toggles, projection, signal, audits, drawn>>

\* mutate: the button offers to remove what this page saw recorded.
Click(b, p) ==
    /\ browser[b].pc = "idle" /\ browser[b].clicks < MaxClicks
    /\ projection[p].state # "none"
    /\ browser' = [browser EXCEPT ![b].pc = "sent", ![b].target = <<p>>, ![b].clicks = @ + 1,
                       ![b].method = IF browser[b].active THEN "DELETE" ELSE "POST"]
    /\ UNCHANGED <<enabled, toggles, accessVars, projection, signal, audits, drawn>>

\* The route authorises the request before its transaction.
AuthorizeSignal(b) ==
    /\ browser[b].pc = "sent"
    /\ browser' = IF Authorized(browser[b].cookie)
                  THEN [browser EXCEPT ![b].pc = "authorized"]
                  ELSE [browser EXCEPT ![b].pc = "idle"]
    /\ UNCHANGED <<enabled, toggles, accessVars, projection, signal, audits, drawn>>

\* The transaction and its answer.
HandleSignal(b, lost, again) ==
    LET c == browser[b].cookie  p == browser[b].target[1]  method == browser[b].method
        answer == IF lost THEN "lost" ELSE SignalAnswer(c, p, method) IN
    /\ browser[b].pc = "authorized"
    /\ MutateSignal(c, p, method)
    /\ browser' = IF again THEN browser
                  ELSE [browser EXCEPT ![b].pc = "idle",
                            ![b].active = IF answer = "ok" THEN method = "POST" ELSE @]
    /\ UNCHANGED <<enabled, toggles, accessVars, drawn>>

Next ==
    \/ \E s \in Switches : ToggleSwitch(s)
    \/ \E i \in Invitations, s \in SUBSET Scopes : CreatePilotInvitation(i, s)
    \/ \E i \in Invitations : InvitationExpires(i)
    \/ \E p \in Issues : PublishProjection(p) \/ RemoveProjection(p)
    \/ \E b \in Browsers :
          \/ \E i \in Invitations, k \in Keys : OpenInvitation(b, i, k)
          \/ \E lost, again \in BOOLEAN : HandleSession(b, lost, again) \/ HandleSignal(b, lost, again)
          \/ \E p \in Issues : Click(b, p)
          \/ AuthorizeSignal(b)

Spec == Init /\ [][Next]_vars

-----------------------------------------------------------------------------
(* Properties.                                                             *)

\* Type of the state: rows, sessions and browsers have the fields and states
\* the tables and the component allow.
TypeOK ==
    /\ enabled \subseteq Switches /\ toggles \in 0..MaxToggles
    /\ invitation \in [Invitations -> [state : {"none", "active", "consumed"},
                          capability : {"none", "active", "consumed"},
                          scopes : SUBSET Scopes, expired : BOOLEAN]]
    /\ session \in [Capabilities -> SUBSET Scopes]
    /\ children \subseteq Scopes \X Invitations \X Keys
    /\ projection \in [Issues -> [state : {"none", "published", "removed"}, signalCount : Nat]]
    /\ signal \in [Capabilities \X Issues -> {"none", "active", "retracted"}]
    /\ drawn \subseteq Keys
    /\ \A b \in Browsers :
          /\ browser[b].pc \in {"idle", "opening", "sent", "authorized"}
          /\ browser[b].cookie \in Capabilities \cup {NoCookie}
          /\ browser[b].clicks \in 0..MaxClicks

\* An invitation is exchanged once however many browsers race with it and
\* however often a request is delivered: at most one key has a session, its
\* rows are consumed exactly when there is one, and every child capability
\* belongs to that session and to a scope of the invitation.
OneConsumption ==
    \A i \in Invitations :
       LET used == {k \in Keys : session[<<i, k>>] # NoScopes} IN
       /\ Cardinality(used) <= 1
       /\ (invitation[i].state = "consumed") <=> (used # {})
       /\ invitation[i].capability = invitation[i].state
       /\ {x \in children : x[2] = i} = UNION {ChildrenOf(i, k) : k \in used}

\* The public count of a projected issue is the number of its active signals,
\* whatever signals, retractions, duplicates and corrections came before.
CountIsActiveSignals ==
    \A p \in Issues : projection[p].signalCount = ActiveSignals(signal, p)

\* Every change of a signal commits together with an audit event of its own,
\* and never once the switch is off or the issue is no longer published, even
\* for a request that was authorised before.
SignalChangesAreSanctioned ==
    [][signal' # signal =>
          /\ audits' # audits
          /\ "inviteSignalsEnabled" \in enabled
          /\ \A p \in Issues : (\E c \in Capabilities : signal'[<<c, p>>] # signal[<<c, p>>])
                                  => projection[p].state = "published"]_vars

\* The rows of an invitation, its capabilities and its session agree, and
\* have their types.
AccessRowsAgree == TypeOK /\ OneConsumption
=============================================================================
