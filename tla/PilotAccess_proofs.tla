------------------------- MODULE PilotAccess_proofs -------------------------
(***************************************************************************)
(* Proofs about PilotAccess for every set of invitations, browsers, keys   *)
(* and issues, finite or not, any number of clicks and switch changes, and *)
(* requests that are delivered any number of times.                        *)
(***************************************************************************)
EXTENDS PilotAccess, FiniteSetTheorems, TLAPS

-----------------------------------------------------------------------------
(* The inductive invariant.                                                *)

InvitationRows == [ state : {"none", "active", "consumed"},
                    capability : {"none", "active", "consumed"},
                    scopes : SUBSET Scopes, expired : BOOLEAN ]
SignalStates == {"none", "active", "retracted"}
Targets == Capabilities \cup {NoCookie} \cup {<<p>> : p \in Issues}
BrowserTabs == [ pc : {"idle", "opening", "sent", "authorized"},
                 cookie : Capabilities \cup {NoCookie}, active : BOOLEAN,
                 method : {"POST", "DELETE"}, target : Targets, clicks : 0 .. MaxClicks ]

\* TypeOK, with all that a browser holds.
TypeInv == TypeOK /\ browser \in [Browsers -> BrowserTabs]

\* The request a browser has under way names what it is about, and a signal
\* request is under way only with a cookie.
RequestsAreAddressed ==
    \A b \in Browsers :
        /\ browser[b].pc = "opening" => browser[b].target \in Capabilities
        /\ browser[b].pc \in {"sent", "authorized"} =>
               \E p \in Issues : browser[b].target = <<p>>
        /\ browser[b].pc = "authorized" => browser[b].cookie \in Capabilities

\* A session exists exactly for the key that consumed the invitation, and
\* the children of a session are the scopes of its invitation.
SessionsConsume ==
    \A i \in Invitations :
        /\ invitation[i].capability = invitation[i].state
        /\ \A k \in Keys : session[<<i, k>>] # NoScopes => invitation[i].state = "consumed"
        /\ invitation[i].state = "consumed" => \E k \in Keys : session[<<i, k>>] # NoScopes
        /\ \A k, l \in Keys : session[<<i, k>>] # NoScopes /\ session[<<i, l>>] # NoScopes => k = l
        /\ \A s \in Scopes, k \in Keys :
               <<s, i, k>> \in children <=> session[<<i, k>>] # NoScopes /\ s \in invitation[i].scopes

ActiveSet(p) == {c \in Capabilities : signal[<<c, p>>] = "active"}

\* The count is that of a finite set, and zero before publication.
CountsAreExact ==
    \A p \in Issues :
        /\ IsFiniteSet(ActiveSet(p))
        /\ projection[p].signalCount = Cardinality(ActiveSet(p))
        /\ projection[p].state = "none" => projection[p].signalCount = 0

Inv == TypeInv /\ RequestsAreAddressed /\ SessionsConsume /\ CountsAreExact

-----------------------------------------------------------------------------
(* Consuming an invitation.                                                *)

\* The transaction of a session request keeps the rows together: it consumes
\* an active invitation for one key, or changes nothing.
LEMMA ConsumeStep ==
    ASSUME Inv, NEW i \in Invitations, NEW k \in Keys, ConsumePilotInvitation(i, k)
    PROVE  /\ SessionsConsume'
           /\ invitation' \in [Invitations -> InvitationRows]
           /\ session' \in [Capabilities -> SUBSET Scopes]
           /\ children' \subseteq Scopes \X Invitations \X Keys
<1>1. /\ invitation \in [Invitations -> InvitationRows]
      /\ session \in [Capabilities -> SUBSET Scopes]
      /\ children \subseteq Scopes \X Invitations \X Keys
      /\ SessionsConsume
  BY DEF Inv, TypeInv, TypeOK, InvitationRows
<1>2. CASE UNCHANGED accessVars
  BY <1>1, <1>2 DEF accessVars, SessionsConsume
<1>3. CASE session[<<i, k>>] = NoScopes /\ MayConsume(i) /\ ScopesEnabled(i)
  <2>1. /\ children' = children \cup ChildrenOf(i, k)
        /\ session' = [session EXCEPT ![<<i, k>>] = invitation[i].scopes]
        /\ invitation' = Consumed(i)
    BY <1>3 DEF ConsumePilotInvitation
  <2>2. /\ invitation[i].scopes # NoScopes /\ invitation[i].state = "active"
        /\ invitation[i].scopes \in SUBSET Scopes
    BY <1>1, <1>3 DEF MayConsume, InvitationRows
  <2>3. <<i, k>> \in Capabilities
    BY DEF Capabilities
  <2>4. /\ invitation' \in [Invitations -> InvitationRows]
        /\ session' \in [Capabilities -> SUBSET Scopes]
        /\ children' \subseteq Scopes \X Invitations \X Keys
    <3>1. invitation' \in [Invitations -> InvitationRows]
      <4> DEFINE new == [invitation[i] EXCEPT !.state = "consumed", !.capability = "consumed"]
      <4>1. new \in InvitationRows
        BY <1>1 DEF InvitationRows
      <4>2. invitation' = [invitation EXCEPT ![i] = new]
        BY <2>1 DEF Consumed
      <4> HIDE DEF new
      <4> QED
        BY <1>1, <4>1, <4>2
    <3>2. session' \in [Capabilities -> SUBSET Scopes]
      BY <1>1, <2>1, <2>2, <2>3
    <3>3. ChildrenOf(i, k) \subseteq Scopes \X Invitations \X Keys
      BY <2>2 DEF ChildrenOf
    <3>4. children' \subseteq Scopes \X Invitations \X Keys
      BY <1>1, <2>1, <3>3
    <3> QED
      BY <3>1, <3>2, <3>4
  <2>5. /\ invitation'[i].state = "consumed" /\ invitation'[i].capability = "consumed"
        /\ invitation'[i].scopes = invitation[i].scopes
        /\ \A j \in Invitations \ {i} : invitation'[j] = invitation[j]
    BY <1>1, <2>1 DEF Consumed, InvitationRows
  <2>6. /\ session'[<<i, k>>] = invitation[i].scopes
        /\ \A j \in Invitations, l \in Keys :
              <<j, l>> # <<i, k>> => session'[<<j, l>>] = session[<<j, l>>]
    BY <1>1, <2>1, <2>3 DEF Capabilities
  <2>7. \A l \in Keys : session[<<i, l>>] = NoScopes
    BY <1>1, <2>2 DEF SessionsConsume
  <2>8. \A s \in Scopes, j \in Invitations, l \in Keys :
           <<s, j, l>> \in children' <=>
               <<s, j, l>> \in children \/ (j = i /\ l = k /\ s \in invitation[i].scopes)
    BY <2>1, <2>2 DEF ChildrenOf
  <2>9. ASSUME NEW j \in Invitations
        PROVE  /\ invitation'[j].capability = invitation'[j].state
               /\ \A l \in Keys : session'[<<j, l>>] # NoScopes => invitation'[j].state = "consumed"
               /\ invitation'[j].state = "consumed" => \E l \in Keys : session'[<<j, l>>] # NoScopes
               /\ \A l, m \in Keys :
                     session'[<<j, l>>] # NoScopes /\ session'[<<j, m>>] # NoScopes => l = m
               /\ \A s \in Scopes, l \in Keys :
                     <<s, j, l>> \in children' <=>
                         session'[<<j, l>>] # NoScopes /\ s \in invitation'[j].scopes
    <3>1. CASE j = i
      BY <1>1, <2>2, <2>5, <2>6, <2>7, <2>8, <3>1 DEF SessionsConsume
    <3>2. CASE j # i
      <4>1. /\ invitation'[j] = invitation[j]
            /\ \A l \in Keys : session'[<<j, l>>] = session[<<j, l>>]
        BY <2>5, <2>6, <3>2
      <4>2. \A s \in Scopes, l \in Keys : <<s, j, l>> \in children' <=> <<s, j, l>> \in children
        BY <2>8, <3>2
      <4>3. /\ invitation[j].capability = invitation[j].state
            /\ \A l \in Keys : session[<<j, l>>] # NoScopes => invitation[j].state = "consumed"
            /\ invitation[j].state = "consumed" => \E l \in Keys : session[<<j, l>>] # NoScopes
            /\ \A l, m \in Keys :
                  session[<<j, l>>] # NoScopes /\ session[<<j, m>>] # NoScopes => l = m
            /\ \A s \in Scopes, l \in Keys :
                  <<s, j, l>> \in children <=> session[<<j, l>>] # NoScopes /\ s \in invitation[j].scopes
        BY <1>1 DEF SessionsConsume
      <4> QED
        BY <4>1, <4>2, <4>3
    <3> QED
      BY <3>1, <3>2
  <2> QED
    BY <2>4, <2>9 DEF SessionsConsume
<1> QED
  BY <1>2, <1>3 DEF ConsumePilotInvitation

-----------------------------------------------------------------------------
(* Signals.                                                                *)

\* What the transaction of a signal request does: nothing, or it changes the
\* one row of its cookie and issue, takes the count again and records an
\* audit event that was not there, with the switch on and the issue public.
LEMMA SignalStep ==
    ASSUME Inv, NEW c \in Capabilities, NEW p \in Issues, NEW method \in {"POST", "DELETE"},
           MutateSignal(c, p, method)
    PROVE  \/ UNCHANGED <<signal, projection, audits>>
           \/ /\ projection[p].state = "published" /\ "inviteSignalsEnabled" \in enabled
              /\ \E state \in SignalStates : signal' = [signal EXCEPT ![<<c, p>>] = state]
              /\ projection' = [projection EXCEPT ![p].signalCount = ActiveSignals(signal', p)]
              /\ signal' # signal => audits' # audits
<1> DEFINE state == NextSignal(signal[<<c, p>>], method)
           id == AuditId(c, p, signal[<<c, p>>], method)
<1>1. <<c, p>> \in Capabilities \X Issues /\ signal \in [Capabilities \X Issues -> SignalStates]
  BY DEF Inv, TypeInv, TypeOK, SignalStates
<1>2. state \in SignalStates
  BY <1>1 DEF NextSignal, SignalStates
<1>3. CASE SignalAnswer(c, p, method) = "ok"
  <2>1. Signalable(p)
    BY <1>3 DEF SignalAnswer
  <2>2. SignalChanges(c, p, method) => AuditAccepted(id)
    BY <1>3, <2>1 DEF SignalAnswer
  <2>3. /\ signal' = [signal EXCEPT ![<<c, p>>] = state]
        /\ projection' = [projection EXCEPT ![p].signalCount = ActiveSignals(signal', p)]
        /\ audits' = IF SignalChanges(c, p, method) THEN audits \cup {id} ELSE audits
    BY <1>3 DEF MutateSignal, SignalCount
  <2>4. signal' # signal => SignalChanges(c, p, method)
    BY <1>1, <2>3 DEF SignalChanges
  <2>5. signal' # signal => audits' # audits
    BY <2>2, <2>3, <2>4 DEF AuditAccepted
  <2> QED
    BY <1>2, <2>1, <2>3, <2>5 DEF Signalable
<1>4. CASE SignalAnswer(c, p, method) # "ok"
  BY <1>4 DEF MutateSignal
<1> QED
  BY <1>3, <1>4

\* Changing one signal and taking the count of its issue again keeps all
\* counts exact.
LEMMA CountStep ==
    ASSUME Inv, NEW c \in Capabilities, NEW p \in Issues, NEW method \in {"POST", "DELETE"},
           MutateSignal(c, p, method)
    PROVE  /\ CountsAreExact'
           /\ signal' \in [Capabilities \X Issues -> SignalStates]
           /\ projection' \in [Issues -> [ state : {"none", "published", "removed"},
                                           signalCount : Nat ]]
<1>1. /\ signal \in [Capabilities \X Issues -> SignalStates]
      /\ projection \in [Issues -> [state : {"none", "published", "removed"}, signalCount : Nat]]
      /\ CountsAreExact
  BY DEF Inv, TypeInv, TypeOK, SignalStates
<1>2. CASE UNCHANGED <<signal, projection, audits>>
  BY <1>1, <1>2 DEF CountsAreExact, ActiveSet
<1>3. ASSUME projection[p].state = "published", NEW state \in SignalStates,
             signal' = [signal EXCEPT ![<<c, p>>] = state],
             projection' = [projection EXCEPT ![p].signalCount = ActiveSignals(signal', p)]
      PROVE  /\ CountsAreExact'
             /\ signal' \in [Capabilities \X Issues -> SignalStates]
             /\ projection' \in [Issues -> [ state : {"none", "published", "removed"},
                                             signalCount : Nat ]]
  <2>1. signal' \in [Capabilities \X Issues -> SignalStates]
    BY <1>1, <1>3
  <2>2. \A d \in Capabilities, q \in Issues : d # c \/ q # p => signal'[<<d, q>>] = signal[<<d, q>>]
    BY <1>1, <1>3
  <2>3. IsFiniteSet(ActiveSet(p)')
    <3>1. IsFiniteSet(ActiveSet(p) \cup {c})
      BY <1>1, FS_AddElement DEF CountsAreExact
    <3>2. ActiveSet(p)' \in SUBSET (ActiveSet(p) \cup {c})
      BY <2>2 DEF ActiveSet
    <3> QED
      BY <3>1, <3>2, FS_Subset
  <2>4. ActiveSignals(signal', p) = Cardinality(ActiveSet(p)') /\ Cardinality(ActiveSet(p)') \in Nat
    BY <2>3, FS_CardinalityType DEF ActiveSignals, ActiveSet
  <2>5. projection' \in [Issues -> [ state : {"none", "published", "removed"},
                                     signalCount : Nat ]]
    BY <1>1, <1>3, <2>4
  <2>6. /\ projection'[p].signalCount = Cardinality(ActiveSet(p)')
        /\ projection'[p].state = "published"
        /\ \A q \in Issues \ {p} : projection'[q] = projection[q]
    BY <1>1, <1>3, <2>4
  <2>7. ASSUME NEW q \in Issues
        PROVE  /\ IsFiniteSet(ActiveSet(q)')
               /\ projection'[q].signalCount = Cardinality(ActiveSet(q)')
               /\ projection'[q].state = "none" => projection'[q].signalCount = 0
    <3>1. CASE q = p
      BY <2>3, <2>6, <3>1
    <3>2. CASE q # p
      <4>1. ActiveSet(q)' = ActiveSet(q)
        BY <2>2, <3>2 DEF ActiveSet
      <4> QED
        BY <1>1, <2>6, <3>2, <4>1 DEF CountsAreExact
    <3> QED
      BY <3>1, <3>2
  <2> QED
    BY <2>1, <2>5, <2>7 DEF CountsAreExact
<1>4. CASE ~ UNCHANGED <<signal, projection, audits>>
  <2>1. PICK state \in SignalStates : signal' = [signal EXCEPT ![<<c, p>>] = state]
    BY <1>4, SignalStep
  <2>2. /\ projection[p].state = "published"
        /\ projection' = [projection EXCEPT ![p].signalCount = ActiveSignals(signal', p)]
    BY <1>4, SignalStep
  <2> QED
    BY <1>3, <2>1, <2>2
<1> QED
  BY <1>2, <1>4

-----------------------------------------------------------------------------
(* The invariant.                                                          *)

LEMMA InitInv ==
    ASSUME Init
    PROVE  Inv
<1> USE DEF Init
<1>1. TypeInv
  <2>1. NoInvitation \in InvitationRows
    BY DEF NoInvitation, InvitationRows, NoScopes
  <2>2. IdleBrowser \in BrowserTabs
    BY PilotAssumption DEF IdleBrowser, BrowserTabs, Targets
  <2>3. NoScopes \in SUBSET Scopes
    BY DEF NoScopes
  <2>4. /\ invitation \in [Invitations -> InvitationRows]
        /\ session \in [Capabilities -> SUBSET Scopes]
        /\ browser \in [Browsers -> BrowserTabs]
    BY <2>1, <2>2, <2>3
  <2>5. /\ enabled \subseteq Switches /\ toggles \in 0..MaxToggles
        /\ children \subseteq Scopes \X Invitations \X Keys
        /\ drawn \subseteq Keys
    BY PilotAssumption
  <2>6. /\ projection \in [Issues -> [state : {"none", "published", "removed"}, signalCount : Nat]]
        /\ signal \in [Capabilities \X Issues -> {"none", "active", "retracted"}]
    OBVIOUS
  <2> HIDE DEF Init
  <2> QED
    BY <2>4, <2>5, <2>6 DEF TypeInv, TypeOK, InvitationRows, BrowserTabs
<1>2. RequestsAreAddressed
  BY DEF RequestsAreAddressed, IdleBrowser
<1>3. SessionsConsume
  BY DEF SessionsConsume, NoInvitation, NoScopes, Capabilities
<1>4. CountsAreExact
  <2>1. \A p \in Issues : ActiveSet(p) = {}
    BY DEF ActiveSet
  <2> QED
    BY <2>1, FS_EmptySet DEF CountsAreExact
<1> QED
  BY <1>1, <1>2, <1>3, <1>4 DEF Inv

\* A step that changes only what a browser holds: its new tab must have its
\* type and name what it is about.
LEMMA BrowserStep ==
    ASSUME Inv, NEW b \in Browsers, NEW tab \in BrowserTabs,
           browser' = [browser EXCEPT ![b] = tab],
           tab.pc = "opening" => tab.target \in Capabilities,
           tab.pc \in {"sent", "authorized"} => \E p \in Issues : tab.target = <<p>>,
           tab.pc = "authorized" => tab.cookie \in Capabilities
    PROVE  browser' \in [Browsers -> BrowserTabs] /\ RequestsAreAddressed'
<1>1. browser \in [Browsers -> BrowserTabs] /\ RequestsAreAddressed
  BY DEF Inv, TypeInv
<1>2. browser' \in [Browsers -> BrowserTabs]
  BY <1>1
<1>3. browser'[b] = tab /\ \A o \in Browsers \ {b} : browser'[o] = browser[o]
  BY <1>1
<1> QED
  BY <1>1, <1>2, <1>3 DEF RequestsAreAddressed

\* A step that leaves the browsers alone.
LEMMA BrowsersKept ==
    ASSUME Inv, UNCHANGED browser
    PROVE  browser' \in [Browsers -> BrowserTabs] /\ RequestsAreAddressed'
BY DEF Inv, TypeInv, RequestsAreAddressed

\* A step that leaves the rows of access or of signals alone.
LEMMA AccessKept ==
    ASSUME Inv, UNCHANGED accessVars
    PROVE  /\ SessionsConsume'
           /\ invitation' \in [Invitations -> InvitationRows]
           /\ session' \in [Capabilities -> SUBSET Scopes]
           /\ children' \subseteq Scopes \X Invitations \X Keys
BY DEF Inv, TypeInv, TypeOK, SessionsConsume, accessVars, InvitationRows

LEMMA SignalsKept ==
    ASSUME Inv, UNCHANGED <<projection, signal>>
    PROVE  /\ CountsAreExact'
           /\ signal' \in [Capabilities \X Issues -> SignalStates]
           /\ projection' \in [Issues -> [ state : {"none", "published", "removed"},
                                           signalCount : Nat ]]
BY DEF Inv, TypeInv, TypeOK, CountsAreExact, ActiveSet, SignalStates

\* The invariant from its parts.
LEMMA Together ==
    ASSUME enabled' \subseteq Switches, toggles' \in 0..MaxToggles, drawn' \subseteq Keys,
           browser' \in [Browsers -> BrowserTabs], RequestsAreAddressed',
           SessionsConsume', invitation' \in [Invitations -> InvitationRows],
           session' \in [Capabilities -> SUBSET Scopes],
           children' \subseteq Scopes \X Invitations \X Keys,
           CountsAreExact', signal' \in [Capabilities \X Issues -> SignalStates],
           projection' \in [Issues -> [ state : {"none", "published", "removed"},
                                        signalCount : Nat ]]
    PROVE  Inv'
BY DEF Inv, TypeInv, TypeOK, InvitationRows, SignalStates, BrowserTabs

-----------------------------------------------------------------------------
(* Steps.                                                                  *)

\* An invitation that is not consumed has no session and no children; its row
\* may be created or expire.
LEMMA InvitationStep ==
    ASSUME Inv, NEW i \in Invitations, NEW row \in InvitationRows,
           invitation' = [invitation EXCEPT ![i] = row], UNCHANGED <<session, children>>,
           \/ invitation[i].state = "none" /\ row.state = "active" /\ row.capability = "active"
           \/ /\ row.state = invitation[i].state /\ row.capability = invitation[i].capability
              /\ row.scopes = invitation[i].scopes
    PROVE  /\ SessionsConsume'
           /\ invitation' \in [Invitations -> InvitationRows]
           /\ session' \in [Capabilities -> SUBSET Scopes]
           /\ children' \subseteq Scopes \X Invitations \X Keys
<1>1. /\ invitation \in [Invitations -> InvitationRows]
      /\ session \in [Capabilities -> SUBSET Scopes]
      /\ children \subseteq Scopes \X Invitations \X Keys
      /\ SessionsConsume
  BY DEF Inv, TypeInv, TypeOK, InvitationRows
<1>2. /\ invitation' \in [Invitations -> InvitationRows]
      /\ invitation'[i] = row /\ \A j \in Invitations \ {i} : invitation'[j] = invitation[j]
  BY <1>1
<1>3. SessionsConsume'
  <2>1. ASSUME NEW j \in Invitations
        PROVE  /\ invitation'[j].capability = invitation'[j].state
               /\ \A l \in Keys : session[<<j, l>>] # NoScopes => invitation'[j].state = "consumed"
               /\ invitation'[j].state = "consumed" => \E l \in Keys : session[<<j, l>>] # NoScopes
               /\ \A l, m \in Keys :
                     session[<<j, l>>] # NoScopes /\ session[<<j, m>>] # NoScopes => l = m
               /\ \A s \in Scopes, l \in Keys :
                     <<s, j, l>> \in children <=>
                         session[<<j, l>>] # NoScopes /\ s \in invitation'[j].scopes
    <3>1. CASE j # i
      <4>1. invitation'[j] = invitation[j]
        BY <1>2, <3>1
      <4> QED
        BY <1>1, <4>1 DEF SessionsConsume
    <3>2. CASE j = i
      BY <1>1, <1>2, <3>2 DEF SessionsConsume
    <3> QED
      BY <3>1, <3>2
  <2> QED
    BY <2>1 DEF SessionsConsume
<1> QED
  BY <1>1, <1>2, <1>3

\* Publishing and removing a projection leave the counts alone.
LEMMA ProjectionStep ==
    ASSUME Inv, NEW p \in Issues, NEW state \in {"published", "removed"},
           projection' = [projection EXCEPT ![p] = [state |-> state,
                              signalCount |-> projection[p].signalCount]],
           UNCHANGED signal
    PROVE  /\ CountsAreExact'
           /\ signal' \in [Capabilities \X Issues -> SignalStates]
           /\ projection' \in [Issues -> [ state : {"none", "published", "removed"},
                                           signalCount : Nat ]]
<1>1. /\ signal \in [Capabilities \X Issues -> SignalStates]
      /\ projection \in [Issues -> [state : {"none", "published", "removed"}, signalCount : Nat]]
      /\ CountsAreExact
  BY DEF Inv, TypeInv, TypeOK, SignalStates
<1>2. projection' \in [Issues -> [ state : {"none", "published", "removed"},
                                   signalCount : Nat ]]
  BY <1>1
<1>3. /\ projection'[p].signalCount = projection[p].signalCount /\ projection'[p].state = state
      /\ \A q \in Issues \ {p} : projection'[q] = projection[q]
  BY <1>1
<1>4. \A q \in Issues : ActiveSet(q)' = ActiveSet(q)
  BY DEF ActiveSet
<1> QED
  BY <1>1, <1>2, <1>3, <1>4 DEF CountsAreExact

\* Every step keeps the invariant.
LEMMA StepInv ==
    ASSUME Inv, [Next]_vars
    PROVE  Inv'
<1>0. /\ enabled \subseteq Switches /\ toggles \in 0..MaxToggles /\ drawn \subseteq Keys
      /\ invitation \in [Invitations -> InvitationRows]
      /\ projection \in [Issues -> [state : {"none", "published", "removed"}, signalCount : Nat]]
      /\ browser \in [Browsers -> BrowserTabs]
      /\ RequestsAreAddressed
  BY DEF Inv, TypeInv, TypeOK, InvitationRows
<1>1. ASSUME NEW s \in Switches, ToggleSwitch(s) PROVE Inv'
  <2>1. enabled' \subseteq Switches /\ toggles' \in 0..MaxToggles
    BY <1>0, <1>1, PilotAssumption DEF ToggleSwitch
  <2> QED
    BY <1>0, <1>1, <2>1, BrowsersKept, AccessKept, SignalsKept, Together DEF ToggleSwitch
<1>2. ASSUME NEW i \in Invitations, NEW scopes \in SUBSET Scopes, CreatePilotInvitation(i, scopes)
      PROVE  Inv'
  <2> DEFINE row == [state |-> "active", capability |-> "active", scopes |-> scopes,
                     expired |-> FALSE]
  <2>1. /\ row \in InvitationRows /\ row.state = "active" /\ row.capability = "active"
        /\ invitation[i].state = "none"
        /\ invitation' = [invitation EXCEPT ![i] = row]
        /\ UNCHANGED <<enabled, toggles, session, children, projection, signal, drawn, browser>>
    BY <1>2 DEF CreatePilotInvitation, InvitationRows
  <2> HIDE DEF row
  <2> QED
    BY <1>0, <2>1, BrowsersKept, InvitationStep, SignalsKept, Together
<1>3. ASSUME NEW i \in Invitations, InvitationExpires(i) PROVE Inv'
  <2> DEFINE row == [invitation[i] EXCEPT !.expired = TRUE]
  <2>1. /\ row \in InvitationRows
        /\ row.state = invitation[i].state /\ row.capability = invitation[i].capability
        /\ row.scopes = invitation[i].scopes
        /\ invitation' = [invitation EXCEPT ![i] = row]
        /\ UNCHANGED <<enabled, toggles, session, children, projection, signal, drawn, browser>>
    BY <1>0, <1>3 DEF InvitationExpires, InvitationRows
  <2> HIDE DEF row
  <2> QED
    BY <1>0, <2>1, BrowsersKept, InvitationStep, SignalsKept, Together
<1>4. ASSUME NEW p \in Issues, PublishProjection(p) PROVE Inv'
  <2>1. projection[p].state = "none" => projection[p].signalCount = 0
    BY DEF Inv, CountsAreExact
  <2>2. PublishedRow(p) = [state |-> "published", signalCount |-> projection[p].signalCount]
    BY <2>1 DEF PublishedRow
  <2>3. /\ projection' = [projection EXCEPT ![p] = [state |-> "published",
                              signalCount |-> projection[p].signalCount]]
        /\ UNCHANGED <<enabled, toggles, accessVars, signal, drawn, browser>>
    BY <1>4, <2>2 DEF PublishProjection
  <2> QED
    BY <1>0, <2>3, BrowsersKept, AccessKept, ProjectionStep, Together
<1>5. ASSUME NEW p \in Issues, RemoveProjection(p) PROVE Inv'
  <2>1. [projection[p] EXCEPT !.state = "removed"]
           = [state |-> "removed", signalCount |-> projection[p].signalCount]
    BY <1>0
  <2>2. /\ projection' = [projection EXCEPT ![p] = [state |-> "removed",
                              signalCount |-> projection[p].signalCount]]
        /\ UNCHANGED <<enabled, toggles, accessVars, signal, drawn, browser>>
    BY <1>5, <2>1 DEF RemoveProjection
  <2> QED
    BY <1>0, <2>2, BrowsersKept, AccessKept, ProjectionStep, Together
<1>6. ASSUME NEW b \in Browsers, NEW i \in Invitations, NEW k \in Keys, OpenInvitation(b, i, k)
      PROVE  Inv'
  <2> DEFINE tab == [browser[b] EXCEPT !.pc = "opening", !.target = <<i, k>>, !.clicks = @ + 1]
  <2>1. browser[b] \in BrowserTabs /\ browser[b].clicks < MaxClicks
    BY <1>0, <1>6 DEF OpenInvitation
  <2>2. <<i, k>> \in Capabilities
    BY DEF Capabilities
  <2>3. tab \in BrowserTabs /\ tab.pc = "opening" /\ tab.target = <<i, k>>
    <3>1. browser[b].clicks + 1 \in 0 .. MaxClicks
      BY <2>1, PilotAssumption DEF BrowserTabs
    <3>2. <<i, k>> \in Targets
      BY <2>2 DEF Targets
    <3> QED
      BY <2>1, <3>1, <3>2 DEF BrowserTabs
  <2>4. /\ browser' = [browser EXCEPT ![b] = tab] /\ drawn' \subseteq Keys
        /\ UNCHANGED <<enabled, toggles, accessVars, projection, signal>>
    BY <1>0, <1>6 DEF OpenInvitation
  <2> HIDE DEF tab
  <2>5. browser' \in [Browsers -> BrowserTabs] /\ RequestsAreAddressed'
    BY <2>2, <2>3, <2>4, BrowserStep
  <2> QED
    BY <1>0, <2>4, <2>5, AccessKept, SignalsKept, Together
<1>7. ASSUME NEW b \in Browsers, NEW lost \in BOOLEAN, NEW again \in BOOLEAN,
             HandleSession(b, lost, again)
      PROVE  Inv'
  <2>1. /\ browser[b].pc = "opening" /\ browser[b] \in BrowserTabs
        /\ browser[b].target \in Capabilities
    BY <1>0, <1>7 DEF HandleSession, RequestsAreAddressed
  <2>2. PICK i \in Invitations, k \in Keys : browser[b].target = <<i, k>>
    BY <2>1 DEF Capabilities
  <2>3. browser[b].target[1] = i /\ browser[b].target[2] = k
    BY <2>2
  <2>4. /\ ConsumePilotInvitation(i, k)
        /\ \/ UNCHANGED browser
           \/ \E cookie \in {browser[b].cookie, CookieOf(i, k, browser[b].cookie)} :
                 browser' = [browser EXCEPT ![b].pc = "idle", ![b].cookie = cookie]
        /\ UNCHANGED <<enabled, toggles, projection, signal, drawn>>
    BY <1>7, <2>3 DEF HandleSession
  <2>5. CookieOf(i, k, browser[b].cookie) \in Capabilities \cup {NoCookie}
    BY <2>1 DEF CookieOf, BrowserTabs, Capabilities
  <2>6. browser' \in [Browsers -> BrowserTabs] /\ RequestsAreAddressed'
    <3>1. CASE UNCHANGED browser
      BY <3>1, BrowsersKept
    <3>2. CASE \E cookie \in {browser[b].cookie, CookieOf(i, k, browser[b].cookie)} :
                 browser' = [browser EXCEPT ![b].pc = "idle", ![b].cookie = cookie]
      <4>1. PICK cookie \in {browser[b].cookie, CookieOf(i, k, browser[b].cookie)} :
               browser' = [browser EXCEPT ![b].pc = "idle", ![b].cookie = cookie]
        BY <3>2
      <4> DEFINE tab == [browser[b] EXCEPT !.pc = "idle", !.cookie = cookie]
      <4>2. tab \in BrowserTabs /\ tab.pc = "idle"
        BY <2>1, <2>5 DEF BrowserTabs
      <4>3. browser' = [browser EXCEPT ![b] = tab]
        BY <4>1
      <4> HIDE DEF tab
      <4> QED
        BY <4>2, <4>3, BrowserStep
    <3> QED
      BY <2>4, <3>1, <3>2
  <2>7. /\ SessionsConsume'
        /\ invitation' \in [Invitations -> InvitationRows]
        /\ session' \in [Capabilities -> SUBSET Scopes]
        /\ children' \subseteq Scopes \X Invitations \X Keys
    BY <2>4, ConsumeStep
  <2> QED
    BY <1>0, <2>4, <2>6, <2>7, SignalsKept, Together
<1>8. ASSUME NEW b \in Browsers, NEW lost \in BOOLEAN, NEW again \in BOOLEAN,
             HandleSignal(b, lost, again)
      PROVE  Inv'
  <2>1. /\ browser[b] \in BrowserTabs /\ browser[b].cookie \in Capabilities
        /\ \E p \in Issues : browser[b].target = <<p>>
    BY <1>0, <1>8 DEF HandleSignal, RequestsAreAddressed
  <2>2. PICK p \in Issues : browser[b].target = <<p>>
    BY <2>1
  <2>3. browser[b].target[1] = p /\ browser[b].method \in {"POST", "DELETE"}
    BY <2>1, <2>2 DEF BrowserTabs
  <2>4. /\ MutateSignal(browser[b].cookie, p, browser[b].method)
        /\ \/ UNCHANGED browser
           \/ \E active \in BOOLEAN :
                 browser' = [browser EXCEPT ![b].pc = "idle", ![b].active = active]
        /\ UNCHANGED <<enabled, toggles, accessVars, drawn>>
    BY <1>8, <2>1, <2>3 DEF HandleSignal, BrowserTabs
  <2>5. browser' \in [Browsers -> BrowserTabs] /\ RequestsAreAddressed'
    <3>1. CASE UNCHANGED browser
      BY <3>1, BrowsersKept
    <3>2. CASE \E active \in BOOLEAN :
                 browser' = [browser EXCEPT ![b].pc = "idle", ![b].active = active]
      <4>1. PICK active \in BOOLEAN :
               browser' = [browser EXCEPT ![b].pc = "idle", ![b].active = active]
        BY <3>2
      <4> DEFINE tab == [browser[b] EXCEPT !.pc = "idle", !.active = active]
      <4>2. tab \in BrowserTabs /\ tab.pc = "idle"
        BY <2>1 DEF BrowserTabs
      <4>3. browser' = [browser EXCEPT ![b] = tab]
        BY <4>1
      <4> HIDE DEF tab
      <4> QED
        BY <4>2, <4>3, BrowserStep
    <3> QED
      BY <2>4, <3>1, <3>2
  <2>6. /\ CountsAreExact'
        /\ signal' \in [Capabilities \X Issues -> SignalStates]
        /\ projection' \in [Issues -> [ state : {"none", "published", "removed"},
                                        signalCount : Nat ]]
    BY <2>1, <2>3, <2>4, CountStep
  <2> QED
    BY <1>0, <2>4, <2>5, <2>6, AccessKept, Together
<1>9. ASSUME NEW b \in Browsers, NEW p \in Issues, Click(b, p) PROVE Inv'
  <2> DEFINE method == IF browser[b].active THEN "DELETE" ELSE "POST"
             tab == [browser[b] EXCEPT !.pc = "sent", !.target = <<p>>, !.clicks = @ + 1,
                                       !.method = method]
  <2>1. browser[b] \in BrowserTabs /\ browser[b].clicks < MaxClicks
    BY <1>0, <1>9 DEF Click
  <2>2. tab \in BrowserTabs /\ tab.pc = "sent" /\ tab.target = <<p>>
    <3>1. browser[b].clicks + 1 \in 0 .. MaxClicks
      BY <2>1, PilotAssumption DEF BrowserTabs
    <3>2. <<p>> \in Targets /\ method \in {"POST", "DELETE"}
      BY DEF Targets
    <3> HIDE DEF method
    <3> QED
      BY <2>1, <3>1, <3>2 DEF BrowserTabs
  <2>3. /\ browser' = [browser EXCEPT ![b] = tab]
        /\ UNCHANGED <<enabled, toggles, accessVars, projection, signal, drawn>>
    BY <1>9 DEF Click
  <2> HIDE DEF tab
  <2>4. browser' \in [Browsers -> BrowserTabs] /\ RequestsAreAddressed'
    BY <2>2, <2>3, BrowserStep
  <2> QED
    BY <1>0, <2>3, <2>4, AccessKept, SignalsKept, Together
<1>10. ASSUME NEW b \in Browsers, AuthorizeSignal(b) PROVE Inv'
  <2>1. browser[b] \in BrowserTabs /\ \E p \in Issues : browser[b].target = <<p>>
    BY <1>0, <1>10 DEF AuthorizeSignal, RequestsAreAddressed
  <2>2. UNCHANGED <<enabled, toggles, accessVars, projection, signal, drawn>>
    BY <1>10 DEF AuthorizeSignal
  <2>3. browser' \in [Browsers -> BrowserTabs] /\ RequestsAreAddressed'
    <3>1. CASE Authorized(browser[b].cookie)
      <4> DEFINE tab == [browser[b] EXCEPT !.pc = "authorized"]
      <4>1. browser[b].cookie \in Capabilities
        BY <2>1, <3>1 DEF Authorized, BrowserTabs
      <4>2. /\ tab \in BrowserTabs /\ tab.pc = "authorized" /\ tab.cookie = browser[b].cookie
            /\ tab.target = browser[b].target
        BY <2>1 DEF BrowserTabs
      <4>3. browser' = [browser EXCEPT ![b] = tab]
        BY <1>10, <3>1 DEF AuthorizeSignal
      <4> HIDE DEF tab
      <4> QED
        BY <2>1, <4>1, <4>2, <4>3, BrowserStep
    <3>2. CASE ~Authorized(browser[b].cookie)
      <4> DEFINE tab == [browser[b] EXCEPT !.pc = "idle"]
      <4>1. tab \in BrowserTabs /\ tab.pc = "idle"
        BY <2>1 DEF BrowserTabs
      <4>2. browser' = [browser EXCEPT ![b] = tab]
        BY <1>10, <3>2 DEF AuthorizeSignal
      <4> HIDE DEF tab
      <4> QED
        BY <4>1, <4>2, BrowserStep
    <3> QED
      BY <3>1, <3>2
  <2> QED
    BY <1>0, <2>2, <2>3, AccessKept, SignalsKept, Together
<1>11. CASE UNCHANGED vars
  BY <1>0, <1>11, BrowsersKept, AccessKept, SignalsKept, Together DEF vars, accessVars
<1> QED
  BY <1>1, <1>2, <1>3, <1>4, <1>5, <1>6, <1>7, <1>8, <1>9, <1>10, <1>11 DEF Next

LEMMA Invariant == Spec => []Inv
<1>1. Init => Inv
  BY InitInv
<1>2. Inv /\ [Next]_vars => Inv'
  BY StepInv
<1> QED
  BY <1>1, <1>2, PTL DEF Spec

-----------------------------------------------------------------------------
(* Theorems.                                                               *)

\* The public count of every issue is the number of its active signals, for
\* any number of people and requests (recordPublicSignal, retractPublicSignal
\* and the projection upsert of publication).
THEOREM CountsExact == Spec => []CountIsActiveSignals
<1>1. Inv => CountIsActiveSignals
  BY DEF Inv, CountsAreExact, CountIsActiveSignals, ActiveSignals, ActiveSet
<1> QED
  BY <1>1, Invariant, PTL

\* An invitation is exchanged for the session of one key at most, whose child
\* capabilities are its scopes (consumePilotInvitation).
THEOREM AccessRows == Spec => []AccessRowsAgree
<1>1. ASSUME Inv PROVE AccessRowsAgree
  <2>1. ASSUME NEW i \in Invitations
        PROVE  LET used == {k \in Keys : session[<<i, k>>] # NoScopes} IN
               /\ Cardinality(used) <= 1
               /\ (invitation[i].state = "consumed") <=> (used # {})
               /\ invitation[i].capability = invitation[i].state
               /\ {x \in children : x[2] = i} = UNION {ChildrenOf(i, k) : k \in used}
    <3> DEFINE used == {k \in Keys : session[<<i, k>>] # NoScopes}
    <3>1. /\ invitation[i].capability = invitation[i].state
          /\ (invitation[i].state = "consumed") <=> (used # {})
          /\ \A k, l \in used : k = l
      BY <1>1 DEF Inv, SessionsConsume
    <3>2. Cardinality(used) <= 1
      <4>1. CASE used = {}
        <5>1. Cardinality({}) = 0
          BY FS_EmptySet
        <5> HIDE DEF used
        <5> QED
          BY <4>1, <5>1
      <4>2. CASE used # {}
        <5>1. PICK k \in used : TRUE
          BY <4>2
        <5>2. used = {k}
          BY <3>1
        <5>3. Cardinality({k}) = 1
          BY FS_Singleton
        <5> HIDE DEF used
        <5> QED
          BY <5>2, <5>3
      <4> QED
        BY <4>1, <4>2
    <3>3. /\ children \subseteq Scopes \X Invitations \X Keys
          /\ invitation[i].scopes \subseteq Scopes
      BY <1>1 DEF Inv, TypeInv, TypeOK
    <3>4. \A s \in Scopes, k \in Keys :
             <<s, i, k>> \in children <=> k \in used /\ s \in invitation[i].scopes
      BY <1>1 DEF Inv, SessionsConsume
    <3>5. ASSUME NEW x \in children, x[2] = i
          PROVE  x \in UNION {ChildrenOf(i, k) : k \in used}
      <4>1. PICK s \in Scopes, k \in Keys : x = <<s, i, k>>
        BY <3>3, <3>5
      <4>2. k \in used /\ s \in invitation[i].scopes
        BY <3>4, <4>1
      <4>3. x \in ChildrenOf(i, k)
        BY <4>1, <4>2 DEF ChildrenOf
      <4> QED
        BY <4>2, <4>3
    <3>6. ASSUME NEW x \in UNION {ChildrenOf(i, k) : k \in used}
          PROVE  x \in children /\ x[2] = i
      <4>1. PICK k \in used, s \in invitation[i].scopes : x = <<s, i, k>>
        BY <3>6 DEF ChildrenOf
      <4> QED
        BY <3>3, <3>4, <4>1
    <3>7. {x \in children : x[2] = i} = UNION {ChildrenOf(i, k) : k \in used}
      BY <3>5, <3>6
    <3> QED
      BY <3>1, <3>2, <3>7
  <2>2. OneConsumption
    BY <2>1 DEF OneConsumption
  <2> QED
    BY <1>1, <2>2 DEF AccessRowsAgree, Inv, TypeInv
<1> QED
  BY <1>1, Invariant, PTL

\* A signal changes only with an audit event that was not there, with the
\* switch on and its issue published (the transactions read both again).
THEOREM SanctionedSignals == Spec => SignalChangesAreSanctioned
<1>1. Inv /\ [Next]_vars => [signal' # signal =>
          /\ audits' # audits
          /\ "inviteSignalsEnabled" \in enabled
          /\ \A p \in Issues : (\E c \in Capabilities : signal'[<<c, p>>] # signal[<<c, p>>])
                                  => projection[p].state = "published"]_vars
  <2> SUFFICES ASSUME Inv, [Next]_vars, signal' # signal
      PROVE  /\ audits' # audits
             /\ "inviteSignalsEnabled" \in enabled
             /\ \A p \in Issues : (\E c \in Capabilities : signal'[<<c, p>>] # signal[<<c, p>>])
                                     => projection[p].state = "published"
    OBVIOUS
  <2>1. PICK b \in Browsers, lost \in BOOLEAN, again \in BOOLEAN : HandleSignal(b, lost, again)
    <3>1. /\ \A s \in Switches : ~ToggleSwitch(s)
          /\ \A i \in Invitations, s \in SUBSET Scopes : ~CreatePilotInvitation(i, s)
          /\ \A i \in Invitations : ~InvitationExpires(i)
          /\ ~UNCHANGED vars
      BY DEF ToggleSwitch, CreatePilotInvitation, InvitationExpires, vars
    <3>2. \A p \in Issues : ~PublishProjection(p) /\ ~RemoveProjection(p)
      BY DEF PublishProjection, RemoveProjection
    <3>3. \A b \in Browsers :
              /\ \A i \in Invitations, k \in Keys : ~OpenInvitation(b, i, k)
              /\ \A p \in Issues : ~Click(b, p)
              /\ ~AuthorizeSignal(b)
      BY DEF OpenInvitation, Click, AuthorizeSignal
    <3>4. \A b \in Browsers, lost \in BOOLEAN, again \in BOOLEAN : ~HandleSession(b, lost, again)
      BY DEF HandleSession
    <3> QED
      BY <3>1, <3>2, <3>3, <3>4 DEF Next
  <2>2. /\ browser[b] \in BrowserTabs /\ browser[b].cookie \in Capabilities
        /\ \E p \in Issues : browser[b].target = <<p>>
    BY <2>1 DEF Inv, TypeInv, HandleSignal, RequestsAreAddressed
  <2>3. PICK p \in Issues : browser[b].target = <<p>>
    BY <2>2
  <2>4. browser[b].target[1] = p /\ browser[b].method \in {"POST", "DELETE"}
    BY <2>2, <2>3 DEF BrowserTabs
  <2> DEFINE c == browser[b].cookie
  <2>5. MutateSignal(c, p, browser[b].method)
    BY <2>1, <2>4 DEF HandleSignal
  <2>6. /\ projection[p].state = "published" /\ "inviteSignalsEnabled" \in enabled
        /\ \E state \in SignalStates : signal' = [signal EXCEPT ![<<c, p>>] = state]
        /\ audits' # audits
    BY <2>2, <2>4, <2>5, SignalStep
  <2>7. \A q \in Issues \ {p}, d \in Capabilities : signal'[<<d, q>>] = signal[<<d, q>>]
    <3>1. signal \in [Capabilities \X Issues -> SignalStates]
      BY DEF Inv, TypeInv, TypeOK, SignalStates
    <3> QED
      BY <2>6, <3>1
  <2> QED
    BY <2>6, <2>7
<1> QED
  BY <1>1, Invariant, PTL DEF Spec, SignalChangesAreSanctioned
=============================================================================
