--------------------------- MODULE Programs_proofs ---------------------------
(***************************************************************************)
(* Proofs about the administration of the second program (ProtocolAdmin),  *)
(* for every set of keys, subjects and roles and any number of messages    *)
(* and crashes, and about the first program (SignalProgramV1), for every   *)
(* finite set of wallets and any number of issues and updates.             *)
(***************************************************************************)
EXTENDS ProtocolAdmin, SignalProgramV1, FiniteSetTheorems, WellFoundedInduction, TLAPS

-----------------------------------------------------------------------------
(* The administration of the second program: the inductive invariant.      *)

\* Only the script signs an initialization, and it names no revision.
InitializationsNameNothing ==
    \A m \in wire : m.kind = "initialize" => m.expected = 0

\* Every message that took effect named a revision that is past.
LandedAreStale ==
    \A i \in DOMAIN log : log[i].message.expected < config.revision

\* A pending authority was proposed, and only grants changed since.
PendingIsProposed ==
    config.pending # NoKey =>
        \E j \in DOMAIN log :
            /\ log[j].message.kind = "propose"
            /\ log[j].message.key = config.pending
            /\ \A k \in (j + 1)..Len(log) : log[k].message.kind = "set_role"

Inv ==
    /\ TypeOK
    /\ IsFiniteSet(wire)
    /\ InitializationsNameNothing
    /\ LandedAreStale
    /\ NoTransferWhileOpen
    /\ PendingIsProposed
    /\ MessagesLandOnce
    /\ TransfersAreProposed

-----------------------------------------------------------------------------
(* Messages.                                                               *)

\* A signed instruction has the type of a message.
LEMMA MessageTyped ==
    ASSUME NEW id \in Nat, NEW by \in {"admin", "boot"}, NEW signer \in Keys \cup {NoKey},
           NEW kind \in Kinds, NEW expected \in Nat, NEW grant \in Nat,
           NEW subject \in Subjects, NEW bits \in SUBSET Roles, NEW on \in BOOLEAN,
           NEW key \in Keys \cup {NoKey}
    PROVE  /\ Message(id, by, signer, kind, expected, grant, subject, bits, on, key)
                 \in MessageType
           /\ Message(id, by, signer, kind, expected, grant, subject, bits, on, key).kind = kind
           /\ Message(id, by, signer, kind, expected, grant, subject, bits, on, key).expected
                 = expected
  BY DEF Message, MessageType

\* The id of the next message is a number.
LEMMA NextIdNat == IsFiniteSet(wire) => NextId \in Nat
  BY FS_CardinalityType DEF NextId

\* What the script holds before it has sent a message is typed.
LEMMA NoMessageTyped == NoMessage \in MessageType
  BY ProtocolAdminAssumption DEF NoMessage, Message, MessageType, Kinds

\* A message of the script has its type and keeps the revision it names.
LEMMA BootMessageTyped ==
    ASSUME IsFiniteSet(wire),
           NEW kind \in {"initialize", "set_role", "set_pause"}, NEW expected \in Nat,
           NEW grant \in Nat, NEW on \in BOOLEAN
    PROVE  /\ BootMessage(kind, expected, grant, on) \in MessageType
           /\ BootMessage(kind, expected, grant, on).kind = kind
           /\ BootMessage(kind, expected, grant, on).expected = expected
  <1>1. (IF kind = "set_role" THEN Roles ELSE {}) \in SUBSET Roles
    OBVIOUS
  <1>2. kind \in Kinds
    BY DEF Kinds
  <1>3. NextId \in Nat
    BY NextIdNat
  <1> QED  BY <1>1, <1>2, <1>3, ProtocolAdminAssumption, MessageTyped DEF BootMessage

-----------------------------------------------------------------------------
(* The log.                                                                *)

\* An event is appended behind the ones that are there.
LEMMA LogGrows ==
    ASSUME TypeOK, NEW m \in MessageType, config' \in ConfigType, Emit(m)
    PROVE  /\ log' \in Seq([message : MessageType, revision : Nat])
           /\ Len(log) \in Nat
           /\ Len(log') = Len(log) + 1
           /\ DOMAIN log = 1..Len(log)
           /\ DOMAIN log' = 1..(Len(log) + 1)
           /\ \A i \in 1..Len(log) : log'[i] = log[i]
           /\ log'[Len(log) + 1].message = m
  <1> DEFINE Entry == [message : MessageType, revision : Nat]
             entry == [message |-> m, revision |-> config'.revision]
  <1>1. log \in Seq(Entry)
    BY DEF TypeOK
  <1>2. entry \in Entry
    BY DEF ConfigType
  <1>3. log' = Append(log, entry)
    BY DEF Emit
  <1>4. entry.message = m
    OBVIOUS
  <1> HIDE DEF Entry, entry
  <1>5. /\ log' \in Seq(Entry) /\ Len(log) \in Nat /\ Len(log') = Len(log) + 1
        /\ DOMAIN log = 1..Len(log) /\ DOMAIN log' = 1..(Len(log) + 1)
        /\ \A i \in 1..Len(log) : log'[i] = log[i]
        /\ log'[Len(log) + 1] = entry
    BY <1>1, <1>2, <1>3
  <1> QED  BY <1>4, <1>5 DEF Entry

\* A message that names the revision in force and moves it is past from
\* then on, and differs from every message that landed before.
LEMMA LandingIsOnce ==
    ASSUME Inv, NEW m \in MessageType, m.expected = config.revision,
           config' \in ConfigType, config'.revision = config.revision + 1, Emit(m)
    PROVE  LandedAreStale' /\ MessagesLandOnce'
  <1>1. config.revision \in Nat
    BY DEF Inv, TypeOK, ConfigType
  <1>2. /\ Len(log) \in Nat /\ DOMAIN log = 1..Len(log)
        /\ DOMAIN log' = 1..(Len(log) + 1)
        /\ \A i \in 1..Len(log) : log'[i] = log[i]
        /\ log'[Len(log) + 1].message = m
    BY LogGrows DEF Inv
  <1>3. \A i \in 1..Len(log) : /\ log[i].message.expected \in Nat
                               /\ log[i].message.expected < config.revision
    <2> DEFINE Entry == [message : MessageType, revision : Nat]
    <2>1. log \in Seq(Entry)
      BY DEF Inv, TypeOK
    <2>2. \A e \in Entry : e.message.expected \in Nat
      BY DEF MessageType
    <2> HIDE DEF Entry
    <2>3. \A i \in 1..Len(log) : log[i] \in Entry
      BY <2>1
    <2> QED  BY <1>2, <2>2, <2>3 DEF Inv, LandedAreStale
  <1>4. LandedAreStale'
    <2> SUFFICES ASSUME NEW i \in DOMAIN log'
                 PROVE  log'[i].message.expected < config'.revision
      BY DEF LandedAreStale
    <2>1. CASE i = Len(log) + 1
      BY <2>1, <1>1, <1>2
    <2>2. CASE i \in 1..Len(log)
      BY <2>2, <1>1, <1>2, <1>3
    <2> QED  BY <2>1, <2>2, <1>2
  <1>5. MessagesLandOnce'
    <2> SUFFICES ASSUME NEW i \in DOMAIN log', NEW j \in DOMAIN log',
                        log'[i].message = log'[j].message
                 PROVE  i = j
      BY DEF MessagesLandOnce
    <2>1. CASE i \in 1..Len(log) /\ j \in 1..Len(log)
      BY <2>1, <1>2 DEF Inv, MessagesLandOnce
    <2>2. CASE i = Len(log) + 1 /\ j \in 1..Len(log)
      BY <2>2, <1>1, <1>2, <1>3
    <2>3. CASE i \in 1..Len(log) /\ j = Len(log) + 1
      BY <2>3, <1>1, <1>2, <1>3
    <2> QED  BY <2>1, <2>2, <2>3, <1>2
  <1> QED  BY <1>4, <1>5

\* An accepted transfer keeps the history of proposals.
LEMMA LandingIsProposed ==
    ASSUME Inv, NEW m \in MessageType, config' \in ConfigType, Emit(m),
           m.kind = "accept" => config.pending # NoKey /\ config.pending = m.signer
    PROVE  TransfersAreProposed'
  <1>1. /\ Len(log) \in Nat /\ DOMAIN log = 1..Len(log)
        /\ DOMAIN log' = 1..(Len(log) + 1)
        /\ \A i \in 1..Len(log) : log'[i] = log[i]
        /\ log'[Len(log) + 1].message = m
    BY LogGrows DEF Inv
  <1> SUFFICES ASSUME NEW i \in DOMAIN log', log'[i].message.kind = "accept"
               PROVE  \E j \in 1..(i - 1) :
                         /\ log'[j].message.kind = "propose"
                         /\ log'[j].message.key = log'[i].message.signer
                         /\ \A k \in (j + 1)..(i - 1) : log'[k].message.kind = "set_role"
    BY DEF TransfersAreProposed
  <1>2. CASE i \in 1..Len(log)
    <2>1. PICK j \in 1..(i - 1) :
             /\ log[j].message.kind = "propose"
             /\ log[j].message.key = log[i].message.signer
             /\ \A k \in (j + 1)..(i - 1) : log[k].message.kind = "set_role"
      BY <1>1, <1>2 DEF Inv, TransfersAreProposed
    <2>2. j \in 1..Len(log) /\ \A k \in (j + 1)..(i - 1) : k \in 1..Len(log)
      BY <1>1, <1>2
    <2> QED  BY <1>1, <1>2, <2>1, <2>2
  <1>3. CASE i = Len(log) + 1
    <2>1. PICK j \in DOMAIN log :
             /\ log[j].message.kind = "propose"
             /\ log[j].message.key = config.pending
             /\ \A k \in (j + 1)..Len(log) : log[k].message.kind = "set_role"
      BY <1>1, <1>3 DEF Inv, PendingIsProposed
    <2>2. j \in 1..(i - 1) /\ \A k \in (j + 1)..(i - 1) : k \in (j + 1)..Len(log) /\ k \in 1..Len(log)
      BY <1>1, <1>3
    <2>3. log'[j] = log[j] /\ log'[i].message.signer = config.pending
      BY <1>1, <1>3, <2>2
    <2>4. \A k \in (j + 1)..(i - 1) : log'[k].message.kind = "set_role"
      BY <1>1, <2>1, <2>2
    <2> QED  BY <2>1, <2>2, <2>3, <2>4
  <1> QED  BY <1>1, <1>2, <1>3

\* What is pending after a landing was proposed: nothing is pending, or the
\* message is the proposal, or it changes a grant and leaves it pending.
LEMMA LandingKeepsPending ==
    ASSUME Inv, NEW m \in MessageType, config' \in ConfigType, Emit(m),
           \/ config'.pending = NoKey
           \/ m.kind = "propose" /\ config'.pending = m.key
           \/ m.kind = "set_role" /\ config'.pending = config.pending
    PROVE  PendingIsProposed'
  <1>1. /\ Len(log) \in Nat /\ Len(log') = Len(log) + 1
        /\ DOMAIN log = 1..Len(log)
        /\ DOMAIN log' = 1..(Len(log) + 1)
        /\ \A i \in 1..Len(log) : log'[i] = log[i]
        /\ log'[Len(log) + 1].message = m
    BY LogGrows DEF Inv
  <1>2. CASE config'.pending = NoKey
    BY <1>2 DEF PendingIsProposed
  <1>3. CASE m.kind = "propose" /\ config'.pending = m.key
    <2>1. Len(log) + 1 \in DOMAIN log' /\ (Len(log) + 2)..Len(log') = {}
      BY <1>1
    <2> QED  BY <1>1, <1>3, <2>1 DEF PendingIsProposed
  <1>4. CASE m.kind = "set_role" /\ config'.pending = config.pending
    <2> SUFFICES ASSUME config'.pending # NoKey  PROVE PendingIsProposed'
      BY <1>2
    <2>1. PICK j \in DOMAIN log :
             /\ log[j].message.kind = "propose"
             /\ log[j].message.key = config.pending
             /\ \A k \in (j + 1)..Len(log) : log[k].message.kind = "set_role"
      BY <1>4 DEF Inv, PendingIsProposed
    <2>2. j \in DOMAIN log' /\ log'[j] = log[j]
      BY <1>1
    <2>3. \A k \in (j + 1)..Len(log') : log'[k].message.kind = "set_role"
      <3> TAKE k \in (j + 1)..Len(log')
      <3>1. CASE k = Len(log) + 1
        BY <3>1, <1>1, <1>4
      <3>2. CASE k \in (j + 1)..Len(log)
        <4>1. k \in 1..Len(log)
          BY <3>2, <1>1
        <4> QED  BY <3>2, <4>1, <1>1, <2>1
      <3> QED  BY <3>1, <3>2, <1>1
    <2> QED  BY <1>4, <2>1, <2>2, <2>3 DEF PendingIsProposed
  <1> QED  BY <1>2, <1>3, <1>4

-----------------------------------------------------------------------------
(* The steps.                                                              *)

\* A landing that moves the revision its message names, keeps the accounts
\* typed and the transfer closed or proposed, keeps the invariant.
LEMMA LandingKeepsInv ==
    ASSUME Inv, NEW m \in wire, Emit(m),
           m.expected = config.revision, config' \in ConfigType,
           config'.revision = config.revision + 1, grants' \in [Subjects -> GrantType],
           \/ config'.pending = NoKey
           \/ m.kind = "propose" /\ config'.pending = m.key
           \/ m.kind = "set_role" /\ config'.pending = config.pending,
           m.kind = "accept" => config.pending # NoKey /\ config.pending = m.signer,
           ~config'.paused => config'.pending = NoKey,
           UNCHANGED <<wire, writes, boot>>
    PROVE  Inv'
  <1>1. m \in MessageType
    BY DEF Inv, TypeOK
  <1>2. TypeOK'
    <2>1. log' \in Seq([message : MessageType, revision : Nat])
      BY <1>1, LogGrows DEF Inv
    <2> QED  BY <2>1 DEF Inv, TypeOK
  <1>3. LandedAreStale' /\ MessagesLandOnce'
    BY <1>1, LandingIsOnce
  <1>4. TransfersAreProposed'
    BY <1>1, LandingIsProposed
  <1>5. PendingIsProposed'
    BY <1>1, LandingKeepsPending
  <1>6. NoTransferWhileOpen'
    BY DEF NoTransferWhileOpen
  <1>7. IsFiniteSet(wire)' /\ InitializationsNameNothing'
    BY DEF Inv, InitializationsNameNothing
  <1> QED  BY <1>2, <1>3, <1>4, <1>5, <1>6, <1>7 DEF Inv

\* The six instructions, whenever the message was signed.
LEMMA LandKeepsInv ==
    ASSUME Inv, NEW m \in wire, Land(m)
    PROVE  Inv'
  <1>1. /\ m \in MessageType
        /\ config \in ConfigType /\ grants \in [Subjects -> GrantType]
        /\ config.revision \in Nat
    BY DEF Inv, TypeOK, ConfigType
  <1>2. m.signer \in Keys \cup {NoKey} /\ m.key \in Keys \cup {NoKey} /\ m.on \in BOOLEAN
        /\ m.bits \in SUBSET Roles /\ m.subject \in Subjects
    BY <1>1 DEF MessageType
  <1>3. UNCHANGED boot
    BY DEF Land
  <1>4. CASE InitializeProtocol(m)
    <2>1. /\ m.kind = "initialize" /\ config = NoConfig /\ Emit(m)
          /\ config' = [authority |-> Genesis, pending |-> NoKey, paused |-> TRUE, revision |-> 1]
          /\ UNCHANGED <<grants, wire, writes>>
      BY <1>4 DEF InitializeProtocol, MayInitialize
    <2>2. m.expected = config.revision /\ config'.revision = config.revision + 1
      BY <2>1 DEF Inv, InitializationsNameNothing, NoConfig
    <2>3. config' \in ConfigType /\ config'.pending = NoKey
      BY <2>1, ProtocolAdminAssumption DEF ConfigType
    <2> QED  BY <1>1, <1>3, <2>1, <2>2, <2>3, LandingKeepsInv
  <1>5. CASE SetRole(m)
    <2>1. /\ m.kind = "set_role" /\ m.expected = config.revision /\ Emit(m)
          /\ config' = [config EXCEPT !.revision = @ + 1]
          /\ grants' = [grants EXCEPT ![m.subject] =
                          [bits |-> m.bits, active |-> m.on, revision |-> @.revision + 1]]
          /\ UNCHANGED <<wire, writes>>
      BY <1>5 DEF SetRole, MaySetRole, ValidateAdmin
    <2>2. /\ config' \in ConfigType /\ config'.revision = config.revision + 1
          /\ config'.pending = config.pending /\ config'.paused = config.paused
      BY <1>1, <2>1 DEF ConfigType
    <2>3. grants' \in [Subjects -> GrantType]
      BY <1>1, <1>2, <2>1 DEF GrantType
    <2>4. ~config'.paused => config'.pending = NoKey
      BY <2>2 DEF Inv, NoTransferWhileOpen
    <2> QED  BY <1>3, <2>1, <2>2, <2>3, <2>4, LandingKeepsInv
  <1>6. CASE SetPause(m)
    <2>1. /\ m.kind = "set_pause" /\ m.expected = config.revision /\ Emit(m)
          /\ config' = [config EXCEPT !.paused = m.on, !.revision = @ + 1]
          /\ config.paused # m.on /\ (~m.on => config.pending = NoKey)
          /\ UNCHANGED <<grants, wire, writes>>
      BY <1>6 DEF SetPause, MaySetPause, ValidateAdmin
    <2> DEFINE after == [authority |-> config.authority, pending |-> config.pending,
                         paused |-> m.on, revision |-> config.revision + 1]
    <2>8. config' = after
      BY <1>1, <2>1 DEF ConfigType
    <2>9. after \in ConfigType
      BY <1>1, <1>2 DEF ConfigType
    <2>2. /\ config' \in ConfigType /\ config'.revision = config.revision + 1
          /\ config'.pending = config.pending
      BY <2>8, <2>9
    <2>3. config.pending = NoKey
      BY <1>1, <1>2, <2>1 DEF Inv, NoTransferWhileOpen, ConfigType
    <2> QED  BY <1>1, <1>3, <2>1, <2>2, <2>3, LandingKeepsInv
  <1>7. CASE ProposeAuthority(m)
    <2>1. /\ m.kind = "propose" /\ m.expected = config.revision /\ Emit(m)
          /\ config' = [config EXCEPT !.pending = m.key, !.revision = @ + 1]
          /\ config.paused
          /\ UNCHANGED <<grants, wire, writes>>
      BY <1>7 DEF ProposeAuthority, MayPropose, ValidateAdmin
    <2> DEFINE after == [authority |-> config.authority, pending |-> m.key,
                         paused |-> config.paused, revision |-> config.revision + 1]
    <2>8. config' = after
      BY <1>1, <2>1 DEF ConfigType
    <2>9. after \in ConfigType
      BY <1>1, <1>2 DEF ConfigType
    <2>2. /\ config' \in ConfigType /\ config'.revision = config.revision + 1
          /\ config'.pending = m.key /\ config'.paused
      BY <2>8, <2>9, <2>1
    <2> QED  BY <1>1, <1>3, <2>1, <2>2, LandingKeepsInv
  <1>8. CASE CancelAuthorityProposal(m)
    <2>1. /\ m.kind = "cancel" /\ m.expected = config.revision /\ Emit(m)
          /\ config' = [config EXCEPT !.pending = NoKey, !.revision = @ + 1]
          /\ UNCHANGED <<grants, wire, writes>>
      BY <1>8 DEF CancelAuthorityProposal, MayCancel, ValidateAdmin
    <2> DEFINE after == [authority |-> config.authority, pending |-> NoKey,
                         paused |-> config.paused, revision |-> config.revision + 1]
    <2>8. config' = after
      BY <1>1, <2>1 DEF ConfigType
    <2>9. after \in ConfigType
      BY <1>1, <1>2 DEF ConfigType
    <2>2. /\ config' \in ConfigType /\ config'.revision = config.revision + 1
          /\ config'.pending = NoKey
      BY <2>8, <2>9
    <2> QED  BY <1>1, <1>3, <2>1, <2>2, LandingKeepsInv
  <1>9. CASE AcceptAuthority(m)
    <2>1. /\ m.kind = "accept" /\ m.expected = config.revision /\ Emit(m)
          /\ config.pending # NoKey /\ config.pending = m.signer
          /\ config' = [config EXCEPT !.authority = m.signer, !.pending = NoKey,
                                      !.revision = @ + 1]
          /\ UNCHANGED <<grants, wire, writes>>
      BY <1>9 DEF AcceptAuthority, MayAccept
    <2> DEFINE after == [authority |-> m.signer, pending |-> NoKey,
                         paused |-> config.paused, revision |-> config.revision + 1]
    <2>8. config' = after
      BY <1>1, <2>1 DEF ConfigType
    <2>9. after \in ConfigType
      BY <1>1, <1>2 DEF ConfigType
    <2>2. /\ config' \in ConfigType /\ config'.revision = config.revision + 1
          /\ config'.pending = NoKey
      BY <2>8, <2>9
    <2> QED  BY <1>1, <1>3, <2>1, <2>2, LandingKeepsInv
  <1> QED  BY <1>4, <1>5, <1>6, <1>7, <1>8, <1>9 DEF Land

\* A step that signs at most one message, of a kind that is no
\* initialization or names no revision, and moves the script.
LEMMA SigningKeepsInv ==
    ASSUME Inv, NEW m \in MessageType, m.kind = "initialize" => m.expected = 0,
           wire' = wire \cup {m}, boot' \in BootType,
           UNCHANGED <<config, grants, log, writes>>
    PROVE  Inv'
  <1>1. TypeOK'
    BY DEF Inv, TypeOK
  <1>2. IsFiniteSet(wire)'
    BY FS_AddElement DEF Inv
  <1>3. InitializationsNameNothing'
    BY DEF Inv, InitializationsNameNothing
  <1>4. /\ LandedAreStale' /\ NoTransferWhileOpen' /\ PendingIsProposed'
        /\ MessagesLandOnce' /\ TransfersAreProposed'
    BY DEF Inv, LandedAreStale, NoTransferWhileOpen, PendingIsProposed,
           MessagesLandOnce, TransfersAreProposed
  <1> QED  BY <1>1, <1>2, <1>3, <1>4 DEF Inv

\* A step of the script, or a write, that leaves accounts, wire and log alone.
LEMMA QuietKeepsInv ==
    ASSUME Inv, boot' \in BootType, UNCHANGED <<config, grants, wire, log>>,
           writes' \subseteq [actor : Subjects, role : Roles, at : Nat]
    PROVE  Inv'
  <1>1. TypeOK'
    BY DEF Inv, TypeOK
  <1>2. /\ IsFiniteSet(wire)' /\ InitializationsNameNothing'
        /\ LandedAreStale' /\ NoTransferWhileOpen' /\ PendingIsProposed'
        /\ MessagesLandOnce' /\ TransfersAreProposed'
    BY DEF Inv, InitializationsNameNothing, LandedAreStale, NoTransferWhileOpen,
           PendingIsProposed, MessagesLandOnce, TransfersAreProposed
  <1> QED  BY <1>1, <1>2 DEF Inv

\* Whoever holds a key signs a role change, a pause or a transfer.
LEMMA AdministratorsKeepInv ==
    ASSUME Inv,
           \/ \E k \in Keys, s \in Subjects, bits \in SUBSET Roles, on \in BOOLEAN :
                 SignRole(k, s, bits, on)
           \/ \E k \in Keys, on \in BOOLEAN : SignPause(k, on)
           \/ \E k \in Keys, kind \in {"propose", "cancel", "accept"}, new \in Keys \cup {NoKey} :
                 SignTransfer(k, kind, new)
    PROVE  Inv'
  <1>1. /\ NextId \in Nat /\ config.revision \in Nat /\ boot \in BootType
        /\ \A s \in Subjects : grants[s].revision \in Nat
        /\ Service \in Subjects /\ {} \in SUBSET Roles /\ FALSE \in BOOLEAN /\ 0 \in Nat
        /\ NoKey \in Keys \cup {NoKey} /\ "set_pause" \in Kinds /\ "set_role" \in Kinds
    BY NextIdNat, ProtocolAdminAssumption DEF Inv, TypeOK, ConfigType, GrantType, Kinds
  <1>2. ASSUME NEW m \in MessageType, m.kind # "initialize", Sign(m)  PROVE Inv'
    BY <1>1, <1>2, SigningKeepsInv DEF Sign
  <1>3. ASSUME NEW k \in Keys, NEW s \in Subjects, NEW bits \in SUBSET Roles,
               NEW on \in BOOLEAN, SignRole(k, s, bits, on)
        PROVE  Inv'
    <2> DEFINE m == Message(NextId, "admin", k, "set_role", config.revision,
                            grants[s].revision, s, bits, on, NoKey)
    <2>1. m \in MessageType /\ m.kind = "set_role"
      BY <1>1, MessageTyped
    <2>2. Sign(m)
      BY <1>3 DEF SignRole
    <2> HIDE DEF m
    <2> QED  BY <1>2, <2>1, <2>2
  <1>4. ASSUME NEW k \in Keys, NEW on \in BOOLEAN, SignPause(k, on)
        PROVE  Inv'
    <2> DEFINE m == Message(NextId, "admin", k, "set_pause", config.revision, 0, Service,
                            {}, on, NoKey)
    <2>1. m \in MessageType /\ m.kind = "set_pause"
      BY <1>1, MessageTyped
    <2>2. Sign(m)
      BY <1>4 DEF SignPause
    <2> HIDE DEF m
    <2> QED  BY <1>2, <2>1, <2>2
  <1>5. ASSUME NEW k \in Keys, NEW kind \in {"propose", "cancel", "accept"},
               NEW new \in Keys \cup {NoKey}, SignTransfer(k, kind, new)
        PROVE  Inv'
    <2> DEFINE m == Message(NextId, "admin", k, kind, config.revision, 0, Service,
                            {}, FALSE, new)
    <2>1. kind \in Kinds /\ kind # "initialize"
      BY DEF Kinds
    <2>2. m \in MessageType /\ m.kind = kind
      BY <1>1, <2>1 DEF Message, MessageType
    <2>3. Sign(m)
      BY <1>5 DEF SignTransfer
    <2> HIDE DEF m
    <2> QED  BY <1>2, <2>1, <2>2, <2>3
  <1> QED  BY <1>3, <1>4, <1>5

\* The script signs a message, or fails when the simulation refuses it.
LEMMA BootSendsKeepsInv ==
    ASSUME Inv, NEW m \in MessageType, m.kind = "initialize" => m.expected = 0,
           NEW pc \in {"initialized", "paused", "granted", "unpaused"}, BootSends(m, pc)
    PROVE  Inv'
  <1>1. boot \in BootType /\ writes \subseteq [actor : Subjects, role : Roles, at : Nat]
    BY DEF Inv, TypeOK
  <1>2. CASE wire' = wire \cup {m} /\ boot' = [boot EXCEPT !.pc = pc, !.sent = m]
    <2> DEFINE next == [pc |-> pc, sent |-> m, config |-> boot.config,
                        grant |-> boot.grant, crashes |-> boot.crashes]
    <2>1. boot' = next
      BY <1>1, <1>2 DEF BootType
    <2>2. next \in BootType
      BY <1>1 DEF BootType
    <2> QED  BY <1>2, <2>1, <2>2, SigningKeepsInv DEF BootSends
  <1>3. CASE boot' = [boot EXCEPT !.pc = "failed"] /\ UNCHANGED wire
    <2>1. boot' \in BootType
      BY <1>1, <1>3 DEF BootType
    <2> QED  BY <1>1, <1>3, <2>1, QuietKeepsInv DEF BootSends
  <1> QED  BY <1>2, <1>3 DEF BootSends

\* The steps of the script, its death and its restart.
LEMMA BootKeepsInv ==
    ASSUME Inv, BootStep \/ BootDies \/ BootRestarts
    PROVE  Inv'
  <1>1. /\ IsFiniteSet(wire) /\ boot \in BootType /\ boot.config \in ConfigType
        /\ boot.config.revision \in Nat /\ boot.grant.revision \in Nat
        /\ config \in ConfigType /\ grants[Service] \in GrantType
        /\ writes \subseteq [actor : Subjects, role : Roles, at : Nat]
    BY ProtocolAdminAssumption DEF Inv, TypeOK, BootType, ConfigType, GrantType
  <1>2. ASSUME NEW kind \in {"initialize", "set_role", "set_pause"}, NEW expected \in Nat,
               NEW grant \in Nat, NEW on \in BOOLEAN,
               NEW pc \in {"initialized", "paused", "granted", "unpaused"},
               kind = "initialize" => expected = 0,
               BootSends(BootMessage(kind, expected, grant, on), pc)
        PROVE  Inv'
    <2> DEFINE m == BootMessage(kind, expected, grant, on)
    <2>1. m \in MessageType /\ m.kind = kind /\ m.expected = expected
      BY <1>1, BootMessageTyped
    <2>2. BootSends(m, pc)
      BY <1>2
    <2> HIDE DEF m
    <2> QED  BY <1>2, <2>1, <2>2, BootSendsKeepsInv
  <1>3. ASSUME boot' \in BootType, UNCHANGED <<config, grants, wire, log, writes>>
        PROVE  Inv'
    BY <1>1, <1>3, QuietKeepsInv
  <1>4. CASE BootReadsConfig
    <2>1. CASE BootSends(BootMessage("initialize", 0, 0, TRUE), "initialized")
      BY <1>2, <2>1
    <2>2. CASE /\ boot' = [boot EXCEPT
                     !.pc = IF config.authority = Genesis THEN "grant" ELSE "failed",
                     !.config = config]
               /\ UNCHANGED <<config, grants, wire, log, writes>>
      <3> DEFINE pc == IF config.authority = Genesis THEN "grant" ELSE "failed"
                 next == [pc |-> pc, sent |-> boot.sent, config |-> config,
                          grant |-> boot.grant, crashes |-> boot.crashes]
      <3>1. boot' = next
        BY <1>1, <2>2 DEF BootType
      <3>2. next \in BootType
        BY <1>1 DEF BootType
      <3> QED  BY <1>3, <2>2, <3>1, <3>2
    <2> QED  BY <1>4, <2>1, <2>2 DEF BootReadsConfig
  <1>5. CASE BootReadsGrant
    <2> DEFINE pc == CASE Configured(grants[Service]) -> "unpause"
                       [] ~boot.config.paused         -> "pause"
                       [] OTHER                       -> "role"
               next == [pc |-> pc, sent |-> boot.sent, config |-> boot.config,
                        grant |-> grants[Service], crashes |-> boot.crashes]
    <2>1. boot' = [boot EXCEPT !.grant = grants[Service], !.pc = pc]
          /\ UNCHANGED <<config, grants, wire, log, writes>>
      BY <1>5 DEF BootReadsGrant
    <2>2. pc \in {"unpause", "pause", "role"}
      OBVIOUS
    <2> HIDE DEF pc
    <2>3. boot' = next
      BY <1>1, <2>1 DEF BootType
    <2>4. next \in BootType
      BY <1>1, <2>2 DEF BootType
    <2> QED  BY <1>3, <2>1, <2>3, <2>4
  <1>6. CASE BootPauses
    BY <1>1, <1>2, <1>6 DEF BootPauses
  <1>7. CASE BootGrants
    BY <1>1, <1>2, <1>7 DEF BootGrants
  <1>8. CASE BootUnpauses
    <2>1. CASE boot' = [boot EXCEPT !.pc = "done"]
               /\ UNCHANGED <<config, grants, wire, log, writes>>
      <3>1. boot' \in BootType
        BY <1>1, <2>1 DEF BootType
      <3> QED  BY <1>3, <2>1, <3>1
    <2> QED  BY <1>1, <1>2, <1>8, <2>1 DEF BootUnpauses
  <1>9. CASE BootGoesOn
    <2> DEFINE pc == AfterLanding[boot.pc]
               next == [pc |-> pc, sent |-> boot.sent, config |-> config,
                        grant |-> boot.grant, crashes |-> boot.crashes]
    <2>1. pc \in {"start", "role", "check", "last"}
      BY <1>9 DEF BootGoesOn, AfterLanding
    <2>2. boot' = [boot EXCEPT !.pc = pc, !.config = config]
          /\ UNCHANGED <<config, grants, wire, log, writes>>
      BY <1>9 DEF BootGoesOn
    <2> HIDE DEF pc
    <2>3. boot' = next
      BY <1>1, <2>2 DEF BootType
    <2>4. next \in BootType
      BY <1>1, <2>1 DEF BootType
    <2> QED  BY <1>3, <2>2, <2>3, <2>4
  <1>10. CASE BootChecks
    <2>1. boot' \in BootType /\ UNCHANGED <<config, grants, wire, log, writes>>
      BY <1>1, <1>10 DEF BootChecks, BootType
    <2> QED  BY <1>3, <2>1
  <1>11. CASE BootRefused
    <2>1. boot' \in BootType /\ UNCHANGED <<config, grants, wire, log, writes>>
      BY <1>1, <1>11 DEF BootRefused, BootType
    <2> QED  BY <1>3, <2>1
  <1>12. CASE BootDies
    <2> DEFINE next == [pc |-> "failed", sent |-> boot.sent, config |-> boot.config,
                        grant |-> boot.grant, crashes |-> boot.crashes + 1]
    <2>1. boot' = next /\ UNCHANGED <<config, grants, wire, log, writes>>
      BY <1>1, <1>12 DEF BootDies, BootType
    <2>2. next \in BootType
      BY <1>1 DEF BootType
    <2> QED  BY <1>3, <2>1, <2>2
  <1>13. CASE BootRestarts
    <2> DEFINE next == [pc |-> "start", sent |-> NoMessage, config |-> boot.config,
                        grant |-> boot.grant, crashes |-> boot.crashes]
    <2>1. boot' = next /\ UNCHANGED <<config, grants, wire, log, writes>>
      BY <1>1, <1>13 DEF BootRestarts, BootType
    <2>2. next \in BootType
      BY <1>1, NoMessageTyped DEF BootType
    <2> QED  BY <1>3, <2>1, <2>2
  <1> QED  BY <1>4, <1>5, <1>6, <1>7, <1>8, <1>9, <1>10, <1>11, <1>12, <1>13 DEF BootStep

-----------------------------------------------------------------------------
(* The invariant and what follows from it.                                 *)

\* A fresh program with no account, no message and no event.
LEMMA InitEstablishesInv == Init => Inv
  <1> SUFFICES ASSUME Init PROVE Inv
    OBVIOUS
  <1>1. NoConfig \in ConfigType /\ NoGrant \in GrantType
    BY DEF NoConfig, NoGrant, ConfigType, GrantType
  <1>2. boot \in BootType
    BY <1>1, NoMessageTyped DEF Init, BootType
  <1>3. log = << >> /\ log \in Seq([message : MessageType, revision : Nat])
    BY DEF Init
  <1>4. TypeOK
    BY <1>1, <1>2, <1>3 DEF Init, TypeOK
  <1>5. IsFiniteSet(wire) /\ InitializationsNameNothing
    BY FS_EmptySet DEF Init, InitializationsNameNothing
  <1>6. LandedAreStale /\ MessagesLandOnce /\ TransfersAreProposed
    BY <1>3 DEF LandedAreStale, MessagesLandOnce, TransfersAreProposed
  <1>7. NoTransferWhileOpen /\ PendingIsProposed
    BY DEF Init, NoConfig, NoTransferWhileOpen, PendingIsProposed
  <1> QED  BY <1>4, <1>5, <1>6, <1>7 DEF Inv

\* Every step keeps the invariant.
LEMMA NextKeepsInv == Inv /\ [Next]_vars => Inv'
  <1> SUFFICES ASSUME Inv, [Next]_vars PROVE Inv'
    OBVIOUS
  <1>1. CASE \E m \in wire : Land(m)
    BY <1>1, LandKeepsInv
  <1>2. CASE \E actor \in Subjects, role \in Roles : WriteIssue(actor, role)
    <2>1. PICK actor \in Subjects, role \in Roles : WriteIssue(actor, role)
      BY <1>2
    <2>2. /\ writes' = writes \cup {[actor |-> actor, role |-> role, at |-> config.revision]}
          /\ UNCHANGED <<config, grants, wire, log, boot>>
      BY <2>1 DEF WriteIssue
    <2>3. [actor |-> actor, role |-> role, at |-> config.revision]
             \in [actor : Subjects, role : Roles, at : Nat]
      BY DEF Inv, TypeOK, ConfigType
    <2>4. boot' \in BootType /\ writes' \subseteq [actor : Subjects, role : Roles, at : Nat]
      BY <2>2, <2>3 DEF Inv, TypeOK
    <2> QED  BY <2>2, <2>4, QuietKeepsInv
  <1>3. CASE \/ \E k \in Keys, s \in Subjects, bits \in SUBSET Roles, on \in BOOLEAN :
                   SignRole(k, s, bits, on)
             \/ \E k \in Keys, on \in BOOLEAN : SignPause(k, on)
             \/ \E k \in Keys, kind \in {"propose", "cancel", "accept"},
                   new \in Keys \cup {NoKey} : SignTransfer(k, kind, new)
    BY <1>3, AdministratorsKeepInv
  <1>4. CASE BootStep \/ BootDies \/ BootRestarts
    BY <1>4, BootKeepsInv
  <1>5. CASE UNCHANGED vars
    <2>1. /\ boot' \in BootType /\ UNCHANGED <<config, grants, wire, log>>
          /\ writes' \subseteq [actor : Subjects, role : Roles, at : Nat]
      BY <1>5 DEF vars, Inv, TypeOK
    <2> QED  BY <2>1, QuietKeepsInv
  <1> QED  BY <1>1, <1>2, <1>3, <1>4, <1>5 DEF Next

-----------------------------------------------------------------------------
(* The trail.  Replay is recursive; that the recursion has a solution is   *)
(* itself part of the invariant, because a log that grows by one event     *)
(* extends the solution for the log before it.                             *)

\* What is known before the first event.
NothingKnown == [config |-> NoConfig, grants |-> [s \in Subjects |-> NoGrant]]

\* r solves the recursion of Replay for the events of trail.
Replays(r, trail) ==
    r = [n \in 0..Len(trail) |->
            IF n = 0 THEN NothingKnown ELSE AfterEvent(r[n - 1], trail[n])]

\* What the events up to the revision of a write say of its actor.
WritesAreJustified ==
    \A w \in writes :
        /\ w.at \in 0..Len(log)
        /\ ~Replay[w.at].config.paused
        /\ Replay[w.at].config.pending = NoKey
        /\ Replay[w.at].grants[w.actor].active
        /\ w.role \in Replay[w.at].grants[w.actor].bits

TrailInv ==
    /\ Replays(Replay, log)
    /\ config.revision = Len(log)
    /\ \A i \in DOMAIN log : log[i].revision = i
    /\ Replay[Len(log)] = [config |-> config, grants |-> grants]
    /\ WritesAreJustified

\* A non-empty set of numbers has a least element.
LEMMA LeastExists ==
    ASSUME NEW S, S \subseteq Nat, S # {}
    PROVE  \E i \in S : \A k \in S : i <= k
  <1> DEFINE R == OpToRel(<, Nat)
  <1>1. R = {ss \in Nat \X Nat : ss[1] < ss[2]}
    BY Zenon DEF OpToRel
  <1>2. PICK x \in S : \A y \in S : ~(<<y, x>> \in R)
    <2> HIDE DEF R
    <2>1. IsWellFoundedOn(R, Nat)
      BY NatLessThanWellFounded, Zenon DEF R
    <2> QED  BY <2>1, WFMin
  <1>3. \A y \in S : ~(y < x)
    BY <1>1, <1>2
  <1> QED  BY <1>3

\* The definition of Replay, in the state before a step and in the one after.
LEMMA ReplayIsChosen ==
    /\ Replay = CHOOSE r : Replays(r, log)
    /\ Replay' = CHOOSE r : Replays(r, log')
  <1>1. Replay = CHOOSE r : Replays(r, log)
    BY DEF Replay, Replays, NothingKnown
  <1>2. Replay' = CHOOSE r : Replays(r, log')
    BY DEF Replay, Replays, NothingKnown
  <1> QED  BY <1>1, <1>2

\* Where the recursion has a solution at all, Replay is one.
LEMMA ReplayIsSolved ==
    /\ \A r : Replays(r, log) => Replays(Replay, log)
    /\ \A r : Replays(r, log') => Replays(Replay', log')
  <1>1. \A t : (\E r : Replays(r, t)) => Replays(CHOOSE r : Replays(r, t), t)
    OBVIOUS
  <1> QED  BY <1>1, ReplayIsChosen, Zenon

\* Two trails that begin alike say the same of their common events.
LEMMA ReplaysAgree ==
    ASSUME NEW r, NEW q, NEW short, NEW long, Replays(r, short), Replays(q, long),
           Len(short) \in Nat, Len(long) \in Nat, Len(short) <= Len(long),
           \A i \in 1..Len(short) : short[i] = long[i]
    PROVE  \A n \in 0..Len(short) : r[n] = q[n]
  <1> DEFINE Apart == {n \in 0..Len(short) : r[n] # q[n]}
  <1> SUFFICES ASSUME Apart # {} PROVE FALSE
    OBVIOUS
  <1>1. PICK n \in Apart : \A k \in Apart : n <= k
    <2>1. Apart \subseteq Nat
      OBVIOUS
    <2> HIDE DEF Apart
    <2> QED  BY <2>1, LeastExists
  <1>2. n \in 0..Len(short) /\ n \in 0..Len(long) /\ r[n] # q[n]
    BY <1>1
  <1>3. /\ r[n] = IF n = 0 THEN NothingKnown ELSE AfterEvent(r[n - 1], short[n])
        /\ q[n] = IF n = 0 THEN NothingKnown ELSE AfterEvent(q[n - 1], long[n])
    BY <1>2 DEF Replays
  <1>4. n # 0
    BY <1>2, <1>3
  <1>5. n - 1 \in 0..Len(short) /\ ~(n <= n - 1) /\ n \in 1..Len(short)
    BY <1>2, <1>4
  <1>6. n - 1 \notin Apart
    BY <1>1, <1>5
  <1>7. r[n - 1] = q[n - 1]
    BY <1>5, <1>6
  <1>8. short[n] = long[n]
    BY <1>5
  <1> QED  BY <1>2, <1>3, <1>4, <1>7, <1>8

\* An event adds one state of knowledge behind the ones that are there.
LEMMA ReplayGrows ==
    ASSUME Inv, Replays(Replay, log), NEW m \in MessageType, config' \in ConfigType, Emit(m)
    PROVE  /\ Replays(Replay', log')
           /\ \A n \in 0..Len(log) : Replay'[n] = Replay[n]
           /\ Replay'[Len(log) + 1] =
                  AfterEvent(Replay[Len(log)], [message |-> m, revision |-> config'.revision])
           /\ log'[Len(log) + 1].revision = config'.revision
  <1> DEFINE Entry == [message : MessageType, revision : Nat]
             e == [message |-> m, revision |-> config'.revision]
             N == Len(log)
  <1>1. e \in Entry /\ e.revision = config'.revision
    BY DEF ConfigType
  <1>2. log \in Seq(Entry) /\ log' = Append(log, e)
    BY DEF Inv, TypeOK, Emit
  <1> HIDE DEF e, Entry
  <1>3. /\ N \in Nat /\ Len(log') = N + 1 /\ log'[N + 1] = e
        /\ \A i \in 1..N : log'[i] = log[i]
    BY <1>1, <1>2
  <1> HIDE DEF N
  <1> DEFINE q == [n \in 0..(N + 1) |->
                     IF n <= N THEN Replay[n] ELSE AfterEvent(Replay[N], e)]
  <1>4. Replay = [n \in 0..N |->
                    IF n = 0 THEN NothingKnown ELSE AfterEvent(Replay[n - 1], log[n])]
    BY DEF Replays, N
  <1>5. Replays(q, log')
    <2> DEFINE body(n) == IF n = 0 THEN NothingKnown ELSE AfterEvent(q[n - 1], log'[n])
    <2>1. ASSUME NEW n \in 0..(N + 1) PROVE q[n] = body(n)
      <3>1. CASE n = 0
        BY <1>3, <1>4, <3>1
      <3>2. CASE n \in 1..N
        <4>1. q[n] = Replay[n] /\ q[n - 1] = Replay[n - 1] /\ log'[n] = log[n]
          BY <1>3, <3>2
        <4>2. Replay[n] = AfterEvent(Replay[n - 1], log[n])
          BY <1>3, <1>4, <3>2
        <4>3. n # 0
          BY <3>2
        <4> QED  BY <4>1, <4>2, <4>3
      <3>3. CASE n = N + 1
        <4>1. q[n] = AfterEvent(Replay[N], e) /\ q[n - 1] = Replay[N] /\ log'[n] = e
          BY <1>3, <3>3
        <4>2. n # 0
          BY <1>3, <3>3
        <4> QED  BY <4>1, <4>2
      <3> QED  BY <1>3, <3>1, <3>2, <3>3
    <2>2. DOMAIN q = 0..(N + 1) /\ q = [n \in DOMAIN q |-> q[n]]
      OBVIOUS
    <2> HIDE DEF q
    <2>3. q = [n \in 0..(N + 1) |-> body(n)]
      BY <2>1, <2>2
    <2> QED  BY <1>3, <2>3 DEF Replays
  <1>6. Replays(Replay', log')
    BY <1>5, ReplayIsSolved
  <1>7. \A n \in 0..N : Replay[n] = Replay'[n]
    <2>1. Len(log) \in Nat /\ Len(log') \in Nat /\ Len(log) <= Len(log')
      BY <1>3 DEF N
    <2>2. \A i \in 1..Len(log) : log[i] = log'[i]
      BY <1>3 DEF N
    <2>3. \A n \in 0..Len(log) : Replay[n] = Replay'[n]
      BY <1>6, <2>1, <2>2, ReplaysAgree
    <2> QED  BY <2>3 DEF N
  <1>8. Replay'[N + 1] = AfterEvent(Replay[N], e)
    <2>1. Replay' = [n \in 0..(N + 1) |->
                       IF n = 0 THEN NothingKnown ELSE AfterEvent(Replay'[n - 1], log'[n])]
      BY <1>3, <1>6 DEF Replays
    <2>2. N + 1 \in 0..(N + 1) /\ N + 1 # 0 /\ (N + 1) - 1 = N /\ N \in 0..N
      BY <1>3
    <2>3. Replay'[N + 1] = AfterEvent(Replay'[N], log'[N + 1])
      BY <2>1, <2>2
    <2> QED  BY <1>3, <1>7, <2>2, <2>3
  <1> QED  BY <1>1, <1>3, <1>6, <1>7, <1>8 DEF N, e

\* An event that says what happened to the accounts keeps the trail.
LEMMA EmissionKeepsTrail ==
    ASSUME Inv, TrailInv, NEW m \in MessageType, config' \in ConfigType, Emit(m),
           UNCHANGED writes, config'.revision = config.revision + 1,
           AfterEvent([config |-> config, grants |-> grants],
                      [message |-> m, revision |-> config'.revision])
               = [config |-> config', grants |-> grants']
    PROVE  TrailInv'
  <1>1. /\ Len(log) \in Nat /\ Len(log') = Len(log) + 1
        /\ DOMAIN log = 1..Len(log) /\ DOMAIN log' = 1..(Len(log) + 1)
        /\ \A i \in 1..Len(log) : log'[i] = log[i]
    BY LogGrows DEF Inv
  <1>2. /\ Replays(Replay', log')
        /\ \A n \in 0..Len(log) : Replay'[n] = Replay[n]
        /\ Replay'[Len(log) + 1] =
               AfterEvent(Replay[Len(log)], [message |-> m, revision |-> config'.revision])
        /\ log'[Len(log) + 1].revision = config'.revision
    BY ReplayGrows DEF TrailInv
  <1>3. config'.revision = Len(log')
    BY <1>1 DEF TrailInv
  <1>4. \A i \in DOMAIN log' : log'[i].revision = i
    <2> TAKE i \in DOMAIN log'
    <2>1. CASE i \in 1..Len(log)
      BY <1>1, <2>1 DEF TrailInv
    <2>2. CASE i = Len(log) + 1
      BY <1>1, <1>2, <1>3, <2>2
    <2> QED  BY <1>1, <2>1, <2>2
  <1>5. Replay'[Len(log')] = [config |-> config', grants |-> grants']
    BY <1>1, <1>2 DEF TrailInv
  <1>6. WritesAreJustified'
    <2> SUFFICES ASSUME NEW w \in writes
                 PROVE  /\ w.at \in 0..Len(log')
                        /\ ~Replay'[w.at].config.paused
                        /\ Replay'[w.at].config.pending = NoKey
                        /\ Replay'[w.at].grants[w.actor].active
                        /\ w.role \in Replay'[w.at].grants[w.actor].bits
      BY DEF WritesAreJustified
    <2>1. /\ w.at \in 0..Len(log)
          /\ ~Replay[w.at].config.paused
          /\ Replay[w.at].config.pending = NoKey
          /\ Replay[w.at].grants[w.actor].active
          /\ w.role \in Replay[w.at].grants[w.actor].bits
      BY DEF TrailInv, WritesAreJustified
    <2>2. Replay'[w.at] = Replay[w.at] /\ w.at \in 0..Len(log')
      BY <1>1, <1>2, <2>1
    <2> QED  BY <2>1, <2>2
  <1> QED  BY <1>2, <1>3, <1>4, <1>5, <1>6 DEF TrailInv

\* Each of the six instructions emits the event that says what it did.
LEMMA LandKeepsTrail ==
    ASSUME Inv, TrailInv, NEW m \in wire, Land(m)
    PROVE  TrailInv'
  <1>1. /\ m \in MessageType
        /\ config \in ConfigType /\ grants \in [Subjects -> GrantType]
        /\ config.revision \in Nat
    BY DEF Inv, TypeOK, ConfigType
  <1>2. m.signer \in Keys \cup {NoKey} /\ m.key \in Keys \cup {NoKey} /\ m.on \in BOOLEAN
        /\ m.bits \in SUBSET Roles /\ m.subject \in Subjects
    BY <1>1 DEF MessageType
  <1> DEFINE known == [config |-> config, grants |-> grants]
             event(r) == [message |-> m, revision |-> r]
             after(a, p, z) == [authority |-> a, pending |-> p, paused |-> z,
                                revision |-> config.revision + 1]
  <1>3. ASSUME NEW a \in Keys \cup {NoKey}, NEW p \in Keys \cup {NoKey}, NEW z \in BOOLEAN,
               config' = after(a, p, z)
        PROVE  config' \in ConfigType /\ config'.revision = config.revision + 1
    BY <1>1, <1>3 DEF ConfigType
  <1>4. CASE InitializeProtocol(m)
    <2>1. /\ m.kind = "initialize" /\ config = NoConfig /\ Emit(m)
          /\ config' = [authority |-> Genesis, pending |-> NoKey, paused |-> TRUE, revision |-> 1]
          /\ UNCHANGED <<grants, wire, writes>>
      BY <1>4 DEF InitializeProtocol, MayInitialize
    <2>2. config' = after(Genesis, NoKey, TRUE)
      BY <2>1 DEF NoConfig
    <2>3. AfterEvent(known, event(config'.revision)) = [config |-> config', grants |-> grants']
      BY <2>1 DEF AfterEvent, NoConfig
    <2> QED  BY <1>1, <1>3, <2>1, <2>2, <2>3, ProtocolAdminAssumption, EmissionKeepsTrail
  <1>5. CASE SetRole(m)
    <2>1. /\ m.kind = "set_role" /\ Emit(m)
          /\ config' = [config EXCEPT !.revision = @ + 1]
          /\ grants' = [grants EXCEPT ![m.subject] =
                          [bits |-> m.bits, active |-> m.on, revision |-> @.revision + 1]]
          /\ m.grant = grants[m.subject].revision
          /\ UNCHANGED <<wire, writes>>
      BY <1>5 DEF SetRole, MaySetRole, GrantMissing, GrantExisting
    <2>2. config' = after(config.authority, config.pending, config.paused)
      BY <1>1, <2>1 DEF ConfigType
    <2>3. AfterEvent(known, event(config'.revision)) = [config |-> config', grants |-> grants']
      <3>1. config' = [config EXCEPT !.revision = config'.revision]
        BY <1>1, <2>1 DEF ConfigType
      <3>2. grants' = [grants EXCEPT ![m.subject] =
                         [bits |-> m.bits, active |-> m.on, revision |-> m.grant + 1]]
        BY <2>1
      <3> QED  BY <2>1, <3>1, <3>2 DEF AfterEvent
    <2>4. /\ config.authority \in Keys \cup {NoKey} /\ config.pending \in Keys \cup {NoKey}
          /\ config.paused \in BOOLEAN
      BY <1>1 DEF ConfigType
    <2> QED  BY <1>1, <1>3, <2>1, <2>2, <2>3, <2>4, EmissionKeepsTrail
  <1>6. CASE SetPause(m)
    <2>1. /\ m.kind = "set_pause" /\ Emit(m)
          /\ config' = [config EXCEPT !.paused = m.on, !.revision = @ + 1]
          /\ UNCHANGED <<grants, wire, writes>>
      BY <1>6 DEF SetPause, MaySetPause
    <2>2. config' = after(config.authority, config.pending, m.on)
      BY <1>1, <2>1 DEF ConfigType
    <2>3. AfterEvent(known, event(config'.revision)) = [config |-> config', grants |-> grants']
      BY <1>1, <2>1, <2>2 DEF AfterEvent, ConfigType
    <2>4. config.authority \in Keys \cup {NoKey} /\ config.pending \in Keys \cup {NoKey}
      BY <1>1 DEF ConfigType
    <2> QED  BY <1>1, <1>2, <1>3, <2>1, <2>2, <2>3, <2>4, EmissionKeepsTrail
  <1>7. CASE ProposeAuthority(m)
    <2>1. /\ m.kind = "propose" /\ Emit(m)
          /\ config' = [config EXCEPT !.pending = m.key, !.revision = @ + 1]
          /\ UNCHANGED <<grants, wire, writes>>
      BY <1>7 DEF ProposeAuthority, MayPropose
    <2>2. config' = after(config.authority, m.key, config.paused)
      BY <1>1, <2>1 DEF ConfigType
    <2>3. AfterEvent(known, event(config'.revision)) = [config |-> config', grants |-> grants']
      BY <1>1, <2>1, <2>2 DEF AfterEvent, ConfigType
    <2>4. config.authority \in Keys \cup {NoKey} /\ config.paused \in BOOLEAN
      BY <1>1 DEF ConfigType
    <2> QED  BY <1>1, <1>2, <1>3, <2>1, <2>2, <2>3, <2>4, EmissionKeepsTrail
  <1>8. CASE CancelAuthorityProposal(m)
    <2>1. /\ m.kind = "cancel" /\ Emit(m)
          /\ config' = [config EXCEPT !.pending = NoKey, !.revision = @ + 1]
          /\ UNCHANGED <<grants, wire, writes>>
      BY <1>8 DEF CancelAuthorityProposal, MayCancel
    <2>2. config' = after(config.authority, NoKey, config.paused)
      BY <1>1, <2>1 DEF ConfigType
    <2>3. AfterEvent(known, event(config'.revision)) = [config |-> config', grants |-> grants']
      BY <1>1, <2>1, <2>2 DEF AfterEvent, ConfigType
    <2>4. config.authority \in Keys \cup {NoKey} /\ config.paused \in BOOLEAN
      BY <1>1 DEF ConfigType
    <2> QED  BY <1>1, <1>3, <2>1, <2>2, <2>3, <2>4, EmissionKeepsTrail
  <1>9. CASE AcceptAuthority(m)
    <2>1. /\ m.kind = "accept" /\ Emit(m)
          /\ config' = [config EXCEPT !.authority = m.signer, !.pending = NoKey,
                                      !.revision = @ + 1]
          /\ UNCHANGED <<grants, wire, writes>>
      BY <1>9 DEF AcceptAuthority, MayAccept
    <2>2. config' = after(m.signer, NoKey, config.paused)
      BY <1>1, <2>1 DEF ConfigType
    <2>3. AfterEvent(known, event(config'.revision)) = [config |-> config', grants |-> grants']
      BY <1>1, <2>1, <2>2 DEF AfterEvent, ConfigType
    <2>4. config.paused \in BOOLEAN
      BY <1>1 DEF ConfigType
    <2> QED  BY <1>1, <1>2, <1>3, <2>1, <2>2, <2>3, <2>4, EmissionKeepsTrail
  <1> QED  BY <1>4, <1>5, <1>6, <1>7, <1>8, <1>9 DEF Land

\* Without an event the replay stays what it is.
LEMMA ReplayStays == log' = log => Replay' = Replay
  BY ReplayIsChosen

\* Every step keeps the trail: a landing extends it, an issue write is made
\* on what its last event says, and nothing else touches either.
LEMMA NextKeepsTrail == Inv /\ TrailInv /\ [Next]_vars => TrailInv'
  <1> SUFFICES ASSUME Inv, TrailInv, [Next]_vars PROVE TrailInv'
    OBVIOUS
  <1>1. CASE \E m \in wire : Land(m)
    BY <1>1, LandKeepsTrail
  <1>2. CASE \E actor \in Subjects, role \in Roles : WriteIssue(actor, role)
    <2>1. PICK actor \in Subjects, role \in Roles : WriteIssue(actor, role)
      BY <1>2
    <2>2. /\ writes' = writes \cup {[actor |-> actor, role |-> role, at |-> config.revision]}
          /\ UNCHANGED <<config, grants, wire, log, boot>>
          /\ ~config.paused /\ grants[actor].active /\ role \in grants[actor].bits
      BY <2>1 DEF WriteIssue, RoleHeld
    <2>3. Replay' = Replay
      BY <2>2, ReplayStays
    <2>4. config.pending = NoKey /\ config.revision \in Nat
      BY <2>2 DEF Inv, NoTransferWhileOpen, TypeOK, ConfigType
    <2>5. config.revision = Len(log) /\ Replay[config.revision] = [config |-> config, grants |-> grants]
      BY DEF TrailInv
    <2>6. WritesAreJustified'
      <3> SUFFICES ASSUME NEW w \in writes'
                   PROVE  /\ w.at \in 0..Len(log)
                          /\ ~Replay[w.at].config.paused
                          /\ Replay[w.at].config.pending = NoKey
                          /\ Replay[w.at].grants[w.actor].active
                          /\ w.role \in Replay[w.at].grants[w.actor].bits
        BY <2>2, <2>3 DEF WritesAreJustified
      <3>1. CASE w \in writes
        BY <3>1 DEF TrailInv, WritesAreJustified
      <3>2. CASE w = [actor |-> actor, role |-> role, at |-> config.revision]
        <4>1. w.at = config.revision /\ w.actor = actor /\ w.role = role
          BY <3>2
        <4>2. w.at \in 0..Len(log)
          BY <2>4, <2>5, <4>1
        <4> QED  BY <2>2, <2>4, <2>5, <4>1, <4>2
      <3> QED  BY <2>2, <3>1, <3>2
    <2> QED  BY <2>2, <2>3, <2>6 DEF TrailInv
  <1>3. ASSUME UNCHANGED <<config, grants, log, writes>>  PROVE TrailInv'
    <2>1. Replay' = Replay
      BY <1>3, ReplayStays
    <2> QED  BY <1>3, <2>1 DEF TrailInv, WritesAreJustified
  <1>4. CASE \/ \E k \in Keys, s \in Subjects, bits \in SUBSET Roles, on \in BOOLEAN :
                   SignRole(k, s, bits, on)
             \/ \E k \in Keys, on \in BOOLEAN : SignPause(k, on)
             \/ \E k \in Keys, kind \in {"propose", "cancel", "accept"},
                   new \in Keys \cup {NoKey} : SignTransfer(k, kind, new)
    <2>1. UNCHANGED <<config, grants, log, writes>>
      BY <1>4, Zenon DEF SignRole, SignPause, SignTransfer, Sign
    <2> QED  BY <1>3, <2>1
  <1>5. CASE BootStep \/ BootDies \/ BootRestarts
    <2>1. UNCHANGED <<config, grants, log, writes>>
      BY <1>5, Zenon DEF BootStep, BootReadsConfig, BootReadsGrant, BootPauses, BootGrants,
         BootUnpauses, BootGoesOn, BootChecks, BootRefused, BootDies, BootRestarts, BootSends
    <2> QED  BY <1>3, <2>1
  <1>6. CASE UNCHANGED vars
    BY <1>3, <1>6 DEF vars
  <1> QED  BY <1>1, <1>2, <1>4, <1>5, <1>6 DEF Next

\* A fresh program has emitted nothing.
LEMMA InitEstablishesTrail == Init => TrailInv
  <1> SUFFICES ASSUME Init PROVE TrailInv
    OBVIOUS
  <1>1. log = << >> /\ Len(log) = 0 /\ DOMAIN log = {} /\ writes = {}
    BY DEF Init
  <1>2. config.revision = 0 /\ [config |-> config, grants |-> grants] = NothingKnown
    BY DEF Init, NoConfig, NothingKnown
  <1> DEFINE r == [n \in 0..0 |-> NothingKnown]
  <1>3. Replays(r, log)
    <2>1. \A n \in 0..Len(log) : n = 0
      BY <1>1
    <2> QED  BY <1>1, <2>1 DEF Replays
  <1>4. Replays(Replay, log)
    BY <1>3, ReplayIsSolved
  <1>5. Replay[Len(log)] = NothingKnown
    BY <1>1, <1>4 DEF Replays
  <1>6. WritesAreJustified
    BY <1>1 DEF WritesAreJustified
  <1> QED  BY <1>1, <1>2, <1>4, <1>5, <1>6 DEF TrailInv

-----------------------------------------------------------------------------
(* The theorems.                                                           *)

\* The accounts, the messages under way, the events and the script keep
\* their types.
THEOREM AdminTypeCorrect == Spec => []TypeOK
  <1>1. Inv => TypeOK
    BY DEF Inv
  <1> QED  BY <1>1, InitEstablishesInv, NextKeepsInv, PTL DEF Spec

\* set_pause and propose_authority exclude each other's state: issue writes
\* and a pending transfer of authority never coexist.
THEOREM OpenMeansSettled == Spec => []NoTransferWhileOpen
  <1>1. Inv => NoTransferWhileOpen
    BY DEF Inv
  <1> QED  BY <1>1, InitEstablishesInv, NextKeepsInv, PTL DEF Spec

\* However many messages are signed, delayed or submitted again, validate_admin
\* lets each of them take effect at most once.
THEOREM MessagesLandAtMostOnce == Spec => []MessagesLandOnce
  <1>1. Inv => MessagesLandOnce
    BY DEF Inv
  <1> QED  BY <1>1, InitEstablishesInv, NextKeepsInv, PTL DEF Spec

\* Every accepted transfer answers the last proposal, with nothing but role
\* changes since.
THEOREM TransfersFollowProposals == Spec => []TransfersAreProposed
  <1>1. Inv => TransfersAreProposed
    BY DEF Inv
  <1> QED  BY <1>1, InitEstablishesInv, NextKeepsInv, PTL DEF Spec

\* Whatever lands, late or again: who reads the emitted events alone knows the
\* accounts, revision by revision, and finds every issue write that
\* validate_protocol_and_role let through justified by the events before it.
THEOREM EventsTellAll == Spec => []TrailJustifiesWrites
  <1>1. TrailInv => TrailJustifiesWrites
    BY DEF TrailInv, TrailJustifiesWrites, WritesAreJustified
  <1> QED
    BY <1>1, InitEstablishesInv, InitEstablishesTrail, NextKeepsInv, NextKeepsTrail, PTL DEF Spec

-----------------------------------------------------------------------------
(* The first program.  Everything it promises is about one issue: its      *)
(* account, its StatusUpdate accounts and its verifications; a step        *)
(* touches one issue, and no other knows of it.                            *)

\* What is hashed into a timeline.
Entries ==
    [kind : {"issue"}, id : Nat, by : Wallets]
        \cup [kind : {"status"}, seq : Nat, by : Wallets, old : Statuses, new : Statuses]

\* The accounts of an issue and a signed update.
IssueType ==
    [ reporter : Wallets \cup {NoWallet}, status : Statuses, verifications : Nat,
      updates : 0..MaxUpdates, timeline : Seq(Entries), resolution : Nat ]

UpdateType ==
    [ by : Wallets, old : Statuses, new : Statuses, seen : Statuses,
      previous : Seq(Entries), next : Seq(Entries) ]

SignedType ==
    [ issue : 1..MaxIssues, by : Wallets, seq : 1..MaxUpdates, new : Statuses,
      seen : Statuses ]

\* Who holds a verification account for an issue.
Verifiers(i) == {w \in Wallets : <<i, w>> \in verification}

\* An account that does not exist has no history; one that does has a creator
\* and a first hash.
HasHistory(i) ==
    IF issue[i].reporter = NoWallet
    THEN issue[i] = NoIssue /\ Verifiers(i) = {}
    ELSE Len(issue[i].timeline) >= 1

\* AccountsAgree and UpdatesAreInOrder, one issue at a time.
Counted(i) ==
    /\ issue[i].verifications = Cardinality(Verifiers(i))
    /\ issue[i].reporter \notin Verifiers(i)

Explained(i) ==
    \/ issue[i].status = LastStatus(i)
    \/ /\ issue[i].status = "verified"
       /\ LastStatus(i) = "submitted"
       /\ issue[i].verifications >= 2

\* The hashes of the updates chain, and the last is the issue's own.
Chained(i) ==
    /\ \A n \in 1..Len(statusUpdate[i]) :
          /\ statusUpdate[i][n].previous =
                 IF n = 1 THEN <<issue[i].timeline[1]>> ELSE statusUpdate[i][n - 1].next
          /\ ClosedStatus(statusUpdate[i][n].new) => n = Len(statusUpdate[i])
    /\ issue[i].reporter # NoWallet =>
          issue[i].timeline = IF statusUpdate[i] = << >>
                              THEN <<issue[i].timeline[1]>>
                              ELSE statusUpdate[i][Len(statusUpdate[i])].next

\* The status a steward saw is the one its update finds, but for verifications.
Follows(seen, found) == found = seen \/ (seen = "submitted" /\ found = "verified")

AsSigned(i) ==
    \A n \in 1..Len(statusUpdate[i]) :
        Follows(statusUpdate[i][n].seen, statusUpdate[i][n].old)

IssueInv(i) ==
    /\ issue[i] \in IssueType
    /\ statusUpdate[i] \in Seq(UpdateType)
    /\ Len(statusUpdate[i]) = issue[i].updates
    /\ HasHistory(i) /\ Counted(i) /\ Explained(i) /\ Chained(i) /\ AsSigned(i)

\* A signed update is for an issue that exists, numbered at most one ahead of
\* it; while it is, the issue's status is the one its steward saw.
SignedInv(u) ==
    /\ issue[u.issue].reporter # NoWallet
    /\ u.seq <= issue[u.issue].updates + 1
    /\ u.seq = issue[u.issue].updates + 1 => Follows(u.seen, issue[u.issue].status)

\* The inductive invariant.
V1Inv ==
    /\ registry \in [authority : Wallets \cup {NoWallet}, count : 0..MaxIssues]
    /\ steward \in [Wallets -> {"none", "active", "revoked"}]
    /\ DOMAIN issue = 1..MaxIssues /\ DOMAIN statusUpdate = 1..MaxIssues
    /\ verification \subseteq (1..MaxIssues) \X Wallets
    /\ signed \subseteq SignedType
    /\ \A i \in 1..MaxIssues : IssueInv(i)
    /\ \A u \in signed : SignedInv(u)

\* What the invariant says of an issue and of a signed update depends on the
\* accounts of that issue alone.
LEMMA IssueFrame ==
    ASSUME NEW i, IssueInv(i), issue'[i] = issue[i], statusUpdate'[i] = statusUpdate[i],
           Verifiers(i)' = Verifiers(i)
    PROVE  IssueInv(i)'
  BY DEF IssueInv, HasHistory, Counted, Explained, LastStatus, Chained, AsSigned

\* What the invariant says of a signed update depends on its issue alone.
LEMMA SignedFrame ==
    ASSUME NEW u, SignedInv(u), issue'[u.issue] = issue[u.issue]
    PROVE  SignedInv(u)'
  BY DEF SignedInv

\* At most everybody verifies.
LEMMA VerifiersFinite ==
    ASSUME NEW i
    PROVE  /\ IsFiniteSet(Verifiers(i)) /\ Cardinality(Verifiers(i)) \in Nat
           /\ Cardinality(Verifiers(i)) <= Cardinality(Wallets)
           /\ Cardinality(Wallets) \in Nat
  <1>1. Verifiers(i) \subseteq Wallets
    BY DEF Verifiers
  <1> QED  BY <1>1, SignalProgramV1Assumption, FS_Subset, FS_CardinalityType

\* The invariant gives the two properties.
LEMMA V1InvSays == V1Inv => AccountsAgree /\ UpdatesAreInOrder
  <1> SUFFICES ASSUME V1Inv PROVE AccountsAgree /\ UpdatesAreInOrder
    OBVIOUS
  <1>1. V1TypeOK
    <2>1. \A i \in 1..MaxIssues :
             /\ issue[i].reporter \in Wallets \cup {NoWallet}
             /\ issue[i].status \in Statuses
             /\ issue[i].updates \in 0..MaxUpdates
             /\ issue[i].verifications \in 0..Cardinality(Wallets)
      <3> TAKE i \in 1..MaxIssues
      <3>1. issue[i] \in IssueType /\ Counted(i)
        BY DEF V1Inv, IssueInv
      <3>2. issue[i].verifications \in 0..Cardinality(Wallets)
        BY <3>1, VerifiersFinite DEF Counted
      <3> QED  BY <3>1, <3>2 DEF IssueType
    <2> QED  BY <2>1 DEF V1Inv, V1TypeOK
  <1>2. CountIsVerifiers
    BY DEF V1Inv, IssueInv, Counted, CountIsVerifiers, Verifiers
  <1>3. StatusIsExplained
    BY DEF V1Inv, IssueInv, Explained, StatusIsExplained
  <1>4. \A i \in 1..MaxIssues : DOMAIN statusUpdate[i] = 1..Len(statusUpdate[i])
    BY DEF V1Inv, IssueInv
  <1>5. UpdatesChain
    BY <1>4 DEF V1Inv, IssueInv, Chained, UpdatesChain
  <1>6. UpdatesLandAsSigned
    BY <1>4 DEF V1Inv, IssueInv, AsSigned, Follows, UpdatesLandAsSigned
  <1> QED  BY <1>1, <1>2, <1>3, <1>5, <1>6 DEF AccountsAgree, UpdatesAreInOrder

\* Nothing exists in the beginning.
LEMMA InitEstablishesV1Inv == V1Init => V1Inv
  <1> SUFFICES ASSUME V1Init PROVE V1Inv
    OBVIOUS
  <1>1. << >> \in Seq(Entries) /\ << >> \in Seq(UpdateType) /\ Len(<< >>) = 0
    OBVIOUS
  <1>2. NoIssue \in IssueType /\ NoIssue.updates = 0 /\ NoIssue.verifications = 0
        /\ NoIssue.reporter = NoWallet /\ NoIssue.status = "submitted"
    BY <1>1, SignalProgramV1Assumption DEF NoIssue, IssueType, Statuses
  <1>3. ASSUME NEW i \in 1..MaxIssues PROVE IssueInv(i)
    <2>1. issue[i] = NoIssue /\ statusUpdate[i] = << >> /\ Verifiers(i) = {}
      BY DEF V1Init, Verifiers
    <2>2. HasHistory(i) /\ Explained(i)
      BY <1>2, <2>1 DEF HasHistory, Explained, LastStatus
    <2>3. Counted(i)
      BY <1>2, <2>1, FS_EmptySet DEF Counted
    <2>4. Chained(i) /\ AsSigned(i)
      <3>1. 1..Len(statusUpdate[i]) = {}
        BY <2>1
      <3> QED  BY <1>2, <2>1, <3>1 DEF Chained, AsSigned
    <2> QED  BY <1>1, <1>2, <2>1, <2>2, <2>3, <2>4 DEF IssueInv
  <1> QED  BY <1>3, SignalProgramV1Assumption DEF V1Init, V1Inv

\* create_issue: a new account under the next id.
LEMMA CreateKeepsV1Inv ==
    ASSUME V1Inv, NEW w \in Wallets, CreateIssue(w)
    PROVE  V1Inv'
  <1>0. PICK id \in 1..MaxIssues : id = registry.count + 1
    BY DEF CreateIssue
  <1> DEFINE entry == [kind |-> "issue", id |-> id, by |-> w]
             new == [reporter |-> w, status |-> "submitted", verifications |-> 0,
                     updates |-> 0, timeline |-> <<entry>>, resolution |-> 0]
  <1>1. /\ id \in 1..MaxIssues /\ issue[id] = NoIssue
        /\ issue' = [issue EXCEPT ![id] = new]
        /\ registry' = [registry EXCEPT !.count = id]
        /\ UNCHANGED <<steward, verification, statusUpdate, signed>>
    BY <1>0 DEF CreateIssue, Exists
  <1>2. entry \in Entries
    BY <1>1, SignalProgramV1Assumption DEF Entries
  <1> HIDE DEF entry
  <1>3. new \in IssueType
    BY <1>2, SignalProgramV1Assumption DEF IssueType, Statuses
  <1>4. w # NoWallet /\ NoIssue.reporter = NoWallet /\ NoIssue.updates = 0
        /\ NoIssue.verifications = 0
    BY SignalProgramV1Assumption DEF NoIssue
  <1>5. /\ new.reporter = w /\ new.status = "submitted" /\ new.verifications = 0
        /\ new.updates = 0 /\ new.timeline = <<entry>> /\ Len(new.timeline) = 1
        /\ new.timeline[1] = entry
    OBVIOUS
  <1> HIDE DEF new
  <1>6. /\ issue'[id] = new /\ \A i \in 1..MaxIssues : i # id => issue'[i] = issue[i]
        /\ DOMAIN issue' = 1..MaxIssues
    BY <1>1 DEF V1Inv
  <1>7. \A i : Verifiers(i)' = Verifiers(i)
    BY <1>1 DEF Verifiers
  <1>8. IssueInv(id)'
    <2>1. IssueInv(id)
      BY <1>1 DEF V1Inv
    <2>2. /\ statusUpdate[id] \in Seq(UpdateType) /\ Len(statusUpdate[id]) = 0
          /\ Verifiers(id) = {}
      BY <1>1, <1>4, <2>1 DEF IssueInv, HasHistory
    <2>3. statusUpdate[id] = << >> /\ 1..Len(statusUpdate[id]) = {}
      BY <2>2
    <2>4. HasHistory(id)' /\ Explained(id)'
      <3>1. /\ issue'[id].reporter # NoWallet /\ Len(issue'[id].timeline) >= 1
            /\ issue'[id].status = "submitted"
        <4>1. /\ new.reporter # NoWallet /\ Len(new.timeline) >= 1
              /\ new.status = "submitted"
          BY <1>4, <1>5
        <4> QED  BY <1>6, <4>1, Zenon
      <3>2. LastStatus(id)' = "submitted"
        BY <1>1, <2>3 DEF LastStatus
      <3>3. HasHistory(id)'
        BY <3>1 DEF HasHistory
      <3>4. Explained(id)'
        BY <3>1, <3>2 DEF Explained
      <3> QED  BY <3>3, <3>4
    <2>5. Counted(id)'
      BY <1>5, <1>6, <1>7, <2>2, FS_EmptySet DEF Counted
    <2>6. Chained(id)' /\ AsSigned(id)'
      BY <1>1, <1>5, <1>6, <2>3 DEF Chained, AsSigned
    <2> QED  BY <1>1, <1>3, <1>5, <1>6, <2>2, <2>4, <2>5, <2>6 DEF IssueInv
  <1>9. ASSUME NEW i \in 1..MaxIssues, i # id PROVE IssueInv(i)'
    BY <1>1, <1>6, <1>7, <1>9, IssueFrame DEF V1Inv
  <1>10. ASSUME NEW u \in signed PROVE SignedInv(u)'
    <2>1. SignedInv(u) /\ u.issue \in 1..MaxIssues
      BY DEF V1Inv, SignedType
    <2>2. u.issue # id
      BY <1>1, <1>4, <2>1 DEF SignedInv
    <2> QED  BY <1>6, <2>1, <2>2, SignedFrame
  <1>11. registry' \in [authority : Wallets \cup {NoWallet}, count : 0..MaxIssues]
    BY <1>1, SignalProgramV1Assumption DEF V1Inv
  <1> QED  BY <1>1, <1>6, <1>8, <1>9, <1>10, <1>11 DEF V1Inv

\* verify_issue: one more verifier, and the second moves a submitted issue.
LEMMA VerifyKeepsV1Inv ==
    ASSUME V1Inv, NEW i \in 1..MaxIssues, NEW w \in Wallets, VerifyIssue(i, w)
    PROVE  V1Inv'
  <1> DEFINE old == issue[i]
             count == old.verifications + 1
             status == AfterVerification(old.status, count)
             new == [reporter |-> old.reporter, status |-> status, verifications |-> count,
                     updates |-> old.updates, timeline |-> old.timeline,
                     resolution |-> old.resolution]
  <1>1. /\ old # NoIssue /\ old.reporter # w /\ <<i, w>> \notin verification
        /\ issue' = [issue EXCEPT ![i].verifications = count,
                                  ![i].status = AfterVerification(@, count)]
        /\ verification' = verification \cup {<<i, w>>}
        /\ UNCHANGED <<registry, steward, statusUpdate, signed>>
    BY DEF VerifyIssue, MayVerify, Exists
  <1>2. IssueInv(i) /\ old \in IssueType /\ DOMAIN issue = 1..MaxIssues
    BY DEF V1Inv, IssueInv
  <1>3. status \in Statuses /\ count \in Nat
        /\ (status # old.status => old.status = "submitted" /\ status = "verified" /\ count >= 2)
    BY <1>2 DEF AfterVerification, IssueType, Statuses
  <1>4. new \in IssueType
    BY <1>2, <1>3 DEF IssueType
  <1>5. /\ new.reporter = old.reporter /\ new.status = status /\ new.verifications = count
        /\ new.updates = old.updates /\ new.timeline = old.timeline
    OBVIOUS
  <1>6. /\ issue'[i] = new /\ \A j \in 1..MaxIssues : j # i => issue'[j] = issue[j]
        /\ DOMAIN issue' = 1..MaxIssues
    BY <1>1, <1>2 DEF IssueType
  <1> HIDE DEF new, status
  <1>7. Verifiers(i)' = Verifiers(i) \cup {w} /\ w \notin Verifiers(i)
        /\ \A j \in 1..MaxIssues : j # i => Verifiers(j)' = Verifiers(j)
    BY <1>1 DEF Verifiers
  <1>8. IssueInv(i)'
    <2>1. old.reporter # NoWallet
      BY <1>1, <1>2 DEF IssueInv, HasHistory
    <2>2. HasHistory(i)'
      BY <1>2, <1>5, <1>6, <2>1 DEF IssueInv, HasHistory
    <2>3. Counted(i)'
      <3>1. Cardinality(Verifiers(i) \cup {w}) = Cardinality(Verifiers(i)) + 1
        BY <1>7, VerifiersFinite, FS_AddElement
      <3> QED  BY <1>1, <1>2, <1>5, <1>6, <1>7, <3>1 DEF IssueInv, Counted
    <2>4. Explained(i)'
      <3>1. LastStatus(i)' = LastStatus(i)
        BY <1>1 DEF LastStatus
      <3>2. old.verifications \in Nat /\ Explained(i)
        BY <1>2 DEF IssueInv, IssueType
      <3>3. CASE status = old.status
        BY <1>5, <1>6, <3>1, <3>2, <3>3 DEF Explained
      <3>4. CASE status # old.status
        BY <1>3, <1>5, <1>6, <3>1, <3>2, <3>4 DEF Explained
      <3> QED  BY <3>3, <3>4
    <2>5. Chained(i)' /\ AsSigned(i)'
      BY <1>1, <1>2, <1>5, <1>6 DEF IssueInv, Chained, AsSigned
    <2> QED  BY <1>1, <1>2, <1>4, <1>5, <1>6, <2>2, <2>3, <2>4, <2>5 DEF IssueInv
  <1>9. ASSUME NEW j \in 1..MaxIssues, j # i PROVE IssueInv(j)'
    BY <1>1, <1>6, <1>7, <1>9, IssueFrame DEF V1Inv
  <1>10. ASSUME NEW u \in signed PROVE SignedInv(u)'
    <2>1. SignedInv(u) /\ u.issue \in 1..MaxIssues
      BY DEF V1Inv, SignedType
    <2>2. CASE u.issue = i
      <3>1. Follows(u.seen, old.status) => Follows(u.seen, status)
        BY <1>3 DEF Follows
      <3> QED  BY <1>5, <1>6, <2>1, <2>2, <3>1 DEF SignedInv
    <2>3. CASE u.issue # i
      BY <1>6, <2>1, <2>3, SignedFrame
    <2> QED  BY <2>2, <2>3
  <1>11. verification' \subseteq (1..MaxIssues) \X Wallets
    BY <1>1 DEF V1Inv
  <1> QED  BY <1>1, <1>6, <1>8, <1>9, <1>10, <1>11 DEF V1Inv

\* A steward signs for the status and the number it reads.
LEMMA SignKeepsV1Inv ==
    ASSUME V1Inv, NEW i \in 1..MaxIssues, NEW w \in Wallets, NEW new \in Statuses,
           SignUpdate(i, w, new)
    PROVE  V1Inv'
  <1> DEFINE u == [issue |-> i, by |-> w, seq |-> issue[i].updates + 1,
                   new |-> new, seen |-> issue[i].status]
  <1>1. /\ issue[i] # NoIssue /\ issue[i].updates < MaxUpdates
        /\ signed' = signed \cup {u}
        /\ UNCHANGED <<registry, steward, issue, verification, statusUpdate>>
    BY DEF SignUpdate, Exists
  <1>2. IssueInv(i) /\ issue[i] \in IssueType
    BY DEF V1Inv, IssueInv
  <1>3. u \in SignedType
    BY <1>1, <1>2, SignalProgramV1Assumption DEF IssueType, SignedType
  <1>4. /\ u.issue = i /\ u.seq = issue[i].updates + 1 /\ u.seen = issue[i].status
    OBVIOUS
  <1>5. SignedInv(u)
    BY <1>1, <1>2, <1>4 DEF SignedInv, Follows, IssueInv, HasHistory, IssueType
  <1> HIDE DEF u
  <1>6. \A j \in 1..MaxIssues : IssueInv(j)'
    <2>1. \A j : Verifiers(j)' = Verifiers(j)
      BY <1>1 DEF Verifiers
    <2> QED  BY <1>1, <2>1, IssueFrame DEF V1Inv
  <1>7. \A v \in signed' : SignedInv(v)'
    <2>1. \A v \in signed' : SignedInv(v)
      BY <1>1, <1>5 DEF V1Inv
    <2> QED  BY <1>1, <2>1, SignedFrame
  <1> QED  BY <1>1, <1>3, <1>6, <1>7 DEF V1Inv

\* update_status: what is signed lands once, on the status its steward saw,
\* behind the update before it.
LEMMA UpdateKeepsV1Inv ==
    ASSUME V1Inv, NEW u \in signed, UpdateStatus(u)
    PROVE  V1Inv'
  <1> DEFINE i == u.issue
             old == issue[i]
             N == Len(statusUpdate[i])
             line == Timeline(u, old.status)
             entry == [kind |-> "status", seq |-> old.updates + 1, by |-> u.by,
                       old |-> old.status, new |-> u.new]
             account == [by |-> u.by, old |-> old.status, new |-> u.new, seen |-> u.seen,
                         previous |-> old.timeline, next |-> line]
             new == [reporter |-> old.reporter, status |-> u.new,
                     verifications |-> old.verifications, updates |-> old.updates + 1,
                     timeline |-> line, resolution |-> Resolution(u)]
  <1>1. /\ ValidStatusTransition(old.status, u.new)
        /\ u.seq = old.updates + 1
        /\ issue' = [issue EXCEPT ![i].status = u.new, ![i].updates = @ + 1,
                                  ![i].timeline = line, ![i].resolution = Resolution(u)]
        /\ statusUpdate' = [statusUpdate EXCEPT ![i] = Append(@, account)]
        /\ UNCHANGED <<registry, steward, verification, signed>>
    BY DEF UpdateStatus, MayUpdate
  <1>2. /\ u \in SignedType /\ SignedInv(u) /\ i \in 1..MaxIssues
        /\ u.by \in Wallets /\ u.new \in Statuses /\ u.seen \in Statuses
        /\ u.seq \in 1..MaxUpdates
    BY DEF V1Inv, SignedType
  <1>3. /\ IssueInv(i) /\ old \in IssueType /\ DOMAIN issue = 1..MaxIssues
        /\ DOMAIN statusUpdate = 1..MaxIssues /\ statusUpdate[i] \in Seq(UpdateType)
        /\ N = old.updates /\ N \in Nat
    BY <1>2 DEF V1Inv, IssueInv, IssueType
  <1>4. /\ old.reporter # NoWallet /\ Len(old.timeline) >= 1 /\ old.timeline \in Seq(Entries)
    BY <1>2, <1>3 DEF SignedInv, IssueInv, HasHistory, IssueType
  <1>5. line = Append(old.timeline, entry)
    BY DEF Timeline
  <1>6. entry \in Entries
    BY <1>2, <1>3 DEF Entries, IssueType
  <1> HIDE DEF entry
  <1>7. line \in Seq(Entries) /\ Len(line) >= 1 /\ line[1] = old.timeline[1]
    BY <1>4, <1>5, <1>6
  <1> HIDE DEF line
  <1>8. account \in UpdateType
    BY <1>2, <1>3, <1>4, <1>7 DEF UpdateType, IssueType
  <1>9. new \in IssueType
    <2>1. Resolution(u) \in Nat
      BY <1>2, <1>3 DEF Resolution, IssueType
    <2>2. old.updates + 1 \in 0..MaxUpdates
      BY <1>1, <1>2
    <2> QED  BY <1>2, <1>3, <1>7, <2>1, <2>2 DEF IssueType
  <1>10. /\ new.reporter = old.reporter /\ new.status = u.new
         /\ new.verifications = old.verifications /\ new.updates = old.updates + 1
         /\ new.timeline = line
         /\ account.previous = old.timeline /\ account.next = line /\ account.new = u.new
         /\ account.old = old.status /\ account.seen = u.seen
    OBVIOUS
  <1>11. /\ issue'[i] = new /\ \A j \in 1..MaxIssues : j # i => issue'[j] = issue[j]
         /\ DOMAIN issue' = 1..MaxIssues
    BY <1>1, <1>2, <1>3 DEF IssueType
  <1> HIDE DEF account, new
  <1>12. /\ statusUpdate'[i] = Append(statusUpdate[i], account)
         /\ \A j \in 1..MaxIssues : j # i => statusUpdate'[j] = statusUpdate[j]
         /\ DOMAIN statusUpdate' = 1..MaxIssues
    BY <1>1, <1>2, <1>3
  <1>13. /\ statusUpdate'[i] \in Seq(UpdateType) /\ Len(statusUpdate'[i]) = N + 1
         /\ statusUpdate'[i] # << >>
         /\ \A n \in 1..N : statusUpdate'[i][n] = statusUpdate[i][n]
         /\ statusUpdate'[i][N + 1] = account
    BY <1>3, <1>8, <1>12
  <1>14. \A j : Verifiers(j)' = Verifiers(j)
    BY <1>1 DEF Verifiers
  <1> HIDE DEF N
  <1>15. LastStatus(i)' = u.new
    BY <1>10, <1>13 DEF LastStatus
  <1>16. HasHistory(i)' /\ Counted(i)' /\ Explained(i)'
    <2>1. HasHistory(i)'
      BY <1>4, <1>7, <1>10, <1>11 DEF HasHistory
    <2>2. Counted(i)'
      BY <1>3, <1>10, <1>11, <1>14 DEF IssueInv, Counted
    <2>3. Explained(i)'
      BY <1>10, <1>11, <1>15 DEF Explained
    <2> QED  BY <2>1, <2>2, <2>3
  <1>17. AsSigned(i)'
    <2>1. Follows(u.seen, old.status)
      BY <1>1, <1>2 DEF SignedInv
    <2>2. \A n \in 1..N : Follows(statusUpdate[i][n].seen, statusUpdate[i][n].old)
      BY <1>3 DEF IssueInv, AsSigned, N
    <2>3. \A n \in 1..(N + 1) :
             Follows(statusUpdate'[i][n].seen, statusUpdate'[i][n].old)
      <3> TAKE n \in 1..(N + 1)
      <3>1. CASE n \in 1..N
        BY <1>13, <2>2, <3>1
      <3>2. CASE n = N + 1
        BY <1>10, <1>13, <2>1, <3>2
      <3> QED  BY <1>3, <3>1, <3>2
    <2> QED  BY <1>13, <2>3 DEF AsSigned
  <1>18. Chained(i)'
    <2>1. \A n \in 1..N :
             /\ statusUpdate[i][n].previous =
                    IF n = 1 THEN <<old.timeline[1]>> ELSE statusUpdate[i][n - 1].next
             /\ ClosedStatus(statusUpdate[i][n].new) => n = N
      BY <1>3 DEF IssueInv, Chained, N
    <2>2. old.timeline = IF N = 0 THEN <<old.timeline[1]>> ELSE statusUpdate[i][N].next
      <3>1. statusUpdate[i] = << >> <=> N = 0
        BY <1>3 DEF N
      <3> QED  BY <1>3, <1>4, <3>1 DEF IssueInv, Chained, N
    <2>3. ~ClosedStatus(old.status)
      BY <1>1 DEF ValidStatusTransition, ClosedStatus
    <2>4. N > 0 => ~ClosedStatus(statusUpdate[i][N].new)
      <3> SUFFICES ASSUME N > 0 PROVE ~ClosedStatus(statusUpdate[i][N].new)
        OBVIOUS
      <3>1. LastStatus(i) = statusUpdate[i][N].new
        BY <1>3 DEF LastStatus, N
      <3>2. old.status = LastStatus(i) \/ LastStatus(i) = "submitted"
        BY <1>3 DEF IssueInv, Explained
      <3> QED  BY <2>3, <3>1, <3>2 DEF ClosedStatus
    <2>5. \A n \in 1..(N + 1) :
             /\ statusUpdate'[i][n].previous =
                    IF n = 1 THEN <<line[1]>> ELSE statusUpdate'[i][n - 1].next
             /\ ClosedStatus(statusUpdate'[i][n].new) => n = N + 1
      <3> TAKE n \in 1..(N + 1)
      <3>1. CASE n \in 1..N
        <4>1. n # 1 => n - 1 \in 1..N
          BY <1>3, <3>1
        <4>2. ~ClosedStatus(statusUpdate[i][n].new)
          BY <1>3, <2>1, <2>4, <3>1
        <4> QED  BY <1>7, <1>13, <2>1, <3>1, <4>1, <4>2
      <3>2. CASE n = N + 1
        <4>1. CASE N = 0
          <5>1. old.timeline = <<line[1]>>
            BY <1>7, <2>2, <4>1
          <5>2. n = 1 /\ statusUpdate'[i][n].previous = old.timeline
            BY <1>10, <1>13, <3>2, <4>1
          <5> QED  BY <3>2, <4>1, <5>1, <5>2
        <4>2. CASE N # 0
          <5>1. n # 1 /\ n - 1 = N /\ N \in 1..N
            BY <1>3, <3>2, <4>2
          <5>2. old.timeline = statusUpdate[i][N].next
            BY <2>2, <4>2
          <5>3. /\ statusUpdate'[i][N] = statusUpdate[i][N]
                /\ statusUpdate'[i][n].previous = old.timeline
            BY <1>10, <1>13, <3>2, <5>1
          <5> QED  BY <3>2, <5>1, <5>2, <5>3
        <4> QED  BY <4>1, <4>2
      <3> QED  BY <1>3, <3>1, <3>2
    <2> QED  BY <1>10, <1>11, <1>13, <2>5 DEF Chained
  <1>19. IssueInv(i)'
    BY <1>3, <1>9, <1>10, <1>11, <1>13, <1>16, <1>17, <1>18 DEF IssueInv
  <1>20. ASSUME NEW j \in 1..MaxIssues, j # i PROVE IssueInv(j)'
    BY <1>11, <1>12, <1>14, <1>20, IssueFrame DEF V1Inv
  <1>21. ASSUME NEW v \in signed PROVE SignedInv(v)'
    <2>1. SignedInv(v) /\ v.issue \in 1..MaxIssues /\ v.seq \in Nat
      BY DEF V1Inv, SignedType
    <2>2. CASE v.issue = i
      <3>1. v.seq <= old.updates + 1 /\ old.updates \in Nat
        BY <1>3, <2>1, <2>2 DEF SignedInv
      <3>2. issue'[i].reporter # NoWallet /\ issue'[i].updates = old.updates + 1
        BY <1>4, <1>10, <1>11
      <3>3. v.seq <= issue'[i].updates /\ issue'[i].updates \in Nat
        BY <3>1, <3>2
      <3> HIDE DEF i
      <3> QED  BY <2>1, <2>2, <3>2, <3>3 DEF SignedInv
    <2>3. CASE v.issue # i
      BY <1>11, <2>1, <2>3, SignedFrame
    <2> QED  BY <2>2, <2>3
  <1> HIDE DEF i
  <1> QED  BY <1>1, <1>11, <1>12, <1>19, <1>20, <1>21 DEF V1Inv

\* Every instruction keeps the invariant.
LEMMA NextKeepsV1Inv == V1Inv /\ [V1Next]_v1Vars => V1Inv'
  <1> SUFFICES ASSUME V1Inv, [V1Next]_v1Vars PROVE V1Inv'
    OBVIOUS
  <1>1. ASSUME UNCHANGED <<issue, verification, statusUpdate, signed>>,
               registry' \in [authority : Wallets \cup {NoWallet}, count : 0..MaxIssues],
               steward' \in [Wallets -> {"none", "active", "revoked"}]
        PROVE  V1Inv'
    <2>1. \A j : Verifiers(j)' = Verifiers(j)
      BY <1>1 DEF Verifiers
    <2>2. \A j \in 1..MaxIssues : IssueInv(j)'
      BY <1>1, <2>1, IssueFrame DEF V1Inv
    <2>3. \A u \in signed' : SignedInv(u)'
      BY <1>1, SignedFrame DEF V1Inv
    <2> QED  BY <1>1, <2>2, <2>3 DEF V1Inv
  <1>2. ASSUME NEW w \in Wallets, InitializeRegistry(w) PROVE V1Inv'
    <2>1. 0 \in 0..MaxIssues
      BY SignalProgramV1Assumption
    <2> QED  BY <1>1, <1>2, <2>1 DEF InitializeRegistry, V1Inv
  <1>3. ASSUME NEW w \in Wallets, AddSteward(w) \/ RevokeSteward(w) PROVE V1Inv'
    BY <1>1, <1>3 DEF AddSteward, RevokeSteward, V1Inv
  <1>4. CASE \E w \in Wallets :
                InitializeRegistry(w) \/ AddSteward(w) \/ RevokeSteward(w) \/ CreateIssue(w)
    BY <1>2, <1>3, <1>4, CreateKeepsV1Inv
  <1>5. CASE \E i \in 1..MaxIssues, w \in Wallets : VerifyIssue(i, w)
    BY <1>5, VerifyKeepsV1Inv
  <1>6. CASE \E i \in 1..MaxIssues, w \in Wallets, new \in Statuses : SignUpdate(i, w, new)
    BY <1>6, SignKeepsV1Inv
  <1>7. CASE \E u \in signed : UpdateStatus(u)
    BY <1>7, UpdateKeepsV1Inv
  <1>8. CASE UNCHANGED v1Vars
    BY <1>1, <1>8 DEF v1Vars, V1Inv
  <1> QED  BY <1>4, <1>5, <1>6, <1>7, <1>8 DEF V1Next

\* For any number of wallets, issues and signed updates that land in any order:
\* the first program's counts are those of its verification accounts, and every
\* status is explained by an update account or by two verifiers.
THEOREM VersionOneAgrees == V1Spec => []AccountsAgree
  <1>1. V1Inv => AccountsAgree
    BY V1InvSays
  <1> QED  BY <1>1, InitEstablishesV1Inv, NextKeepsV1Inv, PTL DEF V1Spec

\* Its status updates form one hash chain that ends with a closed status, and
\* each lands on the status its steward saw, or on that of two verifiers.
THEOREM VersionOneIsOrdered == V1Spec => []UpdatesAreInOrder
  <1>1. V1Inv => UpdatesAreInOrder
    BY V1InvSays
  <1> QED  BY <1>1, InitEstablishesV1Inv, NextKeepsV1Inv, PTL DEF V1Spec
==============================================================================
