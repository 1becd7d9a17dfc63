---------------------------- MODULE ProtocolAdmin ----------------------------
(***************************************************************************)
(* The administrative instructions of programs/nagarik_signal_v2: protocol *)
(* configuration, role grants, pause and the two-step change of authority, *)
(* with scripts/bootstrap-v2-devnet.ts, which configures a fresh program   *)
(* and may be stopped and started again at any step.                       *)
(*                                                                         *)
(* An instruction travels as a signed message on the wire.  A message may  *)
(* land late, never, or be submitted again; what keeps it from landing     *)
(* twice or after the state it was signed for is the program alone.        *)
(* Account sizes, bumps, clocks and rent are left out.  log holds the      *)
(* Anchor events in the order the program emits them, and writes the issue *)
(* instructions it let through; neither is read by the code.               *)
(***************************************************************************)
EXTENDS Integers, Sequences, FiniteSets

CONSTANTS
    Keys,            \* public keys that sign administrative messages
    Genesis,         \* GENESIS_AUTHORITY
    Subjects,        \* keys that may hold a role grant
    Service,         \* the subject the bootstrap script configures
    Roles,           \* the role bits; ROLE_ALL is the whole set
    NoKey,           \* pending_authority = None
    AdminMessages,   \* bound: messages signed outside the bootstrap script
    Crashes          \* bound: bootstrap runs that die while they wait

ASSUME ProtocolAdminAssumption ==
    /\ Genesis \in Keys
    /\ NoKey \notin Keys
    /\ Service \in Subjects
    /\ Roles # {}
    /\ AdminMessages \in Nat
    /\ Crashes \in Nat

VARIABLES
    config,   \* ProtocolConfig; revision 0 is the account that does not exist
    grants,   \* [Subjects -> RoleGrant]; revision 0 is a missing grant
    wire,     \* every signed message
    log,      \* emitted administrative events, each with its message
    writes,   \* issue instructions let through: actor, role, config revision
    boot      \* the bootstrap process

vars == <<config, grants, wire, log, writes, boot>>

NoConfig == [authority |-> NoKey, pending |-> NoKey, paused |-> FALSE, revision |-> 0]
NoGrant  == [bits |-> {}, active |-> FALSE, revision |-> 0]

\* A signed instruction: expected and grant are the revisions it names, on
\* the active or paused argument, key the proposed authority.  by tells the
\* script's messages from the others, id two equal messages apart.
Message(id, by, signer, kind, expected, grant, subject, bits, on, key) ==
    [ id |-> id, by |-> by, signer |-> signer, kind |-> kind, expected |-> expected,
      grant |-> grant, subject |-> subject, bits |-> bits, on |-> on, key |-> key ]

NoMessage == Message(0, "boot", NoKey, "none", 0, 0, Service, {}, FALSE, NoKey)

Init ==
    /\ config = NoConfig
    /\ grants = [s \in Subjects |-> NoGrant]
    /\ wire = {}
    /\ log = << >>
    /\ writes = {}
    /\ boot = [pc |-> "start", sent |-> NoMessage, config |-> NoConfig,
               grant |-> NoGrant, crashes |-> 0]

-----------------------------------------------------------------------------
(* The program.                                                            *)

\* Mutant: the revision the caller expects is not compared.
ValidateAdmin_NoRevision(m) ==
    /\ config.revision # 0
    /\ m.signer = config.authority

\* validate_admin: the account exists, its authority signs, nothing changed.
ValidateAdmin(m) ==
    /\ config.revision # 0
    /\ m.signer = config.authority
    /\ m.expected = config.revision

\* The event a message emits; every event carries the revision it produces.
Emit(m) ==
    log' = Append(log, [message |-> m, revision |-> config'.revision])

MayInitialize(m) ==
    /\ m.kind = "initialize"
    /\ m.signer = Genesis
    /\ config = NoConfig

InitializeProtocol(m) ==
    /\ MayInitialize(m)
    /\ config' = [authority |-> Genesis, pending |-> NoKey, paused |-> TRUE, revision |-> 1]
    /\ Emit(m)
    /\ UNCHANGED <<grants, wire, writes>>

\* The first grant of a subject.
GrantMissing(m) ==
    /\ grants[m.subject].revision = 0
    /\ m.grant = 0
    /\ m.on
    /\ m.bits # {}

\* A later change of an existing grant: a revocation keeps the bits, anything
\* else activates and needs the protocol paused.
GrantExisting(m) ==
    LET grant == grants[m.subject]
    IN  /\ grant.revision # 0
        /\ m.grant = grant.revision
        /\ grant.active # m.on \/ grant.bits # m.bits
        /\ IF m.on THEN config.paused /\ m.bits # {}
                   ELSE grant.active /\ m.bits = grant.bits

MaySetRole(m) ==
    /\ m.kind = "set_role"
    /\ ValidateAdmin(m)
    /\ GrantMissing(m) \/ GrantExisting(m)

\* Mutant: a role change leaves the configuration revision alone.
SetRole_NoRevision(m) ==
    /\ MaySetRole(m)
    /\ grants' = [grants EXCEPT ![m.subject] =
                    [bits |-> m.bits, active |-> m.on, revision |-> @.revision + 1]]
    /\ UNCHANGED config
    /\ Emit(m)
    /\ UNCHANGED <<wire, writes>>

SetRole(m) ==
    /\ MaySetRole(m)
    /\ grants' = [grants EXCEPT ![m.subject] =
                    [bits |-> m.bits, active |-> m.on, revision |-> @.revision + 1]]
    /\ config' = [config EXCEPT !.revision = @ + 1]
    /\ Emit(m)
    /\ UNCHANGED <<wire, writes>>

\* Mutant: unpausing does not look at the pending authority.
MaySetPause_IgnoresPending(m) ==
    /\ m.kind = "set_pause"
    /\ ValidateAdmin(m)
    /\ config.paused # m.on

MaySetPause(m) ==
    /\ m.kind = "set_pause"
    /\ ValidateAdmin(m)
    /\ config.paused # m.on
    /\ ~m.on => config.pending = NoKey

SetPause(m) ==
    /\ MaySetPause(m)
    /\ config' = [config EXCEPT !.paused = m.on, !.revision = @ + 1]
    /\ Emit(m)
    /\ UNCHANGED <<grants, wire, writes>>

MayPropose(m) ==
    /\ m.kind = "propose"
    /\ ValidateAdmin(m)
    /\ config.paused
    /\ config.pending = NoKey
    /\ m.key \notin {NoKey, config.authority}

ProposeAuthority(m) ==
    /\ MayPropose(m)
    /\ config' = [config EXCEPT !.pending = m.key, !.revision = @ + 1]
    /\ Emit(m)
    /\ UNCHANGED <<grants, wire, writes>>

MayCancel(m) ==
    /\ m.kind = "cancel"
    /\ ValidateAdmin(m)
    /\ config.paused
    /\ config.pending # NoKey

CancelAuthorityProposal(m) ==
    /\ MayCancel(m)
    /\ config' = [config EXCEPT !.pending = NoKey, !.revision = @ + 1]
    /\ Emit(m)
    /\ UNCHANGED <<grants, wire, writes>>

\* Mutant: whoever signs may accept.
MayAccept_AnySigner(m) ==
    /\ m.kind = "accept"
    /\ config.revision # 0
    /\ m.expected = config.revision
    /\ config.paused
    /\ config.pending # NoKey

MayAccept(m) ==
    /\ m.kind = "accept"
    /\ config.revision # 0
    /\ m.expected = config.revision
    /\ config.paused
    /\ config.pending # NoKey
    /\ config.pending = m.signer

AcceptAuthority(m) ==
    /\ MayAccept(m)
    /\ config' = [config EXCEPT !.authority = m.signer, !.pending = NoKey, !.revision = @ + 1]
    /\ Emit(m)
    /\ UNCHANGED <<grants, wire, writes>>

Acceptable(m) ==
    MayInitialize(m) \/ MaySetRole(m) \/ MaySetPause(m) \/ MayPropose(m) \/ MayCancel(m) \/ MayAccept(m)

\* A transaction lands.  Every account it names is checked then, whenever it
\* was signed.
Land(m) ==
    /\ \/ InitializeProtocol(m)
       \/ SetRole(m)
       \/ SetPause(m)
       \/ ProposeAuthority(m)
       \/ CancelAuthorityProposal(m)
       \/ AcceptAuthority(m)
    /\ UNCHANGED boot

\* validate_protocol_and_role, the gate of the five issue instructions.
RoleHeld(actor, role) ==
    /\ config.revision # 0
    /\ ~config.paused
    /\ grants[actor].active
    /\ role \in grants[actor].bits

WriteIssue(actor, role) ==
    /\ RoleHeld(actor, role)
    /\ writes' = writes \cup {[actor |-> actor, role |-> role, at |-> config.revision]}
    /\ UNCHANGED <<config, grants, wire, log, boot>>

-----------------------------------------------------------------------------
(* The people who hold the keys sign messages about the revisions they     *)
(* read; the client simulates each one before it sends it (preflight).     *)

NextId == Cardinality(wire) + 1

Sign(m) ==
    /\ Acceptable(m)
    /\ Cardinality({w \in wire : w.by = "admin"}) < AdminMessages
    /\ wire' = wire \cup {m}
    /\ UNCHANGED <<config, grants, log, writes, boot>>

SignRole(k, s, bits, on) ==
    Sign(Message(NextId, "admin", k, "set_role", config.revision, grants[s].revision, s, bits, on, NoKey))

SignPause(k, on) ==
    Sign(Message(NextId, "admin", k, "set_pause", config.revision, 0, Service, {}, on, NoKey))

SignTransfer(k, kind, new) ==
    /\ (kind = "propose") = (new # NoKey)
    /\ Sign(Message(NextId, "admin", k, kind, config.revision, 0, Service, {}, FALSE, new))

-----------------------------------------------------------------------------
(* The bootstrap script.                                                   *)

BootMessage(kind, expected, grant, on) ==
    Message(NextId, "boot", Genesis, kind, expected, grant, Service,
            IF kind = "set_role" THEN Roles ELSE {}, on, NoKey)

\* rpc() simulates the transaction and throws when the simulation fails.
BootSends(m, pc) ==
    /\ \/ /\ Acceptable(m)
          /\ wire' = wire \cup {m}
          /\ boot' = [boot EXCEPT !.pc = pc, !.sent = m]
       \/ /\ ~Acceptable(m)
          /\ boot' = [boot EXCEPT !.pc = "failed"]
          /\ UNCHANGED wire
    /\ UNCHANGED <<config, grants, log, writes>>

Configured(grant) == grant.active /\ grant.bits = Roles

\* fetchNullable(protocolConfig), initialize if it is missing, and the
\* asserts on what was read.
BootReadsConfig ==
    /\ boot.pc = "start"
    /\ \/ /\ config = NoConfig
          /\ BootSends(BootMessage("initialize", 0, 0, TRUE), "initialized")
       \/ /\ config # NoConfig
          /\ boot' = [boot EXCEPT
                !.pc = IF config.authority = Genesis THEN "grant" ELSE "failed",
                !.config = config]
          /\ UNCHANGED <<config, grants, wire, log, writes>>

\* fetchNullable(roleGrant): pause first if the grant has to change.
BootReadsGrant ==
    /\ boot.pc = "grant"
    /\ boot' = [boot EXCEPT
          !.grant = grants[Service],
          !.pc = CASE Configured(grants[Service]) -> "unpause"
                   [] ~boot.config.paused         -> "pause"
                   [] OTHER                       -> "role"]
    /\ UNCHANGED <<config, grants, wire, log, writes>>

BootPauses ==
    /\ boot.pc = "pause"
    /\ BootSends(BootMessage("set_pause", boot.config.revision, 0, TRUE), "paused")

BootGrants ==
    /\ boot.pc = "role"
    /\ BootSends(BootMessage("set_role", boot.config.revision, boot.grant.revision, TRUE),
                 "granted")

\* Mutant: the script reports success without unpausing.
BootUnpauses_Never ==
    /\ boot.pc = "unpause"
    /\ boot' = [boot EXCEPT !.pc = "done"]
    /\ UNCHANGED <<config, grants, wire, log, writes>>

BootUnpauses ==
    /\ boot.pc = "unpause"
    /\ \/ /\ boot.config.paused
          /\ BootSends(BootMessage("set_pause", boot.config.revision, 0, FALSE), "unpaused")
       \/ /\ ~boot.config.paused
          /\ boot' = [boot EXCEPT !.pc = "done"]
          /\ UNCHANGED <<config, grants, wire, log, writes>>

Landed(m) == \E i \in DOMAIN log : log[i].message = m

\* Where the script goes once the message it waits for is final.
AfterLanding ==
    [initialized |-> "start", paused |-> "role", granted |-> "check", unpaused |-> "last"]

\* recordFinalized returned; the configuration is fetched again.
BootGoesOn ==
    /\ boot.pc \in DOMAIN AfterLanding
    /\ Landed(boot.sent)
    /\ boot' = [boot EXCEPT !.pc = AfterLanding[boot.pc], !.config = config]
    /\ UNCHANGED <<config, grants, wire, log, writes>>

\* The asserts after the grant and after the unpause.
BootChecks ==
    /\ \/ /\ boot.pc = "check"
          /\ boot' = [boot EXCEPT !.pc = IF Configured(grants[Service]) THEN "unpause" ELSE "failed"]
       \/ /\ boot.pc = "last"
          /\ boot' = [boot EXCEPT !.pc = IF boot.config.paused THEN "failed" ELSE "done"]
    /\ UNCHANGED <<config, grants, wire, log, writes>>

\* The message the script waits for is refused by the program.
BootRefused ==
    /\ boot.pc \in DOMAIN AfterLanding
    /\ ~Landed(boot.sent)
    /\ ~Acceptable(boot.sent)
    /\ boot' = [boot EXCEPT !.pc = "failed"]
    /\ UNCHANGED <<config, grants, wire, log, writes>>

\* The process dies or its answer is lost; what it sent may still land.
BootDies ==
    /\ boot.pc \notin {"done", "failed"}
    /\ boot.crashes < Crashes
    /\ boot' = [boot EXCEPT !.pc = "failed", !.crashes = @ + 1]
    /\ UNCHANGED <<config, grants, wire, log, writes>>

\* The operator runs the script again.
BootRestarts ==
    /\ boot.pc \in {"failed", "done"}
    /\ boot' = [boot EXCEPT !.pc = "start", !.sent = NoMessage]
    /\ UNCHANGED <<config, grants, wire, log, writes>>

BootStep ==
    \/ BootReadsConfig
    \/ BootReadsGrant
    \/ BootPauses
    \/ BootGrants
    \/ BootUnpauses
    \/ BootGoesOn
    \/ BootChecks
    \/ BootRefused
    \/ boot.pc = "failed" /\ BootRestarts

-----------------------------------------------------------------------------
Next ==
    \/ \E m \in wire : Land(m)
    \/ \E actor \in Subjects, role \in Roles : WriteIssue(actor, role)
    \/ \E k \in Keys, s \in Subjects, bits \in SUBSET Roles, on \in BOOLEAN :
          SignRole(k, s, bits, on)
    \/ \E k \in Keys, on \in BOOLEAN : SignPause(k, on)
    \/ \E k \in Keys, kind \in {"propose", "cancel", "accept"}, new \in Keys \cup {NoKey} :
          SignTransfer(k, kind, new)
    \/ BootStep
    \/ BootDies
    \/ BootRestarts

Spec == Init /\ [][Next]_vars

\* The script keeps running once started, is run again after a failure, and
\* the cluster lands a message it would accept as long as the script waits
\* for it.
FairSpec ==
    /\ Spec
    /\ WF_vars(BootStep)
    /\ WF_vars(\E m \in wire : m = boot.sent /\ Land(m))

-----------------------------------------------------------------------------
(* Properties.                                                             *)

Kinds == {"none", "initialize", "set_role", "set_pause", "propose", "cancel", "accept"}

MessageType ==
    [ id : Nat, by : {"admin", "boot"}, signer : Keys \cup {NoKey}, kind : Kinds,
      expected : Nat, grant : Nat, subject : Subjects, bits : SUBSET Roles,
      on : BOOLEAN, key : Keys \cup {NoKey} ]

ConfigType ==
    [ authority : Keys \cup {NoKey}, pending : Keys \cup {NoKey},
      paused : BOOLEAN, revision : Nat ]

GrantType == [ bits : SUBSET Roles, active : BOOLEAN, revision : Nat ]

BootType ==
    [ pc : {"start", "grant", "pause", "role", "unpause", "check", "last",
            "initialized", "paused", "granted", "unpaused", "done", "failed"},
      sent : MessageType, config : ConfigType, grant : GrantType, crashes : Nat ]

\* Every account, message and process of the administration has its type.
TypeOK ==
    /\ config \in ConfigType
    /\ grants \in [Subjects -> GrantType]
    /\ wire \subseteq MessageType
    /\ log \in Seq([message : MessageType, revision : Nat])
    /\ writes \subseteq [actor : Subjects, role : Roles, at : Nat]
    /\ boot \in BootType

\* No transfer of authority is open while the program accepts issue writes:
\* set_pause refuses to unpause with a pending authority, and
\* propose_authority refuses to start one while unpaused.
NoTransferWhileOpen == ~config.paused => config.pending = NoKey

\* A signed message takes effect at most once, however late and however often
\* it is submitted: every effect moves a revision the message names.
MessagesLandOnce ==
    \A i, j \in DOMAIN log : log[i].message = log[j].message => i = j

\* Authority changes hands only on a proposal of the key in force, accepted
\* by the key it names, with no other change of the configuration that
\* would have ended the proposal in between.
TransfersAreProposed ==
    \A i \in DOMAIN log : log[i].message.kind = "accept" =>
        \E j \in 1..(i - 1) :
            /\ log[j].message.kind = "propose"
            /\ log[j].message.key = log[i].message.signer
            /\ \A k \in (j + 1)..(i - 1) : log[k].message.kind = "set_role"

\* What a reader of the emitted events alone knows after one more of them.
AfterEvent(known, event) ==
    LET m == event.message
        c == [known.config EXCEPT !.revision = event.revision]
        g == known.grants
    IN  CASE m.kind = "initialize" ->
               [config |-> [c EXCEPT !.authority = Genesis, !.paused = TRUE], grants |-> g]
          [] m.kind = "set_role" ->
               [config |-> c,
                grants |-> [g EXCEPT ![m.subject] =
                              [bits |-> m.bits, active |-> m.on, revision |-> m.grant + 1]]]
          [] m.kind = "set_pause" -> [config |-> [c EXCEPT !.paused = m.on], grants |-> g]
          [] m.kind = "propose"   -> [config |-> [c EXCEPT !.pending = m.key], grants |-> g]
          [] m.kind = "cancel"    -> [config |-> [c EXCEPT !.pending = NoKey], grants |-> g]
          [] m.kind = "accept"    ->
               [config |-> [c EXCEPT !.authority = m.signer, !.pending = NoKey], grants |-> g]

\* ... and after the first n of them.
Replay[n \in 0..Len(log)] ==
    IF n = 0 THEN [config |-> NoConfig, grants |-> [s \in Subjects |-> NoGrant]]
             ELSE AfterEvent(Replay[n - 1], log[n])

\* The administrative events give back the accounts, revision by revision,
\* and justify every issue write from the events up to its revision: the
\* protocol was open, no transfer was pending, and the actor held the role.
TrailJustifiesWrites ==
    /\ \A i \in DOMAIN log : log[i].revision = i
    /\ Replay[Len(log)] = [config |-> config, grants |-> grants]
    /\ \A w \in writes :
          LET then == Replay[w.at]
          IN  /\ ~then.config.paused
              /\ then.config.pending = NoKey
              /\ then.grants[w.actor].active
              /\ w.role \in then.grants[w.actor].bits

\* The bootstrap script, run again after every failure and left alone by
\* other holders of the key, ends with the program open and the service
\* configured, whichever of its own messages land late.
BootstrapCompletes ==
    \/ <>(~config.paused /\ Configured(grants[Service]))
    \/ <>(\E i \in DOMAIN log : log[i].message.by = "admin")
=============================================================================
