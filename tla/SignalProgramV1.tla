--------------------------- MODULE SignalProgramV1 ---------------------------
(***************************************************************************)
(* The first program, programs/nagarik_signal: a registry that numbers the *)
(* issues, stewards who move an issue's status, and verifications by other *)
(* wallets that move a submitted issue to verified.  The records it wrote  *)
(* are what the site still reads as version 1 history.                     *)
(*                                                                         *)
(* A steward signs a status update for the issue account it reads; the     *)
(* update lands later, or never.  The timeline hash is injective here: it  *)
(* is the sequence of everything hashed into it.  Observation dates,       *)
(* category, clocks and account sizes are left out.                        *)
(***************************************************************************)
EXTENDS Integers, Sequences, FiniteSets

CONSTANTS
    Wallets,     \* signers: registry authority, stewards, reporters, verifiers
    NoWallet,    \* a field of an account that does not exist
    MaxIssues,   \* bound: issues created
    MaxUpdates,  \* bound: status updates of one issue
    MaxSigned    \* bound: status updates signed

ASSUME SignalProgramV1Assumption ==
    /\ NoWallet \notin Wallets
    /\ IsFiniteSet(Wallets)
    /\ MaxIssues \in Nat
    /\ MaxUpdates \in Nat
    /\ MaxSigned \in Nat

VARIABLES
    registry,        \* authority and issue_count
    steward,         \* [Wallets -> {"none", "active", "revoked"}]
    issue,           \* [1..MaxIssues -> Issue account]
    verification,    \* the verification PDAs: <<issue, verifier>>
    statusUpdate,    \* [1..MaxIssues -> Seq of StatusUpdate accounts], by seq
    signed           \* status updates signed and not known to have landed

v1Vars == <<registry, steward, issue, verification, statusUpdate, signed>>

Statuses == {"submitted", "verified", "in_progress", "resolved", "disputed", "rejected"}

NoIssue == [reporter |-> NoWallet, status |-> "submitted", verifications |-> 0,
            updates |-> 0, timeline |-> << >>, resolution |-> 0]

Exists(i) == issue[i] # NoIssue

ClosedStatus(status) == status \in {"resolved", "rejected"}

ValidStatusTransition(old, new) ==
    CASE old = "submitted"   -> new \in Statuses \ {"submitted"}
      [] old = "verified"    -> new \in {"in_progress", "resolved", "disputed", "rejected"}
      [] old = "in_progress" -> new \in {"resolved", "disputed", "rejected"}
      [] old = "disputed"    -> new \in Statuses \ {"disputed"}
      [] OTHER               -> FALSE

V1Init ==
    /\ registry = [authority |-> NoWallet, count |-> 0]
    /\ steward = [w \in Wallets |-> "none"]
    /\ issue = [i \in 1..MaxIssues |-> NoIssue]
    /\ verification = {}
    /\ statusUpdate = [i \in 1..MaxIssues |-> << >>]
    /\ signed = {}

\* Any signer may be the first to initialise the registry PDA.
InitializeRegistry(w) ==
    /\ registry.authority = NoWallet
    /\ registry' = [authority |-> w, count |-> 0]
    /\ UNCHANGED <<steward, issue, verification, statusUpdate, signed>>

\* init: the steward account must not exist, and it is never closed.
AddSteward(w) ==
    /\ registry.authority # NoWallet
    /\ steward[w] = "none"
    /\ steward' = [steward EXCEPT ![w] = "active"]
    /\ UNCHANGED <<registry, issue, verification, statusUpdate, signed>>

RevokeSteward(w) ==
    /\ steward[w] # "none"
    /\ steward' = [steward EXCEPT ![w] = "revoked"]
    /\ UNCHANGED <<registry, issue, verification, statusUpdate, signed>>

\* Issue ids are given out one by one: the caller names the next.
CreateIssue(w) ==
    LET id == registry.count + 1
    IN  /\ registry.authority # NoWallet
        /\ id \in 1..MaxIssues
        /\ ~Exists(id)
        /\ issue' = [issue EXCEPT ![id] =
              [reporter |-> w, status |-> "submitted", verifications |-> 0, updates |-> 0,
               timeline |-> <<[kind |-> "issue", id |-> id, by |-> w]>>, resolution |-> 0]]
        /\ registry' = [registry EXCEPT !.count = id]
        /\ UNCHANGED <<steward, verification, statusUpdate, signed>>

\* The second verification of a submitted issue moves it to verified.
AfterVerification(status, count) ==
    IF status = "submitted" /\ count >= 2 THEN "verified" ELSE status

\* Mutant: the verification account is not keyed by the verifier.
MayVerify_Twice(i, w) ==
    /\ Exists(i)
    /\ issue[i].reporter # w
    /\ ~ClosedStatus(issue[i].status)
    /\ issue[i].verifications <= Cardinality(Wallets)

\* init of the verification PDA: one per issue and verifier.
MayVerify(i, w) ==
    /\ Exists(i)
    /\ issue[i].reporter # w
    /\ ~ClosedStatus(issue[i].status)
    /\ <<i, w>> \notin verification

VerifyIssue(i, w) ==
    LET count == issue[i].verifications + 1
    IN  /\ MayVerify(i, w)
        /\ issue' = [issue EXCEPT ![i].verifications = count,
                                  ![i].status = AfterVerification(@, count)]
        /\ verification' = verification \cup {<<i, w>>}
        /\ UNCHANGED <<registry, steward, statusUpdate, signed>>

\* A steward signs an update for the issue it reads, numbered after the last.
SignUpdate(i, w, new) ==
    /\ Exists(i)
    /\ issue[i].updates < MaxUpdates
    /\ Cardinality(signed) < MaxSigned
    /\ steward[w] = "active"
    /\ ValidStatusTransition(issue[i].status, new)
    /\ signed' = signed \cup {[issue |-> i, by |-> w, seq |-> issue[i].updates + 1,
                               new |-> new, seen |-> issue[i].status]}
    /\ UNCHANGED <<registry, steward, issue, verification, statusUpdate>>

\* Mutant: the sequence number is taken from the account, not compared.
MayUpdate_AnySeq(u) ==
    /\ steward[u.by] = "active"
    /\ ValidStatusTransition(issue[u.issue].status, u.new)
    /\ issue[u.issue].updates < MaxUpdates

MayUpdate(u) ==
    /\ steward[u.by] = "active"
    /\ ValidStatusTransition(issue[u.issue].status, u.new)
    /\ u.seq = issue[u.issue].updates + 1

\* new_timeline_hash: the update chained onto the previous hash.
Timeline(u, old) ==
    Append(issue[u.issue].timeline,
           [kind |-> "status", seq |-> issue[u.issue].updates + 1, by |-> u.by,
            old |-> old, new |-> u.new])

\* Only a resolution records its proof on the issue itself.
Resolution(u) ==
    IF u.new = "resolved" THEN u.seq ELSE issue[u.issue].resolution

UpdateStatus(u) ==
    LET i == u.issue  old == issue[i].status
    IN  /\ MayUpdate(u)
        /\ issue' = [issue EXCEPT ![i].status = u.new,
                                  ![i].updates = @ + 1,
                                  ![i].timeline = Timeline(u, old),
                                  ![i].resolution = Resolution(u)]
        /\ statusUpdate' = [statusUpdate EXCEPT ![i] =
              Append(@, [by |-> u.by, old |-> old, new |-> u.new, seen |-> u.seen,
                         previous |-> issue[i].timeline, next |-> Timeline(u, old)])]
        /\ UNCHANGED <<registry, steward, verification, signed>>

V1Next ==
    \/ \E w \in Wallets :
          InitializeRegistry(w) \/ AddSteward(w) \/ RevokeSteward(w) \/ CreateIssue(w)
    \/ \E i \in 1..MaxIssues, w \in Wallets : VerifyIssue(i, w)
    \/ \E i \in 1..MaxIssues, w \in Wallets, new \in Statuses : SignUpdate(i, w, new)
    \/ \E u \in signed : UpdateStatus(u)

V1Spec == V1Init /\ [][V1Next]_v1Vars

-----------------------------------------------------------------------------
(* Properties.                                                             *)

\* Every account of the program has its type.
V1TypeOK ==
    /\ registry.authority \in Wallets \cup {NoWallet}
    /\ registry.count \in 0..MaxIssues
    /\ steward \in [Wallets -> {"none", "active", "revoked"}]
    /\ \A i \in 1..MaxIssues :
          /\ issue[i].reporter \in Wallets \cup {NoWallet}
          /\ issue[i].status \in Statuses
          /\ issue[i].updates \in 0..MaxUpdates
          /\ issue[i].verifications \in 0..Cardinality(Wallets)
    /\ verification \subseteq (1..MaxIssues) \X Wallets

\* The verification count of an issue is the number of wallets, none of them
\* the reporter, that hold a verification account for it.
CountIsVerifiers ==
    \A i \in 1..MaxIssues :
        LET verifiers == {w \in Wallets : <<i, w>> \in verification}
        IN  /\ issue[i].verifications = Cardinality(verifiers)
            /\ issue[i].reporter \notin verifiers

LastStatus(i) ==
    IF statusUpdate[i] = << >> THEN "submitted" ELSE statusUpdate[i][Len(statusUpdate[i])].new

\* The status of an issue is the one its last StatusUpdate account names, or
\* the verified status two verifiers gave it since, which leaves no account.
StatusIsExplained ==
    \A i \in 1..MaxIssues :
        \/ issue[i].status = LastStatus(i)
        \/ /\ issue[i].status = "verified"
           /\ LastStatus(i) = "submitted"
           /\ issue[i].verifications >= 2

\* The StatusUpdate accounts of an issue chain onto each other from the hash
\* of its creation, and a closed status is the last.
UpdatesChain ==
    \A i \in 1..MaxIssues : \A n \in DOMAIN statusUpdate[i] :
        LET u == statusUpdate[i][n]
        IN  /\ u.previous = IF n = 1 THEN <<issue[i].timeline[1]>>
                                     ELSE statusUpdate[i][n - 1].next
            /\ ClosedStatus(u.new) => n = Len(statusUpdate[i])

\* A status update lands on the status its steward saw when signing it.  The
\* one exception is a submitted issue that verifications moved meanwhile:
\* verify_issue changes the status and not update_count.
UpdatesLandAsSigned ==
    \A i \in 1..MaxIssues : \A n \in DOMAIN statusUpdate[i] :
        LET u == statusUpdate[i][n]
        IN  u.old = u.seen \/ (u.seen = "submitted" /\ u.old = "verified")

\* The accounts of the program agree: counts with verification accounts,
\* statuses with update accounts, and all of them with their types.
AccountsAgree == V1TypeOK /\ CountIsVerifiers /\ StatusIsExplained

\* Status updates form one hash chain, each on the status its steward saw.
UpdatesAreInOrder == UpdatesChain /\ UpdatesLandAsSigned
=============================================================================
