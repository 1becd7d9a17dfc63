------------------------- MODULE PublicReads_proofs -------------------------
(***************************************************************************)
(* Proofs about PublicReads for every history, every set of alterable      *)
(* fields and any one false provider.                                      *)
(***************************************************************************)
EXTENDS PublicReads, WellFoundedInduction, TLAPS

-----------------------------------------------------------------------------
(* The inductive invariant: the history.                                   *)

Entries     == [id : Nat, op : Operations, sequence : Nat, lifecycle : LifecycleStates,
                removed : BOOLEAN, meta : Int]
Heads       == Seq(Entries)
Commitments == [op : Operations, lifecycle : LifecycleStates, removed : BOOLEAN, meta : Int,
                head : Heads, sig : Sigs]

\* The stream that commitment n extends.
OwnStream(n) == ledger[n].op = "handoff_checkpointed"

LedgerIsLegal ==
    /\ ledger \in Seq(Commitments) /\ Len(ledger) <= MaxCommits
    /\ \A n \in 1 .. Len(ledger) :
          /\ ledger[n].removed = (ledger[n].op = "publication_removed")
          /\ \E e \in Entries : ledger[n].head = Append(HeadAfter(n - 1, OwnStream(n)), e)

PublicIsPage ==
    /\ public.proof.count \in 0 .. Len(ledger)
    /\ public = IF public.proof.count = 0 THEN NoPage ELSE Page(public.proof.count)

HistoryInv == LedgerIsLegal /\ PublicIsPage

-----------------------------------------------------------------------------
(* The inductive invariant: the readers.                                   *)

Rows      == [state : {"absent", "published", "removed"}, text : Int,
              lifecycle : LifecycleStates \cup {"none"}, place : {Place, Forged, Absent},
              restricted : BOOLEAN, at : Nat]
ProofRows == [canonical : Int, metadata : Int, evidence : {Photo, Forged, Absent},
              location : {Place, Forged, Absent}, count : Nat, timeline : Heads,
              handoff : Heads, sig : Sigs \cup {0}, event : Nat]
Details   == [kind : {"none", "tombstone", "content", "restricted"}, row : Rows,
              proofAvailable : BOOLEAN, events : 0 .. MaxCommits]
PagesSet  == [pc : {"idle", "missing", "proof", "events", "answer", "shown"}, row : Rows,
              proofAvailable : BOOLEAN, detail : Details]

Accounts  == [count : Nat, timeline : Heads, handoff : Heads, lifecycle : LifecycleStates,
              removed : BOOLEAN, meta : Int, evidence : {Photo, Forged, Absent},
              location : {Place, Forged, Absent}]
Events    == [op : Operations, sequence : Nat, lifecycle : LifecycleStates, removed : BOOLEAN,
              meta : Int, evidence : {Photo, Forged, Absent},
              location : {Place, Forged, Absent}, previous : Heads, head : Heads]
Answers   == [kind : {"unread", "failed"}] \cup
             [kind : {"observed"}, issue : Accounts, event : Events]
Verdicts  == [metadata : {"none", "match", "mismatch"},
              location : {"none", "match", "mismatch", "not_available_after_removal"},
              evidence : {"none", "match", "mismatch", "unavailable"},
              chain : {"none", "confirmed", "mismatch", "unknown_dependency_error"}]
Checks    == [pc : {"idle", "rows", "verify", "ready", "error"}, row : Rows, proof : ProofRows,
              bytes : {Photo, Absent}, answers : [Providers -> Answers], verdict : Verdicts,
              shownAtStart : Nat, disturbed : BOOLEAN]

ReadersType ==
    /\ altered \subseteq Fields /\ restricted \in BOOLEAN /\ readEnabled \in BOOLEAN
    /\ cached \in Details /\ cached.kind # "restricted"
    /\ page \in PagesSet
    /\ check \in Checks

\* What a body says is whole: its events cover its record, and it announces a
\* proof only where a commitment is public.
Whole(d) ==
    /\ d.kind = "content" => d.events >= d.row.at
    /\ d.proofAvailable => public.proof.count > 0

PagesComeWhole ==
    /\ Whole(cached) /\ Whole(page.detail)
    /\ page.proofAvailable => public.proof.count > 0
    /\ page.pc \in {"proof", "events"} => page.row.at <= public.proof.count
    /\ page.pc = "answer" /\ page.row.state # "removed" /\ ~Hidden(page.row) =>
          page.detail.events >= page.row.at
    /\ page.pc # "shown" => page.detail.kind = "none" /\ ~page.detail.proofAvailable

\* The proof row of a check was read after the visitor asked.
CheckAdvances ==
    /\ check.pc # "idle" => check.shownAtStart \in 1 .. public.proof.count
    /\ check.proof # NoProofRow =>
          check.proof.event \in check.shownAtStart .. public.proof.count
    /\ check.pc \in {"verify", "ready"} => check.row # NoRow /\ check.proof # NoProofRow
    /\ check.pc \in {"idle", "rows"} => \A p \in Providers : check.answers[p] = Unread

\* What a provider says is an observation of the chain from the slot of the
\* proof on: always, where it is honest; of any, where nothing was disturbed.
AnswersAreHonest ==
    \A p \in Providers :
        check.answers[p].kind = "observed" /\ (p \notin FalseProviders \/ ~check.disturbed) =>
            /\ check.proof.event \in 1 .. Len(ledger)
            /\ \E seen \in check.proof.event .. Len(ledger) :
                  check.answers[p] = Observation(seen, check.proof.event)

\* The proof row of commitment n as the services wrote it.
TrueProof(n) ==
    [ canonical |-> ledger[n].meta, metadata |-> ledger[n].meta, evidence |-> Photo,
      location |-> Place, count |-> n, timeline |-> HeadAfter(n, FALSE),
      handoff |-> HeadAfter(n, TRUE), sig |-> ledger[n].sig, event |-> n ]

\* Undisturbed, the rows read are those the services wrote.
RowsAreTrue ==
    check.pc # "idle" /\ ~check.disturbed =>
        /\ altered = {}
        /\ check.proof # NoProofRow => check.proof = TrueProof(check.proof.event)
        /\ check.row # NoRow =>
              /\ check.row.at \in check.shownAtStart .. public.proof.count
              /\ (check.row.state = "removed") = ledger[check.row.at].removed
              /\ check.row.place \in {Place, Absent}

VerdictStands == check.verdict = IF check.pc = "ready" THEN Verdict ELSE NoVerdict

ReadersInv ==
    /\ ReadersType /\ PagesComeWhole
    /\ CheckAdvances /\ AnswersAreHonest /\ RowsAreTrue /\ VerdictStands

Inv == HistoryInv /\ ReadersInv

-----------------------------------------------------------------------------
(* Facts about the ledger.                                                 *)

\* A non-empty set of numbers up to k has a greatest element.
LEMMA GreatestExists ==
    ASSUME NEW k \in Nat, NEW S, S \subseteq 1 .. k, S # {}
    PROVE  \E i \in S : \A j \in S : j <= i
<1> DEFINE D == {k - i : i \in S}
           R == OpToRel(<, Nat)
<1>1. D \subseteq Nat /\ D # {}
  <2>1. ASSUME NEW i \in S PROVE k - i \in Nat
    <3>1. i \in 1 .. k
      OBVIOUS
    <3> QED
      BY <3>1
  <2> QED
    BY <2>1
<1>2. R = {ss \in Nat \X Nat : ss[1] < ss[2]}
  BY Zenon DEF OpToRel
<1>3. PICK d \in D : \A e \in D : ~(<<e, d>> \in R)
  <2> HIDE DEF R, D
  <2>1. IsWellFoundedOn(R, Nat)
    BY NatLessThanWellFounded, Zenon DEF R
  <2> QED
    BY <1>1, <2>1, WFMin
<1>4. \A e \in D : ~(e < d)
  BY <1>1, <1>2, <1>3
<1>5. PICK i \in S : d = k - i
  OBVIOUS
<1>6. \A j \in S : j <= i
  <2> SUFFICES ASSUME NEW j \in S PROVE j <= i
    OBVIOUS
  <2>1. k - j \in D /\ i \in 1 .. k /\ j \in 1 .. k
    OBVIOUS
  <2>2. ~(k - j < d) /\ d = k - i
    BY <1>4, <1>5, <2>1
  <2> HIDE DEF D, R
  <2> QED
    BY <2>1, <2>2
<1> QED
  BY <1>6

\* HeadAfter selects the head of the greatest commitment of the stream.
LEMMA HeadAfterIs ==
    ASSUME NEW n \in Nat, NEW h \in BOOLEAN
    PROVE  \/ HeadAfter(n, h) = ZeroHead /\ \A i \in 1 .. n : OwnStream(i) # h
           \/ \E c \in 1 .. n : /\ HeadAfter(n, h) = ledger[c].head /\ OwnStream(c) = h
                                /\ \A i \in 1 .. n : OwnStream(i) = h => i <= c
<1> DEFINE stream == {i \in 1 .. n : (ledger[i].op = "handoff_checkpointed") = h}
           c == CHOOSE i \in stream : \A k \in stream : k <= i
<1>1. HeadAfter(n, h) = IF stream = {} THEN ZeroHead ELSE ledger[c].head
  BY DEF HeadAfter
<1>2. stream \subseteq 1 .. n /\ \A i \in 1 .. n : i \in stream <=> OwnStream(i) = h
  BY DEF OwnStream
<1> HIDE DEF stream
<1>3. CASE stream = {}
  BY <1>1, <1>2, <1>3
<1>4. CASE stream # {}
  <2>1. \E i \in stream : \A k \in stream : k <= i
    BY <1>2, <1>4, GreatestExists
  <2>2. c \in stream /\ \A k \in stream : k <= c
    BY <2>1, Zenon
  <2> HIDE DEF c
  <2> QED
    BY <1>1, <1>2, <1>4, <2>2
<1> QED
  BY <1>3, <1>4

\* A stream's head is the head of one of its commitments, or empty.
LEMMA HeadType ==
    ASSUME ledger \in Seq(Commitments), NEW n \in 0 .. Len(ledger), NEW h \in BOOLEAN
    PROVE  HeadAfter(n, h) \in Heads
<1>1. Len(ledger) \in Nat /\ n \in Nat /\ \A c \in 1 .. n : ledger[c] \in Commitments
  OBVIOUS
<1>2. ZeroHead \in Heads
  BY DEF ZeroHead, Heads
<1> QED
  BY <1>1, <1>2, HeadAfterIs DEF Commitments

\* After commitment n, the stream it extends ends with its head.
LEMMA HeadOfOwnStream ==
    ASSUME ledger \in Seq(Commitments), NEW n \in 1 .. Len(ledger)
    PROVE  HeadAfter(n, OwnStream(n)) = ledger[n].head
<1>1. n \in Nat /\ n \in 1 .. n /\ OwnStream(n) \in BOOLEAN
  BY DEF OwnStream
<1>2. PICK c \in 1 .. n : /\ HeadAfter(n, OwnStream(n)) = ledger[c].head
                          /\ \A i \in 1 .. n : OwnStream(i) = OwnStream(n) => i <= c
  BY <1>1, HeadAfterIs
<1>3. c = n
  BY <1>1, <1>2
<1> QED
  BY <1>2, <1>3

\* What later commitments leave alone.
LEMMA HeadKept ==
    ASSUME NEW n \in Nat, NEW h \in BOOLEAN, \A i \in 1 .. n : ledger'[i] = ledger[i]
    PROVE  HeadAfter(n, h)' = HeadAfter(n, h)
<1> DEFINE stream == {i \in 1 .. n : (ledger[i].op = "handoff_checkpointed") = h}
           next == {i \in 1 .. n : (ledger'[i].op = "handoff_checkpointed") = h}
           c == CHOOSE i \in stream : \A k \in stream : k <= i
<1>1. HeadAfter(n, h) = IF stream = {} THEN ZeroHead ELSE ledger[c].head
  BY DEF HeadAfter
<1>2. HeadAfter(n, h)' = IF next = {} THEN ZeroHead
                         ELSE ledger'[CHOOSE i \in next : \A k \in next : k <= i].head
  BY DEF HeadAfter
<1>3. next = stream
  OBVIOUS
<1>4. HeadAfter(n, h)' = IF stream = {} THEN ZeroHead ELSE ledger'[c].head
  BY <1>2, <1>3, Zenon
<1>5. stream \subseteq 1 .. n
  OBVIOUS
<1> HIDE DEF stream, next
<1>6. CASE stream = {}
  BY <1>1, <1>4, <1>6
<1>7. CASE stream # {}
  <2>1. \E i \in stream : \A k \in stream : k <= i
    BY <1>5, <1>7, GreatestExists
  <2>2. c \in stream
    BY <2>1, Zenon
  <2> HIDE DEF c
  <2>3. ledger'[c] = ledger[c]
    BY <1>5, <2>2
  <2> QED
    BY <1>1, <1>4, <1>7, <2>3
<1> QED
  BY <1>6, <1>7

\* Commitments once final stay, and so does everything read off them.
Persists ==
    /\ Len(ledger') \in Nat /\ Len(ledger) <= Len(ledger')
    /\ public'.proof.count \in Nat /\ public.proof.count <= public'.proof.count
    /\ \A n \in 1 .. Len(ledger) : ledger'[n] = ledger[n]
    /\ \A n \in 0 .. Len(ledger), h \in BOOLEAN : HeadAfter(n, h)' = HeadAfter(n, h)

\* Heads are those of a prefix, so appending to the ledger changes none
\* before it.
LEMMA AppendKeepsHeads ==
    ASSUME Len(ledger) \in Nat, \A n \in 1 .. Len(ledger) : ledger'[n] = ledger[n]
    PROVE  \A n \in 0 .. Len(ledger), h \in BOOLEAN : HeadAfter(n, h)' = HeadAfter(n, h)
<1> SUFFICES ASSUME NEW n \in 0 .. Len(ledger), NEW h \in BOOLEAN
             PROVE  HeadAfter(n, h)' = HeadAfter(n, h)
  OBVIOUS
<1>1. n \in Nat /\ \A i \in 1 .. n : ledger'[i] = ledger[i]
  OBVIOUS
<1> QED
  BY <1>1, HeadKept

\* The page of a commitment does not change when the ledger grows.
LEMMA PageKept ==
    ASSUME Len(ledger) \in Nat, Persists, NEW n \in 1 .. Len(ledger)
    PROVE  Page(n)' = Page(n)
<1>1. ledger'[n] = ledger[n] /\ n \in 0 .. Len(ledger)
  BY DEF Persists
<1>2. HeadAfter(n, FALSE)' = HeadAfter(n, FALSE) /\ HeadAfter(n, TRUE)' = HeadAfter(n, TRUE)
  BY <1>1 DEF Persists
<1> QED
  BY <1>1, <1>2 DEF Page

-----------------------------------------------------------------------------
(* The history's own steps.                                                *)

\* A commitment appends one legal entry, and what is public stays the page of
\* its prefix.
LEMMA CommitStep ==
    ASSUME HistoryInv, NEW op \in Operations, NEW lifecycle \in LifecycleStates,
           NEW meta \in Int, NEW removed \in BOOLEAN, removed = (op = "publication_removed"),
           Commit(op, lifecycle, removed, meta)
    PROVE  HistoryInv' /\ Persists
<1> DEFINE n == Len(ledger) + 1
           own == op = "handoff_checkpointed"
           entry == [id |-> n, op |-> op, sequence |-> n, lifecycle |-> lifecycle,
                     removed |-> removed, meta |-> meta]
           head == Append(HeadAfter(n - 1, own), entry)
<1>1. /\ ledger \in Seq(Commitments) /\ Len(ledger) \in Nat /\ Len(ledger) <= MaxCommits
      /\ \A k \in 1 .. Len(ledger) : ledger[k] \in Commitments
  BY DEF HistoryInv, LedgerIsLegal
<1>2. PICK sig \in Sigs :
         ledger' = Append(ledger, [op |-> op, lifecycle |-> lifecycle, removed |-> removed,
                                   meta |-> meta, head |-> head, sig |-> sig])
  BY DEF Commit, StreamHead
<1> DEFINE new == [op |-> op, lifecycle |-> lifecycle, removed |-> removed,
                   meta |-> meta, head |-> head, sig |-> sig]
<1>3. n <= MaxCommits /\ public' = public
  BY DEF Commit
<1>4. own \in BOOLEAN /\ n - 1 \in 0 .. Len(ledger) /\ n \in Nat
  BY <1>1
<1>5. entry \in Entries /\ HeadAfter(n - 1, own) \in Heads
  BY <1>1, <1>4, HeadType DEF Entries
<1>6. head \in Heads
  BY <1>5 DEF Heads
<1>7. new \in Commitments /\ new.op = op /\ new.removed = removed /\ new.head = head
  BY <1>6 DEF Commitments
<1>8. ledger' = Append(ledger, new)
  BY <1>2
<1> HIDE DEF new
<1>9. /\ ledger' \in Seq(Commitments) /\ Len(ledger') = n
      /\ ledger'[n] = new /\ \A k \in 1 .. Len(ledger) : ledger'[k] = ledger[k]
  BY <1>1, <1>7, <1>8
<1>10. \A k \in 0 .. Len(ledger), h \in BOOLEAN : HeadAfter(k, h)' = HeadAfter(k, h)
  BY <1>1, <1>9, AppendKeepsHeads
<1>11. public.proof.count \in 0 .. Len(ledger)
  BY DEF HistoryInv, PublicIsPage
<1>12. Persists
  BY <1>1, <1>3, <1>4, <1>9, <1>10, <1>11 DEF Persists
<1>13. LedgerIsLegal'
  <2>1. ASSUME NEW k \in 1 .. Len(ledger')
        PROVE  /\ ledger'[k].removed = (ledger'[k].op = "publication_removed")
               /\ \E e \in Entries : ledger'[k].head = Append(HeadAfter(k - 1, OwnStream(k))', e)
    <3>1. CASE k = n
      <4>1. OwnStream(k)' = own
        BY <1>7, <1>9, <3>1 DEF OwnStream
      <4>2. HeadAfter(k - 1, own)' = HeadAfter(n - 1, own)
        BY <1>4, <1>10, <3>1
      <4>3. HeadAfter(k - 1, OwnStream(k))' = HeadAfter(n - 1, own)
        BY <4>1, <4>2
      <4> QED
        BY <1>5, <1>7, <1>9, <3>1, <4>3
    <3>2. CASE k # n
      <4>1. k \in 1 .. Len(ledger) /\ k - 1 \in 0 .. Len(ledger)
        BY <1>1, <1>9, <3>2
      <4>2. ledger'[k] = ledger[k] /\ OwnStream(k)' = OwnStream(k) /\ OwnStream(k) \in BOOLEAN
        BY <1>9, <4>1 DEF OwnStream
      <4>3. HeadAfter(k - 1, OwnStream(k))' = HeadAfter(k - 1, OwnStream(k))
        BY <1>10, <4>1, <4>2
      <4> QED
        BY <4>1, <4>2, <4>3 DEF HistoryInv, LedgerIsLegal
    <3> QED
      BY <3>1, <3>2
  <2> QED
    BY <1>3, <1>9, <2>1 DEF LedgerIsLegal
<1>14. PublicIsPage'
  <2>1. public.proof.count \in 0 .. Len(ledger')
    BY <1>1, <1>9, <1>11
  <2>2. CASE public.proof.count = 0
    BY <1>3, <2>1, <2>2 DEF HistoryInv, PublicIsPage, NoPage, ZeroHead, ZeroHash
  <2>3. CASE public.proof.count # 0
    <3>1. public.proof.count \in 1 .. Len(ledger)
      BY <1>1, <1>11, <2>3
    <3>2. Page(public.proof.count)' = Page(public.proof.count)
      BY <1>1, <1>3, <1>12, <3>1, PageKept
    <3> QED
      BY <1>3, <2>1, <2>3, <3>2 DEF HistoryInv, PublicIsPage
  <2> QED
    BY <2>2, <2>3
<1> QED
  BY <1>12, <1>13, <1>14 DEF HistoryInv

\* Each of the five operations is a legal commitment.
LEMMA CommitsStep ==
    ASSUME HistoryInv, Commits
    PROVE  HistoryInv' /\ Persists
<1>1. ledger # << >> => Last \in Commitments
  BY DEF HistoryInv, LedgerIsLegal, Last
<1>2. ledger # << >> => Last.lifecycle \in LifecycleStates /\ Last.meta \in Int
  BY <1>1 DEF Commitments
<1>3. CASE Publication
  <2>1. Commit("issue_created", "open", FALSE, 1)
    BY <1>3 DEF Publication
  <2>2. /\ "issue_created" \in Operations /\ "open" \in LifecycleStates /\ 1 \in Int
        /\ FALSE = ("issue_created" = "publication_removed")
    BY DEF Operations, LifecycleStates
  <2> QED
    BY <2>1, <2>2, CommitStep
<1>4. CASE Correction
  <2>1. Last.lifecycle \in LifecycleStates /\ Last.meta + 1 \in Int
    BY <1>2, <1>4 DEF Correction, Open
  <2> QED
    BY <1>4, <2>1, CommitStep DEF Correction, Operations
<1>5. CASE Checkpoint
  <2>1. Last.lifecycle \in LifecycleStates /\ Last.meta \in Int
    BY <1>2, <1>5 DEF Checkpoint, Open
  <2> QED
    BY <1>5, <2>1, CommitStep DEF Checkpoint, Operations
<1>6. CASE Removal
  <2>1. Last.lifecycle \in LifecycleStates
    BY <1>2, <1>6 DEF Removal, Open
  <2>2. Commit("publication_removed", Last.lifecycle, TRUE, Tombstone)
    BY <1>6 DEF Removal
  <2>3. /\ "publication_removed" \in Operations /\ Tombstone \in Int
        /\ TRUE = ("publication_removed" = "publication_removed")
    BY DEF Operations, Tombstone
  <2> QED
    BY <2>1, <2>2, <2>3, CommitStep
<1>7. ASSUME NEW to \in Lifecycles, LifecycleChange(to) PROVE HistoryInv' /\ Persists
  <2>1. Last.lifecycle \in LifecycleStates /\ Last.meta \in Int
        /\ to \in LifecycleTransitions[Last.lifecycle]
    BY <1>2, <1>7 DEF LifecycleChange, Open
  <2>2. to \in LifecycleStates
    BY <2>1 DEF LifecycleTransitions, LifecycleStates
  <2> QED
    BY <1>7, <2>1, <2>2, CommitStep DEF LifecycleChange, Operations
<1> QED
  BY <1>3, <1>4, <1>5, <1>6, <1>7 DEF Commits

\* The public record moves from one page to the next.
LEMMA TurnPageStep ==
    ASSUME HistoryInv, TurnPage
    PROVE  HistoryInv' /\ Persists
<1>0. PICK n \in {public.proof.count + 1} : TRUE
  OBVIOUS
<1>1. Len(ledger) \in Nat /\ public.proof.count \in Nat /\ n \in 1 .. Len(ledger)
  BY <1>0 DEF HistoryInv, LedgerIsLegal, PublicIsPage, TurnPage
<1>2. public' = Page(n) /\ ledger' = ledger
  BY <1>0 DEF TurnPage
<1>3. public'.proof.count = n
  BY <1>2 DEF Page
<1>4. \A k \in 0 .. Len(ledger), h \in BOOLEAN : HeadAfter(k, h)' = HeadAfter(k, h)
  BY <1>1, <1>2, AppendKeepsHeads
<1>5. Persists
  BY <1>1, <1>2, <1>3, <1>4 DEF Persists
<1>6. LedgerIsLegal'
  <2>1. \A k \in 1 .. Len(ledger) : OwnStream(k)' = OwnStream(k) /\ OwnStream(k) \in BOOLEAN
    BY <1>2 DEF OwnStream
  <2>2. \A k \in 1 .. Len(ledger) :
           HeadAfter(k - 1, OwnStream(k))' = HeadAfter(k - 1, OwnStream(k))
    BY <1>1, <1>4, <2>1
  <2> QED
    BY <1>2, <2>2 DEF HistoryInv, LedgerIsLegal
<1>7. Page(n)' = Page(n)
  BY <1>1, <1>5, PageKept
<1>8. PublicIsPage'
  BY <1>1, <1>2, <1>3, <1>7 DEF PublicIsPage
<1> QED
  BY <1>5, <1>6, <1>8 DEF HistoryInv

\* Where the history stands still.
LEMMA HistoryStands ==
    ASSUME HistoryInv, UNCHANGED history
    PROVE  HistoryInv' /\ Persists
<1>1. ledger' = ledger /\ public' = public
  BY DEF history
<1>2. Len(ledger) \in Nat /\ public.proof.count \in Nat
  BY DEF HistoryInv, LedgerIsLegal, PublicIsPage
<1>3. \A k \in 0 .. Len(ledger), h \in BOOLEAN : HeadAfter(k, h)' = HeadAfter(k, h)
  BY <1>1, <1>2, AppendKeepsHeads
<1>4. Persists
  BY <1>1, <1>2, <1>3 DEF Persists
<1>6. LedgerIsLegal'
  <2>1. \A k \in 1 .. Len(ledger) : OwnStream(k)' = OwnStream(k) /\ OwnStream(k) \in BOOLEAN
    BY <1>1 DEF OwnStream
  <2>2. \A k \in 1 .. Len(ledger) :
           HeadAfter(k - 1, OwnStream(k))' = HeadAfter(k - 1, OwnStream(k))
    BY <1>2, <1>3, <2>1
  <2> QED
    BY <1>1, <2>2 DEF HistoryInv, LedgerIsLegal
<1>7. PublicIsPage'
  <2>1. CASE public.proof.count = 0
    BY <1>1, <2>1 DEF HistoryInv, PublicIsPage, NoPage, ZeroHead, ZeroHash
  <2>2. CASE public.proof.count # 0
    <3>1. public.proof.count \in 1 .. Len(ledger)
      BY <1>2, <2>2 DEF HistoryInv, PublicIsPage
    <3>2. Page(public.proof.count)' = Page(public.proof.count)
      BY <1>1, <1>2, <1>4, <3>1, PageKept
    <3> QED
      BY <1>1, <2>2, <3>2 DEF HistoryInv, PublicIsPage
  <2> QED
    BY <2>1, <2>2
<1> QED
  BY <1>4, <1>6, <1>7 DEF HistoryInv

-----------------------------------------------------------------------------
(* What the readers read.                                                  *)

\* The public record, in its parts.
LEMMA PublicFacts ==
    ASSUME HistoryInv
    PROVE  /\ Len(ledger) \in Nat /\ Len(ledger) <= MaxCommits
           /\ public.proof.count \in Nat /\ public.proof.count <= Len(ledger)
           /\ public.state \in {"absent", "published", "removed"} /\ public.version \in Int
           /\ public.lifecycle \in LifecycleStates \cup {"none"}
           /\ public.proof.meta \in Int /\ public.proof.sig \in Sigs \cup {0}
           /\ public.proof.timeline \in Heads /\ public.proof.handoff \in Heads
           /\ public.proof.count > 0 =>
                 /\ (public.state = "removed") = ledger[public.proof.count].removed
                 /\ public.proof.meta = ledger[public.proof.count].meta
                 /\ public.proof.sig = ledger[public.proof.count].sig
                 /\ public.proof.timeline = HeadAfter(public.proof.count, FALSE)
                 /\ public.proof.handoff = HeadAfter(public.proof.count, TRUE)
<1> DEFINE n == public.proof.count
<1>1. Len(ledger) \in Nat /\ Len(ledger) <= MaxCommits /\ n \in Nat /\ n <= Len(ledger)
  BY DEF HistoryInv, LedgerIsLegal, PublicIsPage
<1>2. CASE n = 0
  <2>1. public = NoPage
    BY <1>2 DEF HistoryInv, PublicIsPage
  <2>2. ZeroHead \in Heads
    BY DEF ZeroHead, Heads
  <2> QED
    BY <1>1, <1>2, <2>1, <2>2 DEF NoPage, ZeroHash
<1>3. CASE n # 0
  <2>1. n \in 1 .. Len(ledger) /\ n \in 0 .. Len(ledger)
    BY <1>1, <1>3
  <2>2. ledger[n] \in Commitments
    BY <2>1 DEF HistoryInv, LedgerIsLegal
  <2>3. HeadAfter(n, FALSE) \in Heads /\ HeadAfter(n, TRUE) \in Heads
    BY <2>1, HeadType DEF HistoryInv, LedgerIsLegal
  <2>4. public = Page(n)
    BY <1>3 DEF HistoryInv, PublicIsPage
  <2> HIDE DEF n
  <2>5. /\ public.state = (IF ledger[n].removed THEN "removed" ELSE "published")
        /\ public.version = (IF ledger[n].removed THEN 0 ELSE ledger[n].meta)
        /\ public.lifecycle = (IF ledger[n].removed THEN "none" ELSE ledger[n].lifecycle)
        /\ public.proof.meta = ledger[n].meta /\ public.proof.sig = ledger[n].sig
        /\ public.proof.timeline = HeadAfter(n, FALSE)
        /\ public.proof.handoff = HeadAfter(n, TRUE)
    BY <2>4 DEF Page
  <2>6. ledger[n].removed \in BOOLEAN /\ ledger[n].meta \in Int /\ ledger[n].sig \in Sigs
        /\ ledger[n].lifecycle \in LifecycleStates
    BY <2>2 DEF Commitments
  <2>7. n = public.proof.count
    BY DEF n
  <2>8. /\ (public.state = "removed") = ledger[n].removed
        /\ public.state \in {"absent", "published", "removed"} /\ public.version \in Int
        /\ public.lifecycle \in LifecycleStates \cup {"none"}
    BY <2>5, <2>6
  <2>9. /\ public.proof.meta \in Int /\ public.proof.sig \in Sigs \cup {0}
        /\ public.proof.timeline \in Heads /\ public.proof.handoff \in Heads
    BY <2>3, <2>5, <2>6
  <2>10. /\ (public.state = "removed") = ledger[public.proof.count].removed
         /\ public.proof.meta = ledger[public.proof.count].meta
         /\ public.proof.sig = ledger[public.proof.count].sig
         /\ public.proof.timeline = HeadAfter(public.proof.count, FALSE)
         /\ public.proof.handoff = HeadAfter(public.proof.count, TRUE)
    BY <2>5, <2>7, <2>8, Zenon
  <2> QED
    BY <1>1, <2>7, <2>8, <2>9, <2>10
<1> QED
  BY <1>2, <1>3

\* What a statement reads of the public tables is typed and, while nothing is
\* altered, true.
LEMMA RowTypes ==
    ASSUME HistoryInv, ReadersType
    PROVE  /\ IssueRow \in Rows /\ IssueRow.at = public.proof.count
           /\ IssueRow.state = public.state
           /\ altered = {} => IssueRow.place \in {Place, Absent}
           /\ ProofRow \in ProofRows /\ ProofRow.event = public.proof.count
           /\ altered = {} /\ public.proof.count > 0 =>
                 ProofRow = TrueProof(public.proof.count)
<1>1. ForgedHead \in Heads
  BY DEF ForgedHead, Heads, Entries, Operations, LifecycleStates, ForgedMeta
<1>2. /\ Stored("text", public.version, ForgedMeta) \in Int
      /\ Stored("place", Place, Forged) \in {Place, Forged}
  BY PublicFacts DEF Stored, ForgedMeta
<1>3. IssueRow \in Rows /\ IssueRow.at = public.proof.count /\ IssueRow.state = public.state
  BY <1>2, PublicFacts DEF IssueRow, Rows, ReadersType
<1>4. altered = {} => IssueRow.place \in {Place, Absent}
  BY DEF IssueRow, Stored
<1>5. /\ Stored("canonical", public.proof.meta, ForgedMeta) \in Int
      /\ Stored("metadata", public.proof.meta, ForgedMeta) \in Int
      /\ Stored("count", public.proof.count, 0) \in Nat
      /\ Stored("signature", public.proof.sig, 0) \in Sigs \cup {0}
  BY PublicFacts DEF Stored, ForgedMeta
<1>6. /\ Stored("timeline", public.proof.timeline, ForgedHead) \in Heads
      /\ Stored("handoff", public.proof.handoff, ForgedHead) \in Heads
  BY <1>1, PublicFacts DEF Stored
<1>7. /\ Stored("evidence", Photo, Forged) \in {Photo, Forged, Absent}
      /\ Stored("location", Place, Forged) \in {Place, Forged, Absent}
  BY DEF Stored
<1>8. ProofRow \in ProofRows /\ ProofRow.event = public.proof.count
  BY <1>5, <1>6, <1>7, PublicFacts DEF ProofRow, ProofRows
<1>9. altered = {} /\ public.proof.count > 0 => ProofRow = TrueProof(public.proof.count)
  BY PublicFacts DEF ProofRow, TrueProof, Stored
<1> QED
  BY <1>3, <1>4, <1>8, <1>9

\* The initial records of readers have their types.
LEMMA Defaults ==
    /\ NoRow \in Rows /\ NoRow.at = 0
    /\ NoProofRow \in ProofRows /\ NoProofRow.event = 0
    /\ NoDetail \in Details /\ NoDetail.kind = "none" /\ ~NoDetail.proofAvailable
    /\ IdlePage \in PagesSet /\ IdlePage.pc = "idle" /\ IdlePage.detail = NoDetail
    /\ IdlePage.row = NoRow /\ ~IdlePage.proofAvailable
    /\ Unread \in Answers /\ Unread.kind = "unread" /\ NoVerdict \in Verdicts
    /\ IdleCheck \in Checks /\ IdleCheck.pc = "idle" /\ IdleCheck.row = NoRow
    /\ IdleCheck.proof = NoProofRow /\ IdleCheck.bytes = Absent
    /\ IdleCheck.verdict = NoVerdict /\ ~IdleCheck.disturbed
    /\ \A p \in Providers : IdleCheck.answers[p] = Unread
<1>1. NoRow \in Rows /\ NoRow.at = 0
  BY DEF NoRow, Rows
<1>2. ZeroHead \in Heads
  BY DEF ZeroHead, Heads
<1>3. NoProofRow \in ProofRows /\ NoProofRow.event = 0
  BY <1>2 DEF NoProofRow, ProofRows
<1>4. NoDetail \in Details /\ NoDetail.kind = "none" /\ ~NoDetail.proofAvailable
  BY <1>1, ReadsAssumption DEF NoDetail, Details
<1>5. /\ IdlePage \in PagesSet /\ IdlePage.pc = "idle" /\ IdlePage.detail = NoDetail
      /\ IdlePage.row = NoRow /\ ~IdlePage.proofAvailable
  BY <1>1, <1>4 DEF IdlePage, PagesSet
<1>6. Unread \in Answers /\ Unread.kind = "unread" /\ NoVerdict \in Verdicts
  BY DEF Unread, Answers, NoVerdict, Verdicts
<1>7. /\ IdleCheck \in Checks /\ IdleCheck.pc = "idle" /\ IdleCheck.row = NoRow
      /\ IdleCheck.proof = NoProofRow /\ IdleCheck.bytes = Absent
      /\ IdleCheck.verdict = NoVerdict /\ ~IdleCheck.disturbed
      /\ \A p \in Providers : IdleCheck.answers[p] = Unread
  BY <1>1, <1>3, <1>6 DEF IdleCheck, Checks
<1> QED
  BY <1>1, <1>3, <1>4, <1>5, <1>6, <1>7

\* What an honest node reports has its type.
LEMMA ObservationType ==
    ASSUME HistoryInv, NEW n \in 1 .. Len(ledger), NEW seen \in 1 .. Len(ledger)
    PROVE  Observation(seen, n) \in Answers
<1>1. ledger[n] \in Commitments /\ ledger[seen] \in Commitments /\ Len(ledger) \in Nat
  BY DEF HistoryInv, LedgerIsLegal
<1>2. n - 1 \in 0 .. Len(ledger) /\ n \in 0 .. Len(ledger) /\ seen \in 0 .. Len(ledger)
  BY <1>1
<1>3. \A h \in BOOLEAN : /\ HeadAfter(n, h) \in Heads /\ HeadAfter(n - 1, h) \in Heads
                         /\ HeadAfter(seen, h) \in Heads
  BY <1>2, HeadType DEF HistoryInv, LedgerIsLegal
<1>4. Account(seen) \in Accounts
  <2>1. seen \in Nat
    BY <1>1
  <2>6. HeadAfter(seen, FALSE) \in Heads /\ HeadAfter(seen, TRUE) \in Heads
    BY <1>2, HeadType DEF HistoryInv, LedgerIsLegal
  <2>2. /\ ledger[seen].lifecycle \in LifecycleStates /\ ledger[seen].removed \in BOOLEAN
        /\ ledger[seen].meta \in Int
    BY <1>1 DEF Commitments
  <2>3. Account(seen) =
           [ count |-> seen, timeline |-> HeadAfter(seen, FALSE),
             handoff |-> HeadAfter(seen, TRUE), lifecycle |-> ledger[seen].lifecycle,
             removed |-> ledger[seen].removed, meta |-> ledger[seen].meta,
             evidence |-> Photo, location |-> Place ]
    BY DEF Account
  <2> DEFINE a == HeadAfter(seen, FALSE)
             b == HeadAfter(seen, TRUE)
  <2>4. a \in Heads /\ b \in Heads
    BY <2>6
  <2>5. Account(seen) =
           [ count |-> seen, timeline |-> a, handoff |-> b, lifecycle |-> ledger[seen].lifecycle,
             removed |-> ledger[seen].removed, meta |-> ledger[seen].meta,
             evidence |-> Photo, location |-> Place ]
    BY <2>3
  <2> HIDE DEF a, b
  <2> QED
    BY <2>1, <2>2, <2>4, <2>5 DEF Accounts
<1>5. Event(n) \in Events
  <2> DEFINE h == ledger[n].op = "handoff_checkpointed"
  <2>1. h \in BOOLEAN
    OBVIOUS
  <2>2. HeadAfter(n, h) \in Heads /\ HeadAfter(n - 1, h) \in Heads
    BY <1>3, <2>1
  <2> HIDE DEF h
  <2>3. Event(n) = [ op |-> ledger[n].op, sequence |-> n, lifecycle |-> ledger[n].lifecycle,
                     removed |-> ledger[n].removed, meta |-> ledger[n].meta,
                     evidence |-> Photo, location |-> Place,
                     previous |-> HeadAfter(n - 1, h), head |-> HeadAfter(n, h) ]
    BY DEF Event, h
  <2> QED
    BY <1>1, <1>2, <2>2, <2>3 DEF Events, Commitments
<1> QED
  BY <1>4, <1>5 DEF Observation, Answers

\* An observation says the same whatever is committed after it.
LEMMA ObservationKept ==
    ASSUME HistoryInv, Persists, NEW n \in 1 .. Len(ledger), NEW seen \in 1 .. Len(ledger)
    PROVE  Observation(seen, n)' = Observation(seen, n) /\ TrueProof(n)' = TrueProof(n)
<1>1. Len(ledger) \in Nat /\ ledger'[n] = ledger[n] /\ ledger'[seen] = ledger[seen]
  BY PublicFacts DEF Persists
<1>2. n - 1 \in 0 .. Len(ledger) /\ n \in 0 .. Len(ledger) /\ seen \in 0 .. Len(ledger)
  BY <1>1
<1>3. \A h \in BOOLEAN : /\ HeadAfter(n, h)' = HeadAfter(n, h)
                         /\ HeadAfter(n - 1, h)' = HeadAfter(n - 1, h)
                         /\ HeadAfter(seen, h)' = HeadAfter(seen, h)
  BY <1>2 DEF Persists
<1>4. Account(seen)' = Account(seen)
  BY <1>1, <1>3 DEF Account
<1>5. Event(n)' = Event(n)
  <2>1. OwnStream(n)' = OwnStream(n) /\ OwnStream(n) \in BOOLEAN
    BY <1>1 DEF OwnStream
  <2>2. /\ HeadAfter(n, OwnStream(n))' = HeadAfter(n, OwnStream(n))
        /\ HeadAfter(n - 1, OwnStream(n))' = HeadAfter(n - 1, OwnStream(n))
    BY <1>3, <2>1
  <2>3. Event(n) = [ op |-> ledger[n].op, sequence |-> n, lifecycle |-> ledger[n].lifecycle,
                     removed |-> ledger[n].removed, meta |-> ledger[n].meta,
                     evidence |-> Photo, location |-> Place,
                     previous |-> HeadAfter(n - 1, OwnStream(n)),
                     head |-> HeadAfter(n, OwnStream(n)) ]
    BY DEF Event, OwnStream
  <2>4. Event(n)' = [ op |-> ledger'[n].op, sequence |-> n, lifecycle |-> ledger'[n].lifecycle,
                      removed |-> ledger'[n].removed, meta |-> ledger'[n].meta,
                      evidence |-> Photo, location |-> Place,
                      previous |-> HeadAfter(n - 1, OwnStream(n))',
                      head |-> HeadAfter(n, OwnStream(n))' ]
    BY DEF Event, OwnStream
  <2> QED
    BY <1>1, <2>2, <2>3, <2>4
<1>6. TrueProof(n)' = TrueProof(n)
  BY <1>1, <1>3 DEF TrueProof
<1> QED
  BY <1>4, <1>5, <1>6 DEF Observation

\* Whatever was read, the verdict is one of the words the site shows.
LEMMA VerdictType ==
    ASSUME TRUE
    PROVE  Verdict \in Verdicts
<1>1. \A a, e, r : ChainVerdict(a, e, r) \in {"confirmed", "mismatch", "unknown_dependency_error"}
  BY DEF ChainVerdict
<1>2. Verdict.chain = ChainVerdict(check.answers, check.proof, check.row.state = "removed")
  BY DEF Verdict
<1>3. ChainVerdict(check.answers, check.proof, check.row.state = "removed")
         \in {"none", "confirmed", "mismatch", "unknown_dependency_error"}
  BY <1>1
<1> QED
  BY <1>3 DEF Verdict, Verdicts

\* The verdict follows from what was read.
LEMMA VerdictKept ==
    ASSUME check'.proof = check.proof, check'.row = check.row,
           check'.bytes = check.bytes, check'.answers = check.answers
    PROVE  Verdict' = Verdict
BY DEF Verdict

-----------------------------------------------------------------------------
(* Steps that leave a part of the readers alone.                           *)

\* Growth of the history makes no page less whole.
LEMMA PagesKept ==
    ASSUME Inv, Persists, UNCHANGED <<cached, page>>
    PROVE  PagesComeWhole'
<1>1. /\ cached' = cached /\ page' = page
      /\ public.proof.count \in Nat /\ public'.proof.count \in Nat
      /\ public.proof.count <= public'.proof.count
  BY PublicFacts DEF Persists, Inv
<1>2. page.row.at \in Nat
  BY DEF Inv, ReadersInv, ReadersType, PagesSet, Rows
<1>3. \A d : Whole(d) => Whole(d)'
  BY <1>1 DEF Whole
<1>4. \A r : Hidden(r)' = Hidden(r)
  BY DEF Hidden
<1> QED
  BY <1>1, <1>2, <1>3, <1>4 DEF Inv, ReadersInv, PagesComeWhole

\* Growth of the history keeps what a check knows.
LEMMA CheckKept ==
    ASSUME Inv, Persists, UNCHANGED check, altered' \subseteq altered
    PROVE  CheckAdvances' /\ AnswersAreHonest' /\ RowsAreTrue' /\ VerdictStands'
<1>1. /\ check' = check /\ HistoryInv /\ Len(ledger) \in Nat
      /\ public.proof.count \in Nat /\ public'.proof.count \in Nat
      /\ public.proof.count <= public'.proof.count /\ public.proof.count <= Len(ledger)
      /\ Len(ledger') \in Nat /\ Len(ledger) <= Len(ledger')
  BY PublicFacts DEF Persists, Inv
<1>2. check.shownAtStart \in Nat /\ check.proof.event \in Nat /\ check.row.at \in Nat
  BY DEF Inv, ReadersInv, ReadersType, Checks, ProofRows, Rows
<1>3. CheckAdvances'
  BY <1>1, <1>2 DEF Inv, ReadersInv, CheckAdvances
<1>4. AnswersAreHonest'
  <2> SUFFICES ASSUME NEW p \in Providers, check.answers[p].kind = "observed",
                      p \notin FalseProviders \/ ~check.disturbed
               PROVE  /\ check.proof.event \in 1 .. Len(ledger')
                      /\ \E seen \in check.proof.event .. Len(ledger') :
                            check.answers[p] = Observation(seen, check.proof.event)'
    BY <1>1 DEF AnswersAreHonest
  <2>1. PICK e \in 1 .. Len(ledger) : e = check.proof.event
    BY DEF Inv, ReadersInv, AnswersAreHonest
  <2>2. PICK seen \in e .. Len(ledger) : check.answers[p] = Observation(seen, e)
    BY <2>1 DEF Inv, ReadersInv, AnswersAreHonest
  <2>3. seen \in 1 .. Len(ledger)
    BY <1>1
  <2>4. Observation(seen, e)' = Observation(seen, e)
    BY <1>1, <2>3, ObservationKept
  <2>5. Observation(seen, check.proof.event)' = Observation(seen, e)'
    BY <1>1, <2>1
  <2>6. seen \in check.proof.event .. Len(ledger') /\ check.proof.event \in 1 .. Len(ledger')
    BY <1>1, <2>1
  <2> QED
    BY <2>2, <2>4, <2>5, <2>6
<1>5. RowsAreTrue'
  <2> SUFFICES ASSUME check.pc # "idle", ~check.disturbed
               PROVE  /\ altered' = {}
                      /\ check.proof # NoProofRow =>
                            check.proof = TrueProof(check.proof.event)'
                      /\ check.row # NoRow =>
                            /\ check.row.at \in check.shownAtStart .. public'.proof.count
                            /\ (check.row.state = "removed") = ledger'[check.row.at].removed
                            /\ check.row.place \in {Place, Absent}
    BY <1>1 DEF RowsAreTrue
  <2>1. /\ altered = {}
        /\ check.proof # NoProofRow => check.proof = TrueProof(check.proof.event)
        /\ check.row # NoRow =>
              /\ check.row.at \in check.shownAtStart .. public.proof.count
              /\ (check.row.state = "removed") = ledger[check.row.at].removed
              /\ check.row.place \in {Place, Absent}
    BY DEF Inv, ReadersInv, RowsAreTrue
  <2>2. /\ check.shownAtStart \in 1 .. public.proof.count
        /\ check.proof # NoProofRow =>
              check.proof.event \in check.shownAtStart .. public.proof.count
    BY DEF Inv, ReadersInv, CheckAdvances
  <2>3. ASSUME check.proof # NoProofRow
        PROVE  check.proof = TrueProof(check.proof.event)'
    <3>1. PICK e \in 1 .. Len(ledger) : e = check.proof.event
      BY <1>1, <1>2, <2>2, <2>3
    <3>2. TrueProof(e)' = TrueProof(e)
      BY <1>1, <3>1, ObservationKept
    <3>3. TrueProof(check.proof.event)' = TrueProof(e)'
      BY <1>1, <3>1
    <3> QED
      BY <2>1, <2>3, <3>1, <3>2, <3>3
  <2>4. ASSUME check.row # NoRow
        PROVE  /\ check.row.at \in check.shownAtStart .. public'.proof.count
               /\ (check.row.state = "removed") = ledger'[check.row.at].removed
    <3>1. check.row.at \in 1 .. Len(ledger)
      BY <1>1, <1>2, <2>1, <2>2, <2>4
    <3>2. ledger'[check.row.at] = ledger[check.row.at]
      BY <3>1 DEF Persists
    <3> QED
      BY <1>1, <1>2, <2>1, <2>4, <3>2
  <2> QED
    BY <2>1, <2>3, <2>4
<1>6. VerdictStands'
  BY <1>1, VerdictKept DEF Inv, ReadersInv, VerdictStands
<1> QED
  BY <1>3, <1>4, <1>5, <1>6

-----------------------------------------------------------------------------
(* The steps of the world around the readers, and of the page.             *)

\* Nobody has read anything of an empty history.
LEMMA InitInv == Init => Inv
<1> SUFFICES ASSUME Init PROVE Inv
  OBVIOUS
<1>1. ledger = << >> /\ public = NoPage
  BY DEF Init, HistoryInit
<1>2. HistoryInv
  BY <1>1, ReadsAssumption DEF HistoryInv, LedgerIsLegal, PublicIsPage, NoPage
<1>3. /\ altered = {} /\ restricted = FALSE /\ readEnabled = TRUE
      /\ cached = NoDetail /\ page = IdlePage /\ check = IdleCheck
  BY DEF Init
<1>4. ReadersType
  BY <1>3, Defaults DEF ReadersType
<1>5. PagesComeWhole
  BY <1>3, Defaults DEF PagesComeWhole, Whole
<1>6. CheckAdvances /\ AnswersAreHonest /\ RowsAreTrue /\ VerdictStands
  BY <1>3, Defaults DEF CheckAdvances, AnswersAreHonest, RowsAreTrue, VerdictStands
<1> QED
  BY <1>2, <1>4, <1>5, <1>6 DEF Inv, ReadersInv

\* Steps that leave page, check and cache alone and repair fields at most.
LEMMA QuietStep ==
    ASSUME Inv, HistoryInv', Persists, UNCHANGED <<cached, page, check>>,
           altered' \subseteq altered, restricted' \in BOOLEAN, readEnabled' \in BOOLEAN
    PROVE  Inv'
<1>1. ReadersType'
  BY DEF Inv, ReadersInv, ReadersType
<1> QED
  BY <1>1, PagesKept, CheckKept DEF Inv, ReadersInv

\* The history moves under readers that do not.
LEMMA HistoryMovesStep ==
    ASSUME Inv, HistoryMoves
    PROVE  Inv'
<1>1. HistoryInv' /\ Persists
  BY CommitsStep, TurnPageStep DEF HistoryMoves, Inv
<1>2. /\ UNCHANGED <<cached, page, check>> /\ altered' \subseteq altered
      /\ restricted' = restricted /\ readEnabled' = readEnabled
  BY DEF HistoryMoves, readers
<1> QED
  BY <1>1, <1>2, QuietStep DEF Inv, ReadersInv, ReadersType

\* A restriction changes what later reads answer.
LEMMA RestrictStep ==
    ASSUME Inv, Restrict
    PROVE  Inv'
<1>1. HistoryInv' /\ Persists
  BY HistoryStands DEF Restrict, Inv
<1> QED
  BY <1>1, QuietStep DEF Restrict, Inv, ReadersInv, ReadersType

\* The cache is emptied or left.
LEMMA CacheStep ==
    ASSUME Inv, ToggleRead \/ CacheExpires
    PROVE  Inv'
<1>1. UNCHANGED <<history, altered, restricted, page, check>> /\ cached' \in {cached, NoDetail}
      /\ readEnabled' \in BOOLEAN
  BY DEF ToggleRead, CacheExpires, Inv, ReadersInv, ReadersType
<1>2. HistoryInv' /\ Persists
  BY <1>1, HistoryStands DEF Inv
<1>3. ReadersType'
  BY <1>1, Defaults DEF Inv, ReadersInv, ReadersType
<1>4. PagesComeWhole'
  <2>1. public' = public
    BY <1>1 DEF history
  <2>2. Whole(cached)' /\ Whole(page.detail)'
    BY <1>1, <2>1, Defaults DEF Inv, ReadersInv, PagesComeWhole, Whole
  <2> QED
    BY <1>1, <2>1, <2>2 DEF Inv, ReadersInv, PagesComeWhole, Hidden
<1> QED
  BY <1>1, <1>2, <1>3, <1>4, CheckKept DEF Inv, ReadersInv

\* A step of the page.
LEMMA PageStep ==
    ASSUME Inv, UNCHANGED <<history, altered, restricted, readEnabled, check>>,
           page' \in PagesSet, cached' \in Details, cached'.kind # "restricted",
           PagesComeWhole'
    PROVE  Inv'
<1>1. HistoryInv' /\ Persists
  BY HistoryStands DEF Inv
<1>2. ReadersType'
  BY DEF Inv, ReadersInv, ReadersType
<1> QED
  BY <1>1, <1>2, CheckKept DEF Inv, ReadersInv

\* The parts of a page have their types.
LEMMA PageTypes ==
    ASSUME Inv
    PROVE  /\ page \in PagesSet /\ cached \in Details /\ cached.kind # "restricted"
           /\ page.row \in Rows /\ page.row.at \in Nat /\ page.detail \in Details
           /\ page.proofAvailable \in BOOLEAN /\ page.detail.events \in 0 .. MaxCommits
           /\ public.proof.count \in 0 .. MaxCommits
<1>1. page \in PagesSet /\ cached \in Details /\ cached.kind # "restricted"
  BY DEF Inv, ReadersInv, ReadersType
<1>2. page.row \in Rows /\ page.detail \in Details /\ page.proofAvailable \in BOOLEAN
  BY <1>1 DEF PagesSet
<1>3. page.row.at \in Nat /\ page.detail.events \in 0 .. MaxCommits
  BY <1>2 DEF Rows, Details
<1>4. public.proof.count \in 0 .. MaxCommits
  BY PublicFacts, ReadsAssumption DEF Inv
<1> QED
  BY <1>1, <1>2, <1>3, <1>4

\* A page from the shared cache is a page that was answered whole.
LEMMA OpenFromCacheStep ==
    ASSUME Inv, OpenFromCache
    PROVE  Inv'
<1>1. /\ UNCHANGED <<history, altered, restricted, readEnabled, check, cached>>
      /\ page' = [IdlePage EXCEPT !.pc = "shown", !.detail = cached]
  BY DEF OpenFromCache
<1>2. /\ page' \in PagesSet /\ page'.pc = "shown" /\ page'.detail = cached
      /\ ~page'.proofAvailable
  BY <1>1, Defaults, PageTypes DEF PagesSet
<1>3. PagesComeWhole'
  BY <1>1, <1>2 DEF Inv, ReadersInv, PagesComeWhole, Whole, history
<1> QED
  BY <1>1, <1>2, <1>3, PageTypes, PageStep

\* The row read first is no newer than what is public now.
LEMMA ReadIssueRowStep ==
    ASSUME Inv, ReadIssueRow
    PROVE  Inv'
<1>1. /\ UNCHANGED <<history, altered, restricted, readEnabled, check, cached>>
      /\ page' = [IdlePage EXCEPT !.pc = IF IssueRow.state = "absent" THEN "missing" ELSE "proof",
                                  !.row = IssueRow]
  BY DEF ReadIssueRow
<1>2. IssueRow \in Rows /\ IssueRow.at = public.proof.count /\ public.proof.count \in Nat
  BY RowTypes, PublicFacts DEF Inv, ReadersInv
<1>3. /\ page' \in PagesSet /\ page'.pc \in {"missing", "proof"} /\ page'.row = IssueRow
      /\ page'.detail = NoDetail /\ ~page'.proofAvailable
  BY <1>1, <1>2, Defaults DEF PagesSet
<1>4. PagesComeWhole'
  <2>1. Whole(cached)' /\ Whole(page.detail)'
    BY <1>1, <1>3, Defaults DEF Inv, ReadersInv, PagesComeWhole, Whole, history
  <2>2. public' = public
    BY <1>1 DEF history
  <2> QED
    BY <1>2, <1>3, <2>1, <2>2, Defaults DEF PagesComeWhole
<1> QED
  BY <1>1, <1>3, <1>4, PageTypes, PageStep

\* A proof that is announced belongs to a public commitment.
LEMMA ReadProofPresenceStep ==
    ASSUME Inv, ReadProofPresence
    PROVE  Inv'
<1> DEFINE pc == IF page.row.state = "removed" \/ Hidden(page.row) THEN "answer" ELSE "events"
<1>1. /\ UNCHANGED <<history, altered, restricted, readEnabled, check, cached>>
      /\ page.pc = "proof"
      /\ page' = [page EXCEPT !.pc = pc, !.proofAvailable = public.proof.count > 0]
  BY DEF ReadProofPresence
<1>2. /\ page' \in PagesSet /\ page'.pc = pc /\ page'.row = page.row
      /\ page'.detail = page.detail /\ page'.proofAvailable = (public.proof.count > 0)
  <2> DEFINE available == public.proof.count > 0
  <2>1. available \in BOOLEAN /\ pc \in {"answer", "events"}
    BY PageTypes
  <2>2. page' = [page EXCEPT !.pc = pc, !.proofAvailable = available]
    BY <1>1
  <2> HIDE DEF pc, available
  <2>3. /\ page' \in PagesSet /\ page'.pc = pc /\ page'.row = page.row
        /\ page'.detail = page.detail /\ page'.proofAvailable = available
    BY <2>1, <2>2, PageTypes DEF PagesSet
  <2> QED
    BY <2>3 DEF available
<1>3. PagesComeWhole'
  <2>1. public' = public /\ cached' = cached
    BY <1>1 DEF history
  <2>2. Whole(cached)' /\ Whole(page.detail)'
    BY <1>2, <2>1 DEF Inv, ReadersInv, PagesComeWhole, Whole
  <2>3. page.detail.kind = "none" /\ ~page.detail.proofAvailable
        /\ page.row.at <= public.proof.count
    BY <1>1 DEF Inv, ReadersInv, PagesComeWhole
  <2>4. Hidden(page.row)' = Hidden(page.row)
    BY <1>2 DEF Hidden
  <2> QED
    BY <1>2, <2>1, <2>2, <2>3, <2>4 DEF PagesComeWhole
<1> QED
  BY <1>1, <1>2, <1>3, PageTypes, PageStep

\* Events are read last, so they cover the row read before them.
LEMMA ReadEventsStep ==
    ASSUME Inv, ReadEvents
    PROVE  Inv'
<1>0. PICK detail \in Details : detail = [page.detail EXCEPT !.events = public.proof.count]
  BY PageTypes DEF Details
<1>1. /\ UNCHANGED <<history, altered, restricted, readEnabled, check, cached>>
      /\ page.pc = "events"
      /\ page' = [page EXCEPT !.pc = "answer", !.detail = detail]
  BY <1>0, PageTypes DEF ReadEvents, PagesSet
<1>2. /\ detail \in Details /\ detail.kind = page.detail.kind
      /\ detail.proofAvailable = page.detail.proofAvailable
      /\ detail.events = public.proof.count
  BY <1>0, PageTypes DEF Details
<1>3. /\ page' \in PagesSet /\ page'.pc = "answer" /\ page'.row = page.row
      /\ page'.detail = detail /\ page'.proofAvailable = page.proofAvailable
  BY <1>1, <1>2, PageTypes DEF PagesSet
<1>4. PagesComeWhole'
  <2>1. public' = public /\ cached' = cached
    BY <1>1 DEF history
  <2>2. /\ page.detail.kind = "none" /\ ~page.detail.proofAvailable
        /\ page.row.at <= public.proof.count /\ Whole(cached)
        /\ page.proofAvailable => public.proof.count > 0
    BY <1>1 DEF Inv, ReadersInv, PagesComeWhole
  <2>3. page'.detail.kind = "none" /\ page'.detail.proofAvailable = page.detail.proofAvailable
    BY <1>2, <1>3, <2>2
  <2>4. Whole(cached)' /\ Whole(page.detail)'
    BY <2>1, <2>2, <2>3 DEF Whole
  <2> QED
    BY <1>1, <1>2, <1>3, <2>1, <2>2, <2>4 DEF PagesComeWhole
<1> QED
  BY <1>1, <1>3, <1>4, PageTypes, PageStep

\* The answer, also where it goes to the shared cache, is made of a row and
\* of later events.
LEMMA AnswerDetailStep ==
    ASSUME Inv, AnswerDetail
    PROVE  Inv'
<1>1. /\ UNCHANGED <<history, altered, restricted, readEnabled, check>>
      /\ page.pc = "answer"
      /\ page' = [page EXCEPT !.pc = "shown", !.row = NoRow, !.detail = DetailAnswer]
      /\ cached' \in IF DetailAnswer.kind = "restricted" THEN {cached} ELSE {cached, DetailAnswer}
  BY DEF AnswerDetail
<1>2. /\ DetailAnswer.kind \in {"tombstone", "restricted", "content"}
      /\ DetailAnswer.kind = "content" => page.row.state # "removed" /\ ~Hidden(page.row)
      /\ DetailAnswer.row = page.row /\ DetailAnswer.events = page.detail.events
      /\ DetailAnswer.proofAvailable \in BOOLEAN
      /\ DetailAnswer.proofAvailable => page.proofAvailable
  BY PageTypes DEF DetailAnswer
<1>3. DetailAnswer \in Details
  <2>1. DetailAnswer = [ kind |-> DetailAnswer.kind, row |-> DetailAnswer.row,
                         proofAvailable |-> DetailAnswer.proofAvailable,
                         events |-> DetailAnswer.events ]
    BY DEF DetailAnswer
  <2> QED
    BY <1>2, <2>1, PageTypes DEF Details
<1>4. /\ page' \in PagesSet /\ page'.pc = "shown" /\ page'.row = NoRow
      /\ page'.detail = DetailAnswer /\ page'.proofAvailable = page.proofAvailable
  BY <1>1, <1>3, PageTypes, Defaults DEF PagesSet
<1>5. cached' \in Details /\ cached'.kind # "restricted"
  BY <1>1, <1>3, PageTypes
<1>6. Whole(DetailAnswer)
  BY <1>1, <1>2 DEF Inv, ReadersInv, PagesComeWhole, Whole
<1>7. PagesComeWhole'
  <2>1. public' = public
    BY <1>1 DEF history
  <2> DEFINE d == DetailAnswer
  <2>2. PICK answer \in Details : answer = DetailAnswer
    BY <1>3
  <2>3. page'.detail = answer /\ cached' \in {cached, answer} /\ Whole(answer)
    BY <1>1, <1>4, <1>6, <2>2
  <2>4. Whole(cached)' /\ Whole(page.detail)'
    BY <2>1, <2>3 DEF Inv, ReadersInv, PagesComeWhole, Whole
  <2> QED
    BY <1>4, <2>1, <2>4 DEF Inv, ReadersInv, PagesComeWhole
<1> QED
  BY <1>1, <1>4, <1>5, <1>7, PageStep

\* A failed read answers with no page at all.
LEMMA DetailFailsStep ==
    ASSUME Inv, DetailFails
    PROVE  Inv'
<1>1. /\ UNCHANGED <<history, altered, restricted, readEnabled, check, cached>>
      /\ page' = [page EXCEPT !.pc = "missing", !.detail = NoDetail]
  BY DEF DetailFails
<1>2. /\ page' \in PagesSet /\ page'.pc = "missing" /\ page'.row = page.row
      /\ page'.detail = NoDetail /\ page'.proofAvailable = page.proofAvailable
  BY <1>1, PageTypes, Defaults DEF PagesSet
<1>3. PagesComeWhole'
  <2>1. public' = public /\ cached' = cached
    BY <1>1 DEF history
  <2>2. Whole(cached)' /\ Whole(page.detail)'
    BY <1>2, <2>1, Defaults DEF Inv, ReadersInv, PagesComeWhole, Whole
  <2> QED
    BY <1>2, <2>1, <2>2, Defaults DEF Inv, ReadersInv, PagesComeWhole
<1> QED
  BY <1>1, <1>2, <1>3, PageTypes, PageStep

-----------------------------------------------------------------------------
(* The steps of the check.                                                 *)

\* The parts of a check have their types, and it has no verdict before it is
\* ready.
LEMMA CheckFacts ==
    ASSUME Inv
    PROVE  /\ check \in Checks /\ check.row \in Rows /\ check.proof \in ProofRows
           /\ check.bytes \in {Photo, Absent} /\ check.answers \in [Providers -> Answers]
           /\ check.verdict \in Verdicts /\ check.shownAtStart \in Nat
           /\ check.disturbed \in BOOLEAN /\ check.proof.event \in Nat
           /\ check.pc \in {"idle", "rows", "verify", "ready", "error"}
           /\ check.pc # "ready" => check.verdict = NoVerdict
<1>1. check \in Checks
  BY DEF Inv, ReadersInv, ReadersType
<1>2. /\ check.row \in Rows /\ check.proof \in ProofRows
      /\ check.bytes \in {Photo, Absent} /\ check.answers \in [Providers -> Answers]
      /\ check.verdict \in Verdicts /\ check.shownAtStart \in Nat
      /\ check.disturbed \in BOOLEAN
      /\ check.pc \in {"idle", "rows", "verify", "ready", "error"}
  BY <1>1 DEF Checks
<1>3. check.proof.event \in Nat
  BY <1>2 DEF ProofRows
<1> QED
  BY <1>1, <1>2, <1>3 DEF Inv, ReadersInv, VerdictStands

\* The parts of the invariant that speak of the check, of any check c.
Advances(c) ==
    /\ c.pc # "idle" => c.shownAtStart \in 1 .. public.proof.count
    /\ c.proof # NoProofRow => c.proof.event \in c.shownAtStart .. public.proof.count
    /\ c.pc \in {"verify", "ready"} => c.row # NoRow /\ c.proof # NoProofRow
    /\ c.pc \in {"idle", "rows"} => \A p \in Providers : c.answers[p] = Unread

Honest(c) ==
    \A p \in Providers :
        c.answers[p].kind = "observed" /\ (p \notin FalseProviders \/ ~c.disturbed) =>
            /\ c.proof.event \in 1 .. Len(ledger)
            /\ \E seen \in c.proof.event .. Len(ledger) :
                  c.answers[p] = Observation(seen, c.proof.event)

TrueRows(c) ==
    c.pc # "idle" /\ ~c.disturbed =>
        /\ altered = {}
        /\ c.proof # NoProofRow => c.proof = TrueProof(c.proof.event)
        /\ c.row # NoRow =>
              /\ c.row.at \in c.shownAtStart .. public.proof.count
              /\ (c.row.state = "removed") = ledger[c.row.at].removed
              /\ c.row.place \in {Place, Absent}

\* The parts of the invariant about checks, as predicates of any check.
LEMMA CheckParts ==
    /\ CheckAdvances = Advances(check) /\ AnswersAreHonest = Honest(check)
    /\ RowsAreTrue = TrueRows(check)
BY DEF CheckAdvances, Advances, AnswersAreHonest, Honest, RowsAreTrue, TrueRows

\* What a step of the check leaves to prove.
LEMMA CheckStep ==
    ASSUME Inv, UNCHANGED <<history, altered, restricted, readEnabled, cached, page>>,
           NEW c \in Checks, check' = c,
           Advances(c), Honest(c), TrueRows(c),
           IF c.pc = "ready"
           THEN /\ c.verdict = Verdict /\ c.row = check.row /\ c.proof = check.proof
                /\ c.bytes = check.bytes /\ c.answers = check.answers
           ELSE c.verdict = NoVerdict
    PROVE  Inv'
<1>1. /\ HistoryInv' /\ Persists /\ ledger' = ledger /\ public' = public /\ altered' = altered
      /\ HistoryInv
  BY HistoryStands DEF Inv, history
<1>2. ReadersType' /\ PagesComeWhole'
  BY <1>1, PagesKept DEF Inv, ReadersInv, ReadersType
<1>3. CheckAdvances'
  BY <1>1 DEF CheckAdvances, Advances
<1>4. AnswersAreHonest'
  <2> SUFFICES ASSUME NEW p \in Providers, c.answers[p].kind = "observed",
                      p \notin FalseProviders \/ ~c.disturbed
               PROVE  /\ c.proof.event \in 1 .. Len(ledger')
                      /\ \E seen \in c.proof.event .. Len(ledger') :
                            c.answers[p] = Observation(seen, c.proof.event)'
    BY DEF AnswersAreHonest
  <2>1. PICK e \in 1 .. Len(ledger) : e = c.proof.event
    BY DEF Honest
  <2>2. PICK seen \in e .. Len(ledger) : c.answers[p] = Observation(seen, e)
    BY <2>1 DEF Honest
  <2>3. seen \in 1 .. Len(ledger)
    BY <1>1, PublicFacts
  <2>4. Observation(seen, e)' = Observation(seen, e)
    BY <1>1, <2>3, ObservationKept
  <2> QED
    BY <1>1, <2>1, <2>2, <2>4
<1>5. RowsAreTrue'
  <2> SUFFICES ASSUME c.pc # "idle", ~c.disturbed
               PROVE  /\ altered' = {}
                      /\ c.proof # NoProofRow => c.proof = TrueProof(c.proof.event)'
                      /\ c.row # NoRow =>
                            /\ c.row.at \in c.shownAtStart .. public'.proof.count
                            /\ (c.row.state = "removed") = ledger'[c.row.at].removed
                            /\ c.row.place \in {Place, Absent}
    BY DEF RowsAreTrue
  <2>1. ASSUME c.proof # NoProofRow
        PROVE  c.proof = TrueProof(c.proof.event)'
    <3>1. c.proof.event \in c.shownAtStart .. public.proof.count
          /\ c.shownAtStart \in 1 .. public.proof.count
      BY <2>1 DEF Advances
    <3>2. PICK e \in 1 .. Len(ledger) : e = c.proof.event
      BY <1>1, <3>1, PublicFacts
    <3>3. TrueProof(e)' = TrueProof(e)
      BY <1>1, <3>2, ObservationKept
    <3> QED
      BY <2>1, <3>2, <3>3 DEF TrueRows
  <2> QED
    BY <1>1, <2>1 DEF TrueRows
<1>6. VerdictStands'
  <2>1. CASE c.pc = "ready"
    <3>1. Verdict' = Verdict
      BY <2>1, VerdictKept
    <3> QED
      BY <2>1, <3>1 DEF VerdictStands
  <2>2. CASE c.pc # "ready"
    BY <2>2 DEF VerdictStands
  <2> QED
    BY <2>1, <2>2
<1> QED
  BY <1>1, <1>2, <1>3, <1>4, <1>5, <1>6 DEF Inv, ReadersInv

\* A check starts from a page that announces a proof, hence from a public
\* commitment.
LEMMA StartCheckStep ==
    ASSUME Inv, StartCheck
    PROVE  Inv'
<1> DEFINE c == [IdleCheck EXCEPT !.pc = "rows", !.shownAtStart = public.proof.count,
                                  !.disturbed = altered # {}]
<1>1. /\ UNCHANGED <<history, altered, restricted, readEnabled, cached, page>>
      /\ check' = c /\ page.detail.proofAvailable
  BY DEF StartCheck
<1>2. public.proof.count \in Nat /\ public.proof.count > 0
         /\ public.proof.count \in 1 .. public.proof.count
  BY <1>1, PublicFacts DEF Inv, ReadersInv, PagesComeWhole, Whole
<1>3. /\ c \in Checks /\ c.pc = "rows" /\ c.shownAtStart = public.proof.count
      /\ c.row = NoRow /\ c.proof = NoProofRow /\ c.verdict = NoVerdict
      /\ \A p \in Providers : c.answers[p] = Unread
      /\ ~c.disturbed => altered = {}
  <2> DEFINE false == altered # {}
  <2>1. c = [IdleCheck EXCEPT !.pc = "rows", !.shownAtStart = public.proof.count,
                              !.disturbed = false] /\ false \in BOOLEAN
    OBVIOUS
  <2> HIDE DEF c, false
  <2>2. c \in Checks /\ c.pc = "rows" /\ c.shownAtStart = public.proof.count
        /\ c.row = IdleCheck.row /\ c.proof = IdleCheck.proof /\ c.verdict = IdleCheck.verdict
        /\ c.answers = IdleCheck.answers /\ c.disturbed = false
    BY <1>2, <2>1, Defaults DEF Checks
  <2> QED
    BY <2>2, Defaults DEF false
<1> HIDE DEF c
<1>4. Advances(c)
  BY <1>2, <1>3 DEF Advances
<1>5. Honest(c)
  BY <1>3, Defaults DEF Honest
<1>6. TrueRows(c)
  BY <1>3 DEF TrueRows
<1> QED
  BY <1>1, <1>3, <1>4, <1>5, <1>6, CheckStep

\* The issue row is read after the visitor asked.
LEMMA CheckReadsIssueStep ==
    ASSUME Inv, CheckReadsIssue
    PROVE  Inv'
<1>1. PICK row \in Rows : row = IssueRow
  BY RowTypes DEF Inv, ReadersInv
<1>2. /\ row.at = public.proof.count /\ row.state = public.state
      /\ altered = {} => row.place \in {Place, Absent}
  BY <1>1, RowTypes DEF Inv, ReadersInv
<1> DEFINE c == [check EXCEPT !.row = row]
<1>3. /\ UNCHANGED <<history, altered, restricted, readEnabled, cached, page>>
      /\ check' = c /\ check.pc = "rows"
  BY <1>1 DEF CheckReadsIssue
<1>4. /\ c \in Checks /\ c.row = row /\ c.pc = "rows" /\ c.proof = check.proof
      /\ c.answers = check.answers /\ c.verdict = NoVerdict
      /\ c.shownAtStart = check.shownAtStart /\ c.disturbed = check.disturbed
  BY <1>3, CheckFacts DEF Checks
<1> HIDE DEF c
<1>5. Advances(check) /\ Honest(check) /\ TrueRows(check)
  BY CheckParts DEF Inv, ReadersInv
<1>6. Advances(c) /\ Honest(c)
  BY <1>3, <1>4, <1>5 DEF Advances, Honest
<1>7. TrueRows(c)
  <2>1. check.shownAtStart \in 1 .. public.proof.count /\ public.proof.count \in Nat
    BY <1>3, <1>5, PublicFacts DEF Advances, Inv
  <2>2. public.proof.count > 0
    BY <2>1
  <2>3. /\ check.shownAtStart \in 1 .. public.proof.count /\ public.proof.count \in Nat
        /\ (public.state = "removed") = ledger[public.proof.count].removed
    BY <2>1, <2>2, PublicFacts DEF Inv
  <2>4. row.at \in check.shownAtStart .. public.proof.count
    BY <1>2, <2>3
  <2>5. (row.state = "removed") = ledger[row.at].removed
    BY <1>2, <2>3
  <2> QED
    BY <1>2, <1>3, <1>4, <1>5, <2>4, <2>5 DEF TrueRows
<1> QED
  BY <1>3, <1>4, <1>6, <1>7, CheckStep

\* The proof row is read after the visitor asked, so it is no older than what
\* was public then.
LEMMA CheckReadsProofStep ==
    ASSUME Inv, CheckReadsProof
    PROVE  Inv'
<1>1. PICK row \in ProofRows : row = ProofRow
  BY RowTypes DEF Inv, ReadersInv
<1>2. /\ row.event = public.proof.count
      /\ altered = {} /\ public.proof.count > 0 => row = TrueProof(public.proof.count)
  BY <1>1, RowTypes DEF Inv, ReadersInv
<1> DEFINE c == [check EXCEPT !.proof = row]
<1>3. /\ UNCHANGED <<history, altered, restricted, readEnabled, cached, page>>
      /\ check' = c /\ check.pc = "rows"
  BY <1>1 DEF CheckReadsProof
<1>4. /\ c \in Checks /\ c.row = check.row /\ c.pc = "rows" /\ c.proof = row
      /\ c.answers = check.answers /\ c.verdict = NoVerdict
      /\ c.shownAtStart = check.shownAtStart /\ c.disturbed = check.disturbed
  BY <1>3, CheckFacts DEF Checks
<1> HIDE DEF c
<1>5. Advances(check) /\ TrueRows(check)
  BY CheckParts DEF Inv, ReadersInv
<1>6. /\ check.shownAtStart \in 1 .. public.proof.count /\ public.proof.count \in Nat
      /\ public.proof.count > 0
      /\ public.proof.count \in check.shownAtStart .. public.proof.count
      /\ \A p \in Providers : check.answers[p] = Unread
  BY <1>3, <1>5, PublicFacts DEF Advances, Inv
<1>7. Advances(c)
  BY <1>2, <1>3, <1>4, <1>6 DEF Advances
<1>8. Honest(c)
  BY <1>4, <1>6, Defaults DEF Honest
<1>9. TrueRows(c)
  BY <1>2, <1>3, <1>4, <1>5, <1>6 DEF TrueRows
<1> QED
  BY <1>3, <1>4, <1>7, <1>8, <1>9, CheckStep

\* Verification begins with both rows read.
LEMMA BeginVerificationStep ==
    ASSUME Inv, BeginVerification
    PROVE  Inv'
<1> DEFINE pc == IF check.row.restricted /\ check.row.state # "removed" THEN "error" ELSE "verify"
<1>1. pc \in {"error", "verify"}
  OBVIOUS
<1> DEFINE c == [check EXCEPT !.pc = pc]
<1>2. /\ UNCHANGED <<history, altered, restricted, readEnabled, cached, page>>
      /\ check' = c /\ check.pc = "rows" /\ check.row # NoRow /\ check.proof # NoProofRow
  BY DEF BeginVerification
<1> HIDE DEF pc
<1>3. /\ c \in Checks /\ c.row = check.row /\ c.pc \in {"error", "verify"}
      /\ c.proof = check.proof /\ c.answers = check.answers /\ c.verdict = NoVerdict
      /\ c.shownAtStart = check.shownAtStart /\ c.disturbed = check.disturbed
  BY <1>1, <1>2, CheckFacts DEF Checks
<1> HIDE DEF c
<1>4. Advances(check) /\ Honest(check) /\ TrueRows(check)
  BY CheckParts DEF Inv, ReadersInv
<1>5. Advances(c) /\ Honest(c) /\ TrueRows(c)
  BY <1>2, <1>3, <1>4 DEF Advances, Honest, TrueRows
<1> QED
  BY <1>2, <1>3, <1>5, CheckStep

\* The bytes delivered are what the check compares.
LEMMA FetchEvidenceStep ==
    ASSUME Inv, FetchEvidence
    PROVE  Inv'
<1>1. DeliveredBytes \in {Photo, Absent}
  BY DEF DeliveredBytes
<1> DEFINE c == [check EXCEPT !.bytes = DeliveredBytes]
<1>2. /\ UNCHANGED <<history, altered, restricted, readEnabled, cached, page>>
      /\ check' = c /\ check.pc = "verify"
  BY DEF FetchEvidence
<1>3. /\ c \in Checks /\ c.row = check.row /\ c.pc = "verify"
      /\ c.proof = check.proof /\ c.answers = check.answers /\ c.verdict = NoVerdict
      /\ c.shownAtStart = check.shownAtStart /\ c.disturbed = check.disturbed
  BY <1>1, <1>2, CheckFacts DEF Checks
<1> HIDE DEF c
<1>4. Advances(check) /\ Honest(check) /\ TrueRows(check)
  BY CheckParts DEF Inv, ReadersInv
<1>5. Advances(c) /\ Honest(c) /\ TrueRows(c)
  BY <1>2, <1>3, <1>4 DEF Advances, Honest, TrueRows
<1> QED
  BY <1>2, <1>3, <1>5, CheckStep

\* While a check verifies, its proof row names a commitment of the ledger.
LEMMA VerifiedCommitment ==
    ASSUME Inv, check.pc \in {"verify", "ready"}
    PROVE  /\ check.proof.event \in 1 .. Len(ledger)
           /\ check.proof.event \in check.shownAtStart .. public.proof.count
<1>1. /\ check.shownAtStart \in 1 .. public.proof.count
      /\ check.proof.event \in check.shownAtStart .. public.proof.count
  BY DEF Inv, ReadersInv, CheckAdvances
<1>2. check.proof.event \in 1 .. Len(ledger)
  BY <1>1, PublicFacts DEF Inv
<1> QED
  BY <1>1, <1>2

\* The answer of one provider arrives.
LEMMA AnswerStep ==
    ASSUME Inv, UNCHANGED <<history, altered, restricted, readEnabled, cached, page>>,
           check.pc = "verify", NEW p \in Providers, NEW a \in Answers,
           NEW d \in BOOLEAN, check.disturbed => d,
           check' = [check EXCEPT !.answers[p] = a, !.disturbed = d],
           a.kind = "observed" /\ (p \notin FalseProviders \/ ~d) =>
               \E seen \in check.proof.event .. Len(ledger) :
                  a = Observation(seen, check.proof.event)
    PROVE  Inv'
<1> DEFINE answers == [check.answers EXCEPT ![p] = a]
<1>1. answers \in [Providers -> Answers] /\ answers[p] = a
      /\ \A q \in Providers \ {p} : answers[q] = check.answers[q]
  BY CheckFacts
<1>2. check' = [check EXCEPT !.answers = answers, !.disturbed = d]
  BY CheckFacts DEF Checks
<1> DEFINE c == [check EXCEPT !.answers = answers, !.disturbed = d]
<1> HIDE DEF answers
<1>3. /\ c \in Checks /\ c.row = check.row /\ c.pc = "verify"
      /\ c.proof = check.proof /\ c.answers = answers /\ c.verdict = NoVerdict
      /\ c.shownAtStart = check.shownAtStart /\ c.disturbed = d
  BY <1>1, CheckFacts DEF Checks
<1>4. check' = c
  BY <1>2
<1> HIDE DEF c
<1>5. Advances(check) /\ Honest(check) /\ TrueRows(check)
  BY CheckParts DEF Inv, ReadersInv
<1>6. Advances(c) /\ TrueRows(c)
  BY <1>3, <1>5 DEF Advances, TrueRows
<1>7. Honest(c)
  <2> SUFFICES ASSUME NEW q \in Providers, c.answers[q].kind = "observed",
                      q \notin FalseProviders \/ ~c.disturbed
               PROVE  /\ c.proof.event \in 1 .. Len(ledger)
                      /\ \E seen \in c.proof.event .. Len(ledger) :
                            c.answers[q] = Observation(seen, c.proof.event)
    BY DEF Honest
  <2>1. CASE q = p
    BY <1>1, <1>3, <2>1, VerifiedCommitment
  <2>2. CASE q # p
    <3>1. c.answers[q] = check.answers[q]
      BY <1>1, <1>3, <2>2
    <3>2. q \notin FalseProviders \/ ~check.disturbed
      BY <1>3
    <3> QED
      BY <1>3, <1>5, <3>1, <3>2 DEF Honest
  <2> QED
    BY <2>1, <2>2
<1> QED
  BY <1>3, <1>4, <1>6, <1>7, CheckStep

\* An honest node reports an observation of the ledger from the proof's slot
\* on.
LEMMA ProviderAnswersStep ==
    ASSUME Inv, NEW p \in Providers, ProviderAnswers(p)
    PROVE  Inv'
<1>1. /\ UNCHANGED <<history, altered, restricted, readEnabled, cached, page>>
      /\ check.pc = "verify"
  BY DEF ProviderAnswers
<1>2. PICK seen \in Views(check.proof.event) :
         check' = [check EXCEPT !.answers[p] = Observation(seen, check.proof.event)]
  BY DEF ProviderAnswers
<1>3. seen \in check.proof.event .. Len(ledger) /\ check.proof.event \in 1 .. Len(ledger)
  BY <1>1, <1>2, VerifiedCommitment DEF Views
<1>4. seen \in 1 .. Len(ledger)
  BY <1>3, PublicFacts DEF Inv
<1>5. PICK a \in Answers : a = Observation(seen, check.proof.event)
  BY <1>3, <1>4, ObservationType DEF Inv
<1>6. check' = [check EXCEPT !.answers[p] = a, !.disturbed = check.disturbed]
  BY <1>2, <1>5, CheckFacts DEF Checks
<1> QED
  BY <1>1, <1>3, <1>5, <1>6, AnswerStep, CheckFacts

\* A false provider makes the check disturbed and binds nobody else.
LEMMA ProviderAnswersFalselyStep ==
    ASSUME Inv, NEW p \in Providers, ProviderAnswersFalsely(p)
    PROVE  Inv'
<1> DEFINE e == check.proof
           removed == check.row.state = "removed"
           handoff == ledger[e.event].op = "handoff_checkpointed"
           head == IF handoff THEN e.handoff ELSE e.timeline
           previous == IF head = ZeroHead THEN ZeroHead ELSE SubSeq(head, 1, Len(head) - 1)
           account == [ count |-> e.count, timeline |-> e.timeline, handoff |-> e.handoff,
                        lifecycle |-> ledger[e.event].lifecycle, removed |-> removed,
                        meta |-> e.metadata, evidence |-> e.evidence, location |-> e.location ]
           event == [ op |-> ledger[e.event].op, sequence |-> e.count,
                      lifecycle |-> ledger[e.event].lifecycle, removed |-> removed,
                      meta |-> e.metadata, evidence |-> e.evidence, location |-> e.location,
                      previous |-> previous, head |-> head ]
           a == [kind |-> "observed", issue |-> account, event |-> event]
<1>1. /\ UNCHANGED <<history, altered, restricted, readEnabled, cached, page>>
      /\ check.pc = "verify" /\ p \in FalseProviders
      /\ check' = [check EXCEPT !.disturbed = TRUE, !.answers[p] = a]
  BY DEF ProviderAnswersFalsely
<1>2. ledger[e.event] \in Commitments
  BY <1>1, VerifiedCommitment DEF Inv, HistoryInv, LedgerIsLegal
<1>3. /\ ledger[e.event].op \in Operations /\ ledger[e.event].lifecycle \in LifecycleStates
  BY <1>2 DEF Commitments
<1>4. /\ e.count \in Nat /\ e.timeline \in Heads /\ e.handoff \in Heads /\ e.metadata \in Int
      /\ e.evidence \in {Photo, Forged, Absent} /\ e.location \in {Place, Forged, Absent}
  BY CheckFacts DEF ProofRows
<1>5. head \in Heads
  BY <1>4
<1>6. previous \in Heads
  <2> HIDE DEF head
  <2>1. CASE head = ZeroHead
    BY <1>5, <2>1
  <2>2. CASE head # ZeroHead
    <3>1. head \in Seq(Entries) /\ Len(head) \in Nat
      BY <1>5 DEF Heads
    <3>2. SubSeq(head, 1, Len(head) - 1) \in Seq(Entries)
      BY <3>1
    <3> QED
      BY <2>2, <3>2 DEF Heads
  <2> QED
    BY <2>1, <2>2
<1>7. removed \in BOOLEAN
  OBVIOUS
<1> HIDE DEF head, previous, removed
<1>8. account \in Accounts
  BY <1>3, <1>4, <1>7 DEF Accounts
<1>9. event \in Events
  BY <1>3, <1>4, <1>5, <1>6, <1>7 DEF Events
<1> HIDE DEF account, event
<1>10. a \in Answers
  BY <1>8, <1>9 DEF Answers
<1> HIDE DEF a
<1>11. check' = [check EXCEPT !.answers[p] = a, !.disturbed = TRUE]
  BY <1>1, CheckFacts DEF Checks
<1> QED
  BY <1>1, <1>10, <1>11, AnswerStep

\* A provider that fails says nothing.
LEMMA ProviderFailsStep ==
    ASSUME Inv, NEW p \in Providers, ProviderFails(p)
    PROVE  Inv'
<1> DEFINE a == [kind |-> "failed"]
<1>1. /\ UNCHANGED <<history, altered, restricted, readEnabled, cached, page>>
      /\ check.pc = "verify" /\ check' = [check EXCEPT !.answers[p] = a]
  BY DEF ProviderFails
<1>2. a \in Answers /\ a.kind = "failed"
  BY DEF Answers
<1> HIDE DEF a
<1>3. check \in Checks /\ check.disturbed \in BOOLEAN
  BY CheckFacts
<1>4. check' = [check EXCEPT !.answers[p] = a, !.disturbed = check.disturbed]
  <2> DEFINE c == [check EXCEPT !.answers[p] = a]
  <2>1. check' = c /\ c.disturbed = check.disturbed
    BY <1>1, <1>3 DEF Checks
  <2>2. [check EXCEPT !.answers[p] = a, !.disturbed = check.disturbed]
           = [c EXCEPT !.disturbed = check.disturbed]
    BY <1>3 DEF Checks
  <2>3. c = [c EXCEPT !.disturbed = c.disturbed]
    BY <1>3 DEF Checks
  <2> QED
    BY <2>1, <2>2, <2>3
<1> DEFINE d == check.disturbed
<1>5. UNCHANGED <<history, altered, restricted, readEnabled, cached, page>> /\ check.pc = "verify"
  BY <1>1
<1>6. d \in BOOLEAN /\ (check.disturbed => d)
  BY <1>3
<1>7. check' = [check EXCEPT !.answers[p] = a, !.disturbed = d]
  BY <1>4
<1> HIDE DEF d
<1> QED
  BY <1>2, <1>5, <1>6, <1>7, AnswerStep

\* The verdict is computed from what was read.
LEMMA DecideStep ==
    ASSUME Inv, Decide
    PROVE  Inv'
<1>1. PICK v \in Verdicts : v = Verdict
  BY VerdictType
<1> DEFINE c == [check EXCEPT !.pc = "ready", !.verdict = v]
<1>2. /\ UNCHANGED <<history, altered, restricted, readEnabled, cached, page>>
      /\ check' = c /\ check.pc = "verify"
  BY <1>1 DEF Decide
<1>3. /\ c \in Checks /\ c.row = check.row /\ c.pc = "ready" /\ c.bytes = check.bytes
      /\ c.proof = check.proof /\ c.answers = check.answers /\ c.verdict = v
      /\ c.shownAtStart = check.shownAtStart /\ c.disturbed = check.disturbed
  BY CheckFacts DEF Checks
<1> HIDE DEF c
<1>4. Advances(check) /\ Honest(check) /\ TrueRows(check)
  BY CheckParts DEF Inv, ReadersInv
<1>5. Advances(c) /\ Honest(c) /\ TrueRows(c)
  BY <1>2, <1>3, <1>4 DEF Advances, Honest, TrueRows
<1> QED
  BY <1>1, <1>2, <1>3, <1>5, CheckStep

\* A check that fails has no verdict.
LEMMA CheckFailsStep ==
    ASSUME Inv, CheckFails
    PROVE  Inv'
<1> DEFINE c == [check EXCEPT !.pc = "error"]
<1>1. /\ UNCHANGED <<history, altered, restricted, readEnabled, cached, page>>
      /\ check' = c /\ check.pc \in {"rows", "verify"}
  BY DEF CheckFails
<1>2. /\ c \in Checks /\ c.row = check.row /\ c.pc = "error"
      /\ c.proof = check.proof /\ c.answers = check.answers /\ c.verdict = NoVerdict
      /\ c.shownAtStart = check.shownAtStart /\ c.disturbed = check.disturbed
  BY <1>1, CheckFacts DEF Checks
<1> HIDE DEF c
<1>3. Advances(check) /\ Honest(check) /\ TrueRows(check)
  BY CheckParts DEF Inv, ReadersInv
<1>4. Advances(c) /\ Honest(c) /\ TrueRows(c)
  BY <1>1, <1>2, <1>3 DEF Advances, Honest, TrueRows
<1> QED
  BY <1>1, <1>2, <1>4, CheckStep

\* Leaving the page and altering a field change more than the check.
LEMMA LeavePageStep ==
    ASSUME Inv, LeavePage
    PROVE  Inv'
<1>1. /\ UNCHANGED <<history, altered, restricted, readEnabled, cached>>
      /\ page' = IdlePage /\ check' = IdleCheck
  BY DEF LeavePage
<1>2. HistoryInv' /\ Persists /\ public' = public
  BY <1>1, HistoryStands DEF Inv, history
<1>3. ReadersType'
  BY <1>1, Defaults DEF Inv, ReadersInv, ReadersType
<1>4. PagesComeWhole'
  BY <1>1, <1>2, Defaults DEF Inv, ReadersInv, PagesComeWhole, Whole
<1>5. CheckAdvances' /\ AnswersAreHonest' /\ RowsAreTrue' /\ VerdictStands'
  BY <1>1, Defaults DEF CheckAdvances, AnswersAreHonest, RowsAreTrue, VerdictStands
<1> QED
  BY <1>2, <1>3, <1>4, <1>5 DEF Inv, ReadersInv

\* An alteration disturbs every check under way.
LEMMA AlterStep ==
    ASSUME Inv, NEW field \in Fields, Alter(field)
    PROVE  Inv'
<1> DEFINE c == [check EXCEPT !.disturbed = TRUE]
<1>1. /\ UNCHANGED <<history, restricted, readEnabled, cached, page>>
      /\ altered' = altered \cup {field} /\ check' = c
  BY DEF Alter
<1>2. /\ HistoryInv' /\ Persists /\ ledger' = ledger /\ public' = public /\ HistoryInv
  BY <1>1, HistoryStands DEF Inv, history
<1>3. /\ c \in Checks /\ c.row = check.row /\ c.pc = check.pc /\ c.bytes = check.bytes
      /\ c.proof = check.proof /\ c.answers = check.answers /\ c.verdict = check.verdict
      /\ c.shownAtStart = check.shownAtStart /\ c.disturbed
  BY CheckFacts DEF Checks
<1> HIDE DEF c
<1>4. ReadersType' /\ PagesComeWhole'
  BY <1>1, <1>2, <1>3, PagesKept DEF Inv, ReadersInv, ReadersType
<1>5. CheckAdvances' /\ RowsAreTrue'
  BY <1>1, <1>2, <1>3 DEF Inv, ReadersInv, CheckAdvances, RowsAreTrue
<1>6. AnswersAreHonest'
  <2> SUFFICES ASSUME NEW p \in Providers, check.answers[p].kind = "observed",
                      p \notin FalseProviders
               PROVE  /\ check.proof.event \in 1 .. Len(ledger)
                      /\ \E seen \in check.proof.event .. Len(ledger) :
                            check.answers[p] = Observation(seen, check.proof.event)'
    BY <1>1, <1>2, <1>3 DEF AnswersAreHonest
  <2>1. PICK e \in 1 .. Len(ledger) : e = check.proof.event
    BY DEF Inv, ReadersInv, AnswersAreHonest
  <2>2. PICK seen \in e .. Len(ledger) : check.answers[p] = Observation(seen, e)
    BY <2>1 DEF Inv, ReadersInv, AnswersAreHonest
  <2>3. seen \in 1 .. Len(ledger)
    BY <1>2, PublicFacts
  <2>4. Observation(seen, e)' = Observation(seen, e)
    BY <1>2, <2>3, ObservationKept
  <2>5. Observation(seen, check.proof.event)' = Observation(seen, e)'
    BY <1>1, <1>3, <2>1
  <2> QED
    BY <2>1, <2>2, <2>4, <2>5
<1>7. VerdictStands'
  BY <1>1, <1>3, VerdictKept DEF Inv, ReadersInv, VerdictStands
<1> QED
  BY <1>2, <1>4, <1>5, <1>6, <1>7 DEF Inv, ReadersInv

-----------------------------------------------------------------------------
(* Every step.                                                             *)

\* Every step keeps the invariant.
LEMMA StepInv == Inv /\ [Next]_vars => Inv'
<1> SUFFICES ASSUME Inv, [Next]_vars PROVE Inv'
  OBVIOUS
<1>1. CASE HistoryMoves
  BY <1>1, HistoryMovesStep
<1>2. CASE Restrict
  BY <1>2, RestrictStep
<1>3. CASE ToggleRead \/ CacheExpires
  BY <1>3, CacheStep
<1>4. ASSUME NEW field \in Fields, Alter(field) PROVE Inv'
  BY <1>4, AlterStep
<1>5. CASE PageSteps
  BY <1>5, OpenFromCacheStep, ReadIssueRowStep, ReadProofPresenceStep, ReadEventsStep,
     AnswerDetailStep, DetailFailsStep, LeavePageStep DEF PageSteps
<1>6. CASE CheckSteps
  BY <1>6, StartCheckStep, CheckReadsIssueStep, CheckReadsProofStep, BeginVerificationStep,
     FetchEvidenceStep, DecideStep, CheckFailsStep, ProviderAnswersStep,
     ProviderAnswersFalselyStep, ProviderFailsStep DEF CheckSteps
<1>7. CASE UNCHANGED vars
  <2>1. UNCHANGED <<history, altered, restricted, readEnabled, cached, page, check>>
    BY <1>7 DEF vars, readers
  <2>2. HistoryInv' /\ Persists
    BY <2>1, HistoryStands DEF Inv
  <2> QED
    BY <2>1, <2>2, QuietStep DEF Inv, ReadersInv, ReadersType
<1> QED
  BY <1>1, <1>2, <1>3, <1>4, <1>5, <1>6, <1>7 DEF Next

\* The invariant holds in every reachable state.
LEMMA Invariant == Spec => []Inv
<1>1. Init => Inv
  BY InitInv
<1>2. Inv /\ [Next]_vars => Inv'
  BY StepInv
<1> QED
  BY <1>1, <1>2, PTL DEF Spec

-----------------------------------------------------------------------------
(* The theorems.                                                           *)

\* One provider at most is false.
LEMMA SomeProviderIsHonest == \E p \in Providers : p \notin FalseProviders
BY ReadsAssumption

\* What two equal, matching answers say.
LEMMA ConfirmedAnswers ==
    ASSUME NEW answers, NEW e, NEW removed,
           ChainVerdict(answers, e, removed) = "confirmed"
    PROVE  \A p \in Providers : /\ answers[p].kind = "observed"
                                /\ ObservationMatches(answers[p], e, removed)
BY DEF ChainVerdict

\* A confirmed binding is true: buildPublicProofResponse and
\* verifyV2PublicProof never confirm a row that is not the commitment it
\* names, whatever was altered and whatever one provider answers.
THEOREM ConfirmedIsCommitted == Spec => []ConfirmedMeansCommitted
<1>1. Inv => ConfirmedMeansCommitted
  <2> SUFFICES ASSUME Inv, Confirmed
               PROVE  LET e == check.proof
                          n == e.event
                      IN  /\ e.count = n /\ n >= check.shownAtStart
                          /\ e.metadata = ledger[n].meta
                          /\ e.evidence = Photo /\ e.location = Place
                          /\ e.timeline = HeadAfter(n, FALSE) /\ e.handoff = HeadAfter(n, TRUE)
                          /\ (check.row.state = "removed") = ledger[n].removed
                          /\ check.verdict.metadata = "match" => e.canonical = ledger[n].meta
                          /\ check.verdict.location = "match" => check.row.place = Place
                          /\ check.verdict.evidence = "match" => check.bytes = Photo
    BY DEF ConfirmedMeansCommitted
  <2>1. check.pc = "ready" /\ check.verdict = Verdict
    BY DEF Inv, ReadersInv, VerdictStands, NoVerdict, Confirmed
  <2> DEFINE e == check.proof
             n == e.event
             removed == check.row.state = "removed"
  <2>2. ChainVerdict(check.answers, e, removed) = "confirmed"
    BY <2>1 DEF Confirmed, Verdict
  <2>3. PICK p \in Providers : p \notin FalseProviders
    BY SomeProviderIsHonest
  <2> DEFINE o == check.answers[p]
  <2>4. o.kind = "observed" /\ ObservationMatches(o, e, removed)
    BY <2>2, ConfirmedAnswers
  <2>5. PICK seen \in n .. Len(ledger) : o = Observation(seen, n)
    BY <2>3, <2>4 DEF Inv, ReadersInv, AnswersAreHonest
  <2>6. n \in 1 .. Len(ledger) /\ n \in check.shownAtStart .. public.proof.count
    BY <2>1, VerifiedCommitment
  <2>7. o.issue = Account(seen) /\ o.event = Event(n)
    BY <2>5 DEF Observation
  <2>8. /\ Account(seen).count = e.count /\ Event(n).sequence = e.count
        /\ Account(seen).meta = e.metadata /\ Account(seen).evidence = e.evidence
        /\ Account(seen).location = e.location /\ Account(seen).timeline = e.timeline
        /\ Account(seen).handoff = e.handoff /\ Account(seen).removed = removed
    BY <2>4, <2>7 DEF ObservationMatches
  <2> HIDE DEF o
  <2>9. seen = n /\ e.count = n
    BY <2>8 DEF Account, Event
  <2>10. /\ e.metadata = ledger[n].meta /\ e.evidence = Photo /\ e.location = Place
         /\ e.timeline = HeadAfter(n, FALSE) /\ e.handoff = HeadAfter(n, TRUE)
         /\ removed = ledger[n].removed
    BY <2>8, <2>9 DEF Account
  <2>11. n >= check.shownAtStart
    BY <2>6, CheckFacts, PublicFacts DEF Inv
  <2>12. /\ check.verdict.metadata = "match" => e.canonical = e.metadata
         /\ check.verdict.location = "match" => check.row.place = e.location
         /\ check.verdict.evidence = "match" => check.bytes = e.evidence
    BY <2>1 DEF Verdict
  <2> QED
    BY <2>9, <2>10, <2>11, <2>12
<1> QED
  BY <1>1, Invariant, PTL

\* The proof row of the latest commitment matches what an honest provider
\* answers when no later one is final.
LEMMA LatestMatches ==
    ASSUME HistoryInv, NEW n \in 1 .. Len(ledger)
    PROVE  ObservationMatches(Observation(n, n), TrueProof(n), ledger[n].removed)
<1>1. /\ ledger \in Seq(Commitments) /\ Len(ledger) \in Nat /\ ledger[n] \in Commitments
      /\ ledger[n].removed = (ledger[n].op = "publication_removed")
  BY DEF HistoryInv, LedgerIsLegal
<1>2. PICK entry \in Entries : ledger[n].head = Append(HeadAfter(n - 1, OwnStream(n)), entry)
  BY DEF HistoryInv, LedgerIsLegal
<1>3. n - 1 \in 0 .. Len(ledger) /\ OwnStream(n) \in BOOLEAN
  BY <1>1 DEF OwnStream
<1>4. HeadAfter(n - 1, OwnStream(n)) \in Heads
  BY <1>1, <1>3, HeadType
<1>5. HeadAfter(n, OwnStream(n)) = ledger[n].head
  BY <1>1, HeadOfOwnStream
<1>6. PICK previous \in Heads : previous = HeadAfter(n - 1, OwnStream(n))
  BY <1>4
<1>7. PICK head \in Heads : head = HeadAfter(n, OwnStream(n))
  BY <1>1, <1>5 DEF Commitments
<1>8. head = Append(previous, entry) /\ previous \in Seq(Entries)
  BY <1>2, <1>5, <1>6, <1>7 DEF Heads
<1>9. Len(head) = Len(previous) + 1 /\ Len(previous) \in Nat /\ head # ZeroHead
  BY <1>8 DEF ZeroHead
<1>10. previous = SubSeq(head, 1, Len(head) - 1)
  <2>1. SubSeq(head, 1, Len(previous)) = previous
    BY <1>8
  <2> QED
    BY <1>9, <2>1
<1> DEFINE o == Observation(n, n)
           e == TrueProof(n)
<1>11. o.issue = Account(n) /\ o.event = Event(n)
  BY DEF Observation
<1>12. /\ Event(n).op = ledger[n].op /\ Event(n).sequence = n
       /\ Event(n).lifecycle = ledger[n].lifecycle /\ Event(n).removed = ledger[n].removed
       /\ Event(n).meta = ledger[n].meta /\ Event(n).evidence = Photo /\ Event(n).location = Place
       /\ Event(n).previous = previous /\ Event(n).head = head
  BY <1>6, <1>7 DEF Event, OwnStream
<1>13. /\ Account(n).count = n /\ Account(n).timeline = HeadAfter(n, FALSE)
       /\ Account(n).handoff = HeadAfter(n, TRUE) /\ Account(n).lifecycle = ledger[n].lifecycle
       /\ Account(n).removed = ledger[n].removed /\ Account(n).meta = ledger[n].meta
       /\ Account(n).evidence = Photo /\ Account(n).location = Place
  BY DEF Account
<1>14. /\ e.metadata = ledger[n].meta /\ e.evidence = Photo /\ e.location = Place
       /\ e.count = n /\ e.timeline = HeadAfter(n, FALSE) /\ e.handoff = HeadAfter(n, TRUE)
  BY DEF TrueProof
<1>15. head = IF ledger[n].op = "handoff_checkpointed" THEN e.handoff ELSE e.timeline
  BY <1>7, <1>14 DEF OwnStream
<1> HIDE DEF o, e
<1>16. ObservationMatches(o, e, ledger[n].removed)
  <2>1. /\ o.issue.meta = e.metadata /\ o.issue.evidence = e.evidence
        /\ o.issue.location = e.location /\ o.issue.timeline = e.timeline
        /\ o.issue.handoff = e.handoff /\ o.issue.count = e.count
        /\ o.issue.removed = ledger[n].removed
    BY <1>11, <1>13, <1>14
  <2>2. /\ o.event.sequence = e.count /\ o.event.lifecycle = o.issue.lifecycle
        /\ o.event.removed = o.issue.removed
        /\ o.event.meta = e.metadata /\ o.event.evidence = e.evidence
        /\ o.event.location = e.location
    BY <1>11, <1>12, <1>13, <1>14
  <2>3. (o.event.op = "publication_removed") = ledger[n].removed
    BY <1>1, <1>11, <1>12
  <2>4. /\ o.event.head # ZeroHead
        /\ o.event.previous = SubSeq(o.event.head, 1, Len(o.event.head) - 1)
        /\ o.event.head = IF o.event.op = "handoff_checkpointed" THEN e.handoff ELSE e.timeline
    BY <1>9, <1>10, <1>11, <1>12, <1>15
  <2> QED
    BY <2>1, <2>2, <2>3, <2>4 DEF ObservationMatches
<1> QED
  BY <1>16 DEF o, e

\* Undisturbed, a check reports a mismatch of the chain only, and only when a
\* commitment was finalised after the visitor asked.
THEOREM FalseAlarmsAreNew == Spec => []FalseAlarmsNeedNewCommitments
<1>1. Inv => FalseAlarmsNeedNewCommitments
  <2> SUFFICES ASSUME Inv, check.pc = "ready", ~check.disturbed
               PROVE  /\ "mismatch" \notin {check.verdict.metadata, check.verdict.location,
                                            check.verdict.evidence}
                      /\ check.verdict.chain = "mismatch" => Len(ledger) > check.shownAtStart
    BY DEF FalseAlarmsNeedNewCommitments
  <2> DEFINE n == check.proof.event
             removed == check.row.state = "removed"
  <2>1. check.verdict = Verdict
    BY DEF Inv, ReadersInv, VerdictStands
  <2>2. /\ n \in 1 .. Len(ledger) /\ n \in check.shownAtStart .. public.proof.count
        /\ check.row # NoRow /\ check.proof # NoProofRow
    BY VerifiedCommitment DEF Inv, ReadersInv, CheckAdvances
  <2>3. /\ check.proof = TrueProof(n)
        /\ check.row.at \in check.shownAtStart .. public.proof.count
        /\ removed = ledger[check.row.at].removed
        /\ check.row.place \in {Place, Absent}
    BY <2>2 DEF Inv, ReadersInv, RowsAreTrue
  <2>4. /\ check.proof.canonical = check.proof.metadata
        /\ check.proof.evidence = Photo /\ check.proof.location = Place
    BY <2>3 DEF TrueProof
  <2>5. "mismatch" \notin {check.verdict.metadata, check.verdict.location, check.verdict.evidence}
    BY <2>1, <2>3, <2>4, CheckFacts DEF Verdict
  <2>6. ASSUME check.verdict.chain = "mismatch", ~(Len(ledger) > check.shownAtStart)
        PROVE  FALSE
    <3>1. /\ check.shownAtStart \in Nat /\ Len(ledger) \in Nat /\ check.row.at \in Nat
          /\ public.proof.count \in Nat /\ public.proof.count <= Len(ledger)
      BY CheckFacts, PublicFacts DEF Inv, Rows
    <3>2. n = Len(ledger) /\ check.row.at = n
      BY <2>2, <2>3, <2>6, <3>1
    <3>3. removed = ledger[n].removed
      BY <2>3, <3>2
    <3>4. ChainVerdict(check.answers, check.proof, removed) = "mismatch"
      BY <2>1, <2>6 DEF Verdict
    <3>5. PICK p \in Providers : /\ check.answers[p].kind = "observed"
                                 /\ ~ObservationMatches(check.answers[p], check.proof, removed)
      BY <3>4 DEF ChainVerdict
    <3>6. PICK seen \in n .. Len(ledger) : check.answers[p] = Observation(seen, n)
      BY <3>5 DEF Inv, ReadersInv, AnswersAreHonest
    <3>7. seen = n
      BY <3>1, <3>2
    <3>8. ObservationMatches(Observation(n, n), TrueProof(n), ledger[n].removed)
      BY <2>2, LatestMatches DEF Inv
    <3>9. check.answers[p] = Observation(n, n)
      BY <3>6, <3>7
    <3> HIDE DEF n, removed
    <3> QED
      BY <2>3, <3>3, <3>5, <3>8, <3>9
  <2> QED
    BY <2>5, <2>6
<1> QED
  BY <1>1, Invariant, PTL

\* The issue page is whole although three statements read it: the events below
\* a record are never older than the record.
THEOREM PagesStayWhole == Spec => []PagesAreWhole
<1>1. Inv => TypeOK
  <2> SUFFICES ASSUME Inv PROVE TypeOK
    OBVIOUS
  <2>1. /\ altered \subseteq Fields /\ restricted \in BOOLEAN /\ readEnabled \in BOOLEAN
        /\ cached \in Details /\ cached.kind # "restricted"
    BY DEF Inv, ReadersInv, ReadersType
  <2>2. cached.kind \in {"none", "tombstone", "content"}
    BY <2>1 DEF Details
  <2>3. /\ page.pc \in {"idle", "missing", "proof", "events", "answer", "shown"}
        /\ page.detail.kind \in {"none", "tombstone", "content", "restricted"}
        /\ page.detail.events \in 0 .. MaxCommits
    BY PageTypes DEF PagesSet, Details
  <2>4. /\ check.verdict.metadata \in {"none", "match", "mismatch"}
        /\ check.verdict.location \in {"none", "match", "mismatch", "not_available_after_removal"}
        /\ check.verdict.evidence \in {"none", "match", "mismatch", "unavailable"}
        /\ check.verdict.chain \in {"none", "confirmed", "mismatch", "unknown_dependency_error"}
    BY CheckFacts DEF Verdicts
  <2> QED
    BY <2>1, <2>2, <2>3, <2>4, CheckFacts DEF TypeOK
<1>2. Inv => EventsCoverRecord
  BY DEF Inv, ReadersInv, PagesComeWhole, Whole, EventsCoverRecord
<1> QED
  BY <1>1, <1>2, Invariant, PTL DEF PagesAreWhole
=============================================================================
