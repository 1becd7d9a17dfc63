----------------------- MODULE OperatorConsole_proofs -----------------------
(***************************************************************************)
(* Proofs about OperatorConsole for every number of operators, mutations,  *)
(* loads and faults, whatever the roles.                                   *)
(***************************************************************************)
EXTENDS OperatorConsole, FiniteSetTheorems, TLAPS

-----------------------------------------------------------------------------
(* The inductive invariant.                                                *)

Kinds   == {"status", "handoff", "correction", "removal"}
Targets == LifecycleStates \cup HandoffStates \cup {"action_recorded", "none"}
Results == {"recorded", "disabled", "workflow_conflict", "invalid", "stale_resource_version",
            "idempotency_key_reused"}

Views   == [version : Nat, text : Nat, lifecycle : LifecycleStates,
            handoff : HandoffStates \cup {"none"},
            publication : {"published", "commit_pending", "removed"}, blocked : BOOLEAN]
Posts   == [key : Nat, by : Operators, kind : Kinds, to : Targets, expected : Nat, base : Nat,
            seen : Views]
Tabs    == [view : Views, dirty : BOOLEAN, base : Nat,
            phase : {"loading", "idle", "posting", "reloading"}, post : Posts \cup {NoPost},
            message : {"none", "recorded", "stale_resource_version", "workflow_conflict",
                       "failed"}]
Loads   == [seen : Views, inside : BOOLEAN]
Answers == [key : Nat, result : Results]
Changes == [post : Posts, before : Views]

RowsType ==
    /\ issue \in Views /\ issue.version >= 1
    /\ answers \subseteq Answers
    /\ history \in Seq(Changes)

TabsType ==
    /\ tab \in [Operators -> Tabs]
    /\ loads \in [Operators -> SUBSET Loads]

\* Only the reload that a mutation waits for exceeds the bound, and a tab
\* waits for one at a time.
LoadsAreBounded ==
    \A o \in Operators :
        /\ IsFiniteSet(loads[o]) /\ Cardinality(loads[o]) <= MaxLoads + 1
        /\ tab[o].phase # "reloading" =>
              Cardinality(loads[o]) <= MaxLoads /\ \A load \in loads[o] : ~load.inside
        /\ \A a, b \in loads[o] : a.inside /\ b.inside => a = b

\* A key names one mutation.
KeysAreFresh ==
    /\ posts \subseteq Posts /\ IsFiniteSet(posts)
    /\ \A p \in posts : p.key \in 1 .. Cardinality(posts)
    /\ \A p, q \in posts : p.key = q.key => p = q

\* What somebody saw of the record was the record, now or earlier.
Genuine(v) ==
    /\ v.version <= issue.version
    /\ v.version = issue.version =>
          v.text = issue.text /\ v.lifecycle = issue.lifecycle /\ v.handoff = issue.handoff

ViewsAreGenuine ==
    /\ \A o \in Operators : Genuine(tab[o].view)
    /\ \A o \in Operators : \A load \in loads[o] : Genuine(load.seen)
    /\ \A p \in posts : Genuine(p.seen) /\ p.expected = p.seen.version

\* The completed reservations are the mutations recorded, and only those are
\* answered so.
RecordsAreChanges ==
    /\ records \subseteq posts
    /\ \A i \in 1 .. Len(history) : history[i].post \in records
    /\ \A r \in records : \E i \in 1 .. Len(history) : history[i].post = r
    /\ \A a \in answers : a.result = "recorded" => \E r \in records : r.key = a.key

\* A tab waits for an answer to what it sent.
TabsWaitForPosts ==
    \A o \in Operators : tab[o].phase = "posting" => tab[o].post \in posts

Inv ==
    /\ RowsType /\ TabsType /\ LoadsAreBounded /\ KeysAreFresh /\ ViewsAreGenuine
    /\ RecordsAreChanges /\ TabsWaitForPosts
    /\ ChangesAreMadeInSight /\ RecordedMeansRecorded

-----------------------------------------------------------------------------
\* The transition tables stay within the states.
LEMMA Transitions ==
    /\ \A s \in LifecycleStates : LifecycleTransitions[s] \subseteq LifecycleStates
    /\ \A s \in HandoffStates \cup {"none"} : HandoffTransitions[s] \subseteq HandoffStates
    /\ LifecycleStates \subseteq Targets /\ HandoffStates \subseteq Targets
<1>1. \A s \in LifecycleStates : LifecycleTransitions[s] \subseteq LifecycleStates
  BY DEF LifecycleTransitions, LifecycleStates
<1>2. \A s \in HandoffStates \cup {"none"} : HandoffTransitions[s] \subseteq HandoffStates
  BY DEF HandoffTransitions, HandoffStates
<1> QED
  BY <1>1, <1>2 DEF Targets

\* Before the first answer a tab shows nothing, of version 0.
LEMMA EmptyIssue == NoIssue \in Views /\ NoIssue.version = 0
BY DEF NoIssue, Views, LifecycleStates, HandoffStates

\* Every tab is loading, and nothing was sent.
LEMMA InitInv == Init => Inv
<1> SUFFICES ASSUME Init PROVE Inv
  OBVIOUS
<1>1. PICK handoff \in {"none", "acknowledged"} :
         issue = [NoIssue EXCEPT !.version = 1, !.text = 1, !.handoff = handoff]
  BY DEF Init
<1>2. issue \in Views /\ issue.version = 1
  BY <1>1 DEF NoIssue, Views, LifecycleStates, HandoffStates
<1>3. RowsType
  BY <1>2 DEF RowsType, Init
<1>4. NoTab \in Tabs /\ NoTab.phase = "loading" /\ NoTab.view = NoIssue
         /\ NoTab.message = "none"
  BY EmptyIssue DEF NoTab, Tabs
<1>5. \A o \in Operators : tab[o] = NoTab /\ loads[o] = {}
  BY DEF Init
<1>6. TabsType
  BY <1>4 DEF TabsType, Init
<1>7. LoadsAreBounded
  BY <1>5, FS_EmptySet, OperatorConsoleAssumption DEF LoadsAreBounded
<1>8. KeysAreFresh
  BY FS_EmptySet DEF KeysAreFresh, Init
<1>9. ViewsAreGenuine
  BY <1>2, <1>4, <1>5, EmptyIssue DEF ViewsAreGenuine, Genuine, Init
<1>10. RecordsAreChanges /\ ChangesAreMadeInSight
  BY DEF RecordsAreChanges, ChangesAreMadeInSight, Init
<1>11. TabsWaitForPosts /\ RecordedMeansRecorded
  BY <1>4, <1>5 DEF TabsWaitForPosts, RecordedMeansRecorded
<1> QED
  BY <1>3, <1>6, <1>7, <1>8, <1>9, <1>10, <1>11 DEF Inv

-----------------------------------------------------------------------------
(* The server.                                                             *)

\* What a request finds when its reservation is tried.
LEMMA Reservations ==
    ASSUME Inv, NEW p \in posts
    PROVE  /\ Disposition(p) = IF p \in records THEN "replay" ELSE "reserved"
           /\ \A r \in records : r.key = p.key => r = p
<1>1. \A r \in records : r.key = p.key => r = p
  BY DEF Inv, RecordsAreChanges, KeysAreFresh
<1>2. CASE p \in records
  BY <1>1, <1>2 DEF Disposition
<1>3. CASE p \notin records
  BY <1>1, <1>3 DEF Disposition
<1> QED
  BY <1>1, <1>2, <1>3

\* The row after a recorded mutation.
LEMMA ChangedRow ==
    ASSUME Inv, NEW p \in posts, Answer(p) = "recorded"
    PROVE  /\ Changed(p) \in Views /\ Changed(p).version = issue.version + 1
           /\ p.expected = issue.version
<1>1. issue \in Views /\ p \in Posts
  BY DEF Inv, RowsType, KeysAreFresh
<1>2. p.kind \in Kinds /\ issue.version \in Nat
  BY <1>1 DEF Posts, Views
<1>3. p.expected = issue.version
  BY DEF Answer, Current
<1> DEFINE moved == [issue EXCEPT !.version = issue.version + 1]
<1>8. moved \in Views /\ moved.version = issue.version + 1
  BY <1>1, <1>2 DEF Views
<1>4. CASE p.kind = "status"
  <2>1. p.to \in LifecycleTransitions[issue.lifecycle]
    BY <1>4 DEF Answer
  <2>2. p.to \in LifecycleStates
    BY <1>1, <2>1, Transitions DEF Views
  <2>3. Changed(p) = [moved EXCEPT !.lifecycle = p.to]
    BY <1>4 DEF Changed
  <2> HIDE DEF moved
  <2> QED
    BY <1>3, <1>8, <2>2, <2>3 DEF Views
<1>5. CASE p.kind = "handoff"
  <2>1. HandoffAllowed(issue.handoff, p.to)
    BY <1>5 DEF Answer
  <2>2. p.to = "action_recorded" \/ p.to \in HandoffStates
    BY <1>1, <2>1, Transitions DEF Views, HandoffAllowed
  <2> DEFINE handoff == IF p.to = "action_recorded" THEN issue.handoff ELSE p.to
  <2>3. Changed(p) = [moved EXCEPT !.handoff = handoff]
    BY <1>1, <1>5 DEF Changed, Views
  <2>4. handoff \in HandoffStates \cup {"none"}
    BY <1>1, <2>2 DEF Views
  <2> HIDE DEF moved, handoff
  <2> QED
    BY <1>3, <1>8, <2>3, <2>4 DEF Views
<1>6. CASE p.kind = "correction"
  <2>1. Changed(p) = [moved EXCEPT !.text = issue.version + 1,
                                   !.publication = "commit_pending"]
    BY <1>6 DEF Changed
  <2>2. issue.version + 1 \in Nat
    BY <1>2
  <2> HIDE DEF moved
  <2> QED
    BY <1>3, <1>8, <2>1, <2>2 DEF Views
<1>7. CASE p.kind = "removal"
  BY <1>1, <1>2, <1>3, <1>7 DEF Changed, Views
<1> QED
  BY <1>2, <1>4, <1>5, <1>6, <1>7 DEF Kinds

\* A service answers with one of its results.
LEMMA AnswerType == \A p : Answer(p) \in Results
BY DEF Answer, Results

\* Mutations that are not recorded answer something else.
LEMMA Outcome ==
    ASSUME Inv, NEW p \in posts, Deliver(p)
    PROVE  \/ /\ p \notin records /\ Answer(p) = "recorded"
              /\ answers' = answers \cup {[key |-> p.key, result |-> "recorded"]}
              /\ issue' = Changed(p) /\ records' = records \cup {p}
              /\ history' = Append(history, [post |-> p, before |-> issue])
           \/ /\ UNCHANGED <<issue, records, history>>
              /\ \E result \in Results :
                    /\ answers' = answers \cup {[key |-> p.key, result |-> result]}
                    /\ result = "recorded" => p \in records
<1>1. CASE p \in records
  BY <1>1, Reservations DEF Deliver, Results
<1>2. CASE p \notin records
  <2>1. Disposition(p) = "reserved"
    BY <1>2, Reservations
  <2> DEFINE result == Answer(p)
  <2>2. /\ answers' = answers \cup {[key |-> p.key, result |-> result]}
        /\ issue' = IF result = "recorded" THEN Changed(p) ELSE issue
        /\ records' = IF result = "recorded" THEN records \cup {p} ELSE records
        /\ history' = IF result = "recorded"
                      THEN Append(history, [post |-> p, before |-> issue]) ELSE history
    BY <2>1 DEF Deliver
  <2>3. result \in Results
    BY AnswerType
  <2> HIDE DEF result
  <2> QED
    BY <1>2, <2>2, <2>3 DEF result
<1> QED
  BY <1>1, <1>2

\* A request is recorded once, at the version its tab showed; a replay or a
\* refusal changes nothing.
LEMMA DeliverStep ==
    ASSUME Inv, NEW p \in posts, Deliver(p)
    PROVE  Inv'
<1>1. UNCHANGED <<enabled, tab, posts, loads, faults>>
  BY DEF Deliver
<1>2. TabsType' /\ LoadsAreBounded' /\ KeysAreFresh' /\ TabsWaitForPosts'
  BY <1>1 DEF Inv, TabsType, LoadsAreBounded, KeysAreFresh, TabsWaitForPosts
<1>3. p \in Posts /\ p.key \in Nat /\ Genuine(p.seen) /\ p.expected = p.seen.version
  BY DEF Inv, KeysAreFresh, ViewsAreGenuine, Posts
<1>4. CASE UNCHANGED <<issue, records, history>>
  <2>1. PICK result \in Results :
            /\ answers' = answers \cup {[key |-> p.key, result |-> result]}
            /\ result = "recorded" => p \in records
    BY Outcome, <1>4, Reservations
  <2>2. RowsType'
    BY <1>3, <1>4, <2>1 DEF Inv, RowsType, Answers
  <2>3. ViewsAreGenuine' /\ ChangesAreMadeInSight' /\ RecordedMeansRecorded'
    BY <1>1, <1>4 DEF Inv, ViewsAreGenuine, Genuine, ChangesAreMadeInSight,
       RecordedMeansRecorded
  <2>4. RecordsAreChanges'
    BY <1>1, <1>4, <2>1 DEF Inv, RecordsAreChanges
  <2> QED
    BY <1>2, <2>2, <2>3, <2>4 DEF Inv
<1>5. CASE /\ p \notin records /\ Answer(p) = "recorded"
           /\ answers' = answers \cup {[key |-> p.key, result |-> "recorded"]}
           /\ issue' = Changed(p) /\ records' = records \cup {p}
           /\ history' = Append(history, [post |-> p, before |-> issue])
  <2>1. issue' \in Views /\ issue'.version = issue.version + 1 /\ p.expected = issue.version
    BY <1>5, ChangedRow
  <2>2. issue \in Views /\ issue.version \in Nat /\ history \in Seq(Changes)
    BY DEF Inv, RowsType, Views
  <2> DEFINE change == [post |-> p, before |-> issue]
  <2>3. change \in Changes /\ change.post = p /\ change.before = issue
    BY <1>3, <2>2 DEF Changes
  <2>4. /\ history' \in Seq(Changes) /\ Len(history') = Len(history) + 1 /\ Len(history) \in Nat
        /\ \A i \in 1 .. Len(history) : history'[i] = history[i]
        /\ history'[Len(history) + 1] = change
    BY <1>5, <2>2, <2>3
  <2> HIDE DEF change
  <2>5. RowsType'
    BY <1>3, <1>5, <2>1, <2>2, <2>4 DEF Inv, RowsType, Answers, Results
  <2>6. \A v \in Views : Genuine(v) => Genuine(v)'
    BY <2>1, <2>2 DEF Genuine, Views
  <2>7. ViewsAreGenuine'
    <3>1. \A o \in Operators : tab[o].view \in Views /\ \A load \in loads[o] : load.seen \in Views
      BY DEF Inv, TabsType, Tabs, Loads
    <3>2. \A q \in posts : q.seen \in Views
      BY DEF Inv, KeysAreFresh, Posts
    <3>3. /\ \A o \in Operators : Genuine(tab[o].view)'
          /\ \A o \in Operators : \A load \in loads[o] : Genuine(load.seen)'
      BY <1>1, <2>6, <3>1 DEF Inv, ViewsAreGenuine
    <3>4. \A q \in posts : Genuine(q.seen)' /\ q.expected = q.seen.version
      BY <2>6, <3>2 DEF Inv, ViewsAreGenuine
    <3> QED
      BY <1>1, <3>3, <3>4 DEF ViewsAreGenuine
  <2>8. RecordsAreChanges'
    BY <1>1, <1>5, <2>3, <2>4 DEF Inv, RecordsAreChanges
  <2>9. ChangesAreMadeInSight'
    <3>1. p.seen.text = issue.text /\ p.seen.lifecycle = issue.lifecycle
          /\ p.seen.handoff = issue.handoff
      BY <1>3, <2>1 DEF Genuine
    <3>2. DOMAIN history' = 1 .. (Len(history) + 1) /\ DOMAIN history = 1 .. Len(history)
      BY <2>2, <2>4
    <3> QED
      BY <2>3, <2>4, <3>1, <3>2 DEF Inv, ChangesAreMadeInSight
  <2>10. RecordedMeansRecorded'
    <3>1. DOMAIN history' = 1 .. (Len(history) + 1) /\ DOMAIN history = 1 .. Len(history)
      BY <2>2, <2>4
    <3> QED
      BY <1>1, <2>4, <3>1 DEF Inv, RecordedMeansRecorded
  <2> QED
    BY <1>2, <2>5, <2>7, <2>8, <2>9, <2>10 DEF Inv
<1> QED
  BY <1>4, <1>5, Outcome

\* The chain's worker and the switch.
LEMMA ServerStep ==
    ASSUME Inv, ChainConfirms \/ ChainBlocks \/ ToggleMutations
    PROVE  Inv'
<1>1. /\ issue' \in Views /\ issue'.version = issue.version /\ issue'.text = issue.text
      /\ issue'.lifecycle = issue.lifecycle /\ issue'.handoff = issue.handoff
  <2>1. issue \in Views
    BY DEF Inv, RowsType
  <2>2. CASE ChainConfirms
    BY <2>1, <2>2 DEF ChainConfirms, Views
  <2>3. CASE ChainBlocks
    BY <2>1, <2>3 DEF ChainBlocks, Views
  <2>4. CASE ToggleMutations
    BY <2>1, <2>4 DEF ToggleMutations
  <2> QED
    BY <2>2, <2>3, <2>4
<1>2. UNCHANGED <<records, tab, posts, answers, loads, history>>
  BY DEF ChainConfirms, ChainBlocks, ToggleMutations
<1>3. RowsType' /\ TabsType' /\ LoadsAreBounded' /\ KeysAreFresh' /\ TabsWaitForPosts'
  BY <1>1, <1>2 DEF Inv, RowsType, TabsType, LoadsAreBounded, KeysAreFresh, TabsWaitForPosts
<1>4. ViewsAreGenuine'
  BY <1>1, <1>2 DEF Inv, ViewsAreGenuine, Genuine
<1>5. RecordsAreChanges' /\ ChangesAreMadeInSight' /\ RecordedMeansRecorded'
  BY <1>2 DEF Inv, RecordsAreChanges, ChangesAreMadeInSight, RecordedMeansRecorded
<1> QED
  BY <1>3, <1>4, <1>5 DEF Inv

-----------------------------------------------------------------------------
(* The tab.                                                                *)

\* What a step of a tab leaves to prove.
LEMMA TabStep ==
    ASSUME Inv, UNCHANGED <<issue, records, answers, history>>, NEW o \in Operators,
           NEW t \in Tabs, NEW l \in SUBSET Loads,
           tab' = [tab EXCEPT ![o] = t], loads' = [loads EXCEPT ![o] = l],
           IsFiniteSet(l), Cardinality(l) <= MaxLoads + 1,
           t.phase # "reloading" => Cardinality(l) <= MaxLoads /\ \A load \in l : ~load.inside,
           \A a, b \in l : a.inside /\ b.inside => a = b,
           KeysAreFresh', posts \subseteq posts',
           \A p \in posts' : Genuine(p.seen) /\ p.expected = p.seen.version,
           Genuine(t.view), \A load \in l : Genuine(load.seen),
           t.phase = "posting" => t.post \in posts',
           t.message = "recorded" => \E i \in DOMAIN history : history[i].post = t.post
    PROVE  Inv'
<1>1. /\ tab'[o] = t /\ \A w \in Operators \ {o} : tab'[w] = tab[w]
      /\ loads'[o] = l /\ \A w \in Operators \ {o} : loads'[w] = loads[w]
  BY DEF Inv, TabsType
<1>2. RowsType' /\ ChangesAreMadeInSight'
  BY DEF Inv, RowsType, ChangesAreMadeInSight
<1>3. TabsType'
  BY DEF Inv, TabsType
<1>4. LoadsAreBounded'
  BY <1>1 DEF Inv, LoadsAreBounded
<1>5. \A v : Genuine(v)' = Genuine(v)
  BY DEF Genuine
<1>6. ViewsAreGenuine'
  BY <1>1, <1>5 DEF Inv, ViewsAreGenuine
<1>7. RecordsAreChanges'
  BY DEF Inv, RecordsAreChanges
<1>8. TabsWaitForPosts' /\ RecordedMeansRecorded'
  BY <1>1 DEF Inv, TabsWaitForPosts, RecordedMeansRecorded
<1> QED
  BY <1>2, <1>3, <1>4, <1>6, <1>7, <1>8 DEF Inv

\* The facts about one tab that a step of it starts from.
LEMMA TabFacts ==
    ASSUME Inv, NEW o \in Operators
    PROVE  /\ tab[o] \in Tabs /\ tab[o].view \in Views /\ Genuine(tab[o].view)
           /\ tab = [tab EXCEPT ![o] = tab[o]]
           /\ loads[o] \in SUBSET Loads /\ loads = [loads EXCEPT ![o] = loads[o]]
           /\ IsFiniteSet(loads[o]) /\ Cardinality(loads[o]) \in Nat
           /\ Cardinality(loads[o]) <= MaxLoads + 1
           /\ tab[o].phase # "reloading" =>
                 Cardinality(loads[o]) <= MaxLoads /\ \A load \in loads[o] : ~load.inside
           /\ \A a, b \in loads[o] : a.inside /\ b.inside => a = b
           /\ \A load \in loads[o] : Genuine(load.seen)
           /\ tab[o].phase = "posting" => tab[o].post \in posts
           /\ tab[o].message = "recorded" =>
                 \E i \in DOMAIN history : history[i].post = tab[o].post
<1>1. tab[o] \in Tabs /\ tab = [tab EXCEPT ![o] = tab[o]]
  BY DEF Inv, TabsType
<1>2. tab[o].view \in Views
  BY <1>1 DEF Tabs
<1>3. loads[o] \in SUBSET Loads /\ loads = [loads EXCEPT ![o] = loads[o]]
  BY DEF Inv, TabsType
<1>4. /\ IsFiniteSet(loads[o]) /\ Cardinality(loads[o]) <= MaxLoads + 1
      /\ tab[o].phase # "reloading" =>
            Cardinality(loads[o]) <= MaxLoads /\ \A load \in loads[o] : ~load.inside
      /\ \A a, b \in loads[o] : a.inside /\ b.inside => a = b
  BY DEF Inv, LoadsAreBounded
<1>5. Cardinality(loads[o]) \in Nat
  BY <1>4, FS_CardinalityType
<1> QED
  BY <1>1, <1>2, <1>3, <1>4, <1>5
     DEF Inv, ViewsAreGenuine, TabsWaitForPosts, RecordedMeansRecorded

\* The posts as they are satisfy what TabStep asks of them.
LEMMA PostsKept ==
    ASSUME Inv, UNCHANGED posts
    PROVE  /\ KeysAreFresh' /\ posts \subseteq posts'
           /\ \A p \in posts' : Genuine(p.seen) /\ p.expected = p.seen.version
BY DEF Inv, KeysAreFresh, ViewsAreGenuine

\* The answers under way once a reload has read the row as it is.
OneMore(o, inside) == loads[o] \cup {[seen |-> issue, inside |-> inside]}

\* One more answer under way carries a genuine row, and is one more at most.
LEMMA OneMoreLoad ==
    ASSUME Inv, NEW o \in Operators, NEW inside \in BOOLEAN
    PROVE  /\ OneMore(o, inside) \in SUBSET Loads
           /\ IsFiniteSet(OneMore(o, inside))
           /\ Cardinality(OneMore(o, inside)) \in Nat
           /\ Cardinality(OneMore(o, inside)) <= Cardinality(loads[o]) + 1
           /\ \A load \in OneMore(o, inside) : Genuine(load.seen)
<1> DEFINE new == [seen |-> issue, inside |-> inside]
           l   == loads[o] \cup {new}
<1>1. new \in Loads /\ new.seen = issue
  BY DEF Inv, RowsType, Loads
<1>2. Genuine(issue)
  BY DEF Inv, RowsType, Views, Genuine
<1>3. IsFiniteSet(l) /\ Cardinality(l) \in Nat /\ Cardinality(l) <= Cardinality(loads[o]) + 1
  <2>1. IsFiniteSet(loads[o]) /\ Cardinality(loads[o]) \in Nat /\ l = loads[o] \cup {new}
    BY TabFacts
  <2> HIDE DEF new
  <2>2. CASE new \in loads[o]
    <3>1. l = loads[o]
      BY <2>1, <2>2
    <3>2. IsFiniteSet(l) /\ Cardinality(l) = Cardinality(loads[o])
      BY <2>1, <3>1, Zenon
    <3> QED
      BY <2>1, <3>2
  <2>3. CASE new \notin loads[o]
    <3>1. /\ IsFiniteSet(loads[o] \cup {new})
          /\ Cardinality(loads[o] \cup {new}) = Cardinality(loads[o]) + 1
      BY <2>1, <2>3, FS_AddElement
    <3>2. IsFiniteSet(l) /\ Cardinality(l) = Cardinality(loads[o]) + 1
      BY <2>1, <3>1, Zenon
    <3> QED
      BY <2>1, <3>2
  <2> QED
    BY <2>2, <2>3
<1> QED
  <2>1. OneMore(o, inside) = l
    BY DEF OneMore
  <2>2. \A load \in l : load \in Loads /\ Genuine(load.seen)
    BY <1>1, <1>2, TabFacts
  <2> HIDE DEF l
  <2> QED
    BY <1>3, <2>1, <2>2

\* A reload that somebody starts leaves room for the one an answer starts.
LEMMA RefreshStep ==
    ASSUME Inv, NEW o \in Operators, Refresh(o)
    PROVE  Inv'
<1> DEFINE l == OneMore(o, FALSE)
<1>1. /\ UNCHANGED <<issue, records, tab, posts, answers, history>>
      /\ loads' = [loads EXCEPT ![o] = l] /\ Cardinality(loads[o]) < MaxLoads
  BY DEF Refresh, Load, OneMore
<1>2. l \in SUBSET Loads /\ IsFiniteSet(l) /\ Cardinality(l) \in Nat /\ Cardinality(l) <= MaxLoads
      /\ \A load \in l : Genuine(load.seen)
  <2>1. l \in SUBSET Loads /\ IsFiniteSet(l) /\ Cardinality(l) \in Nat
        /\ Cardinality(l) <= Cardinality(loads[o]) + 1 /\ \A load \in l : Genuine(load.seen)
    BY OneMoreLoad
  <2>2. Cardinality(loads[o]) \in Nat
    BY TabFacts
  <2>3. Cardinality(loads[o]) < MaxLoads /\ MaxLoads \in Nat
    BY <1>1, OperatorConsoleAssumption
  <2> HIDE DEF l
  <2>4. Cardinality(l) <= MaxLoads
    BY <2>1, <2>2, <2>3
  <2> QED
    BY <2>1, <2>4, Zenon
<1>3. Cardinality(l) <= MaxLoads + 1
  <2> HIDE DEF l
  <2> QED
    BY <1>2, OperatorConsoleAssumption
<1>4. /\ tab[o].phase # "reloading" => \A load \in l : ~load.inside
      /\ \A a, b \in l : a.inside /\ b.inside => a = b
  BY TabFacts DEF OneMore
<1> HIDE DEF l
<1> QED
  BY <1>1, <1>2, <1>3, <1>4, TabStep, TabFacts, PostsKept

\* An edit touches the form, not the record on the screen.
LEMMA EditTextStep ==
    ASSUME Inv, NEW o \in Operators, EditText(o)
    PROVE  Inv'
<1> DEFINE t == [tab[o] EXCEPT !.dirty = TRUE, !.base = tab[o].view.text]
<1>1. UNCHANGED <<issue, records, posts, answers, loads, history>>
         /\ tab' = [tab EXCEPT ![o] = t]
  BY TabFacts DEF EditText
<1>tabs. tab[o] \in Tabs
  BY TabFacts
<1>2. /\ t \in Tabs /\ t.view = tab[o].view /\ t.phase = tab[o].phase
      /\ t.post = tab[o].post /\ t.message = tab[o].message
  BY <1>tabs DEF Tabs, Views
<1> HIDE DEF t
<1>3. /\ Genuine(t.view) /\ \A load \in loads[o] : Genuine(load.seen)
      /\ t.phase = "posting" => t.post \in posts'
      /\ t.message = "recorded" => \E i \in DOMAIN history : history[i].post = t.post
      /\ t.phase # "reloading" =>
            Cardinality(loads[o]) <= MaxLoads /\ \A load \in loads[o] : ~load.inside
  BY <1>1, <1>2, TabFacts
<1>4. loads[o] \in SUBSET Loads /\ loads' = [loads EXCEPT ![o] = loads[o]]
      /\ IsFiniteSet(loads[o]) /\ Cardinality(loads[o]) <= MaxLoads + 1
      /\ \A a, b \in loads[o] : a.inside /\ b.inside => a = b
  BY <1>1, TabFacts
<1> QED
  BY <1>1, <1>2, <1>3, <1>4, TabStep, PostsKept

\* A request has a fresh key and takes what the screen shows.
LEMMA PostStep ==
    ASSUME Inv, NEW o \in Operators, NEW kind \in Kinds, NEW to \in Targets, Post(o, kind, to)
    PROVE  Inv'
<1> DEFINE p == [key |-> Cardinality(posts) + 1, by |-> o, kind |-> kind, to |-> to,
                 expected |-> tab[o].view.version, base |-> tab[o].base, seen |-> tab[o].view]
           t == [tab[o] EXCEPT !.phase = "posting", !.post = p, !.message = "none"]
<1>1. UNCHANGED <<issue, records, answers, loads, history>>
  BY DEF Post
<1>2. posts' = posts \cup {p} /\ tab[o].phase = "idle"
  BY DEF Post, Ready
<1>3. tab' = [tab EXCEPT ![o] = t]
  BY TabFacts DEF Post
<1>4. IsFiniteSet(posts) /\ Cardinality(posts) \in Nat /\ \A q \in posts : q.key \in 1 .. Cardinality(posts)
  BY FS_CardinalityType DEF Inv, KeysAreFresh
<1>5. p \in Posts /\ p.key = Cardinality(posts) + 1 /\ p.seen = tab[o].view
      /\ p.expected = tab[o].view.version
  BY <1>4, TabFacts DEF Posts, Tabs, Views
<1>6. /\ t \in Tabs /\ t.view = tab[o].view /\ t.phase = "posting"
      /\ t.post = p /\ t.message = "none"
  <2>1. tab[o] \in Tabs
    BY TabFacts
  <2> HIDE DEF p
  <2> QED
    BY <1>5, <2>1 DEF Tabs
<1> HIDE DEF p, t
<1>7. p \notin posts /\ IsFiniteSet(posts') /\ Cardinality(posts') = Cardinality(posts) + 1
  BY <1>2, <1>4, <1>5, FS_AddElement
<1>8. KeysAreFresh'
  <2>1. posts' \subseteq Posts
    BY <1>2, <1>5 DEF Inv, KeysAreFresh
  <2>2. \A q \in posts' : q.key \in 1 .. Cardinality(posts')
    BY <1>2, <1>4, <1>5, <1>7
  <2>3. \A q, r \in posts' : q.key = r.key => q = r
    BY <1>2, <1>4, <1>5 DEF Inv, KeysAreFresh
  <2> QED
    BY <1>7, <2>1, <2>2, <2>3 DEF KeysAreFresh
<1>9. \A q \in posts' : Genuine(q.seen) /\ q.expected = q.seen.version
  BY <1>2, <1>5, TabFacts DEF Inv, ViewsAreGenuine
<1>10. p \in posts' /\ posts \subseteq posts'
  BY <1>2
<1> QED
  BY <1>1, <1>2, <1>3, <1>6, <1>8, <1>9, <1>10, TabStep, TabFacts

\* Every result has a message.
LEMMA MessageType ==
    \A r \in Results : Message(r) \in {"none", "recorded", "stale_resource_version",
                                       "workflow_conflict", "failed"}
                       /\ (Message(r) = "recorded" => r = "recorded")
BY DEF Message, Results

\* An answer 'recorded' is for the change of the tab that waits.
LEMMA AnswerArrivesStep ==
    ASSUME Inv, NEW o \in Operators, AnswerArrives(o)
    PROVE  Inv'
<1>1. PICK a \in answers :
        /\ tab[o].phase = "posting"
        /\ a.key = tab[o].post.key
        /\ IF a.result \in {"recorded", "stale_resource_version"}
           THEN /\ Load(o, TRUE)
                /\ tab' = [tab EXCEPT ![o].phase = "reloading", ![o].message = Message(a.result)]
           ELSE /\ UNCHANGED loads
                /\ tab' = [tab EXCEPT ![o].phase = "idle", ![o].message = Message(a.result)]
        /\ UNCHANGED <<issue, records, enabled, posts, answers, faults, history>>
  BY DEF AnswerArrives
<1>2. a.result \in Results
  BY DEF Inv, RowsType, Answers
<1>3. a.result = "recorded" => \E i \in DOMAIN history : history[i].post = tab[o].post
  <2> SUFFICES ASSUME a.result = "recorded"
               PROVE  \E i \in DOMAIN history : history[i].post = tab[o].post
    OBVIOUS
  <2>1. PICK r \in records : r.key = a.key
    BY DEF Inv, RecordsAreChanges
  <2>2. r = tab[o].post
    BY <1>1, <2>1 DEF Inv, RecordsAreChanges, KeysAreFresh, TabsWaitForPosts
  <2>3. DOMAIN history = 1 .. Len(history)
    BY DEF Inv, RowsType
  <2> QED
    BY <2>2, <2>3 DEF Inv, RecordsAreChanges
<1>4. CASE a.result \in {"recorded", "stale_resource_version"}
  <2> DEFINE l == OneMore(o, TRUE)
             t == [tab[o] EXCEPT !.phase = "reloading", !.message = Message(a.result)]
  <2>1. loads' = [loads EXCEPT ![o] = l] /\ tab' = [tab EXCEPT ![o] = t]
    BY <1>1, <1>4, TabFacts DEF Load, OneMore
  <2>2. l \in SUBSET Loads /\ IsFiniteSet(l) /\ Cardinality(l) <= MaxLoads + 1
        /\ \A load \in l : Genuine(load.seen)
    <3>1. l \in SUBSET Loads /\ IsFiniteSet(l) /\ Cardinality(l) \in Nat
          /\ Cardinality(l) <= Cardinality(loads[o]) + 1 /\ \A load \in l : Genuine(load.seen)
      BY OneMoreLoad
    <3>2. Cardinality(loads[o]) \in Nat /\ Cardinality(loads[o]) <= MaxLoads
      BY <1>1, TabFacts
    <3> HIDE DEF l
    <3> QED
      BY <3>1, <3>2, OperatorConsoleAssumption
  <2>3. \A b, c \in l : b.inside /\ c.inside => b = c
    BY <1>1, TabFacts DEF OneMore
  <2>4. /\ t \in Tabs /\ t.view = tab[o].view /\ t.phase = "reloading"
        /\ t.post = tab[o].post /\ t.message = Message(a.result)
    BY <1>2, TabFacts, MessageType DEF Tabs
  <2> HIDE DEF t, l
  <2>5. t.message = "recorded" => \E i \in DOMAIN history : history[i].post = t.post
    BY <1>2, <1>3, <2>4, MessageType
  <2> QED
    BY <1>1, <2>1, <2>2, <2>3, <2>4, <2>5, TabStep, TabFacts, PostsKept
<1>5. CASE a.result \notin {"recorded", "stale_resource_version"}
  <2> DEFINE t == [tab[o] EXCEPT !.phase = "idle", !.message = Message(a.result)]
  <2>1. UNCHANGED loads /\ tab' = [tab EXCEPT ![o] = t]
    BY <1>1, <1>5, TabFacts
  <2>2. /\ t \in Tabs /\ t.view = tab[o].view /\ t.phase = "idle"
        /\ t.post = tab[o].post /\ t.message = Message(a.result)
    BY <1>2, TabFacts, MessageType DEF Tabs
  <2> HIDE DEF t
  <2>3. t.message # "recorded"
    BY <1>2, <1>5, <2>2, MessageType
  <2> QED
    BY <1>1, <2>1, <2>2, <2>3, TabStep, TabFacts, PostsKept
<1> QED
  BY <1>4, <1>5

\* A lost answer claims nothing.
LEMMA AnswerLostStep ==
    ASSUME Inv, NEW o \in Operators, AnswerLost(o)
    PROVE  Inv'
<1> DEFINE t == [tab[o] EXCEPT !.phase = "idle", !.message = "failed"]
<1>1. /\ UNCHANGED <<issue, records, posts, answers, loads, history>>
      /\ tab' = [tab EXCEPT ![o] = t] /\ tab[o].phase = "posting"
  BY TabFacts DEF AnswerLost
<1>2. t \in Tabs /\ t.view = tab[o].view /\ t.phase = "idle" /\ t.message = "failed"
  BY TabFacts DEF Tabs
<1> HIDE DEF t
<1> QED
  BY <1>1, <1>2, TabStep, TabFacts, PostsKept

\* An answer fewer under way: where it was the one waited for, none is left.
LEMMA OneLoadLess ==
    ASSUME Inv, NEW o \in Operators, NEW load \in loads[o]
    PROVE  LET l == loads[o] \ {load}
           IN  /\ l \in SUBSET Loads /\ IsFiniteSet(l)
               /\ Cardinality(l) <= MaxLoads /\ Cardinality(l) <= MaxLoads + 1
               /\ \A a \in l : Genuine(a.seen)
               /\ load.inside => \A a \in l : ~a.inside
               /\ tab[o].phase # "reloading" => \A a \in l : ~a.inside
               /\ \A a, b \in l : a.inside /\ b.inside => a = b
<1> DEFINE l == loads[o] \ {load}
<1>1. IsFiniteSet(l) /\ Cardinality(l) = Cardinality(loads[o]) - 1
  BY TabFacts, FS_RemoveElement
<1>2. Cardinality(l) <= MaxLoads /\ Cardinality(l) <= MaxLoads + 1
  BY <1>1, TabFacts, OperatorConsoleAssumption
<1> QED
  BY <1>1, <1>2, TabFacts

\* What a reload brings was read of the record, now or earlier.
LEMMA LoadArrivesStep ==
    ASSUME Inv, NEW o \in Operators, LoadArrives(o)
    PROVE  Inv'
<1>1. PICK load \in loads[o] :
        /\ loads' = [loads EXCEPT ![o] = @ \ {load}]
        /\ tab' = [tab EXCEPT ![o].view = load.seen,
                              ![o].phase = IF load.inside \/ @ = "loading" THEN "idle" ELSE @]
        /\ UNCHANGED <<issue, records, enabled, posts, answers, faults, history>>
  BY DEF LoadArrives
<1> DEFINE l == loads[o] \ {load}
           phase == IF load.inside \/ tab[o].phase = "loading" THEN "idle" ELSE tab[o].phase
           t == [tab[o] EXCEPT !.view = load.seen, !.phase = phase]
<1>tabs. tab[o] \in Tabs
  BY TabFacts
<1>2. loads' = [loads EXCEPT ![o] = l] /\ tab' = [tab EXCEPT ![o] = t]
  BY <1>1, <1>tabs DEF Tabs
<1>3. load.seen \in Views /\ Genuine(load.seen) /\ load.inside \in BOOLEAN
  BY TabFacts DEF Loads
<1>4. /\ t \in Tabs /\ t.view = load.seen /\ t.phase = phase
      /\ t.post = tab[o].post /\ t.message = tab[o].message
  BY <1>3, <1>tabs DEF Tabs
<1>5. phase # "reloading" => load.inside \/ tab[o].phase # "reloading"
  OBVIOUS
<1>6. phase = "posting" => tab[o].phase = "posting"
  OBVIOUS
<1> HIDE DEF t, phase
<1>7. \A a \in l : Genuine(a.seen)
  BY OneLoadLess
<1>8. t.phase # "reloading" => \A a \in l : ~a.inside
  BY <1>4, <1>5, OneLoadLess
<1>9. l \in SUBSET Loads /\ IsFiniteSet(l) /\ Cardinality(l) <= MaxLoads
      /\ Cardinality(l) <= MaxLoads + 1 /\ \A a, b \in l : a.inside /\ b.inside => a = b
  BY OneLoadLess
<1> HIDE DEF l
<1>10. /\ t.phase = "posting" => t.post \in posts'
       /\ t.message = "recorded" => \E i \in DOMAIN history : history[i].post = t.post
  BY <1>1, <1>4, <1>6, TabFacts
<1> QED
  BY <1>1, <1>2, <1>3, <1>4, <1>7, <1>8, <1>9, <1>10, TabStep, PostsKept

\* A reload that fails leaves the screen as it was.
LEMMA LoadFailsStep ==
    ASSUME Inv, NEW o \in Operators, LoadFails(o)
    PROVE  Inv'
<1>1. PICK load \in loads[o] :
        /\ loads' = [loads EXCEPT ![o] = @ \ {load}]
        /\ tab' = [tab EXCEPT
              ![o].phase = IF load.inside THEN "idle" ELSE @,
              ![o].message = IF load.inside /\ @ = "recorded" THEN "failed" ELSE @]
        /\ UNCHANGED <<issue, records, enabled, posts, answers, faults, history>>
  BY DEF LoadFails
<1> DEFINE l == loads[o] \ {load}
           phase == IF load.inside THEN "idle" ELSE tab[o].phase
           message == IF load.inside /\ tab[o].message = "recorded" THEN "failed"
                      ELSE tab[o].message
           t == [tab[o] EXCEPT !.phase = phase, !.message = message]
<1>tabs. tab[o] \in Tabs
  BY TabFacts
<1>2. loads' = [loads EXCEPT ![o] = l] /\ tab' = [tab EXCEPT ![o] = t]
  BY <1>1, <1>tabs DEF Tabs
<1>3. /\ t \in Tabs /\ t.view = tab[o].view /\ t.phase = phase
      /\ t.post = tab[o].post /\ t.message = message
  <2>1. [tab[o] EXCEPT !.phase = phase] \in Tabs
    BY <1>tabs DEF Tabs
  <2>2. message \in {"none", "recorded", "stale_resource_version", "workflow_conflict", "failed"}
    BY <1>tabs DEF Tabs
  <2> HIDE DEF phase, message
  <2> QED
    BY <1>tabs, <2>1, <2>2 DEF Tabs
<1>4. phase # "reloading" => load.inside \/ tab[o].phase # "reloading"
  OBVIOUS
<1>5. /\ phase = "posting" => tab[o].phase = "posting"
      /\ message = "recorded" => tab[o].message = "recorded"
  OBVIOUS
<1> HIDE DEF t, phase, message
<1>6. \A a \in l : Genuine(a.seen)
  BY OneLoadLess
<1>7. t.phase # "reloading" => \A a \in l : ~a.inside
  BY <1>3, <1>4, OneLoadLess
<1>8. l \in SUBSET Loads /\ IsFiniteSet(l) /\ Cardinality(l) <= MaxLoads
      /\ Cardinality(l) <= MaxLoads + 1 /\ \A a, b \in l : a.inside /\ b.inside => a = b
  BY OneLoadLess
<1> HIDE DEF l
<1>9. /\ t.phase = "posting" => t.post \in posts'
      /\ t.message = "recorded" => \E i \in DOMAIN history : history[i].post = t.post
      /\ Genuine(t.view)
  BY <1>1, <1>3, <1>5, TabFacts
<1> QED
  BY <1>1, <1>2, <1>3, <1>6, <1>7, <1>8, <1>9, TabStep, PostsKept

-----------------------------------------------------------------------------
(* Every step.                                                             *)

\* Every step keeps the invariant.
LEMMA StepInv == Inv /\ [Next]_vars => Inv'
<1> SUFFICES ASSUME Inv, [Next]_vars PROVE Inv'
  OBVIOUS
<1>1. ASSUME NEW p \in posts, Deliver(p) PROVE Inv'
  BY <1>1, DeliverStep
<1>2. CASE ChainConfirms \/ ChainBlocks \/ ToggleMutations
  BY <1>2, ServerStep
<1>3. ASSUME NEW o \in Operators, Refresh(o) PROVE Inv'
  BY <1>3, RefreshStep
<1>4. ASSUME NEW o \in Operators, EditText(o) PROVE Inv'
  BY <1>4, EditTextStep
<1>5. ASSUME NEW o \in Operators, NEW to \in Lifecycles, ChangeStatus(o, to) PROVE Inv'
  <2>1. to \in Targets /\ Post(o, "status", to)
    BY <1>5, OperatorConsoleAssumption, Transitions DEF ChangeStatus
  <2> QED
    BY <2>1, PostStep DEF Kinds
<1>6. ASSUME NEW o \in Operators, NEW event \in HandoffStates \cup {"action_recorded"},
             RecordHandoff(o, event)
      PROVE  Inv'
  <2>1. event \in Targets /\ Post(o, "handoff", event)
    BY <1>6 DEF RecordHandoff, Targets
  <2> QED
    BY <2>1, PostStep DEF Kinds
<1>7. ASSUME NEW o \in Operators, Correct(o) PROVE Inv'
  BY <1>7, PostStep DEF Correct, Kinds, Targets
<1>8. ASSUME NEW o \in Operators, Remove(o) PROVE Inv'
  BY <1>8, PostStep DEF Remove, Kinds, Targets
<1>9. ASSUME NEW o \in Operators, AnswerArrives(o) PROVE Inv'
  BY <1>9, AnswerArrivesStep
<1>10. ASSUME NEW o \in Operators, AnswerLost(o) PROVE Inv'
  BY <1>10, AnswerLostStep
<1>11. ASSUME NEW o \in Operators, LoadArrives(o) PROVE Inv'
  BY <1>11, LoadArrivesStep
<1>12. ASSUME NEW o \in Operators, LoadFails(o) PROVE Inv'
  BY <1>12, LoadFailsStep
<1>13. CASE UNCHANGED vars
  <2>1. UNCHANGED <<issue, records, enabled, tab, posts, answers, loads, faults, history>>
    BY <1>13 DEF vars
  <2> QED
    BY <2>1 DEF Inv, RowsType, TabsType, LoadsAreBounded, KeysAreFresh, ViewsAreGenuine,
       Genuine,
                RecordsAreChanges, TabsWaitForPosts, ChangesAreMadeInSight, RecordedMeansRecorded
<1> QED
  BY <1>1, <1>2, <1>3, <1>4, <1>5, <1>6, <1>7, <1>8, <1>9, <1>10, <1>11, <1>12, <1>13 DEF Next

\* The invariant holds in every reachable state.
LEMMA Invariant == Spec => []Inv
<1>1. Init => Inv
  BY InitInv
<1>2. Inv /\ [Next]_vars => Inv'
  BY StepInv
<1> QED
  BY <1>1, <1>2, PTL DEF Spec

-----------------------------------------------------------------------------
(* The theorems.                                                           *)

\* What a tab shows at the press is what its operator changes, and what it
\* reports is what was recorded, however deliveries, reloads and the chain's worker
\* interleave with the four mutation services.
THEOREM TabsAreTrue == Spec => []TabsTellTheTruth
<1>1. Inv => TypeOK
  <2> SUFFICES ASSUME Inv PROVE TypeOK
    OBVIOUS
  <2>1. /\ issue.publication \in {"published", "commit_pending", "removed"}
        /\ issue.lifecycle \in LifecycleStates
        /\ issue.handoff \in HandoffStates \cup {"none"}
    BY DEF Inv, RowsType, Views
  <2>2. ASSUME NEW o \in Operators
        PROVE  /\ tab[o].phase \in {"loading", "idle", "posting", "reloading"}
               /\ tab[o].message \in {"none", "recorded", "stale_resource_version",
                                      "workflow_conflict", "failed"}
               /\ Cardinality(loads[o]) <= MaxLoads + 1
    BY TabFacts DEF Tabs
  <2> QED
    BY <2>1, <2>2 DEF TypeOK
<1> QED
  BY <1>1, Invariant, PTL DEF Inv, TabsTellTheTruth

\* A key that recorded a change never records another and is answered the
\* same way from then on: reserve_idempotency and the four services.
THEOREM KeysStayFinal == Spec => KeysAreFinal
<1> DEFINE Final ==
        \A k \in 1 .. Cardinality(posts) :
          [key |-> k, result |-> "recorded"] \in answers =>
             /\ \A a \in answers' \ answers : a.key # k
             /\ issue' # issue =>
                   (\A i \in DOMAIN history' \ DOMAIN history : history'[i].post.key # k)
<1>1. Inv /\ [Next]_vars => [Final]_vars
  <2> SUFFICES ASSUME Inv, [Next]_vars,
                      NEW k \in 1 .. Cardinality(posts),
                      [key |-> k, result |-> "recorded"] \in answers
               PROVE  /\ \A a \in answers' \ answers : a.key # k
                      /\ \A i \in DOMAIN history' \ DOMAIN history : history'[i].post.key # k
    BY DEF KeysAreFinal
  <2>1. CASE UNCHANGED <<answers, history>>
    BY <2>1
  <2>2. ASSUME NEW p \in posts, Deliver(p)
        PROVE  /\ \A a \in answers' \ answers : a.key # k
               /\ \A i \in DOMAIN history' \ DOMAIN history : history'[i].post.key # k
    <3>1. PICK r \in records : r.key = k
      BY DEF Inv, RecordsAreChanges
    <3>2. CASE p.key # k
      <4>1. \E result : answers' = answers \cup {[key |-> p.key, result |-> result]}
        BY Outcome, <2>2
      <4>2. UNCHANGED history \/ history' = Append(history, [post |-> p, before |-> issue])
        BY Outcome, <2>2
      <4>3. history \in Seq(Changes)
        BY DEF Inv, RowsType
      <4>4. \A i \in DOMAIN history' \ DOMAIN history : history'[i].post = p
        BY <4>2, <4>3
      <4> QED
        BY <3>2, <4>1, <4>4
    <3>3. CASE p.key = k
      <4>1. p \in records
        BY <3>1, <3>3, Reservations
      <4>2. Disposition(p) = "replay"
        BY <4>1, Reservations
      <4>3. answers' = answers \cup {[key |-> k, result |-> "recorded"]} /\ history' = history
        BY <2>2, <3>3, <4>2 DEF Deliver
      <4> QED
        BY <4>3
    <3> QED
      BY <3>2, <3>3
  <2>3. (\E p \in posts : Deliver(p)) \/ UNCHANGED <<answers, history>>
    <3>1. ASSUME NEW o \in Operators,
                 \/ Refresh(o) \/ EditText(o) \/ AnswerArrives(o) \/ AnswerLost(o)
                 \/ LoadArrives(o) \/ LoadFails(o)
          PROVE  UNCHANGED <<answers, history>>
      BY <3>1 DEF Refresh, EditText, AnswerArrives, AnswerLost, LoadArrives, LoadFails
    <3>2. ASSUME NEW o \in Operators, NEW kind, NEW to, Post(o, kind, to)
          PROVE  UNCHANGED <<answers, history>>
      BY <3>2 DEF Post
    <3>3. CASE ChainConfirms \/ ChainBlocks \/ ToggleMutations
      BY <3>3 DEF ChainConfirms, ChainBlocks, ToggleMutations
    <3>4. CASE UNCHANGED vars
      BY <3>4 DEF vars
    <3> QED
      BY <3>1, <3>2, <3>3, <3>4 DEF Next, ChangeStatus, RecordHandoff, Correct, Remove
  <2> QED
    BY <2>1, <2>2, <2>3
<1> QED
  BY <1>1, Invariant, PTL DEF Spec, KeysAreFinal
=============================================================================
