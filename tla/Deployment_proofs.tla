------------------------- MODULE Deployment_proofs -------------------------
(***************************************************************************)
(* What holds of Deployment for any number of versions and sessions: IInv  *)
(* is inductive, hence one production version, the log that names it, the  *)
(* gate, the history and the numbering; and what a step may never do.      *)
(***************************************************************************)
EXTENDS Deployment, FiniteSetTheorems, WellFoundedInduction, TLAPS

-----------------------------------------------------------------------------
(* Lemmas on the operators.                                                *)

Less == OpToRel(<, Nat)

LEMMA LessWellFounded == IsWellFoundedOn(Less, Nat)
BY NatLessThanWellFounded, Zenon DEF Less

\* A non-empty set of indices has a largest one, and Latest is it.
LEMMA LatestIn ==
    ASSUME NEW n \in Nat, NEW I \in SUBSET (1..n), I # {}
    PROVE  Latest(I) \in I /\ \A j \in I : j <= Latest(I)
<1> DEFINE T == {n - i : i \in I}
<1>1. \A i \in I : n - i \in Nat
  OBVIOUS
<1>2. T \subseteq Nat /\ T # {}
  BY <1>1
<1>3. PICK x \in T : \A y \in T : <<y, x>> \notin Less
  BY <1>2, LessWellFounded, WFMin, Zenon
<1>4. PICK i \in I : x = n - i
  BY <1>3
<1>5. \A j \in I : j <= i
  <2> TAKE j \in I
  <2>1. <<n - j, x>> \notin Less
    BY <1>3
  <2>2. ~(n - j < x)
    BY <2>1, <1>2, <1>3, <1>4 DEF Less, OpToRel
  <2> QED
    BY <2>2, <1>4
<1> QED
  BY <1>5, Zenon DEF Latest

\* An appended event keeps the indices and the contents of the others.
LEMMA AppendEvent ==
    ASSUME events \in Seq(Event), NEW e \in Event, events' = Append(events, e)
    PROVE  /\ Len(events) \in Nat
           /\ Len(events') = Len(events) + 1
           /\ DOMAIN events = 1..Len(events)
           /\ DOMAIN events' = DOMAIN events \cup {Len(events) + 1}
           /\ \A i \in DOMAIN events : events'[i] = events[i]
           /\ events'[Len(events) + 1] = e
OBVIOUS

LEMMA AppendEvaluation ==
    ASSUME evaluations \in Seq(Evaluation), NEW e \in Evaluation,
           evaluations' = Append(evaluations, e)
    PROVE  /\ DOMAIN evaluations \subseteq DOMAIN evaluations'
           /\ \A i \in DOMAIN evaluations : evaluations'[i] = evaluations[i]
OBVIOUS

\* The current production version of an agent that has at most one.
LEMMA CurrentProductionIs ==
    ASSUME OneProduction
    PROVE  /\ CurrentProduction \in VersionOrNone
           /\ Production = {CurrentProduction} \ {NoVersion}
<1>1. CASE Production = {}
  BY <1>1 DEF CurrentProduction, VersionOrNone
<1>2. CASE Production # {}
  <2>1. CurrentProduction \in Production
    BY <1>2, Zenon DEF CurrentProduction
  <2>2. Production \subseteq Versions
    BY DEF Production
  <2> QED
    BY <2>1, <2>2, ConstantsAssumption DEF OneProduction, VersionOrNone
<1> QED
  BY <1>1, <1>2

\* A version the gate lets through has passed an evaluation.
LEMMA GateOpenPassed ==
    ASSUME TypeOK, NEW v \in Versions, GateOpen(v)
    PROVE  v \in Passed
<1>1. Len(evaluations) \in Nat /\ DOMAIN evaluations = 1..Len(evaluations)
  BY DEF TypeOK
<1>2. Completed(v) \in SUBSET (1..Len(evaluations)) /\ Completed(v) # {}
  BY <1>1, Zenon DEF Completed, GateOpen
<1>3. Latest(Completed(v)) \in Completed(v)
  BY <1>1, <1>2, LatestIn, Zenon
<1> QED
  BY <1>3, Zenon DEF Completed, Passed, GateOpen

\* What a rollback selects was promoted and is not deprecated.
LEMMA RestorableIs ==
    ASSUME TypeOK, EventsOK, NEW c, Restorable(c) # {}
    PROVE  LET v == events[Latest(Restorable(c))].target
           IN  v \in Created /\ v \in Passed /\ v # c /\ versions[v].lifecycle # "DEPRECATED"
<1>1. Len(events) \in Nat /\ DOMAIN events = 1..Len(events)
  BY DEF TypeOK
<1>2. Restorable(c) \in SUBSET (1..Len(events))
  BY <1>1, Zenon DEF Restorable
<1>3. Latest(Restorable(c)) \in Restorable(c)
  BY <1>1, <1>2, LatestIn, Zenon
<1> QED
  BY <1>3, Zenon DEF Restorable, EventsOK, Deploying

\* Numbering goes on where it stopped.
LEMMA NextNumberIs ==
    ASSUME TypeOK, NumbersOK, NEW v \in Versions, versions[v].lifecycle = "ABSENT"
    PROVE  NextNumber = Cardinality(Created) + 1 /\ Cardinality(Created) \in Nat
<1> DEFINE n == Cardinality(Created)
           newest == CHOOSE x \in Versions : \A w \in Versions : versions[w].number <= versions[x].number
<1>1. IsFiniteSet(Created) /\ n \in Nat
  <2>1. Created \subseteq Versions
    BY DEF Created
  <2> QED
    BY <2>1, FS_Subset, FS_CardinalityType, ConstantsAssumption
<1>2. \A w \in Versions : versions[w].number \in 0..n
  <2>1. ASSUME NEW w \in Created PROVE versions[w].number \in 1..n
    BY <2>1, Zenon DEF NumbersOK, NumbersDense
  <2>2. ASSUME NEW w \in Versions \ Created PROVE versions[w].number = 0
    BY DEF NumbersOK
  <2> QED
    BY <1>1, <2>1, <2>2
<1>3. \E x \in Versions : versions[x].number = n
  <2>1. CASE n = 0
    BY <2>1, <1>2
  <2>2. CASE n # 0
    <3>1. n \in {versions[x].number : x \in Created}
      BY <2>2, <1>1 DEF NumbersOK, NumbersDense
    <3> QED
      BY <3>1 DEF Created
  <2> QED
    BY <2>1, <2>2
<1>4. \E x \in Versions : \A w \in Versions : versions[w].number <= versions[x].number
  BY <1>1, <1>2, <1>3
<1>5. newest \in Versions /\ \A w \in Versions : versions[w].number <= versions[newest].number
  BY <1>4, Zenon
<1> HIDE DEF newest
<1>6. versions[newest].number = n
  BY <1>1, <1>2, <1>3, <1>5
<1>7. NextNumber = versions[newest].number + 1
  BY DEF NextNumber, newest
<1> QED
  BY <1>1, <1>6, <1>7

-----------------------------------------------------------------------------
(* Types.                                                                  *)

LEMMA CurrentProductionType == CurrentProduction \in VersionOrNone
<1>1. CASE Production = {}
  BY <1>1 DEF CurrentProduction, VersionOrNone
<1>2. CASE Production # {}
  <2>1. CurrentProduction \in Production
    BY <1>2, Zenon DEF CurrentProduction
  <2> QED
    BY <2>1 DEF Production, VersionOrNone
<1> QED
  BY <1>1, <1>2

LEMMA InitType == Init => TypeOK
<1> SUFFICES ASSUME Init PROVE TypeOK
  OBVIOUS
<1>1. Absent \in VersionRow
  BY DEF Absent, VersionRow, Lifecycle
<1>2. Idle \in Session
  BY DEF Idle, Session, VersionOrNone
<1>3. faults \in 0..MaxFaults
  BY ConstantsAssumption DEF Init
<1> QED
  BY <1>1, <1>2, <1>3 DEF Init, TypeOK

\* A step of a session that only changes what the session is doing.
LEMMA QuietType ==
    ASSUME TypeOK, NEW p \in Sessions, NEW s \in Session, Become(p, s),
           UNCHANGED <<versions, evaluations, events, faults>>
    PROVE  TypeOK'
BY DEF TypeOK, Become

LEMMA IdleType == Idle \in Session
BY DEF Idle, Session, VersionOrNone

LEMMA SessType == TypeOK => \A p \in Sessions : sess[p] \in Session
BY DEF TypeOK

\* Every action keeps the types.
LEMMA TypeStep ==
    ASSUME IInv, [Next]_vars
    PROVE  TypeOK'
<1> USE DEF VersionOrNone
<1>0. TypeOK /\ RowsOK /\ \A p \in Sessions : SessionOK(p)
  BY DEF IInv
<1>1. ASSUME NEW p \in Sessions, Request(p) PROVE TypeOK'
  <2>1. CASE BeginRollback(p)
    <3> DEFINE v == events[Latest(Restorable(CurrentProduction))].target
    <3>1. v \in Versions
      BY <1>0, <2>1, RestorableIs DEF BeginRollback, RowsOK, Created
    <3> HIDE DEF v
    <3>2. Begin(p, "demote", "rollback", v, CurrentProduction, 0)
      BY <2>1, Zenon DEF BeginRollback, v
    <3> DEFINE s == [pc |-> "demote", op |-> "rollback", version |-> v,
                     current |-> CurrentProduction, number |-> 0]
    <3>3. s \in Session
      BY <3>1, CurrentProductionType DEF Session
    <3>4. Become(p, s) /\ UNCHANGED <<versions, evaluations, events, faults>>
      BY <3>2 DEF Begin
    <3> HIDE DEF s
    <3> QED
      BY <1>0, <3>3, <3>4, QuietType
  <2>2. ASSUME NEW v \in Versions, BeginCreate(p, v) PROVE TypeOK'
    <3>1. NextNumber \in Nat
      BY <1>0, <2>2, NextNumberIs DEF BeginCreate, RowsOK
    <3> QED
      BY <1>0, <2>2, <3>1, QuietType DEF BeginCreate, Begin, Session
  <2>3. ASSUME NEW v \in Versions, BeginEdit(p, v) PROVE TypeOK'
    BY <1>0, <2>3, QuietType DEF BeginEdit, Begin, Session
  <2>4. ASSUME NEW v \in Versions, BeginDeprecate(p, v) PROVE TypeOK'
    BY <1>0, <2>4, QuietType DEF BeginDeprecate, Begin, Session
  <2>5. ASSUME NEW v \in Versions, BeginPromote(p, v) PROVE TypeOK'
    BY <1>0, <2>5, QuietType DEF BeginPromote, Begin, Session
  <2> QED
    BY <1>1, <2>1, <2>2, <2>3, <2>4, <2>5, Zenon DEF Request
<1>2. ASSUME NEW p \in Sessions, Proceed(p) PROVE TypeOK'
  <2>0. sess[p] \in Session /\ (sess[p].pc # "idle" => sess[p].version \in Versions)
    BY <1>0, SessType DEF SessionOK
  <2>1. CASE Insert(p)
    <3>1. [lifecycle |-> "DRAFT", number |-> sess[p].number, config |-> 0] \in VersionRow
      BY <2>0 DEF Session, VersionRow, Lifecycle
    <3> QED
      BY <1>0, <2>1, <3>1, IdleType DEF Insert, TypeOK, Become
  <2>2. CASE Edit(p)
    <3> DEFINE v == sess[p].version
               row == [versions[v] EXCEPT !.config = @ + 1]
    <3>1. v \in Versions /\ row \in VersionRow
      BY <1>0, <2>0, <2>2 DEF Edit, TypeOK, VersionRow
    <3>2. versions' = [versions EXCEPT ![v] = row]
      BY <2>2 DEF Edit
    <3> HIDE DEF row
    <3>3. versions' \in [Versions -> VersionRow]
      BY <1>0, <3>1, <3>2 DEF TypeOK
    <3> QED
      BY <1>0, <2>2, <3>3, IdleType DEF Edit, TypeOK, Become
  <2>3. CASE Mark(p)
    <3>1. [sess[p] EXCEPT !.pc = "event"] \in Session
      BY <2>0 DEF Session
    <3>2. sess' = [sess EXCEPT ![p] = [sess[p] EXCEPT !.pc = "event"]]
      BY <2>3 DEF Mark, Continue
    <3> QED
      BY <1>0, <2>3, <3>1, <3>2, QuietType DEF Mark, Become
  <2>4. CASE RecordDeprecation(p)
    <3>1. versions' \in [Versions -> VersionRow]
      BY <1>0, <2>0, <2>4 DEF RecordDeprecation, TypeOK, VersionRow, Lifecycle
    <3>2. [type |-> "DEPRECATE", source |-> sess[p].version, target |-> NoVersion] \in Event
      BY <2>0, <2>4 DEF RecordDeprecation, Event, EventType
    <3>3. events' \in Seq(Event)
      BY <1>0, <2>4, <3>2 DEF RecordDeprecation, TypeOK
    <3> QED
      BY <1>0, <2>4, <3>1, <3>3, IdleType DEF RecordDeprecation, TypeOK, Become
  <2>5. CASE CheckGate(p)
    <3> DEFINE s == [sess[p] EXCEPT !.current = CurrentProduction,
                         !.pc = IF CurrentProduction = NoVersion THEN "finish" ELSE "demote"]
    <3>1. s \in Session
      BY <2>0, CurrentProductionType DEF Session
    <3> QED
      BY <1>0, <2>5, <3>1, QuietType DEF CheckGate
  <2>6. CASE CheckGateRefused(p)
    BY <1>0, <2>6, IdleType, QuietType DEF CheckGateRefused, RollBack
  <2>7. CASE Demote(p)
    <3>1. [sess[p] EXCEPT !.pc = "finish"] \in Session
      BY <2>0 DEF Session
    <3>2. sess' = [sess EXCEPT ![p] = [sess[p] EXCEPT !.pc = "finish"]]
      BY <2>7 DEF Demote, Continue
    <3> QED
      BY <1>0, <2>7, <3>1, <3>2, QuietType DEF Demote, Become
  <2>8. CASE Finish(p)
    <3>1. \A v \in Versions : Deployed(p)[v] \in VersionRow
      BY <1>0 DEF Deployed, TypeOK, VersionRow, Lifecycle
    <3>2. versions' \in [Versions -> VersionRow]
      BY <2>8, <3>1 DEF Finish, Deployed
    <3>3. [type |-> IF sess[p].op = "promote" THEN "PROMOTE" ELSE "ROLLBACK",
           source |-> sess[p].current, target |-> sess[p].version] \in Event
      BY <2>0 DEF Event, EventType, Session
    <3>4. events' \in Seq(Event)
      BY <1>0, <2>8, <3>3 DEF Finish, Record, TypeOK
    <3> QED
      BY <1>0, <2>8, <3>2, <3>4, IdleType DEF Finish, TypeOK, Become
  <2> QED
    BY <1>2, <2>1, <2>2, <2>3, <2>4, <2>5, <2>6, <2>7, <2>8 DEF Proceed
<1>3. ASSUME NEW p \in Sessions, Abort(p) PROVE TypeOK'
  <2>1. faults' \in 0..MaxFaults
    BY <1>0, <1>3, ConstantsAssumption DEF Abort, TypeOK
  <2> QED
    BY <1>0, <1>3, <2>1, IdleType DEF Abort, RollBack, Become, TypeOK
<1>4. ASSUME NEW p \in Sessions, DeadlockVictim(p) PROVE TypeOK'
  BY <1>0, <1>4, IdleType, QuietType DEF DeadlockVictim, RollBack
<1>5. ASSUME NEW v \in Versions, StartEvaluation(v) PROVE TypeOK'
  <2>1. [version |-> v, config |-> versions[v].config, status |-> "RUNNING"] \in Evaluation
    BY <1>0 DEF Evaluation, EvaluationStatus, TypeOK, VersionRow
  <2>2. evaluations' \in Seq(Evaluation)
    BY <1>0, <1>5, <2>1 DEF StartEvaluation, TypeOK
  <2> QED
    BY <1>0, <1>5, <2>2 DEF StartEvaluation, TypeOK
<1>6. ASSUME NEW i \in DOMAIN evaluations, NEW outcome \in {"PASSED", "FAILED"},
             FinishEvaluation(i, outcome)
      PROVE  TypeOK'
  <2>0. evaluations[i] \in Evaluation
    BY <1>0 DEF TypeOK
  <2>1. [evaluations[i] EXCEPT !.status = outcome] \in Evaluation
    BY <2>0 DEF Evaluation, EvaluationStatus
  <2>2. evaluations' = [evaluations EXCEPT ![i] = [evaluations[i] EXCEPT !.status = outcome]]
    BY <1>6 DEF FinishEvaluation
  <2> DEFINE e == [evaluations[i] EXCEPT !.status = outcome]
  <2> HIDE DEF e
  <2>3. evaluations \in Seq(Evaluation) /\ e \in Evaluation
        /\ evaluations' = [evaluations EXCEPT ![i] = e]
    BY <1>0, <2>1, <2>2 DEF TypeOK, e
  <2>4. evaluations' \in Seq(Evaluation)
    BY <2>3
  <2> QED
    BY <1>0, <1>6, <2>4 DEF FinishEvaluation, TypeOK
<1>7. ASSUME NEW i \in DOMAIN evaluations, OverturnEvaluation(i) PROVE TypeOK'
  <2> DEFINE e == [evaluations[i] EXCEPT !.status = "OVERTURNED"]
  <2>0. evaluations[i] \in Evaluation
    BY <1>0 DEF TypeOK
  <2>1. e \in Evaluation
    BY <2>0 DEF Evaluation, EvaluationStatus
  <2>2. evaluations' = [evaluations EXCEPT ![i] = e]
    BY <1>7 DEF OverturnEvaluation
  <2> HIDE DEF e
  <2>3. evaluations' \in Seq(Evaluation)
    BY <1>0, <2>1, <2>2 DEF TypeOK
  <2>4. faults' \in 0..MaxFaults
    BY <1>0, <1>7, ConstantsAssumption DEF OverturnEvaluation, TypeOK
  <2> QED
    BY <1>0, <1>7, <2>3, <2>4 DEF OverturnEvaluation, TypeOK
<1>8. CASE UNCHANGED vars
  BY <1>0, <1>8 DEF vars, TypeOK
<1> QED
  BY <1>1, <1>2, <1>3, <1>4, <1>5, <1>6, <1>7, <1>8, Zenon DEF Next, Evaluate

-----------------------------------------------------------------------------
(* The committed rows.                                                     *)

\* Without a new event the rows keep their invariant as long as the version in
\* production stays and nothing is taken from what exists or has passed.
LEMMA RowsKept ==
    ASSUME RowsOK, NumbersOK', events' = events, Production' = Production,
           Created \subseteq Created', Passed \subseteq Passed'
    PROVE  RowsOK'
<1>1. Deployments' = Deployments /\ LastDeployments' = LastDeployments
  BY DEF Deployments, LastDeployments
<1>2. OneProduction' /\ ProductionPassedGate'
  BY DEF RowsOK, OneProduction, ProductionPassedGate
<1>3. EventsOK'
  BY DEF RowsOK, EventsOK
<1>4. LogOK'
  BY <1>1 DEF RowsOK, LogOK, DeprecatedBefore
<1>5. HistoryChains'
  BY <1>1 DEF RowsOK, HistoryChains, DeprecatedBefore
<1> QED
  BY <1>2, <1>3, <1>4, <1>5 DEF RowsOK

\* The lifecycles and the numbers decide what exists, what is in production and
\* how the versions are numbered.
LEMMA SameLifecycles ==
    ASSUME \A v \in Versions : /\ versions'[v].lifecycle = versions[v].lifecycle
                               /\ versions'[v].number = versions[v].number
    PROVE  Production' = Production /\ Created' = Created /\ (NumbersOK => NumbersOK')
<1>1. Production' = Production /\ Created' = Created
  BY DEF Production, Created
<1>2. {versions'[v].number : v \in Created} = {versions[v].number : v \in Created}
  BY DEF Created
<1> QED
  BY <1>1, <1>2 DEF NumbersOK, NumbersDense

\* insert: the new version gets the next number.
LEMMA InsertRows ==
    ASSUME TypeOK, RowsOK, NEW v \in Versions, versions[v].lifecycle = "ABSENT",
           versions' = [versions EXCEPT ![v] =
               [lifecycle |-> "DRAFT", number |-> Cardinality(Created) + 1, config |-> 0]],
           UNCHANGED <<evaluations, events>>
    PROVE  RowsOK' /\ Production' = Production /\ Created' = Created \cup {v}
<1> DEFINE n == Cardinality(Created)
<1>1. /\ versions'[v].lifecycle = "DRAFT" /\ versions'[v].number = n + 1
      /\ \A w \in Versions : w # v => versions'[w] = versions[w]
  BY DEF TypeOK
<1>2. Production' = Production /\ Created' = Created \cup {v} /\ v \notin Created
  BY <1>1 DEF Production, Created
<1>3. n \in Nat /\ Cardinality(Created \cup {v}) = n + 1
  <2>1. Created \subseteq Versions
    BY DEF Created
  <2>2. IsFiniteSet(Created)
    BY <2>1, FS_Subset, ConstantsAssumption
  <2> QED
    BY <1>2, <2>2, FS_CardinalityType, FS_AddElement
<1>4. NumbersOK'
  <2>1. {versions[w].number : w \in Created} = 1..n
    BY DEF RowsOK, NumbersOK, NumbersDense
  <2>2. {versions'[w].number : w \in Created \cup {v}} =
            {versions[w].number : w \in Created} \cup {n + 1}
    <3>1. \A w \in Created : versions'[w] = versions[w]
      BY <1>1, <1>2 DEF Created
    <3> QED
      BY <1>1, <3>1
  <2>3. (1..n) \cup {n + 1} = 1..(n + 1)
    BY <1>3
  <2>4. NumbersDense'
    BY <1>2, <1>3, <2>1, <2>2, <2>3 DEF NumbersDense
  <2>5. \A w \in Versions \ Created' : versions'[w].number = 0
    BY <1>1, <1>2 DEF RowsOK, NumbersOK
  <2> QED
    BY <2>4, <2>5 DEF NumbersOK
<1>5. Passed' = Passed
  BY DEF Passed
<1> QED
  BY <1>2, <1>4, <1>5, RowsKept

\* An event is appended: what that does to the history.
LEMMA AppendHistory ==
    ASSUME TypeOK, NEW e \in Event, events' = Append(events, e)
    PROVE  /\ e.type \notin Deploying => Deployments' = Deployments
           /\ e.type \in Deploying => Deployments' = Deployments \cup {Len(events) + 1}
           /\ \A i \in Deployments : i \in DOMAIN events /\ i < Len(events) + 1
           /\ \A v, j : DeprecatedBefore(v, j) =>
                \E k \in DOMAIN events' :
                    k < j /\ events'[k].type = "DEPRECATE" /\ events'[k].source = v
<1>1. /\ Len(events) \in Nat
      /\ DOMAIN events = 1..Len(events)
      /\ DOMAIN events' = DOMAIN events \cup {Len(events) + 1}
      /\ \A i \in DOMAIN events : events'[i] = events[i]
      /\ events'[Len(events) + 1] = e
  BY AppendEvent DEF TypeOK
<1>2. /\ e.type \notin Deploying => Deployments' = Deployments
      /\ e.type \in Deploying => Deployments' = Deployments \cup {Len(events) + 1}
  BY <1>1 DEF Deployments
<1>3. \A i \in Deployments : i \in DOMAIN events /\ i < Len(events) + 1
  BY <1>1 DEF Deployments
<1>4. \A v, j : DeprecatedBefore(v, j) =>
            \E k \in DOMAIN events' :
                k < j /\ events'[k].type = "DEPRECATE" /\ events'[k].source = v
  BY <1>1 DEF DeprecatedBefore
<1> QED
  BY <1>2, <1>3, <1>4

\* RecordDeprecation: the log names the deprecated version before the next
\* deployment does without it.
LEMMA DeprecationRows ==
    ASSUME TypeOK, RowsOK, NEW v \in Created,
           versions' = [versions EXCEPT ![v].lifecycle = "DEPRECATED"],
           events' = Append(events, [type |-> "DEPRECATE", source |-> v, target |-> NoVersion]),
           UNCHANGED evaluations
    PROVE  RowsOK' /\ Created' = Created
<1> DEFINE e == [type |-> "DEPRECATE", source |-> v, target |-> NoVersion]
           n == Len(events) + 1
           Before(t, j) == \E k \in DOMAIN events' :
               k < j /\ events'[k].type = "DEPRECATE" /\ events'[k].source = t
<1>0. v \in Versions /\ e \in Event /\ e.type = "DEPRECATE" /\ e.source = v /\ e.target = NoVersion
  BY DEF Created, Event, EventType, VersionOrNone
<1>1. /\ versions'[v].lifecycle = "DEPRECATED" /\ versions'[v].number = versions[v].number
      /\ \A w \in Versions : w # v => versions'[w] = versions[w]
  BY <1>0 DEF TypeOK, VersionRow
<1>2. Production' = Production \ {v} /\ Created' = Created
  BY <1>0, <1>1 DEF Production, Created
<1>3. Passed' = Passed
  BY DEF Passed
<1> HIDE DEF e
<1>4. events' = Append(events, e)
  BY DEF e
<1>5. /\ Len(events) \in Nat /\ n \in Nat /\ Len(events') = n
      /\ DOMAIN events = 1..Len(events)
      /\ DOMAIN events' = DOMAIN events \cup {n}
      /\ \A i \in DOMAIN events : events'[i] = events[i]
      /\ events'[n] = e
  BY <1>0, <1>4, AppendEvent DEF TypeOK
<1>6. Deployments' = Deployments /\ \A i \in Deployments : i \in DOMAIN events /\ i < n
  BY <1>0, <1>4, AppendHistory DEF Deploying
<1>7. LastDeployments' = LastDeployments /\ LastDeployments \subseteq Deployments
  BY <1>6 DEF LastDeployments
<1>8. \A i \in Deployments : events'[i] = events[i]
  BY <1>5, <1>6
<1>9. OneProduction' /\ ProductionPassedGate'
  BY <1>2, <1>3 DEF RowsOK, OneProduction, ProductionPassedGate
<1>10. EventsOK'
  BY <1>0, <1>2, <1>3, <1>5 DEF RowsOK, EventsOK, Deploying
<1>11. LogOK'
  <2>1. \A w \in Production' : \E i \in LastDeployments' : events'[i].target = w
    BY <1>2, <1>7, <1>8 DEF RowsOK, LogOK
  <2>2. ASSUME NEW i \in LastDeployments
        PROVE  \/ events'[i].target \in Production'
               \/ Before(events'[i].target, n + 1)
    <3>0. i \in Deployments /\ events'[i] = events[i]
      BY <1>7, <1>8
    <3>1. CASE events[i].target = v
      <4>1. n \in DOMAIN events' /\ n < n + 1 /\ events'[n].type = "DEPRECATE"
            /\ events'[n].source = v
        BY <1>0, <1>5
      <4> QED
        BY <3>0, <3>1, <4>1
    <3>2. CASE events[i].target # v
      <4>1. \/ events[i].target \in Production
            \/ DeprecatedBefore(events[i].target, n)
        BY DEF RowsOK, LogOK
      <4>2. CASE events[i].target \in Production
        BY <4>2, <3>0, <3>2, <1>2
      <4>3. CASE DeprecatedBefore(events[i].target, n)
        <5>1. PICK k \in DOMAIN events : k < n /\ events[k].type = "DEPRECATE"
                                         /\ events[k].source = events[i].target
          BY <4>3 DEF DeprecatedBefore
        <5>2. k \in DOMAIN events' /\ k < n + 1 /\ events'[k] = events[k]
          BY <5>1, <1>5
        <5> QED
          BY <3>0, <5>1, <5>2
      <4> QED
        BY <4>1, <4>2, <4>3
    <3> QED
      BY <3>1, <3>2
  <2>3. Len(events') + 1 = n + 1
    BY <1>5
  <2> QED
    BY <1>7, <2>1, <2>2, <2>3 DEF LogOK, DeprecatedBefore
<1>12. HistoryChains'
  BY <1>0, <1>4, <1>6, <1>8, AppendHistory DEF RowsOK, HistoryChains, DeprecatedBefore
<1>13. NumbersOK'
  <2>1. {versions'[w].number : w \in Created} = {versions[w].number : w \in Created}
    BY <1>1 DEF Created
  <2> QED
    BY <1>1, <1>2, <2>1 DEF RowsOK, NumbersOK, NumbersDense, Created
<1> QED
  BY <1>2, <1>9, <1>10, <1>11, <1>12, <1>13 DEF RowsOK

\* Finish: one version replaces another, and the log says so.
LEMMA DeploymentRows ==
    ASSUME TypeOK, RowsOK, NEW v \in Created \cap Passed, NEW c \in VersionOrNone, c # v,
           Production = {c} \ {NoVersion},
           versions' = [w \in Versions |->
               IF w = v THEN [versions[w] EXCEPT !.lifecycle = "PRODUCTION"]
               ELSE IF w = c THEN [versions[w] EXCEPT !.lifecycle = "APPROVED"]
               ELSE versions[w]],
           NEW e \in Event, e.type \in Deploying, e.source = c, e.target = v,
           events' = Append(events, e), UNCHANGED evaluations
    PROVE  RowsOK' /\ Created' = Created
<1> DEFINE n == Len(events) + 1
           Before(x, j) == \E k \in DOMAIN events' :
               k < j /\ events'[k].type = "DEPRECATE" /\ events'[k].source = x
<1>0. v \in Versions /\ (c \in Versions <=> c # NoVersion) /\ v # NoVersion
  BY ConstantsAssumption DEF Created, VersionOrNone
<1>1. \A w \in Versions :
        /\ versions'[w].number = versions[w].number
        /\ versions'[w].lifecycle = IF w = v THEN "PRODUCTION" ELSE
                                    IF w = c THEN "APPROVED" ELSE versions[w].lifecycle
  BY DEF TypeOK, VersionRow
<1>2. c \in Versions => c \in Created
  BY <1>0 DEF Production, Created
<1>3. Production' = {v} /\ Created' = Created
  BY <1>0, <1>1, <1>2 DEF Production, Created
<1>4. Passed' = Passed
  BY DEF Passed
<1>5. /\ Len(events) \in Nat /\ n \in Nat /\ Len(events') = n
      /\ DOMAIN events = 1..Len(events)
      /\ DOMAIN events' = DOMAIN events \cup {n}
      /\ \A i \in DOMAIN events : events'[i] = events[i]
      /\ events'[n] = e
  BY AppendEvent DEF TypeOK
<1>6. /\ Deployments' = Deployments \cup {n}
      /\ \A i \in Deployments : i \in DOMAIN events /\ i \in Nat /\ i < n
  BY <1>5, AppendHistory
<1>7. LastDeployments' = {n}
  BY <1>5, <1>6 DEF LastDeployments
<1>8. OneProduction' /\ ProductionPassedGate'
  BY <1>3, <1>4 DEF OneProduction, ProductionPassedGate
<1>9. EventsOK'
  BY <1>3, <1>4, <1>5 DEF RowsOK, EventsOK
<1>10. LogOK'
  BY <1>3, <1>5, <1>7 DEF LogOK
<1>11. HistoryChains'
  <2> SUFFICES ASSUME NEW i \in Deployments', NEW j \in Deployments', i < j,
                      \A k \in Deployments' : k <= i \/ j <= k
               PROVE  \/ events'[j].source = events'[i].target
                      \/ /\ events'[j].source = NoVersion
                         /\ Before(events'[i].target, j)
    BY DEF HistoryChains, DeprecatedBefore
  <2>0. i \in Deployments /\ events'[i] = events[i]
    BY <1>5, <1>6
  <2>1. CASE j \in Deployments
    <3>1. \/ events[j].source = events[i].target
          \/ events[j].source = NoVersion /\ DeprecatedBefore(events[i].target, j)
      BY <2>0, <2>1, <1>6 DEF RowsOK, HistoryChains
    <3>2. events'[j] = events[j]
      BY <2>1, <1>5, <1>6
    <3>3. DeprecatedBefore(events[i].target, j) => Before(events'[i].target, j)
      BY <2>0, <1>5 DEF DeprecatedBefore
    <3> QED
      BY <2>0, <3>1, <3>2, <3>3
  <2>2. CASE j = n
    <3>1. i \in LastDeployments
      BY <2>0, <2>2, <1>6 DEF LastDeployments
    <3>2. CASE events[i].target \in Production
      BY <3>2, <2>0, <2>2, <1>5
    <3>3. CASE events[i].target \notin Production
      <4>1. DeprecatedBefore(events[i].target, n)
        BY <3>1, <3>3 DEF RowsOK, LogOK
      <4>2. \A m \in LastDeployments : m = i
        BY <3>1, <1>6 DEF LastDeployments
      <4>3. Production = {}
        BY <3>3, <4>2 DEF RowsOK, LogOK
      <4>4. c = NoVersion
        BY <4>3
      <4>5. Before(events'[i].target, j)
        BY <4>1, <2>0, <2>2, <1>5 DEF DeprecatedBefore
      <4> QED
        BY <4>4, <4>5, <2>2, <1>5
    <3> QED
      BY <3>2, <3>3
  <2> QED
    BY <2>1, <2>2, <1>6
<1>12. NumbersOK'
  <2>1. {versions'[w].number : w \in Created} = {versions[w].number : w \in Created}
    BY <1>1 DEF Created
  <2> QED
    BY <1>1, <1>3, <2>1 DEF RowsOK, NumbersOK, NumbersDense, Created
<1> QED
  BY <1>3, <1>8, <1>9, <1>10, <1>11, <1>12 DEF RowsOK

-----------------------------------------------------------------------------
(* The sessions.                                                           *)

\* Beginning and ending requests keep one holder of the agent.
LEMMA HolderStep ==
    ASSUME OneHolder, NEW p \in Sessions,
           \A q \in Sessions : q # p => sess'[q] = sess[q],
           HoldsAgent(p)' => HoldsAgent(p) \/ AgentUnlocked
    PROVE  OneHolder'
<1>1. \A q \in Sessions : q # p => (HoldsAgent(q)' <=> HoldsAgent(q))
  BY DEF HoldsAgent
<1> QED
  BY <1>1 DEF OneHolder, AgentUnlocked

\* What the other sessions have read is still true: either they do not hold the
\* agent, and need little, or nothing they depend on has changed.
LEMMA OthersOK ==
    ASSUME NEW q \in Sessions, SessionOK(q), sess'[q] = sess[q],
           Created \subseteq Created', Passed \subseteq Passed',
           HoldsAgent(q) => /\ Created' = Created /\ Production' = Production
                            /\ \A v \in Versions : versions'[v].lifecycle = versions[v].lifecycle
    PROVE  SessionOK(q)'
<1>1. WriteOK(q) => WriteOK(q)'
  BY DEF WriteOK
<1>2. CASE HoldsAgent(q)
  <2>1. sess[q].pc # "idle" => sess[q].version \in Versions
    BY DEF SessionOK
  <2>2. sess[q].pc = "insert" /\ InsertOK(q) => InsertOK(q)'
    BY <1>2, <2>1 DEF InsertOK
  <2>3. sess[q].pc # "idle" /\ PromoteOK(q) => PromoteOK(q)'
    BY <1>2, <2>1 DEF PromoteOK
  <2>4. DeployOK(q) => DeployOK(q)'
    BY <1>2 DEF DeployOK
  <2> QED
    BY <1>1, <2>2, <2>3, <2>4 DEF SessionOK
<1>3. CASE ~HoldsAgent(q)
  <2>1. sess[q].pc \notin {"insert", "check", "demote", "finish"}
    BY <1>3 DEF SessionOK, InsertOK, PromoteOK, HoldsAgent
  <2> QED
    BY <1>1, <2>1 DEF SessionOK
<1> QED
  BY <1>2, <1>3

\* A step of one session.
LEMMA SessionStep ==
    ASSUME IInv, TypeOK', NEW p \in Sessions,
           \A q \in Sessions : q # p => sess'[q] = sess[q],
           RowsOK', SessionOK(p)', HoldsAgent(p)' => HoldsAgent(p) \/ AgentUnlocked,
           Created \subseteq Created', Passed \subseteq Passed',
           \A q \in Sessions : q # p /\ HoldsAgent(q) =>
                /\ Created' = Created /\ Production' = Production
                /\ \A v \in Versions : versions'[v].lifecycle = versions[v].lifecycle
    PROVE  IInv'
<1>1. OneHolder'
  BY HolderStep DEF IInv
<1>2. ASSUME NEW q \in Sessions PROVE SessionOK(q)'
  <2>1. SessionOK(q)
    BY DEF IInv
  <2> QED
    BY <2>1, OthersOK
<1> QED
  BY <1>1, <1>2 DEF IInv

\* A step of one session that commits nothing.
LEMMA QuietStep ==
    ASSUME IInv, TypeOK', NEW p \in Sessions, NEW s, Become(p, s),
           UNCHANGED <<versions, evaluations, events>>,
           SessionOK(p)', HoldsAgent(p)' => HoldsAgent(p) \/ AgentUnlocked
    PROVE  IInv'
<1>1. \A q \in Sessions : q # p => sess'[q] = sess[q]
  BY DEF IInv, TypeOK, Become
<1>2. Created' = Created /\ Production' = Production /\ Passed' = Passed /\ NumbersOK'
  BY DEF IInv, RowsOK, NumbersOK, NumbersDense, Created, Production, Passed
<1>3. RowsOK'
  BY <1>2, RowsKept DEF IInv
<1> QED
  BY <1>1, <1>2, <1>3, SessionStep

\* The end of a transaction.
LEMMA Ended ==
    ASSUME TypeOK, NEW p \in Sessions, Become(p, Idle)
    PROVE  /\ sess'[p] = Idle /\ SessionOK(p)' /\ ~HoldsAgent(p)'
           /\ \A q \in Sessions : q # p => sess'[q] = sess[q]
<1>1. sess'[p] = Idle /\ \A q \in Sessions : q # p => sess'[q] = sess[q]
  BY DEF TypeOK, Become
<1> QED
  BY <1>1 DEF SessionOK, HoldsAgent, Idle

LEMMA EndStep ==
    ASSUME IInv, TypeOK', NEW p \in Sessions, RollBack(p)
    PROVE  IInv'
BY Ended, QuietStep DEF IInv, RollBack

\* A session in the middle of a promotion, rollback or creation holds the agent.
LEMMA Holder ==
    ASSUME IInv, NEW p \in Sessions, sess[p].pc \in {"insert", "check", "demote", "finish"}
    PROVE  HoldsAgent(p) /\ \A q \in Sessions : HoldsAgent(q) => q = p
<1>1. SessionOK(p) /\ OneHolder
  BY DEF IInv
<1>2. HoldsAgent(p)
  BY <1>1 DEF SessionOK, InsertOK, PromoteOK, HoldsAgent
<1> QED
  BY <1>1, <1>2 DEF OneHolder

-----------------------------------------------------------------------------
(* The inductive step.                                                     *)

\* What Begin does to the session.
LEMMA Begun ==
    ASSUME TypeOK, NEW p \in Sessions, NEW l, NEW o, NEW v, NEW c, NEW n, Begin(p, l, o, v, c, n)
    PROVE  /\ sess[p].pc = "idle"
           /\ sess'[p].pc = l /\ sess'[p].op = o /\ sess'[p].version = v
           /\ sess'[p].current = c /\ sess'[p].number = n
           /\ UNCHANGED <<versions, evaluations, events>>
           /\ Created' = Created /\ Production' = Production /\ Passed' = Passed
BY DEF TypeOK, Begin, Become, Created, Production, Passed

LEMMA RequestStep ==
    ASSUME IInv, TypeOK', NEW p \in Sessions, Request(p)
    PROVE  IInv'
<1>0. TypeOK /\ RowsOK
  BY DEF IInv
<1>a. ASSUME NEW l, NEW o, NEW v, NEW c, NEW n, Begin(p, l, o, v, c, n), SessionOK(p)',
             AgentUnlocked \/ o \in {"edit", "deprecate"}
      PROVE  IInv'
  <2>1. HoldsAgent(p)' => AgentUnlocked
    BY <1>0, <1>a, Begun DEF HoldsAgent
  <2> DEFINE s == [pc |-> l, op |-> o, version |-> v, current |-> c, number |-> n]
  <2>2. Become(p, s) /\ UNCHANGED <<versions, evaluations, events>>
    BY <1>a DEF Begin
  <2> HIDE DEF s
  <2> QED
    BY <1>a, <2>1, <2>2, QuietStep
<1>1. CASE BeginRollback(p)
  <2> DEFINE c == CurrentProduction
             v == events[Latest(Restorable(c))].target
  <2>1. /\ Begin(p, "demote", "rollback", v, c, 0) /\ AgentUnlocked /\ c # NoVersion
        /\ Restorable(c) # {}
    BY <1>1, Zenon DEF BeginRollback
  <2>2. v \in Created /\ v \in Passed /\ v # c /\ versions[v].lifecycle # "DEPRECATED"
    BY <1>0, <2>1, RestorableIs DEF RowsOK
  <2>3. Production = {c} \ {NoVersion}
    BY <1>0, CurrentProductionIs DEF RowsOK
  <2> HIDE DEF v, c
  <2>4. SessionOK(p)'
    BY <1>0, <2>1, <2>2, <2>3, Begun DEF SessionOK, PromoteOK, DeployOK, Created
  <2> QED
    BY <1>a, <2>1, <2>4
<1>2. ASSUME NEW v \in Versions, BeginCreate(p, v) PROVE IInv'
  <2>1. NextNumber = Cardinality(Created) + 1
    BY <1>0, <1>2, NextNumberIs DEF BeginCreate, RowsOK
  <2> DEFINE n == NextNumber
  <2>2. Begin(p, "insert", "create", v, NoVersion, n) /\ AgentUnlocked
        /\ versions[v].lifecycle = "ABSENT"
    BY <1>2 DEF BeginCreate
  <2> HIDE DEF n
  <2>3. n = Cardinality(Created) + 1
    BY <2>1 DEF n
  <2>4. SessionOK(p)'
    BY <1>0, <2>2, <2>3, Begun DEF SessionOK, InsertOK
  <2> QED
    BY <1>a, <2>2, <2>4
<1>3. ASSUME NEW v \in Versions, BeginEdit(p, v) PROVE IInv'
  <2>1. Begin(p, "edit", "edit", v, NoVersion, 0) /\ v \in Created
    BY <1>3 DEF BeginEdit, Created
  <2>2. SessionOK(p)'
    BY <1>0, <2>1, Begun DEF SessionOK, WriteOK
  <2> QED
    BY <1>a, <2>1, <2>2
<1>4. ASSUME NEW v \in Versions, BeginDeprecate(p, v) PROVE IInv'
  <2>1. Begin(p, "mark", "deprecate", v, NoVersion, 0) /\ v \in Created
    BY <1>4 DEF BeginDeprecate, Created, Deprecatable
  <2>2. SessionOK(p)'
    BY <1>0, <2>1, Begun DEF SessionOK, WriteOK
  <2> QED
    BY <1>a, <2>1, <2>2
<1>5. ASSUME NEW v \in Versions, BeginPromote(p, v) PROVE IInv'
  <2>1. Begin(p, "check", "promote", v, NoVersion, 0) /\ AgentUnlocked
        /\ versions[v].lifecycle \notin {"ABSENT", "DEPRECATED"}
    BY <1>5 DEF BeginPromote
  <2>2. SessionOK(p)'
    BY <1>0, <2>1, Begun DEF SessionOK, PromoteOK
  <2> QED
    BY <1>a, <2>1, <2>2
<1> QED
  BY <1>1, <1>2, <1>3, <1>4, <1>5, Zenon DEF Request

LEMMA ProceedStep ==
    ASSUME IInv, TypeOK', NEW p \in Sessions, Proceed(p)
    PROVE  IInv'
<1>0. TypeOK /\ RowsOK /\ SessionOK(p) /\ sess[p] \in Session
  BY SessType DEF IInv
<1>1. CASE Insert(p)
  <2> DEFINE v == sess[p].version
  <2>1. v \in Versions /\ versions[v].lifecycle = "ABSENT" /\ sess[p].number = Cardinality(Created) + 1
    BY <1>0, <1>1 DEF Insert, SessionOK, InsertOK
  <2>2. RowsOK' /\ Production' = Production /\ Created' = Created \cup {v}
    BY <1>0, <1>1, <2>1, InsertRows DEF Insert
  <2>3. Passed' = Passed
    BY <1>1 DEF Insert, Passed
  <2>4. \A q \in Sessions : HoldsAgent(q) => q = p
    BY <1>1, Holder DEF Insert
  <2> QED
    BY <1>0, <1>1, <2>2, <2>3, <2>4, Ended, SessionStep DEF Insert
<1>2. CASE Edit(p)
  <2>1. sess[p].version \in Versions
    BY <1>0, <1>2 DEF Edit, SessionOK
  <2>2. \A v \in Versions : /\ versions'[v].lifecycle = versions[v].lifecycle
                            /\ versions'[v].number = versions[v].number
    BY <1>0, <1>2, <2>1 DEF Edit, TypeOK, VersionRow
  <2>3. Production' = Production /\ Created' = Created /\ NumbersOK'
    BY <1>0, <2>2, SameLifecycles DEF RowsOK
  <2>4. Passed' = Passed
    BY <1>2 DEF Edit, Passed
  <2>5. RowsOK'
    BY <1>0, <1>2, <2>3, <2>4, RowsKept DEF Edit
  <2> QED
    BY <1>0, <1>2, <2>2, <2>3, <2>4, <2>5, Ended, SessionStep DEF Edit
<1>3. CASE Mark(p)
  <2> DEFINE s == [sess[p] EXCEPT !.pc = "event"]
  <2>1. Become(p, s) /\ UNCHANGED <<versions, evaluations, events>>
    BY <1>3 DEF Mark, Continue, Become
  <2>2. /\ sess'[p].pc = "event" /\ sess'[p].op = sess[p].op /\ sess'[p].version = sess[p].version
    BY <1>0, <2>1 DEF Become, TypeOK, Session
  <2>3. SessionOK(p)' /\ ~HoldsAgent(p)'
    BY <1>0, <1>3, <2>1, <2>2 DEF SessionOK, WriteOK, HoldsAgent, Mark, Created
  <2> HIDE DEF s
  <2> QED
    BY <2>1, <2>3, QuietStep
<1>4. CASE RecordDeprecation(p)
  <2> DEFINE v == sess[p].version
  <2>1. v \in Created
    BY <1>0, <1>4 DEF RecordDeprecation, SessionOK, WriteOK
  <2>2. RowsOK' /\ Created' = Created
    BY <1>0, <1>4, <2>1, DeprecationRows DEF RecordDeprecation
  <2>3. Passed' = Passed
    BY <1>4 DEF RecordDeprecation, Passed
  <2>4. \A q \in Sessions : ~HoldsAgent(q)
    BY <1>4 DEF RecordDeprecation, AgentShareable
  <2> QED
    BY <1>0, <1>4, <2>2, <2>3, <2>4, Ended, SessionStep DEF RecordDeprecation
<1>5. CASE CheckGate(p)
  <2> DEFINE c == CurrentProduction
             s == [sess[p] EXCEPT !.current = c, !.pc = IF c = NoVersion THEN "finish" ELSE "demote"]
  <2>1. Become(p, s) /\ UNCHANGED <<versions, evaluations, events>>
    BY <1>5 DEF CheckGate
  <2>2. /\ sess'[p].pc = IF c = NoVersion THEN "finish" ELSE "demote"
        /\ sess'[p].op = sess[p].op /\ sess'[p].version = sess[p].version /\ sess'[p].current = c
    BY <1>0, <2>1 DEF Become, TypeOK, Session
  <2>3. Production = {c} \ {NoVersion}
    BY <1>0, CurrentProductionIs DEF RowsOK
  <2>4. sess[p].version \in Versions /\ PromoteOK(p) /\ HoldsAgent(p) /\ c # sess[p].version
    BY <1>0, <1>5, Holder DEF CheckGate, SessionOK
  <2>5. sess[p].version \in Passed
    BY <1>0, <1>5, <2>4, GateOpenPassed DEF CheckGate
  <2> HIDE DEF c, s
  <2>6. Production' = Production /\ Passed' = Passed
    BY <2>1 DEF Production, Passed
  <2>7. PromoteOK(p)' /\ DeployOK(p)'
    BY <2>1, <2>2, <2>3, <2>4, <2>5, <2>6 DEF PromoteOK, DeployOK
  <2>8. SessionOK(p)'
    BY <2>2, <2>4, <2>7 DEF SessionOK
  <2> QED
    BY <2>1, <2>4, <2>8, QuietStep
<1>6. CASE CheckGateRefused(p)
  BY <1>6, EndStep DEF CheckGateRefused
<1>7. CASE Demote(p)
  <2> DEFINE s == [sess[p] EXCEPT !.pc = "finish"]
  <2>1. Become(p, s) /\ UNCHANGED <<versions, evaluations, events>>
    BY <1>7 DEF Demote, Continue, Become
  <2>2. /\ sess'[p].pc = "finish" /\ sess'[p].op = sess[p].op
        /\ sess'[p].version = sess[p].version /\ sess'[p].current = sess[p].current
    BY <1>0, <2>1 DEF Become, TypeOK, Session
  <2>3. sess[p].version \in Versions /\ PromoteOK(p) /\ DeployOK(p) /\ HoldsAgent(p)
    BY <1>0, <1>7, Holder DEF Demote, SessionOK
  <2> HIDE DEF s
  <2>4. Production' = Production /\ Passed' = Passed
    BY <2>1 DEF Production, Passed
  <2>5. PromoteOK(p)' /\ DeployOK(p)'
    BY <2>1, <2>2, <2>3, <2>4 DEF PromoteOK, DeployOK
  <2>6. SessionOK(p)'
    BY <2>2, <2>3, <2>5 DEF SessionOK
  <2> QED
    BY <2>1, <2>3, <2>6, QuietStep
<1>8. CASE Finish(p)
  <2> DEFINE v == sess[p].version
             c == sess[p].current
             e == [type |-> IF sess[p].op = "promote" THEN "PROMOTE" ELSE "ROLLBACK",
                   source |-> c, target |-> v]
  <2>1. v \in Created \cap Passed /\ c \in VersionOrNone /\ c # v /\ Production = {c} \ {NoVersion}
    BY <1>0, <1>8 DEF Finish, SessionOK, PromoteOK, DeployOK, Created, Session
  <2>2. v \in Versions
    BY <2>1 DEF Created
  <2>3. e \in Event /\ e.type \in Deploying /\ e.source = c /\ e.target = v
    BY <2>1, <2>2 DEF Event, EventType, Deploying, VersionOrNone
  <2>4. events' = Append(events, e) /\ UNCHANGED evaluations
    BY <1>8 DEF Finish, Record
  <2>5. versions' = [w \in Versions |->
               IF w = v THEN [versions[w] EXCEPT !.lifecycle = "PRODUCTION"]
               ELSE IF w = c THEN [versions[w] EXCEPT !.lifecycle = "APPROVED"]
               ELSE versions[w]]
    BY <1>8 DEF Finish, Deployed
  <2> HIDE DEF e
  <2>6. RowsOK' /\ Created' = Created
    BY <1>0, <2>1, <2>3, <2>4, <2>5, DeploymentRows
  <2>7. Passed' = Passed
    BY <2>4 DEF Passed
  <2>8. \A q \in Sessions : HoldsAgent(q) => q = p
    BY <1>8, Holder DEF Finish
  <2> QED
    BY <1>0, <1>8, <2>6, <2>7, <2>8, Ended, SessionStep DEF Finish
<1> QED
  BY <1>1, <1>2, <1>3, <1>4, <1>5, <1>6, <1>7, <1>8 DEF Proceed

LEMMA EvaluateStep ==
    ASSUME IInv, TypeOK', Evaluate
    PROVE  IInv'
<1>0. TypeOK /\ RowsOK
  BY DEF IInv
<1>1. UNCHANGED <<versions, events, sess>>
  BY DEF Evaluate, StartEvaluation, FinishEvaluation, OverturnEvaluation
<1>2. Production' = Production /\ Created' = Created /\ NumbersOK'
  BY <1>0, <1>1, SameLifecycles DEF RowsOK
<1>3. Passed \subseteq Passed'
  <2>1. ASSUME NEW v \in Versions, StartEvaluation(v) PROVE Passed \subseteq Passed'
    <3> DEFINE e == [version |-> v, config |-> versions[v].config, status |-> "RUNNING"]
    <3>1. e \in Evaluation
      BY <1>0 DEF Evaluation, EvaluationStatus, TypeOK, VersionRow
    <3>2. evaluations' = Append(evaluations, e)
      BY <2>1 DEF StartEvaluation
    <3> HIDE DEF e
    <3>3. /\ DOMAIN evaluations \subseteq DOMAIN evaluations'
          /\ \A i \in DOMAIN evaluations : evaluations'[i] = evaluations[i]
      BY <1>0, <3>1, <3>2, AppendEvaluation DEF TypeOK
    <3> QED
      BY <3>3 DEF Passed
  <2>2. ASSUME NEW i \in DOMAIN evaluations, NEW outcome \in {"PASSED", "FAILED"},
               FinishEvaluation(i, outcome)
        PROVE  Passed \subseteq Passed'
    <3>1. evaluations[i].status = "RUNNING" /\ DOMAIN evaluations' = DOMAIN evaluations
      BY <1>0, <2>2 DEF FinishEvaluation, TypeOK
    <3>2. \A j \in DOMAIN evaluations : j # i => evaluations'[j] = evaluations[j]
      BY <2>2 DEF FinishEvaluation
    <3> QED
      BY <3>1, <3>2 DEF Passed
  <2>3. ASSUME NEW i \in DOMAIN evaluations, OverturnEvaluation(i)
        PROVE  Passed \subseteq Passed'
    <3> DEFINE e == [evaluations[i] EXCEPT !.status = "OVERTURNED"]
    <3>0. evaluations[i] \in Evaluation
      BY <1>0 DEF TypeOK
    <3>1. e.version = evaluations[i].version /\ e.status = "OVERTURNED"
      BY <3>0 DEF Evaluation
    <3>2. evaluations' = [evaluations EXCEPT ![i] = e]
      BY <2>3 DEF OverturnEvaluation
    <3> HIDE DEF e
    <3>3. DOMAIN evaluations' = DOMAIN evaluations
          /\ \A j \in DOMAIN evaluations : evaluations'[j] = IF j = i THEN e ELSE evaluations[j]
      BY <1>0, <3>2 DEF TypeOK
    <3> QED
      BY <2>3, <3>1, <3>3 DEF Passed, OverturnEvaluation
  <2> QED
    BY <2>1, <2>2, <2>3, Zenon DEF Evaluate
<1>4. RowsOK'
  BY <1>0, <1>1, <1>2, <1>3, RowsKept
<1>5. OneHolder'
  BY <1>1 DEF IInv, OneHolder, HoldsAgent
<1>6. ASSUME NEW q \in Sessions PROVE SessionOK(q)'
  BY <1>1, <1>2, <1>3, OthersOK DEF IInv
<1> QED
  BY <1>4, <1>5, <1>6 DEF IInv

LEMMA Inductive == IInv /\ [Next]_vars => IInv'
<1> SUFFICES ASSUME IInv, [Next]_vars PROVE IInv'
  OBVIOUS
<1>0. TypeOK'
  BY TypeStep
<1>1. ASSUME NEW p \in Sessions, Request(p) \/ Proceed(p) \/ Abort(p) \/ DeadlockVictim(p)
      PROVE  IInv'
  <2>1. CASE Request(p)
    BY <1>0, <2>1, RequestStep
  <2>2. CASE Proceed(p)
    BY <1>0, <2>2, ProceedStep
  <2>3. CASE Abort(p) \/ DeadlockVictim(p)
    BY <1>0, <2>3, EndStep DEF Abort, DeadlockVictim
  <2> QED
    BY <1>1, <2>1, <2>2, <2>3
<1>2. CASE Evaluate
  BY <1>0, <1>2, EvaluateStep
<1>3. CASE UNCHANGED vars
  <2>1. OneHolder' /\ UNCHANGED <<versions, evaluations, events, sess>>
    BY <1>3 DEF vars, IInv, OneHolder, HoldsAgent
  <2>2. Production' = Production /\ Created' = Created /\ Passed' = Passed /\ NumbersOK'
    BY <2>1, SameLifecycles DEF IInv, RowsOK, Passed
  <2>3. RowsOK'
    BY <2>1, <2>2, RowsKept DEF IInv
  <2>4. \A q \in Sessions : SessionOK(q)'
    BY <2>1, <2>2, OthersOK DEF IInv
  <2> QED
    BY <1>0, <2>1, <2>3, <2>4 DEF IInv
<1> QED
  BY <1>1, <1>2, <1>3, Zenon DEF Next

LEMMA InitInv == Init => IInv
<1> SUFFICES ASSUME Init PROVE IInv
  OBVIOUS
<1>1. Created = {} /\ Production = {} /\ Deployments = {} /\ DOMAIN events = {}
  BY DEF Init, Absent, Created, Production, Deployments
<1>2. Cardinality({}) = 0
  BY FS_EmptySet
<1>3. NumbersOK
  BY <1>1, <1>2 DEF NumbersOK, NumbersDense, Init, Absent
<1>4. RowsOK
  BY <1>1, <1>3 DEF RowsOK, OneProduction, ProductionPassedGate, EventsOK, LogOK,
     LastDeployments, HistoryChains
<1>5. OneHolder /\ \A p \in Sessions : SessionOK(p)
  BY DEF Init, Idle, OneHolder, HoldsAgent, SessionOK
<1> QED
  BY <1>4, <1>5, InitType DEF IInv

-----------------------------------------------------------------------------
(* The theorems.                                                           *)

\* The inductive invariant: one session holds the agent, and what promotion,
\* rollback and creation have read is still true when they write.
THEOREM InvariantHolds == Spec => []IInv
BY InitInv, Inductive, PTL DEF Spec

\* The rows, the sessions and the counters keep their types.
THEOREM TypeCorrect == Spec => []TypeOK
<1>1. IInv => TypeOK
  BY DEF IInv
<1> QED
  BY <1>1, InvariantHolds, PTL

\* promote_version and rollback never leave an agent with two production versions.
THEOREM OneProductionAlways == Spec => []OneProduction
<1>1. IInv => OneProduction
  BY DEF IInv, RowsOK
<1> QED
  BY <1>1, InvariantHolds, PTL

\* The last PROMOTE or ROLLBACK event names the version in production.
THEOREM LogAlwaysNamesProduction == Spec => []LogNamesProduction
<1>1. IInv => LogNamesProduction
  <2> SUFFICES ASSUME IInv, NEW v \in Production
               PROVE  Deployments # {} /\ events[Latest(Deployments)].target = v
    BY DEF LogNamesProduction
  <2>1. PICK i \in LastDeployments : events[i].target = v
    BY DEF IInv, RowsOK, LogOK
  <2>2. Deployments \in SUBSET (1..Len(events)) /\ Len(events) \in Nat
    BY DEF IInv, TypeOK, Deployments
  <2>3. i \in Deployments /\ \A j \in Deployments : j <= i
    BY <2>1 DEF LastDeployments
  <2>4. Latest(Deployments) \in Deployments /\ i <= Latest(Deployments)
    BY <2>2, <2>3, LatestIn
  <2> DEFINE m == Latest(Deployments)
  <2> HIDE DEF m
  <2>5. m \in Nat /\ i \in Nat /\ m <= i /\ i <= m
    <3>1. \A j \in Deployments : j \in Nat
      BY <2>2
    <3>2. m \in Deployments /\ i <= m
      BY <2>4, Zenon DEF m
    <3>3. m <= i
      BY <2>3, <3>2
    <3> QED
      BY <2>3, <3>1, <3>2, <3>3
  <2>6. m = i
    BY <2>5
  <2> QED
    BY <2>1, <2>3, <2>6 DEF m
<1> QED
  BY <1>1, InvariantHolds, PTL

\* No version is in production, by promotion or by rollback, that has not passed
\* an evaluation.
THEOREM GateAlwaysPassed == Spec => []ProductionPassedGate
<1>1. IInv => ProductionPassedGate
  BY DEF IInv, RowsOK
<1> QED
  BY <1>1, InvariantHolds, PTL

\* The deployment events of an agent form one chain.
THEOREM HistoryAlwaysChains == Spec => []HistoryChains
<1>1. IInv => HistoryChains
  BY DEF IInv, RowsOK
<1> QED
  BY <1>1, InvariantHolds, PTL

\* The version numbers of an agent are 1, 2, 3, ... without a gap.
THEOREM NumbersAlwaysDense == Spec => []NumbersDense
<1>1. IInv => NumbersDense
  BY DEF IInv, RowsOK, NumbersOK
<1> QED
  BY <1>1, InvariantHolds, PTL

-----------------------------------------------------------------------------
(* What a step may never do.                                               *)

\* Who changes a lifecycle: the session that inserts, records a deprecation or
\* finishes a deployment, and only as its transaction allows.
LEMMA LifecycleStep ==
    ASSUME IInv, [Next]_vars, NEW v \in Versions, versions'[v].lifecycle # versions[v].lifecycle
    PROVE  \E p \in Sessions :
              /\ \A q \in Sessions : q # p => sess'[q] = sess[q] /\ ~HoldsAgent(q)
              /\ \/ Insert(p) /\ v = sess[p].version
                 \/ RecordDeprecation(p) /\ v = sess[p].version
                 \/ Finish(p) /\ v \in {sess[p].version, sess[p].current}
<1>0. TypeOK
  BY DEF IInv
<1>1. versions' # versions
  OBVIOUS
<1>2. PICK p \in Sessions : Insert(p) \/ Edit(p) \/ RecordDeprecation(p) \/ Finish(p)
  <2>1. ASSUME NEW p \in Sessions, Request(p) PROVE FALSE
    BY <1>1, <2>1 DEF Request, BeginRollback, BeginCreate, BeginEdit, BeginDeprecate,
       BeginPromote, Begin
  <2>2. ASSUME NEW p \in Sessions, Abort(p) \/ DeadlockVictim(p) PROVE FALSE
    BY <1>1, <2>2 DEF Abort, DeadlockVictim, RollBack
  <2>3. ASSUME NEW p \in Sessions, Mark(p) \/ CheckGate(p) \/ CheckGateRefused(p) \/ Demote(p)
        PROVE  FALSE
    BY <1>1, <2>3 DEF Mark, CheckGate, CheckGateRefused, Demote, RollBack
  <2>4. ASSUME Evaluate PROVE FALSE
    BY <1>1, <2>4 DEF Evaluate, StartEvaluation, FinishEvaluation, OverturnEvaluation
  <2>5. \E p \in Sessions : Proceed(p)
    BY <1>1, <2>1, <2>2, <2>4, Zenon DEF Next, vars
  <2> QED
    BY <2>3, <2>5, Zenon DEF Proceed
<1>3. \A q \in Sessions : q # p => sess'[q] = sess[q]
  BY <1>0, <1>2 DEF Insert, Edit, RecordDeprecation, Finish, Become, TypeOK
<1>4. ~Edit(p)
  <2> SUFFICES ASSUME Edit(p) PROVE FALSE
    OBVIOUS
  <2> DEFINE row == versions[v]
  <2>1. row \in VersionRow
    BY <1>0 DEF TypeOK
  <2>2. versions'[v] = row \/ versions'[v] = [row EXCEPT !.config = @ + 1]
    BY <1>0 DEF Edit, TypeOK
  <2> HIDE DEF row
  <2>3. versions'[v].lifecycle = row.lifecycle
    BY <2>1, <2>2 DEF VersionRow
  <2> QED
    BY <2>3 DEF row
<1>5. CASE Insert(p)
  <2>1. v = sess[p].version
    BY <1>0, <1>5 DEF Insert, TypeOK
  <2> QED
    BY <1>3, <1>5, <2>1, Holder DEF Insert
<1>6. CASE RecordDeprecation(p)
  <2>1. v = sess[p].version
    BY <1>0, <1>6 DEF RecordDeprecation, TypeOK
  <2> QED
    BY <1>3, <1>6, <2>1 DEF RecordDeprecation, AgentShareable
<1>7. CASE Finish(p)
  <2>1. v \in {sess[p].version, sess[p].current}
    BY <1>7 DEF Finish, Deployed
  <2> QED
    BY <1>3, <1>7, <2>1, Holder DEF Finish
<1> QED
  BY <1>2, <1>4, <1>5, <1>6, <1>7

\* A deprecated version stays deprecated: the lock of the event's foreign key
\* keeps a deprecation out of a promotion that has read the version.
THEOREM DeprecatedStays == Spec => DeprecatedIsFinal
<1> DEFINE Kept == \A v \in Versions :
               versions[v].lifecycle = "DEPRECATED" => versions'[v].lifecycle = "DEPRECATED"
<1>1. IInv /\ [Next]_vars => Kept
  <2> SUFFICES ASSUME IInv, [Next]_vars, NEW v \in Versions,
                      versions[v].lifecycle = "DEPRECATED",
                      versions'[v].lifecycle # "DEPRECATED"
               PROVE  FALSE
    OBVIOUS
  <2>0. TypeOK /\ \A p \in Sessions : SessionOK(p)
    BY DEF IInv
  <2>1. PICK p \in Sessions :
            \/ Insert(p) /\ v = sess[p].version
            \/ RecordDeprecation(p) /\ v = sess[p].version
            \/ Finish(p) /\ v \in {sess[p].version, sess[p].current}
    BY LifecycleStep
  <2>2. CASE Insert(p) /\ v = sess[p].version
    BY <2>0, <2>2 DEF Insert, SessionOK, InsertOK
  <2>3. CASE RecordDeprecation(p) /\ v = sess[p].version
    BY <2>0, <2>3 DEF RecordDeprecation, TypeOK, VersionRow
  <2>4. CASE Finish(p) /\ v \in {sess[p].version, sess[p].current}
    <3>1. versions[sess[p].version].lifecycle # "DEPRECATED"
      BY <2>0, <2>4 DEF Finish, SessionOK, PromoteOK
    <3>2. v = sess[p].current /\ v # NoVersion
      BY <2>4, <3>1, ConstantsAssumption
    <3>3. v \in Production
      BY <2>0, <2>4, <3>2 DEF Finish, SessionOK, DeployOK
    <3> QED
      BY <3>3 DEF Production
  <2> QED
    BY <2>1, <2>2, <2>3, <2>4
<1> QED
  BY <1>1, InvariantHolds, PTL DEF Spec, DeprecatedIsFinal

\* While a session holds the agent no other one commits a lifecycle.
THEOREM AgentLockAlwaysFreezes == Spec => AgentLockFreezes
<1> DEFINE Frozen == \A p, q \in Sessions :
               (p # q /\ HoldsAgent(p) /\ sess'[q] # sess[q]) =>
                   \A v \in Versions : versions'[v].lifecycle = versions[v].lifecycle
<1>1. IInv /\ [Next]_vars => Frozen
  <2> SUFFICES ASSUME IInv, [Next]_vars, NEW p \in Sessions, NEW q \in Sessions, p # q,
                      HoldsAgent(p), sess'[q] # sess[q], NEW v \in Versions,
                      versions'[v].lifecycle # versions[v].lifecycle
               PROVE  FALSE
    OBVIOUS
  <2>1. PICK w \in Sessions : \A x \in Sessions : x # w => sess'[x] = sess[x] /\ ~HoldsAgent(x)
    BY LifecycleStep
  <2> QED
    BY <2>1
<1> QED
  BY <1>1, InvariantHolds, PTL DEF Spec, AgentLockFreezes
-----------------------------------------------------------------------------
(* Nobody hangs: the part of SessionsFinish that is a safety property.     *)

\* p needs a lock that q holds; an edit and a deprecation that has not updated its
\* row yet can wait too, but nobody waits for them.
WaitsBehind(p, q) ==
    \/ WaitsFor(p, q)
    \/ sess[p].pc \in {"edit", "mark"} /\ sess[p].version \in Updated(q)

\* The guard of one of the actions of Proceed(p), or of DeadlockVictim(p), holds.
Ready(p) ==
    \/ sess[p].pc \in {"insert", "check"}
    \/ sess[p].pc \in {"edit", "mark", "finish"} /\ RowFree(sess[p].version)
    \/ sess[p].pc = "demote" /\ RowFree(sess[p].current)
    \/ sess[p].pc = "event" /\ AgentShareable
Victim(p) == \E q \in Sessions : WaitsFor(p, q) /\ WaitsFor(q, p)
Moves(p) == Ready(p) \/ Victim(p)

\* No action of a session is enabled but where Ready says so.
LEMMA ProceedNeedsReady ==
    ASSUME NEW p \in Sessions, Proceed(p)
    PROVE  Ready(p)
BY DEF Ready, Proceed, Insert, Edit, Mark, RecordDeprecation, CheckGate, CheckGateRefused,
   Demote, Finish

\* What a session that holds the agent is doing, and one that has updated a row.
LEMMA HolderAt ==
    ASSUME IInv, NEW h \in Sessions, HoldsAgent(h)
    PROVE  sess[h].pc \in {"insert", "check", "demote", "finish"}
<1>1. SessionOK(h) /\ sess[h] \in Session
  BY SessType DEF IInv
<1> QED
  BY <1>1 DEF HoldsAgent, SessionOK, WriteOK, Session

LEMMA UpdaterAt ==
    ASSUME IInv, NEW x \in Sessions, NEW v \in Updated(x)
    PROVE  \/ sess[x].pc = "event" /\ v = sess[x].version
           \/ /\ sess[x].pc = "finish" /\ HoldsAgent(x)
              /\ v = sess[x].current /\ v # sess[x].version
<1>1. sess[x].pc \in {"finish", "event"}
  BY DEF Updated
<1>2. CASE sess[x].pc = "event"
  BY <1>2 DEF Updated
<1>3. CASE sess[x].pc = "finish"
  <2>1. PromoteOK(x) /\ DeployOK(x)
    BY <1>3 DEF IInv, SessionOK
  <2>2. v = sess[x].current
    BY <1>3 DEF Updated
  <2> QED
    BY <1>3, <2>1, <2>2 DEF PromoteOK, DeployOK, HoldsAgent
<1> QED
  BY <1>1, <1>2, <1>3

\* A row that the holder of the agent waits for has been updated by a deprecation
\* that waits for the agent.
LEMMA HolderBehind ==
    ASSUME IInv, NEW h \in Sessions, HoldsAgent(h), NEW x \in Sessions, WaitsFor(h, x)
    PROVE  sess[x].pc = "event" /\ WaitsFor(x, h)
<1>1. sess[h].pc # "event"
  BY HolderAt
<1>2. CASE sess[h].pc = "demote" /\ sess[h].current \in Updated(x)
  <2>1. x # h
    BY <1>2 DEF Updated
  <2>2. ~HoldsAgent(x)
    BY <2>1 DEF IInv, OneHolder
  <2> QED
    BY <1>2, <2>2, UpdaterAt DEF WaitsFor
<1>3. CASE sess[h].pc = "finish" /\ sess[h].version \in Updated(x)
  <2>1. x # h
    BY <1>3, UpdaterAt
  <2>2. ~HoldsAgent(x)
    BY <2>1 DEF IInv, OneHolder
  <2> QED
    BY <1>3, <2>2, UpdaterAt DEF WaitsFor
<1> QED
  BY <1>1, <1>2, <1>3 DEF WaitsFor

\* The holder of the agent can go on, or PostgreSQL can end its transaction.
LEMMA HolderMoves ==
    ASSUME IInv, NEW h \in Sessions, HoldsAgent(h)
    PROVE  Moves(h)
<1>1. sess[h].pc \in {"insert", "check", "demote", "finish"}
  BY HolderAt
<1>2. CASE sess[h].pc = "demote" /\ ~RowFree(sess[h].current)
  <2>1. PICK x \in Sessions : sess[h].current \in Updated(x)
    BY <1>2 DEF RowFree
  <2> QED
    BY <1>2, <2>1, HolderBehind DEF WaitsFor, Moves, Victim
<1>3. CASE sess[h].pc = "finish" /\ ~RowFree(sess[h].version)
  <2>1. PICK x \in Sessions : sess[h].version \in Updated(x)
    BY <1>3 DEF RowFree
  <2> QED
    BY <1>3, <2>1, HolderBehind DEF WaitsFor, Moves, Victim
<1> QED
  BY <1>1, <1>2, <1>3 DEF Moves, Ready

\* A deprecation that has updated its row goes on, or waits for who holds the agent.
LEMMA DeprecationMoves ==
    ASSUME IInv, NEW p \in Sessions, sess[p].pc = "event"
    PROVE  Ready(p) \/ \E h \in Sessions : WaitsFor(p, h) /\ Moves(h)
<1>1. CASE AgentShareable
  BY <1>1 DEF Ready
<1>2. CASE ~AgentShareable
  <2>1. PICK h \in Sessions : HoldsAgent(h)
    BY <1>2 DEF AgentShareable
  <2> QED
    BY <2>1, HolderMoves DEF WaitsFor
<1> QED
  BY <1>1, <1>2

\* No request hangs: each can go on or be chosen as a deadlock victim, or waits
\* for one that can, directly or through one more (agent_registry.py:149-175,
\* deployments.py:60-172).
NobodyHangs ==
    \A p \in Sessions : sess[p].pc # "idle" =>
        \E q, h \in Sessions :
            /\ p = q \/ WaitsBehind(p, q)
            /\ q = h \/ WaitsBehind(q, h)
            /\ Moves(h)

\* NobodyHangs, for any number of versions and requests.
THEOREM NobodyEverHangs == Spec => []NobodyHangs
<1>1. IInv => NobodyHangs
  <2> SUFFICES ASSUME IInv, NEW p \in Sessions, sess[p].pc # "idle"
               PROVE  \E q, h \in Sessions : /\ p = q \/ WaitsBehind(p, q)
                                             /\ q = h \/ WaitsBehind(q, h)
                                             /\ Moves(h)
    BY DEF NobodyHangs
  <2>1. sess[p].pc \in {"insert", "check", "demote", "finish", "edit", "mark", "event"}
    BY SessType DEF IInv, Session
  <2>2. CASE Moves(p)
    BY <2>2
  <2>3. CASE sess[p].pc \in {"demote", "finish"}
    <3>1. HoldsAgent(p)
      BY <2>3 DEF IInv, SessionOK, PromoteOK, HoldsAgent
    <3> QED
      BY <3>1, HolderMoves
  <2>4. CASE sess[p].pc = "event"
    BY <2>4, DeprecationMoves DEF Moves, WaitsBehind
  <2>5. CASE sess[p].pc \in {"edit", "mark"} /\ ~RowFree(sess[p].version)
    <3>1. PICK x \in Sessions : sess[p].version \in Updated(x)
      BY <2>5 DEF RowFree
    <3>2. WaitsBehind(p, x)
      BY <2>5, <3>1 DEF WaitsBehind
    <3>3. CASE HoldsAgent(x)
      BY <3>2, <3>3, HolderMoves
    <3>4. CASE sess[x].pc = "event"
      BY <3>2, <3>4, DeprecationMoves DEF Moves, WaitsBehind
    <3> QED
      BY <3>1, <3>3, <3>4, UpdaterAt
  <2> QED
    BY <2>1, <2>2, <2>3, <2>4, <2>5 DEF Moves, Ready
<1> QED
  BY <1>1, InvariantHolds, PTL

\* Requests that wait for each other in a ring are always a deprecation and a
\* promotion or rollback that wait for each other: it is enough that
\* DeadlockVictim looks at pairs.
RingsArePairs ==
    \A S \in SUBSET Sessions :
        S # {} /\ (\A p \in S : \E q \in S : WaitsFor(p, q)) =>
            \E p, q \in S : WaitsFor(p, q) /\ WaitsFor(q, p)

\* RingsArePairs, for any number of requests.
THEOREM RingsAlwaysPairs == Spec => []RingsArePairs
<1>1. IInv => RingsArePairs
  <2> SUFFICES ASSUME IInv, NEW S \in SUBSET Sessions, S # {},
                      \A p \in S : \E q \in S : WaitsFor(p, q)
               PROVE  \E p, q \in S : WaitsFor(p, q) /\ WaitsFor(q, p)
    BY DEF RingsArePairs
  <2>1. PICK h \in S : HoldsAgent(h)
    <3>1. PICK p \in S, q \in S : WaitsFor(p, q)
      OBVIOUS
    <3>2. CASE sess[p].pc = "event"
      BY <3>1, <3>2 DEF WaitsFor
    <3>3. CASE sess[p].pc \in {"demote", "finish"}
      BY <3>3 DEF IInv, SessionOK, PromoteOK, HoldsAgent
    <3> QED
      BY <3>1, <3>2, <3>3 DEF WaitsFor
  <2>2. PICK x \in S : WaitsFor(h, x)
    OBVIOUS
  <2> QED
    BY <2>1, <2>2, HolderBehind
<1> QED
  BY <1>1, InvariantHolds, PTL
=============================================================================
