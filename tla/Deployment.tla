----------------------------- MODULE Deployment -----------------------------
(***************************************************************************)
(* The versions of one agent and what is deployed: AgentRegistryService,   *)
(* DeploymentService and the evaluations their gate reads.                 *)
(*                                                                         *)
(* Every variable but `sess' and `faults' is the COMMITTED state.  An API  *)
(* request is a session, at most one transaction long.  Promotion,         *)
(* rollback and creation lock the agent row FOR UPDATE first; editing and  *)
(* deprecation read the version without a lock.  What orders them then is  *)
(* PostgreSQL: an uncommitted UPDATE keeps other UPDATEs of that row       *)
(* waiting, and inserting a deployment event checks its foreign key with   *)
(* a KEY SHARE lock on the agent, which waits for FOR UPDATE.              *)
(*                                                                         *)
(* A refused request changes nothing; only a refusal that comes after a    *)
(* lock was held for a while is an action.                                 *)
(***************************************************************************)
EXTENDS Naturals, Sequences, FiniteSets

CONSTANTS
    Versions,       \* ids of the agent_versions rows that may be created
    Sessions,       \* concurrent API requests
    NoVersion,      \* the null of a foreign key to a version
    MaxEvaluations, \* bound: evaluations started
    MaxEvents,      \* bound: no deployment request starts with this many events
    MaxEdits,       \* bound: no edit starts on a version edited this often
    MaxFaults       \* bound: faults in a behaviour

ASSUME ConstantsAssumption ==
    /\ IsFiniteSet(Versions)
    /\ NoVersion \notin Versions
    /\ {MaxEvaluations, MaxEvents, MaxEdits, MaxFaults} \subseteq Nat

VARIABLES
    versions,    \* the agent_versions row of each id
    evaluations, \* evaluations rows in the order of created_at
    events,      \* deployment_events rows in the order of their commits
    sess,        \* what each session is doing
    faults       \* faults so far

vars == <<versions, evaluations, events, sess, faults>>

Lifecycle == {"ABSENT", "DRAFT", "EVALUATED", "APPROVED", "PRODUCTION", "DEPRECATED"}
Deprecatable == {"DRAFT", "EVALUATED", "APPROVED"}

\* config counts the edits: equal numbers mean equal prompt, model and configs.
VersionRow == [lifecycle : Lifecycle, number : Nat, config : Nat]
Absent == [lifecycle |-> "ABSENT", number |-> 0, config |-> 0]

\* PENDING and RUNNING are one status: neither is completed.  OVERTURNED is a
\* FAILED row that has been PASSED.
EvaluationStatus == {"RUNNING", "PASSED", "FAILED", "OVERTURNED"}
Evaluation == [version : Versions, config : Nat, status : EvaluationStatus]

EventType == {"PROMOTE", "ROLLBACK", "DEPRECATE"}
VersionOrNone == Versions \cup {NoVersion}
Event == [type : EventType, source : VersionOrNone, target : VersionOrNone]

\* current is the production version a promotion or rollback has read.
Session ==
    [pc : {"idle", "check", "demote", "finish", "mark", "event", "edit", "insert"},
     op : {"none", "promote", "rollback", "deprecate", "edit", "create"},
     version : VersionOrNone, current : VersionOrNone, number : Nat]
Idle == [pc |-> "idle", op |-> "none", version |-> NoVersion, current |-> NoVersion, number |-> 0]

TypeOK ==
    /\ versions \in [Versions -> VersionRow]
    /\ evaluations \in Seq(Evaluation)
    /\ events \in Seq(Event)
    /\ sess \in [Sessions -> Session]
    /\ faults \in 0..MaxFaults

Init ==
    /\ versions = [v \in Versions |-> Absent]
    /\ evaluations = <<>>
    /\ events = <<>>
    /\ sess = [p \in Sessions |-> Idle]
    /\ faults = 0

-----------------------------------------------------------------------------
(* Locks.                                                                  *)

HoldsAgent(p) == sess[p].op \in {"promote", "rollback", "create"}
\* Mutant: promotion, rollback and creation read the agent without FOR UPDATE.
AgentUnlocked_PlainRead == TRUE

AgentUnlocked == \A p \in Sessions : ~HoldsAgent(p)

\* Mutant: the event row is inserted without its foreign key to the agent.
AgentShareable_NoForeignKey == TRUE

AgentShareable == \A p \in Sessions : ~HoldsAgent(p)

\* Version rows p has updated and not committed.
Updated(p) ==
    CASE sess[p].pc = "finish" -> {sess[p].current} \ {NoVersion}
      [] sess[p].pc = "event" -> {sess[p].version}
      [] OTHER -> {}
RowFree(v) == \A p \in Sessions : v \notin Updated(p)

\* p needs a lock that q holds until its transaction ends.
WaitsFor(p, q) ==
    \/ sess[p].pc = "event" /\ HoldsAgent(q)
    \/ sess[p].pc = "demote" /\ sess[p].current \in Updated(q)
    \/ sess[p].pc = "finish" /\ sess[p].version \in Updated(q)

-----------------------------------------------------------------------------
(* What the queries return.                                                *)

Latest(I) == CHOOSE i \in I : \A j \in I : j <= i

Production == {v \in Versions : versions[v].lifecycle = "PRODUCTION"}
CurrentProduction ==
    IF Production = {} THEN NoVersion ELSE CHOOSE v \in Production : TRUE

Completed(v) ==
    {i \in DOMAIN evaluations :
        evaluations[i].version = v /\ evaluations[i].status # "RUNNING"}

\* Mutant: any completed evaluation opens the gate, passed or not.
GateOpen_Completed(v) == Completed(v) # {}

\* An evaluation that passed has no failed case: its success rate is 1, above
\* any threshold that lets a version through at all.
GateOpen(v) ==
    /\ Completed(v) # {}
    /\ evaluations[Latest(Completed(v))].status = "PASSED"

Restorable(current) ==
    {i \in DOMAIN events :
        /\ events[i].type = "PROMOTE"
        /\ events[i].target # current
        /\ versions[events[i].target].lifecycle # "DEPRECATED"}

\* One more than the largest version number, 1 for the first version.
NextNumber ==
    LET newest == CHOOSE v \in Versions : \A w \in Versions : versions[w].number <= versions[v].number
    IN versions[newest].number + 1

-----------------------------------------------------------------------------
(* Sessions.                                                               *)

Become(p, s) == sess' = [sess EXCEPT ![p] = s]
Continue(p, l) == sess' = [sess EXCEPT ![p].pc = l]

Begin(p, l, o, v, current, number) ==
    /\ sess[p].pc = "idle"
    /\ Become(p, [pc |-> l, op |-> o, version |-> v, current |-> current, number |-> number])
    /\ UNCHANGED <<versions, evaluations, events, faults>>

\* The transaction ends without a commit.
RollBack(p) ==
    /\ Become(p, Idle)
    /\ UNCHANGED <<versions, evaluations, events>>

(* create_version *)

BeginCreate(p, v) ==
    /\ AgentUnlocked
    /\ versions[v].lifecycle = "ABSENT"
    /\ Begin(p, "insert", "create", v, NoVersion, NextNumber)

Insert(p) ==
    /\ sess[p].pc = "insert"
    /\ versions' = [versions EXCEPT ![sess[p].version] =
                        [lifecycle |-> "DRAFT", number |-> sess[p].number, config |-> 0]]
    /\ Become(p, Idle)
    /\ UNCHANGED <<evaluations, events, faults>>

(* update_draft_version: reads without a lock, then updates the row. *)

BeginEdit(p, v) ==
    /\ versions[v].lifecycle = "DRAFT"
    /\ versions[v].config < MaxEdits
    /\ Begin(p, "edit", "edit", v, NoVersion, 0)

Edit(p) ==
    /\ sess[p].pc = "edit"
    /\ RowFree(sess[p].version)
    /\ versions' = [versions EXCEPT ![sess[p].version].config = @ + 1]
    /\ Become(p, Idle)
    /\ UNCHANGED <<evaluations, events, faults>>

(* deprecate_version: reads without a lock, updates the row, inserts the    *)
(* event and commits.                                                       *)

BeginDeprecate(p, v) ==
    /\ Len(events) < MaxEvents
    /\ versions[v].lifecycle \in Deprecatable
    /\ Begin(p, "mark", "deprecate", v, NoVersion, 0)

Mark(p) ==
    /\ sess[p].pc = "mark"
    /\ RowFree(sess[p].version)
    /\ Continue(p, "event")
    /\ UNCHANGED <<versions, evaluations, events, faults>>

RecordDeprecation(p) ==
    /\ sess[p].pc = "event"
    /\ AgentShareable
    /\ versions' = [versions EXCEPT ![sess[p].version].lifecycle = "DEPRECATED"]
    /\ events' = Append(events,
            [type |-> "DEPRECATE", source |-> sess[p].version, target |-> NoVersion])
    /\ Become(p, Idle)
    /\ UNCHANGED <<evaluations, faults>>

(* promote_version and rollback.  Under the agent lock only evaluations may  *)
(* change between their reads (AgentLockFreezes), so a step ends before the  *)
(* gate and before each UPDATE that may have to wait.                        *)

BeginPromote(p, v) ==
    /\ Len(events) < MaxEvents
    /\ AgentUnlocked
    /\ versions[v].lifecycle \notin {"ABSENT", "DEPRECATED"}
    /\ Begin(p, "check", "promote", v, NoVersion, 0)

CheckGate(p) ==
    /\ sess[p].pc = "check"
    /\ GateOpen(sess[p].version)
    /\ CurrentProduction # sess[p].version
    /\ Become(p, [sess[p] EXCEPT !.current = CurrentProduction,
                      !.pc = IF CurrentProduction = NoVersion THEN "finish" ELSE "demote"])
    /\ UNCHANGED <<versions, evaluations, events, faults>>

\* Mutant: a refused promotion raises without ending its transaction.
CheckGateRefused_NoRollback(p) ==
    /\ sess[p].pc = "check"
    /\ ~GateOpen(sess[p].version)
    /\ UNCHANGED vars

CheckGateRefused(p) ==
    /\ sess[p].pc = "check"
    /\ ~GateOpen(sess[p].version) \/ CurrentProduction = sess[p].version
    /\ RollBack(p)
    /\ UNCHANGED faults

BeginRollback(p) ==
    /\ Len(events) < MaxEvents
    /\ AgentUnlocked
    /\ CurrentProduction # NoVersion
    /\ LET promotions == Restorable(CurrentProduction)
       IN /\ promotions # {}
          /\ Begin(p, "demote", "rollback", events[Latest(promotions)].target,
                   CurrentProduction, 0)

Demote(p) ==
    /\ sess[p].pc = "demote"
    /\ RowFree(sess[p].current)
    /\ Continue(p, "finish")
    /\ UNCHANGED <<versions, evaluations, events, faults>>

\* Mutant: the event names no version it replaces.
Record_NoSource(p) ==
    events' = Append(events,
        [type |-> IF sess[p].op = "promote" THEN "PROMOTE" ELSE "ROLLBACK",
         source |-> NoVersion, target |-> sess[p].version])

Record(p) ==
    events' = Append(events,
        [type |-> IF sess[p].op = "promote" THEN "PROMOTE" ELSE "ROLLBACK",
         source |-> sess[p].current, target |-> sess[p].version])

\* Mutant: the demoted version gets a status of its own.
Deployed_Retired(p) ==
    [v \in Versions |->
        IF v = sess[p].version THEN [versions[v] EXCEPT !.lifecycle = "PRODUCTION"]
        ELSE IF v = sess[p].current THEN [versions[v] EXCEPT !.lifecycle = "RETIRED"]
        ELSE versions[v]]

\* Mutant: the version in production is not demoted.
Deployed_NoDemotion(p) == [versions EXCEPT ![sess[p].version].lifecycle = "PRODUCTION"]

\* The rows after the UPDATEs of p.
Deployed(p) ==
    [v \in Versions |->
        IF v = sess[p].version THEN [versions[v] EXCEPT !.lifecycle = "PRODUCTION"]
        ELSE IF v = sess[p].current THEN [versions[v] EXCEPT !.lifecycle = "APPROVED"]
        ELSE versions[v]]

Finish(p) ==
    /\ sess[p].pc = "finish"
    /\ RowFree(sess[p].version)
    /\ versions' = Deployed(p)
    /\ Record(p)
    /\ Become(p, Idle)
    /\ UNCHANGED <<evaluations, faults>>

(* Evaluations: run_evaluation as the gate sees it. *)

StartEvaluation(v) ==
    /\ Len(evaluations) < MaxEvaluations
    /\ versions[v].lifecycle # "ABSENT"
    /\ evaluations' = Append(evaluations,
            [version |-> v, config |-> versions[v].config, status |-> "RUNNING"])
    /\ UNCHANGED <<versions, events, sess, faults>>

FinishEvaluation(i, outcome) ==
    /\ evaluations[i].status = "RUNNING"
    /\ evaluations' = [evaluations EXCEPT ![i].status = outcome]
    /\ UNCHANGED <<versions, events, sess, faults>>

\* The read after the commit of its outcome fails: the except block marks the
\* evaluation FAILED, passed or not, which may already have let a version through.
OverturnEvaluation(i) ==
    /\ evaluations[i].status = "PASSED"
    /\ faults < MaxFaults
    /\ faults' = faults + 1
    /\ evaluations' = [evaluations EXCEPT ![i].status = "OVERTURNED"]
    /\ UNCHANGED <<versions, events, sess>>

(* Failures. *)

\* A statement raises or the process dies.
Abort(p) ==
    /\ sess[p].pc # "idle"
    /\ faults < MaxFaults
    /\ faults' = faults + 1
    /\ RollBack(p)

\* PostgreSQL ends a cycle of waiting transactions by failing one of them.
DeadlockVictim(p) ==
    /\ \E q \in Sessions : WaitsFor(p, q) /\ WaitsFor(q, p)
    /\ RollBack(p)
    /\ UNCHANGED faults

-----------------------------------------------------------------------------

\* What a session does once its request has begun.
Proceed(p) ==
    \/ Insert(p)
    \/ Edit(p)
    \/ Mark(p)
    \/ RecordDeprecation(p)
    \/ CheckGate(p)
    \/ CheckGateRefused(p)
    \/ Demote(p)
    \/ Finish(p)

Request(p) ==
    \/ BeginRollback(p)
    \/ \E v \in Versions :
        \/ BeginCreate(p, v)
        \/ BeginEdit(p, v)
        \/ BeginDeprecate(p, v)
        \/ BeginPromote(p, v)

Evaluate ==
    \/ \E v \in Versions : StartEvaluation(v)
    \/ \E i \in DOMAIN evaluations, outcome \in {"PASSED", "FAILED"} :
            FinishEvaluation(i, outcome)
    \/ \E i \in DOMAIN evaluations : OverturnEvaluation(i)

Next ==
    \/ \E p \in Sessions : Request(p) \/ Proceed(p) \/ Abort(p) \/ DeadlockVictim(p)
    \/ Evaluate

Spec == Init /\ [][Next]_vars

\* A session goes on by itself; PostgreSQL serves the sessions waiting for a
\* row in turn and looks for deadlocks among them.
Fairness ==
    \A p \in Sessions : SF_vars(Proceed(p)) /\ WF_vars(DeadlockVictim(p))

FairSpec == Spec /\ Fairness

-----------------------------------------------------------------------------
(* Properties.                                                             *)

Deploying == {"PROMOTE", "ROLLBACK"}
Deployments == {i \in DOMAIN events : events[i].type \in Deploying}

\* An agent never has two production versions, so promote_version and rollback
\* never meet the unique index uq_agent_versions_agent_id_production.
OneProduction == \A v, w \in Production : v = w

\* The audit log tells which version is in production: the one the last PROMOTE
\* or ROLLBACK event names, whatever was aborted or chosen as a deadlock victim.
LogNamesProduction ==
    \A v \in Production :
        Deployments # {} /\ events[Latest(Deployments)].target = v

\* A production version has passed an evaluation at some time, also when a
\* rollback put it there and when the evaluation has been overturned since.
Passed ==
    {v \in Versions : \E i \in DOMAIN evaluations :
        evaluations[i].version = v /\ evaluations[i].status \in {"PASSED", "OVERTURNED"}}
ProductionPassedGate == Production \subseteq Passed

\* The deployment history is a chain: each PROMOTE or ROLLBACK event names as its
\* source the target of the one before, or nothing once that was deprecated.
DeprecatedBefore(v, j) ==
    \E k \in DOMAIN events :
        k < j /\ events[k].type = "DEPRECATE" /\ events[k].source = v
HistoryChains ==
    \A i, j \in Deployments :
        (i < j /\ \A k \in Deployments : k <= i \/ j <= k) =>
            \/ events[j].source = events[i].target
            \/ events[j].source = NoVersion /\ DeprecatedBefore(events[i].target, j)

\* create_version numbers the versions of an agent 1, 2, 3, ... without a gap or
\* a repetition, so uq_agent_versions_agent_id_version never refuses one.
Created == {v \in Versions : versions[v].lifecycle # "ABSENT"}
NumbersDense == {versions[v].number : v \in Created} = 1..Cardinality(Created)

\* Once deprecated, a version stays so: no promotion or rollback that read it
\* earlier brings it back.
DeprecatedIsFinal ==
    [][\A v \in Versions :
        versions[v].lifecycle = "DEPRECATED" => versions'[v].lifecycle = "DEPRECATED"]_vars

\* While a promotion, a rollback or a creation holds the agent, no other session
\* commits a lifecycle: what it read at the start still holds when it writes.
AgentLockFreezes ==
    [][\A p, q \in Sessions :
        (p # q /\ HoldsAgent(p) /\ sess'[q] # sess[q]) =>
            \A v \in Versions : versions'[v].lifecycle = versions[v].lifecycle]_vars

\* Every request ends: none waits for ever on a lock, although deprecation takes
\* the version and then the agent and promotion the other way round.
SessionsFinish == \A p \in Sessions : sess[p].pc # "idle" ~> sess[p].pc = "idle"

(* The inductive invariant. *)

OneHolder == \A p, q \in Sessions : HoldsAgent(p) /\ HoldsAgent(q) => p = q

\* What a session has read and nobody may change while it waits.
InsertOK(p) ==
    /\ sess[p].op = "create"
    /\ versions[sess[p].version].lifecycle = "ABSENT"
    /\ sess[p].number = Cardinality(Created) + 1
WriteOK(p) ==
    /\ sess[p].op = IF sess[p].pc = "edit" THEN "edit" ELSE "deprecate"
    /\ sess[p].version \in Created
PromoteOK(p) ==
    /\ sess[p].op \in {"promote", "rollback"}
    /\ versions[sess[p].version].lifecycle \notin {"ABSENT", "DEPRECATED"}
DeployOK(p) ==
    /\ sess[p].version \in Passed
    /\ sess[p].current # sess[p].version
    /\ Production = {sess[p].current} \ {NoVersion}

SessionOK(p) ==
    /\ IF sess[p].pc = "idle" THEN sess[p].op = "none" ELSE sess[p].version \in Versions
    /\ sess[p].pc = "insert" => InsertOK(p)
    /\ sess[p].pc \in {"edit", "mark", "event"} => WriteOK(p)
    /\ sess[p].pc \in {"check", "demote", "finish"} => PromoteOK(p)
    /\ sess[p].pc \in {"demote", "finish"} => DeployOK(p)
    /\ sess[p].pc = "demote" => sess[p].current # NoVersion

\* What can be restored exists and has passed; only deployments have a target.
EventsOK ==
    \A i \in DOMAIN events :
        IF events[i].type \in Deploying
        THEN events[i].target \in Created \cap Passed
        ELSE events[i].target = NoVersion

\* The last deployment, if any, and the version in production, if any, agree.
LastDeployments == {i \in Deployments : \A j \in Deployments : j <= i}
LogOK ==
    /\ \A v \in Production : \E i \in LastDeployments : events[i].target = v
    /\ \A i \in LastDeployments :
            \/ events[i].target \in Production
            \/ DeprecatedBefore(events[i].target, Len(events) + 1)

NumbersOK ==
    /\ NumbersDense
    /\ \A v \in Versions \ Created : versions[v].number = 0

RowsOK ==
    OneProduction /\ ProductionPassedGate /\ EventsOK /\ LogOK /\ HistoryChains /\ NumbersOK

\* A session that holds the agent is alone in doing so, and what it has read is
\* still true of the committed rows.
IInv == TypeOK /\ OneHolder /\ (\A p \in Sessions : SessionOK(p)) /\ RowsOK

(* What docs and tests say of the program, and the code does not keep. *)

\* A version in production is never deprecated (the code refuses it with
\* "cannot deprecate version from PRODUCTION lifecycle").
ProductionNotDeprecated ==
    [][\A v \in Versions :
        versions[v].lifecycle = "PRODUCTION" => versions'[v].lifecycle # "DEPRECATED"]_vars

\* What is in production is what passed: the gate cannot be bypassed by changing
\* the prompt or the configuration after the evaluation.
ProductionConfigPassed ==
    \A v \in Production :
        \E i \in DOMAIN evaluations :
            /\ evaluations[i].version = v
            /\ evaluations[i].status = "PASSED"
            /\ evaluations[i].config = versions[v].config

\* A rollback right after a promotion restores the version that promotion
\* replaced, unless it was deprecated since.
RollbackRestoresPrevious ==
    [][(Len(events') > Len(events) /\ events'[Len(events')].type = "ROLLBACK") =>
        LET last == events[Latest(Deployments)]
        IN \/ last.type # "PROMOTE"
           \/ last.source = NoVersion
           \/ versions[last.source].lifecycle = "DEPRECATED"
           \/ events'[Len(events')].target = last.source]_vars
=============================================================================
