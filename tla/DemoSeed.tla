------------------------------ MODULE DemoSeed ------------------------------
(***************************************************************************)
(* scripts/seed_demo.py: fills the database with the rows of a manifest    *)
(* through the API, skips what is there already, and lets                  *)
(* apply_demo_timestamps (services/demo_seed.py) put the rows in order in  *)
(* one transaction of the backend, before and after.                       *)
(*                                                                         *)
(* The script is one process that keeps what it has fetched in memory.  It *)
(* may die between any two requests and is then simply run again; a        *)
(* request may die in the API half way; a reviewer at the dashboard may    *)
(* decide a request before the script does.  Lists are fetched in one      *)
(* step: nobody else inserts rows meanwhile.                               *)
(***************************************************************************)
EXTENDS Naturals, Sequences, FiniteSets

CONSTANTS
    VersionSeeds,    \* versions <<agent, name>> in the order they are ensured
    RunSeeds,        \* runs: key, input (version, tool and tool input), review
    EvaluationSeeds, \* versions to evaluate
    DeploymentSeeds, \* deployment steps: action, source and target version
    LegacyRuns,      \* unreviewed inputs of runs that may exist from before keys
    NoVersion,       \* the null of a foreign key to a version
    MaxDisturbances  \* bound: faults, and decisions by others, in a behaviour

Elements(s) == {s[i] : i \in DOMAIN s}

Versions == Elements(VersionSeeds)
Keys == {s.key : s \in Elements(RunSeeds)}
Inputs == {s.input : s \in Elements(RunSeeds)}
NoKey == "none"

\* What becomes of the approval request of a seed: its tool needs none, nobody
\* reviews it, or the script does.
Decisions == {"APPROVED", "REJECTED"}
Reviews == {"none", "left"} \cup Decisions
Actions == {"PROMOTE", "ROLLBACK", "DEPRECATE"}

\* The seeds of one input: they differ in nothing that matters here.
SeedsOf(input) == {n \in DOMAIN RunSeeds : RunSeeds[n].input = input}
SameAgent(v, w) == v[1] = w[1]

ASSUME ConstantsAssumption ==
    /\ VersionSeeds \in Seq(Versions) \ {<<>>}
    /\ RunSeeds \in Seq([key : Keys, input : Inputs, review : Reviews]) \ {<<>>}
    /\ NoKey \notin Keys
    /\ \A i, j \in DOMAIN RunSeeds : i # j => RunSeeds[i].key # RunSeeds[j].key
    /\ \A input \in Inputs : input.version \in Versions
    /\ EvaluationSeeds \in Seq(Versions) \ {<<>>}
    /\ DeploymentSeeds \in
          Seq([action : Actions, source : Versions \cup {NoVersion}, target : Versions]) \ {<<>>}
    /\ NoVersion \notin Versions
    /\ MaxDisturbances \in Nat

\* An earlier script made one run for each of its seeds: no more of an input than
\* there are seeds to give them a key.
ASSUME LegacyAssumption ==
    \A legacy \in LegacyRuns :
        /\ legacy \in Seq(Inputs)
        /\ \A input \in Inputs :
              Cardinality({i \in DOMAIN legacy : legacy[i] = input}) <= Cardinality(SeedsOf(input))

\* The deployment steps of the manifest, in their order, can be carried out: a
\* step repeats none before it, replaces the version that the agent's last
\* promotion or rollback put into production, and a rollback goes back to the
\* newest promotion there is to go back to.  Every version evaluated is promoted.
Puts(n) == DeploymentSeeds[n].action \in {"PROMOTE", "ROLLBACK"}
PutsFor(n, v) == Puts(n) /\ SameAgent(DeploymentSeeds[n].target, v)
Retires(n, v) == DeploymentSeeds[n].action = "DEPRECATE" /\ DeploymentSeeds[n].target = v
Repeats(n, m) ==
    LET d == DeploymentSeeds[n]
        c == DeploymentSeeds[m]
    IN  /\ c.target = d.target
        /\ CASE d.action = "PROMOTE" -> Puts(m)
             [] d.action = "ROLLBACK" -> c.action = "ROLLBACK" /\ c.source = d.source
             [] d.action = "DEPRECATE" -> c.action = "DEPRECATE"
ReplacesLast(n) ==
    LET d == DeploymentSeeds[n]
    IN  \/ /\ d.source = NoVersion
           /\ \A m \in 1..(n - 1) : ~PutsFor(m, d.target)
        \/ \E m \in 1..(n - 1) :
              /\ PutsFor(m, d.target) /\ DeploymentSeeds[m].target = d.source
              /\ \A j \in (m + 1)..(n - 1) : ~PutsFor(j, d.target)
RestoresNewest(n) ==
    LET d == DeploymentSeeds[n]
        retired(v) == \E j \in 1..(n - 1) : Retires(j, v)
    IN  /\ d.target # d.source /\ ~retired(d.target)
        /\ \E m \in 1..(n - 1) :
              /\ DeploymentSeeds[m].action = "PROMOTE" /\ DeploymentSeeds[m].target = d.target
              /\ \A j \in (m + 1)..(n - 1) :
                    DeploymentSeeds[j].action = "PROMOTE" /\ PutsFor(j, d.target) =>
                        DeploymentSeeds[j].target = d.source \/ retired(DeploymentSeeds[j].target)
ASSUME ManifestAssumption ==
    /\ \A n \in DOMAIN DeploymentSeeds :
          /\ \A m \in 1..(n - 1) : ~Repeats(n, m)
          /\ Puts(n) => ReplacesLast(n)
          /\ DeploymentSeeds[n].action = "ROLLBACK" => RestoresNewest(n)
    /\ \A v \in Elements(EvaluationSeeds) : \E n \in DOMAIN DeploymentSeeds :
          DeploymentSeeds[n].action = "PROMOTE" /\ DeploymentSeeds[n].target = v

\* ... and are accepted at their turn: what is promoted has been evaluated and not
\* been deprecated, what is deprecated is not in production then.
ASSUME AcceptanceAssumption ==
    \A n \in DOMAIN DeploymentSeeds :
        LET d == DeploymentSeeds[n]
        IN  /\ d.action = "PROMOTE" =>
                  /\ d.target \in Elements(EvaluationSeeds)
                  /\ \A m \in 1..(n - 1) : ~Retires(m, d.target)
            /\ d.action = "DEPRECATE" =>
                  \A m \in 1..(n - 1) : Puts(m) /\ DeploymentSeeds[m].target = d.target =>
                      \E j \in (m + 1)..(n - 1) : PutsFor(j, d.target)

VARIABLES
    versions,    \* lifecycle of each version
    runs,        \* agent_runs rows: seed key, input and their approval request
    evaluations, \* evaluations rows of the demo suite
    events,      \* deployment_events rows of all agents
    script,      \* where the script stands and what it has fetched
    disturbances \* faults, and decisions by others, so far

rows == <<versions, runs, evaluations, events>>
vars == <<rows, script, disturbances>>

Lifecycle == {"ABSENT", "DRAFT", "APPROVED", "PRODUCTION", "DEPRECATED"}

\* A run whose tool needs no approval, or that has broken off before it asked
\* for one, has none.
Run == [key : Keys \cup {NoKey}, input : Inputs, approval : {"none", "PENDING"} \cup Decisions]

\* results: whether any case has its result.  open: the request that made it may
\* still be at work on it.
Evaluation ==
    [version : Versions, status : {"RUNNING", "PASSED", "FAILED"}, results : BOOLEAN, open : BOOLEAN]
Event ==
    [type : Actions, source : Versions \cup {NoVersion}, target : Versions \cup {NoVersion}]

\* next: the place in the list of the current loop.  lifecycles: version_map.
Script ==
    [pc : {"idle", "versions", "normalize", "runs", "approval", "review", "evaluations",
           "deployments", "finish", "done"},
     next : Nat, lifecycles : [Versions -> Lifecycle]]

TypeOK ==
    /\ versions \in [Versions -> Lifecycle]
    /\ runs \in Seq(Run)
    /\ evaluations \in Seq(Evaluation)
    /\ events \in Seq(Event)
    /\ script \in Script
    /\ disturbances \in 0..MaxDisturbances

\* The database is empty, or an earlier script has made versions and runs.
Init ==
    /\ \E legacy \in LegacyRuns :
          /\ runs = [i \in DOMAIN legacy |->
                        [key |-> NoKey, input |-> legacy[i], approval |-> "none"]]
          /\ versions = [v \in Versions |->
                            IF \E i \in DOMAIN legacy : legacy[i].version = v THEN "DRAFT" ELSE "ABSENT"]
    /\ evaluations = <<>>
    /\ events = <<>>
    /\ script = [pc |-> "idle", next |-> 1, lifecycles |-> [v \in Versions |-> "ABSENT"]]
    /\ disturbances = 0

-----------------------------------------------------------------------------
(* The script.                                                             *)

Goto(l, n) == script' = [script EXCEPT !.pc = l, !.next = n]

\* RuntimeError, or any exception: the script ends.
GiveUp == Goto("idle", 1)

\* On to the next seed of this list, or to what comes after the list.
NextOf(list, l, after) ==
    IF script.next < Len(list) THEN Goto(l, script.next + 1) ELSE Goto(after, 1)

Begin ==
    /\ script.pc \in {"idle", "done"}
    /\ Goto("versions", 1)
    /\ UNCHANGED <<rows, disturbances>>

\* ensure_agents and ensure_versions: a version there is by its name, or is
\* created; version_map keeps its lifecycle of this moment.
EnsureVersion ==
    LET v == VersionSeeds[script.next]
    IN  /\ script.pc = "versions"
        /\ versions' = IF versions[v] = "ABSENT" THEN [versions EXCEPT ![v] = "DRAFT"] ELSE versions
        /\ script' = [script EXCEPT
                         !.lifecycles[v] = versions'[v],
                         !.pc = IF script.next < Len(VersionSeeds) THEN "versions" ELSE "normalize",
                         !.next = IF script.next < Len(VersionSeeds) THEN script.next + 1 ELSE 1]
        /\ UNCHANGED <<runs, evaluations, events, disturbances>>

\* _reconcile_demo_seed_keys: of the runs of one input that have no key, the
\* first gets the key of the first seed of that input, and so on, as far as the
\* seeds go.  The code sorts the runs by their random id and the keys by name;
\* the orders of the two lists stand for these, the runs being alike.
Rank(S, i) == Cardinality({j \in S : j <= i})
Keyless(input) == {i \in DOMAIN runs : runs[i].key = NoKey /\ runs[i].input = input}
Matches(i, n) ==
    /\ runs[i].key = NoKey
    /\ n \in SeedsOf(runs[i].input)
    /\ Rank(Keyless(runs[i].input), i) = Rank(SeedsOf(runs[i].input), n)
Reconciled ==
    [i \in DOMAIN runs |->
        IF \E n \in DOMAIN RunSeeds : Matches(i, n)
        THEN [runs[i] EXCEPT !.key = RunSeeds[CHOOSE n \in DOMAIN RunSeeds : Matches(i, n)].key]
        ELSE runs[i]]

\* _ensure_evaluation_results: an evaluation with results is made to have PASSED.
Mended ==
    [i \in DOMAIN evaluations |->
        IF evaluations[i].results THEN [evaluations[i] EXCEPT !.status = "PASSED"] ELSE evaluations[i]]

\* Mutant: nothing but timestamps.
NormalizeTo_TimestampsOnly(l) ==
    /\ UNCHANGED rows
    /\ Goto(l, 1)

\* apply_demo_timestamps, one transaction.  Left out are the times, which each
\* call counts anew from seven days before, and the metrics of the evaluations.
NormalizeTo(l) ==
    /\ runs' = Reconciled
    /\ evaluations' = Mended
    /\ UNCHANGED <<versions, events>>
    /\ Goto(l, 1)

Normalize ==
    /\ \/ script.pc = "normalize" /\ NormalizeTo("runs")
       \/ script.pc = "finish" /\ NormalizeTo("done")
    /\ UNCHANGED disturbances

(* ensure_runs *)

\* Mutant: only one page of the runs is fetched, the newest twenty.
HasRun_OnePage(key) == \E i \in DOMAIN runs : i + 20 > Len(runs) /\ runs[i].key = key
\* The runs fetched have one with the key of the seed.
HasRun(key) == \E i \in DOMAIN runs : runs[i].key = key
\* Of several runs with one key the last one listed counts.
RunOf(key) == CHOOSE i \in DOMAIN runs :
    runs[i].key = key /\ \A j \in DOMAIN runs : runs[j].key = key => j <= i

NextRun == NextOf(RunSeeds, "runs", "evaluations")

\* What follows once the run of the seed is there.
AfterRun(s) == IF s.review \in Decisions THEN Goto("approval", script.next) ELSE NextRun

\* Mutant: only a new run is reviewed.
AfterFound_Skip(s) == NextRun

AfterFound(s) == AfterRun(s)

EnsureRun ==
    LET s == RunSeeds[script.next]
        run == [key |-> s.key, input |-> s.input,
                approval |-> IF s.review = "none" THEN "none" ELSE "PENDING"]
    IN  /\ script.pc = "runs"
        /\ IF HasRun(s.key)
           THEN UNCHANGED runs /\ AfterFound(s)
           ELSE runs' = Append(runs, run) /\ AfterRun(s)
        /\ UNCHANGED <<versions, evaluations, events, disturbances>>

\* find_approval_for_run
FindApproval ==
    LET approval == runs[RunOf(RunSeeds[script.next].key)].approval
    IN  /\ script.pc = "approval"
        /\ CASE approval = "none" -> GiveUp
             [] approval = "PENDING" -> Goto("review", script.next)
             [] OTHER -> NextRun
        /\ UNCHANGED <<rows, disturbances>>

\* Refused when somebody else has decided meanwhile.
Review ==
    LET s == RunSeeds[script.next]
        i == RunOf(s.key)
    IN  /\ script.pc = "review"
        /\ IF runs[i].approval = "PENDING"
           THEN runs' = [runs EXCEPT ![i].approval = s.review] /\ NextRun
           ELSE UNCHANGED runs /\ GiveUp
        /\ UNCHANGED <<versions, evaluations, events, disturbances>>

(* ensure_evaluations *)

\* Of any status: an evaluation is never run again.
Evaluated(v) == \E i \in DOMAIN evaluations : evaluations[i].version = v

EnsureEvaluation ==
    LET v == EvaluationSeeds[script.next]
    IN  /\ script.pc = "evaluations"
        /\ evaluations' = IF Evaluated(v) THEN evaluations
                          ELSE Append(evaluations,
                                      [version |-> v, status |-> "PASSED", results |-> TRUE, open |-> FALSE])
        /\ NextOf(EvaluationSeeds, "evaluations", "deployments")
        /\ UNCHANGED <<versions, runs, events, disturbances>>

(* ensure_deployments *)

\* Mutant: the history is not read.
Exists_Never(d) == FALSE
\* The history as _deployment_exists reads it.  A DEPRECATE event has its
\* version as source and no target: it is never found.
Exists(d) ==
    \E i \in DOMAIN events :
        /\ events[i].type = d.action
        /\ events[i].target = d.target
        /\ d.action = "ROLLBACK" => events[i].source = d.source

\* Mutant: only the history says what has been done.
SeenDone_NotAtAll(d) == FALSE
\* The lifecycle that version_map has says that nothing is to be done.
SeenDone(d) ==
    \/ d.action = "PROMOTE" /\ script.lifecycles[d.target] = "PRODUCTION"
    \/ d.action = "DEPRECATE" /\ script.lifecycles[d.target] = "DEPRECATED"

InProduction(d) == {v \in Versions : SameAgent(v, d.target) /\ versions[v] = "PRODUCTION"}
Current(d) == IF InProduction(d) = {} THEN NoVersion ELSE CHOOSE v \in InProduction(d) : TRUE

Latest(I) == CHOOSE i \in I : \A j \in I : j <= i
GateOpen(v) ==
    LET completed == {i \in DOMAIN evaluations :
                         evaluations[i].version = v /\ evaluations[i].status # "RUNNING"}
    IN  completed # {} /\ evaluations[Latest(completed)].status = "PASSED"
Restorable(d) ==
    {i \in DOMAIN events :
        /\ events[i].type = "PROMOTE"
        /\ SameAgent(events[i].target, d.target)
        /\ events[i].target # Current(d)
        /\ versions[events[i].target] # "DEPRECATED"}

\* The service accepts the step.
Accepted(d) ==
    CASE d.action = "PROMOTE" ->
            versions[d.target] # "DEPRECATED" /\ GateOpen(d.target) /\ Current(d) # d.target
      [] d.action = "ROLLBACK" -> Current(d) # NoVersion /\ Restorable(d) # {}
      [] d.action = "DEPRECATE" -> versions[d.target] \in {"DRAFT", "APPROVED"}

\* Mutant: a version that is replaced gets a lifecycle of its own.
Deployed_Replaced(v, current) ==
    [w \in Versions |->
        IF w = v THEN "PRODUCTION" ELSE IF w = current THEN "REPLACED" ELSE versions[w]]
\* The version that was in production is approved again.
Deployed(v, current) ==
    [w \in Versions |->
        IF w = v THEN "PRODUCTION" ELSE IF w = current THEN "APPROVED" ELSE versions[w]]

Apply(d) ==
    LET current == Current(d)
        v == IF d.action = "ROLLBACK" THEN events[Latest(Restorable(d))].target ELSE d.target
    IN  IF d.action = "DEPRECATE"
        THEN /\ versions' = [versions EXCEPT ![v] = "DEPRECATED"]
             /\ events' = Append(events, [type |-> "DEPRECATE", source |-> v, target |-> NoVersion])
        ELSE /\ versions' = Deployed(v, current)
             /\ events' = Append(events, [type |-> d.action, source |-> current, target |-> v])

NextDeployment == NextOf(DeploymentSeeds, "deployments", "finish")

EnsureDeployment ==
    LET d == DeploymentSeeds[script.next]
        there == Exists(d) \/ SeenDone(d)
    IN  /\ script.pc = "deployments"
        /\ \/ there /\ UNCHANGED <<versions, events>> /\ NextDeployment
           \/ ~there /\ Accepted(d) /\ Apply(d) /\ NextDeployment
           \/ ~there /\ ~Accepted(d) /\ UNCHANGED <<versions, events>> /\ GiveUp
        /\ UNCHANGED <<runs, evaluations, disturbances>>

-----------------------------------------------------------------------------
(* Failures, and others who act.                                           *)

Disturbance ==
    /\ disturbances < MaxDisturbances
    /\ disturbances' = disturbances + 1

\* The script dies, or a request that was carried out is not answered.
Crash ==
    /\ script.pc \notin {"idle", "done"}
    /\ Disturbance
    /\ GiveUp
    /\ UNCHANGED rows

\* The run of a seed breaks off in the API before it asks for approval.
BreakRun ==
    LET s == RunSeeds[script.next]
    IN  /\ script.pc = "runs" /\ ~HasRun(s.key) /\ s.review # "none"
        /\ Disturbance
        /\ runs' = Append(runs, [key |-> s.key, input |-> s.input, approval |-> "none"])
        /\ GiveUp
        /\ UNCHANGED <<versions, evaluations, events>>

\* A case fails, or the API dies, before or after the first result; a FAILED
\* evaluation is an answer like any other.
BreakEvaluation(status, results) ==
    LET v == EvaluationSeeds[script.next]
    IN  /\ script.pc = "evaluations" /\ ~Evaluated(v)
        /\ Disturbance
        /\ evaluations' = Append(evaluations,
              [version |-> v, status |-> status, results |-> results, open |-> status = "RUNNING"])
        /\ IF status = "FAILED" THEN NextOf(EvaluationSeeds, "evaluations", "deployments") ELSE GiveUp
        /\ UNCHANGED <<versions, runs, events>>

\* The request only took longer than the script waited for it.
AskLate(i) ==
    /\ runs[i].approval = "none"
    /\ \E n \in DOMAIN RunSeeds : RunSeeds[n].key = runs[i].key /\ RunSeeds[n].review # "none"
    /\ runs' = [runs EXCEPT ![i].approval = "PENDING"]
    /\ UNCHANGED <<versions, evaluations, events, script, disturbances>>

\* ... and so with the request for an evaluation, RUNNING or mended meanwhile: it
\* commits its first result, it ends with all of them passed, or it breaks off or
\* a case has failed.  The last is possible even after it has passed: the read
\* that follows the commit may fail.
ResultLate(i) ==
    /\ ~evaluations[i].results
    /\ evaluations' = [evaluations EXCEPT ![i].results = TRUE]
PassLate(i) ==
    /\ evaluations[i].results
    /\ evaluations' = [evaluations EXCEPT ![i].status = "PASSED"]
FailLate(i) == evaluations' = [evaluations EXCEPT ![i].status = "FAILED", ![i].open = FALSE]
EvaluateLate(i) ==
    /\ evaluations[i].open
    /\ ResultLate(i) \/ PassLate(i) \/ FailLate(i)
    /\ UNCHANGED <<versions, runs, events, script, disturbances>>

\* Somebody decides a request at the dashboard.
Decide(i, decision) ==
    /\ runs[i].approval = "PENDING"
    /\ Disturbance
    /\ runs' = [runs EXCEPT ![i].approval = decision]
    /\ UNCHANGED <<versions, evaluations, events, script>>

-----------------------------------------------------------------------------

Step ==
    \/ Begin
    \/ EnsureVersion
    \/ Normalize
    \/ EnsureRun
    \/ FindApproval
    \/ Review
    \/ EnsureEvaluation
    \/ EnsureDeployment

Next ==
    \/ Step
    \/ Crash
    \/ BreakRun
    \/ \E status \in {"RUNNING", "FAILED"}, results \in BOOLEAN : BreakEvaluation(status, results)
    \/ \E i \in DOMAIN runs : AskLate(i)
    \/ \E i \in DOMAIN runs, decision \in {"APPROVED", "REJECTED"} : Decide(i, decision)
    \/ \E i \in DOMAIN evaluations : EvaluateLate(i)

Spec == Init /\ [][Next]_vars

\* The script is run again for as long as it is needed.
FairSpec == Spec /\ WF_vars(Step)

-----------------------------------------------------------------------------
(* Properties.                                                             *)

\* However often the script dies and is run again, a seed key is on one run at
\* most, and no input has more runs than the manifest has seeds.
OneRunPerSeed ==
    /\ \A i, j \in DOMAIN runs : runs[i].key = runs[j].key /\ runs[i].key # NoKey => i = j
    /\ \A input \in Inputs :
          Cardinality({i \in DOMAIN runs : runs[i].input = input}) <= Cardinality(SeedsOf(input))

\* The event that the manifest expects of a deployment step.
Planned ==
    [i \in DOMAIN DeploymentSeeds |->
        LET d == DeploymentSeeds[i]
        IN  IF d.action = "DEPRECATE"
            THEN [type |-> d.action, source |-> d.target, target |-> NoVersion]
            ELSE [type |-> d.action, source |-> d.source, target |-> d.target]]

\* At any moment the deployment history is the manifest's up to some step, with
\* the version that each step replaced: no step is left out, done twice or done
\* in another order by a script that starts over.
HistoryFollowsManifest ==
    Len(events) <= Len(Planned) /\ \A i \in DOMAIN events : events[i] = Planned[i]

\* Every row of the manifest is there, and every request that the script is to
\* review is decided.
Expected(review) ==
    CASE review = "none" -> {"none"}
      [] review = "left" -> {"none", "PENDING"} \cup Decisions
      [] review \in Decisions -> Decisions
Complete ==
    /\ events = Planned
    /\ \A v \in Versions : versions[v] # "ABSENT"
    /\ \A s \in Elements(RunSeeds) :
          Cardinality({i \in DOMAIN runs :
              runs[i].key = s.key /\ runs[i].approval \in Expected(s.review)}) = 1
    /\ \A v \in Elements(EvaluationSeeds) :
          Cardinality({i \in DOMAIN evaluations : evaluations[i].version = v}) = 1

\* When the script says that it is done, the manifest is in the database.
DoneIsComplete == script.pc = "done" => Complete

\* Once that is so, to run the script again, through or in part, adds no row,
\* gives no key, decides no request and deploys nothing: all it does is to mend
\* an evaluation that has results (and to rewrite times).
MendedAtMost(i) ==
    \/ evaluations'[i] = evaluations[i]
    \/ evaluations[i].results /\ evaluations'[i] = [evaluations[i] EXCEPT !.status = "PASSED"]
SeedingAgainAddsNothing ==
    [][Complete /\ script' # script =>
          /\ UNCHANGED <<versions, runs, events>>
          /\ DOMAIN evaluations' = DOMAIN evaluations
          /\ \A i \in DOMAIN evaluations : MendedAtMost(i)]_vars

\* Rows that the script takes for its own and cannot get past: a run that needs
\* a review and never asked for it, an evaluation without results.
Unasked(s, run) == s.key = run.key /\ run.approval = "none"
Stuck ==
    \/ \E n \in DOMAIN RunSeeds :
          /\ RunSeeds[n].review \in Decisions
          /\ \E i \in DOMAIN runs : Unasked(RunSeeds[n], runs[i])
    \/ \E i \in DOMAIN evaluations : evaluations[i].status # "PASSED" /\ ~evaluations[i].results

\* The script gives up, faults apart, only at such a run, at a request that
\* somebody has decided under it, or at the promotion of a version whose
\* evaluation has not passed.  No rollback and no deprecation is ever refused, and
\* no step because of what the script itself has done before.
Overtaken ==
    /\ script.pc = "review"
    /\ runs[RunOf(RunSeeds[script.next].key)].approval \in Decisions
NotPassed ==
    /\ script.pc = "deployments"
    /\ DeploymentSeeds[script.next].action = "PROMOTE"
    /\ \A i \in DOMAIN evaluations :
          evaluations[i].version = DeploymentSeeds[script.next].target => evaluations[i].status # "PASSED"
AtUnasked ==
    /\ script.pc = "approval"
    /\ LET s == RunSeeds[script.next] IN Unasked(s, runs[RunOf(s.key)])
GivesUpForAReason == [][script'.pc = "idle" /\ Step => AtUnasked \/ Overtaken \/ NotPassed]_vars

\* Wherever it broke off, running the script again gets to the end, unless such
\* a row was left behind.
SeedCompletes == []<>(script.pc = "done" \/ Stuck)
=============================================================================
