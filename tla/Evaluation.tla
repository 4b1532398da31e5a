------------------------------ MODULE Evaluation ------------------------------
(***************************************************************************)
(* EvaluationService: an evaluation runs the cases of its suite one by one *)
(* against an agent version, keeps the result of each, and is finalised as *)
(* PASSED or FAILED.                                                       *)
(*                                                                         *)
(* One API request carries out one evaluation, in one database session     *)
(* with a commit after every case.  The runs of the cases are those of     *)
(* GatedCall, which RunExecution implements as long as the read after      *)
(* execute_run's commit does not fail: the request executes them, and a    *)
(* reviewer may act on a blocked one at any time, also between the moment  *)
(* it blocks and the moment the evaluation reads how it ended.             *)
(***************************************************************************)
EXTENDS Naturals, Sequences, FiniteSets

CONSTANTS
    Evaluations, \* ids of evaluations rows; each is one POST /evaluations
    Versions,    \* agent versions that may be evaluated
    Cases,       \* number of cases of the suite
    CaseKinds,   \* what the gateway may rule on a case and whether its tool
                 \* is the expected one
    FaultKinds,  \* the faults that may happen
    MaxFaults,   \* bound: faults in a behaviour
    MaxCalls     \* bound: calls of one approved tool

Runs == Evaluations \X (1..Cases)

ASSUME ConstantsAssumption ==
    /\ IsFiniteSet(Evaluations)
    /\ Cases \in Nat \ {0}
    /\ CaseKinds \subseteq
          [ruling : {"ALLOW", "REQUIRE_APPROVAL", "DENY", "UNKNOWN"}, expected : BOOLEAN]
    /\ FaultKinds \subseteq {"error", "crash"}
    /\ MaxFaults \in Nat

VARIABLES
    kind,    \* what each case is, for the version the evaluation is of
    life,    \* where the run of each case stands
    calls,   \* how often its tool has been called
    version, \* the version each evaluation is of
    created, \* evaluations in the order of created_at
    evals,   \* committed evaluations row
    results, \* committed evaluation_results rows: the status of each case so far
    jobs,    \* the request that carries the evaluation out
    earned,  \* ghost: evaluations whose row has been PASSED
    faults   \* faults so far

runVars == <<life, calls>>
fixed == <<kind, version>>
rowVars == <<created, evals, results, earned>>
vars == <<fixed, runVars, rowVars, jobs, faults>>

Status == {"ABSENT", "PENDING", "RUNNING", "PASSED", "FAILED"}
Verdict == {"PASSED", "FAILED"}

\* total and passed: the cases counted in the metrics and in the report.
Row == [status : Status, total : Nat, passed : Nat]
Absent == [status |-> "ABSENT", total |-> 0, passed |-> 0]

\* results: the list of run_evaluation, one longer than the committed rows
\* while a result is not committed.
Pc == {"idle", "start", "run", "commit", "finalize", "refresh", "fail", "done", "gone"}
Job == [pc : Pc, results : Seq(Verdict)]

Ruling == [r \in Runs |-> kind[r].ruling]
Gate == INSTANCE GatedCall WITH ruling <- Ruling

TypeOK ==
    /\ kind \in [Runs -> CaseKinds]
    /\ Gate!TypeOK
    /\ version \in [Evaluations -> Versions]
    /\ created \in Seq(Evaluations)
    /\ evals \in [Evaluations -> Row]
    /\ results \in [Evaluations -> Seq(Verdict)]
    /\ jobs \in [Evaluations -> Job]
    /\ earned \subseteq Evaluations
    /\ faults \in 0..MaxFaults

Init ==
    /\ kind \in [Runs -> CaseKinds]
    /\ life = [r \in Runs |-> "new"]
    /\ calls = [r \in Runs |-> 0]
    /\ version \in [Evaluations -> Versions]
    /\ created = <<>>
    /\ evals = [e \in Evaluations |-> Absent]
    /\ results = [e \in Evaluations |-> <<>>]
    /\ jobs = [e \in Evaluations |-> [pc |-> "idle", results |-> <<>>]]
    /\ earned = {}
    /\ faults = 0

-----------------------------------------------------------------------------
(* The runs of the cases, by the steps of GatedCall.                       *)

GateStep(r) ==
    \/ Gate!Start(r) \/ Gate!CallAllowed(r) \/ Gate!CallApproved(r)
    \/ Gate!Deny(r) \/ Gate!Ask(r) \/ Gate!Reject(r) \/ Gate!Succeed(r) \/ Gate!Fail(r)

Executing(r) == life[r] \in {"new", "started"}

\* ApprovalService on the blocked run of a case, now or long after.
Review(r) ==
    /\ life[r] = "waiting"
    /\ UNCHANGED <<fixed, rowVars, jobs, faults>>
    /\ GateStep(r)
    /\ calls'[r] <= MaxCalls

-----------------------------------------------------------------------------
(* EvaluationService.run_evaluation.                                       *)

\* What the request goes on with, and the results it has in memory.
Become(e, l, rs) == jobs' = [jobs EXCEPT ![e] = [pc |-> l, results |-> rs]]
Continue(e, l) == Become(e, l, jobs[e].results)

\* The run of the case the request is at.
Current(e) == <<e, Len(jobs[e].results) + 1>>

Passing(rs) == {i \in DOMAIN rs : rs[i] = "PASSED"}

\* The evaluations row finalised with the metrics of these results.
Finalized(status, rs) ==
    [status |-> status, total |-> Len(rs), passed |-> Cardinality(Passing(rs))]

Create(e) ==
    /\ jobs[e].pc = "idle"
    /\ created' = Append(created, e)
    /\ evals' = [evals EXCEPT ![e].status = "PENDING"]
    /\ Continue(e, "start")
    /\ UNCHANGED <<fixed, runVars, results, earned, faults>>

Start(e) ==
    /\ jobs[e].pc = "start"
    /\ evals' = [evals EXCEPT ![e].status = "RUNNING"]
    /\ Continue(e, "run")
    /\ UNCHANGED <<fixed, runVars, created, results, earned, faults>>

\* create_and_execute_run, step by step.
ExecuteRun(e) ==
    /\ jobs[e].pc = "run"
    /\ Executing(Current(e))
    /\ UNCHANGED <<fixed, rowVars, jobs, faults>>
    /\ GateStep(Current(e))

\* Mutants: the result takes over the status of the run; a blocked run passes.
ExecuteCase_RunStatus(e) ==
    LET r == Current(e)
        status == CASE life[r] = "succeeded" -> "PASSED"
                    [] life[r] = "failed" -> "FAILED"
                    [] OTHER -> "BLOCKED"
    IN  /\ jobs[e].pc = "run"
        /\ ~Executing(r)
        /\ Become(e, "commit", Append(jobs[e].results, status))
        /\ UNCHANGED <<fixed, runVars, rowVars, faults>>
ExecuteCase_BlockedPasses(e) ==
    LET r == Current(e)
        passed == life[r] \in {"succeeded", "waiting"} /\ kind[r].expected
    IN  /\ jobs[e].pc = "run"
        /\ ~Executing(r)
        /\ Become(e, "commit", Append(jobs[e].results, IF passed THEN "PASSED" ELSE "FAILED"))
        /\ UNCHANGED <<fixed, runVars, rowVars, faults>>

\* Back from the runtime, _execute_case reads how the run ended and inserts
\* the result.
ExecuteCase(e) ==
    LET r == Current(e)
        passed == life[r] = "succeeded" /\ kind[r].expected
    IN  /\ jobs[e].pc = "run"
        /\ ~Executing(r)
        /\ Become(e, "commit", Append(jobs[e].results, IF passed THEN "PASSED" ELSE "FAILED"))
        /\ UNCHANGED <<fixed, runVars, rowVars, faults>>

\* Mutant: the results are committed once, with the last case.
CommitResult_AtTheEnd(e) ==
    LET rs == jobs[e].results
    IN  /\ jobs[e].pc = "commit"
        /\ results' = IF Len(rs) = Cases THEN [results EXCEPT ![e] = rs] ELSE results
        /\ Continue(e, IF Len(rs) = Cases THEN "finalize" ELSE "run")
        /\ UNCHANGED <<fixed, runVars, created, evals, earned, faults>>

CommitResult(e) ==
    LET rs == jobs[e].results
    IN  /\ jobs[e].pc = "commit"
        /\ results' = [results EXCEPT ![e] = Append(@, rs[Len(rs)])]
        /\ Continue(e, IF Len(rs) = Cases THEN "finalize" ELSE "run")
        /\ UNCHANGED <<fixed, runVars, created, evals, earned, faults>>

Finalize(e) ==
    LET rs == jobs[e].results
        status == IF Cardinality(Passing(rs)) = Len(rs) THEN "PASSED" ELSE "FAILED"
    IN  /\ jobs[e].pc = "finalize"
        /\ evals' = [evals EXCEPT ![e] = Finalized(status, rs)]
        /\ earned' = IF status = "PASSED" THEN earned \cup {e} ELSE earned
        /\ Continue(e, "refresh")
        /\ UNCHANGED <<fixed, runVars, created, results, faults>>

Refresh(e) ==
    /\ jobs[e].pc = "refresh"
    /\ Continue(e, "done")
    /\ UNCHANGED <<fixed, runVars, rowVars, faults>>

\* Mutants: the metrics of the results in memory; a status computed from the
\* metrics; another attempt; nothing but an error for the caller.
RecordFailure_FromMemory(e) ==
    /\ jobs[e].pc = "fail"
    /\ evals' = [evals EXCEPT ![e] = Finalized("FAILED", jobs[e].results)]
    /\ Continue(e, "done")
    /\ UNCHANGED <<fixed, runVars, created, results, earned, faults>>
RecordFailure_ByMetrics(e) ==
    LET rs == results[e]
        status == IF Cardinality(Passing(rs)) = Len(rs) THEN "PASSED" ELSE "FAILED"
    IN  /\ jobs[e].pc = "fail"
        /\ evals' = [evals EXCEPT ![e] = Finalized(status, rs)]
        /\ Continue(e, "done")
        /\ UNCHANGED <<fixed, runVars, created, results, earned, faults>>

RecordFailure_Retry(e) ==
    /\ jobs[e].pc = "fail"
    /\ evals' = [evals EXCEPT ![e].status = "RUNNING"]
    /\ Become(e, IF Len(results[e]) < Cases THEN "run" ELSE "finalize", results[e])
    /\ UNCHANGED <<fixed, runVars, created, results, earned, faults>>
RecordFailure_Reraise(e) ==
    /\ jobs[e].pc = "fail"
    /\ Continue(e, "done")
    /\ UNCHANGED <<fixed, runVars, rowVars, faults>>

\* The except block, rolled back: _finalize_failed_evaluation reads the
\* committed results again and marks the evaluation FAILED, whatever it is.
RecordFailure(e) ==
    /\ jobs[e].pc = "fail"
    /\ evals' = [evals EXCEPT ![e] = Finalized("FAILED", results[e])]
    /\ Continue(e, "done")
    /\ UNCHANGED <<fixed, runVars, created, results, earned, faults>>

-----------------------------------------------------------------------------
(* Failures.                                                               *)

Fault(k) ==
    /\ k \in FaultKinds
    /\ faults < MaxFaults
    /\ faults' = faults + 1

InTry(e) == jobs[e].pc \in {"run", "commit", "finalize", "refresh"}

\* Something raises.  Within the try block the evaluation is marked FAILED;
\* before it, and within the except block, the request just ends.
Error(e) ==
    /\ InTry(e) \/ jobs[e].pc \in {"start", "fail"}
    /\ Fault("error")
    /\ Continue(e, IF InTry(e) THEN "fail" ELSE "gone")
    /\ UNCHANGED <<fixed, runVars, rowVars>>

Crash(e) ==
    /\ InTry(e) \/ jobs[e].pc \in {"start", "fail"}
    /\ Fault("crash")
    /\ Continue(e, "gone")
    /\ UNCHANGED <<fixed, runVars, rowVars>>

-----------------------------------------------------------------------------

\* What a request does once it has created its evaluation.
Proceed(e) ==
    \/ Start(e)
    \/ ExecuteRun(e)
    \/ ExecuteCase(e)
    \/ CommitResult(e)
    \/ Finalize(e)
    \/ Refresh(e)
    \/ RecordFailure(e)

Next ==
    \/ \E e \in Evaluations : Create(e) \/ Proceed(e) \/ Error(e) \/ Crash(e)
    \/ \E r \in Runs : Review(r)

Spec == Init /\ [][Next]_vars

\* A request goes on by itself; nobody has to review its runs.
FairSpec == Spec /\ \A e \in Evaluations : WF_vars(Proceed(e))

-----------------------------------------------------------------------------
(* Properties.                                                             *)

\* PASSED is earned: every case of the suite has its result, its run succeeded,
\* its tool was really called, and it was the expected one; whatever a reviewer
\* did meanwhile and wherever the request failed.
PassedIsEarned ==
    \A e \in Evaluations : evals[e].status = "PASSED" =>
        /\ Len(results[e]) = Cases
        /\ \A i \in 1..Cases :
              /\ results[e][i] = "PASSED"
              /\ life[<<e, i>>] = "succeeded" /\ calls[<<e, i>>] > 0
              /\ kind[<<e, i>>].expected

\* The metrics and the report of a completed evaluation count exactly the
\* results that are committed, also when it broke off and the last result was
\* rolled back.
ReportCountsResults ==
    \A e \in Evaluations : evals[e].status \in {"PASSED", "FAILED"} =>
        /\ evals[e].total = Len(results[e])
        /\ evals[e].passed = Cardinality(Passing(results[e]))

\* However an evaluation breaks off, every run it has executed has its result,
\* except for the run of the one case it was at.
RunsHaveResults ==
    \A e \in Evaluations, i \in 1..Cases :
        life[<<e, i>>] # "new" => i <= Len(results[e]) + 1

\* A PASSED result keeps saying the truth: its run stays succeeded.
PassedResultsStand ==
    \A e \in Evaluations : \A i \in Passing(results[e]) : life[<<e, i>>] = "succeeded"

(* The inductive invariant: PassedIsEarned, ReportCountsResults,            *)
(* RunsHaveResults and PassedResultsStand follow from it.                   *)

\* The first n results are verdicts on the runs of the first n cases.
Truthful(e, rs) ==
    /\ Len(rs) <= Cases
    /\ \A i \in DOMAIN rs : rs[i] = "PASSED" =>
            life[<<e, i>>] = "succeeded" /\ kind[<<e, i>>].expected
CompletedRow(row) == row.status \in {"PASSED", "FAILED"}

\* What the request has in memory and in the database at each point.
JobOK(e) ==
    LET rs == jobs[e].results
    IN  /\ Truthful(e, rs)
        /\ jobs[e].pc \in {"idle", "start"} => rs = results[e] /\ results[e] = <<>>
        /\ jobs[e].pc \in {"run", "finalize", "refresh"} => rs = results[e]
        /\ jobs[e].pc = "run" => Len(rs) < Cases
        /\ jobs[e].pc = "commit" => rs = Append(results[e], rs[Len(rs)])
        /\ jobs[e].pc \in {"finalize", "refresh"} => Len(rs) = Cases
        /\ jobs[e].pc \in {"idle", "start", "run", "commit", "finalize"} => ~CompletedRow(evals[e])
        /\ jobs[e].pc \in {"refresh", "done"} => CompletedRow(evals[e])

\* What the committed rows hold by themselves.
RowsOK(e) ==
    /\ Truthful(e, results[e])
    /\ CompletedRow(evals[e]) =>
          evals[e].total = Len(results[e]) /\ evals[e].passed = Cardinality(Passing(results[e]))
    /\ evals[e].status = "PASSED" =>
          Len(results[e]) = Cases /\ \A i \in 1..Cases : results[e][i] = "PASSED"

IInv ==
    /\ TypeOK
    /\ Gate!Promise
    /\ \A e \in Evaluations : JobOK(e) /\ RowsOK(e)
    /\ RunsHaveResults

\* A RUNNING evaluation is completed, except when its request has died or failed
\* in its own error handling.
EvaluationsComplete ==
    \A e \in Evaluations :
        evals[e].status = "RUNNING" ~>
            evals[e].status \in {"PASSED", "FAILED"} \/ jobs[e].pc = "gone"

\* What Deployment assumes of evaluations is what this module does: they start,
\* they pass or fail once, and a passed one is overturned only by a fault.
Overturned == {e \in earned : evals[e].status = "FAILED"}
SeenStatus(e) ==
    CASE evals[e].status \in {"PENDING", "RUNNING"} -> "RUNNING"
      [] e \in Overturned -> "OVERTURNED"
      [] OTHER -> evals[e].status
SeenRow(e) == [version |-> version[e], config |-> 0, status |-> SeenStatus(e)]
Seen == [i \in DOMAIN created |-> SeenRow(created[i])]
Draft == [lifecycle |-> "DRAFT", number |-> 1, config |-> 0]
View == INSTANCE Deployment WITH
    versions <- [v \in Versions |-> Draft], evaluations <- Seen, events <- <<>>,
    sess <- <<>>, faults <- Cardinality(Overturned), Sessions <- {}, NoVersion <- 0,
    MaxEvaluations <- Cardinality(Evaluations), MaxEvents <- 0, MaxEdits <- 0
EvaluatesAsSeen == Seen = <<>> /\ [][View!Evaluate]_Seen
=============================================================================
