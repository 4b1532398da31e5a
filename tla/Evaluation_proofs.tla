--------------------------- MODULE Evaluation_proofs ---------------------------
(***************************************************************************)
(* The inductive invariant of Evaluation and the safety properties that    *)
(* follow from it, for any suite and any number of evaluations.  The runs  *)
(* of the cases take only steps of GatedCall, whose promise is cited.      *)
(***************************************************************************)
EXTENDS Evaluation, FiniteSetTheorems, TLAPS

-----------------------------------------------------------------------------
(* Types and small facts.                                                  *)

LEMMA JobType ==
    ASSUME TypeOK, NEW e \in Evaluations
    PROVE  jobs[e].pc \in Pc /\ jobs[e].results \in Seq(Verdict)
BY DEF TypeOK, Job

LEMMA BecomeIs ==
    ASSUME TypeOK, NEW e \in Evaluations, NEW l \in Pc, NEW rs \in Seq(Verdict), Become(e, l, rs)
    PROVE  /\ jobs' \in [Evaluations -> Job]
           /\ jobs'[e].pc = l /\ jobs'[e].results = rs
           /\ \A d \in Evaluations : d # e => jobs'[d] = jobs[d]
<1> DEFINE j == [pc |-> l, results |-> rs]
<1>1. j \in Job /\ j.pc = l /\ j.results = rs
  BY DEF Job
<1>2. jobs' = [jobs EXCEPT ![e] = j]
  BY DEF Become
<1> HIDE DEF j
<1> QED
  BY <1>1, <1>2 DEF TypeOK

LEMMA ContinueIs ==
    ASSUME TypeOK, NEW e \in Evaluations, NEW l \in Pc, Continue(e, l)
    PROVE  /\ jobs' \in [Evaluations -> Job]
           /\ jobs'[e].pc = l /\ jobs'[e].results = jobs[e].results
           /\ \A d \in Evaluations : d # e => jobs'[d] = jobs[d]
<1>1. jobs[e].results \in Seq(Verdict)
  BY JobType
<1> QED
  BY <1>1, BecomeIs DEF Continue

LEMMA UpTo == ASSUME NEW n \in Nat PROVE IsFiniteSet(1..n) /\ Cardinality(1..n) = n
<1>1. n \in Int /\ 1 \in Int
  OBVIOUS
<1>2. IsFiniteSet(1..n) /\ Cardinality(1..n) = IF 1 > n THEN 0 ELSE n - 1 + 1
  BY <1>1, FS_Interval
<1> QED
  BY <1>2

LEMMA RowType ==
    ASSUME NEW status \in Status, NEW rs \in Seq(Verdict)
    PROVE  /\ Finalized(status, rs) \in Row
           /\ Finalized(status, rs).status = status
           /\ Finalized(status, rs).total = Len(rs)
           /\ Finalized(status, rs).passed = Cardinality(Passing(rs))
<1>1. IsFiniteSet(1..Len(rs)) /\ Passing(rs) \subseteq 1..Len(rs)
  BY UpTo DEF Passing
<1>2. Cardinality(Passing(rs)) \in Nat
  BY <1>1, FS_Subset, FS_CardinalityType
<1> QED
  BY <1>2 DEF Finalized, Row

\* Results of which as many passed as there are have all passed.
LEMMA AllPassed ==
    ASSUME NEW rs \in Seq(Verdict), Cardinality(Passing(rs)) = Len(rs)
    PROVE  \A i \in 1..Len(rs) : rs[i] = "PASSED"
<1>1. Len(rs) \in Nat /\ DOMAIN rs = 1..Len(rs)
  OBVIOUS
<1>2. IsFiniteSet(1..Len(rs)) /\ Cardinality(1..Len(rs)) = Len(rs)
  BY <1>1, UpTo
<1>3. Passing(rs) \subseteq 1..Len(rs)
  BY <1>1 DEF Passing
<1>4. Passing(rs) = 1..Len(rs)
  BY <1>2, <1>3, FS_Subset
<1> QED
  BY <1>4 DEF Passing

\* A step of GatedCall on one run keeps its promise, touches no other run and
\* never takes a success back.
LEMMA GateKeeps ==
    ASSUME Gate!TypeOK, Gate!Promise, NEW r \in Runs, GateStep(r), UNCHANGED kind
    PROVE  /\ Gate!TypeOK' /\ Gate!Promise'
           /\ \A x \in Runs : x # r => life'[x] = life[x]
           /\ \A x \in Runs : life[x] = "succeeded" => life'[x] = "succeeded"
<1>1. Gate!Next
  BY DEF GateStep, Gate!Next
<1>2. Gate!TypeOK' /\ Gate!Promise'
  BY <1>1, Gate!PromiseStep
<1>3. life' = life \/ \E to \in Gate!Life : life' = [life EXCEPT ![r] = to] /\ life[r] # "succeeded"
  BY DEF GateStep, Gate!Start, Gate!CallAllowed, Gate!CallApproved, Gate!Deny, Gate!Ask,
     Gate!Reject, Gate!Succeed, Gate!Fail, Gate!Move, Gate!Life
<1> QED
  BY <1>2, <1>3 DEF Gate!TypeOK

-----------------------------------------------------------------------------
(* One request.                                                            *)

\* What a step says of the evaluations it is not about.
LEMMA Untouched ==
    ASSUME TypeOK, NEW d \in Evaluations, JobOK(d), RowsOK(d), UNCHANGED kind,
           jobs'[d] = jobs[d], results'[d] = results[d], evals'[d] = evals[d],
           \A x \in Runs : life[x] = "succeeded" => life'[x] = "succeeded"
    PROVE  JobOK(d)' /\ RowsOK(d)'
<1>1. ASSUME NEW rs \in Seq(Verdict), Truthful(d, rs)
      PROVE  /\ Len(rs) <= Cases
             /\ \A i \in DOMAIN rs : rs[i] = "PASSED" =>
                    life'[<<d, i>>] = "succeeded" /\ kind'[<<d, i>>].expected
  <2>1. \A i \in DOMAIN rs : <<d, i>> \in Runs
    BY <1>1, ConstantsAssumption DEF Truthful, Runs
  <2> QED
    BY <1>1, <2>1 DEF Truthful
<1>2. jobs[d].results \in Seq(Verdict) /\ results[d] \in Seq(Verdict)
  BY JobType DEF TypeOK
<1>3. Truthful(d, jobs[d].results)'
  BY <1>1, <1>2 DEF JobOK, Truthful
<1>4. Truthful(d, results[d])'
  BY <1>1, <1>2 DEF RowsOK, Truthful
<1>5. Passing(results[d])' = Passing(results[d])
  BY DEF Passing
<1>6. CompletedRow(evals[d])' = CompletedRow(evals[d])
  BY DEF CompletedRow
<1> QED
  BY <1>3, <1>4, <1>5, <1>6 DEF JobOK, RowsOK

\* A step of the request of e on the rows of e, the runs at rest.
LEMMA RequestStep ==
    ASSUME IInv, NEW e \in Evaluations, UNCHANGED <<fixed, runVars>>,
           Len(results[e]) <= Len(results'[e]),
           TypeOK', JobOK(e)', RowsOK(e)',
           \A d \in Evaluations : d # e =>
                jobs'[d] = jobs[d] /\ results'[d] = results[d] /\ evals'[d] = evals[d]
    PROVE  IInv'
<1>1. \A d \in Evaluations : JobOK(d)' /\ RowsOK(d)'
  BY Untouched DEF IInv, fixed, runVars
<1>2. Gate!Promise'
  BY DEF IInv, Gate!Promise, Ruling, fixed, runVars
<1>3. RunsHaveResults'
  <2>1. \A d \in Evaluations : results[d] \in Seq(Verdict) /\ results'[d] \in Seq(Verdict)
    BY DEF IInv, TypeOK
  <2>2. \A d \in Evaluations : Len(results[d]) \in Nat /\ Len(results'[d]) \in Nat
    BY <2>1
  <2>3. \A d \in Evaluations : Len(results[d]) <= Len(results'[d])
    BY <2>2
  <2>4. life' = life
    BY DEF runVars
  <2> SUFFICES ASSUME NEW d \in Evaluations, NEW i \in 1..Cases, life[<<d, i>>] # "new"
               PROVE  i <= Len(results'[d]) + 1
    BY <2>4 DEF RunsHaveResults
  <2>5. i <= Len(results[d]) + 1 /\ i \in Nat
    BY ConstantsAssumption DEF IInv, RunsHaveResults
  <2> QED
    BY <2>2, <2>3, <2>5
<1> QED
  BY <1>1, <1>2, <1>3 DEF IInv

-----------------------------------------------------------------------------
(* Steps.  An action of the request of e leaves the other evaluations       *)
(* alone; what it does to e is shown for each.                              *)

LEMMA ErrorFree ==
    ASSUME NEW k, Fault(k), TypeOK
    PROVE  faults' \in 0..MaxFaults
BY ConstantsAssumption DEF Fault, TypeOK

LEMMA CreateStep == ASSUME IInv, NEW e \in Evaluations, Create(e) PROVE IInv'
<1>0. TypeOK /\ JobOK(e) /\ RowsOK(e) /\ evals[e] \in Row /\ created \in Seq(Evaluations)
  BY DEF IInv, TypeOK
<1>1. /\ jobs' \in [Evaluations -> Job]
      /\ jobs'[e].pc = "start" /\ jobs'[e].results = jobs[e].results
      /\ \A d \in Evaluations : d # e => jobs'[d] = jobs[d]
  BY <1>0, ContinueIs DEF Create, Pc
<1>2. created' \in Seq(Evaluations)
  BY <1>0 DEF Create
<1> DEFINE row == [evals[e] EXCEPT !.status = "PENDING"]
<1>3. row \in Row /\ row.status = "PENDING"
  BY <1>0 DEF Row, Status
<1>4. evals' = [evals EXCEPT ![e] = row]
  BY DEF Create
<1> HIDE DEF row
<1>5. evals' \in [Evaluations -> Row] /\ evals'[e] = row
      /\ \A d \in Evaluations : d # e => evals'[d] = evals[d]
  BY <1>0, <1>3, <1>4 DEF TypeOK
<1>6. UNCHANGED <<fixed, runVars, results, earned, faults>>
  BY DEF Create
<1>7. TypeOK'
  BY <1>0, <1>1, <1>2, <1>5, <1>6 DEF TypeOK, Gate!TypeOK, Ruling, fixed, runVars
<1>8. Truthful(e, results[e])' /\ Truthful(e, jobs[e].results)'
  BY <1>0, <1>1, <1>6 DEF JobOK, RowsOK, Truthful, fixed, runVars
<1>9. JobOK(e)' /\ RowsOK(e)'
  BY <1>0, <1>1, <1>3, <1>5, <1>6, <1>8 DEF Create, JobOK, RowsOK, CompletedRow
<1>10. Len(results[e]) <= Len(results'[e])
  BY <1>0, <1>6 DEF TypeOK
<1> QED
  BY <1>1, <1>5, <1>6, <1>7, <1>9, <1>10, RequestStep

LEMMA StartStep == ASSUME IInv, NEW e \in Evaluations, Start(e) PROVE IInv'
<1>0. TypeOK /\ JobOK(e) /\ RowsOK(e) /\ evals[e] \in Row
  BY DEF IInv, TypeOK
<1>1. /\ jobs' \in [Evaluations -> Job]
      /\ jobs'[e].pc = "run" /\ jobs'[e].results = jobs[e].results
      /\ \A d \in Evaluations : d # e => jobs'[d] = jobs[d]
  BY <1>0, ContinueIs DEF Start, Pc
<1> DEFINE row == [evals[e] EXCEPT !.status = "RUNNING"]
<1>3. row \in Row /\ row.status = "RUNNING"
  BY <1>0 DEF Row, Status
<1>4. evals' = [evals EXCEPT ![e] = row]
  BY DEF Start
<1> HIDE DEF row
<1>5. evals' \in [Evaluations -> Row] /\ evals'[e] = row
      /\ \A d \in Evaluations : d # e => evals'[d] = evals[d]
  BY <1>0, <1>3, <1>4 DEF TypeOK
<1>6. UNCHANGED <<fixed, runVars, created, results, earned, faults>>
  BY DEF Start
<1>7. TypeOK'
  BY <1>0, <1>1, <1>5, <1>6 DEF TypeOK, Gate!TypeOK, Ruling, fixed, runVars
<1>8. Truthful(e, results[e])' /\ Truthful(e, jobs[e].results)'
  BY <1>0, <1>1, <1>6 DEF JobOK, RowsOK, Truthful, fixed, runVars
<1>9. Len(jobs[e].results) < Cases /\ jobs[e].results = results[e]
  BY <1>0, ConstantsAssumption DEF Start, JobOK
<1>10. JobOK(e)' /\ RowsOK(e)'
  BY <1>0, <1>1, <1>3, <1>5, <1>6, <1>8, <1>9 DEF JobOK, RowsOK, CompletedRow
<1>11. Len(results[e]) <= Len(results'[e])
  BY <1>0, <1>6 DEF TypeOK
<1> QED
  BY <1>1, <1>5, <1>6, <1>7, <1>10, <1>11, RequestStep

\* The run of the case at hand, or of a blocked case, takes a step.
LEMMA RunStep ==
    ASSUME IInv, NEW r \in Runs, GateStep(r), UNCHANGED <<fixed, rowVars, jobs, faults>>,
           life[r] # "new" \/ \E e \in Evaluations : jobs[e].pc = "run" /\ r = Current(e)
    PROVE  IInv'
<1>0. TypeOK /\ Gate!TypeOK /\ Gate!Promise /\ UNCHANGED kind
  BY DEF IInv, TypeOK, fixed
<1>1. /\ Gate!TypeOK' /\ Gate!Promise'
      /\ \A x \in Runs : x # r => life'[x] = life[x]
      /\ \A x \in Runs : life[x] = "succeeded" => life'[x] = "succeeded"
  BY <1>0, GateKeeps
<1>2. TypeOK'
  BY <1>0, <1>1 DEF TypeOK, fixed, rowVars
<1>3. \A d \in Evaluations : JobOK(d)' /\ RowsOK(d)'
  BY <1>0, <1>1, Untouched DEF IInv, rowVars
<1>4. RunsHaveResults'
  <2> SUFFICES ASSUME NEW d \in Evaluations, NEW i \in 1..Cases, life'[<<d, i>>] # "new"
               PROVE  i <= Len(results[d]) + 1
    BY DEF RunsHaveResults, rowVars
  <2>1. CASE life[<<d, i>>] # "new"
    BY <2>1 DEF IInv, RunsHaveResults
  <2>2. CASE life[<<d, i>>] = "new"
    <3>1. r = <<d, i>>
      BY <1>1, <2>2, ConstantsAssumption DEF Runs
    <3>2. PICK e \in Evaluations : jobs[e].pc = "run" /\ r = Current(e)
      BY <2>2, <3>1
    <3>3. e = d /\ i = Len(jobs[e].results) + 1
      BY <3>1, <3>2 DEF Current
    <3>4. jobs[e].results = results[e]
      BY <3>2 DEF IInv, JobOK
    <3>5. Len(results[d]) \in Nat
      BY <1>0 DEF TypeOK
    <3> QED
      BY <3>3, <3>4, <3>5
  <2> QED
    BY <2>1, <2>2
<1> QED
  BY <1>1, <1>2, <1>3, <1>4 DEF IInv

LEMMA ExecuteCaseStep == ASSUME IInv, NEW e \in Evaluations, ExecuteCase(e) PROVE IInv'
<1>0. TypeOK /\ JobOK(e) /\ RowsOK(e) /\ jobs[e].pc = "run"
  BY DEF IInv, ExecuteCase
<1> DEFINE rs == jobs[e].results
           r == Current(e)
           v == IF life[r] = "succeeded" /\ kind[r].expected THEN "PASSED" ELSE "FAILED"
<1>1. rs \in Seq(Verdict) /\ v \in Verdict /\ rs = results[e] /\ Len(rs) < Cases /\ Truthful(e, rs)
  BY <1>0, JobType DEF Verdict, JobOK
<1>2. r = <<e, Len(rs) + 1>>
  BY DEF Current
<1>3. Become(e, "commit", Append(rs, v)) /\ UNCHANGED <<fixed, runVars, rowVars, faults>>
  BY DEF ExecuteCase
<1>4. v = "PASSED" => life[r] = "succeeded" /\ kind[r].expected
  OBVIOUS
<1> HIDE DEF v, r
<1>5. Append(rs, v) \in Seq(Verdict) /\ Len(Append(rs, v)) = Len(rs) + 1
      /\ Append(rs, v)[Len(rs) + 1] = v
      /\ \A i \in 1..Len(rs) : Append(rs, v)[i] = rs[i]
  BY <1>1
<1>6. /\ jobs' \in [Evaluations -> Job]
      /\ jobs'[e].pc = "commit" /\ jobs'[e].results = Append(rs, v)
      /\ \A d \in Evaluations : d # e => jobs'[d] = jobs[d]
  BY <1>0, <1>3, <1>5, BecomeIs DEF Pc
<1>7. TypeOK'
  BY <1>0, <1>3, <1>6 DEF TypeOK, Gate!TypeOK, Ruling, fixed, runVars, rowVars
<1>8. Truthful(e, Append(rs, v))
  <2>1. Len(rs) \in Nat /\ Cases \in Nat
    BY <1>1, ConstantsAssumption
  <2>2. Len(Append(rs, v)) <= Cases
    BY <2>1, <1>1, <1>5
  <2>3. DOMAIN Append(rs, v) = 1..(Len(rs) + 1) /\ DOMAIN rs = 1..Len(rs)
    BY <1>1, <1>5
  <2>4. ASSUME NEW i \in DOMAIN Append(rs, v), Append(rs, v)[i] = "PASSED"
        PROVE  life[<<e, i>>] = "succeeded" /\ kind[<<e, i>>].expected
    <3>1. CASE i \in DOMAIN rs
      BY <3>1, <2>3, <2>4, <1>1, <1>5 DEF Truthful
    <3>2. CASE i = Len(rs) + 1
      BY <3>2, <2>4, <1>2, <1>4, <1>5
    <3> QED
      BY <3>1, <3>2, <2>1, <2>3
  <2> QED
    BY <2>2, <2>4 DEF Truthful
<1>a. UNCHANGED <<kind, life, results>>
  BY <1>3 DEF fixed, runVars, rowVars
<1>b. Truthful(e, jobs[e].results)'
  BY <1>6, <1>8, <1>a DEF Truthful
<1>c. Truthful(e, results[e])'
  BY <1>0, <1>a DEF Truthful, RowsOK
<1>9. Truthful(e, jobs[e].results)' /\ Truthful(e, results[e])'
  BY <1>b, <1>c
<1>10. JobOK(e)' /\ RowsOK(e)'
  BY <1>0, <1>1, <1>3, <1>5, <1>6, <1>9 DEF JobOK, RowsOK, CompletedRow, rowVars
<1>11. Len(results[e]) <= Len(results'[e])
  BY <1>0, <1>3 DEF TypeOK, rowVars
<1> QED
  BY <1>3, <1>6, <1>7, <1>10, <1>11, RequestStep DEF rowVars

LEMMA CommitResultStep == ASSUME IInv, NEW e \in Evaluations, CommitResult(e) PROVE IInv'
<1>0. TypeOK /\ JobOK(e) /\ RowsOK(e) /\ jobs[e].pc = "commit"
  BY DEF IInv, CommitResult
<1> DEFINE rs == jobs[e].results
           l == IF Len(rs) = Cases THEN "finalize" ELSE "run"
<1>1. rs \in Seq(Verdict) /\ results[e] \in Seq(Verdict) /\ Truthful(e, rs)
  BY <1>0, JobType DEF TypeOK, JobOK
<1>2. rs = Append(results[e], rs[Len(rs)])
  BY <1>0 DEF JobOK
<1>3. Len(rs) = Len(results[e]) + 1 /\ Len(rs) <= Cases
  BY <1>1, <1>2 DEF Truthful
<1>4. /\ jobs' \in [Evaluations -> Job]
      /\ jobs'[e].pc = l /\ jobs'[e].results = rs
      /\ \A d \in Evaluations : d # e => jobs'[d] = jobs[d]
  BY <1>0, ContinueIs DEF CommitResult, Pc
<1>5. results' = [results EXCEPT ![e] = rs]
  BY <1>0, <1>2 DEF CommitResult, TypeOK
<1>6. /\ results' \in [Evaluations -> Seq(Verdict)] /\ results'[e] = rs
      /\ \A d \in Evaluations : d # e => results'[d] = results[d]
  BY <1>0, <1>1, <1>5 DEF TypeOK
<1>7. UNCHANGED <<fixed, runVars, created, evals, earned, faults>>
  BY DEF CommitResult
<1>8. TypeOK'
  BY <1>0, <1>4, <1>6, <1>7 DEF TypeOK, Gate!TypeOK, Ruling, fixed, runVars
<1>9. Truthful(e, jobs[e].results)' /\ Truthful(e, results[e])'
  BY <1>1, <1>4, <1>6, <1>7 DEF Truthful, fixed, runVars
<1>10. ~CompletedRow(evals[e])
  BY <1>0 DEF JobOK
<1>11. Len(rs) < Cases \/ Len(rs) = Cases
  BY <1>1, <1>3, ConstantsAssumption
<1>12. JobOK(e)' /\ RowsOK(e)'
  BY <1>4, <1>6, <1>7, <1>9, <1>10, <1>11 DEF JobOK, RowsOK, CompletedRow
<1>13. Len(results[e]) <= Len(results'[e])
  BY <1>1, <1>3, <1>6
<1> QED
  BY <1>4, <1>6, <1>7, <1>8, <1>12, <1>13, RequestStep

\* The evaluations row is finalised over rs, which are the committed results.
LEMMA FinalizedStep ==
    ASSUME IInv, NEW e \in Evaluations, NEW status \in {"PASSED", "FAILED"},
           NEW rs \in Seq(Verdict), rs = results[e], NEW l \in {"refresh", "done"},
           evals' = [evals EXCEPT ![e] = Finalized(status, rs)], Continue(e, l),
           UNCHANGED <<fixed, runVars, created, results, faults>>, earned' \subseteq Evaluations,
           l = "refresh" => Len(rs) = Cases /\ jobs[e].results = rs,
           status = "PASSED" => Len(rs) = Cases /\ \A i \in 1..Cases : rs[i] = "PASSED"
    PROVE  IInv'
<1>0. TypeOK /\ JobOK(e) /\ RowsOK(e)
  BY DEF IInv
<1>1. /\ jobs' \in [Evaluations -> Job]
      /\ jobs'[e].pc = l /\ jobs'[e].results = jobs[e].results
      /\ \A d \in Evaluations : d # e => jobs'[d] = jobs[d]
  BY <1>0, ContinueIs DEF Pc
<1> DEFINE row == Finalized(status, rs)
<1>2. row \in Row /\ row.status = status /\ row.total = Len(rs)
      /\ row.passed = Cardinality(Passing(rs))
  BY RowType DEF Status
<1> HIDE DEF row
<1>3. evals' \in [Evaluations -> Row] /\ evals'[e] = row
      /\ \A d \in Evaluations : d # e => evals'[d] = evals[d]
  BY <1>0, <1>2 DEF TypeOK, row
<1>4. TypeOK'
  BY <1>0, <1>1, <1>3 DEF TypeOK, Gate!TypeOK, Ruling, fixed, runVars
<1>5. Truthful(e, results[e])' /\ Truthful(e, jobs[e].results)'
  BY <1>0, <1>1 DEF JobOK, RowsOK, Truthful, fixed, runVars
<1>6. CompletedRow(evals[e])'
  BY <1>2, <1>3 DEF CompletedRow
<1>7. JobOK(e)'
  BY <1>1, <1>5, <1>6 DEF JobOK
<1>8. RowsOK(e)'
  BY <1>2, <1>3, <1>5 DEF RowsOK
<1>9. Len(results[e]) <= Len(results'[e])
  BY <1>0 DEF TypeOK
<1> QED
  BY <1>1, <1>3, <1>4, <1>7, <1>8, <1>9, RequestStep

LEMMA FinalizeStep == ASSUME IInv, NEW e \in Evaluations, Finalize(e) PROVE IInv'
<1>0. TypeOK /\ JobOK(e) /\ jobs[e].pc = "finalize"
  BY DEF IInv, Finalize
<1> DEFINE rs == jobs[e].results
           status == IF Cardinality(Passing(rs)) = Len(rs) THEN "PASSED" ELSE "FAILED"
<1>1. rs \in Seq(Verdict) /\ rs = results[e] /\ Len(rs) = Cases
  BY <1>0, JobType DEF JobOK
<1>2. status \in {"PASSED", "FAILED"}
  OBVIOUS
<1>3. status = "PASSED" => \A i \in 1..Cases : rs[i] = "PASSED"
  BY <1>1, AllPassed
<1>4. /\ evals' = [evals EXCEPT ![e] = Finalized(status, rs)] /\ Continue(e, "refresh")
      /\ UNCHANGED <<fixed, runVars, created, results, faults>> /\ earned' \subseteq Evaluations
  BY <1>0 DEF Finalize, TypeOK
<1> HIDE DEF status
<1> QED
  BY <1>1, <1>2, <1>3, <1>4, FinalizedStep

LEMMA RecordFailureStep == ASSUME IInv, NEW e \in Evaluations, RecordFailure(e) PROVE IInv'
<1>1. results[e] \in Seq(Verdict) /\ earned \subseteq Evaluations
  BY DEF IInv, TypeOK
<1> QED
  BY <1>1, FinalizedStep DEF RecordFailure

\* The request goes on, or ends, without a commit.
LEMMA ContinueStep ==
    ASSUME IInv, NEW e \in Evaluations, NEW l \in {"done", "fail", "gone"}, Continue(e, l),
           UNCHANGED <<fixed, runVars, rowVars>>, faults' \in 0..MaxFaults,
           l = "done" => jobs[e].pc = "refresh"
    PROVE  IInv'
<1>0. TypeOK /\ JobOK(e) /\ RowsOK(e)
  BY DEF IInv
<1>1. /\ jobs' \in [Evaluations -> Job]
      /\ jobs'[e].pc = l /\ jobs'[e].results = jobs[e].results
      /\ \A d \in Evaluations : d # e => jobs'[d] = jobs[d]
  BY <1>0, ContinueIs DEF Pc
<1>2. TypeOK'
  BY <1>0, <1>1 DEF TypeOK, Gate!TypeOK, Ruling, fixed, runVars, rowVars
<1>3. Truthful(e, results[e])' /\ Truthful(e, jobs[e].results)'
  BY <1>0, <1>1 DEF JobOK, RowsOK, Truthful, fixed, runVars, rowVars
<1>4. RowsOK(e)'
  BY <1>0, <1>3 DEF RowsOK, CompletedRow, rowVars
<1>5. JobOK(e)'
  BY <1>0, <1>1, <1>3 DEF JobOK, CompletedRow, rowVars
<1>6. Len(results[e]) <= Len(results'[e])
  BY <1>0 DEF TypeOK, rowVars
<1> QED
  BY <1>1, <1>2, <1>4, <1>5, <1>6, RequestStep DEF rowVars

LEMMA Inductive == IInv /\ [Next]_vars => IInv'
<1> SUFFICES ASSUME IInv, [Next]_vars PROVE IInv'
  OBVIOUS
<1>0. TypeOK
  BY DEF IInv
<1>1. ASSUME NEW e \in Evaluations, Proceed(e) PROVE IInv'
  <2>1. CASE ExecuteRun(e)
    <3>1. Current(e) \in Runs
      <4>1. Len(jobs[e].results) \in Nat /\ Len(jobs[e].results) < Cases
        BY <1>0, <2>1, JobType DEF ExecuteRun, IInv, JobOK
      <4> QED
        BY <4>1, ConstantsAssumption DEF Current, Runs
    <3> QED
      BY <2>1, <3>1, RunStep DEF ExecuteRun
  <2>2. CASE Refresh(e)
    <3>1. faults' \in 0..MaxFaults
      BY <1>0, <2>2 DEF Refresh, TypeOK
    <3> QED
      BY <2>2, <3>1, ContinueStep DEF Refresh
  <2> QED
    BY <1>1, <2>1, <2>2, StartStep, ExecuteCaseStep, CommitResultStep, FinalizeStep,
       RecordFailureStep DEF Proceed
<1>2. ASSUME NEW e \in Evaluations, Error(e) \/ Crash(e) PROVE IInv'
  <2>1. faults' \in 0..MaxFaults
    BY <1>0, <1>2, ErrorFree DEF Error, Crash
  <2>2. PICK l \in {"fail", "gone"} : Continue(e, l)
    BY <1>2 DEF Error, Crash
  <2> QED
    BY <1>2, <2>1, <2>2, ContinueStep DEF Error, Crash
<1>3. ASSUME NEW r \in Runs, Review(r) PROVE IInv'
  BY <1>3, RunStep DEF Review
<1>4. CASE UNCHANGED vars
  <2>1. \A d \in Evaluations : JobOK(d)' /\ RowsOK(d)'
    BY <1>0, <1>4, Untouched DEF IInv, vars, fixed, runVars, rowVars
  <2>2. TypeOK' /\ Gate!Promise' /\ RunsHaveResults'
    BY <1>4 DEF IInv, TypeOK, Gate!TypeOK, Gate!Promise, Ruling, RunsHaveResults,
       vars, fixed, runVars, rowVars
  <2> QED
    BY <2>1, <2>2 DEF IInv
<1> QED
  BY <1>1, <1>2, <1>3, <1>4, CreateStep DEF Next

LEMMA InitInv == Init => IInv
<1> SUFFICES ASSUME Init PROVE IInv
  OBVIOUS
<1>1. [pc |-> "idle", results |-> <<>>] \in Job
  BY DEF Job, Pc
<1>2. Gate!TypeOK /\ Gate!Promise
  BY ConstantsAssumption DEF Init, Gate!TypeOK, Gate!Promise, Ruling, Gate!Ruling, Gate!Life
<1>3. TypeOK
  BY <1>1, <1>2, ConstantsAssumption DEF Init, TypeOK, Absent, Row, Status
<1>4. \A e \in Evaluations : JobOK(e) /\ RowsOK(e)
  BY ConstantsAssumption DEF Init, JobOK, RowsOK, Truthful, CompletedRow, Absent
<1>5. RunsHaveResults
  BY DEF Init, RunsHaveResults, Runs
<1> QED
  BY <1>2, <1>3, <1>4, <1>5 DEF IInv

-----------------------------------------------------------------------------
(* The theorems.                                                           *)

\* What a request has in memory agrees with what it has committed, at every
\* point where it may break off (evaluations.py:87-117).
THEOREM InvariantHolds == Spec => []IInv
BY InitInv, Inductive, PTL DEF Spec

\* The rows, the requests and the runs of the cases keep their types.
THEOREM TypeCorrect == Spec => []TypeOK
<1>1. IInv => TypeOK
  BY DEF IInv
<1> QED
  BY <1>1, InvariantHolds, PTL

\* An evaluation is PASSED only when the run of every case has succeeded through
\* its tool, the expected one (evaluations.py:177-179, 223-225).
THEOREM PassedAlwaysEarned == Spec => []PassedIsEarned
<1>1. IInv => PassedIsEarned
  <2> SUFFICES ASSUME IInv, NEW e \in Evaluations, evals[e].status = "PASSED"
               PROVE  /\ Len(results[e]) = Cases
                      /\ \A i \in 1..Cases :
                            /\ results[e][i] = "PASSED"
                            /\ life[<<e, i>>] = "succeeded" /\ calls[<<e, i>>] > 0
                            /\ kind[<<e, i>>].expected
    BY DEF PassedIsEarned
  <2>1. results[e] \in Seq(Verdict) /\ RowsOK(e) /\ Gate!Promise
    BY DEF IInv, TypeOK
  <2>2. Len(results[e]) = Cases /\ \A i \in 1..Cases : results[e][i] = "PASSED"
    BY <2>1 DEF RowsOK
  <2>3. ASSUME NEW i \in 1..Cases
        PROVE  /\ life[<<e, i>>] = "succeeded" /\ calls[<<e, i>>] > 0
               /\ kind[<<e, i>>].expected
    <3>1. life[<<e, i>>] = "succeeded" /\ kind[<<e, i>>].expected
      BY <2>1, <2>2 DEF RowsOK, Truthful
    <3>2. <<e, i>> \in Runs
      BY DEF Runs
    <3> QED
      BY <2>1, <3>1, <3>2 DEF Gate!Promise
  <2> QED
    BY <2>2, <2>3
<1> QED
  BY <1>1, InvariantHolds, PTL

\* Metrics and report always count the committed results (evaluations.py:270-294).
THEOREM ReportAlwaysCounts == Spec => []ReportCountsResults
<1>1. IInv => ReportCountsResults
  BY DEF IInv, RowsOK, CompletedRow, ReportCountsResults
<1> QED
  BY <1>1, InvariantHolds, PTL

\* An executed run has its result, except for the one at which the evaluation is
\* or broke off (evaluations.py:88-97).
THEOREM RunsAlwaysHaveResults == Spec => []RunsHaveResults
<1>1. IInv => RunsHaveResults
  BY DEF IInv
<1> QED
  BY <1>1, InvariantHolds, PTL

\* The run behind a PASSED result stays succeeded, whatever reviewers do later.
THEOREM PassedResultsAlwaysStand == Spec => []PassedResultsStand
<1>1. IInv => PassedResultsStand
  BY DEF IInv, RowsOK, Truthful, PassedResultsStand, Passing
<1> QED
  BY <1>1, InvariantHolds, PTL

-----------------------------------------------------------------------------
(* What the deployment gate sees.  Seen changes only where an evaluation   *)
(* changes its status, at the one index it has in created, and an          *)
(* evaluation is overturned only by the request of one that had failed     *)
(* after its outcome was committed: one fault for each.                    *)

CreatedOK ==
    /\ \A i \in DOMAIN created :
          jobs[created[i]].pc # "idle" /\ evals[created[i]].status # "ABSENT"
    /\ \A i, j \in DOMAIN created : created[i] = created[j] => i = j
EarnedOK ==
    \A e \in Evaluations :
        /\ e \in earned => CompletedRow(evals[e])
        /\ evals[e].status = "PASSED" => e \in earned
Broken == {e \in Evaluations : jobs[e].pc = "fail"} \cup Overturned
BrokenOK == Cardinality(Broken) <= faults
SInv == IInv /\ CreatedOK /\ EarnedOK /\ BrokenOK

LEMMA InitSInv == Init => SInv /\ Seen = <<>>
<1> SUFFICES ASSUME Init PROVE SInv /\ Seen = <<>>
  OBVIOUS
<1>1. IInv /\ created = <<>> /\ earned = {} /\ faults = 0
  BY InitInv DEF Init
<1>2. CreatedOK
  BY <1>1 DEF CreatedOK
<1>3. EarnedOK
  BY <1>1 DEF Init, EarnedOK, Absent
<1>4. BrokenOK
  <2>1. Broken = {}
    BY <1>1 DEF Init, Broken, Overturned
  <2> QED
    BY <1>1, <2>1, FS_EmptySet DEF BrokenOK
<1>5. Seen = <<>>
  BY <1>1 DEF Seen
<1> QED
  BY <1>1, <1>2, <1>3, <1>4, <1>5 DEF SInv

LEMMA BrokenFinite ==
    ASSUME TypeOK
    PROVE  /\ IsFiniteSet(Broken) /\ Cardinality(Broken) \in Nat
           /\ IsFiniteSet(Overturned) /\ Cardinality(Overturned) \in Nat
<1>1. Broken \subseteq Evaluations /\ Overturned \subseteq Evaluations
  BY DEF Broken, Overturned, TypeOK
<1> QED
  BY <1>1, FS_Subset, FS_CardinalityType, ConstantsAssumption

\* An evaluation not created yet leaves room for one more.
LEMMA RoomForOne ==
    ASSUME TypeOK, CreatedOK, NEW e \in Evaluations, \A i \in DOMAIN created : created[i] # e
    PROVE  Len(created) < Cardinality(Evaluations)
<1> DEFINE others == Evaluations \ {e}
           n == Len(created)
<1>1. n \in Nat /\ DOMAIN created = 1..n /\ created \in [1..n -> others]
  BY DEF TypeOK
<1>2. /\ IsFiniteSet(others) /\ Cardinality(others) = Cardinality(Evaluations) - 1
      /\ Cardinality(Evaluations) \in Nat
  BY FS_RemoveElement, FS_CardinalityType, ConstantsAssumption
<1>3. created \in Injection(1..n, others)
  BY <1>1 DEF CreatedOK, Injection, IsInjective
<1>4. Cardinality(1..n) <= Cardinality(others)
  BY <1>2, <1>3, FS_Injection
<1> QED
  BY <1>1, <1>2, <1>4, UpTo

LEMMA SeenKept ==
    ASSUME TypeOK, UNCHANGED <<version, created, evals, earned>>
    PROVE  Seen' = Seen /\ Overturned' = Overturned
<1>1. Overturned' = Overturned
  BY DEF Overturned
<1> QED
  BY <1>1 DEF Seen, SeenRow, SeenStatus

\* One evaluation gets another status.
LEMMA SeenMoves ==
    ASSUME TypeOK, CreatedOK, NEW e \in Evaluations, NEW st, UNCHANGED <<version, created>>,
           SeenStatus(e)' = st,
           \A d \in Evaluations : d # e => evals'[d] = evals[d] /\ (d \in earned' <=> d \in earned)
    PROVE  /\ \A i \in DOMAIN created : created[i] = e => Seen' = [Seen EXCEPT ![i].status = st]
           /\ (\A i \in DOMAIN created : created[i] # e) => Seen' = Seen
<1>1. \A d \in Evaluations : d # e => SeenStatus(d)' = SeenStatus(d)
  BY DEF SeenStatus, Overturned
<1>2. \A i \in DOMAIN created : created[i] \in Evaluations
  BY DEF TypeOK
<1>3. \A i \in DOMAIN created : Seen[i] = SeenRow(created[i])
  BY DEF Seen
<1>4. \A i \in DOMAIN created :
         Seen'[i] = [version |-> version[created[i]], config |-> 0,
                     status |-> IF created[i] = e THEN st ELSE SeenStatus(created[i])]
  BY <1>1, <1>2 DEF Seen, SeenRow
<1>5. Seen = [i \in DOMAIN created |-> SeenRow(created[i])]
      /\ Seen' = [i \in DOMAIN created |-> Seen'[i]]
  BY DEF Seen
<1>6. ASSUME NEW i \in DOMAIN created, created[i] = e PROVE Seen' = [Seen EXCEPT ![i].status = st]
  <2>1. \A j \in DOMAIN created : j # i => Seen'[j] = Seen[j]
    BY <1>2, <1>3, <1>4, <1>6 DEF CreatedOK, SeenRow
  <2>2. Seen'[i] = [Seen[i] EXCEPT !.status = st]
    <3>1. Seen[i] = [version |-> version[e], config |-> 0, status |-> SeenStatus(e)]
      BY <1>3, <1>6 DEF SeenRow
    <3>2. Seen'[i] = [version |-> version[e], config |-> 0, status |-> st]
      BY <1>4, <1>6
    <3> QED
      BY <3>1, <3>2
  <2> QED
    BY <1>5, <2>1, <2>2
<1>7. ASSUME \A i \in DOMAIN created : created[i] # e PROVE Seen' = Seen
  BY <1>3, <1>4, <1>5, <1>7 DEF SeenRow
<1> QED
  BY <1>6, <1>7

LEMMA CreateSeen ==
    ASSUME SInv, NEW e \in Evaluations, Create(e)
    PROVE  View!Evaluate /\ CreatedOK' /\ EarnedOK' /\ Broken' = Broken
<1>0. /\ TypeOK /\ CreatedOK /\ EarnedOK /\ JobOK(e) /\ jobs[e].pc = "idle"
      /\ evals[e] \in Row /\ created \in Seq(Evaluations) /\ e \notin earned
  BY DEF SInv, IInv, TypeOK, EarnedOK, JobOK, Create
<1>1. /\ jobs'[e].pc = "start" /\ \A d \in Evaluations : d # e => jobs'[d] = jobs[d]
  BY <1>0, ContinueIs DEF Create, Pc
<1>2. /\ evals'[e].status = "PENDING" /\ \A d \in Evaluations : d # e => evals'[d] = evals[d]
      /\ UNCHANGED <<version, earned>> /\ created' = Append(created, e)
  BY <1>0 DEF Create, TypeOK, Row, fixed
<1>3. \A i \in DOMAIN created : created[i] # e
  BY <1>0 DEF CreatedOK
<1> DEFINE n == Len(created)
<1>4. /\ n \in Nat /\ DOMAIN created = 1..n /\ DOMAIN created' = 1..(n + 1)
      /\ created'[n + 1] = e /\ \A i \in 1..n : created'[i] = created[i] /\ created[i] \in Evaluations
  BY <1>0, <1>2
<1>5. Overturned' = Overturned
  BY <1>0, <1>2 DEF Overturned, TypeOK
<1>6. Broken' = Broken
  BY <1>0, <1>1, <1>5 DEF Broken
<1>7. CreatedOK'
  BY <1>0, <1>1, <1>2, <1>3, <1>4 DEF CreatedOK
<1>8. EarnedOK'
  BY <1>0, <1>2 DEF EarnedOK, CompletedRow
<1> DEFINE row == [version |-> version[e], config |-> 0, status |-> "RUNNING"]
<1>9. Seen' = Append(Seen, row)
  <2>1. \A d \in Evaluations : d # e => SeenStatus(d)' = SeenStatus(d)
    BY <1>2, <1>5 DEF SeenStatus
  <2>2. \A i \in 1..n : Seen'[i] = Seen[i]
    <3> TAKE i \in 1..n
    <3>1. created'[i] = created[i] /\ created[i] \in Evaluations /\ created[i] # e /\ i \in DOMAIN created'
          /\ i \in DOMAIN created
      BY <1>3, <1>4
    <3>2. Seen[i] = [version |-> version[created[i]], config |-> 0, status |-> SeenStatus(created[i])]
      BY <3>1 DEF Seen, SeenRow
    <3>3. Seen'[i] = [version |-> version[created[i]], config |-> 0, status |-> SeenStatus(created[i])]
      BY <1>2, <2>1, <3>1 DEF Seen, SeenRow
    <3> QED
      BY <3>2, <3>3
  <2>3. Seen'[n + 1] = row
    <3>1. SeenStatus(e)' = "RUNNING"
      BY <1>2 DEF SeenStatus, Overturned
    <3>2. n + 1 \in DOMAIN created' /\ created'[n + 1] = e
      BY <1>4
    <3>3. Seen'[n + 1] = [version |-> version'[e], config |-> 0, status |-> SeenStatus(e)']
      BY <3>2 DEF Seen, SeenRow
    <3> QED
      BY <1>2, <3>1, <3>3
  <2>4. Seen = [i \in 1..n |-> Seen[i]] /\ Seen' = [i \in 1..(n + 1) |-> Seen'[i]]
    BY <1>4 DEF Seen
  <2>5. Append(Seen, row) = [i \in 1..(n + 1) |-> IF i = n + 1 THEN row ELSE Seen[i]]
    BY <1>4, <2>4
  <2> HIDE DEF row
  <2>6. \A i \in 1..(n + 1) : Seen'[i] = IF i = n + 1 THEN row ELSE Seen[i]
    BY <1>4, <2>2, <2>3
  <2> QED
    BY <2>4, <2>5, <2>6
<1>10. Len(Seen) < Cardinality(Evaluations)
  <2>1. Len(Seen) = n
    BY <1>4 DEF Seen
  <2> QED
    BY <1>0, <1>3, <2>1, RoomForOne
<1>11. version[e] \in Versions
  BY <1>0 DEF TypeOK
<1>12. View!StartEvaluation(version[e])
  BY <1>5, <1>9, <1>10, <1>11 DEF View!StartEvaluation, Draft
<1> QED
  BY <1>6, <1>7, <1>8, <1>11, <1>12 DEF View!Evaluate

\* The status of one evaluation moves, as the gate sees it.
LEMMA StatusSeen ==
    ASSUME TypeOK, CreatedOK, NEW e \in Evaluations, UNCHANGED <<version, created>>,
           \A d \in Evaluations : d # e => evals'[d] = evals[d] /\ (d \in earned' <=> d \in earned),
           NEW st, SeenStatus(e)' = st,
           \/ st = SeenStatus(e)
           \/ /\ SeenStatus(e) = "RUNNING" /\ st \in {"PASSED", "FAILED"}
              /\ Overturned' = Overturned
           \/ /\ SeenStatus(e) = "PASSED" /\ st = "OVERTURNED"
              /\ Cardinality(Overturned) < MaxFaults
              /\ Cardinality(Overturned)' = Cardinality(Overturned) + 1
    PROVE  View!Evaluate \/ Seen' = Seen
<1>1. CASE \A i \in DOMAIN created : created[i] # e
  BY <1>1, SeenMoves
<1>2. ASSUME NEW i \in DOMAIN created, created[i] = e PROVE View!Evaluate \/ Seen' = Seen
  <2>1. Seen' = [Seen EXCEPT ![i].status = st]
    BY <1>2, SeenMoves
  <2>2. i \in DOMAIN Seen /\ Seen[i] = SeenRow(e) /\ Seen[i].status = SeenStatus(e)
    BY <1>2 DEF Seen, SeenRow
  <2>3. CASE st = SeenStatus(e)
    <3>1. [Seen EXCEPT ![i].status = st] = Seen
      <4>1. [Seen[i] EXCEPT !.status = st] = Seen[i]
        BY <2>2, <2>3 DEF SeenRow
      <4>2. Seen = [j \in DOMAIN created |-> Seen[j]]
        BY DEF Seen
      <4> QED
        BY <2>2, <4>1, <4>2
    <3> QED
      BY <2>1, <3>1
  <2>4. CASE SeenStatus(e) = "RUNNING" /\ st \in {"PASSED", "FAILED"} /\ Overturned' = Overturned
    <3>1. View!FinishEvaluation(i, st)
      BY <2>1, <2>2, <2>4 DEF View!FinishEvaluation
    <3> QED
      BY <2>2, <2>4, <3>1 DEF View!Evaluate
  <2>5. CASE /\ SeenStatus(e) = "PASSED" /\ st = "OVERTURNED"
             /\ Cardinality(Overturned) < MaxFaults
             /\ Cardinality(Overturned)' = Cardinality(Overturned) + 1
    <3>1. View!OverturnEvaluation(i)
      BY <2>1, <2>2, <2>5 DEF View!OverturnEvaluation
    <3> QED
      BY <2>2, <3>1 DEF View!Evaluate
  <2> QED
    BY <2>3, <2>4, <2>5
<1> QED
  BY <1>1, <1>2

\* What is left to show of a step on one evaluation for the invariant.
LEMMA BrokenShrinks ==
    ASSUME SInv, TypeOK', Broken' \subseteq Broken, faults <= faults', faults' \in Nat
    PROVE  BrokenOK'
<1>1. IsFiniteSet(Broken) /\ Cardinality(Broken) \in Nat /\ Cardinality(Broken) <= faults /\ faults \in Nat
  BY BrokenFinite, ConstantsAssumption DEF SInv, BrokenOK, IInv, TypeOK
<1>2. IsFiniteSet(Broken') /\ Cardinality(Broken') \in Nat /\ Cardinality(Broken') <= Cardinality(Broken)
  BY <1>1, FS_Subset, FS_CardinalityType
<1> QED
  BY <1>1, <1>2 DEF BrokenOK

\* The rest of the invariant after a step of the request of e that creates nothing.
LEMMA GhostsKept ==
    ASSUME SInv, TypeOK', NEW e \in Evaluations, UNCHANGED created,
           jobs'[e].pc # "idle",
           evals[e].status = "ABSENT" \/ evals'[e].status # "ABSENT",
           \A d \in Evaluations : d # e =>
                /\ jobs'[d] = jobs[d] /\ evals'[d] = evals[d]
                /\ (d \in earned' <=> d \in earned),
           e \in earned' => CompletedRow(evals'[e]),
           evals'[e].status = "PASSED" => e \in earned'
    PROVE  CreatedOK' /\ EarnedOK'
<1>1. \A i \in DOMAIN created : created[i] \in Evaluations
  BY DEF SInv, IInv, TypeOK
<1>2. CreatedOK'
  BY <1>1 DEF SInv, CreatedOK
<1>3. EarnedOK'
  BY DEF SInv, EarnedOK, CompletedRow
<1> QED
  BY <1>2, <1>3

\* Steps that change no status and no outcome.
LEMMA QuietSeen ==
    ASSUME SInv, TypeOK', NEW e \in Evaluations, UNCHANGED <<version, created, evals, earned>>,
           jobs[e].pc # "idle", jobs'[e].pc # "idle",
           \A d \in Evaluations : d # e => jobs'[d] = jobs[d],
           \/ jobs'[e].pc # "fail" /\ faults <= faults'
           \/ jobs[e].pc = "fail" /\ faults <= faults'
           \/ faults' = faults + 1
    PROVE  CreatedOK' /\ EarnedOK' /\ BrokenOK' /\ Seen' = Seen
<1>0. TypeOK /\ faults \in Nat /\ faults' \in Nat
  BY ConstantsAssumption DEF SInv, IInv, TypeOK
<1>1. Seen' = Seen /\ Overturned' = Overturned
  BY <1>0, SeenKept
<1>2. CreatedOK' /\ EarnedOK'
  BY GhostsKept DEF SInv, EarnedOK
<1>3. CASE (jobs'[e].pc # "fail" \/ jobs[e].pc = "fail") /\ faults <= faults'
  <2>1. Broken' \subseteq Broken
    BY <1>1, <1>3 DEF Broken
  <2> QED
    BY <1>0, <1>1, <1>2, <1>3, <2>1, BrokenShrinks
<1>4. CASE faults' = faults + 1
  <2>1. Broken' \subseteq Broken \cup {e}
    BY <1>1 DEF Broken
  <2>b. IsFiniteSet(Broken) /\ Cardinality(Broken) \in Nat
    BY <1>0, BrokenFinite
  <2>2. /\ IsFiniteSet(Broken \cup {e})
        /\ Cardinality(Broken \cup {e}) = IF e \in Broken THEN Cardinality(Broken)
                                                         ELSE Cardinality(Broken) + 1
    BY <2>b, FS_AddElement
  <2>3. Cardinality(Broken') <= Cardinality(Broken \cup {e})
    BY <2>1, <2>2, FS_Subset
  <2>c. Cardinality(Broken') \in Nat
    BY <2>1, <2>2, FS_Subset, FS_CardinalityType
  <2>4. Cardinality(Broken) <= faults
    BY DEF SInv, BrokenOK
  <2>5. Cardinality(Broken') <= faults'
    BY <1>0, <1>4, <2>b, <2>2, <2>3, <2>c, <2>4
  <2> QED
    BY <1>1, <1>2, <2>5 DEF BrokenOK
<1> QED
  BY <1>1, <1>2, <1>3, <1>4

\* The outcome of an evaluation is committed: once by its request, and once more,
\* as FAILED, when the request then fails.
LEMMA OutcomeSeen ==
    ASSUME SInv, TypeOK', NEW e \in Evaluations, NEW row \in Row, NEW st \in {"PASSED", "FAILED"},
           row.status = st,
           evals' = [evals EXCEPT ![e] = row], UNCHANGED <<version, created, faults>>,
           jobs[e].pc # "idle", jobs'[e].pc \notin {"idle", "fail"},
           \A d \in Evaluations : d # e => jobs'[d] = jobs[d],
           earned' = IF st = "PASSED" THEN earned \cup {e} ELSE earned,
           ~CompletedRow(evals[e]) \/ (jobs[e].pc = "fail" /\ st = "FAILED")
    PROVE  CreatedOK' /\ EarnedOK' /\ BrokenOK' /\ (View!Evaluate \/ Seen' = Seen)
<1>0. /\ TypeOK /\ CreatedOK /\ EarnedOK /\ faults \in Nat /\ faults <= MaxFaults /\ MaxFaults \in Nat
      /\ evals \in [Evaluations -> Row]
  BY ConstantsAssumption DEF SInv, IInv, TypeOK
<1>1. evals'[e] = row /\ \A d \in Evaluations : d # e => evals'[d] = evals[d]
  BY <1>0
<1>2. \A d \in Evaluations : d # e => (d \in earned' <=> d \in earned)
  OBVIOUS
<1>3. CreatedOK' /\ EarnedOK'
  <2>1. e \in earned' => CompletedRow(evals'[e])
    BY <1>1 DEF CompletedRow
  <2>2. evals'[e].status = "PASSED" => e \in earned'
    BY <1>1
  <2>3. evals'[e].status # "ABSENT"
    BY <1>1
  <2> QED
    BY <1>1, <1>2, <2>1, <2>2, <2>3, GhostsKept
<1>4. CASE ~CompletedRow(evals[e])
  <2>1. e \notin earned /\ e \notin Overturned
    BY <1>0, <1>4 DEF EarnedOK, Overturned
  <2>2. Overturned' = Overturned
    BY <1>1, <2>1 DEF Overturned
  <2>3. Broken' \subseteq Broken
    BY <2>2 DEF Broken
  <2>4. BrokenOK'
    BY <1>0, <2>3, BrokenShrinks
  <2>5. SeenStatus(e)' = st
    BY <1>1, <2>1, <2>2 DEF SeenStatus, Overturned
  <2>6. evals[e].status \in Status /\ evals[e].status \notin {"PASSED", "FAILED"}
    BY <1>0, <1>4 DEF Row, CompletedRow
  <2>7. CASE evals[e].status # "ABSENT"
    <3>1. SeenStatus(e) = "RUNNING"
      BY <2>1, <2>6, <2>7 DEF SeenStatus, Status
    <3> QED
      BY <1>0, <1>1, <1>2, <1>3, <2>2, <2>4, <2>5, <3>1, StatusSeen
  <2>8. CASE evals[e].status = "ABSENT"
    <3>1. \A i \in DOMAIN created : created[i] # e
      BY <1>0, <2>8 DEF CreatedOK
    <3>2. Seen' = Seen
      BY <1>0, <1>1, <1>2, <2>5, <3>1, SeenMoves
    <3> QED
      BY <1>3, <2>4, <3>2
  <2> QED
    BY <2>7, <2>8
<1>5. CASE CompletedRow(evals[e])
  <2>1. jobs[e].pc = "fail" /\ st = "FAILED" /\ earned' = earned /\ e \in Broken
    BY <1>5 DEF Broken
  <2>2. Overturned' = IF e \in earned THEN Overturned \cup {e} ELSE Overturned
    BY <1>1, <2>1 DEF Overturned
  <2>3. Broken' \subseteq Broken
    BY <2>1, <2>2 DEF Broken
  <2>4. BrokenOK'
    BY <1>0, <2>3, BrokenShrinks
  <2>5. CASE evals[e].status = "PASSED"
    <3>1. e \in earned /\ e \notin Overturned
      BY <1>0, <2>5 DEF EarnedOK, Overturned
    <3>2. SeenStatus(e) = "PASSED"
      BY <2>5, <3>1 DEF SeenStatus
    <3>3. SeenStatus(e)' = "OVERTURNED"
      BY <1>1, <2>1, <2>2, <3>1 DEF SeenStatus
    <3>4. /\ IsFiniteSet(Overturned) /\ Cardinality(Overturned) \in Nat
          /\ IsFiniteSet(Broken) /\ Cardinality(Broken) \in Nat
      BY <1>0, BrokenFinite
    <3>5. Cardinality(Overturned \cup {e}) = Cardinality(Overturned) + 1
      BY <3>1, <3>4, FS_AddElement
    <3>6. Cardinality(Overturned)' = Cardinality(Overturned) + 1
      BY <2>2, <3>1, <3>5
    <3>7. Overturned \cup {e} \subseteq Broken
      BY <2>1 DEF Broken
    <3>8. Cardinality(Overturned \cup {e}) <= Cardinality(Broken)
      BY <3>4, <3>7, FS_Subset
    <3>9. Cardinality(Broken) <= faults
      BY DEF SInv, BrokenOK
    <3>10. Cardinality(Overturned) < MaxFaults
      BY <1>0, <3>4, <3>5, <3>8, <3>9
    <3> QED
      BY <1>0, <1>1, <1>2, <1>3, <2>4, <3>2, <3>3, <3>6, <3>10, StatusSeen
  <2>6. CASE evals[e].status = "FAILED"
    <3>1. SeenStatus(e)' = SeenStatus(e)
      BY <1>1, <2>1, <2>2, <2>6 DEF SeenStatus, Overturned
    <3> QED
      BY <1>0, <1>1, <1>2, <1>3, <2>4, <3>1, StatusSeen
  <2> QED
    BY <1>5, <2>5, <2>6 DEF CompletedRow
<1> QED
  BY <1>4, <1>5

LEMMA SeenStep ==
    ASSUME SInv, [Next]_vars
    PROVE  CreatedOK' /\ EarnedOK' /\ BrokenOK' /\ (View!Evaluate \/ Seen' = Seen)
<1>0. /\ TypeOK /\ TypeOK' /\ BrokenOK
      /\ \A e \in Evaluations : JobOK(e) /\ evals[e] \in Row /\ results[e] \in Seq(Verdict)
  BY Inductive DEF SInv, IInv, TypeOK
<1>n. faults \in Nat /\ faults' \in Nat
  BY <1>0, ConstantsAssumption DEF TypeOK
<1>1. ASSUME NEW e \in Evaluations, Create(e)
      PROVE  CreatedOK' /\ EarnedOK' /\ BrokenOK' /\ View!Evaluate
  <2>1. faults' = faults /\ Broken' = Broken
    BY <1>1, CreateSeen DEF Create
  <2>2. BrokenOK'
    BY <1>0, <1>n, <2>1, BrokenShrinks
  <2> QED
    BY <1>1, <2>2, CreateSeen
\* The request goes on to l, all rows but its results unchanged.
<1>2. ASSUME NEW e \in Evaluations, NEW l \in Pc \ {"idle"}, NEW rs \in Seq(Verdict),
             Become(e, l, rs), jobs[e].pc # "idle",
             UNCHANGED <<fixed, created, evals, earned>>,
             \/ l # "fail" /\ faults <= faults'
             \/ faults' = faults + 1
      PROVE  CreatedOK' /\ EarnedOK' /\ BrokenOK' /\ Seen' = Seen
  <2>1. jobs'[e].pc = l /\ \A d \in Evaluations : d # e => jobs'[d] = jobs[d]
    BY <1>0, <1>2, BecomeIs
  <2> QED
    BY <1>0, <1>2, <2>1, QuietSeen DEF fixed
<1>3. ASSUME NEW e \in Evaluations, NEW row \in Row, NEW st \in {"PASSED", "FAILED"},
             NEW l \in {"refresh", "done"}, row.status = st, Continue(e, l),
             evals' = [evals EXCEPT ![e] = row], UNCHANGED <<fixed, created, faults>>,
             jobs[e].pc # "idle",
             earned' = IF st = "PASSED" THEN earned \cup {e} ELSE earned,
             ~CompletedRow(evals[e]) \/ (jobs[e].pc = "fail" /\ st = "FAILED")
      PROVE  CreatedOK' /\ EarnedOK' /\ BrokenOK' /\ (View!Evaluate \/ Seen' = Seen)
  <2>1. jobs'[e].pc = l /\ \A d \in Evaluations : d # e => jobs'[d] = jobs[d]
    BY <1>0, <1>3, ContinueIs DEF Pc
  <2> QED
    BY <1>0, <1>3, <2>1, OutcomeSeen DEF fixed
<1>4. ASSUME NEW e \in Evaluations, Proceed(e)
      PROVE  CreatedOK' /\ EarnedOK' /\ BrokenOK' /\ (View!Evaluate \/ Seen' = Seen)
  <2>j. jobs[e].results \in Seq(Verdict) /\ JobOK(e)
    BY <1>0, JobType
  <2>1. CASE Start(e)
    <3> DEFINE row == [evals[e] EXCEPT !.status = "RUNNING"]
    <3>1. jobs[e].pc = "start" /\ jobs'[e].pc = "run" /\ \A d \in Evaluations : d # e => jobs'[d] = jobs[d]
      BY <1>0, <2>1, ContinueIs DEF Start, Pc
    <3>2. /\ evals'[e].status = "RUNNING" /\ \A d \in Evaluations : d # e => evals'[d] = evals[d]
          /\ UNCHANGED <<version, created, earned, faults>>
      BY <1>0, <2>1 DEF Start, TypeOK, Row, fixed
    <3>3. ~CompletedRow(evals[e]) /\ e \notin earned /\ e \notin Overturned
      BY <2>j, <3>1 DEF JobOK, SInv, EarnedOK, Overturned
    <3>4. Overturned' = Overturned
      BY <1>0, <3>2, <3>3 DEF Overturned, TypeOK
    <3>5. Broken' \subseteq Broken
      BY <3>1, <3>4 DEF Broken
    <3>6. BrokenOK'
      BY <1>0, <1>n, <3>2, <3>5, BrokenShrinks
    <3>7. CreatedOK' /\ EarnedOK'
      BY <1>0, <3>1, <3>2, <3>3, GhostsKept
    <3>8. SeenStatus(e)' = "RUNNING"
      BY <3>2, <3>3, <3>4 DEF SeenStatus, Overturned
    <3>9. CASE evals[e].status = "ABSENT"
      <4>1. \A i \in DOMAIN created : created[i] # e
        BY <3>9 DEF SInv, CreatedOK
      <4>2. Seen' = Seen
        BY <1>0, <3>2, <3>8, <4>1, SeenMoves DEF SInv
      <4> QED
        BY <3>6, <3>7, <4>2
    <3>10. CASE evals[e].status # "ABSENT"
      <4>1. evals[e].status \in {"PENDING", "RUNNING"}
        BY <1>0, <3>3, <3>10 DEF Row, Status, CompletedRow
      <4>2. SeenStatus(e) = "RUNNING"
        BY <3>3, <4>1 DEF SeenStatus, Overturned
      <4>3. View!Evaluate \/ Seen' = Seen
        BY <1>0, <3>2, <3>8, <4>2, StatusSeen DEF SInv
      <4> QED
        BY <3>6, <3>7, <4>3
    <3> QED
      BY <3>9, <3>10
  <2>2. CASE ExecuteRun(e)
    <3>1. /\ jobs[e].pc = "run" /\ jobs' = jobs
          /\ UNCHANGED <<version, created, evals, earned, faults>>
      BY <2>2 DEF ExecuteRun, fixed, rowVars
    <3> QED
      BY <1>0, <1>n, <3>1, QuietSeen
  <2>3. CASE ExecuteCase(e)
    <3>1. PICK v \in Verdict : Become(e, "commit", Append(jobs[e].results, v))
      BY <2>3 DEF ExecuteCase, Verdict
    <3> DEFINE rs == Append(jobs[e].results, v)
    <3>2. rs \in Seq(Verdict) /\ Become(e, "commit", rs)
      BY <2>j, <3>1
    <3> HIDE DEF rs
    <3>3. jobs[e].pc = "run" /\ UNCHANGED <<fixed, created, evals, earned, faults>>
      BY <2>3 DEF ExecuteCase, rowVars
    <3> QED
      BY <1>n, <1>2, <3>2, <3>3 DEF Pc
  <2>4. CASE CommitResult(e)
    <3>1. PICK l \in {"finalize", "run"} : Continue(e, l)
      BY <2>4 DEF CommitResult
    <3>3. jobs[e].pc = "commit" /\ UNCHANGED <<fixed, created, evals, earned, faults>>
      BY <2>4 DEF CommitResult
    <3> QED
      BY <1>n, <1>2, <2>j, <3>1, <3>3 DEF Continue, Pc
  <2>5. CASE Finalize(e)
    <3> DEFINE rs == jobs[e].results
               st == IF Cardinality(Passing(rs)) = Len(rs) THEN "PASSED" ELSE "FAILED"
               row == Finalized(st, rs)
    <3>1. st \in {"PASSED", "FAILED"} /\ row \in Row /\ row.status = st
      BY <2>j, RowType DEF Status
    <3>2. jobs[e].pc = "finalize" /\ ~CompletedRow(evals[e])
      BY <2>j, <2>5 DEF Finalize, JobOK
    <3>3. /\ evals' = [evals EXCEPT ![e] = row] /\ Continue(e, "refresh")
          /\ earned' = IF st = "PASSED" THEN earned \cup {e} ELSE earned
          /\ UNCHANGED <<fixed, created, faults>>
      BY <2>5, Zenon DEF Finalize
    <3> HIDE DEF row, st
    <3> QED
      BY <3>1, <3>2, <3>3, <1>3
  <2>6. CASE Refresh(e)
    <3>1. jobs[e].pc = "refresh" /\ UNCHANGED <<fixed, created, evals, earned, faults>>
      BY <2>6 DEF Refresh, rowVars
    <3> QED
      BY <1>n, <1>2, <2>j, <2>6, <3>1 DEF Refresh, Continue, Pc
  <2>7. CASE RecordFailure(e)
    <3> DEFINE row == Finalized("FAILED", results[e])
    <3>1. row \in Row /\ row.status = "FAILED"
      BY <1>0, RowType DEF Status
    <3>2. /\ jobs[e].pc = "fail" /\ evals' = [evals EXCEPT ![e] = row] /\ Continue(e, "done")
          /\ UNCHANGED <<fixed, created, earned, faults>>
      BY <2>7, Zenon DEF RecordFailure
    <3> HIDE DEF row
    <3>3. earned' = IF "FAILED" = "PASSED" THEN earned \cup {e} ELSE earned
      BY <3>2
    <3> QED
      BY <3>1, <3>2, <3>3, <1>3
  <2> QED
    BY <1>4, <2>1, <2>2, <2>3, <2>4, <2>5, <2>6, <2>7 DEF Proceed
<1>5. ASSUME NEW e \in Evaluations, Error(e) \/ Crash(e)
      PROVE  CreatedOK' /\ EarnedOK' /\ BrokenOK' /\ Seen' = Seen
  <2>1. PICK l \in {"fail", "gone"} : Continue(e, l)
    BY <1>5 DEF Error, Crash
  <2>2. /\ jobs[e].pc # "idle" /\ faults' = faults + 1
        /\ UNCHANGED <<fixed, created, evals, earned>>
    BY <1>5 DEF Error, Crash, InTry, Fault, rowVars
  <2>3. jobs[e].results \in Seq(Verdict)
    BY <1>0, JobType
  <2> QED
    BY <1>2, <2>1, <2>2, <2>3 DEF Continue, Pc
<1>6. ASSUME UNCHANGED <<version, created, evals, earned, jobs, faults>>
      PROVE  CreatedOK' /\ EarnedOK' /\ BrokenOK' /\ Seen' = Seen
  <2>1. Seen' = Seen /\ Overturned' = Overturned
    BY <1>0, <1>6, SeenKept
  <2>2. Broken' = Broken
    BY <1>6, <2>1 DEF Broken
  <2>3. BrokenOK'
    BY <1>0, <1>6, <1>n, <2>2, BrokenShrinks
  <2>4. CreatedOK' /\ EarnedOK'
    BY <1>6 DEF SInv, CreatedOK, EarnedOK
  <2> QED
    BY <2>1, <2>3, <2>4
<1>7. ASSUME NEW r \in Runs, Review(r)
      PROVE  CreatedOK' /\ EarnedOK' /\ BrokenOK' /\ Seen' = Seen
  BY <1>6, <1>7 DEF Review, fixed, rowVars
<1>8. CASE UNCHANGED vars
  BY <1>6, <1>8 DEF vars, fixed, rowVars
<1> QED
  BY <1>1, <1>4, <1>5, <1>7, <1>8 DEF Next

\* Deployment's view of evaluations is what EvaluationService does: they start,
\* pass or fail once, and are overturned only by a fault (evaluations.py:63-117).
THEOREM EvaluationsActAsSeen == Spec => EvaluatesAsSeen
<1>1. SInv /\ [Next]_vars => SInv'
  BY Inductive, SeenStep DEF SInv
<1>2. SInv /\ [Next]_vars => [View!Evaluate]_Seen
  BY SeenStep
<1> QED
  BY <1>1, <1>2, InitSInv, PTL DEF Spec, EvaluatesAsSeen
=============================================================================
