---------------------- MODULE RunExecution_refinement ----------------------
(***************************************************************************)
(* RunExecution implements GatedCall, as long as the read after the commit *)
(* of execute_run does not fail: proof, for any number of runs, sessions,  *)
(* workers and faults of the other kinds.                                  *)
(***************************************************************************)
EXTENDS RunExecution_proofs

\* What the inductive invariant lacks: without the failing read a run that is
\* about to be marked FAILED is still RUNNING, and a run is committed BLOCKED
\* without a request only when the policy denies its call.
FailOK == \A p \in Sessions : sess[p].pc = "fail" => db[sess[p].run].status = "RUNNING"
DenyOK ==
    \A p \in Sessions :
        sess[p].pc = "commit" /\ sess[p].op = "execute"
        /\ sess[p].view.status = "BLOCKED" /\ sess[p].view.approval = "NONE"
        => Decision(request[sess[p].run]) = "DENY"
RInv == IInv /\ FailOK /\ DenyOK

LEMMA InitRInv == Init => RInv
<1> SUFFICES ASSUME Init PROVE RInv
  OBVIOUS
<1>1. \A p \in Sessions : sess[p].pc = "idle"
  BY IdleType DEF Init
<1> QED
  BY <1>1, InitIInv DEF RInv, FailOK, DenyOK

\* A session that owns a run is the only one that writes its rows.
LEMMA OwnerKeepsRow ==
    ASSUME IInv, [Next]_vars, NEW q \in Sessions, sess[q].pc = "fail",
           db[sess[q].run].status = "RUNNING", sess'[q] = sess[q]
    PROVE  db'[sess[q].run] = db[sess[q].run]
<1> USE DEF ghosts, rows
<1> DEFINE r == sess[q].run
<1>0. r \in Runs /\ Owner(q) /\ db \in [Runs -> Row]
  BY BusyType DEF IInv, SessionsOK, ShapeOK, Owner, TypeOK
<1>1. ASSUME NEW p \in ApiSessions, NEW x \in Runs, NEW async \in BOOLEAN, Submit(p, x, async)
      PROVE  db'[r] = db[r]
  BY <1>0, <1>1 DEF Submit
<1>1a. ASSUME NEW p \in ApiSessions, NEW x \in Runs, SubmitUnread(p, x) PROVE db'[r] = db[r]
  BY <1>0, <1>1a DEF SubmitUnread
<1>2. ASSUME NEW p \in Sessions, Claim(p) PROVE db'[r] = db[r]
  BY <1>0, <1>2 DEF Claim
<1>3. ASSUME NEW p \in Sessions, Commit(p) PROVE db'[r] = db[r]
  <2>1. /\ sess[p].pc = "commit" /\ sess[p].run \in Runs /\ sess[p].op \in Op
        /\ ShapeOK(p) /\ HeldOK(p)
    BY <1>3, BusyType DEF Commit, IInv, SessionsOK
  <2>2. Owner(p) \/ Reviewer(p)
    BY <2>1 DEF Op, ShapeOK, Owner, Reviewer, Review
  <2>3. p # q
    BY <2>1
  <2>4. sess[p].run # r
    <3>1. CASE Owner(p)
      BY <1>0, <2>3, <3>1 DEF IInv, OneOwner
    <3>2. CASE Reviewer(p)
      BY <2>1, <3>2 DEF HeldOK
    <3> QED
      BY <2>2, <3>1, <3>2
  <2> QED
    BY <1>0, <1>3, <2>1, <2>4 DEF Commit
<1>4. ASSUME NEW p \in Sessions, RecordFailure(p) PROVE db'[r] = db[r]
  <2>1. /\ sess[p].pc = "fail" /\ sess[p].run \in Runs /\ Owner(p)
        /\ sess'[p].pc = "idle"
    BY <1>4, BusyType, Becomes, IdleType DEF RecordFailure, IInv, SessionsOK, ShapeOK, Owner
  <2>2. sess[p].run # r
    BY <1>0, <2>1 DEF IInv, OneOwner
  <2> QED
    BY <1>0, <1>4, <2>1, <2>2 DEF RecordFailure
<1>5. ASSUME NEW p \in Sessions, Step(p) PROVE db'[r] = db[r]
  <2>1. CASE Claim(p) \/ Commit(p) \/ RecordFailure(p)
    BY <2>1, <1>2, <1>3, <1>4
  <2>2. CASE ~(Claim(p) \/ Commit(p) \/ RecordFailure(p))
    BY <1>5, <2>2 DEF Step, Enqueue, ClaimRejected, UnknownTool, InvokeAllowed,
       InvokeNeedsApproval, InvokeDenied, ExecuteTool, Refresh, LockApproval, LockRunRejected,
       Approve, Reject
  <2> QED
    BY <2>1, <2>2
<1>6. \/ \E p \in ApiSessions, x \in Runs, async \in BOOLEAN : Submit(p, x, async)
      \/ \E p \in ApiSessions, x \in Runs : SubmitUnread(p, x)
      \/ \E p \in Sessions : Step(p)
      \/ UNCHANGED db
  BY DEF Next, vars, SubmitFails, BeginReview, Deliver, EnqueueFails, RefreshFails, DbError, Crash,
     Redeliver
<1> QED
  BY <1>1, <1>1a, <1>5, <1>6

\* How a session comes to fail, to its tool call, and to the commit of its run.
LEMMA OwnStep ==
    ASSUME IInv, [Next]_vars, "refresh" \notin FaultKinds, NEW q \in Sessions, sess'[q] # sess[q]
    PROVE  /\ sess'[q].pc = "fail" =>
                 UNCHANGED db /\ sess'[q].run = sess[q].run
                 /\ (UnknownTool(q) \/ (Owner(q) /\ sess[q].pc \in {"invoke", "execute", "commit"}))
           /\ sess'[q].pc = "execute" => InvokeAllowed(q) \/ Approve(q)
           /\ sess'[q].pc = "commit" =>
                 \/ InvokeNeedsApproval(q) \/ InvokeDenied(q) \/ Reject(q)
                 \/ \E ok \in BOOLEAN : ExecuteTool(q, ok)
<1> USE DEF ghosts, rows
<1> DEFINE Goal ==
      /\ sess'[q].pc = "fail" =>
            UNCHANGED db /\ sess'[q].run = sess[q].run
            /\ (UnknownTool(q) \/ (Owner(q) /\ sess[q].pc \in {"invoke", "execute", "commit"}))
      /\ sess'[q].pc = "execute" => InvokeAllowed(q) \/ Approve(q)
      /\ sess'[q].pc = "commit" =>
            \/ InvokeNeedsApproval(q) \/ InvokeDenied(q) \/ Reject(q)
            \/ \E ok \in BOOLEAN : ExecuteTool(q, ok)
<1>0. TypeOK
  BY DEF IInv
<1>1. ASSUME NEW p \in Sessions, NEW s, Become(p, s) PROVE p = q /\ sess'[q] = s
  BY <1>0, <1>1, Becomes
<1>2. ASSUME NEW p \in Sessions, NEW s, Become(p, s), s.pc \notin {"fail", "execute", "commit"} PROVE Goal
  BY <1>1, <1>2
<1>i. Idle.pc = "idle"
  BY IdleType
<1> HIDE DEF Goal
<1>3. ASSUME NEW p \in ApiSessions, NEW r \in Runs, NEW async \in BOOLEAN, Submit(p, r, async)
      PROVE  Goal
  BY <1>2, <1>3 DEF Submit, At, Sessions
<1>3a. ASSUME NEW p \in ApiSessions, NEW r \in Runs, SubmitUnread(p, r) PROVE Goal
  BY <1>2, <1>3a, <1>i DEF SubmitUnread, Sessions
<1>4. ASSUME NEW p \in ApiSessions, NEW r \in Runs, NEW o \in Review, BeginReview(p, r, o)
      PROVE  Goal
  BY <1>2, <1>4 DEF BeginReview, At, Sessions
<1>5. ASSUME NEW w \in Workers, NEW r \in Runs, Deliver(w, r) PROVE Goal
  BY <1>2, <1>5 DEF Deliver, At, Sessions
<1>6. ASSUME NEW p \in Sessions, Step(p) PROVE Goal
  <2>1. CASE Enqueue(p) \/ ClaimRejected(p) \/ Refresh(p) \/ RecordFailure(p) \/ LockRunRejected(p)
    BY <2>1, <1>2, <1>i DEF Enqueue, ClaimRejected, Refresh, RecordFailure, LockRunRejected
  <2>2. CASE Claim(p)
    BY <2>2, <1>2 DEF Claim, Work
  <2>2a. CASE InvokeAllowed(p) \/ Approve(p)
    <3>1. ASSUME NEW row, NEW evs, Become(p, Work(p, "execute", row, evs))
          PROVE  p = q /\ sess'[q].pc = "execute"
      <4>1. Work(p, "execute", row, evs).pc = "execute"
        BY DEF Work
      <4> QED
        BY <3>1, <4>1, <1>1
    <3>2. p = q /\ sess'[q].pc = "execute"
      BY <2>2a, <3>1 DEF InvokeAllowed, Approve
    <3> QED
      BY <2>2a, <3>2 DEF Goal
  <2>3. CASE Commit(p) \/ LockApproval(p)
    BY <2>3, <1>2, <1>i DEF Commit, LockApproval, At
  <2>4. CASE UnknownTool(p)
    BY <2>4, <1>1 DEF Goal, UnknownTool, At
  <2>w. ASSUME NEW row, NEW evs, Become(p, Work(p, "commit", row, evs))
        PROVE  p = q /\ sess'[q].pc = "commit"
    <3>1. Work(p, "commit", row, evs).pc = "commit"
      BY DEF Work
    <3> QED
      BY <2>w, <3>1, <1>1
  <2>5. CASE InvokeNeedsApproval(p) \/ InvokeDenied(p) \/ Reject(p)
    <3>1. p = q /\ sess'[q].pc = "commit"
      BY <2>5, <2>w DEF InvokeNeedsApproval, InvokeDenied, Reject
    <3> QED
      BY <2>5, <3>1 DEF Goal
  <2>6. ASSUME NEW ok \in BOOLEAN, ExecuteTool(p, ok) PROVE Goal
    <3>1. p = q /\ sess'[q].pc = "commit"
      BY <2>6, <2>w DEF ExecuteTool
    <3> QED
      BY <2>6, <3>1 DEF Goal
  <2> QED
    BY <1>6, <2>1, <2>2, <2>2a, <2>3, <2>4, <2>5, <2>6 DEF Step
<1>7. ASSUME NEW p \in Sessions, EnqueueFails(p) \/ RefreshFails(p) \/ DbError(p) \/ Crash(p)
      PROVE  Goal
  <2>1. ~RefreshFails(p)
    BY DEF RefreshFails, Fault
  <2>2. CASE EnqueueFails(p) \/ Crash(p)
    BY <2>2, <1>2, <1>i DEF EnqueueFails, Crash
  <2>3. CASE DbError(p)
    <3>1. CASE sess[p].op = "execute" /\ sess[p].pc \in {"invoke", "execute", "commit"}
      BY <2>3, <3>1, <1>1 DEF Goal, DbError, At, Owner
    <3>2. CASE ~(sess[p].op = "execute" /\ sess[p].pc \in {"invoke", "execute", "commit"})
      BY <2>3, <3>2, <1>2, <1>i DEF DbError
    <3> QED
      BY <3>1, <3>2
  <2> QED
    BY <1>7, <2>1, <2>2, <2>3
<1>8. ASSUME UNCHANGED sess PROVE Goal
  BY <1>8
<1>9. Goal
  BY <1>3, <1>3a, <1>4, <1>5, <1>6, <1>7, <1>8 DEF Next, vars, SubmitFails, Redeliver
<1> QED
  BY <1>9 DEF Goal

LEMMA RequestKept == [Next]_vars => UNCHANGED request
BY DEF Next, vars, Submit, SubmitFails, SubmitUnread, BeginReview, Deliver, Step, Enqueue, Claim, ClaimRejected, UnknownTool,
   InvokeAllowed, InvokeNeedsApproval, InvokeDenied, ExecuteTool, Commit, Refresh, RecordFailure,
   LockApproval, LockRunRejected, Approve, Reject, EnqueueFails, RefreshFails, DbError, Crash,
   Redeliver

LEMMA RStep ==
    ASSUME "refresh" \notin FaultKinds
    PROVE  RInv /\ [Next]_vars => RInv'
<1> SUFFICES ASSUME RInv, [Next]_vars PROVE RInv'
  OBVIOUS
<1>0. IInv /\ FailOK /\ DenyOK /\ TypeOK
  BY DEF RInv, IInv
<1>1. FailOK'
  <2> SUFFICES ASSUME NEW q \in Sessions, sess'[q].pc = "fail"
               PROVE  db'[sess'[q].run].status = "RUNNING"
    BY DEF FailOK
  <2>1. CASE sess'[q] = sess[q]
    BY <1>0, <2>1, OwnerKeepsRow DEF FailOK
  <2>2. CASE sess'[q] # sess[q]
    <3>1. /\ UNCHANGED db /\ sess'[q].run = sess[q].run
          /\ UnknownTool(q) \/ (Owner(q) /\ sess[q].pc \in {"invoke", "execute", "commit"})
      BY <1>0, <2>2, OwnStep
    <3>2. CASE UnknownTool(q)
      BY <1>0, <3>1, <3>2, AtInvoke DEF UnknownTool
    <3>3. CASE Owner(q) /\ sess[q].pc \in {"invoke", "execute", "commit"}
      BY <1>0, <3>1, <3>3 DEF IInv, SessionsOK, HeldOK
    <3> QED
      BY <3>1, <3>2, <3>3
  <2> QED
    BY <2>1, <2>2
<1>2. DenyOK'
  <2> SUFFICES ASSUME NEW q \in Sessions,
                      sess'[q].pc = "commit", sess'[q].op = "execute",
                      sess'[q].view.status = "BLOCKED", sess'[q].view.approval = "NONE"
               PROVE  Decision(request[sess'[q].run]) = "DENY"
    BY RequestKept DEF DenyOK
  <2>1. CASE sess'[q] = sess[q]
    BY <1>0, <2>1 DEF DenyOK
  <2>2. CASE sess'[q] # sess[q]
    <3>1. \/ InvokeNeedsApproval(q) \/ InvokeDenied(q) \/ Reject(q)
          \/ \E ok \in BOOLEAN : ExecuteTool(q, ok)
      BY <1>0, <2>2, OwnStep
    <3>w. ASSUME NEW row, NEW evs, Become(q, Work(q, "commit", row, evs))
          PROVE  /\ sess'[q].run = sess[q].run /\ sess'[q].op = sess[q].op /\ sess'[q].view = row
      <4>1. sess'[q] = Work(q, "commit", row, evs)
        BY <1>0, <3>w, Becomes
      <4> QED
        BY <4>1 DEF Work
    <3>2. CASE InvokeNeedsApproval(q)
      <4>1. sess[q].view \in Row
        BY <1>0, <3>2, BusyType DEF InvokeNeedsApproval
      <4>2. sess'[q].view = [sess[q].view EXCEPT !.status = "BLOCKED", !.tool = "BLOCKED",
                                                 !.approval = "PENDING"]
        BY <3>2, <3>w DEF InvokeNeedsApproval
      <4> QED
        BY <4>1, <4>2 DEF Row
    <3>3. CASE InvokeDenied(q)
      BY <3>3, <3>w DEF InvokeDenied
    <3>4. CASE Reject(q)
      BY <3>4, <3>w DEF Reject
    <3>5. ASSUME NEW ok \in BOOLEAN, ExecuteTool(q, ok) PROVE FALSE
      <4> DEFINE outcome == IF ok THEN "SUCCESS" ELSE "FAILED"
      <4>1. sess[q].view \in Row
        BY <1>0, <3>5, BusyType DEF ExecuteTool
      <4>2. sess'[q].view = [sess[q].view EXCEPT !.status = outcome, !.tool = outcome]
        BY <3>5, <3>w DEF ExecuteTool
      <4> QED
        BY <4>1, <4>2 DEF Row
    <3> QED
      BY <3>1, <3>2, <3>3, <3>4, <3>5
  <2> QED
    BY <2>1, <2>2
<1> QED
  BY <1>0, <1>1, <1>2, IInvStep DEF RInv

-----------------------------------------------------------------------------
\* The refinement mapping: a step that writes the rows of one run moves its life.
LEMMA Moves ==
    ASSUME TypeOK, NEW r \in Runs, NEW row \in Row, db' = [db EXCEPT ![r] = row],
           UNCHANGED <<request, effects>>, NEW from, NEW to,
           LifeOf(db[r]) = from, LifeOf(row) = to
    PROVE  Gate!Move(r, from, to)
<1> DEFINE life == [x \in Runs |-> LifeOf(db[x])]
<1>1. life[r] = from
  OBVIOUS
<1>2. life' = [life EXCEPT ![r] = to]
  <2>1. \A x \in Runs : db'[x] = IF x = r THEN row ELSE db[x]
    BY DEF TypeOK
  <2>2. \A x \in Runs : LifeOf(db[x])' = IF x = r THEN to ELSE LifeOf(db[x])
    <3> SUFFICES ASSUME NEW x \in Runs
                 PROVE  LifeOf(db[x])' = IF x = r THEN to ELSE LifeOf(db[x])
      OBVIOUS
    <3>1. CASE x = r
      <4>1. db'[x] = row
        BY <2>1, <3>1
      <4>2. LifeOf(db[x])' = LifeOf(row)
        BY <4>1, Zenon DEF LifeOf
      <4> QED
        BY <3>1, <4>2
    <3>2. CASE x # r
      <4>1. db'[x] = db[x]
        BY <2>1, <3>2
      <4>2. LifeOf(db[x])' = LifeOf(db[x])
        BY <4>1, Zenon DEF LifeOf
      <4> QED
        BY <3>2, <4>2
    <3> QED
      BY <3>1, <3>2
  <2> QED
    BY <2>2
<1>3. [x \in Runs |-> Decision(request[x])]' = [x \in Runs |-> Decision(request[x])]
  OBVIOUS
<1> QED
  BY <1>1, <1>2, <1>3 DEF Gate!Move

LEMMA Stutters ==
    ASSUME UNCHANGED <<request, effects>>, \A x \in Runs : LifeOf(db[x])' = LifeOf(db[x])
    PROVE  UNCHANGED Gate!vars
BY DEF Gate!vars

LEMMA GateInit == Init => Gate!Init
<1> SUFFICES ASSUME Init PROVE Gate!Init
  OBVIOUS
<1>1. LifeOf(Absent) = "new"
  BY DEF LifeOf, Absent
<1>2. \A r \in Runs : Decision(request[r]) \in Gate!Ruling
  BY DecisionType DEF Gate!Ruling
<1> QED
  BY <1>1, <1>2 DEF Init, Gate!Init

\* A commit publishes what the session decided of a run that was RUNNING (its
\* owner's) or BLOCKED behind a pending request (its reviewer's).
LEMMA GateCommit ==
    ASSUME RInv, NEW p \in Sessions, Commit(p)
    PROVE  Gate!Next
<1> DEFINE r == sess[p].run
           row == sess[p].view
<1>0. /\ IInv /\ TypeOK /\ sess[p].pc = "commit" /\ r \in Runs /\ row \in Row /\ sess[p].op \in Op
      /\ ShapeOK(p) /\ ViewOK(p) /\ HeldOK(p) /\ RowOK(request[r], row) /\ RowOK(request[r], db[r])
      /\ row.status \in {"SUCCESS", "FAILED", "BLOCKED"}
  BY BusyType DEF RInv, IInv, SessionsOK, Commit, ViewOK, RowsOK
<1>1. db' = [db EXCEPT ![r] = row] /\ UNCHANGED <<request, effects>>
  BY DEF Commit, ghosts
<1>2. Executed(p) => effects[r] > 0
  <2> SUFFICES ASSUME Executed(p) PROVE effects[r] > 0
    OBVIOUS
  <2>1. InFlight(r) /\ effects[r] = lost[r] + 1 /\ lost[r] \in Nat
    BY <1>0 DEF InFlight, IInv, EffectsAccounted, Accounted, TypeOK
  <2> QED
    BY <2>1
<1>3. row.tool \in {"SUCCESS", "FAILED"} => Executed(p)
  BY <1>0 DEF Executed
<1>m. ASSUME NEW from, NEW to, LifeOf(db[r]) = from, LifeOf(row) = to PROVE Gate!Move(r, from, to)
  BY <1>0, <1>1, <1>m, Moves
<1>4. CASE sess[p].op = "execute"
  <2>1. Owner(p) /\ db[r].status = "RUNNING"
    BY <1>0, <1>4 DEF Owner, HeldOK
  <2>2. LifeOf(db[r]) = "started"
    BY <2>1 DEF LifeOf
  <2>3. row.approval \in {"NONE", "PENDING"}
    BY <1>0, <1>4 DEF ViewOK
  <2>4. CASE row.status = "SUCCESS"
    <3>1. LifeOf(row) = "succeeded" /\ effects[r] > 0
      BY <1>0, <1>2, <1>3, <2>4 DEF LifeOf, RowOK
    <3> QED
      BY <1>0, <1>m, <2>2, <3>1 DEF Gate!Next, Gate!Succeed
  <2>5. CASE row.status = "FAILED"
    <3>1. LifeOf(row) = "failed"
      BY <2>5 DEF LifeOf
    <3> QED
      BY <1>0, <1>m, <2>2, <3>1 DEF Gate!Next, Gate!Fail
  <2>6. CASE row.status = "BLOCKED" /\ row.approval = "NONE"
    <3>1. LifeOf(row) = "denied" /\ Decision(request[r]) = "DENY"
      BY <1>0, <1>4, <2>6 DEF LifeOf, RInv, DenyOK
    <3> QED
      BY <1>0, <1>m, <2>2, <3>1 DEF Gate!Next, Gate!Deny
  <2>7. CASE row.status = "BLOCKED" /\ row.approval = "PENDING"
    <3>1. LifeOf(row) = "waiting" /\ Decision(request[r]) = "REQUIRE_APPROVAL"
      BY <1>0, <2>7 DEF LifeOf, RowOK
    <3> QED
      BY <1>0, <1>m, <2>2, <3>1 DEF Gate!Next, Gate!Ask
  <2> QED
    BY <1>0, <2>3, <2>4, <2>5, <2>6, <2>7
<1>5. CASE sess[p].op \in Review
  <2>1. Reviewer(p) /\ db[r].status = "BLOCKED" /\ db[r].approval = "PENDING"
    BY <1>0, <1>5 DEF Reviewer, HeldOK
  <2>2. LifeOf(db[r]) = "waiting"
    BY <2>1 DEF LifeOf
  <2>3. CASE sess[p].op = "reject"
    <3>1. LifeOf(row) = "rejected"
      BY <1>0, <2>3 DEF LifeOf, ViewOK
    <3> QED
      BY <1>0, <1>m, <2>2, <3>1 DEF Gate!Next, Gate!Reject
  <2>4. CASE sess[p].op = "approve"
    <3>1. row.approval = "APPROVED"
      BY <1>0, <2>4 DEF ViewOK
    <3>2. row.status \in {"SUCCESS", "FAILED"} /\ effects[r] > 0
      BY <1>0, <1>2, <1>3, <3>1 DEF RowOK
    <3>3. CASE row.status = "SUCCESS"
      <4>1. LifeOf(row) = "succeeded"
        BY <3>3 DEF LifeOf
      <4> QED
        BY <1>0, <1>m, <2>2, <3>2, <4>1 DEF Gate!Next, Gate!Succeed
    <3>4. CASE row.status = "FAILED"
      <4>1. LifeOf(row) = "failed"
        BY <3>4 DEF LifeOf
      <4> QED
        BY <1>0, <1>m, <2>2, <3>2, <4>1 DEF Gate!Next, Gate!Fail
    <3> QED
      BY <3>2, <3>3, <3>4
  <2> QED
    BY <1>5, <2>3, <2>4 DEF Review
<1> QED
  BY <1>0, <1>4, <1>5 DEF ShapeOK, Op, Review

\* The tool call itself.
LEMMA GateExecute ==
    ASSUME RInv, NEW p \in Sessions, NEW ok \in BOOLEAN, ExecuteTool(p, ok)
    PROVE  Gate!Next
<1> DEFINE r == sess[p].run
           life == [x \in Runs |-> LifeOf(db[x])]
<1>0. /\ IInv /\ TypeOK /\ sess[p].pc = "execute" /\ r \in Runs /\ effects[r] \in Nat
      /\ ShapeOK(p) /\ ViewOK(p) /\ HeldOK(p)
  BY BusyType DEF RInv, IInv, SessionsOK, ExecuteTool, TypeOK
<1>1. effects' = [effects EXCEPT ![r] = @ + 1] /\ UNCHANGED <<request, db>>
  BY DEF ExecuteTool, rows
<1>2. UNCHANGED <<life, [x \in Runs |-> Decision(request[x])]>>
  BY <1>1
<1>3. CASE sess[p].op = "execute"
  <2>1. Owner(p) /\ db[r].status = "RUNNING" /\ Decision(request[r]) = "ALLOW"
    BY <1>0, <1>3 DEF Owner, HeldOK, ViewOK
  <2>2. life[r] = "started"
    BY <1>0, <2>1 DEF LifeOf
  <2>3. effects[r] = 0
    BY <1>0, <2>1 DEF IInv, CallsOK
  <2>4. effects' = [effects EXCEPT ![r] = 1]
    BY <1>1, <2>3
  <2> QED
    BY <1>0, <1>2, <2>1, <2>2, <2>3, <2>4 DEF Gate!Next, Gate!CallAllowed
<1>4. CASE sess[p].op = "approve"
  <2>1. db[r].status = "BLOCKED" /\ db[r].approval = "PENDING"
    BY <1>0, <1>4 DEF Reviewer, Review, HeldOK
  <2>2. life[r] = "waiting"
    BY <1>0, <2>1 DEF LifeOf
  <2> QED
    BY <1>0, <1>1, <1>2, <2>2 DEF Gate!Next, Gate!CallApproved
<1> QED
  BY <1>0, <1>3, <1>4 DEF ShapeOK

\* Every step of the runtime is a step of GatedCall or leaves it alone.
LEMMA GateStep == RInv /\ [Next]_vars => [Gate!Next]_(Gate!vars)
<1> SUFFICES ASSUME RInv, [Next]_vars PROVE [Gate!Next]_(Gate!vars)
  OBVIOUS
<1> USE DEF ghosts, rows
<1>0. IInv /\ TypeOK
  BY DEF RInv, IInv
<1>q. ASSUME UNCHANGED <<request, db, effects>> PROVE UNCHANGED Gate!vars
  BY <1>q, Stutters
<1>1. ASSUME NEW p \in ApiSessions, NEW r \in Runs, NEW async \in BOOLEAN, Submit(p, r, async)
      PROVE  UNCHANGED Gate!vars
  <2>1. db[r] \in Row /\ db[r].status = "ABSENT" /\ UNCHANGED <<request, effects>>
    BY <1>0, <1>1 DEF Submit, TypeOK
  <2>2. db'[r].status = "PENDING" /\ \A x \in Runs : x # r => db'[x] = db[x]
    BY <1>0, <1>1, <2>1 DEF Submit, TypeOK, Row
  <2>3. LifeOf(db[r]) = "new" /\ LifeOf(db[r])' = "new"
    BY <2>1, <2>2 DEF LifeOf
  <2> QED
    BY <2>1, <2>2, <2>3, Stutters
<1>1a. ASSUME NEW p \in ApiSessions, NEW r \in Runs, SubmitUnread(p, r) PROVE UNCHANGED Gate!vars
  <2>1. db[r] \in Row /\ db[r].status = "ABSENT" /\ UNCHANGED <<request, effects>>
    BY <1>0, <1>1a DEF SubmitUnread, TypeOK
  <2>2. db'[r].status = "PENDING" /\ \A x \in Runs : x # r => db'[x] = db[x]
    BY <1>0, <1>1a, <2>1 DEF SubmitUnread, TypeOK, Row
  <2>3. LifeOf(db[r]) = "new" /\ LifeOf(db[r])' = "new"
    BY <2>1, <2>2 DEF LifeOf
  <2> QED
    BY <2>1, <2>2, <2>3, Stutters
<1>2. ASSUME NEW p \in Sessions, Claim(p) PROVE Gate!Next
  <2> DEFINE r == sess[p].run
             row == [db[r] EXCEPT !.status = "RUNNING"]
  <2>1. r \in Runs /\ db[r] \in Row /\ db[r].status = "PENDING"
    BY <1>0, <1>2, BusyType DEF Claim
  <2>2. row \in Row /\ row.status = "RUNNING"
    BY <2>1 DEF Row, RunStatus
  <2>3. LifeOf(db[r]) = "new" /\ LifeOf(row) = "started"
    BY <2>1, <2>2 DEF LifeOf
  <2>4. db' = [db EXCEPT ![r] = row] /\ UNCHANGED <<request, effects>>
    BY <1>2 DEF Claim
  <2> HIDE DEF row
  <2>5. Gate!Move(r, "new", "started")
    BY <1>0, <2>1, <2>2, <2>3, <2>4, Moves
  <2> QED
    BY <2>1, <2>5 DEF Gate!Next, Gate!Start
<1>3. ASSUME NEW p \in Sessions, RecordFailure(p) PROVE Gate!Next
  <2> DEFINE r == sess[p].run
             row == [db[r] EXCEPT !.status = "FAILED"]
  <2>1. r \in Runs /\ db[r] \in Row /\ db[r].status = "RUNNING"
    BY <1>0, <1>3, BusyType DEF RecordFailure, RInv, FailOK
  <2>2. row \in Row /\ row.status = "FAILED"
    BY <2>1 DEF Row, RunStatus
  <2>3. LifeOf(db[r]) = "started" /\ LifeOf(row) = "failed"
    BY <2>1, <2>2 DEF LifeOf
  <2>4. db' = [db EXCEPT ![r] = row] /\ UNCHANGED <<request, effects>>
    BY <1>3 DEF RecordFailure
  <2> HIDE DEF row
  <2>5. Gate!Move(r, "started", "failed")
    BY <1>0, <2>1, <2>2, <2>3, <2>4, Moves
  <2> QED
    BY <2>1, <2>5 DEF Gate!Next, Gate!Fail
<1>4. ASSUME NEW p \in Sessions, Step(p) PROVE [Gate!Next]_(Gate!vars)
  <2>1. CASE Claim(p) \/ RecordFailure(p)
    BY <2>1, <1>2, <1>3
  <2>2. CASE Commit(p)
    BY <2>2, GateCommit
  <2>3. CASE \E ok \in BOOLEAN : ExecuteTool(p, ok)
    BY <2>3, GateExecute
  <2>4. CASE ~(Claim(p) \/ RecordFailure(p) \/ Commit(p) \/ \E ok \in BOOLEAN : ExecuteTool(p, ok))
    <3>1. UNCHANGED <<request, db, effects>>
      BY <1>4, <2>4 DEF Step, Enqueue, ClaimRejected, UnknownTool, InvokeAllowed,
         InvokeNeedsApproval, InvokeDenied, Refresh, LockApproval, LockRunRejected, Approve, Reject
    <3> QED
      BY <3>1, <1>q
  <2> QED
    BY <2>1, <2>2, <2>3, <2>4
<1>5. \/ \E p \in ApiSessions, r \in Runs, async \in BOOLEAN : Submit(p, r, async)
      \/ \E p \in ApiSessions, x \in Runs : SubmitUnread(p, x)
      \/ \E p \in Sessions : Step(p)
      \/ UNCHANGED <<request, db, effects>>
  BY DEF Next, vars, SubmitFails, BeginReview, Deliver, EnqueueFails, RefreshFails, DbError, Crash,
     Redeliver
<1> QED
  BY <1>1, <1>1a, <1>4, <1>5, <1>q

\* The runtime, the safety gateway and the approval service carry out the flow
\* charts of docs/architecture.md (runtime.py:83-218, safety_gateway.py:49-182,
\* approvals.py:48-183), under crashes, failing transactions, a failing broker and
\* repeated deliveries, as long as the read after execute_run's commit does not
\* fail.
THEOREM RuntimeImplementsGate ==
    ASSUME "refresh" \notin FaultKinds
    PROVE  Spec => ImplementsGatedCall
<1>1. RInv /\ [Next]_vars => RInv'
  BY RStep
<1> QED
  BY <1>1, InitRInv, GateInit, GateStep, PTL DEF Spec, ImplementsGatedCall, Gate!Spec

\* What GatedCall promises holds of the committed rows of the runtime
\* (runtime.py:160-218, safety_gateway.py:74-138).
THEOREM RuntimeKeepsPromise ==
    ASSUME "refresh" \notin FaultKinds
    PROVE  Spec => []GatePromise
BY RuntimeImplementsGate, Gate!PromiseKept, PTL DEF ImplementsGatedCall, GatePromise

LEMMA SettledStep ==
    ASSUME RInv, [Next]_vars, NEW r \in Runs, Settled(db[r])
    PROVE  db'[r] = db[r]
<1> USE DEF ghosts, rows
<1>0. IInv /\ db \in [Runs -> Row]
  BY DEF RInv, IInv, TypeOK
<1>1. ASSUME NEW p \in ApiSessions, NEW x \in Runs, NEW async \in BOOLEAN, Submit(p, x, async)
      PROVE  db'[r] = db[r]
  BY <1>0, <1>1 DEF Submit, Settled
<1>1a. ASSUME NEW p \in ApiSessions, NEW x \in Runs, SubmitUnread(p, x) PROVE db'[r] = db[r]
  BY <1>0, <1>1a DEF SubmitUnread, Settled
<1>2. ASSUME NEW p \in Sessions, Claim(p) PROVE db'[r] = db[r]
  BY <1>0, <1>2 DEF Claim, Settled
<1>3. ASSUME NEW p \in Sessions, RecordFailure(p) PROVE db'[r] = db[r]
  BY <1>0, <1>3 DEF RecordFailure, Settled, RInv, FailOK
<1>4. ASSUME NEW p \in Sessions, Commit(p) PROVE db'[r] = db[r]
  <2>1. /\ sess[p].pc = "commit" /\ sess[p].run \in Runs /\ sess[p].op \in Op
        /\ ShapeOK(p) /\ HeldOK(p)
    BY <1>0, <1>4, BusyType DEF Commit, IInv, SessionsOK
  <2>2. Owner(p) \/ Reviewer(p)
    BY <2>1 DEF Op, ShapeOK, Owner, Reviewer, Review
  <2>3. sess[p].run # r
    BY <2>1, <2>2 DEF HeldOK, Settled
  <2> QED
    BY <1>0, <1>4, <2>1, <2>3 DEF Commit
<1>5. ASSUME NEW p \in Sessions, Step(p) PROVE db'[r] = db[r]
  <2>1. CASE Claim(p) \/ Commit(p) \/ RecordFailure(p)
    BY <2>1, <1>2, <1>3, <1>4
  <2>2. CASE ~(Claim(p) \/ Commit(p) \/ RecordFailure(p))
    BY <1>5, <2>2 DEF Step, Enqueue, ClaimRejected, UnknownTool, InvokeAllowed,
       InvokeNeedsApproval, InvokeDenied, ExecuteTool, Refresh, LockApproval, LockRunRejected,
       Approve, Reject
  <2> QED
    BY <2>1, <2>2
<1>6. \/ \E p \in ApiSessions, x \in Runs, async \in BOOLEAN : Submit(p, x, async)
      \/ \E p \in ApiSessions, x \in Runs : SubmitUnread(p, x)
      \/ \E p \in Sessions : Step(p)
      \/ UNCHANGED db
  BY DEF Next, vars, SubmitFails, BeginReview, Deliver, EnqueueFails, RefreshFails, DbError, Crash,
     Redeliver
<1> QED
  BY <1>1, <1>1a, <1>5, <1>6

\* The rows of a settled run never change again (runtime.py:90-91,
\* approvals.py:116-117,128-129), as long as the read after execute_run's
\* commit does not fail.
THEOREM SettledStays ==
    ASSUME "refresh" \notin FaultKinds
    PROVE  Spec => SettledIsFinal
<1>1. RInv /\ [Next]_vars => RInv'
  BY RStep
<1>2. RInv /\ [Next]_vars => [\A r \in Runs : Settled(db[r]) => db'[r] = db[r]]_vars
  BY SettledStep
<1> QED
  BY <1>1, <1>2, InitRInv, PTL DEF Spec, SettledIsFinal

-----------------------------------------------------------------------------
(* The committed timeline.  A session's uncommitted trace rows carry the   *)
(* story of the rows it found on to the story of the rows it has changed.  *)

\* The story of the rows a session's transaction started from: an owner's run is
\* RUNNING, a reviewer's waits for the review.
Found(op) ==
    IF op = "execute"
    THEN <<"AgentRunStarted">>
    ELSE <<"AgentRunStarted", "PolicyCheck", "ApprovalRequested", "ToolBlocked">>
EventsOK ==
    \A p \in Sessions :
        /\ sess[p].pc = "execute" =>
              sess[p].events = IF sess[p].op = "execute"
                               THEN <<"PolicyCheck", "ToolInvoked">>
                               ELSE <<"ApprovalApproved", "ToolInvoked">>
        /\ sess[p].pc = "commit" =>
              Found(sess[p].op) \o sess[p].events = Timeline(sess[p].view)
TInv == RInv /\ EventsOK /\ TimelineMatchesRows

LEMMA InitTInv == Init => TInv
<1> SUFFICES ASSUME Init PROVE TInv
  OBVIOUS
<1>1. \A p \in Sessions : sess[p].pc = "idle"
  BY IdleType DEF Init
<1>2. Timeline(Absent) = <<>>
  BY DEF Timeline, Absent
<1> QED
  BY <1>1, <1>2, InitRInv DEF TInv, EventsOK, TimelineMatchesRows, Init

\* The stories a session's own trace rows add up to.
LEMMA Stories ==
    ASSUME NEW row \in Row
    PROVE  /\ row.status = "RUNNING" => Timeline(row) = Found("execute")
           /\ row.status = "BLOCKED" /\ row.approval = "PENDING" =>
                 /\ Timeline(row) = Found("approve")
                 /\ Timeline(row) = Found("reject")
                 /\ Timeline(row) = Found("execute")
                                      \o <<"PolicyCheck", "ApprovalRequested", "ToolBlocked">>
           /\ row.status = "BLOCKED" /\ row.approval = "NONE" =>
                 Timeline(row) = Found("execute") \o <<"PolicyCheck", "ToolBlocked">>
           /\ row.status = "BLOCKED" /\ row.approval = "REJECTED" =>
                 Timeline(row) = Found("reject") \o <<"ApprovalRejected", "ToolBlocked">>
           /\ row.status = "SUCCESS" /\ row.approval = "NONE" =>
                 Timeline(row) = Found("execute") \o (<<"PolicyCheck", "ToolInvoked">>
                                    \o <<"ToolSucceeded", "AgentRunCompleted">>)
           /\ row.status = "SUCCESS" /\ row.approval = "APPROVED" =>
                 Timeline(row) = Found("approve") \o (<<"ApprovalApproved", "ToolInvoked">>
                                    \o <<"ToolSucceeded", "AgentRunCompleted">>)
           /\ row.status = "FAILED" /\ row.tool = "FAILED" /\ row.approval = "NONE" =>
                 Timeline(row) = Found("execute") \o (<<"PolicyCheck", "ToolInvoked">>
                                    \o <<"ToolFailed", "AgentRunFailed">>)
           /\ row.status = "FAILED" /\ row.tool = "FAILED" /\ row.approval = "APPROVED" =>
                 Timeline(row) = Found("approve") \o (<<"ApprovalApproved", "ToolInvoked">>
                                    \o <<"ToolFailed", "AgentRunFailed">>)
           /\ row.status = "FAILED" /\ row.tool = "NONE" =>
                 Timeline(row) = Append(Found("execute"), "AgentRunFailed")
           /\ row.status \in {"ABSENT", "PENDING"} => Timeline(row) = <<>>
<1>1. row.status = "RUNNING" => Timeline(row) = Found("execute")
  BY DEF Timeline, Found
<1>2. row.status = "BLOCKED" /\ row.approval = "PENDING" =>
        /\ Timeline(row) = Found("approve")
        /\ Timeline(row) = Found("reject")
        /\ Timeline(row) = Found("execute") \o <<"PolicyCheck", "ApprovalRequested", "ToolBlocked">>
  <2> SUFFICES ASSUME row.status = "BLOCKED", row.approval = "PENDING"
               PROVE  /\ Timeline(row) = Found("approve")
                      /\ Timeline(row) = Found("reject")
                      /\ Timeline(row) = Found("execute")
                                           \o <<"PolicyCheck", "ApprovalRequested", "ToolBlocked">>
    OBVIOUS
  <2> DEFINE all == <<"AgentRunStarted", "PolicyCheck", "ApprovalRequested", "ToolBlocked">>
             asked == <<"AgentRunStarted", "PolicyCheck">> \o <<"ApprovalRequested", "ToolBlocked">>
             own == <<"AgentRunStarted">> \o <<"PolicyCheck", "ApprovalRequested", "ToolBlocked">>
  <2>1. Timeline(row) = asked
    BY Zenon DEF Timeline
  <2>2. asked = all
    <3>1. asked \in Seq(Event) /\ Len(asked) = 4
      BY <<"AgentRunStarted", "PolicyCheck">> \in Seq(Event),
         <<"ApprovalRequested", "ToolBlocked">> \in Seq(Event) DEF Event
    <3>a. all \in Seq(Event) /\ Len(all) = 4
      BY DEF Event
    <3>2. asked[1] = all[1] /\ asked[2] = all[2] /\ asked[3] = all[3] /\ asked[4] = all[4]
      OBVIOUS
    <3> HIDE DEF asked, all
    <3> QED
      BY <3>1, <3>a, <3>2
  <2>3. own = all
    <3>1. own \in Seq(Event) /\ Len(own) = 4
      BY <<"AgentRunStarted">> \in Seq(Event),
         <<"PolicyCheck", "ApprovalRequested", "ToolBlocked">> \in Seq(Event) DEF Event
    <3>a. all \in Seq(Event) /\ Len(all) = 4
      BY DEF Event
    <3>2. own[1] = all[1] /\ own[2] = all[2] /\ own[3] = all[3] /\ own[4] = all[4]
      OBVIOUS
    <3> HIDE DEF own, all
    <3> QED
      BY <3>1, <3>a, <3>2
  <2> QED
    BY <2>1, <2>2, <2>3 DEF Found
<1>3. row.status = "BLOCKED" /\ row.approval = "NONE" =>
        Timeline(row) = Found("execute") \o <<"PolicyCheck", "ToolBlocked">>
  BY DEF Timeline, Found
<1>4. row.status = "BLOCKED" /\ row.approval = "REJECTED" =>
        Timeline(row) = Found("reject") \o <<"ApprovalRejected", "ToolBlocked">>
  BY DEF Timeline, Found
<1>5. row.status = "SUCCESS" /\ row.approval = "NONE" =>
        Timeline(row) = Found("execute") \o (<<"PolicyCheck", "ToolInvoked">>
                           \o <<"ToolSucceeded", "AgentRunCompleted">>)
  BY DEF Timeline, Found
<1>6. row.status = "SUCCESS" /\ row.approval = "APPROVED" =>
        Timeline(row) = Found("approve") \o (<<"ApprovalApproved", "ToolInvoked">>
                           \o <<"ToolSucceeded", "AgentRunCompleted">>)
  BY DEF Timeline, Found
<1>7. row.status = "FAILED" /\ row.tool = "FAILED" /\ row.approval = "NONE" =>
        Timeline(row) = Found("execute") \o (<<"PolicyCheck", "ToolInvoked">>
                           \o <<"ToolFailed", "AgentRunFailed">>)
  BY DEF Timeline, Found
<1>8. row.status = "FAILED" /\ row.tool = "FAILED" /\ row.approval = "APPROVED" =>
        Timeline(row) = Found("approve") \o (<<"ApprovalApproved", "ToolInvoked">>
                           \o <<"ToolFailed", "AgentRunFailed">>)
  BY DEF Timeline, Found
<1>9. row.status = "FAILED" /\ row.tool = "NONE" =>
        Timeline(row) = Append(Found("execute"), "AgentRunFailed")
  BY DEF Timeline, Found
<1>10. row.status \in {"ABSENT", "PENDING"} => Timeline(row) = <<>>
  BY DEF Timeline
<1> QED
  BY <1>1, <1>2, <1>3, <1>4, <1>5, <1>6, <1>7, <1>8, <1>9, <1>10

\* What a session has written is the rest of the story of the rows it will commit.
LEMMA EventsStep ==
    ASSUME TInv, [Next]_vars, "refresh" \notin FaultKinds
    PROVE  EventsOK'
<1>0. IInv /\ TypeOK /\ EventsOK
  BY DEF TInv, RInv, IInv
<1> SUFFICES ASSUME NEW q \in Sessions
             PROVE  /\ sess'[q].pc = "execute" =>
                          sess'[q].events = IF sess'[q].op = "execute"
                                            THEN <<"PolicyCheck", "ToolInvoked">>
                                            ELSE <<"ApprovalApproved", "ToolInvoked">>
                    /\ sess'[q].pc = "commit" =>
                          Found(sess'[q].op) \o sess'[q].events = Timeline(sess'[q].view)
  BY Zenon DEF EventsOK
<1>w. ASSUME NEW l, NEW row, NEW evs, Become(q, Work(q, l, row, evs))
      PROVE  /\ sess'[q].pc = l /\ sess'[q].op = sess[q].op
             /\ sess'[q].view = row /\ sess'[q].events = evs
  <2>1. sess'[q] = Work(q, l, row, evs)
    BY <1>0, <1>w, Becomes
  <2> QED
    BY <2>1 DEF Work
<1>1. CASE sess'[q] = sess[q]
  BY <1>0, <1>1 DEF EventsOK
<1>2. CASE sess'[q] # sess[q] /\ sess'[q].pc = "execute"
  <2>1. InvokeAllowed(q) \/ Approve(q)
    BY <1>0, <1>2, OwnStep
  <2>2. CASE InvokeAllowed(q)
    <3>1. sess[q].op = "execute"
      BY <1>0, <2>2, AtInvoke DEF InvokeAllowed
    <3> QED
      BY <1>2, <2>2, <3>1, <1>w DEF InvokeAllowed
  <2>3. CASE Approve(q)
    BY <1>2, <2>3, <1>w DEF Approve
  <2> QED
    BY <2>1, <2>2, <2>3
<1>3. CASE sess'[q] # sess[q] /\ sess'[q].pc = "commit"
  <2>1. \/ InvokeNeedsApproval(q) \/ InvokeDenied(q) \/ Reject(q)
        \/ \E ok \in BOOLEAN : ExecuteTool(q, ok)
    BY <1>0, <1>3, OwnStep
  <2>2. CASE InvokeNeedsApproval(q) \/ InvokeDenied(q)
    <3>1. /\ sess[q].op = "execute" /\ sess[q].view \in Row /\ sess[q].view.approval = "NONE"
      BY <1>0, <2>2, AtInvoke DEF InvokeNeedsApproval, InvokeDenied
    <3>2. CASE InvokeNeedsApproval(q)
      <4> DEFINE row == [sess[q].view EXCEPT !.status = "BLOCKED", !.tool = "BLOCKED",
                                             !.approval = "PENDING"]
      <4>1. row \in Row /\ row.status = "BLOCKED" /\ row.approval = "PENDING"
        BY <3>1 DEF Row, RunStatus, ToolStatus, ApprovalStatus
      <4>2. Timeline(row) = Found("execute")
                               \o <<"PolicyCheck", "ApprovalRequested", "ToolBlocked">>
        BY <4>1, Stories
      <4>3. /\ sess'[q].op = sess[q].op /\ sess'[q].view = row
            /\ sess'[q].events = <<"PolicyCheck", "ApprovalRequested", "ToolBlocked">>
        BY <3>2, <1>w DEF InvokeNeedsApproval
      <4> QED
        BY <1>3, <3>1, <4>2, <4>3
    <3>3. CASE InvokeDenied(q)
      <4> DEFINE row == [sess[q].view EXCEPT !.status = "BLOCKED", !.tool = "BLOCKED"]
      <4>1. row \in Row /\ row.status = "BLOCKED" /\ row.approval = "NONE"
        BY <3>1 DEF Row, RunStatus, ToolStatus, ApprovalStatus
      <4>2. Timeline(row) = Found("execute") \o <<"PolicyCheck", "ToolBlocked">>
        BY <4>1, Stories
      <4>3. /\ sess'[q].op = sess[q].op /\ sess'[q].view = row
            /\ sess'[q].events = <<"PolicyCheck", "ToolBlocked">>
        BY <3>3, <1>w DEF InvokeDenied
      <4> QED
        BY <1>3, <3>1, <4>2, <4>3
    <3> QED
      BY <2>2, <3>2, <3>3
  <2>3. CASE Reject(q)
    <3> DEFINE row == [db[sess[q].run] EXCEPT !.tool = "BLOCKED", !.approval = "REJECTED"]
    <3>1. db[sess[q].run] \in Row /\ db[sess[q].run].status = "BLOCKED" /\ sess[q].op = "reject"
      BY <1>0, <2>3, BusyType DEF Reject, TypeOK
    <3>2. row \in Row /\ row.status = "BLOCKED" /\ row.approval = "REJECTED"
      BY <3>1 DEF Row, ToolStatus, ApprovalStatus
    <3>3. Timeline(row) = Found("reject") \o <<"ApprovalRejected", "ToolBlocked">>
      BY <3>2, Stories
    <3>4. /\ sess'[q].op = sess[q].op /\ sess'[q].view = row
          /\ sess'[q].events = <<"ApprovalRejected", "ToolBlocked">>
      BY <2>3, <1>w DEF Reject
    <3> QED
      BY <1>3, <3>1, <3>3, <3>4
  <2>4. ASSUME NEW ok \in BOOLEAN, ExecuteTool(q, ok)
        PROVE  Found(sess'[q].op) \o sess'[q].events = Timeline(sess'[q].view)
    <3> DEFINE outcome == IF ok THEN "SUCCESS" ELSE "FAILED"
               row == [sess[q].view EXCEPT !.status = outcome, !.tool = outcome]
               first == IF sess[q].op = "execute"
                        THEN <<"PolicyCheck", "ToolInvoked">>
                        ELSE <<"ApprovalApproved", "ToolInvoked">>
               rest == IF ok THEN <<"ToolSucceeded", "AgentRunCompleted">>
                             ELSE <<"ToolFailed", "AgentRunFailed">>
    <3>1. /\ sess[q].op \in {"execute", "approve"} /\ sess[q].view \in Row
          /\ sess[q].view.approval = IF sess[q].op = "approve" THEN "APPROVED" ELSE "NONE"
          /\ sess[q].events = first
      BY <1>0, <2>4, BusyType DEF ExecuteTool, IInv, SessionsOK, ShapeOK, ViewOK, EventsOK
    <3>2. /\ row \in Row /\ row.status = outcome /\ row.tool = outcome
          /\ row.approval = sess[q].view.approval
      BY <3>1 DEF Row, RunStatus, ToolStatus
    <3>3. Timeline(row) = Found(sess[q].op) \o (first \o rest)
      <4>1. CASE ok /\ sess[q].op = "execute"
        BY <3>1, <3>2, <4>1, Stories
      <4>2. CASE ok /\ sess[q].op = "approve"
        BY <3>1, <3>2, <4>2, Stories
      <4>3. CASE ~ok /\ sess[q].op = "execute"
        BY <3>1, <3>2, <4>3, Stories
      <4>4. CASE ~ok /\ sess[q].op = "approve"
        BY <3>1, <3>2, <4>4, Stories
      <4> QED
        BY <3>1, <4>1, <4>2, <4>3, <4>4
    <3>4. Become(q, Work(q, "commit", row, sess[q].events \o rest))
      BY <2>4, Zenon DEF ExecuteTool
    <3> HIDE DEF row, first, rest
    <3>5. /\ sess'[q].op = sess[q].op /\ sess'[q].view = row
          /\ sess'[q].events = first \o rest
      BY <3>1, <3>4, <1>w
    <3> QED
      BY <3>3, <3>5
  <2> QED
    BY <1>3, <2>1, <2>2, <2>3, <2>4
<1> QED
  BY <1>1, <1>2, <1>3

LEMMA TimelineStep ==
    ASSUME TInv, [Next]_vars, "refresh" \notin FaultKinds
    PROVE  TimelineMatchesRows'
<1> USE DEF ghosts, rows
<1>0. /\ IInv /\ FailOK /\ TypeOK /\ EventsOK /\ RowsOK
      /\ db \in [Runs -> Row] /\ trace \in [Runs -> Seq(Event)]
      /\ \A r \in Runs : trace[r] = Timeline(db[r])
  BY DEF TInv, RInv, IInv, TypeOK, TimelineMatchesRows
<1> SUFFICES \A r \in Runs : trace'[r] = Timeline(db'[r])
  BY Zenon DEF TimelineMatchesRows
<1>q. ASSUME UNCHANGED <<db, trace>> PROVE \A r \in Runs : trace'[r] = Timeline(db'[r])
  BY <1>0, <1>q
<1>u. ASSUME NEW x \in Runs, NEW row \in Row, NEW story,
             db' = [db EXCEPT ![x] = row], trace' = [trace EXCEPT ![x] = story],
             story = Timeline(row)
      PROVE  \A r \in Runs : trace'[r] = Timeline(db'[r])
  BY <1>0, <1>u
<1>1. ASSUME NEW p \in ApiSessions, NEW x \in Runs, NEW async \in BOOLEAN, Submit(p, x, async)
      PROVE  \A r \in Runs : trace'[r] = Timeline(db'[r])
  <2> DEFINE row == [db[x] EXCEPT !.status = "PENDING"]
  <2>1. row \in Row /\ row.status = "PENDING" /\ db[x].status = "ABSENT"
    BY <1>0, <1>1 DEF Submit, Row, RunStatus
  <2>2. db' = [db EXCEPT ![x] = row] /\ trace' = trace
    BY <1>1 DEF Submit
  <2>3. trace[x] = Timeline(row)
    BY <1>0, <2>1, Stories
  <2> HIDE DEF row
  <2> QED
    BY <1>0, <2>1, <2>2, <2>3
<1>1a. ASSUME NEW p \in ApiSessions, NEW x \in Runs, SubmitUnread(p, x)
       PROVE  \A r \in Runs : trace'[r] = Timeline(db'[r])
  <2> DEFINE row == [db[x] EXCEPT !.status = "PENDING"]
  <2>1. row \in Row /\ row.status = "PENDING" /\ db[x].status = "ABSENT"
    BY <1>0, <1>1a DEF SubmitUnread, Row, RunStatus
  <2>2. db' = [db EXCEPT ![x] = row] /\ trace' = trace
    BY <1>1a DEF SubmitUnread
  <2>3. trace[x] = Timeline(row)
    BY <1>0, <2>1, Stories
  <2> HIDE DEF row
  <2> QED
    BY <1>0, <2>1, <2>2, <2>3
<1>2. ASSUME NEW p \in Sessions, Claim(p) PROVE \A r \in Runs : trace'[r] = Timeline(db'[r])
  <2> DEFINE x == sess[p].run
             row == [db[x] EXCEPT !.status = "RUNNING"]
  <2>1. x \in Runs /\ db[x].status = "PENDING"
    BY <1>0, <1>2, BusyType DEF Claim
  <2>2. row \in Row /\ row.status = "RUNNING"
    BY <1>0, <2>1 DEF Row, RunStatus
  <2>3. trace[x] = <<>>
    BY <1>0, <2>1, Stories
  <2>4. Append(trace[x], "AgentRunStarted") = Timeline(row)
    <3>1. Timeline(row) = <<"AgentRunStarted">>
      BY <2>2, Stories DEF Found
    <3>2. Append(<<>>, "AgentRunStarted") = <<"AgentRunStarted">>
      OBVIOUS
    <3> QED
      BY <2>3, <3>1, <3>2
  <2>5. db' = [db EXCEPT ![x] = row] /\ trace' = [trace EXCEPT ![x] = Append(trace[x], "AgentRunStarted")]
    BY <1>2 DEF Claim
  <2> HIDE DEF row, x
  <2> QED
    BY <2>1, <2>2, <2>4, <2>5, <1>u
<1>3. ASSUME NEW p \in Sessions, Commit(p) PROVE \A r \in Runs : trace'[r] = Timeline(db'[r])
  <2> DEFINE x == sess[p].run
             row == sess[p].view
  <2>1. /\ sess[p].pc = "commit" /\ x \in Runs /\ row \in Row /\ sess[p].op \in Op
        /\ ShapeOK(p) /\ HeldOK(p)
    BY <1>0, <1>3, BusyType DEF Commit, IInv, SessionsOK
  <2>2. trace[x] = Found(sess[p].op)
    <3>1. CASE sess[p].op = "execute"
      <4>1. db[x].status = "RUNNING"
        BY <2>1, <3>1 DEF HeldOK, Owner
      <4> QED
        BY <1>0, <2>1, <3>1, <4>1, Stories
    <3>2. CASE sess[p].op \in Review
      <4>1. db[x].status = "BLOCKED" /\ db[x].approval = "PENDING"
        BY <2>1, <3>2 DEF HeldOK, Reviewer
      <4> QED
        BY <1>0, <2>1, <3>2, <4>1, Stories DEF Review
    <3> QED
      BY <2>1, <3>1, <3>2 DEF ShapeOK, Op, Review
  <2>3. trace[x] \o sess[p].events = Timeline(row)
    BY <1>0, <2>1, <2>2 DEF EventsOK
  <2>4. db' = [db EXCEPT ![x] = row] /\ trace' = [trace EXCEPT ![x] = trace[x] \o sess[p].events]
    BY <1>3 DEF Commit
  <2> HIDE DEF row, x
  <2> QED
    BY <2>1, <2>3, <2>4, <1>u
<1>4. ASSUME NEW p \in Sessions, RecordFailure(p)
      PROVE  \A r \in Runs : trace'[r] = Timeline(db'[r])
  <2> DEFINE x == sess[p].run
             row == [db[x] EXCEPT !.status = "FAILED"]
  <2>1. x \in Runs /\ db[x].status = "RUNNING"
    BY <1>0, <1>4, BusyType DEF RecordFailure, FailOK
  <2>2. row \in Row /\ row.status = "FAILED" /\ row.tool = "NONE"
    BY <1>0, <2>1 DEF Row, RunStatus, RowsOK, RowOK
  <2>3. trace[x] = Found("execute")
    BY <1>0, <2>1, Stories
  <2>4. Append(trace[x], "AgentRunFailed") = Timeline(row)
    BY <2>2, <2>3, Stories
  <2>5. db' = [db EXCEPT ![x] = row] /\ trace' = [trace EXCEPT ![x] = Append(trace[x], "AgentRunFailed")]
    BY <1>4 DEF RecordFailure
  <2> HIDE DEF row, x
  <2> QED
    BY <2>1, <2>2, <2>4, <2>5, <1>u
<1>5. ASSUME NEW p \in Sessions, Step(p) PROVE \A r \in Runs : trace'[r] = Timeline(db'[r])
  <2>1. CASE Claim(p) \/ Commit(p) \/ RecordFailure(p)
    BY <2>1, <1>2, <1>3, <1>4
  <2>2. CASE ~(Claim(p) \/ Commit(p) \/ RecordFailure(p))
    <3>1. UNCHANGED <<db, trace>>
      BY <1>5, <2>2 DEF Step, Enqueue, ClaimRejected, UnknownTool, InvokeAllowed,
         InvokeNeedsApproval, InvokeDenied, ExecuteTool, Refresh, LockApproval, LockRunRejected,
         Approve, Reject
    <3> QED
      BY <3>1, <1>q
  <2> QED
    BY <2>1, <2>2
<1>6. \/ \E p \in ApiSessions, x \in Runs, async \in BOOLEAN : Submit(p, x, async)
      \/ \E p \in ApiSessions, x \in Runs : SubmitUnread(p, x)
      \/ \E p \in Sessions : Step(p)
      \/ UNCHANGED <<db, trace>>
  BY DEF Next, vars, SubmitFails, BeginReview, Deliver, EnqueueFails, RefreshFails, DbError, Crash,
     Redeliver
<1> QED
  BY <1>1, <1>1a, <1>5, <1>6, <1>q

\* The committed trace rows of a run tell exactly the story of its committed
\* rows, whatever crashes, fails or is delivered twice (runtime.py:97-218,
\* safety_gateway.py:147-279, approvals.py:134-183), as long as the read after execute_run's
\* commit does not fail.
THEOREM TimelineTellsRows ==
    ASSUME "refresh" \notin FaultKinds
    PROVE  Spec => []TimelineMatchesRows
<1>1. TInv /\ [Next]_vars => TInv'
  BY RStep, EventsStep, TimelineStep DEF TInv
<1>2. TInv => TimelineMatchesRows
  BY DEF TInv
<1> QED
  BY <1>1, <1>2, InitTInv, PTL DEF Spec
=============================================================================
