------------------------ MODULE RunExecution_proofs ------------------------
(***************************************************************************)
(* Proofs about RunExecution, for any number of runs, sessions, workers    *)
(* and faults.                                                             *)
(***************************************************************************)
EXTENDS RunExecution, TLAPS

LEMMA DecisionType ==
    ASSUME NEW q
    PROVE  Decision(q) \in {"ALLOW", "REQUIRE_APPROVAL", "DENY", "UNKNOWN"}
BY DEF Decision, Evaluate, DefaultRule

LEMMA AbsentType == Absent \in Row
BY DEF Absent, Row, RunStatus, ToolStatus, ApprovalStatus

LEMMA AtType ==
    ASSUME NEW l \in Pc, NEW o \in Op, NEW r \in Runs \cup {NoRun}
    PROVE  At(l, o, r) \in Session
<1>1. <<>> \in Seq(Event)
  OBVIOUS
<1> QED
  BY <1>1, AbsentType DEF At, Session

LEMMA IdleType == Idle \in Session /\ Idle.pc = "idle" /\ Idle.run = NoRun
BY AtType DEF Idle, At, Pc, Op

\* A session that is doing something works on a run and its parts are typed.
LEMMA BusyType ==
    ASSUME TypeOK, NEW p \in Sessions, sess[p].pc # "idle"
    PROVE  /\ sess[p].run \in Runs
           /\ sess[p].op \in Op
           /\ sess[p].view \in Row
           /\ sess[p].events \in Seq(Event)
           /\ db[sess[p].run] \in Row
BY DEF TypeOK, Session

\* The three ways in which a session changes.
LEMMA ToIdle ==
    ASSUME TypeOK, NEW p \in Sessions, Become(p, Idle)
    PROVE  /\ sess' \in [Sessions -> Session]
           /\ \A q \in Sessions : sess'[q].run = NoRun <=> sess'[q].pc = "idle"
BY IdleType DEF TypeOK, Become

LEMMA ToAt ==
    ASSUME TypeOK, NEW p \in Sessions, NEW l \in Pc \ {"idle"}, NEW o \in Op, NEW r \in Runs,
           Become(p, At(l, o, r))
    PROVE  /\ sess' \in [Sessions -> Session]
           /\ \A q \in Sessions : sess'[q].run = NoRun <=> sess'[q].pc = "idle"
<1>1. At(l, o, r) \in Session /\ At(l, o, r).run = r /\ At(l, o, r).pc = l
  BY AtType DEF At
<1> QED
  BY <1>1, ConstantsAssumption DEF TypeOK, Become

LEMMA ToWork ==
    ASSUME TypeOK, NEW p \in Sessions, sess[p].pc # "idle",
           NEW l \in Pc \ {"idle"}, NEW row \in Row, NEW evs \in Seq(Event),
           Become(p, Work(p, l, row, evs))
    PROVE  /\ sess' \in [Sessions -> Session]
           /\ \A q \in Sessions : sess'[q].run = NoRun <=> sess'[q].pc = "idle"
<1> DEFINE w == Work(p, l, row, evs)
<1>1. w \in Session /\ w.run = sess[p].run /\ w.pc = l
  BY BusyType DEF Work, Session
<1>2. w.run # NoRun
  BY <1>1 DEF TypeOK
<1> QED
  BY <1>1, <1>2 DEF TypeOK, Become

LEMMA InitTypeOK == Init => TypeOK
<1> SUFFICES ASSUME Init PROVE TypeOK
  OBVIOUS
<1>1. faults \in 0..MaxFaults
  BY ConstantsAssumption DEF Init
<1> QED
  BY <1>1, AbsentType, IdleType DEF Init, TypeOK

\* Every action keeps the types.
LEMMA TypeStep == TypeOK /\ [Next]_vars => TypeOK'
<1> SUFFICES ASSUME TypeOK, [Next]_vars PROVE TypeOK'
  OBVIOUS
<1> USE DEF ghosts, rows
<1> DEFINE SessOK == /\ sess \in [Sessions -> Session]
                     /\ \A q \in Sessions : sess[q].run = NoRun <=> sess[q].pc = "idle"
           RestOK == /\ request \in [Runs -> Requests]
                     /\ db \in [Runs -> Row]
                     /\ trace \in [Runs -> Seq(Event)]
                     /\ queue \in [Runs -> Nat]
                     /\ effects \in [Runs -> Nat]
                     /\ lost \in [Runs -> Nat]
                     /\ faults \in 0..MaxFaults
<1>a. TypeOK <=> SessOK /\ RestOK
  BY DEF TypeOK
<1>b. TypeOK' <=> SessOK' /\ RestOK'
  BY DEF TypeOK
<1> HIDE DEF SessOK
<1>c. ASSUME NEW k, Fault(k) PROVE faults' \in 0..MaxFaults
  BY <1>a, <1>c, ConstantsAssumption DEF Fault
<1>1. ASSUME NEW p \in ApiSessions, NEW r \in Runs, NEW async \in BOOLEAN, Submit(p, r, async)
      PROVE  TypeOK'
  <2>1. SessOK'
    BY <1>1, ToAt DEF SessOK, Submit, Pc, Op, Sessions
  <2>2. RestOK'
    BY <1>1, <1>a DEF Submit, Row, RunStatus
  <2> QED
    BY <1>b, <2>1, <2>2
<1>2. ASSUME NEW p \in ApiSessions, NEW r \in Runs, NEW o \in Review, BeginReview(p, r, o)
      PROVE  TypeOK'
  <2>1. SessOK'
    BY <1>2, ToAt DEF SessOK, BeginReview, Pc, Op, Review, Sessions
  <2> QED
    BY <1>2, <1>a, <1>b, <2>1 DEF BeginReview
<1>3. ASSUME NEW w \in Workers, NEW r \in Runs, Deliver(w, r) PROVE TypeOK'
  <2>1. SessOK'
    BY <1>3, ToAt DEF SessOK, Deliver, Pc, Op, Sessions
  <2> QED
    BY <1>3, <1>a, <1>b, <2>1 DEF Deliver
<1>4. ASSUME NEW p \in Sessions, Step(p) PROVE TypeOK'
  <2> DEFINE s == sess[p]
  <2>0. /\ s.pc # "idle"
        /\ s.run \in Runs /\ s.op \in Op /\ s.view \in Row /\ s.events \in Seq(Event)
        /\ db[s.run] \in Row
    <3>1. s.pc # "idle"
      BY <1>4 DEF Step, Enqueue, Claim, ClaimRejected, UnknownTool, InvokeAllowed,
         InvokeNeedsApproval, InvokeDenied, ExecuteTool, Commit, Refresh, RecordFailure,
         LockApproval, LockRunRejected, Approve, Reject
    <3> QED
      BY <3>1, BusyType
  <2> DEFINE ToL(l, row, evs) == Become(p, Work(p, l, row, evs))
  <2>w. \A l \in Pc \ {"idle"}, row \in Row, evs \in Seq(Event) : ToL(l, row, evs) => SessOK'
    BY <2>0, ToWork DEF SessOK
  <2>i. Become(p, Idle) => SessOK'
    BY ToIdle DEF SessOK
  <2> HIDE DEF ToL
  <2>1. CASE Enqueue(p)
    <3>1. SessOK'
      BY <2>1, <2>i DEF Enqueue
    <3>2. queue' \in [Runs -> Nat]
      BY <2>1, <2>0, <1>a DEF Enqueue
    <3> QED
      BY <2>1, <3>1, <3>2, <1>a, <1>b DEF Enqueue
  <2>2. CASE Claim(p)
    <3> DEFINE running == [db[s.run] EXCEPT !.status = "RUNNING"]
    <3>1. running \in Row
      BY <2>0 DEF Row, RunStatus
    <3>2. SessOK'
      <4>1. ToL("invoke", running, <<>>)
        BY <2>2 DEF Claim, ToL
      <4>2. <<>> \in Seq(Event)
        OBVIOUS
      <4> QED
        BY <2>w, <3>1, <4>1, <4>2 DEF Pc
    <3>3. RestOK'
      BY <2>2, <2>0, <3>1, <1>a DEF Claim, Event
    <3> QED
      BY <3>2, <3>3, <1>b
  <2>3. CASE ClaimRejected(p)
    BY <2>3, <2>i, <1>a, <1>b DEF ClaimRejected
  <2>4. CASE UnknownTool(p)
    <3>1. SessOK'
      BY <2>4, <2>0, ToAt DEF SessOK, UnknownTool, Pc, Op
    <3> QED
      BY <2>4, <3>1, <1>a, <1>b DEF UnknownTool
  <2>5. CASE InvokeAllowed(p)
    <3>1. [s.view EXCEPT !.tool = "RUNNING"] \in Row
      BY <2>0 DEF Row, ToolStatus
    <3>2. ToL("execute", [s.view EXCEPT !.tool = "RUNNING"], <<"PolicyCheck", "ToolInvoked">>)
      BY <2>5 DEF InvokeAllowed, ToL
    <3>3. <<"PolicyCheck", "ToolInvoked">> \in Seq(Event)
      BY DEF Event
    <3>4. SessOK'
      BY <2>w, <3>1, <3>2, <3>3 DEF Pc
    <3> QED
      BY <2>5, <3>4, <1>a, <1>b DEF InvokeAllowed
  <2>6. CASE InvokeNeedsApproval(p)
    <3> DEFINE row == [s.view EXCEPT !.status = "BLOCKED", !.tool = "BLOCKED", !.approval = "PENDING"]
               evs == <<"PolicyCheck", "ApprovalRequested", "ToolBlocked">>
    <3>1. row \in Row
      BY <2>0 DEF Row, RunStatus, ToolStatus, ApprovalStatus
    <3>2. ToL("commit", row, evs)
      BY <2>6 DEF InvokeNeedsApproval, ToL
    <3>3. evs \in Seq(Event)
      BY DEF Event
    <3>4. SessOK'
      BY <2>w, <3>1, <3>2, <3>3 DEF Pc
    <3> QED
      BY <2>6, <3>4, <1>a, <1>b DEF InvokeNeedsApproval
  <2>7. CASE InvokeDenied(p)
    <3> DEFINE row == [s.view EXCEPT !.status = "BLOCKED", !.tool = "BLOCKED"]
               evs == <<"PolicyCheck", "ToolBlocked">>
    <3>1. row \in Row
      BY <2>0 DEF Row, RunStatus, ToolStatus
    <3>2. ToL("commit", row, evs)
      BY <2>7 DEF InvokeDenied, ToL
    <3>3. evs \in Seq(Event)
      BY DEF Event
    <3>4. SessOK'
      BY <2>w, <3>1, <3>2, <3>3 DEF Pc
    <3> QED
      BY <2>7, <3>4, <1>a, <1>b DEF InvokeDenied
  <2>8. ASSUME NEW ok \in BOOLEAN, ExecuteTool(p, ok) PROVE TypeOK'
    <3> DEFINE outcome == IF ok THEN "SUCCESS" ELSE "FAILED"
               more == IF ok THEN <<"ToolSucceeded", "AgentRunCompleted">>
                             ELSE <<"ToolFailed", "AgentRunFailed">>
    <3>1. [s.view EXCEPT !.status = outcome, !.tool = outcome] \in Row
      BY <2>0 DEF Row, RunStatus, ToolStatus
    <3>2. /\ <<"ToolSucceeded", "AgentRunCompleted">> \in Seq(Event)
          /\ <<"ToolFailed", "AgentRunFailed">> \in Seq(Event)
      BY DEF Event
    <3>3. s.events \o more \in Seq(Event)
      BY <3>2, <2>0
    <3>4. SessOK'
      <4>1. ToL("commit", [s.view EXCEPT !.status = outcome, !.tool = outcome],
                s.events \o more)
        BY <2>8 DEF ExecuteTool, ToL
      <4> QED
        BY <2>w, <3>1, <3>3, <4>1 DEF Pc
    <3>5. effects' \in [Runs -> Nat]
      BY <2>8, <2>0, <1>a DEF ExecuteTool
    <3> QED
      BY <2>8, <3>4, <3>5, <1>a, <1>b DEF ExecuteTool
  <2>9. CASE Commit(p)
    <3>1. SessOK'
      BY <2>9, <2>0, <2>i, ToAt DEF SessOK, Commit, Pc, Op
    <3>2. RestOK'
      BY <2>9, <2>0, <1>a DEF Commit
    <3> QED
      BY <3>1, <3>2, <1>b
  <2>10. CASE Refresh(p)
    BY <2>10, <2>i, <1>a, <1>b DEF Refresh
  <2>11. CASE RecordFailure(p)
    <3> DEFINE failed == [db[s.run] EXCEPT !.status = "FAILED"]
    <3>0. failed \in Row
      BY <2>0 DEF Row, RunStatus
    <3>1. RestOK'
      BY <2>11, <2>0, <3>0, <1>a DEF RecordFailure, Event
    <3> QED
      BY <2>11, <2>i, <3>1, <1>b DEF RecordFailure
  <2>12. CASE LockApproval(p)
    <3>1. SessOK'
      BY <2>12, <2>0, <2>i, ToAt DEF SessOK, LockApproval, Pc
    <3> QED
      BY <2>12, <3>1, <1>a, <1>b DEF LockApproval
  <2>13. CASE LockRunRejected(p)
    BY <2>13, <2>i, <1>a, <1>b DEF LockRunRejected
  <2>14. CASE Approve(p)
    <3> DEFINE row == [db[s.run] EXCEPT !.status = "RUNNING", !.tool = "RUNNING", !.approval = "APPROVED"]
               evs == <<"ApprovalApproved", "ToolInvoked">>
    <3>1. row \in Row
      BY <2>0 DEF Row, RunStatus, ToolStatus, ApprovalStatus
    <3>2. ToL("execute", row, evs)
      BY <2>14 DEF Approve, ToL
    <3>3. evs \in Seq(Event)
      BY DEF Event
    <3>4. SessOK'
      BY <2>w, <3>1, <3>2, <3>3 DEF Pc
    <3> QED
      BY <2>14, <3>4, <1>a, <1>b DEF Approve
  <2>15. CASE Reject(p)
    <3> DEFINE row == [db[s.run] EXCEPT !.tool = "BLOCKED", !.approval = "REJECTED"]
               evs == <<"ApprovalRejected", "ToolBlocked">>
    <3>1. row \in Row
      BY <2>0 DEF Row, ToolStatus, ApprovalStatus
    <3>2. ToL("commit", row, evs)
      BY <2>15 DEF Reject, ToL
    <3>3. evs \in Seq(Event)
      BY DEF Event
    <3>4. SessOK'
      BY <2>w, <3>1, <3>2, <3>3 DEF Pc
    <3> QED
      BY <2>15, <3>4, <1>a, <1>b DEF Reject
  <2> QED
    BY <1>4, <2>1, <2>2, <2>3, <2>4, <2>5, <2>6, <2>7, <2>8, <2>9, <2>10, <2>11, <2>12, <2>13,
       <2>14, <2>15 DEF Step
<1>5. ASSUME NEW p \in Sessions, EnqueueFails(p) \/ RefreshFails(p) \/ DbError(p) \/ Crash(p)
      PROVE  TypeOK'
  <2>i. Become(p, Idle) => SessOK'
    BY ToIdle DEF SessOK
  <2>f. sess[p].pc # "idle" /\ Become(p, At("fail", "execute", sess[p].run)) => SessOK'
    BY BusyType, ToAt DEF SessOK, Pc, Op
  <2>l. RollBack(p) => lost' \in [Runs -> Nat]
    BY <1>a, BusyType DEF RollBack, Executed
  <2>1. CASE EnqueueFails(p)
    BY <2>1, <2>i, <1>a, <1>b, <1>c DEF EnqueueFails
  <2>2. CASE RefreshFails(p)
    BY <2>2, <2>f, <1>a, <1>b, <1>c DEF RefreshFails
  <2>3. CASE DbError(p)
    BY <2>3, <2>f, <2>i, <2>l, <1>a, <1>b, <1>c DEF DbError
  <2>4. CASE Crash(p)
    BY <2>4, <2>i, <2>l, <1>a, <1>b, <1>c DEF Crash
  <2> QED
    BY <1>5, <2>1, <2>2, <2>3, <2>4
<1>6. ASSUME NEW r \in Runs, Redeliver(r) PROVE TypeOK'
  BY <1>6, <1>a, <1>b, <1>c DEF SessOK, Redeliver
<1>7. ASSUME NEW p \in ApiSessions, SubmitFails(p) PROVE TypeOK'
  BY <1>7, <1>a, <1>b, <1>c DEF SessOK, SubmitFails
<1>7a. ASSUME NEW p \in ApiSessions, NEW r \in Runs, SubmitUnread(p, r) PROVE TypeOK'
  <2>1. SessOK'
    BY <1>7a, ToIdle DEF SessOK, SubmitUnread, Sessions
  <2>2. RestOK'
    BY <1>7a, <1>a, <1>c DEF SubmitUnread, Row, RunStatus
  <2> QED
    BY <1>b, <2>1, <2>2
<1>8. CASE UNCHANGED vars
  BY <1>8, <1>a, <1>b DEF SessOK, vars
<1> QED
  BY <1>1, <1>2, <1>3, <1>4, <1>5, <1>6, <1>7, <1>7a, <1>8 DEF Next

\* The rows, the sessions and the counters always have the types the code gives
\* them: db/models/{runtime,approval}.py and the points a handler passes.
THEOREM TypeCorrect == Spec => []TypeOK
<1>1. TypeOK /\ [Next]_vars => TypeOK'
  BY TypeStep
<1> QED
  BY InitTypeOK, <1>1, PTL DEF Spec

-----------------------------------------------------------------------------
LEMMA Becomes ==
    ASSUME TypeOK, NEW p \in Sessions, NEW s, Become(p, s)
    PROVE  /\ sess'[p] = s
           /\ \A q \in Sessions : q # p => sess'[q] = sess[q]
BY DEF TypeOK, Become

\* What the invariant says of a session survives a step of another session
\* that leaves the row it works on alone.
LEMMA OtherSession ==
    ASSUME IInv, NEW q \in Sessions, sess'[q] = sess[q], UNCHANGED request,
           sess[q].pc # "idle" => db'[sess[q].run] = db[sess[q].run]
    PROVE  /\ Owner(q)' <=> Owner(q)
           /\ Reviewer(q)' <=> Reviewer(q)
           /\ Executed(q)' <=> Executed(q)
           /\ ShapeOK(q)' /\ ViewOK(q)' /\ HeldOK(q)'
<1>1. ShapeOK(q) /\ ViewOK(q) /\ HeldOK(q)
  BY DEF IInv, SessionsOK
<1>2. Owner(q) \/ Reviewer(q) => sess[q].pc # "idle"
  BY DEF Owner, Reviewer
<1>3. Owner(q)' <=> Owner(q)
  BY DEF Owner
<1>4. Reviewer(q)' <=> Reviewer(q)
  BY DEF Reviewer
<1>5. HeldOK(q)'
  BY <1>1, <1>2, <1>3, <1>4 DEF HeldOK
<1> QED
  BY <1>1, <1>3, <1>4, <1>5 DEF Executed, ShapeOK, ViewOK

\* A step of p that leaves the rows and the ghosts alone keeps the invariant
\* when what it says of p itself is right and p takes no run or request over.
LEMMA QuietStep ==
    ASSUME IInv, TypeOK', NEW p \in Sessions, NEW s, Become(p, s),
           UNCHANGED <<request, db, effects, lost>>,
           ~Executed(p), ~Executed(p)',
           ShapeOK(p)', ViewOK(p)', HeldOK(p)',
           Owner(p)' => Owner(p) /\ s.run = sess[p].run,
           Owner(p)' /\ s.pc \in {"invoke", "execute"} => sess[p].pc \in {"invoke", "execute"},
           Reviewer(p)' => \/ Reviewer(p) /\ s.run = sess[p].run
                           \/ ApprovalUnlocked(s.run)
    PROVE  IInv'
<1>1. /\ sess'[p] = s
      /\ \A q \in Sessions : q # p => sess'[q] = sess[q]
  BY Becomes DEF IInv
<1>2. ASSUME NEW q \in Sessions, q # p
      PROVE  /\ Owner(q)' <=> Owner(q)
             /\ Reviewer(q)' <=> Reviewer(q)
             /\ Executed(q)' <=> Executed(q)
             /\ ShapeOK(q)' /\ ViewOK(q)' /\ HeldOK(q)'
  BY <1>1, <1>2, OtherSession
<1>3. RowsOK'
  BY DEF IInv, RowsOK
<1>4. OneOwner'
  BY <1>1, <1>2 DEF IInv, OneOwner
<1>5. OneReviewer'
  <2>1. \A q \in Sessions : Reviewer(q) => HoldsApproval(q, sess[q].run)
    BY DEF Reviewer, HoldsApproval
  <2>2. \A q \in Sessions : ApprovalUnlocked(s.run) /\ Reviewer(q) => sess[q].run # s.run
    BY <2>1 DEF ApprovalUnlocked
  <2> QED
    BY <1>1, <1>2, <2>2 DEF IInv, OneReviewer
<1>6. SessionsOK'
  BY <1>2 DEF SessionsOK
<1>7. CallsOK'
  BY <1>1, <1>2 DEF IInv, CallsOK
<1>8. EffectsAccounted'
  <2>1. ASSUME NEW r \in Runs PROVE InFlight(r)' <=> InFlight(r)
    BY <1>1, <1>2 DEF InFlight
  <2> QED
    BY <2>1 DEF IInv, EffectsAccounted, Accounted, Recorded
<1> QED
  BY <1>3, <1>4, <1>5, <1>6, <1>7, <1>8 DEF IInv

LEMMA BeginReviewStep ==
    ASSUME IInv, TypeOK', NEW p \in Sessions, NEW r \in Runs, NEW o \in Review, BeginReview(p, r, o)
    PROVE  IInv'
<1> DEFINE s == At("lockApproval", o, r)
<1>1. Become(p, s) /\ sess'[p] = s
  BY Becomes DEF IInv, BeginReview
<1>2. s.pc = "lockApproval" /\ s.run = r /\ s.op = o
  BY DEF At
<1> HIDE DEF s
<1> QED
  BY <1>1, <1>2, QuietStep DEF BeginReview, Executed, ShapeOK, ViewOK, HeldOK, Owner, Reviewer,
     Review, rows, ghosts

LEMMA DeliverStep ==
    ASSUME IInv, TypeOK', NEW p \in Sessions, NEW r \in Runs, Deliver(p, r)
    PROVE  IInv'
<1> DEFINE s == At("claim", "execute", r)
<1>1. Become(p, s) /\ sess'[p] = s
  BY Becomes DEF IInv, Deliver
<1>2. s.pc = "claim" /\ s.run = r /\ s.op = "execute"
  BY DEF At
<1> HIDE DEF s
<1> QED
  BY <1>1, <1>2, QuietStep DEF Deliver, Executed, ShapeOK, ViewOK, HeldOK, Owner, Reviewer,
     Review, rows, ghosts

\* A session that gives up before a tool call, or has nothing left to do.
LEMMA QuitStep ==
    ASSUME IInv, TypeOK', NEW p \in Sessions, Become(p, Idle), ~Executed(p),
           UNCHANGED <<request, db, effects, lost>>
    PROVE  IInv'
<1>1. sess'[p] = Idle
  BY Becomes DEF IInv
<1>2. Idle.pc = "idle" /\ Idle.op = "none"
  BY DEF Idle, At
<1> QED
  BY <1>1, <1>2, QuietStep DEF Executed, ShapeOK, ViewOK, HeldOK, Owner, Reviewer, Review

\* The same, when the run has to be marked FAILED.
LEMMA ToFailStep ==
    ASSUME IInv, TypeOK', NEW p \in Sessions, Owner(p), ~Executed(p),
           Become(p, At("fail", "execute", sess[p].run)),
           UNCHANGED <<request, db, effects, lost>>
    PROVE  IInv'
<1> DEFINE s == At("fail", "execute", sess[p].run)
<1>1. Become(p, s) /\ sess'[p] = s
  BY Becomes DEF IInv
<1>2. s.pc = "fail" /\ s.run = sess[p].run /\ s.op = "execute"
  BY DEF At
<1>3. HeldOK(p)
  BY DEF IInv, SessionsOK
<1> HIDE DEF s
<1> QED
  BY <1>1, <1>2, <1>3, QuietStep DEF Executed, ShapeOK, ViewOK, HeldOK, Owner, Reviewer, Review

\* What is known of the session that claimed a run when it calls the gateway.
LEMMA AtInvoke ==
    ASSUME IInv, NEW p \in Sessions, sess[p].pc = "invoke"
    PROVE  /\ sess[p].op = "execute" /\ sess[p].run \in Runs /\ Owner(p) /\ ~Reviewer(p)
           /\ sess[p].view = db[sess[p].run] /\ sess[p].view \in Row
           /\ sess[p].view.status = "RUNNING"
           /\ sess[p].view.tool = "NONE" /\ sess[p].view.approval = "NONE"
<1>1. sess[p].op = "execute" /\ sess[p].run \in Runs /\ sess[p].view \in Row
  BY BusyType DEF IInv, SessionsOK, ShapeOK
<1>2. sess[p].view = db[sess[p].run] /\ db[sess[p].run].status = "RUNNING"
  BY <1>1 DEF IInv, SessionsOK, ViewOK, HeldOK, Owner
<1> QED
  BY <1>1, <1>2 DEF IInv, RowsOK, RowOK, Owner, Reviewer, Review

LEMMA InvokeAllowedStep ==
    ASSUME IInv, TypeOK', NEW p \in Sessions, InvokeAllowed(p)
    PROVE  IInv'
<1> DEFINE row == [sess[p].view EXCEPT !.tool = "RUNNING"]
           s == Work(p, "execute", row, <<"PolicyCheck", "ToolInvoked">>)
<1>1. Become(p, s) /\ sess'[p] = s
  BY Becomes DEF IInv, InvokeAllowed
<1>2. s.pc = "execute" /\ s.run = sess[p].run /\ s.op = sess[p].op /\ s.view = row
  BY DEF Work
<1>3. row.tool = "RUNNING" /\ row.approval = "NONE"
  BY AtInvoke DEF InvokeAllowed, Row
<1> HIDE DEF s, row
<1> QED
  BY <1>1, <1>2, <1>3, AtInvoke, QuietStep DEF InvokeAllowed, Executed, ShapeOK, ViewOK, HeldOK,
     Owner, Reviewer, Review, rows, ghosts

LEMMA InvokeNeedsApprovalStep ==
    ASSUME IInv, TypeOK', NEW p \in Sessions, InvokeNeedsApproval(p)
    PROVE  IInv'
<1> DEFINE row == [sess[p].view EXCEPT !.status = "BLOCKED", !.tool = "BLOCKED",
                                       !.approval = "PENDING"]
           s == Work(p, "commit", row, <<"PolicyCheck", "ApprovalRequested", "ToolBlocked">>)
<1>1. Become(p, s) /\ sess'[p] = s
  BY Becomes DEF IInv, InvokeNeedsApproval
<1>2. s.pc = "commit" /\ s.run = sess[p].run /\ s.op = sess[p].op /\ s.view = row
  BY DEF Work
<1>3. row.status = "BLOCKED" /\ row.tool = "BLOCKED" /\ row.approval = "PENDING"
  BY AtInvoke DEF InvokeNeedsApproval, Row
<1>4. RowOK(request[sess[p].run], row)
  BY <1>3 DEF RowOK, InvokeNeedsApproval
<1> HIDE DEF s, row
<1>5. /\ sess[p].pc = "invoke" /\ sess[p].op = "execute" /\ Owner(p) /\ HeldOK(p)
      /\ UNCHANGED <<request, db, effects, lost>>
  BY AtInvoke DEF InvokeNeedsApproval, Owner, HeldOK, rows, ghosts
<1>6. Owner(p)' /\ ~Reviewer(p)' /\ ~Executed(p) /\ ~Executed(p)'
  BY <1>1, <1>2, <1>3, <1>5 DEF Owner, Reviewer, Review, Executed
<1>7. ShapeOK(p)' /\ HeldOK(p)'
  BY <1>1, <1>2, <1>5, <1>6 DEF ShapeOK, HeldOK, Owner
<1>8. ViewOK(p)'
  BY <1>1, <1>2, <1>3, <1>4, <1>5, AtInvoke DEF ViewOK, InvokeNeedsApproval
<1> QED
  BY <1>1, <1>2, <1>5, <1>6, <1>7, <1>8, QuietStep

LEMMA InvokeDeniedStep ==
    ASSUME IInv, TypeOK', NEW p \in Sessions, InvokeDenied(p)
    PROVE  IInv'
<1> DEFINE row == [sess[p].view EXCEPT !.status = "BLOCKED", !.tool = "BLOCKED"]
           s == Work(p, "commit", row, <<"PolicyCheck", "ToolBlocked">>)
<1>1. Become(p, s) /\ sess'[p] = s
  BY Becomes DEF IInv, InvokeDenied
<1>2. s.pc = "commit" /\ s.run = sess[p].run /\ s.op = sess[p].op /\ s.view = row
  BY DEF Work
<1>3. row.status = "BLOCKED" /\ row.tool = "BLOCKED" /\ row.approval = "NONE"
  BY AtInvoke DEF InvokeDenied, Row
<1>4. RowOK(request[sess[p].run], row)
  BY <1>3 DEF RowOK
<1> HIDE DEF s, row
<1>5. /\ sess[p].pc = "invoke" /\ sess[p].op = "execute" /\ Owner(p) /\ HeldOK(p)
      /\ UNCHANGED <<request, db, effects, lost>>
  BY AtInvoke DEF InvokeDenied, Owner, HeldOK, rows, ghosts
<1>6. Owner(p)' /\ ~Reviewer(p)' /\ ~Executed(p) /\ ~Executed(p)'
  BY <1>1, <1>2, <1>3, <1>5 DEF Owner, Reviewer, Review, Executed
<1>7. ShapeOK(p)' /\ HeldOK(p)'
  BY <1>1, <1>2, <1>5, <1>6 DEF ShapeOK, HeldOK, Owner
<1>8. ViewOK(p)'
  BY <1>1, <1>2, <1>3, <1>4, <1>5, AtInvoke DEF ViewOK, InvokeDenied
<1> QED
  BY <1>1, <1>2, <1>5, <1>6, <1>7, <1>8, QuietStep

LEMMA LockApprovalStep ==
    ASSUME IInv, TypeOK', NEW p \in Sessions, LockApproval(p)
    PROVE  IInv'
<1> DEFINE r == sess[p].run
           s == At("lockRun", sess[p].op, r)
<1>0. ~Executed(p) /\ sess[p].op \in Review
  BY DEF IInv, LockApproval, Executed, SessionsOK, ShapeOK
<1>1. CASE db[r].approval = "PENDING"
  <2>1. Become(p, s) /\ sess'[p] = s
    BY <1>1, Becomes DEF IInv, LockApproval
  <2>2. s.pc = "lockRun" /\ s.run = r /\ s.op = sess[p].op
    BY DEF At
  <2> HIDE DEF s
  <2> QED
    BY <1>0, <1>1, <2>1, <2>2, QuietStep DEF LockApproval, Executed, ShapeOK, ViewOK, HeldOK, Owner,
       Reviewer, Review, rows, ghosts
<1>2. CASE db[r].approval # "PENDING"
  BY <1>0, <1>2, QuitStep DEF LockApproval, rows, ghosts
<1> QED
  BY <1>1, <1>2

\* What is known of the reviewer that has both rows locked.
LEMMA AtLockRun ==
    ASSUME IInv, NEW p \in Sessions, sess[p].pc = "lockRun"
    PROVE  /\ sess[p].op \in Review /\ sess[p].run \in Runs /\ Reviewer(p) /\ ~Owner(p)
           /\ db[sess[p].run] \in Row
           /\ db[sess[p].run].approval = "PENDING"
           /\ Decision(request[sess[p].run]) = "REQUIRE_APPROVAL"
<1>1. sess[p].op \in Review /\ sess[p].run \in Runs /\ db[sess[p].run] \in Row
  BY BusyType DEF IInv, SessionsOK, ShapeOK
<1>2. Reviewer(p) /\ ~Owner(p)
  BY <1>1 DEF Reviewer, Owner
<1>3. db[sess[p].run].approval = "PENDING"
  BY <1>2 DEF IInv, SessionsOK, HeldOK
<1> QED
  BY <1>1, <1>2, <1>3 DEF IInv, RowsOK, RowOK

LEMMA ApproveStep ==
    ASSUME IInv, TypeOK', NEW p \in Sessions, Approve(p)
    PROVE  IInv'
<1> DEFINE r == sess[p].run
           row == [db[r] EXCEPT !.status = "RUNNING", !.tool = "RUNNING", !.approval = "APPROVED"]
           s == Work(p, "execute", row, <<"ApprovalApproved", "ToolInvoked">>)
<1>1. Become(p, s) /\ sess'[p] = s
  BY Becomes DEF IInv, Approve
<1>2. s.pc = "execute" /\ s.run = r /\ s.op = sess[p].op /\ s.view = row
  BY DEF Work
<1>3. row.tool = "RUNNING" /\ row.approval = "APPROVED"
  BY AtLockRun DEF Approve, Row
<1> HIDE DEF s, row
<1> QED
  BY <1>1, <1>2, <1>3, AtLockRun, QuietStep DEF Approve, Executed, ShapeOK, ViewOK, HeldOK,
     Owner, Reviewer, Review, rows, ghosts

LEMMA RejectStep ==
    ASSUME IInv, TypeOK', NEW p \in Sessions, Reject(p)
    PROVE  IInv'
<1> DEFINE r == sess[p].run
           row == [db[r] EXCEPT !.tool = "BLOCKED", !.approval = "REJECTED"]
           s == Work(p, "commit", row, <<"ApprovalRejected", "ToolBlocked">>)
<1>1. Become(p, s) /\ sess'[p] = s
  BY Becomes DEF IInv, Reject
<1>2. s.pc = "commit" /\ s.run = r /\ s.op = sess[p].op /\ s.view = row
  BY DEF Work
<1>3. row.status = "BLOCKED" /\ row.tool = "BLOCKED" /\ row.approval = "REJECTED"
  BY AtLockRun DEF Reject, Row
<1>4. RowOK(request[r], row)
  BY <1>3, AtLockRun DEF RowOK, Reject
<1> HIDE DEF s, row
<1> QED
  BY <1>1, <1>2, <1>3, <1>4, AtLockRun, QuietStep DEF Reject, Executed, ShapeOK, ViewOK, HeldOK,
     Owner, Reviewer, Review, rows, ghosts

-----------------------------------------------------------------------------
\* Steps that write rows or count executions.

\* Nobody else works on a run while one session holds its lock.
LEMMA HolderAlone ==
    ASSUME IInv, NEW p \in Sessions, sess[p].pc \in {"execute", "commit"},
           NEW q \in Sessions, q # p, sess[q].run = sess[p].run
    PROVE  /\ sess[q].pc \notin {"execute", "commit"}
           /\ Owner(p) => ~Owner(q)
           /\ Owner(p) => ~Reviewer(q)
           /\ Reviewer(p) => ~Reviewer(q)
           /\ Reviewer(p) /\ Owner(q) => sess[q].pc \in {"refresh", "fail"}
<1>1. \A x \in Sessions : sess[x].pc \in {"execute", "commit"} => Owner(x) \/ Reviewer(x)
  <2> SUFFICES ASSUME NEW x \in Sessions, sess[x].pc \in {"execute", "commit"}
               PROVE  Owner(x) \/ Reviewer(x)
    OBVIOUS
  <2>1. sess[x].op \in Op /\ ShapeOK(x)
    BY BusyType DEF IInv, SessionsOK
  <2> QED
    BY <2>1 DEF Op, ShapeOK, Owner, Reviewer, Review
<1>2. HeldOK(p) /\ HeldOK(q)
  BY DEF IInv, SessionsOK
<1>3. Owner(p) /\ Owner(q) => FALSE
  BY DEF IInv, OneOwner
<1>4. Reviewer(p) /\ Reviewer(q) => FALSE
  BY DEF IInv, OneReviewer
<1>5. Owner(p) => db[sess[p].run].status = "RUNNING"
  BY <1>2 DEF HeldOK
<1>6. Reviewer(q) => db[sess[p].run].approval = "PENDING"
  BY <1>2 DEF HeldOK
<1>7. Owner(p) => db[sess[p].run].approval = "NONE"
  BY <1>5, BusyType DEF IInv, RowsOK, RowOK
<1>8. Reviewer(p) => db[sess[p].run].status = "BLOCKED"
  BY <1>2 DEF HeldOK
<1>9. Owner(q) /\ sess[q].pc \in {"invoke", "execute", "commit"} => db[sess[p].run].status = "RUNNING"
  BY <1>2 DEF HeldOK
<1>10. Owner(p) => ~Reviewer(q)
  BY <1>6, <1>7
<1>11. Reviewer(p) /\ Owner(q) => sess[q].pc \in {"refresh", "fail"}
  BY <1>8, <1>9 DEF Owner
<1> QED
  BY <1>1, <1>3, <1>4, <1>10, <1>11

LEMMA ExecuteToolStep ==
    ASSUME IInv, TypeOK', NEW p \in Sessions, NEW ok \in BOOLEAN, ExecuteTool(p, ok)
    PROVE  IInv'
<1> DEFINE r == sess[p].run
           outcome == IF ok THEN "SUCCESS" ELSE "FAILED"
           row == [sess[p].view EXCEPT !.status = outcome, !.tool = outcome]
<1>0. /\ r \in Runs /\ sess[p].pc = "execute" /\ sess[p].op \in {"execute", "approve"}
      /\ sess[p].view \in Row /\ ViewOK(p) /\ HeldOK(p)
  BY BusyType DEF IInv, SessionsOK, ShapeOK, ExecuteTool
<1>1. /\ sess'[p].pc = "commit" /\ sess'[p].op = sess[p].op /\ sess'[p].run = r
      /\ sess'[p].view = row
      /\ \A q \in Sessions : q # p => sess'[q] = sess[q]
  <2>1. \A s : Become(p, s) => sess'[p] = s /\ \A q \in Sessions : q # p => sess'[q] = sess[q]
    BY Becomes DEF IInv
  <2> QED
    BY <2>1 DEF ExecuteTool, Work
<1>2. /\ row.status = outcome /\ row.tool = outcome /\ row.approval = sess[p].view.approval
      /\ outcome \in {"SUCCESS", "FAILED"}
  BY <1>0 DEF Row
<1>3. /\ effects'[r] = effects[r] + 1
      /\ \A x \in Runs : x # r => effects'[x] = effects[x]
      /\ \A x \in Runs : effects[x] \in Nat /\ effects'[x] \in Nat /\ lost[x] \in Nat
      /\ UNCHANGED <<request, db, lost>>
  BY <1>0 DEF ExecuteTool, IInv, TypeOK, rows
<1>4. /\ sess[p].op = "execute" => Owner(p) /\ Decision(request[r]) = "ALLOW" /\ row.approval = "NONE"
      /\ sess[p].op = "approve" => Reviewer(p) /\ db[r].approval = "PENDING" /\ row.approval = "APPROVED"
  BY <1>0, <1>2 DEF Owner, Reviewer, Review, ViewOK, HeldOK
<1>5. sess[p].op = "approve" => Decision(request[r]) = "REQUIRE_APPROVAL"
  BY <1>0, <1>4 DEF IInv, RowsOK, RowOK
<1> HIDE DEF row, outcome
<1>6. RowOK(request[r], row)
  BY <1>0, <1>2, <1>4, <1>5 DEF RowOK
<1>7. ASSUME NEW q \in Sessions, q # p
      PROVE  /\ Owner(q)' <=> Owner(q)
             /\ Reviewer(q)' <=> Reviewer(q)
             /\ Executed(q)' <=> Executed(q)
             /\ ShapeOK(q)' /\ ViewOK(q)' /\ HeldOK(q)'
  BY <1>1, <1>3, <1>7, OtherSession
<1>8. RowsOK'
  BY <1>3 DEF IInv, RowsOK
<1>9. Owner(p)' <=> Owner(p)
  BY <1>0, <1>1 DEF Owner
<1>10. Reviewer(p)' <=> Reviewer(p)
  BY <1>0, <1>1 DEF Reviewer, Review
<1>11. OneOwner'
  BY <1>1, <1>7, <1>9 DEF IInv, OneOwner
<1>12. OneReviewer'
  BY <1>1, <1>7, <1>10 DEF IInv, OneReviewer
<1>13. SessionsOK'
  <2>1. ShapeOK(p)'
    BY <1>0, <1>1 DEF ShapeOK
  <2>2. ViewOK(p)'
    BY <1>0, <1>1, <1>2, <1>3, <1>4, <1>6 DEF ViewOK
  <2>3. HeldOK(p)'
    BY <1>0, <1>1, <1>3, <1>9, <1>10 DEF HeldOK
  <2> QED
    BY <1>7, <2>1, <2>2, <2>3 DEF SessionsOK
<1>14. CallsOK'
  <2> SUFFICES ASSUME NEW x \in Runs, x = r
               PROVE  /\ db[x].status \notin {"ABSENT", "PENDING"}
                      /\ Decision(request[x]) \in {"ALLOW", "REQUIRE_APPROVAL"}
                      /\ Decision(request[x]) = "ALLOW" =>
                            /\ effects[x] = 0
                            /\ \A q \in Sessions :
                                  sess'[q].run = x /\ Owner(q)' => sess'[q].pc \notin {"invoke", "execute"}
    BY <1>1, <1>3, <1>7 DEF IInv, CallsOK
  <2>1. db[x].status \notin {"ABSENT", "PENDING"}
    BY <1>0, <1>4 DEF HeldOK, Owner, Reviewer
  <2>2. Decision(request[x]) = "ALLOW" => Owner(p)
    BY <1>0, <1>4, <1>5
  <2>3. Decision(request[x]) = "ALLOW" => effects[x] = 0
    BY <1>0, <2>2 DEF IInv, CallsOK
  <2>4. \A q \in Sessions : q # p /\ sess'[q].run = x /\ Owner(p) => ~Owner(q)'
    BY <1>0, <1>1, <1>7, HolderAlone
  <2> QED
    BY <1>0, <1>1, <1>4, <1>5, <2>1, <2>2, <2>3, <2>4
<1>15. EffectsAccounted'
  <2>1. ~InFlight(r) /\ ~Recorded(r)
    <3>1. ~Executed(p)
      BY <1>0 DEF Executed
    <3>2. \A q \in Sessions : q # p /\ sess[q].run = r => ~Executed(q)
      BY <1>0, HolderAlone DEF Executed
    <3>3. db[r].tool \notin {"SUCCESS", "FAILED"}
      BY <1>0, <1>4 DEF IInv, RowsOK, RowOK, HeldOK
    <3> QED
      BY <3>1, <3>2, <3>3 DEF InFlight, Recorded
  <2>2. InFlight(r)' /\ ~Recorded(r)'
    BY <1>1, <1>2, <1>3, <2>1 DEF InFlight, Executed, Recorded
  <2>3. ASSUME NEW x \in Runs, x # r
        PROVE  (InFlight(x)' <=> InFlight(x)) /\ (Recorded(x)' <=> Recorded(x))
    BY <1>1, <1>3, <1>7, <2>3 DEF InFlight, Recorded
  <2>4. effects[r] = lost[r]
    BY <1>0, <1>3, <2>1 DEF IInv, EffectsAccounted, Accounted
  <2> SUFFICES ASSUME NEW x \in Runs PROVE Accounted(x)'
    BY Zenon DEF EffectsAccounted
  <2>5. CASE x = r
    <3>1. InFlight(x)'
      BY <1>1, <1>2, <2>5 DEF InFlight, Executed
    <3>2. ~Recorded(x)'
      BY <1>3, <2>1, <2>5 DEF Recorded
    <3> QED
      BY <1>3, <2>4, <2>5, <3>1, <3>2 DEF Accounted
  <2>6. CASE x # r
    BY <1>3, <2>3, <2>6 DEF IInv, EffectsAccounted, Accounted
  <2> QED
    BY <2>5, <2>6
<1> QED
  BY <1>8, <1>11, <1>12, <1>13, <1>14, <1>15 DEF IInv

\* A step of p that writes the rows of run r keeps the invariant when no other
\* session is in the middle of work on r, and what p says of itself is right.
LEMMA WriteStep ==
    ASSUME IInv, TypeOK', NEW p \in Sessions, NEW r \in Runs, NEW row \in Row, NEW s,
           Become(p, s), db' = [db EXCEPT ![r] = row], UNCHANGED <<request, effects, lost>>,
           RowOK(request[r], row),
           \A q \in Sessions : q # p /\ sess[q].run = r =>
               /\ sess[q].pc \notin {"invoke", "execute", "commit"}
               /\ Owner(q) => row.status \notin {"ABSENT", "PENDING"}
               /\ Reviewer(q) => row.approval = "PENDING",
           ShapeOK(p)', ViewOK(p)', HeldOK(p)', ~Reviewer(p)',
           Owner(p)' => /\ s.run = r
                        /\ \/ Owner(p) /\ sess[p].run = r
                           \/ \A q \in Sessions : sess[q].run = r => ~Owner(q),
           s.pc \notin {"execute", "commit"},
           s.pc = "invoke" \/ row.status \in {"ABSENT", "PENDING"} => effects[r] = 0,
           Executed(p) => sess[p].run = r,
           row.tool \in {"SUCCESS", "FAILED"} <=> Executed(p) \/ Recorded(r)
    PROVE  IInv'
<1>1. /\ sess'[p] = s
      /\ \A q \in Sessions : q # p => sess'[q] = sess[q]
  BY Becomes DEF IInv
<1>2. db'[r] = row /\ \A x \in Runs : x # r => db'[x] = db[x]
  BY DEF IInv, TypeOK
<1>3. RowsOK'
  BY <1>2 DEF IInv, RowsOK
<1>4. ASSUME NEW q \in Sessions, q # p
      PROVE  /\ Owner(q)' <=> Owner(q)
             /\ Reviewer(q)' <=> Reviewer(q)
             /\ Executed(q)' <=> Executed(q)
             /\ ShapeOK(q)' /\ ViewOK(q)' /\ HeldOK(q)'
  <2>1. CASE sess[q].run # r
    <3>1. sess[q].pc # "idle" => sess[q].run \in Runs
      BY BusyType DEF IInv
    <3> QED
      BY <1>1, <1>2, <1>4, <2>1, <3>1, OtherSession
  <2>2. CASE sess[q].run = r
    <3>1. sess'[q] = sess[q] /\ ShapeOK(q) /\ ViewOK(q) /\ HeldOK(q)
      BY <1>1, <1>4 DEF IInv, SessionsOK
    <3>2. Owner(q)' <=> Owner(q)
      BY <3>1 DEF Owner
    <3>3. Reviewer(q)' <=> Reviewer(q)
      BY <3>1 DEF Reviewer
    <3>4. HeldOK(q)'
      BY <1>2, <1>4, <2>2, <3>1, <3>2, <3>3 DEF HeldOK
    <3> QED
      BY <1>4, <2>2, <3>1, <3>2, <3>3, <3>4 DEF Executed, ShapeOK, ViewOK
  <2> QED
    BY <2>1, <2>2
<1>5. OneOwner'
  BY <1>1, <1>4 DEF IInv, OneOwner
<1>6. OneReviewer'
  BY <1>1, <1>4 DEF IInv, OneReviewer
<1>7. SessionsOK'
  BY <1>4 DEF SessionsOK
<1>8. CallsOK'
  <2> SUFFICES ASSUME NEW x \in Runs
               PROVE  /\ db'[x].status \in {"ABSENT", "PENDING"} => effects[x] = 0
                      /\ effects[x] > 0 => Decision(request[x]) \in {"ALLOW", "REQUIRE_APPROVAL"}
                      /\ Decision(request[x]) = "ALLOW" =>
                            /\ effects[x] <= 1
                            /\ \A q \in Sessions :
                                  sess'[q].run = x /\ Owner(q)' /\ sess'[q].pc \in {"invoke", "execute"}
                                  => effects[x] = 0
    BY DEF CallsOK
  <2>1. ASSUME NEW q \in Sessions, sess'[q].run = x, Owner(q)', sess'[q].pc \in {"invoke", "execute"},
               Decision(request[x]) = "ALLOW"
        PROVE  effects[x] = 0
    <3>1. CASE q = p
      BY <1>1, <2>1, <3>1
    <3>2. CASE q # p
      BY <1>1, <1>4, <2>1, <3>2 DEF IInv, CallsOK
    <3> QED
      BY <3>1, <3>2
  <2> QED
    BY <1>2, <2>1 DEF IInv, CallsOK
<1>9. EffectsAccounted'
  <2> SUFFICES ASSUME NEW x \in Runs PROVE Accounted(x)'
    BY Zenon DEF EffectsAccounted
  <2>0. Accounted(x) /\ ~Executed(p)'
    BY <1>1 DEF IInv, EffectsAccounted, Executed
  <2>1. CASE x # r
    <3>1. InFlight(x)' <=> InFlight(x)
      BY <1>1, <1>4, <2>0, <2>1 DEF InFlight
    <3>2. Recorded(x)' <=> Recorded(x)
      BY <1>2, <2>1 DEF Recorded
    <3> QED
      BY <2>0, <3>1, <3>2 DEF Accounted
  <2>2. CASE x = r
    <3>1. ~InFlight(x)'
      BY <1>1, <1>4, <2>0, <2>2 DEF InFlight, Executed
    <3>2. Recorded(x)' <=> Executed(p) \/ Recorded(x)
      BY <1>2, <2>2 DEF Recorded
    <3>3. InFlight(x) <=> Executed(p)
      BY <2>2 DEF InFlight, Executed
    <3> QED
      BY <2>0, <3>1, <3>2, <3>3 DEF Accounted
  <2> QED
    BY <2>1, <2>2
<1> QED
  BY <1>3, <1>5, <1>6, <1>7, <1>8, <1>9 DEF IInv

\* No session works on a run that is not yet RUNNING.
LEMMA FreshRun ==
    ASSUME IInv, NEW r \in Runs, db[r].status \in {"ABSENT", "PENDING"}
    PROVE  /\ \A q \in Sessions : sess[q].run = r =>
                 /\ sess[q].pc \notin {"invoke", "execute", "commit"}
                 /\ ~Owner(q)
                 /\ ~Reviewer(q)
           /\ effects[r] = 0 /\ ~Recorded(r)
           /\ db[r].tool = "NONE" /\ db[r].approval = "NONE"
<1>1. db[r].tool = "NONE" /\ db[r].approval = "NONE" /\ effects[r] = 0
  BY DEF IInv, RowsOK, RowOK, CallsOK
<1>2. ASSUME NEW q \in Sessions, sess[q].run = r PROVE ~Owner(q) /\ ~Reviewer(q)
  BY <1>1, <1>2 DEF IInv, SessionsOK, HeldOK
<1>3. ASSUME NEW q \in Sessions, sess[q].pc \in {"invoke", "execute", "commit"}
      PROVE  Owner(q) \/ Reviewer(q)
  <2>1. sess[q].op \in Op /\ ShapeOK(q)
    BY <1>3, BusyType DEF IInv, SessionsOK
  <2> QED
    BY <1>3, <2>1 DEF Op, ShapeOK, Owner, Reviewer, Review
<1> QED
  BY <1>1, <1>2, <1>3 DEF Recorded

LEMMA SubmitStep ==
    ASSUME IInv, TypeOK', NEW p \in ApiSessions, NEW r \in Runs, NEW async \in BOOLEAN,
           Submit(p, r, async)
    PROVE  IInv'
<1> DEFINE row == [db[r] EXCEPT !.status = "PENDING"]
           s == At(IF async THEN "enqueue" ELSE "claim", "execute", r)
<1>0. p \in Sessions /\ sess[p].pc = "idle" /\ db[r].status = "ABSENT" /\ db[r] \in Row
  BY DEF Sessions, Submit, IInv, TypeOK
<1>1. Become(p, s) /\ sess'[p] = s
  BY <1>0, Becomes DEF IInv, Submit
<1>2. s.pc \in {"enqueue", "claim"} /\ s.run = r /\ s.op = "execute"
  BY DEF At
<1>3. row \in Row /\ row.status = "PENDING" /\ row.tool = db[r].tool /\ row.approval = db[r].approval
  BY <1>0 DEF Row, RunStatus
<1>4. RowOK(request[r], row)
  BY <1>0, <1>3, FreshRun DEF RowOK
<1>5. db' = [db EXCEPT ![r] = row] /\ UNCHANGED <<request, effects, lost>>
  BY DEF Submit, ghosts
<1>6. ~Owner(p)' /\ ~Reviewer(p)' /\ ~Executed(p)
  BY <1>0, <1>1, <1>2 DEF Owner, Reviewer, Executed, Review
<1>7. ShapeOK(p)' /\ ViewOK(p)' /\ HeldOK(p)'
  BY <1>1, <1>2, <1>6 DEF ShapeOK, ViewOK, HeldOK
<1> HIDE DEF s, row
<1> QED
  BY <1>0, <1>1, <1>2, <1>3, <1>4, <1>5, <1>6, <1>7, FreshRun, WriteStep

LEMMA SubmitUnreadStep ==
    ASSUME IInv, TypeOK', NEW p \in ApiSessions, NEW r \in Runs, SubmitUnread(p, r)
    PROVE  IInv'
<1> DEFINE row == [db[r] EXCEPT !.status = "PENDING"]
<1>0. p \in Sessions /\ sess[p].pc = "idle" /\ db[r].status = "ABSENT" /\ db[r] \in Row
  BY DEF Sessions, SubmitUnread, IInv, TypeOK
<1>1. Become(p, Idle) /\ sess'[p] = Idle /\ Idle.pc = "idle"
  BY <1>0, Becomes, IdleType DEF IInv, SubmitUnread
<1>2. row \in Row /\ row.status = "PENDING" /\ row.tool = db[r].tool /\ row.approval = db[r].approval
  BY <1>0 DEF Row, RunStatus
<1>3. RowOK(request[r], row)
  BY <1>0, <1>2, FreshRun DEF RowOK
<1>4. db' = [db EXCEPT ![r] = row] /\ UNCHANGED <<request, effects, lost>>
  BY DEF SubmitUnread, ghosts
<1>5. ~Owner(p)' /\ ~Reviewer(p)' /\ ~Executed(p)
  BY <1>0, <1>1 DEF Owner, Reviewer, Executed
<1>6. ShapeOK(p)' /\ ViewOK(p)' /\ HeldOK(p)'
  BY <1>1, <1>5 DEF ShapeOK, ViewOK, HeldOK
<1> HIDE DEF row
<1> QED
  BY <1>0, <1>1, <1>2, <1>3, <1>4, <1>5, <1>6, FreshRun, WriteStep

\* SELECT ... FOR UPDATE, RUNNING, commit.
LEMMA ClaimStep ==
    ASSUME IInv, TypeOK', NEW p \in Sessions, Claim(p)
    PROVE  IInv'
<1> DEFINE r == sess[p].run
           row == [db[r] EXCEPT !.status = "RUNNING"]
           s == Work(p, "invoke", row, <<>>)
<1>0. /\ sess[p].pc = "claim" /\ sess[p].op = "execute" /\ r \in Runs
      /\ db[r].status = "PENDING" /\ db[r] \in Row
  BY BusyType DEF Claim, IInv, SessionsOK, ShapeOK
<1>1. Become(p, s) /\ sess'[p] = s
  BY Becomes DEF IInv, Claim
<1>2. s.pc = "invoke" /\ s.run = r /\ s.op = "execute" /\ s.view = row
  BY <1>0 DEF Work
<1>3. row \in Row /\ row.status = "RUNNING" /\ row.tool = db[r].tool /\ row.approval = db[r].approval
  BY <1>0 DEF Row, RunStatus
<1>4. RowOK(request[r], row)
  BY <1>0, <1>3, FreshRun DEF RowOK
<1>5. db' = [db EXCEPT ![r] = row] /\ db'[r] = row /\ UNCHANGED <<request, effects, lost>>
  BY <1>0 DEF Claim, ghosts, IInv, TypeOK
<1>6. ~Reviewer(p)' /\ ~Executed(p)
  BY <1>0, <1>1, <1>2 DEF Reviewer, Executed, Review
<1> HIDE DEF s, row
<1>7. ShapeOK(p)' /\ ViewOK(p)' /\ HeldOK(p)'
  BY <1>1, <1>2, <1>3, <1>5, <1>6 DEF ShapeOK, ViewOK, HeldOK
<1> QED
  BY <1>0, <1>1, <1>2, <1>3, <1>4, <1>5, <1>6, <1>7, FreshRun, WriteStep

LEMMA CommitStep ==
    ASSUME IInv, TypeOK', NEW p \in Sessions, Commit(p)
    PROVE  IInv'
<1> DEFINE r == sess[p].run
           row == sess[p].view
           s == IF sess[p].op = "execute" THEN At("refresh", "execute", r) ELSE Idle
<1>0. /\ sess[p].pc = "commit" /\ r \in Runs /\ row \in Row /\ sess[p].op \in Op
      /\ ShapeOK(p) /\ ViewOK(p) /\ HeldOK(p)
  BY BusyType DEF Commit, IInv, SessionsOK
<1>1. Become(p, s) /\ sess'[p] = s
  BY Becomes DEF IInv, Commit
<1>2. \/ s.pc = "refresh" /\ s.run = r /\ s.op = "execute" /\ sess[p].op = "execute"
      \/ s.pc = "idle" /\ s.op = "none"
  BY DEF At, Idle
<1>3. RowOK(request[r], row) /\ row.status \in {"SUCCESS", "FAILED", "BLOCKED"}
  BY <1>0 DEF ViewOK
<1>4. db' = [db EXCEPT ![r] = row] /\ db'[r] = row /\ UNCHANGED <<request, effects, lost>>
  BY <1>0 DEF Commit, ghosts, IInv, TypeOK
<1>5. Owner(p) \/ Reviewer(p)
  BY <1>0 DEF Op, ShapeOK, Owner, Reviewer, Review
<1>6. \A q \in Sessions : q # p /\ sess[q].run = r =>
        /\ sess[q].pc \notin {"invoke", "execute", "commit"}
        /\ ~Reviewer(q)
        /\ Owner(p) => ~Owner(q)
  <2> SUFFICES ASSUME NEW q \in Sessions, q # p, sess[q].run = r
               PROVE  /\ sess[q].pc \notin {"invoke", "execute", "commit"}
                      /\ ~Reviewer(q)
                      /\ Owner(p) => ~Owner(q)
    OBVIOUS
  <2>1. sess[q].pc = "invoke" => Owner(q)
    BY DEF IInv, SessionsOK, ShapeOK, Owner
  <2> QED
    BY <1>0, <1>5, <2>1, HolderAlone
<1>7. ~Recorded(r)
  BY <1>0, <1>5 DEF HeldOK, Recorded, IInv, RowsOK, RowOK
<1>8. row.tool \in {"SUCCESS", "FAILED"} <=> Executed(p)
  BY <1>0 DEF Executed
<1> HIDE DEF s
<1>9. ~Reviewer(p)' /\ (Owner(p)' => Owner(p) /\ s.run = r)
  BY <1>0, <1>1, <1>2 DEF Owner, Reviewer, Review
<1>10. ShapeOK(p)' /\ ViewOK(p)' /\ HeldOK(p)'
  BY <1>1, <1>2, <1>3, <1>4, <1>9 DEF ShapeOK, ViewOK, HeldOK
<1> HIDE DEF row
<1> QED
  BY <1>0, <1>1, <1>2, <1>3, <1>4, <1>6, <1>7, <1>8, <1>9, <1>10, WriteStep

LEMMA RecordFailureStep ==
    ASSUME IInv, TypeOK', NEW p \in Sessions, RecordFailure(p)
    PROVE  IInv'
<1> DEFINE r == sess[p].run
           row == [db[r] EXCEPT !.status = "FAILED"]
<1>0. /\ sess[p].pc = "fail" /\ r \in Runs /\ db[r] \in Row /\ RunUnlocked(r)
      /\ Owner(p) /\ HeldOK(p)
  BY BusyType DEF RecordFailure, IInv, SessionsOK, ShapeOK, Owner
<1>1. Become(p, Idle) /\ sess'[p] = Idle /\ Idle.pc = "idle" /\ Idle.op = "none"
  BY Becomes DEF IInv, RecordFailure, Idle, At
<1>2. row \in Row /\ row.status = "FAILED" /\ row.tool = db[r].tool /\ row.approval = db[r].approval
  BY <1>0 DEF Row, RunStatus
<1>3. RowOK(request[r], row)
  BY <1>0, <1>2 DEF RowOK, IInv, RowsOK
<1>4. db' = [db EXCEPT ![r] = row] /\ UNCHANGED <<request, effects, lost>>
  BY DEF RecordFailure, ghosts
<1>5. \A q \in Sessions : q # p /\ sess[q].run = r =>
        /\ sess[q].pc \notin {"invoke", "execute", "commit"}
        /\ Reviewer(q) => db[r].approval = "PENDING"
  <2> SUFFICES ASSUME NEW q \in Sessions, q # p, sess[q].run = r
               PROVE  /\ sess[q].pc \notin {"invoke", "execute", "commit"}
                      /\ Reviewer(q) => db[r].approval = "PENDING"
    OBVIOUS
  <2>1. ShapeOK(q) /\ HeldOK(q) /\ (Owner(q) => q = p)
    BY <1>0 DEF IInv, SessionsOK, OneOwner
  <2>2. sess[q].pc # "invoke"
    BY <2>1 DEF ShapeOK, Owner
  <2> QED
    BY <1>0, <2>1, <2>2 DEF RunUnlocked, HoldsRun, HeldOK
<1>6. ~Executed(p) /\ ~Owner(p)' /\ ~Reviewer(p)'
  BY <1>0, <1>1 DEF Executed, Owner, Reviewer, Review
<1>7. ShapeOK(p)' /\ ViewOK(p)' /\ HeldOK(p)'
  BY <1>1, <1>6 DEF ShapeOK, ViewOK, HeldOK
<1>8. row.tool \in {"SUCCESS", "FAILED"} <=> Recorded(r)
  BY <1>2 DEF Recorded
<1>9. \A q \in Sessions : q # p /\ sess[q].run = r =>
        /\ sess[q].pc \notin {"invoke", "execute", "commit"}
        /\ Owner(q) => row.status \notin {"ABSENT", "PENDING"}
        /\ Reviewer(q) => row.approval = "PENDING"
  BY <1>2, <1>5
<1> HIDE DEF row
<1> QED
  BY <1>0, <1>1, <1>2, <1>3, <1>4, <1>6, <1>7, <1>8, <1>9, WriteStep

\* A database error or a crash after the tool was executed and before the commit.
LEMMA LoseStep ==
    ASSUME IInv, TypeOK', NEW p \in Sessions, NEW s, Become(p, s), Executed(p), RollBack(p),
           \/ s = Idle
           \/ s = At("fail", "execute", sess[p].run) /\ sess[p].op = "execute",
           UNCHANGED <<request, db, effects>>
    PROVE  IInv'
<1> DEFINE r == sess[p].run
<1>0. r \in Runs /\ sess[p].pc = "commit" /\ HeldOK(p)
  BY BusyType DEF Executed, IInv, SessionsOK
<1>1. /\ sess'[p] = s
      /\ \A q \in Sessions : q # p => sess'[q] = sess[q]
  BY Becomes DEF IInv
<1>2. \/ s.pc = "idle" /\ s.op = "none"
      \/ s.pc = "fail" /\ s.op = "execute" /\ s.run = r /\ sess[p].op = "execute"
  BY DEF Idle, At
<1>3. lost'[r] = lost[r] + 1 /\ (\A x \in Runs : x # r => lost'[x] = lost[x]) /\ lost[r] \in Nat
  BY <1>0 DEF RollBack, IInv, TypeOK
<1>4. ASSUME NEW q \in Sessions, q # p
      PROVE  /\ Owner(q)' <=> Owner(q)
             /\ Reviewer(q)' <=> Reviewer(q)
             /\ Executed(q)' <=> Executed(q)
             /\ ShapeOK(q)' /\ ViewOK(q)' /\ HeldOK(q)'
  BY <1>1, <1>4, OtherSession
<1>5. ~Reviewer(p)' /\ ~Executed(p)' /\ (Owner(p)' => Owner(p) /\ s.run = r)
  BY <1>0, <1>1, <1>2 DEF Owner, Reviewer, Executed, Review
<1>6. RowsOK'
  BY DEF IInv, RowsOK
<1>7. OneOwner'
  BY <1>1, <1>4, <1>5 DEF IInv, OneOwner
<1>8. OneReviewer'
  BY <1>1, <1>4, <1>5 DEF IInv, OneReviewer
<1>9. SessionsOK'
  <2>1. ShapeOK(p)' /\ ViewOK(p)' /\ HeldOK(p)'
    BY <1>0, <1>1, <1>2, <1>5 DEF ShapeOK, ViewOK, HeldOK
  <2> QED
    BY <1>4, <2>1 DEF SessionsOK
<1>10. CallsOK'
  BY <1>1, <1>2, <1>4 DEF IInv, CallsOK
<1>11. EffectsAccounted'
  <2> SUFFICES ASSUME NEW x \in Runs PROVE Accounted(x)'
    BY Zenon DEF EffectsAccounted
  <2>0. Accounted(x) /\ (Recorded(x)' <=> Recorded(x))
    BY DEF IInv, EffectsAccounted, Recorded
  <2>1. CASE x # r
    <3>1. InFlight(x)' <=> InFlight(x)
      BY <1>1, <1>4, <1>5, <2>1 DEF InFlight
    <3> QED
      BY <1>3, <2>0, <2>1, <3>1 DEF Accounted
  <2>2. CASE x = r
    <3>1. InFlight(x)
      BY <2>2 DEF InFlight
    <3>2. ~InFlight(x)'
      <4>1. \A q \in Sessions : q # p /\ sess[q].run = r => ~Executed(q)
        BY <1>0, HolderAlone DEF Executed
      <4> QED
        BY <1>1, <1>4, <1>5, <2>2, <4>1 DEF InFlight
    <3> QED
      BY <1>3, <2>0, <2>2, <3>1, <3>2 DEF Accounted
  <2> QED
    BY <2>1, <2>2
<1> QED
  BY <1>6, <1>7, <1>8, <1>9, <1>10, <1>11 DEF IInv

LEMMA InitIInv == Init => IInv
<1> SUFFICES ASSUME Init PROVE IInv
  OBVIOUS
<1>0. TypeOK
  BY InitTypeOK
<1>1. \A p \in Sessions : sess[p] = Idle /\ Idle.pc = "idle" /\ Idle.op = "none"
  BY DEF Init, Idle, At
<1>2. \A r \in Runs : db[r] = Absent /\ effects[r] = 0 /\ lost[r] = 0
  BY DEF Init
<1>3. /\ Absent.status = "ABSENT" /\ Absent.tool = "NONE" /\ Absent.approval = "NONE"
  BY DEF Absent
<1>4. RowsOK
  BY <1>2, <1>3 DEF RowsOK, RowOK
<1>5. \A p \in Sessions : ~Owner(p) /\ ~Reviewer(p) /\ ~Executed(p)
  BY <1>1 DEF Owner, Reviewer, Executed, Review
<1>6. OneOwner /\ OneReviewer
  BY <1>5 DEF OneOwner, OneReviewer
<1>7. SessionsOK
  BY <1>1, <1>5 DEF SessionsOK, ShapeOK, ViewOK, HeldOK
<1>8. CallsOK
  <2>1. ASSUME NEW r \in Runs PROVE effects[r] <= 1 /\ ~(effects[r] > 0)
    <3>1. effects[r] = 0
      BY <1>2, Zenon
    <3> QED
      BY <3>1
  <2> QED
    BY <1>2, <2>1, Zenon DEF CallsOK
<1>9. EffectsAccounted
  <2> SUFFICES ASSUME NEW r \in Runs PROVE Accounted(r)
    BY Zenon DEF EffectsAccounted
  <2>1. ~InFlight(r) /\ ~Recorded(r)
    BY <1>2, <1>3, <1>5 DEF InFlight, Recorded
  <2> QED
    BY <1>2, <2>1 DEF Accounted
<1> QED
  BY <1>0, <1>4, <1>6, <1>7, <1>8, <1>9 DEF IInv

\* Nothing but the queue and the fault counter changes.
LEMMA UnseenStep ==
    ASSUME IInv, TypeOK', UNCHANGED <<request, db, sess, effects, lost>>
    PROVE  IInv'
<1>1. \A p \in Sessions : (Owner(p)' <=> Owner(p)) /\ (Reviewer(p)' <=> Reviewer(p))
                          /\ (Executed(p)' <=> Executed(p))
  BY DEF Owner, Reviewer, Executed
<1>2. RowsOK' /\ OneOwner' /\ OneReviewer'
  BY <1>1 DEF IInv, RowsOK, OneOwner, OneReviewer
<1>3. SessionsOK'
  BY <1>1 DEF IInv, SessionsOK, ShapeOK, ViewOK, HeldOK
<1>4. CallsOK'
  BY <1>1 DEF IInv, CallsOK
<1>5. EffectsAccounted'
  BY <1>1 DEF IInv, EffectsAccounted, Accounted, InFlight, Recorded
<1> QED
  BY <1>2, <1>3, <1>4, <1>5 DEF IInv

\* Every action keeps the invariant.
LEMMA IInvStep == IInv /\ [Next]_vars => IInv'
<1> SUFFICES ASSUME IInv, [Next]_vars PROVE IInv'
  OBVIOUS
<1>t. TypeOK'
  BY TypeStep DEF IInv
<1> USE DEF ghosts, rows
<1>1. ASSUME NEW p \in ApiSessions, NEW r \in Runs, NEW async \in BOOLEAN, Submit(p, r, async)
      PROVE  IInv'
  BY <1>1, <1>t, SubmitStep
<1>2. ASSUME NEW p \in ApiSessions, NEW r \in Runs, NEW o \in Review, BeginReview(p, r, o)
      PROVE  IInv'
  BY <1>2, <1>t, BeginReviewStep DEF Sessions
<1>3. ASSUME NEW w \in Workers, NEW r \in Runs, Deliver(w, r) PROVE IInv'
  BY <1>3, <1>t, DeliverStep DEF Sessions
<1>4. ASSUME NEW p \in Sessions, Step(p) PROVE IInv'
  <2>1. CASE Enqueue(p)
    BY <2>1, <1>t, QuitStep DEF Enqueue, Executed
  <2>2. CASE Claim(p)
    BY <2>2, <1>t, ClaimStep
  <2>3. CASE ClaimRejected(p)
    BY <2>3, <1>t, QuitStep DEF ClaimRejected, Executed
  <2>4. CASE UnknownTool(p)
    <3>1. Owner(p) /\ ~Executed(p)
      BY <2>4, AtInvoke DEF UnknownTool, Executed
    <3> QED
      BY <2>4, <3>1, <1>t, ToFailStep DEF UnknownTool
  <2>5. CASE InvokeAllowed(p)
    BY <2>5, <1>t, InvokeAllowedStep
  <2>6. CASE InvokeNeedsApproval(p)
    BY <2>6, <1>t, InvokeNeedsApprovalStep
  <2>7. CASE InvokeDenied(p)
    BY <2>7, <1>t, InvokeDeniedStep
  <2>8. ASSUME NEW ok \in BOOLEAN, ExecuteTool(p, ok) PROVE IInv'
    BY <2>8, <1>t, ExecuteToolStep
  <2>9. CASE Commit(p)
    BY <2>9, <1>t, CommitStep
  <2>10. CASE Refresh(p)
    BY <2>10, <1>t, QuitStep DEF Refresh, Executed
  <2>11. CASE RecordFailure(p)
    BY <2>11, <1>t, RecordFailureStep
  <2>12. CASE LockApproval(p)
    BY <2>12, <1>t, LockApprovalStep
  <2>13. CASE LockRunRejected(p)
    BY <2>13, <1>t, QuitStep DEF LockRunRejected, Executed
  <2>14. CASE Approve(p)
    BY <2>14, <1>t, ApproveStep
  <2>15. CASE Reject(p)
    BY <2>15, <1>t, RejectStep
  <2> QED
    BY <1>4, <2>1, <2>2, <2>3, <2>4, <2>5, <2>6, <2>7, <2>8, <2>9, <2>10, <2>11, <2>12, <2>13,
       <2>14, <2>15 DEF Step
<1>5. ASSUME NEW p \in Sessions, EnqueueFails(p) \/ RefreshFails(p) \/ DbError(p) \/ Crash(p)
      PROVE  IInv'
  <2>1. CASE EnqueueFails(p)
    BY <2>1, <1>t, QuitStep DEF EnqueueFails, Executed
  <2>2. CASE RefreshFails(p)
    <3>1. Owner(p) /\ ~Executed(p)
      BY <2>2 DEF RefreshFails, Executed, Owner, IInv, SessionsOK, ShapeOK
    <3> QED
      BY <2>2, <3>1, <1>t, ToFailStep DEF RefreshFails
  <2>3. ASSUME ~Executed(p), RollBack(p) PROVE lost' = lost
    BY <2>3 DEF RollBack
  <2>4. CASE DbError(p)
    <3> DEFINE handled == sess[p].op = "execute" /\ sess[p].pc \in {"invoke", "execute", "commit"}
    <3>0. /\ Become(p, IF handled THEN At("fail", "execute", sess[p].run) ELSE Idle)
          /\ RollBack(p)
          /\ UNCHANGED <<request, db, effects>>
      BY <2>4 DEF DbError
    <3>1. CASE Executed(p)
      <4> DEFINE s == IF handled THEN At("fail", "execute", sess[p].run) ELSE Idle
      <4>1. \/ s = Idle
            \/ s = At("fail", "execute", sess[p].run) /\ sess[p].op = "execute"
        OBVIOUS
      <4> HIDE DEF s
      <4> QED
        BY <3>0, <3>1, <4>1, <1>t, LoseStep DEF s
    <3>2. CASE ~Executed(p) /\ handled
      <4>1. Owner(p)
        BY <3>2 DEF Owner
      <4> QED
        BY <3>0, <3>2, <4>1, <2>3, <1>t, ToFailStep
    <3>3. CASE ~Executed(p) /\ ~handled
      BY <3>0, <3>3, <2>3, <1>t, QuitStep
    <3> QED
      BY <3>1, <3>2, <3>3
  <2>5. CASE Crash(p)
    <3>1. CASE Executed(p)
      BY <2>5, <3>1, <1>t, LoseStep DEF Crash
    <3>2. CASE ~Executed(p)
      BY <2>5, <3>2, <2>3, <1>t, QuitStep DEF Crash
    <3> QED
      BY <3>1, <3>2
  <2> QED
    BY <1>5, <2>1, <2>2, <2>4, <2>5
<1>6. ASSUME NEW r \in Runs, Redeliver(r) PROVE IInv'
  BY <1>6, <1>t, UnseenStep DEF Redeliver
<1>7. ASSUME NEW p \in ApiSessions, SubmitFails(p) PROVE IInv'
  BY <1>7, <1>t, UnseenStep DEF SubmitFails
<1>7a. ASSUME NEW p \in ApiSessions, NEW r \in Runs, SubmitUnread(p, r) PROVE IInv'
  BY <1>7a, <1>t, SubmitUnreadStep
<1>8. CASE UNCHANGED vars
  BY <1>8, <1>t, UnseenStep DEF vars
<1> QED
  BY <1>1, <1>2, <1>3, <1>4, <1>5, <1>6, <1>7, <1>7a, <1>8 DEF Next

\* The inductive invariant: a run has at most one executing session and one
\* reviewer, and what they hold agrees with the committed rows (runtime.py:83-142,
\* safety_gateway.py:49-182, approvals.py:48-110).
THEOREM InvariantHolds == Spec => []IInv
<1>1. IInv /\ [Next]_vars => IInv'
  BY IInvStep
<1> QED
  BY InitIInv, <1>1, PTL DEF Spec

LEMMA InvariantGates == IInv => GateHolds
<1> SUFFICES ASSUME IInv PROVE GateHolds
  OBVIOUS
<1>1. ASSUME NEW p \in Sessions, sess[p].pc = "execute"
      PROVE  LET r == sess[p].run
             IN  \/ sess[p].op = "execute" /\ Decision(request[r]) = "ALLOW"
                 \/ /\ sess[p].op = "approve"
                    /\ Decision(request[r]) = "REQUIRE_APPROVAL"
                    /\ db[r].approval = "PENDING"
  <2>1. ShapeOK(p) /\ ViewOK(p) /\ HeldOK(p) /\ sess[p].run \in Runs
    BY <1>1, BusyType DEF IInv, SessionsOK
  <2>2. CASE sess[p].op = "execute"
    BY <1>1, <2>1, <2>2 DEF ViewOK
  <2>3. CASE sess[p].op = "approve"
    <3>1. db[sess[p].run].approval = "PENDING"
      BY <1>1, <2>1, <2>3 DEF HeldOK, Reviewer, Review
    <3>2. Decision(request[sess[p].run]) = "REQUIRE_APPROVAL"
      BY <2>1, <3>1 DEF IInv, RowsOK, RowOK
    <3> QED
      BY <2>3, <3>1, <3>2
  <2> QED
    BY <1>1, <2>1, <2>2, <2>3 DEF ShapeOK
<1> QED
  BY <1>1 DEF GateHolds, IInv, CallsOK

\* No tool runs but behind the policy's ALLOW or a reviewer who holds a request
\* that is still pending (safety_gateway.py:74-138, approvals.py:48-74).
THEOREM GateAlwaysHolds == Spec => []GateHolds
BY InvariantHolds, InvariantGates, PTL

\* A run whose tool the policy allows calls it at most once, under any number of
\* redeliveries, crashes and errors (runtime.py:87-100).
THEOREM AllowedOnce == Spec => []AllowedAtMostOnce
<1>1. IInv => AllowedAtMostOnce
  BY DEF IInv, CallsOK, AllowedAtMostOnce
<1> QED
  BY <1>1, InvariantHolds, PTL

\* Every tool call is in the committed row, in one open transaction, or in one
\* that was rolled back (safety_gateway.py:140-182, runtime.py:112,117).
THEOREM EffectsAlwaysAccounted == Spec => []EffectsAccounted
<1>1. IInv => EffectsAccounted
  BY DEF IInv
<1> QED
  BY <1>1, InvariantHolds, PTL

\* A step leaves an approval row that has been decided as it is.
LEMMA ReviewStep ==
    ASSUME IInv, [Next]_vars, NEW r \in Runs, db[r].approval \in {"APPROVED", "REJECTED"}
    PROVE  db'[r].approval = db[r].approval
<1> USE DEF ghosts, rows
<1>1. db \in [Runs -> Row]
  BY DEF IInv, TypeOK
<1>2. ASSUME NEW p \in ApiSessions, NEW x \in Runs, NEW async \in BOOLEAN, Submit(p, x, async)
      PROVE  db'[r].approval = db[r].approval
  BY <1>1, <1>2 DEF Submit, Row
<1>2a. ASSUME NEW p \in ApiSessions, NEW x \in Runs, SubmitUnread(p, x)
       PROVE  db'[r].approval = db[r].approval
  BY <1>1, <1>2a DEF SubmitUnread, Row
<1>3. ASSUME NEW p \in Sessions, Claim(p) PROVE db'[r].approval = db[r].approval
  BY <1>1, <1>3 DEF Claim, Row
<1>4. ASSUME NEW p \in Sessions, RecordFailure(p) PROVE db'[r].approval = db[r].approval
  BY <1>1, <1>4 DEF RecordFailure, Row
<1>5. ASSUME NEW p \in Sessions, Commit(p) PROVE db'[r].approval = db[r].approval
  <2>1. /\ sess[p].pc = "commit" /\ sess[p].run \in Runs /\ sess[p].op \in Op
        /\ ShapeOK(p) /\ HeldOK(p)
    BY <1>5, BusyType DEF Commit, IInv, SessionsOK
  <2>2. Owner(p) \/ Reviewer(p)
    BY <2>1 DEF Op, ShapeOK, Owner, Reviewer, Review
  <2>3. CASE sess[p].run = r
    <3>1. db[r].status = "RUNNING" \/ db[r].approval = "PENDING"
      BY <2>1, <2>2, <2>3 DEF HeldOK
    <3>2. db[r].status = "RUNNING" => db[r].approval = "NONE"
      BY DEF IInv, RowsOK, RowOK
    <3> QED
      BY <3>1, <3>2
  <2>4. CASE sess[p].run # r
    BY <1>1, <1>5, <2>1, <2>4 DEF Commit
  <2> QED
    BY <2>3, <2>4
<1>6. ASSUME NEW p \in Sessions, Step(p) PROVE db'[r].approval = db[r].approval
  <2>1. CASE Claim(p) \/ Commit(p) \/ RecordFailure(p)
    BY <2>1, <1>3, <1>4, <1>5
  <2>2. CASE ~(Claim(p) \/ Commit(p) \/ RecordFailure(p))
    BY <1>6, <2>2 DEF Step, Enqueue, ClaimRejected, UnknownTool, InvokeAllowed,
       InvokeNeedsApproval, InvokeDenied, ExecuteTool, Refresh, LockApproval, LockRunRejected,
       Approve, Reject
  <2> QED
    BY <2>1, <2>2
<1>7. CASE UNCHANGED db
  BY <1>7
<1>8. \/ \E p \in ApiSessions, x \in Runs, async \in BOOLEAN : Submit(p, x, async)
      \/ \E p \in ApiSessions, x \in Runs : SubmitUnread(p, x)
      \/ \E p \in Sessions : Step(p)
      \/ UNCHANGED db
  BY DEF Next, vars, SubmitFails, BeginReview, Deliver, EnqueueFails, RefreshFails, DbError, Crash,
     Redeliver
<1> QED
  BY <1>2, <1>2a, <1>6, <1>7, <1>8

\* No later review, retry or failure changes a decision that was committed
\* (approvals.py:112-118).
THEOREM ReviewIsFinalAlways == Spec => ReviewIsFinal
<1>1. IInv /\ [Next]_vars =>
        [\A r \in Runs : db[r].approval \in {"APPROVED", "REJECTED"} =>
            db'[r].approval = db[r].approval]_vars
  BY ReviewStep
<1> QED
  BY <1>1, InvariantHolds, PTL DEF Spec, ReviewIsFinal
-----------------------------------------------------------------------------
(* Nobody hangs: the locks never leave every session waiting.              *)

\* The lock that p asks for next is held by q until its transaction ends.
WaitsFor(p, q) ==
    LET r == sess[p].run
    IN  \/ sess[p].pc \in {"claim", "fail", "lockRun"} /\ HoldsRun(q, r)
        \/ sess[p].pc = "invoke" /\ Decision(request[r]) # "UNKNOWN" /\ HoldsRun(q, r)
        \/ sess[p].pc = "lockApproval" /\ HoldsApproval(q, r)

\* The guard of one of the actions of Step(p) holds: p can go on by itself.
Ready(p) ==
    LET r == sess[p].run
    IN  \/ sess[p].pc \in {"enqueue", "execute", "commit", "refresh"}
        \/ sess[p].pc \in {"claim", "fail"} /\ RunUnlocked(r)
        \/ sess[p].pc = "invoke" /\ (Decision(request[r]) = "UNKNOWN" \/ RunUnlocked(r))
        \/ sess[p].pc = "lockApproval" /\ ApprovalUnlocked(r)
        \/ /\ sess[p].pc = "lockRun"
           /\ RunUnlocked(r)
           /\ sess[p].op \in Review

\* No action of a session is enabled but where Ready says so.
LEMMA StepNeedsReady ==
    ASSUME IInv, NEW p \in Sessions, Step(p)
    PROVE  Ready(p)
<1>1. ShapeOK(p)
  BY DEF IInv, SessionsOK
<1> QED
  BY <1>1 DEF ShapeOK, Ready, Step, Enqueue, Claim, ClaimRejected, UnknownTool, InvokeAllowed,
     InvokeNeedsApproval, InvokeDenied, ExecuteTool, Commit, Refresh, RecordFailure,
     LockApproval, LockRunRejected, Approve, Reject

\* Who has locked a run is its owner or its reviewer, and can go on.
LEMMA RunHolder ==
    ASSUME IInv, NEW q \in Sessions, NEW r \in Runs, HoldsRun(q, r)
    PROVE  /\ Ready(q)
           /\ sess[q].pc \in {"execute", "commit"} /\ sess[q].run = r
           /\ Owner(q) \/ Reviewer(q)
<1>1. sess[q].run = r /\ sess[q].pc \in {"execute", "commit"}
  BY DEF HoldsRun
<1>2. ShapeOK(q) /\ sess[q].op \in Op
  BY <1>1, BusyType DEF IInv, SessionsOK
<1> QED
  BY <1>1, <1>2 DEF Ready, ShapeOK, Owner, Reviewer, Review, Op

\* A reviewer that has locked the approval row never waits for the run: its owner
\* ended when it committed the request, and it is the only reviewer.
LEMMA ReviewerNeverWaits ==
    ASSUME IInv, NEW p \in Sessions, sess[p].pc = "lockRun"
    PROVE  RunUnlocked(sess[p].run)
<1> DEFINE r == sess[p].run
<1>1. r \in Runs /\ ShapeOK(p) /\ HeldOK(p)
  BY BusyType DEF IInv, SessionsOK
<1>2. Reviewer(p) /\ db[r].approval = "PENDING"
  BY <1>1 DEF ShapeOK, HeldOK, Reviewer
<1>3. db[r].status # "RUNNING"
  BY <1>1, <1>2 DEF IInv, RowsOK, RowOK
<1>4. ASSUME NEW q \in Sessions, HoldsRun(q, r) PROVE FALSE
  <2>1. /\ sess[q].pc \in {"execute", "commit"} /\ sess[q].run = r
        /\ Owner(q) \/ Reviewer(q)
    BY <1>1, <1>4, RunHolder
  <2>2. CASE Owner(q)
    BY <2>1, <2>2, <1>3 DEF IInv, SessionsOK, HeldOK
  <2>3. CASE Reviewer(q)
    BY <2>1, <2>3, <1>2 DEF IInv, OneReviewer
  <2> QED
    BY <2>1, <2>2, <2>3
<1> QED
  BY <1>4 DEF RunUnlocked

\* No request and no task ever waits in a ring, nor even in a line: each can go
\* on by itself or waits for one that can, although a review takes two row locks
\* and execute_run one in each of its transactions (approvals.py:113-124,
\* runtime.py:87-118).
NobodyHangs ==
    \A p \in Sessions : sess[p].pc # "idle" =>
        Ready(p) \/ \E q \in Sessions : WaitsFor(p, q) /\ Ready(q)

\* NobodyHangs, for any number of sessions and runs, faults or none.
THEOREM NobodyEverHangs == Spec => []NobodyHangs
<1>1. IInv => NobodyHangs
  <2> SUFFICES ASSUME IInv, NEW p \in Sessions, sess[p].pc # "idle", ~Ready(p)
               PROVE  \E q \in Sessions : WaitsFor(p, q) /\ Ready(q)
    BY DEF NobodyHangs
  <2> DEFINE r == sess[p].run
  <2>1. r \in Runs /\ ShapeOK(p) /\ sess[p].pc \in Pc
    BY BusyType DEF IInv, SessionsOK, TypeOK, Session
  <2>2. CASE sess[p].pc = "lockRun"
    BY <2>1, <2>2, ReviewerNeverWaits DEF ShapeOK, Ready
  <2>3. CASE sess[p].pc = "lockApproval"
    <3>1. PICK q \in Sessions : HoldsApproval(q, r)
      BY <2>3 DEF Ready, ApprovalUnlocked
    <3>2. /\ sess[q].run = r /\ sess[q].op \in Review
          /\ sess[q].pc \in {"lockRun", "execute", "commit"}
      BY <3>1 DEF HoldsApproval
    <3>3. Ready(q)
      BY <3>2, ReviewerNeverWaits DEF Ready
    <3> QED
      BY <2>3, <3>1, <3>3 DEF WaitsFor
  <2>4. CASE sess[p].pc \in {"claim", "fail", "invoke"}
    <3>1. PICK q \in Sessions : HoldsRun(q, r)
      BY <2>4 DEF Ready, RunUnlocked
    <3>2. Ready(q)
      BY <2>1, <3>1, RunHolder
    <3> QED
      BY <2>4, <3>1, <3>2 DEF WaitsFor, Ready
  <2> QED
    BY <2>1, <2>2, <2>3, <2>4 DEF Ready, Pc
<1> QED
  BY <1>1, InvariantHolds, PTL
=============================================================================
