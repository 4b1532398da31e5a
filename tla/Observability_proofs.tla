------------------------- MODULE Observability_proofs -------------------------
(***************************************************************************)
(* What Observability shows of the runs: proofs, for any number of runs,   *)
(* sessions, workers, readers and faults.                                  *)
(***************************************************************************)
EXTENDS RunExecution_refinement, Observability

-----------------------------------------------------------------------------
(* Observation changes nothing: what is proved of RunExecution holds here. *)

LEMMA PassiveStep == [ONext]_ovars => [Next]_vars
<1> SUFFICES ASSUME [ONext]_ovars PROVE [Next]_vars
  OBVIOUS
<1>1. ASSUME RunStep PROVE Next
  <2>1. ASSUME NEW p \in ApiSessions, NEW r \in Runs, NEW async \in BOOLEAN, CountSubmit(p, r, async)
        PROVE  Next
    BY <2>1 DEF CountSubmit, Next
  <2>2. ASSUME NEW p \in ApiSessions, NEW r \in Runs, CountSubmitFails(p, r) PROVE Next
    BY <2>2 DEF CountSubmitFails, Next
  <2>2a. ASSUME NEW p \in ApiSessions, NEW r \in Runs, CountSubmitUnread(p, r) PROVE Next
    BY <2>2a DEF CountSubmitUnread, Next
  <2>3. ASSUME NEW p \in Sessions, CountCommit(p) \/ CountRecordFailure(p) PROVE Next
    BY <2>3 DEF CountCommit, CountRecordFailure, Step, Next
  <2>4. ASSUME NEW p \in Sessions, CountBrokenOff(p) PROVE Next
    BY <2>4 DEF CountBrokenOff, Next
  <2>5. CASE CountNothing
    BY <2>5 DEF CountNothing, Step, Next
  <2> QED
    BY <1>1, <2>1, <2>2, <2>2a, <2>3, <2>4, <2>5 DEF RunStep
<1> QED
  BY <1>1 DEF ONext, ovars

\* The observers of core/metrics.py and services/observability.py do not touch the
\* rows: every behaviour of Observability is one of RunExecution, whose theorems
\* therefore hold of it.
THEOREM ObservationIsPassive == OSpec => Spec
<1>1. OInit => Init
  BY DEF OInit
<1> QED
  BY <1>1, PassiveStep, PTL DEF OSpec, Spec

-----------------------------------------------------------------------------
(* The invariant.                                                          *)

Has(s, e) == \E i \in DOMAIN s : s[i] = e
Explained(status, s) ==
    /\ status = "RUNNING" => Has(s, "AgentRunStarted")
    /\ status = "BLOCKED" => Has(s, "ToolBlocked")
    /\ status = "SUCCESS" => Has(s, "AgentRunCompleted")
    /\ status = "FAILED" => Has(s, "AgentRunFailed")

\* What a session is about to commit is explained by the traces it commits with it.
CommitOK ==
    \A p \in Sessions : sess[p].pc = "commit" =>
        /\ sess[p].view.status \in {"SUCCESS", "FAILED"} => sess[p].view.tool = sess[p].view.status
        /\ Explained(sess[p].view.status, sess[p].events)
TraceOK == \A r \in Runs : Explained(db[r].status, trace[r])

\* What a reader has read is explained by what it reads next, and stays true of
\* a run that has finished.
ReportOK ==
    \A o \in Readers : report[o].at # "run" =>
        LET row == db[report[o].run]
        IN  /\ Explained(report[o].status, IF report[o].at = "events" THEN trace[report[o].run]
                                                                     ELSE report[o].events)
            /\ report[o].status \in {"SUCCESS", "FAILED"} =>
                  /\ row.status = report[o].status
                  /\ report[o].at \in {"approval", "done"} => report[o].tool = row.tool
                  /\ report[o].at = "done" => report[o].approval = row.approval
OInv ==
    /\ RInv
    /\ ObservedTypeOK
    /\ CommitOK
    /\ TraceOK
    /\ ReportOK
    /\ CountersTrackRows

LEMMA CounterNames ==
    Counter = {"agent_runs", "tool_calls", "approval_requests", "agent_runs_blocked",
               "tool_calls_failed", "agent_runs_success", "agent_runs_failed",
               "approval_requests_approved", "approval_requests_rejected"}
<1>1. DOMAIN CounterOrder = 1..9
  BY DEF CounterOrder
<1>2. /\ CounterOrder[1] = "agent_runs" /\ CounterOrder[2] = "tool_calls"
      /\ CounterOrder[3] = "approval_requests" /\ CounterOrder[4] = "agent_runs_blocked"
      /\ CounterOrder[5] = "tool_calls_failed" /\ CounterOrder[6] = "agent_runs_success"
      /\ CounterOrder[7] = "agent_runs_failed" /\ CounterOrder[8] = "approval_requests_approved"
      /\ CounterOrder[9] = "approval_requests_rejected"
  BY DEF CounterOrder
<1>3. \A i \in 1..9 : i \in {1, 2, 3, 4, 5, 6, 7, 8, 9}
  OBVIOUS
<1> QED
  BY <1>1, <1>2, <1>3 DEF Counter

LEMMA InitOInv == OInit => OInv
<1> SUFFICES ASSUME OInit PROVE OInv
  OBVIOUS
<1>1. Init /\ RInv /\ TypeOK
  BY InitRInv DEF OInit, RInv, IInv
<1>2. ObservedTypeOK
  <2>1. <<>> \in Seq(Event)
    OBVIOUS
  <2>2. NoReport \in Report /\ NoReport.run = NoRun /\ NoReport.at = "run"
    BY <2>1 DEF NoReport, Report, RunStatus, ToolStatus, ApprovalStatus
  <2>3. counted \in [Runs -> [Counter -> Nat]]
    BY DEF OInit
  <2>4. report \in [Readers -> Report] /\ \A o \in Readers : report[o] = NoReport
    BY <2>2 DEF OInit
  <2> QED
    BY <1>1, <2>2, <2>3, <2>4 DEF ObservedTypeOK
<1>3. CommitOK
  BY <1>1, IdleType DEF Init, CommitOK
<1>4. TraceOK
  BY <1>1 DEF Init, Absent, TraceOK, Explained
<1>5. ReportOK
  BY DEF OInit, NoReport, ReportOK
<1>6. CountersTrackRows
  <2> SUFFICES ASSUME NEW r \in Runs, NEW c \in Counter
               PROVE  ~Counted(db[r], c) /\ counted[r][c] = 0 /\ faults = 0
    BY DEF CountersTrackRows
  <2>1. db[r] = Absent
    BY <1>1 DEF Init
  <2>2. ~Counted(Absent, c)
    BY CounterNames DEF Counted, Absent
  <2> QED
    BY <1>1, <2>1, <2>2 DEF OInit, Init
<1> QED
  BY <1>1, <1>2, <1>3, <1>4, <1>5, <1>6 DEF OInv

-----------------------------------------------------------------------------
(* The rows and their traces.                                              *)

\* The steps that write committed rows.
LEMMA Writers ==
    ASSUME [Next]_vars
    PROVE  \/ \E p \in ApiSessions, r \in Runs, async \in BOOLEAN : Submit(p, r, async)
           \/ \E p \in ApiSessions, r \in Runs : SubmitUnread(p, r)
           \/ \E p \in Sessions : Claim(p) \/ Commit(p) \/ RecordFailure(p)
           \/ UNCHANGED <<db, trace>>
<1> USE DEF rows
<1>1. ASSUME NEW p \in Sessions, Step(p)
      PROVE  Claim(p) \/ Commit(p) \/ RecordFailure(p) \/ UNCHANGED <<db, trace>>
  BY <1>1 DEF Step, Enqueue, ClaimRejected, UnknownTool, InvokeAllowed, InvokeNeedsApproval,
     InvokeDenied, ExecuteTool, Refresh, LockApproval, LockRunRejected, Approve, Reject
<1> QED
  BY <1>1 DEF Next, vars, SubmitFails, BeginReview, Deliver, EnqueueFails, RefreshFails, DbError,
     Crash, Redeliver

LEMMA HasAppended ==
    ASSUME NEW S, NEW s \in Seq(S), NEW e \in S
    PROVE  /\ Append(s, e) \in Seq(S)
           /\ Has(Append(s, e), e)
           /\ \A f : Has(s, f) => Has(Append(s, e), f)
<1>1. /\ DOMAIN Append(s, e) = 1..(Len(s) + 1)
      /\ Append(s, e)[Len(s) + 1] = e
      /\ \A i \in 1..Len(s) : Append(s, e)[i] = s[i]
      /\ DOMAIN s = 1..Len(s)
  OBVIOUS
<1>2. Len(s) \in Nat
  OBVIOUS
<1> QED
  BY <1>1, <1>2 DEF Has

LEMMA HasConcatenated ==
    ASSUME NEW S, NEW s \in Seq(S), NEW t \in Seq(S)
    PROVE  /\ s \o t \in Seq(S)
           /\ \A f : Has(s, f) => Has(s \o t, f)
           /\ \A f : Has(t, f) => Has(s \o t, f)
<1>1. /\ DOMAIN (s \o t) = 1..(Len(s) + Len(t)) /\ DOMAIN s = 1..Len(s) /\ DOMAIN t = 1..Len(t)
      /\ Len(s) \in Nat /\ Len(t) \in Nat
      /\ \A i \in 1..Len(s) : (s \o t)[i] = s[i]
      /\ \A i \in 1..Len(t) : (s \o t)[Len(s) + i] = t[i]
  OBVIOUS
<1>2. \A i \in 1..Len(t) : Len(s) + i \in 1..(Len(s) + Len(t))
  BY <1>1
<1>3. ASSUME NEW f, Has(s, f) PROVE Has(s \o t, f)
  BY <1>1, <1>3 DEF Has
<1>4. ASSUME NEW f, Has(t, f) PROVE Has(s \o t, f)
  BY <1>1, <1>2, <1>4 DEF Has
<1> QED
  BY <1>3, <1>4

\* What one step makes of the rows and traces of a run.
LEMMA RowStep ==
    ASSUME RInv, CommitOK, TraceOK, [Next]_vars, NEW r \in Runs
    PROVE  /\ \A e : Has(trace[r], e) => Has(trace'[r], e)
           /\ Explained(db'[r].status, trace'[r])
<1> DEFINE Goal == /\ \A e : Has(trace[r], e) => Has(trace'[r], e)
                   /\ Explained(db'[r].status, trace'[r])
<1>0. /\ TypeOK /\ IInv /\ db \in [Runs -> Row] /\ trace \in [Runs -> Seq(Event)]
      /\ trace[r] \in Seq(Event) /\ db[r] \in Row
      /\ Explained(db[r].status, trace[r])
  BY DEF RInv, IInv, TypeOK, TraceOK
<1>1. ASSUME UNCHANGED <<db, trace>> PROVE Goal
  BY <1>0, <1>1
<1>2. ASSUME NEW x \in Runs, UNCHANGED trace, db' = [db EXCEPT ![x].status = "PENDING"]
      PROVE  Goal
  <2>1. UNCHANGED trace /\ db' = [db EXCEPT ![x].status = "PENDING"]
    BY <1>2
  <2>2. db'[r] = IF x = r THEN [db[r] EXCEPT !.status = "PENDING"] ELSE db[r]
    BY <1>0, <2>1
  <2>3. db'[r].status \in {"PENDING", db[r].status}
    BY <1>0, <2>2 DEF Row
  <2> QED
    BY <1>0, <2>1, <2>3 DEF Explained
<1>2a. ASSUME NEW p \in ApiSessions, NEW x \in Runs,
              SubmitUnread(p, x) \/ \E async \in BOOLEAN : Submit(p, x, async)
       PROVE  Goal
  <2>1. UNCHANGED trace /\ db' = [db EXCEPT ![x].status = "PENDING"]
    BY <1>2a DEF Submit, SubmitUnread
  <2> QED
    BY <1>2, <2>1
<1>3. ASSUME NEW p \in Sessions, Claim(p) PROVE Goal
  <2> DEFINE running == [db[sess[p].run] EXCEPT !.status = "RUNNING"]
  <2>1. /\ db' = [db EXCEPT ![sess[p].run] = running]
        /\ trace' = [trace EXCEPT ![sess[p].run] = Append(@, "AgentRunStarted")]
    BY <1>3 DEF Claim
  <2>2. CASE sess[p].run = r
    <3>1. db'[r].status = "RUNNING" /\ trace'[r] = Append(trace[r], "AgentRunStarted")
      BY <1>0, <2>1, <2>2 DEF Row
    <3>2. "AgentRunStarted" \in Event
      BY DEF Event
    <3> QED
      BY <1>0, <3>1, <3>2, HasAppended DEF Explained
  <2>3. CASE sess[p].run # r
    BY <1>0, <2>1, <2>3
  <2> QED
    BY <2>2, <2>3
<1>4. ASSUME NEW p \in Sessions, Commit(p) PROVE Goal
  <2>1. /\ sess[p].view \in Row /\ sess[p].events \in Seq(Event)
        /\ sess[p].view.status \in {"SUCCESS", "FAILED", "BLOCKED"}
        /\ Explained(sess[p].view.status, sess[p].events)
        /\ db' = [db EXCEPT ![sess[p].run] = sess[p].view]
        /\ trace' = [trace EXCEPT ![sess[p].run] = @ \o sess[p].events]
    BY <1>0, <1>4, BusyType DEF Commit, IInv, SessionsOK, ViewOK, CommitOK
  <2>2. CASE sess[p].run = r
    <3>1. db'[r] = sess[p].view /\ trace'[r] = trace[r] \o sess[p].events
      BY <1>0, <2>1, <2>2
    <3>2. /\ \A f : Has(trace[r], f) => Has(trace'[r], f)
          /\ \A f : Has(sess[p].events, f) => Has(trace'[r], f)
      BY <1>0, <2>1, <3>1, HasConcatenated
    <3> QED
      BY <2>1, <3>1, <3>2 DEF Explained
  <2>3. CASE sess[p].run # r
    BY <1>0, <2>1, <2>3
  <2> QED
    BY <2>2, <2>3
<1>5. ASSUME NEW p \in Sessions, RecordFailure(p) PROVE Goal
  <2> DEFINE failed == [db[sess[p].run] EXCEPT !.status = "FAILED"]
  <2>1. /\ db' = [db EXCEPT ![sess[p].run] = failed]
        /\ trace' = [trace EXCEPT ![sess[p].run] = Append(@, "AgentRunFailed")]
    BY <1>5 DEF RecordFailure
  <2>2. CASE sess[p].run = r
    <3>1. db'[r].status = "FAILED" /\ trace'[r] = Append(trace[r], "AgentRunFailed")
      BY <1>0, <2>1, <2>2 DEF Row
    <3>2. "AgentRunFailed" \in Event
      BY DEF Event
    <3> QED
      BY <1>0, <3>1, <3>2, HasAppended DEF Explained
  <2>3. CASE sess[p].run # r
    BY <1>0, <2>1, <2>3
  <2> QED
    BY <2>2, <2>3
<1> QED
  BY <1>1, <1>2a, <1>3, <1>4, <1>5, Writers

\* A session comes to its commit with a view that its events explain.
LEMMA CommitOKStep ==
    ASSUME RInv, CommitOK, [Next]_vars, "refresh" \notin FaultKinds
    PROVE  CommitOK'
<1>0. TypeOK /\ IInv
  BY DEF RInv, IInv
<1> SUFFICES ASSUME NEW q \in Sessions, sess'[q].pc = "commit"
             PROVE  /\ sess'[q].view.status \in {"SUCCESS", "FAILED"} =>
                           sess'[q].view.tool = sess'[q].view.status
                    /\ Explained(sess'[q].view.status, sess'[q].events)
  BY DEF CommitOK, Explained, Has
<1>1. CASE sess'[q] = sess[q]
  BY <1>1 DEF CommitOK
<1>2. CASE sess'[q] # sess[q]
  <2>1. \/ InvokeNeedsApproval(q) \/ InvokeDenied(q) \/ Reject(q)
        \/ \E ok \in BOOLEAN : ExecuteTool(q, ok)
    BY <1>0, <1>2, OwnStep
  <2>w. ASSUME NEW row, NEW evs, Become(q, Work(q, "commit", row, evs))
        PROVE  sess'[q].view = row /\ sess'[q].events = evs
    <3>1. sess'[q] = Work(q, "commit", row, evs)
      BY <1>0, <2>w, Becomes
    <3> QED
      BY <3>1 DEF Work
  <2>t. /\ Has(<<"PolicyCheck", "ApprovalRequested", "ToolBlocked">>, "ToolBlocked")
        /\ Has(<<"PolicyCheck", "ToolBlocked">>, "ToolBlocked")
        /\ Has(<<"ApprovalRejected", "ToolBlocked">>, "ToolBlocked")
        /\ Has(<<"ToolSucceeded", "AgentRunCompleted">>, "AgentRunCompleted")
        /\ Has(<<"ToolFailed", "AgentRunFailed">>, "AgentRunFailed")
    <3>1. ASSUME NEW a, NEW b PROVE Has(<<a, b>>, b)
      <4>1. 2 \in DOMAIN <<a, b>> /\ <<a, b>>[2] = b
        OBVIOUS
      <4> QED
        BY <4>1 DEF Has
    <3>2. ASSUME NEW a, NEW b, NEW c PROVE Has(<<a, b, c>>, c)
      <4>1. 3 \in DOMAIN <<a, b, c>> /\ <<a, b, c>>[3] = c
        OBVIOUS
      <4> QED
        BY <4>1 DEF Has
    <3> QED
      BY <3>1, <3>2
  <2>2. CASE InvokeNeedsApproval(q)
    <3>1. sess[q].view \in Row
      BY <1>0, <2>2, BusyType DEF InvokeNeedsApproval
    <3>2. /\ sess'[q].view = [sess[q].view EXCEPT !.status = "BLOCKED", !.tool = "BLOCKED",
                                                  !.approval = "PENDING"]
          /\ sess'[q].events = <<"PolicyCheck", "ApprovalRequested", "ToolBlocked">>
      BY <2>2, <2>w DEF InvokeNeedsApproval
    <3>3. sess'[q].view.status = "BLOCKED"
      BY <3>1, <3>2 DEF Row
    <3> QED
      BY <2>t, <3>2, <3>3 DEF Explained
  <2>3. CASE InvokeDenied(q)
    <3>1. sess[q].view \in Row
      BY <1>0, <2>3, BusyType DEF InvokeDenied
    <3>2. /\ sess'[q].view = [sess[q].view EXCEPT !.status = "BLOCKED", !.tool = "BLOCKED"]
          /\ sess'[q].events = <<"PolicyCheck", "ToolBlocked">>
      BY <2>3, <2>w DEF InvokeDenied
    <3>3. sess'[q].view.status = "BLOCKED"
      BY <3>1, <3>2 DEF Row
    <3> QED
      BY <2>t, <3>2, <3>3 DEF Explained
  <2>4. CASE Reject(q)
    <3>1. db[sess[q].run] \in Row /\ db[sess[q].run].status = "BLOCKED"
      BY <1>0, <2>4, AtLockRun DEF Reject
    <3>2. /\ sess'[q].view = [db[sess[q].run] EXCEPT !.tool = "BLOCKED", !.approval = "REJECTED"]
          /\ sess'[q].events = <<"ApprovalRejected", "ToolBlocked">>
      BY <2>4, <2>w DEF Reject
    <3>3. sess'[q].view.status = "BLOCKED"
      BY <3>1, <3>2 DEF Row
    <3> QED
      BY <2>t, <3>2, <3>3 DEF Explained
  <2>5. ASSUME NEW ok \in BOOLEAN, ExecuteTool(q, ok)
        PROVE  /\ sess'[q].view.tool = sess'[q].view.status
               /\ Explained(sess'[q].view.status, sess'[q].events)
    <3> DEFINE outcome == IF ok THEN "SUCCESS" ELSE "FAILED"
               told == IF ok THEN <<"ToolSucceeded", "AgentRunCompleted">>
                             ELSE <<"ToolFailed", "AgentRunFailed">>
    <3>1. sess[q].view \in Row /\ sess[q].events \in Seq(Event)
      BY <1>0, <2>5, BusyType DEF ExecuteTool
    <3>2. /\ sess'[q].view = [sess[q].view EXCEPT !.status = outcome, !.tool = outcome]
          /\ sess'[q].events = sess[q].events \o told
      BY <2>5, <2>w DEF ExecuteTool
    <3>3. sess'[q].view.status = outcome /\ sess'[q].view.tool = outcome
      BY <3>1, <3>2 DEF Row
    <3>4. told \in Seq(Event)
      <4>1. /\ <<"ToolSucceeded", "AgentRunCompleted">> \in Seq(Event)
            /\ <<"ToolFailed", "AgentRunFailed">> \in Seq(Event)
        BY DEF Event
      <4> QED
        BY <4>1
    <3>5. \A f : Has(told, f) => Has(sess'[q].events, f)
      <4> HIDE DEF told
      <4>1. \A f : Has(told, f) => Has(sess[q].events \o told, f)
        BY <3>1, <3>4, HasConcatenated
      <4> QED
        BY <3>2, <4>1
    <3> QED
      BY <2>t, <3>3, <3>5 DEF Explained
  <2> QED
    BY <2>1, <2>2, <2>3, <2>4, <2>5
<1> QED
  BY <1>1, <1>2

-----------------------------------------------------------------------------
(* The counters.                                                           *)

LEMMA CountAdds ==
    ASSUME counted \in [Runs -> [Counter -> Nat]], NEW x \in Runs, NEW cs, Count(x, cs)
    PROVE  /\ counted' \in [Runs -> [Counter -> Nat]]
           /\ \A r \in Runs, c \in Counter :
                 counted'[r][c] = counted[r][c] + IF r = x /\ c \in cs THEN 1 ELSE 0
<1> DEFINE new == [c \in Counter |-> counted[x][c] + IF c \in cs THEN 1 ELSE 0]
<1>1. counted' = [counted EXCEPT ![x] = new]
  BY DEF Count
<1>2. counted[x] \in [Counter -> Nat]
  OBVIOUS
<1>3. new \in [Counter -> Nat]
  BY <1>2
<1>4. \A c \in Counter : new[c] = counted[x][c] + IF c \in cs THEN 1 ELSE 0
  OBVIOUS
<1>5. \A r \in Runs, c \in Counter : counted[r][c] \in Nat
  OBVIOUS
<1> HIDE DEF new
<1>6. \A r \in Runs : counted'[r] = IF r = x THEN new ELSE counted[r]
  BY <1>1
<1> QED
  BY <1>1, <1>3, <1>4, <1>5, <1>6

LEMMA FaultsGrow == [Next]_vars => faults' = faults \/ faults' = faults + 1
BY DEF Next, vars, Submit, SubmitFails, SubmitUnread, BeginReview, Deliver, Step, Enqueue, Claim, ClaimRejected,
   UnknownTool, InvokeAllowed, InvokeNeedsApproval, InvokeDenied, ExecuteTool, Commit, Refresh,
   RecordFailure, LockApproval, LockRunRejected, Approve, Reject, EnqueueFails, RefreshFails,
   DbError, Crash, Redeliver, Fault

\* A step keeps a counter in its place if it counts what it commits, once, or
\* if it is a fault.
LEMMA KeepsTrack ==
    ASSUME NEW r \in Runs, NEW c \in Counter, counted[r][c] \in Nat, faults \in Nat,
           counted[r][c] \in (IF Counted(db[r], c) THEN 1 ELSE 0)..
                             ((IF Counted(db[r], c) THEN 1 ELSE 0) + faults),
           \/ /\ Counted(db'[r], c) <=> Counted(db[r], c)
              /\ counted'[r][c] = counted[r][c]
              /\ faults' = faults \/ faults' = faults + 1
           \/ /\ Counted(db'[r], c) /\ ~Counted(db[r], c)
              /\ counted'[r][c] = counted[r][c] + 1
              /\ faults' = faults \/ faults' = faults + 1
           \/ /\ Counted(db'[r], c) <=> Counted(db[r], c)
              /\ counted'[r][c] = counted[r][c] \/ counted'[r][c] = counted[r][c] + 1
              /\ faults' = faults + 1
    PROVE  counted'[r][c] \in (IF Counted(db'[r], c) THEN 1 ELSE 0)..
                              ((IF Counted(db'[r], c) THEN 1 ELSE 0) + faults')
<1> DEFINE before == IF Counted(db[r], c) THEN 1 ELSE 0
           after == IF Counted(db'[r], c) THEN 1 ELSE 0
<1>1. before \in Nat /\ after \in Nat /\ counted[r][c] \in before..(before + faults)
  OBVIOUS
<1>2. \/ after = before /\ counted'[r][c] = counted[r][c] /\ (faults' = faults \/ faults' = faults + 1)
      \/ /\ after = before + 1 /\ counted'[r][c] = counted[r][c] + 1
         /\ faults' = faults \/ faults' = faults + 1
      \/ /\ after = before /\ faults' = faults + 1
         /\ counted'[r][c] = counted[r][c] \/ counted'[r][c] = counted[r][c] + 1
  OBVIOUS
<1> HIDE DEF before, after
<1>3. counted'[r][c] \in after..(after + faults')
  BY <1>1, <1>2
<1> QED
  BY <1>3 DEF after

\* The counters in cs are those that count row and do not count old.
Exact(old, row, cs) ==
    \A c \in Counter :
        \/ c \in cs /\ Counted(row, c) /\ ~Counted(old, c)
        \/ c \notin cs /\ (Counted(row, c) <=> Counted(old, c))

LEMMA CountedRows ==
    ASSUME NEW row
    PROVE  /\ Counted(row, "agent_runs") <=> row.status # "ABSENT"
           /\ Counted(row, "tool_calls") <=> row.tool # "NONE"
           /\ Counted(row, "approval_requests") <=> row.approval # "NONE"
           /\ Counted(row, "agent_runs_blocked") <=> row.status = "BLOCKED" \/ row.approval # "NONE"
           /\ Counted(row, "tool_calls_failed") <=> row.tool = "FAILED"
           /\ Counted(row, "agent_runs_success") <=> row.status = "SUCCESS"
           /\ Counted(row, "agent_runs_failed") <=> row.status = "FAILED"
           /\ Counted(row, "approval_requests_approved") <=> row.approval = "APPROVED"
           /\ Counted(row, "approval_requests_rejected") <=> row.approval = "REJECTED"
BY DEF Counted

LEMMA NewRunExact ==
    ASSUME NEW old, NEW row, old.status = "ABSENT", old.tool = "NONE", old.approval = "NONE",
           row.status = "PENDING", row.tool = "NONE", row.approval = "NONE"
    PROVE  Exact(old, row, {"agent_runs"})
BY CounterNames, CountedRows DEF Exact

LEMMA FailureExact ==
    ASSUME NEW old, NEW row, old.status = "RUNNING", old.tool = "NONE", old.approval = "NONE",
           row.status = "FAILED", row.tool = "NONE", row.approval = "NONE"
    PROVE  Exact(old, row, {"agent_runs_failed"})
BY CounterNames, CountedRows DEF Exact

\* What the commit of a session counts is what it puts into the rows.
LEMMA CommitCounts ==
    ASSUME RInv, CommitOK, NEW p \in Sessions, Commit(p)
    PROVE  Exact(db[sess[p].run], sess[p].view, Counts(sess[p].op, sess[p].view))
<1> DEFINE r == sess[p].run
           old == db[r]
           new == sess[p].view
<1>0. /\ sess[p].pc = "commit" /\ r \in Runs /\ sess[p].op \in {"execute", "approve", "reject"}
      /\ ShapeOK(p) /\ ViewOK(p) /\ HeldOK(p) /\ RowOK(request[r], new) /\ RowOK(request[r], old)
      /\ new.status \in {"SUCCESS", "FAILED", "BLOCKED"}
      /\ new.status \in {"SUCCESS", "FAILED"} => new.tool = new.status
  BY BusyType DEF RInv, IInv, SessionsOK, ViewOK, RowsOK, Commit, CommitOK, ShapeOK, Op
<1> SUFFICES Exact(old, new, Counts(sess[p].op, new))
  OBVIOUS
<1>t. new.status \in {"SUCCESS", "FAILED"} => new.tool = new.status
  BY <1>0
<1> HIDE DEF r, old, new
<1>1. CASE sess[p].op = "execute"
  <2>1. /\ old.status = "RUNNING" /\ old.tool = "NONE" /\ old.approval = "NONE"
        /\ new.approval \in {"NONE", "PENDING"}
        /\ new.status = "BLOCKED" => new.tool = "BLOCKED"
        /\ new.status # "BLOCKED" => new.approval = "NONE"
    BY <1>0, <1>1 DEF HeldOK, Owner, ViewOK, RowOK, r, old, new
  <2>2. CASE new.status = "SUCCESS"
    <3>1. Counts("execute", new) = {"tool_calls", "agent_runs_success"}
      BY <1>0, <2>1, <2>2 DEF Counts, Finished
    <3> QED
      BY <1>t, <1>1, <2>1, <2>2, <3>1, CounterNames, CountedRows DEF Exact
  <2>3. CASE new.status = "FAILED"
    <3>1. Counts("execute", new) = {"tool_calls", "tool_calls_failed", "agent_runs_failed"}
      BY <1>0, <2>1, <2>3 DEF Counts, Finished
    <3> QED
      BY <1>t, <1>1, <2>1, <2>3, <3>1, CounterNames, CountedRows DEF Exact
  <2>4. CASE new.status = "BLOCKED" /\ new.approval = "PENDING"
    <3>1. Counts("execute", new) = {"tool_calls", "approval_requests", "agent_runs_blocked"}
      BY <2>4 DEF Counts
    <3> QED
      BY <1>t, <1>1, <2>1, <2>4, <3>1, CounterNames, CountedRows DEF Exact
  <2>5. CASE new.status = "BLOCKED" /\ new.approval = "NONE"
    <3>1. Counts("execute", new) = {"tool_calls", "agent_runs_blocked"}
      BY <2>5 DEF Counts
    <3> QED
      BY <1>t, <1>1, <2>1, <2>5, <3>1, CounterNames, CountedRows DEF Exact
  <2> QED
    BY <1>0, <2>1, <2>2, <2>3, <2>4, <2>5
<1>2. CASE sess[p].op = "approve"
  <2>1. /\ old.status = "BLOCKED" /\ old.tool = "BLOCKED" /\ old.approval = "PENDING"
        /\ new.approval = "APPROVED" /\ new.status # "BLOCKED"
    BY <1>0, <1>2 DEF HeldOK, Reviewer, Review, ViewOK, RowOK, r, old, new
  <2>2. CASE new.status = "SUCCESS"
    <3>1. Counts("approve", new) = {"approval_requests_approved", "agent_runs_success"}
      BY <2>2 DEF Counts, Finished
    <3> QED
      BY <1>t, <1>2, <2>1, <2>2, <3>1, CounterNames, CountedRows DEF Exact
  <2>3. CASE new.status = "FAILED"
    <3>1. Counts("approve", new) =
            {"approval_requests_approved", "tool_calls_failed", "agent_runs_failed"}
      BY <2>3 DEF Counts, Finished
    <3> QED
      BY <1>t, <1>2, <2>1, <2>3, <3>1, CounterNames, CountedRows DEF Exact
  <2> QED
    BY <1>0, <2>1, <2>2, <2>3
<1>3. CASE sess[p].op = "reject"
  <2>1. /\ old.status = "BLOCKED" /\ old.tool = "BLOCKED" /\ old.approval = "PENDING"
        /\ new.approval = "REJECTED" /\ new.status = "BLOCKED" /\ new.tool = "BLOCKED"
    BY <1>0, <1>3 DEF HeldOK, Reviewer, Review, ViewOK, RowOK, r, old, new
  <2>2. Counts("reject", new) = {"approval_requests_rejected"}
    BY DEF Counts
  <2> QED
    BY <1>3, <2>1, <2>2, CounterNames, CountedRows DEF Exact
<1> QED
  BY <1>0, <1>1, <1>2, <1>3

\* The counters after any step.
LEMMA CountersStep ==
    ASSUME OInv, [ONext]_ovars, "refresh" \notin FaultKinds
    PROVE  /\ counted' \in [Runs -> [Counter -> Nat]]
           /\ CountersTrackRows'
<1> USE DEF rows, ghosts
<1>0. /\ RInv /\ IInv /\ TypeOK /\ CommitOK /\ [Next]_vars /\ faults \in Nat
      /\ db \in [Runs -> Row] /\ counted \in [Runs -> [Counter -> Nat]]
  BY PassiveStep DEF OInv, RInv, IInv, TypeOK, ObservedTypeOK
<1>1. ASSUME NEW r \in Runs, NEW c \in Counter
      PROVE  /\ counted[r][c] \in Nat
             /\ counted[r][c] \in (IF Counted(db[r], c) THEN 1 ELSE 0)..
                                  ((IF Counted(db[r], c) THEN 1 ELSE 0) + faults)
  BY <1>0, <1>1 DEF OInv, CountersTrackRows
<1> DEFINE Same(r, c) == /\ Counted(db'[r], c) <=> Counted(db[r], c)
                         /\ counted'[r][c] = counted[r][c]
                         /\ faults' = faults \/ faults' = faults + 1
           Once(r, c) == /\ Counted(db'[r], c) /\ ~Counted(db[r], c)
                         /\ counted'[r][c] = counted[r][c] + 1
                         /\ faults' = faults \/ faults' = faults + 1
           Perhaps(r, c) == /\ Counted(db'[r], c) <=> Counted(db[r], c)
                            /\ \/ counted'[r][c] = counted[r][c]
                               \/ counted'[r][c] = counted[r][c] + 1
                            /\ faults' = faults + 1
           Goal == /\ counted' \in [Runs -> [Counter -> Nat]]
                   /\ \A r \in Runs, c \in Counter : Same(r, c) \/ Once(r, c) \/ Perhaps(r, c)
<1>q. \A r \in Runs : RowOK(request[r], db[r]) /\ db[r] \in Row
  BY <1>0 DEF IInv, RowsOK
<1>2. ASSUME UNCHANGED <<db, counted>> PROVE Goal
  BY <1>0, <1>2, FaultsGrow DEF vars
\* A transaction that ends without a commit.
<1>3. ASSUME NEW x \in Runs, NEW cs, Count(x, cs), UNCHANGED db, faults' = faults + 1
      PROVE  Goal
  <2>1. /\ counted' \in [Runs -> [Counter -> Nat]]
        /\ \A r \in Runs, c \in Counter :
              counted'[r][c] = counted[r][c] + IF r = x /\ c \in cs THEN 1 ELSE 0
    BY <1>0, <1>3, CountAdds
  <2>2. \A r \in Runs, c \in Counter : counted[r][c] \in Nat
    BY <1>0
  <2>3. \A r \in Runs, c \in Counter : Perhaps(r, c)
    BY <1>3, <2>1, <2>2
  <2> QED
    BY <2>1, <2>3
\* A transaction that writes the row of one run and counts what is new in it.
<1>4. ASSUME NEW x \in Runs, NEW cs, NEW row, Count(x, cs), db' = [db EXCEPT ![x] = row],
             faults' = faults \/ faults' = faults + 1, Exact(db[x], row, cs)
      PROVE  Goal
  <2>1. /\ counted' \in [Runs -> [Counter -> Nat]]
        /\ \A r \in Runs, c \in Counter :
              counted'[r][c] = counted[r][c] + IF r = x /\ c \in cs THEN 1 ELSE 0
    BY <1>0, <1>4, CountAdds
  <2>2. \A r \in Runs, c \in Counter : counted[r][c] \in Nat
    BY <1>0
  <2>3. \A r \in Runs : db'[r] = IF r = x THEN row ELSE db[r]
    BY <1>0, <1>4
  <2>4. ASSUME NEW r \in Runs, NEW c \in Counter PROVE Same(r, c) \/ Once(r, c)
    <3>1. CASE r # x
      BY <1>4, <2>1, <2>2, <2>3, <3>1
    <3>2. CASE r = x /\ c \in cs
      BY <1>4, <2>1, <2>2, <2>3, <3>2 DEF Exact
    <3>3. CASE r = x /\ c \notin cs
      BY <1>4, <2>1, <2>2, <2>3, <3>3 DEF Exact
    <3> QED
      BY <3>1, <3>2, <3>3
  <2> QED
    BY <2>1, <2>4
<1> HIDE DEF Goal
<1>5. ASSUME NEW p \in ApiSessions, NEW r \in Runs, NEW async \in BOOLEAN, CountSubmit(p, r, async)
      PROVE  Goal
  <2> DEFINE row == [db[r] EXCEPT !.status = "PENDING"]
  <2>1. /\ Count(r, {"agent_runs"}) /\ db[r].status = "ABSENT" /\ UNCHANGED faults
        /\ db' = [db EXCEPT ![r] = row]
    BY <1>5 DEF CountSubmit, Submit
  <2>2. /\ db[r].tool = "NONE" /\ db[r].approval = "NONE"
        /\ row.status = "PENDING" /\ row.tool = "NONE" /\ row.approval = "NONE"
    BY <1>q, <2>1 DEF RowOK, Row
  <2> HIDE DEF row
  <2>3. Exact(db[r], row, {"agent_runs"})
    BY <2>1, <2>2, NewRunExact
  <2> QED
    BY <1>4, <2>1, <2>3
<1>5a. ASSUME NEW p \in ApiSessions, NEW r \in Runs, CountSubmitUnread(p, r) PROVE Goal
  <2> DEFINE row == [db[r] EXCEPT !.status = "PENDING"]
  <2>1. /\ Count(r, {"agent_runs"}) /\ db[r].status = "ABSENT" /\ faults' = faults + 1
        /\ db' = [db EXCEPT ![r] = row]
    BY <1>5a DEF CountSubmitUnread, SubmitUnread, Fault
  <2>2. /\ db[r].tool = "NONE" /\ db[r].approval = "NONE"
        /\ row.status = "PENDING" /\ row.tool = "NONE" /\ row.approval = "NONE"
    BY <1>q, <2>1 DEF RowOK, Row
  <2> HIDE DEF row
  <2>3. Exact(db[r], row, {"agent_runs"})
    BY <2>1, <2>2, NewRunExact
  <2> QED
    BY <1>4, <2>1, <2>3
<1>6. ASSUME NEW p \in ApiSessions, NEW r \in Runs, CountSubmitFails(p, r) PROVE Goal
  BY <1>3, <1>6 DEF CountSubmitFails, SubmitFails, Fault
<1>7. ASSUME NEW p \in Sessions, CountCommit(p) PROVE Goal
  <2>1. /\ Commit(p) /\ Count(sess[p].run, Counts(sess[p].op, sess[p].view)) /\ UNCHANGED faults
        /\ db' = [db EXCEPT ![sess[p].run] = sess[p].view] /\ sess[p].run \in Runs
    BY <1>0, <1>7, BusyType DEF CountCommit, Commit
  <2>2. Exact(db[sess[p].run], sess[p].view, Counts(sess[p].op, sess[p].view))
    BY <1>0, <2>1, CommitCounts
  <2> QED
    BY <1>4, <2>1, <2>2
<1>8. ASSUME NEW p \in Sessions, CountRecordFailure(p) PROVE Goal
  <2> DEFINE r == sess[p].run
             row == [db[r] EXCEPT !.status = "FAILED"]
  <2>1. /\ Count(r, {"agent_runs_failed"}) /\ UNCHANGED faults /\ r \in Runs
        /\ db' = [db EXCEPT ![r] = row] /\ sess[p].pc = "fail"
    BY <1>0, <1>8, BusyType DEF CountRecordFailure, RecordFailure
  <2>2. db[r].status = "RUNNING"
    BY <1>0, <2>1 DEF RInv, FailOK
  <2>3. /\ db[r].tool = "NONE" /\ db[r].approval = "NONE"
        /\ row.status = "FAILED" /\ row.tool = "NONE" /\ row.approval = "NONE"
    BY <1>q, <2>1, <2>2 DEF RowOK, Row
  <2> HIDE DEF r, row
  <2>4. Exact(db[r], row, {"agent_runs_failed"})
    BY <2>2, <2>3, FailureExact
  <2> QED
    BY <1>4, <2>1, <2>4
<1>9. ASSUME NEW p \in Sessions, CountBrokenOff(p) PROVE Goal
  <2>1. UNCHANGED db /\ faults' = faults + 1 /\ sess[p].run \in Runs
    BY <1>0, <1>9, BusyType DEF CountBrokenOff, DbError, Crash, Fault
  <2>2. PICK cs \in BrokenOff(p) : Count(sess[p].run, cs)
    BY <1>9 DEF CountBrokenOff
  <2> QED
    BY <1>3, <2>1, <2>2
<1>10. ASSUME CountNothing PROVE Goal
  <2>1. (\E p \in Sessions : Claim(p)) \/ UNCHANGED db
    BY <1>10 DEF CountNothing, BeginReview, Deliver, Redeliver, Enqueue, EnqueueFails,
       ClaimRejected, UnknownTool, InvokeAllowed, InvokeNeedsApproval, InvokeDenied, ExecuteTool,
       Refresh, RefreshFails, LockApproval, LockRunRejected, Approve, Reject
  <2>2. UNCHANGED counted
    BY <1>10 DEF CountNothing
  <2>3. ASSUME NEW p \in Sessions, Claim(p) PROVE Goal
    <3> DEFINE x == sess[p].run
               row == [db[x] EXCEPT !.status = "RUNNING"]
    <3>1. /\ x \in Runs /\ db[x].status = "PENDING" /\ db' = [db EXCEPT ![x] = row]
      BY <1>0, <2>3, BusyType DEF Claim
    <3>2. /\ db[x].tool = "NONE" /\ db[x].approval = "NONE"
          /\ row.status = "RUNNING" /\ row.tool = "NONE" /\ row.approval = "NONE"
      BY <1>q, <3>1 DEF RowOK, Row
    <3>3. \A r \in Runs : db'[r] = IF r = x THEN row ELSE db[r]
      BY <1>0, <3>1
    <3> HIDE DEF x, row
    <3>4. \A c \in Counter : Counted(row, c) <=> Counted(db[x], c)
      BY <3>1, <3>2, CounterNames DEF Counted
    <3>5. \A r \in Runs, c \in Counter : Counted(db'[r], c) <=> Counted(db[r], c)
      BY <3>3, <3>4
    <3> QED
      BY <1>0, <2>2, <3>5, FaultsGrow DEF Goal, vars
  <2> QED
    BY <1>2, <2>1, <2>2, <2>3
<1>11. Goal
  <2>1. CASE RunStep
    BY <2>1, <1>5, <1>5a, <1>6, <1>7, <1>8, <1>9, <1>10 DEF RunStep
  <2>2. CASE UNCHANGED <<vars, counted>>
    BY <1>2, <2>2 DEF vars
  <2> QED
    BY <2>1, <2>2 DEF ONext, ovars
<1>12. ASSUME NEW r \in Runs, NEW c \in Counter
       PROVE  counted'[r][c] \in (IF Counted(db'[r], c) THEN 1 ELSE 0)..
                                 ((IF Counted(db'[r], c) THEN 1 ELSE 0) + faults')
  <2>1. Same(r, c) \/ Once(r, c) \/ Perhaps(r, c)
    BY <1>11 DEF Goal
  <2> QED
    BY <1>0, <1>1, <2>1, KeepsTrack
<1>13. CountersTrackRows'
  BY <1>12 DEF CountersTrackRows, Counted
<1> QED
  BY <1>11, <1>13 DEF Goal

-----------------------------------------------------------------------------
(* The readers.                                                            *)

\* A run commits something while a reader is between two SELECTs.
LEMMA RunStepReport ==
    ASSUME OInv, [Next]_vars, UNCHANGED report
    PROVE  ReportOK'
<1> SUFFICES ASSUME NEW o \in Readers, report[o].at # "run"
             PROVE  LET row == db'[report[o].run]
                    IN  /\ Explained(report[o].status,
                                     IF report[o].at = "events" THEN trace'[report[o].run]
                                                                ELSE report[o].events)
                        /\ report[o].status \in {"SUCCESS", "FAILED"} =>
                              /\ row.status = report[o].status
                              /\ report[o].at \in {"approval", "done"} => report[o].tool = row.tool
                              /\ report[o].at = "done" => report[o].approval = row.approval
  BY DEF ReportOK, Explained, Has
<1> DEFINE r == report[o].run
<1>1. r \in Runs
  BY DEF OInv, ObservedTypeOK, Report
<1>2. \A e : Has(trace[r], e) => Has(trace'[r], e)
  BY <1>1, RowStep DEF OInv
<1>3. Explained(report[o].status, IF report[o].at = "events" THEN trace'[r] ELSE report[o].events)
  <2>1. Explained(report[o].status, IF report[o].at = "events" THEN trace[r] ELSE report[o].events)
    BY DEF OInv, ReportOK
  <2>2. CASE report[o].at = "events"
    BY <1>2, <2>1, <2>2 DEF Explained
  <2>3. CASE report[o].at # "events"
    BY <2>1, <2>3
  <2> QED
    BY <2>2, <2>3
<1>4. ASSUME report[o].status \in {"SUCCESS", "FAILED"} PROVE db'[r] = db[r]
  <2>1. Settled(db[r])
    BY <1>4 DEF OInv, ReportOK, Settled
  <2> QED
    BY <1>1, <2>1, SettledStep DEF OInv
<1> QED
  BY <1>3, <1>4 DEF OInv, ReportOK

\* A reader takes its next SELECT, or answers.
LEMMA ReadStepReport ==
    ASSUME OInv, NEW o \in Readers, ReadStep(o), UNCHANGED vars
    PROVE  /\ report' \in [Readers -> Report]
           /\ \A q \in Readers : report'[q].run = NoRun <=> report'[q].at = "run"
           /\ ReportOK'
<1>0. /\ report \in [Readers -> Report]
      /\ \A q \in Readers : report[q].run = NoRun <=> report[q].at = "run"
      /\ db \in [Runs -> Row] /\ trace \in [Runs -> Seq(Event)]
      /\ UNCHANGED <<db, trace>>
  BY DEF OInv, ObservedTypeOK, TypeOK, vars
<1> DEFINE Right(rep) ==
      /\ rep \in Report
      /\ rep.run = NoRun <=> rep.at = "run"
      /\ rep.at # "run" =>
            /\ Explained(rep.status, IF rep.at = "events" THEN trace[rep.run] ELSE rep.events)
            /\ rep.status \in {"SUCCESS", "FAILED"} =>
                  /\ db[rep.run].status = rep.status
                  /\ rep.at \in {"approval", "done"} => rep.tool = db[rep.run].tool
                  /\ rep.at = "done" => rep.approval = db[rep.run].approval
<1>1. \A q \in Readers : Right(report[q])
  BY <1>0 DEF OInv, ReportOK
<1>2. ASSUME NEW rep, Right(rep), Reading(o, rep)
      PROVE  /\ report' \in [Readers -> Report]
             /\ \A q \in Readers : report'[q].run = NoRun <=> report'[q].at = "run"
             /\ ReportOK'
  <2>1. /\ report' \in [Readers -> Report]
        /\ \A q \in Readers : report'[q] = IF q = o THEN rep ELSE report[q]
    BY <1>0, <1>2 DEF Reading
  <2>2. \A q \in Readers : Right(report'[q])
    BY <1>1, <1>2, <2>1
  <2>3. ReportOK'
    <3> SUFFICES ASSUME NEW q \in Readers, report'[q].at # "run"
                 PROVE  LET row == db'[report'[q].run]
                        IN  /\ Explained(report'[q].status,
                                         IF report'[q].at = "events" THEN trace'[report'[q].run]
                                                                     ELSE report'[q].events)
                            /\ report'[q].status \in {"SUCCESS", "FAILED"} =>
                                  /\ row.status = report'[q].status
                                  /\ report'[q].at \in {"approval", "done"} =>
                                        report'[q].tool = row.tool
                                  /\ report'[q].at = "done" => report'[q].approval = row.approval
      BY DEF ReportOK, Explained, Has
    <3> QED
      BY <1>0, <2>2
  <2> QED
    BY <2>1, <2>2, <2>3
<1> DEFINE rep == report[o]
<1>3. rep \in Report /\ NoReport \in Report /\ (rep.at # "run" => rep.run \in Runs)
  <2>1. <<>> \in Seq(Event)
    OBVIOUS
  <2> QED
    BY <1>0, <2>1 DEF NoReport, Report, RunStatus, ToolStatus, ApprovalStatus
<1>4. ASSUME NEW r \in Runs, ReadRun(o, r)
      PROVE  \E new : Right(new) /\ Reading(o, new)
  <2> DEFINE new == [NoReport EXCEPT !.at = "events", !.run = r, !.status = db[r].status]
  <2>1. db[r].status \in RunStatus /\ Explained(db[r].status, trace[r]) /\ r # NoRun
    BY <1>0, ConstantsAssumption DEF OInv, TraceOK, Row
  <2>2. new \in Report /\ new.at = "events" /\ new.run = r /\ new.status = db[r].status
    BY <1>3, <2>1 DEF Report, NoReport
  <2>3. Right(new)
    BY <2>1, <2>2
  <2> QED
    BY <1>4, <2>3 DEF ReadRun
<1>5. ASSUME ReadEvents(o) PROVE \E new : Right(new) /\ Reading(o, new)
  <2> DEFINE new == [rep EXCEPT !.at = "tool", !.events = trace[rep.run]]
  <2>1. rep.at = "events" /\ rep.run \in Runs /\ trace[rep.run] \in Seq(Event)
    BY <1>0, <1>3, <1>5 DEF ReadEvents
  <2>2. /\ new \in Report /\ new.at = "tool" /\ new.run = rep.run /\ new.status = rep.status
        /\ new.events = trace[rep.run]
    BY <1>3, <2>1 DEF Report
  <2>3. Right(new)
    BY <1>0, <1>1, <2>1, <2>2
  <2> QED
    BY <1>5, <2>3 DEF ReadEvents
<1>6. ASSUME ReadTool(o) PROVE \E new : Right(new) /\ Reading(o, new)
  <2> DEFINE new == [rep EXCEPT !.at = "approval", !.tool = db[rep.run].tool]
  <2>1. rep.at = "tool" /\ rep.run \in Runs /\ db[rep.run].tool \in ToolStatus
    BY <1>0, <1>3, <1>6 DEF ReadTool, Row
  <2>2. /\ new \in Report /\ new.at = "approval" /\ new.run = rep.run /\ new.status = rep.status
        /\ new.events = rep.events /\ new.tool = db[rep.run].tool
    BY <1>3, <2>1 DEF Report
  <2>3. Right(new)
    BY <1>0, <1>1, <2>1, <2>2
  <2> QED
    BY <1>6, <2>3 DEF ReadTool
<1>7. ASSUME ReadApproval(o) PROVE \E new : Right(new) /\ Reading(o, new)
  <2> DEFINE new == [rep EXCEPT !.at = "done", !.approval = db[rep.run].approval]
  <2>1. rep.at = "approval" /\ rep.run \in Runs /\ db[rep.run].approval \in ApprovalStatus
    BY <1>0, <1>3, <1>7 DEF ReadApproval, Row
  <2>2. /\ new \in Report /\ new.at = "done" /\ new.run = rep.run /\ new.status = rep.status
        /\ new.events = rep.events /\ new.tool = rep.tool /\ new.approval = db[rep.run].approval
    BY <1>3, <2>1 DEF Report
  <2>3. Right(new)
    BY <1>0, <1>1, <2>1, <2>2
  <2> QED
    BY <1>7, <2>3 DEF ReadApproval
<1>8. ASSUME Answer(o) PROVE \E new : Right(new) /\ Reading(o, new)
  <2>1. Right(NoReport)
    BY <1>3 DEF NoReport
  <2> QED
    BY <1>8, <2>1 DEF Answer
<1> HIDE DEF Right
<1> QED
  BY <1>2, <1>4, <1>5, <1>6, <1>7, <1>8 DEF ReadStep

LEMMA OInvStep ==
    ASSUME "refresh" \notin FaultKinds
    PROVE  OInv /\ [ONext]_ovars => OInv'
<1> SUFFICES ASSUME OInv, [ONext]_ovars PROVE OInv'
  OBVIOUS
<1>1. RInv /\ CommitOK /\ TraceOK /\ ObservedTypeOK /\ [Next]_vars
  BY PassiveStep DEF OInv
<1>2. RInv' /\ TypeOK'
  BY <1>1, RStep, TypeStep DEF ObservedTypeOK
<1>3. CommitOK'
  BY <1>1, CommitOKStep
<1>4. TraceOK'
  <2> SUFFICES ASSUME NEW r \in Runs PROVE Explained(db'[r].status, trace'[r])
    BY DEF TraceOK, Explained, Has
  <2> QED
    BY <1>1, RowStep
<1>5. counted' \in [Runs -> [Counter -> Nat]] /\ CountersTrackRows'
  BY CountersStep
<1>6. /\ report' \in [Readers -> Report]
      /\ \A o \in Readers : report'[o].run = NoRun <=> report'[o].at = "run"
      /\ ReportOK'
  <2>1. CASE UNCHANGED report
    BY <1>1, <2>1, RunStepReport DEF ObservedTypeOK
  <2>2. ASSUME NEW o \in Readers, ReadStep(o), UNCHANGED <<vars, counted>>
        PROVE  /\ report' \in [Readers -> Report]
               /\ \A q \in Readers : report'[q].run = NoRun <=> report'[q].at = "run"
               /\ ReportOK'
    <3>1. UNCHANGED vars
      BY <2>2
    <3> QED
      BY <2>2, <3>1, ReadStepReport
  <2>3. UNCHANGED report \/ \E o \in Readers : ReadStep(o) /\ UNCHANGED <<vars, counted>>
    BY DEF ONext, ovars
  <2> QED
    BY <2>1, <2>2, <2>3
<1>7. ObservedTypeOK'
  BY <1>2, <1>5, <1>6 DEF ObservedTypeOK
<1> QED
  BY <1>2, <1>3, <1>4, <1>5, <1>6, <1>7 DEF OInv

-----------------------------------------------------------------------------
\* Everything below follows from the invariant (services/observability.py:62-144,
\* core/metrics.py:15-88), as long as the read after execute_run's
\* commit does not fail.
THEOREM ObservationInvariant ==
    ASSUME "refresh" \notin FaultKinds
    PROVE  OSpec => []OInv
<1>1. OInv /\ [ONext]_ovars => OInv'
  BY OInvStep
<1> QED
  BY <1>1, InitOInv, PTL DEF OSpec

\* The rows, the counters and what a reader has read keep their types.
THEOREM ObservedTypeCorrect ==
    ASSUME "refresh" \notin FaultKinds
    PROVE  OSpec => []ObservedTypeOK
<1>1. OInv => ObservedTypeOK
  BY DEF OInv
<1> QED
  BY <1>1, ObservationInvariant, PTL

\* A counter is never behind the committed rows and ahead of them by at most the
\* faults (runtime.py:69-217, safety_gateway.py:69-180, approvals.py:70,106).
THEOREM CountersAlwaysTrack ==
    ASSUME "refresh" \notin FaultKinds
    PROVE  OSpec => []CountersTrackRows
<1>1. OInv => CountersTrackRows
  BY DEF OInv
<1> QED
  BY <1>1, ObservationInvariant, PTL

\* A timeline or report shows the event that explains the status it shows
\* (observability.py:72-87,94).
THEOREM ReportsAlwaysExplain ==
    ASSUME "refresh" \notin FaultKinds
    PROVE  OSpec => []ReportExplainsStatus
<1>1. OInv => ReportExplainsStatus
  <2> SUFFICES ASSUME OInv, NEW o \in Readers, report[o].at \in {"tool", "approval", "done"}
               PROVE  Explained(report[o].status, report[o].events)
    BY DEF ReportExplainsStatus, Explained, Has, Happened
  <2> QED
    BY DEF OInv, ReportOK
<1> QED
  BY <1>1, ObservationInvariant, PTL

\* A failure report of a run that has finished is of one piece, although each of
\* its SELECTs sees a state of its own (observability.py:89-138).
THEOREM SettledReportsWhole ==
    ASSUME "refresh" \notin FaultKinds
    PROVE  OSpec => []SettledReportWhole
<1>1. OInv => SettledReportWhole
  <2> SUFFICES ASSUME OInv, NEW o \in Readers, report[o].at = "done"
               PROVE  /\ report[o].status = "SUCCESS" =>
                            /\ report[o].tool = "SUCCESS"
                            /\ report[o].approval \in {"NONE", "APPROVED"}
                            /\ ~HasFailures(o)
                      /\ report[o].status = "FAILED" =>
                            /\ report[o].tool = db[report[o].run].tool
                            /\ report[o].approval = db[report[o].run].approval
    BY DEF SettledReportWhole
  <2> DEFINE r == report[o].run
  <2>1. /\ r \in Runs
        /\ report[o].status \in {"SUCCESS", "FAILED"} =>
              /\ db[r].status = report[o].status
              /\ report[o].tool = db[r].tool
              /\ report[o].approval = db[r].approval
    BY DEF OInv, ObservedTypeOK, Report, ReportOK
  <2>2. RowOK(request[r], db[r])
    BY <2>1 DEF OInv, RInv, IInv, RowsOK
  <2>3. ASSUME report[o].status = "SUCCESS"
        PROVE  /\ report[o].tool = "SUCCESS"
               /\ report[o].approval \in {"NONE", "APPROVED"}
               /\ Decision(request[r]) # "DENY"
    BY <2>1, <2>2, <2>3 DEF RowOK
  <2> QED
    BY <2>1, <2>3 DEF HasFailures
<1> QED
  BY <1>1, ObservationInvariant, PTL
=============================================================================
