---------------------------- MODULE Observability ----------------------------
(***************************************************************************)
(* What the outside sees of the runs of RunExecution: the Prometheus       *)
(* counters (core/metrics.py), which the services increment in memory      *)
(* while their transaction is still open, and the timeline and the failure *)
(* report (ObservabilityService), which are put together from several      *)
(* SELECTs of one READ COMMITTED transaction: each sees the rows that are  *)
(* committed when it runs, so an execution or a review may commit between  *)
(* two of them.                                                            *)
(*                                                                         *)
(* `counted' gives each increment to the run it was made for; the code's   *)
(* counter is the sum over the runs.  The increments of a transaction are  *)
(* added where it ends; a scrape before that may already see some of them. *)
(***************************************************************************)
EXTENDS RunExecution

CONSTANT Readers \* GET requests for a timeline or a failure report

VARIABLES
    counted, \* increments of each counter made for each run
    report   \* what each reader has read so far

ovars == <<vars, counted, report>>

\* In the order in which a transaction comes to them.
CounterOrder ==
    <<"agent_runs", "tool_calls", "approval_requests", "agent_runs_blocked", "tool_calls_failed",
      "agent_runs_success", "agent_runs_failed", "approval_requests_approved",
      "approval_requests_rejected">>
Counter == {CounterOrder[i] : i \in DOMAIN CounterOrder}

\* at: the SELECT that comes next.
Report ==
    [at : {"run", "events", "tool", "approval", "done"}, run : Runs \cup {NoRun},
     status : RunStatus, events : Seq(Event), tool : ToolStatus, approval : ApprovalStatus]
NoReport ==
    [at |-> "run", run |-> NoRun, status |-> "ABSENT", events |-> <<>>,
     tool |-> "NONE", approval |-> "NONE"]

ObservedTypeOK ==
    /\ TypeOK
    /\ counted \in [Runs -> [Counter -> Nat]]
    /\ report \in [Readers -> Report]
    /\ \A o \in Readers : report[o].run = NoRun <=> report[o].at = "run"

OInit ==
    /\ Init
    /\ counted = [r \in Runs |-> [c \in Counter |-> 0]]
    /\ report = [o \in Readers |-> NoReport]

-----------------------------------------------------------------------------
(* The counters.                                                           *)

Count(r, cs) ==
    counted' = [counted EXCEPT ![r] = [c \in Counter |-> @[c] + IF c \in cs THEN 1 ELSE 0]]

\* A finished tool and the run it finishes (_apply_gateway_result and
\* _finalize_run_after_tool count alike).
\* Mutant: the run that a failed tool ends is not counted.
Finished_ToolOnly(row) ==
    IF row.status = "SUCCESS" THEN {"agent_runs_success"} ELSE {"tool_calls_failed"}

Finished(row) ==
    IF row.status = "SUCCESS" THEN {"agent_runs_success"}
    ELSE {"tool_calls_failed", "agent_runs_failed"}

\* What a transaction that ends with these ORM objects has counted.
Counts(op, row) ==
    CASE op = "reject" -> {"approval_requests_rejected"}
      [] op = "approve" -> {"approval_requests_approved"} \cup Finished(row)
      [] op = "execute" ->
            {"tool_calls"} \cup
            IF row.status # "BLOCKED" THEN Finished(row)
            ELSE {"agent_runs_blocked"} \cup
                 IF row.approval = "PENDING" THEN {"approval_requests"} ELSE {}

\* What a session may have counted when its transaction breaks off: what it
\* counts at this point, up to some counter.  When the tool is about to run or
\* has run, its call is counted already.
Counting(p) ==
    LET r == sess[p].run
    IN  CASE sess[p].pc = "invoke" /\ Decision(request[r]) = "REQUIRE_APPROVAL" ->
                {"tool_calls", "approval_requests"}
          [] sess[p].pc = "invoke" /\ Decision(request[r]) \in {"ALLOW", "DENY"} -> {"tool_calls"}
          [] sess[p].pc = "execute" /\ sess[p].op = "execute" -> {"tool_calls"}
          [] sess[p].pc = "commit" -> Counts(sess[p].op, sess[p].view)
          [] sess[p].pc = "fail" -> {"agent_runs_failed"}
          [] OTHER -> {}
BrokenOff(p) ==
    LET first == IF sess[p].op = "execute" /\ sess[p].pc \in {"execute", "commit"} THEN 2 ELSE 0
    IN  {Counting(p) \cap {CounterOrder[i] : i \in 1..n} : n \in first..Len(CounterOrder)}

CountSubmit(p, r, async) == Submit(p, r, async) /\ Count(r, {"agent_runs"})
CountSubmitFails(p, r) ==
    /\ db[r].status = "ABSENT"
    /\ SubmitFails(p)
    /\ Count(r, {"agent_runs"})
CountSubmitUnread(p, r) == SubmitUnread(p, r) /\ Count(r, {"agent_runs"})
CountCommit(p) == Commit(p) /\ Count(sess[p].run, Counts(sess[p].op, sess[p].view))
CountRecordFailure(p) == RecordFailure(p) /\ Count(sess[p].run, {"agent_runs_failed"})
CountBrokenOff(p) ==
    /\ DbError(p) \/ Crash(p)
    /\ \E cs \in BrokenOff(p) : Count(sess[p].run, cs)

\* The steps of RunExecution that end no transaction that counts.
CountNothing ==
    /\ \/ \E p \in ApiSessions, r \in Runs, o \in Review : BeginReview(p, r, o)
       \/ \E w \in Workers, r \in Runs : Deliver(w, r)
       \/ \E r \in Runs : Redeliver(r)
       \/ \E p \in Sessions :
             \/ Enqueue(p) \/ EnqueueFails(p)
             \/ Claim(p) \/ ClaimRejected(p)
             \/ UnknownTool(p) \/ InvokeAllowed(p) \/ InvokeNeedsApproval(p) \/ InvokeDenied(p)
             \/ \E ok \in BOOLEAN : ExecuteTool(p, ok)
             \/ Refresh(p) \/ RefreshFails(p)
             \/ LockApproval(p) \/ LockRunRejected(p) \/ Approve(p) \/ Reject(p)
    /\ UNCHANGED counted

RunStep ==
    \/ \E p \in ApiSessions, r \in Runs :
          \/ CountSubmitFails(p, r)
          \/ CountSubmitUnread(p, r)
          \/ \E async \in BOOLEAN : CountSubmit(p, r, async)
    \/ \E p \in Sessions : CountCommit(p) \/ CountRecordFailure(p) \/ CountBrokenOff(p)
    \/ CountNothing

-----------------------------------------------------------------------------
(* ObservabilityService: get_run_failures, and get_run_timeline, which ends  *)
(* after the events.                                                       *)

Reading(o, rep) == report' = [report EXCEPT ![o] = rep]

ReadRun(o, r) ==
    /\ report[o].at = "run"
    /\ db[r].status # "ABSENT"
    /\ Reading(o, [NoReport EXCEPT !.at = "events", !.run = r, !.status = db[r].status])

ReadEvents(o) ==
    /\ report[o].at = "events"
    /\ Reading(o, [report[o] EXCEPT !.at = "tool", !.events = trace[report[o].run]])

\* Mutant: the run is read again after its events.
ReadTool_RunAgain(o) ==
    /\ report[o].at = "tool"
    /\ Reading(o, [report[o] EXCEPT !.at = "approval", !.status = db[report[o].run].status,
                                    !.tool = db[report[o].run].tool])

ReadTool(o) ==
    /\ report[o].at = "tool"
    /\ Reading(o, [report[o] EXCEPT !.at = "approval", !.tool = db[report[o].run].tool])

ReadApproval(o) ==
    /\ report[o].at = "approval"
    /\ Reading(o, [report[o] EXCEPT !.at = "done", !.approval = db[report[o].run].approval])

Answer(o) ==
    /\ report[o].at \in {"tool", "done"}
    /\ Reading(o, NoReport)

ReadStep(o) ==
    \/ \E r \in Runs : ReadRun(o, r)
    \/ ReadEvents(o) \/ ReadTool(o) \/ ReadApproval(o) \/ Answer(o)

ONext ==
    \/ RunStep /\ UNCHANGED report
    \/ \E o \in Readers : ReadStep(o) /\ UNCHANGED <<vars, counted>>

OSpec == OInit /\ [][ONext]_ovars

\* The sessions go on as in RunExecution; nothing is assumed of a reader.
OFairSpec == OSpec /\ Fairness

-----------------------------------------------------------------------------
(* Properties.                                                             *)

\* The rows that a counter counts, of those a run has.
Counted(row, c) ==
    CASE c = "agent_runs" -> row.status # "ABSENT"
      [] c = "tool_calls" -> row.tool # "NONE"
      [] c = "approval_requests" -> row.approval # "NONE"
      [] c = "agent_runs_blocked" -> row.status = "BLOCKED" \/ row.approval # "NONE"
      [] c = "tool_calls_failed" -> row.tool = "FAILED"
      [] c = "agent_runs_success" -> row.status = "SUCCESS"
      [] c = "agent_runs_failed" -> row.status = "FAILED"
      [] c = "approval_requests_approved" -> row.approval = "APPROVED"
      [] c = "approval_requests_rejected" -> row.approval = "REJECTED"

\* No committed row is missing from its counter, and a counter is ahead of the
\* rows by at most the transactions that broke off after they had counted: one
\* for each fault (the services count before they commit: runtime.py:69,136,164,
\* 172,195,217, safety_gateway.py:69,96,180, approvals.py:70,106).
CountersTrackRows ==
    \A r \in Runs, c \in Counter :
        LET committed == IF Counted(db[r], c) THEN 1 ELSE 0
        IN  counted[r][c] \in committed..(committed + faults)

\* A timeline or report shows the event that put the run into the status it
\* shows: the run is read before its events, and both are committed together
\* (observability.py:72-87,94).
Happened(o, e) == \E i \in DOMAIN report[o].events : report[o].events[i] = e
ReportExplainsStatus ==
    \A o \in Readers : report[o].at \in {"tool", "approval", "done"} =>
        /\ report[o].status = "RUNNING" => Happened(o, "AgentRunStarted")
        /\ report[o].status = "BLOCKED" => Happened(o, "ToolBlocked")
        /\ report[o].status = "SUCCESS" => Happened(o, "AgentRunCompleted")
        /\ report[o].status = "FAILED" => Happened(o, "AgentRunFailed")

\* observability.py:112-121; error_message is set with FAILED and BLOCKED and
\* cleared by an approval, so it is not looked at apart from the status.
HasFailures(o) ==
    \/ report[o].status \in {"FAILED", "BLOCKED"}
    \/ report[o].tool \in {"FAILED", "BLOCKED"}
    \/ Happened(o, "PolicyCheck") /\ Decision(request[report[o].run]) = "DENY"
    \/ report[o].approval = "REJECTED"

\* Although the four SELECTs of a failure report see different states, a report
\* on a run that has finished is of one piece: one that says SUCCESS shows no
\* failure and the successful call, one that says FAILED the tool call and the
\* request as they will stay (observability.py:89-138).
SettledReportWhole ==
    \A o \in Readers : report[o].at = "done" =>
        /\ report[o].status = "SUCCESS" =>
              report[o].tool = "SUCCESS" /\ report[o].approval \in {"NONE", "APPROVED"} /\ ~HasFailures(o)
        /\ report[o].status = "FAILED" =>
              report[o].tool = db[report[o].run].tool /\ report[o].approval = db[report[o].run].approval
=============================================================================
