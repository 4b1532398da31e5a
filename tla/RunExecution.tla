---------------------------- MODULE RunExecution ----------------------------
(***************************************************************************)
(* The life of an agent run: RuntimeService, SafetyGateway, PolicyEngine   *)
(* and ApprovalService over the PostgreSQL rows they share.                *)
(*                                                                         *)
(* An API request or a Celery task is a session: one SQLAlchemy session,   *)
(* one open transaction.  `db' and `trace' are the COMMITTED rows; what a  *)
(* session has changed and not committed is in its `view' (the ORM         *)
(* objects) and its `events' (the trace rows it has inserted).  A step of  *)
(* a session ends where another session, a crash or an error can make a    *)
(* difference: at a lock that can block, before and after the external     *)
(* tool call, at a commit, and after it.                                   *)
(*                                                                         *)
(* A run makes one tool call (docs/system_design.md:61), so the tool_calls *)
(* row and the approval_requests row of a run are fields of its record.    *)
(***************************************************************************)
EXTENDS Naturals, Sequences

CONSTANTS
    Runs,        \* ids of the agent_runs rows that may be created
    ApiSessions, \* API requests: they create runs and review approvals
    Workers,     \* Celery worker processes
    Requests,    \* tool name and deny flag a run may carry
    FaultKinds,  \* the faults that may happen
    MaxFaults,   \* bound: faults in a behaviour
    NoRun        \* what an idle session works on

Sessions == ApiSessions \cup Workers
\* "create" and "refresh": the read after the commit of create_run, of execute_run.
AllFaults == {"crash", "db", "create", "refresh", "broker", "redeliver"}

ASSUME ConstantsAssumption ==
    /\ ApiSessions \cap Workers = {}
    /\ Requests \subseteq [tool : STRING, deny : BOOLEAN]
    /\ FaultKinds \subseteq AllFaults
    /\ MaxFaults \in Nat
    /\ NoRun \notin Runs

VARIABLES
    request, \* the input a run carries, chosen before it is created
    db,      \* committed row(s) of each run
    trace,   \* committed trace rows of each run, in timestamp order
    queue,   \* messages in the broker for each run
    sess,    \* what each session is doing
    effects, \* times the tool of a run has really been executed
    lost,    \* executions whose transaction was then rolled back
    faults   \* faults so far

rows == <<db, trace>>
ghosts == <<effects, lost>>
vars == <<request, db, trace, queue, sess, effects, lost, faults>>

RunStatus == {"ABSENT", "PENDING", "RUNNING", "SUCCESS", "FAILED", "BLOCKED"}
ToolStatus == {"NONE", "RUNNING", "SUCCESS", "FAILED", "BLOCKED"}
ApprovalStatus == {"NONE", "PENDING", "APPROVED", "REJECTED"}
Row == [status : RunStatus, tool : ToolStatus, approval : ApprovalStatus]
Absent == [status |-> "ABSENT", tool |-> "NONE", approval |-> "NONE"]

Event == {"AgentRunStarted", "AgentRunCompleted", "AgentRunFailed", "PolicyCheck",
          "ApprovalRequested", "ApprovalApproved", "ApprovalRejected",
          "ToolBlocked", "ToolInvoked", "ToolSucceeded", "ToolFailed"}

Op == {"none", "execute", "approve", "reject"}
Review == {"approve", "reject"}
Pc == {"idle", "enqueue", "claim", "invoke", "execute", "commit", "refresh", "fail",
       "lockApproval", "lockRun"}
Session == [pc : Pc, op : Op, run : Runs \cup {NoRun}, view : Row, events : Seq(Event)]
At(l, o, r) == [pc |-> l, op |-> o, run |-> r, view |-> Absent, events |-> <<>>]
Idle == At("idle", "none", NoRun)

TypeOK ==
    /\ request \in [Runs -> Requests]
    /\ db \in [Runs -> Row]
    /\ trace \in [Runs -> Seq(Event)]
    /\ queue \in [Runs -> Nat]
    /\ sess \in [Sessions -> Session]
    /\ \A p \in Sessions : sess[p].run = NoRun <=> sess[p].pc = "idle"
    /\ effects \in [Runs -> Nat]
    /\ lost \in [Runs -> Nat]
    /\ faults \in 0..MaxFaults

Init ==
    /\ request \in [Runs -> Requests]
    /\ db = [r \in Runs |-> Absent]
    /\ trace = [r \in Runs |-> <<>>]
    /\ queue = [r \in Runs |-> 0]
    /\ sess = [p \in Sessions |-> Idle]
    /\ effects = [r \in Runs |-> 0]
    /\ lost = [r \in Runs |-> 0]
    /\ faults = 0

-----------------------------------------------------------------------------
(* Policy: the tool registry and the default rules.                        *)

RegisteredTools == {"browser", "email", "file", "terminal"}
DefaultRule(t) ==
    CASE t \in {"browser", "file"} -> "ALLOW"
      [] t \in {"email", "terminal"} -> "REQUIRE_APPROVAL"
      [] OTHER -> "DENY"
Evaluate(q) == IF q.deny THEN "DENY" ELSE DefaultRule(q.tool)

\* "UNKNOWN": the gateway raises before it creates a tool_calls row.
Decision(q) == IF q.tool \in RegisteredTools THEN Evaluate(q) ELSE "UNKNOWN"

-----------------------------------------------------------------------------
(* Row locks.  A session that has inserted a tool_calls row or read the    *)
(* run FOR UPDATE keeps every other FOR UPDATE of that run waiting until   *)
(* its transaction ends; likewise for the approval row.                    *)

HoldsRun(p, r) == sess[p].run = r /\ sess[p].pc \in {"execute", "commit"}
HoldsApproval(p, r) ==
    /\ sess[p].run = r
    /\ sess[p].op \in Review
    /\ sess[p].pc \in {"lockRun", "execute", "commit"}
RunUnlocked(r) == \A p \in Sessions : ~HoldsRun(p, r)
\* Mutant: the approval row is read without FOR UPDATE.
ApprovalUnlocked_PlainRead(r) == r \in Runs

ApprovalUnlocked(r) == \A p \in Sessions : ~HoldsApproval(p, r)

Fault(kind) ==
    /\ kind \in FaultKinds
    /\ faults < MaxFaults
    /\ faults' = faults + 1

\* The session's transaction ends without a commit; an execution in it is lost.
Executed(p) == sess[p].pc = "commit" /\ sess[p].view.tool \in {"SUCCESS", "FAILED"}
RollBack(p) ==
    lost' = IF Executed(p) THEN [lost EXCEPT ![sess[p].run] = @ + 1] ELSE lost

Become(p, s) == sess' = [sess EXCEPT ![p] = s]

\* The session goes on to l with these ORM objects and uncommitted trace rows.
Work(p, l, row, evs) ==
    [pc |-> l, op |-> sess[p].op, run |-> sess[p].run, view |-> row, events |-> evs]

-----------------------------------------------------------------------------
(* POST /runs and the Celery queue.                                        *)

\* create_run commits a PENDING run; the request then executes it itself or
\* hands it to the broker.
Submit(p, r, async) ==
    /\ sess[p].pc = "idle"
    /\ db[r].status = "ABSENT"
    /\ db' = [db EXCEPT ![r].status = "PENDING"]
    /\ Become(p, At(IF async THEN "enqueue" ELSE "claim", "execute", r))
    /\ UNCHANGED <<request, trace, queue, ghosts, faults>>

\* The commit of create_run fails: there is no run.
SubmitFails(p) ==
    /\ sess[p].pc = "idle"
    /\ Fault("db")
    /\ UNCHANGED <<request, rows, queue, sess, ghosts>>

\* create_run commits the run, and the read of it that follows fails: the
\* request ends, and nobody executes the run or hands it to the broker.
SubmitUnread(p, r) ==
    /\ sess[p].pc = "idle"
    /\ db[r].status = "ABSENT"
    /\ Fault("create")
    /\ db' = [db EXCEPT ![r].status = "PENDING"]
    /\ Become(p, Idle)
    /\ UNCHANGED <<request, trace, queue, ghosts>>

Enqueue(p) ==
    /\ sess[p].pc = "enqueue"
    /\ queue' = [queue EXCEPT ![sess[p].run] = @ + 1]
    /\ Become(p, Idle)
    /\ UNCHANGED <<request, rows, ghosts, faults>>

\* delay() raises: the request fails, the run is already committed.
EnqueueFails(p) ==
    /\ sess[p].pc = "enqueue"
    /\ Fault("broker")
    /\ Become(p, Idle)
    /\ UNCHANGED <<request, rows, queue, ghosts>>

\* Celery acknowledges a message when a worker starts on it.
Deliver(w, r) ==
    /\ sess[w].pc = "idle"
    /\ queue[r] > 0
    /\ queue' = [queue EXCEPT ![r] = @ - 1]
    /\ Become(w, At("claim", "execute", r))
    /\ UNCHANGED <<request, rows, ghosts, faults>>

\* A message that stays unacknowledged past the broker's visibility timeout
\* is delivered again, to any worker.
Redeliver(r) ==
    /\ queue[r] > 0
    /\ Fault("redeliver")
    /\ queue' = [queue EXCEPT ![r] = @ + 1]
    /\ UNCHANGED <<request, rows, sess, ghosts>>

-----------------------------------------------------------------------------
(* RuntimeService.execute_run.                                             *)

\* First transaction: SELECT ... FOR UPDATE, then RUNNING and a commit that
\* gives the lock back, or an error because the run is not PENDING.
ClaimRejected(p) ==
    /\ sess[p].pc = "claim"
    /\ RunUnlocked(sess[p].run)
    /\ db[sess[p].run].status # "PENDING"
    /\ Become(p, Idle)
    /\ UNCHANGED <<request, rows, queue, ghosts, faults>>

\* Mutant: the run is claimed whatever its status is.
Claim_AnyStatus(p) ==
    LET r == sess[p].run
        running == [db[r] EXCEPT !.status = "RUNNING"]
    IN  /\ sess[p].pc = "claim"
        /\ RunUnlocked(r)
        /\ db' = [db EXCEPT ![r] = running]
        /\ trace' = [trace EXCEPT ![r] = Append(@, "AgentRunStarted")]
        /\ Become(p, Work(p, "invoke", running, <<>>))
        /\ UNCHANGED <<request, queue, ghosts, faults>>

Claim(p) ==
    LET r == sess[p].run
        running == [db[r] EXCEPT !.status = "RUNNING"]
    IN  /\ sess[p].pc = "claim"
        /\ RunUnlocked(r)
        /\ db[r].status = "PENDING"
        /\ db' = [db EXCEPT ![r] = running]
        /\ trace' = [trace EXCEPT ![r] = Append(@, "AgentRunStarted")]
        /\ Become(p, Work(p, "invoke", running, <<>>))
        /\ UNCHANGED <<request, queue, ghosts, faults>>

\* Mutant: the lookup of the tool is outside the try block.
UnknownTool_Unhandled(p) ==
    /\ sess[p].pc = "invoke"
    /\ Decision(request[sess[p].run]) = "UNKNOWN"
    /\ Become(p, Idle)
    /\ UNCHANGED <<request, rows, queue, ghosts, faults>>

\* Second transaction, up to the tool call: invoke_tool inserts the
\* tool_calls row (its foreign key share-locks the run) and asks the policy.
UnknownTool(p) ==
    /\ sess[p].pc = "invoke"
    /\ Decision(request[sess[p].run]) = "UNKNOWN"
    /\ Become(p, At("fail", "execute", sess[p].run))
    /\ UNCHANGED <<request, rows, queue, ghosts, faults>>

InvokeAllowed(p) ==
    /\ sess[p].pc = "invoke"
    /\ RunUnlocked(sess[p].run)
    /\ Decision(request[sess[p].run]) = "ALLOW"
    /\ Become(p, Work(p, "execute", [sess[p].view EXCEPT !.tool = "RUNNING"],
                      <<"PolicyCheck", "ToolInvoked">>))
    /\ UNCHANGED <<request, rows, queue, ghosts, faults>>

InvokeNeedsApproval(p) ==
    /\ sess[p].pc = "invoke"
    /\ RunUnlocked(sess[p].run)
    /\ Decision(request[sess[p].run]) = "REQUIRE_APPROVAL"
    /\ Become(p, Work(p, "commit",
                      [sess[p].view EXCEPT !.status = "BLOCKED", !.tool = "BLOCKED",
                                           !.approval = "PENDING"],
                      <<"PolicyCheck", "ApprovalRequested", "ToolBlocked">>))
    /\ UNCHANGED <<request, rows, queue, ghosts, faults>>

\* Mutants: a denied call gets a status of its own; a denied call goes on.
InvokeDenied_OwnStatus(p) ==
    /\ sess[p].pc = "invoke"
    /\ RunUnlocked(sess[p].run)
    /\ Decision(request[sess[p].run]) = "DENY"
    /\ Become(p, Work(p, "commit",
                      [sess[p].view EXCEPT !.status = "BLOCKED", !.tool = "DENIED"],
                      <<"PolicyCheck", "ToolBlocked">>))
    /\ UNCHANGED <<request, rows, queue, ghosts, faults>>
InvokeDenied_GoesOn(p) ==
    /\ sess[p].pc = "invoke"
    /\ RunUnlocked(sess[p].run)
    /\ Decision(request[sess[p].run]) = "DENY"
    /\ Become(p, Work(p, "execute", [sess[p].view EXCEPT !.tool = "RUNNING"],
                      <<"PolicyCheck", "ToolBlocked">>))
    /\ UNCHANGED <<request, rows, queue, ghosts, faults>>

InvokeDenied(p) ==
    /\ sess[p].pc = "invoke"
    /\ RunUnlocked(sess[p].run)
    /\ Decision(request[sess[p].run]) = "DENY"
    /\ Become(p, Work(p, "commit",
                      [sess[p].view EXCEPT !.status = "BLOCKED", !.tool = "BLOCKED"],
                      <<"PolicyCheck", "ToolBlocked">>))
    /\ UNCHANGED <<request, rows, queue, ghosts, faults>>

\* execute_approved_tool runs the tool; the run is then finalised the same
\* way by the runtime (ALLOW) and by the approval service (approved).
ExecuteTool(p, ok) ==
    LET r == sess[p].run
        outcome == IF ok THEN "SUCCESS" ELSE "FAILED"
    IN  /\ sess[p].pc = "execute"
        /\ effects' = [effects EXCEPT ![r] = @ + 1]
        /\ Become(p, Work(p, "commit",
                          [sess[p].view EXCEPT !.status = outcome, !.tool = outcome],
                          sess[p].events \o IF ok
                                            THEN <<"ToolSucceeded", "AgentRunCompleted">>
                                            ELSE <<"ToolFailed", "AgentRunFailed">>))
        /\ UNCHANGED <<request, rows, queue, lost, faults>>

\* The commit publishes the view and the events and releases the locks.
Commit(p) ==
    LET r == sess[p].run
    IN  /\ sess[p].pc = "commit"
        /\ db' = [db EXCEPT ![r] = sess[p].view]
        /\ trace' = [trace EXCEPT ![r] = @ \o sess[p].events]
        /\ Become(p, IF sess[p].op = "execute" THEN At("refresh", "execute", r) ELSE Idle)
        /\ UNCHANGED <<request, queue, ghosts, faults>>

\* session.refresh(run) after the commit: still inside the try block.
Refresh(p) ==
    /\ sess[p].pc = "refresh"
    /\ Become(p, Idle)
    /\ UNCHANGED <<request, rows, queue, ghosts, faults>>

RefreshFails(p) ==
    /\ sess[p].pc = "refresh"
    /\ Fault("refresh")
    /\ Become(p, At("fail", "execute", sess[p].run))
    /\ UNCHANGED <<request, rows, queue, ghosts>>

\* Mutant: a failed run gets no trace of its failure.
RecordFailure_NoTrace(p) ==
    LET r == sess[p].run
    IN  /\ sess[p].pc = "fail"
        /\ RunUnlocked(r)
        /\ db' = [db EXCEPT ![r] = [@ EXCEPT !.status = "FAILED"]]
        /\ Become(p, Idle)
        /\ UNCHANGED <<request, trace, queue, ghosts, faults>>

\* The except block: rolled back, it reads the run FOR UPDATE again, marks it
\* FAILED whatever its status is and commits.
RecordFailure(p) ==
    LET r == sess[p].run
    IN  /\ sess[p].pc = "fail"
        /\ RunUnlocked(r)
        /\ db' = [db EXCEPT ![r] = [@ EXCEPT !.status = "FAILED"]]
        /\ trace' = [trace EXCEPT ![r] = Append(@, "AgentRunFailed")]
        /\ Become(p, Idle)
        /\ UNCHANGED <<request, queue, ghosts, faults>>

-----------------------------------------------------------------------------
(* ApprovalService.approve and reject: one transaction, two row locks.     *)

BeginReview(p, r, o) ==
    /\ sess[p].pc = "idle"
    /\ db[r].approval # "NONE"
    /\ Become(p, At("lockApproval", o, r))
    /\ UNCHANGED <<request, rows, queue, ghosts, faults>>

LockApproval(p) ==
    LET r == sess[p].run
    IN  /\ sess[p].pc = "lockApproval"
        /\ ApprovalUnlocked(r)
        /\ Become(p, IF db[r].approval = "PENDING"
                     THEN At("lockRun", sess[p].op, r)
                     ELSE Idle)
        /\ UNCHANGED <<request, rows, queue, ghosts, faults>>

\* get_run_for_update finds a run that is not BLOCKED: the review fails.
LockRunRejected(p) ==
    /\ sess[p].pc = "lockRun"
    /\ RunUnlocked(sess[p].run)
    /\ db[sess[p].run].status # "BLOCKED"
    /\ Become(p, Idle)
    /\ UNCHANGED <<request, rows, queue, ghosts, faults>>

Approve(p) ==
    LET r == sess[p].run
    IN  /\ sess[p].pc = "lockRun"
        /\ sess[p].op = "approve"
        /\ RunUnlocked(r)
        /\ db[r].status = "BLOCKED"
        /\ Become(p, Work(p, "execute",
                          [db[r] EXCEPT !.status = "RUNNING", !.tool = "RUNNING",
                                        !.approval = "APPROVED"],
                          <<"ApprovalApproved", "ToolInvoked">>))
        /\ UNCHANGED <<request, rows, queue, ghosts, faults>>

Reject(p) ==
    LET r == sess[p].run
    IN  /\ sess[p].pc = "lockRun"
        /\ sess[p].op = "reject"
        /\ RunUnlocked(r)
        /\ db[r].status = "BLOCKED"
        /\ Become(p, Work(p, "commit",
                          [db[r] EXCEPT !.tool = "BLOCKED", !.approval = "REJECTED"],
                          <<"ApprovalRejected", "ToolBlocked">>))
        /\ UNCHANGED <<request, rows, queue, ghosts, faults>>

-----------------------------------------------------------------------------
(* Faults: a database error raised in a session, and the death of one.     *)

\* In the try block of execute_run the error is handled; anywhere else it
\* leaves the handler, and closing the session rolls back.
DbError(p) ==
    LET handled == sess[p].op = "execute" /\ sess[p].pc \in {"invoke", "execute", "commit"}
    IN  /\ sess[p].pc \in {"claim", "invoke", "execute", "commit", "fail", "lockApproval", "lockRun"}
        /\ Fault("db")
        /\ RollBack(p)
        /\ Become(p, IF handled THEN At("fail", "execute", sess[p].run) ELSE Idle)
        /\ UNCHANGED <<request, rows, queue, effects>>

Crash(p) ==
    /\ sess[p].pc # "idle"
    /\ Fault("crash")
    /\ RollBack(p)
    /\ Become(p, Idle)
    /\ UNCHANGED <<request, rows, queue, effects>>

-----------------------------------------------------------------------------
\* What a session that has begun goes on to do by itself.
Step(p) ==
    \/ Enqueue(p)
    \/ Claim(p) \/ ClaimRejected(p)
    \/ UnknownTool(p) \/ InvokeAllowed(p) \/ InvokeNeedsApproval(p) \/ InvokeDenied(p)
    \/ \E ok \in BOOLEAN : ExecuteTool(p, ok)
    \/ Commit(p) \/ Refresh(p) \/ RecordFailure(p)
    \/ LockApproval(p) \/ LockRunRejected(p) \/ Approve(p) \/ Reject(p)

Next ==
    \/ \E p \in ApiSessions, r \in Runs, async \in BOOLEAN : Submit(p, r, async)
    \/ \E p \in ApiSessions : SubmitFails(p)
    \/ \E p \in ApiSessions, r \in Runs : SubmitUnread(p, r)
    \/ \E p \in ApiSessions, r \in Runs, o \in Review : BeginReview(p, r, o)
    \/ \E w \in Workers, r \in Runs : Deliver(w, r)
    \/ \E p \in Sessions : Step(p)
    \/ \E p \in Sessions : EnqueueFails(p) \/ RefreshFails(p) \/ DbError(p) \/ Crash(p)
    \/ \E r \in Runs : Redeliver(r)

Spec == Init /\ [][Next]_vars

\* A live process carries its request on, PostgreSQL queues the waiters for a
\* row lock (so one that waits is not overtaken for ever), and an idle worker
\* takes a waiting message; nobody has to create a run or review an approval.
TakeLock(p) == Claim(p) \/ ClaimRejected(p) \/ RecordFailure(p) \/ LockApproval(p)
                \/ LockRunRejected(p) \/ Approve(p) \/ Reject(p)
Fairness ==
    /\ \A p \in Sessions : WF_vars(Step(p)) /\ SF_vars(TakeLock(p))
    /\ \A w \in Workers, r \in Runs : WF_vars(Deliver(w, r))
FairSpec == Spec /\ Fairness

-----------------------------------------------------------------------------
(* Properties.                                                             *)

\* A tool is about to run only when the policy allows it or when this session
\* is the reviewer that holds a request still pending in the database; nothing
\* else ever reaches a tool (runtime.py:103-112, safety_gateway.py:74-138,
\* approvals.py:48-74).
GateHolds ==
    /\ \A p \in Sessions : sess[p].pc = "execute" =>
          LET r == sess[p].run
          IN  \/ sess[p].op = "execute" /\ Decision(request[r]) = "ALLOW"
              \/ /\ sess[p].op = "approve"
                 /\ Decision(request[r]) = "REQUIRE_APPROVAL"
                 /\ db[r].approval = "PENDING"
    /\ \A r \in Runs : effects[r] > 0 => Decision(request[r]) \in {"ALLOW", "REQUIRE_APPROVAL"}

\* The tool of an allowed run is executed at most once, whatever is delivered
\* twice, crashes or fails: the PENDING -> RUNNING commit is the claim on it
\* (runtime.py:87-100).
AllowedAtMostOnce == \A r \in Runs : Decision(request[r]) = "ALLOW" => effects[r] <= 1

\* Every execution is recorded in the committed tool_calls row, still
\* uncommitted in one session, or was lost with a transaction that was rolled
\* back; so an approved tool runs again only after an execution was lost.
InFlight(r) == \E p \in Sessions : sess[p].run = r /\ Executed(p)
Recorded(r) == db[r].tool \in {"SUCCESS", "FAILED"}
Accounted(r) ==
    /\ ~(InFlight(r) /\ Recorded(r))
    /\ effects[r] = lost[r] + IF InFlight(r) \/ Recorded(r) THEN 1 ELSE 0
EffectsAccounted == \A r \in Runs : Accounted(r)

\* The committed trace rows of a run tell exactly the story its run, tool call
\* and approval rows tell (the timeline of ObservabilityService is built from
\* the first, its failure report from the others).
Timeline(row) ==
    LET asked == <<"AgentRunStarted", "PolicyCheck">>
        waiting == asked \o <<"ApprovalRequested", "ToolBlocked">>
        gated == IF row.approval = "NONE" THEN asked ELSE Append(waiting, "ApprovalApproved")
    IN  CASE row.status \in {"ABSENT", "PENDING"} -> <<>>
          [] row.status = "RUNNING" -> <<"AgentRunStarted">>
          [] row.status = "BLOCKED" /\ row.approval = "NONE" -> Append(asked, "ToolBlocked")
          [] row.status = "BLOCKED" /\ row.approval = "PENDING" -> waiting
          [] row.status = "BLOCKED" /\ row.approval = "REJECTED" ->
                waiting \o <<"ApprovalRejected", "ToolBlocked">>
          [] row.status = "SUCCESS" -> gated \o <<"ToolInvoked", "ToolSucceeded", "AgentRunCompleted">>
          [] row.status = "FAILED" /\ row.tool = "FAILED" ->
                gated \o <<"ToolInvoked", "ToolFailed", "AgentRunFailed">>
          [] row.status = "FAILED" /\ row.tool = "NONE" -> <<"AgentRunStarted", "AgentRunFailed">>
          [] OTHER -> <<"AgentRunFailed">> \* no such row
TimelineMatchesRows == \A r \in Runs : trace[r] = Timeline(db[r])

\* The first review that commits decides a request: no concurrent, repeated or
\* retried approve or reject changes it (approvals.py:112-118).
ReviewIsFinal ==
    [][\A r \in Runs : db[r].approval \in {"APPROVED", "REJECTED"} =>
          db'[r].approval = db[r].approval]_vars

\* A run that has succeeded, failed, been denied or been rejected keeps its row.
Settled(row) ==
    row.status \in {"SUCCESS", "FAILED"} \/ (row.status = "BLOCKED" /\ row.approval # "PENDING")
SettledIsFinal == [][\A r \in Runs : Settled(db[r]) => db'[r] = db[r]]_vars

\* A created run that is RUNNING, or PENDING and handed on (a message for it
\* waits, or a session has begun to execute it), is brought to an end: whatever
\* raises in the try block of execute_run, and however often its message is
\* delivered (docs/architecture.md:55-63, runtime.py:82-119).  Only a dead
\* process, or an error outside that try block, leaves such a run as it is.
HandedOn(r) ==
    queue[r] > 0 \/ \E p \in Sessions : sess[p].run = r /\ sess[p].op = "execute"
SubmittedRunsSettle ==
    \A r \in Runs :
        db[r].status = "RUNNING" \/ (db[r].status = "PENDING" /\ HandedOn(r))
            ~> db[r].status \in {"BLOCKED", "SUCCESS", "FAILED"}

\* docs/architecture.md:74-78: the run of a request that waits for its review
\* is BLOCKED, so that the review can resume or stop it.
PendingRequestsResumable ==
    \A r \in Runs : db[r].approval = "PENDING" => db[r].status = "BLOCKED"

-----------------------------------------------------------------------------
(* The inductive invariant: GateHolds, AllowedAtMostOnce, EffectsAccounted *)
(* and the finality of a review follow from it.                            *)

\* What every row holds, committed or about to be.
RowOK(q, row) ==
    /\ row.status \in {"ABSENT", "PENDING", "RUNNING"} => row.tool = "NONE" /\ row.approval = "NONE"
    /\ row.status = "BLOCKED" => row.tool = "BLOCKED" /\ row.approval # "APPROVED"
    /\ row.status = "SUCCESS" => row.tool = "SUCCESS"
    /\ row.tool # "RUNNING"
    /\ row.approval # "NONE" => Decision(q) = "REQUIRE_APPROVAL"
    /\ row.tool \in {"SUCCESS", "FAILED"} =>
          \/ Decision(q) = "ALLOW"
          \/ Decision(q) = "REQUIRE_APPROVAL" /\ row.approval = "APPROVED"
    /\ row.approval = "APPROVED" => row.tool \in {"SUCCESS", "FAILED"}
RowsOK == \A r \in Runs : RowOK(request[r], db[r])

\* A session between its claim on a run and the end of its work on it.
Owner(p) == sess[p].op = "execute" /\ sess[p].pc \in {"invoke", "execute", "commit", "refresh", "fail"}
Reviewer(p) == sess[p].op \in Review /\ sess[p].pc \in {"lockRun", "execute", "commit"}
OneOwner ==
    \A p, q \in Sessions : Owner(p) /\ Owner(q) /\ sess[p].run = sess[q].run => p = q
OneReviewer ==
    \A p, q \in Sessions : Reviewer(p) /\ Reviewer(q) /\ sess[p].run = sess[q].run => p = q

\* The shape of a session and what its view holds at each point.
ShapeOK(p) ==
    /\ sess[p].pc \in {"enqueue", "claim", "invoke", "refresh", "fail"} => sess[p].op = "execute"
    /\ sess[p].pc \in {"lockApproval", "lockRun"} => sess[p].op \in Review
    /\ sess[p].pc = "execute" => sess[p].op \in {"execute", "approve"}
    /\ sess[p].pc = "commit" => sess[p].op # "none"
ViewOK(p) ==
    LET r == sess[p].run
        row == sess[p].view
    IN  /\ sess[p].pc = "invoke" => row = db[r]
        /\ sess[p].pc = "execute" =>
              /\ row.tool = "RUNNING"
              /\ row.approval = IF sess[p].op = "approve" THEN "APPROVED" ELSE "NONE"
              /\ sess[p].op = "execute" => Decision(request[r]) = "ALLOW"
        /\ sess[p].pc = "commit" =>
              /\ RowOK(request[r], row)
              /\ row.status \in {"SUCCESS", "FAILED", "BLOCKED"}
              /\ sess[p].op = "execute" => row.approval \in {"NONE", "PENDING"}
              /\ sess[p].op = "approve" => row.approval = "APPROVED"
              /\ sess[p].op = "reject" => row.approval = "REJECTED" /\ row.status = "BLOCKED"

\* What the rows of a run are while a session works on it.
HeldOK(p) ==
    LET row == db[sess[p].run]
    IN  /\ Owner(p) => row.status \notin {"ABSENT", "PENDING"}
        /\ Owner(p) /\ sess[p].pc \in {"invoke", "execute", "commit"} => row.status = "RUNNING"
        /\ Reviewer(p) => row.approval = "PENDING"
        /\ Reviewer(p) /\ sess[p].pc \in {"execute", "commit"} => row.status = "BLOCKED"
SessionsOK == \A p \in Sessions : ShapeOK(p) /\ ViewOK(p) /\ HeldOK(p)

\* An allowed tool that has been called is never called again.
CallsOK ==
    \A r \in Runs :
        /\ db[r].status \in {"ABSENT", "PENDING"} => effects[r] = 0
        /\ effects[r] > 0 => Decision(request[r]) \in {"ALLOW", "REQUIRE_APPROVAL"}
        /\ Decision(request[r]) = "ALLOW" =>
              /\ effects[r] <= 1
              /\ \A p \in Sessions :
                    sess[p].run = r /\ Owner(p) /\ sess[p].pc \in {"invoke", "execute"} => effects[r] = 0

IInv ==
    /\ TypeOK
    /\ RowsOK
    /\ OneOwner
    /\ OneReviewer
    /\ SessionsOK
    /\ CallsOK
    /\ EffectsAccounted

-----------------------------------------------------------------------------
(* The refinement: what the committed rows of a run say of its life.       *)

LifeOf(row) ==
    CASE row.status \in {"ABSENT", "PENDING"} -> "new"
      [] row.status = "RUNNING" -> "started"
      [] row.status = "BLOCKED" /\ row.approval = "NONE" -> "denied"
      [] row.status = "BLOCKED" /\ row.approval = "PENDING" -> "waiting"
      [] row.status = "BLOCKED" /\ row.approval \in {"APPROVED", "REJECTED"} -> "rejected"
      [] row.status = "SUCCESS" -> "succeeded"
      [] row.status = "FAILED" -> "failed"

Gate == INSTANCE GatedCall WITH
    ruling <- [r \in Runs |-> Decision(request[r])],
    life <- [r \in Runs |-> LifeOf(db[r])],
    calls <- effects

\* The runtime, the gateway and the approval service together implement
\* GatedCall, as long as the read after execute_run's commit does not fail.
ImplementsGatedCall == Gate!Spec

\* What GatedCall promises, of the committed rows: a run is SUCCESS only after
\* its tool was called, a denied or unknown tool is never called, an allowed one
\* once (runtime.py:160-218, safety_gateway.py:74-138).
GatePromise == Gate!Promise
=============================================================================
