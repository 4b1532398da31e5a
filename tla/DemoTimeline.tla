----------------------------- MODULE DemoTimeline -----------------------------
(***************************************************************************)
(* The demo seed over RunExecution: apply_demo_timestamps                  *)
(* (services/demo_seed.py) gives the rows of every seeded run the times of *)
(* a made-up story, and with it the trace rows another order, and makes    *)
(* the statuses fit the manifest.  The script calls it between its         *)
(* requests, when nobody works on the run.                                 *)
(***************************************************************************)
EXTENDS RunExecution, TLC

CONSTANT RejectedSeeds \* runs of the seeds whose outcome in the manifest is "reject"

\* Minutes after the start of the run.
Offset(e) ==
    CASE e = "AgentRunStarted" -> 1
      [] e = "PolicyCheck" -> 2
      [] e = "ApprovalRequested" -> 3
      [] e = "ToolBlocked" -> 4
      [] e = "ToolInvoked" -> 5
      [] e \in {"ToolSucceeded", "ToolFailed"} -> 6
      [] e \in {"AgentRunCompleted", "AgentRunFailed"} -> 7
      [] e \in {"ApprovalApproved", "ApprovalRejected"} -> 25

\* list_traces_by_trace_id orders by these times.  Two rows of one time, which
\* come in the order of their random ids, are two ToolBlocked of a rejected run,
\* so their order is left alone.
Restamped(events) == SortSeq(events, LAMBDA e, f : Offset(e) < Offset(f))

\* _set_run_timestamps makes a run that the manifest rejects BLOCKED;
\* _set_tool_call_timestamps makes the tool call follow the run.
Normalized(r) ==
    LET status == IF r \in RejectedSeeds THEN "BLOCKED" ELSE db[r].status
    IN  [db[r] EXCEPT !.status = status,
                      !.tool = IF @ = "NONE" THEN @
                               ELSE IF status \in {"SUCCESS", "FAILED"} THEN status
                               ELSE "BLOCKED"]

Normalize(r) ==
    /\ \A p \in Sessions : sess[p].run # r
    /\ db[r].status # "ABSENT"
    /\ db' = [db EXCEPT ![r] = Normalized(r)]
    /\ trace' = [trace EXCEPT ![r] = Restamped(@)]
    /\ UNCHANGED <<request, queue, sess, ghosts, faults>>

DemoNext == Next \/ \E r \in Runs : Normalize(r)
DemoSpec == Init /\ [][DemoNext]_vars

\* docs/api_reference.md:182 ("Return a chronological execution timeline for the
\* run."), tests/api/test_observability.py:69-75: an approval comes before the
\* call it lets through.
Before(s, e, f) == \A i, j \in DOMAIN s : s[i] = e /\ s[j] = f => i < j
ApprovalPrecedesCall == \A r \in Runs : Before(trace[r], "ApprovalApproved", "ToolInvoked")
=============================================================================
