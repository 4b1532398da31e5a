------------------------------ MODULE GatedCall ------------------------------
(***************************************************************************)
(* What the runtime promises of the one tool call of each run, without     *)
(* sessions, row locks, transactions, messages or faults: the flow charts  *)
(* "Runtime Flow" and "Safety Approval Workflow" of docs/architecture.md,  *)
(* as the code carries them out.  RunExecution implements this.            *)
(***************************************************************************)
EXTENDS Naturals, TLAPS

CONSTANT Runs

VARIABLES
    ruling, \* what the gateway decides for the run
    life,   \* where the run stands
    calls   \* how often its tool has been called

vars == <<ruling, life, calls>>

Ruling == {"ALLOW", "REQUIRE_APPROVAL", "DENY", "UNKNOWN"}
Life == {"new", "started", "waiting", "denied", "rejected", "succeeded", "failed"}

TypeOK ==
    /\ ruling \in [Runs -> Ruling]
    /\ life \in [Runs -> Life]
    /\ calls \in [Runs -> Nat]

Init ==
    /\ ruling \in [Runs -> Ruling]
    /\ life = [r \in Runs |-> "new"]
    /\ calls = [r \in Runs |-> 0]

Move(r, from, to) ==
    /\ life[r] = from
    /\ life' = [life EXCEPT ![r] = to]
    /\ UNCHANGED <<ruling, calls>>

Start(r) == Move(r, "new", "started")

\* The policy allows the call, once.
CallAllowed(r) ==
    /\ life[r] = "started"
    /\ ruling[r] = "ALLOW"
    /\ calls[r] = 0
    /\ calls' = [calls EXCEPT ![r] = 1]
    /\ UNCHANGED <<ruling, life>>

\* A reviewer approves the call; when its result is lost, the request still
\* waits and may be approved again.
CallApproved(r) ==
    /\ life[r] = "waiting"
    /\ calls' = [calls EXCEPT ![r] = @ + 1]
    /\ UNCHANGED <<ruling, life>>

Deny(r) == ruling[r] = "DENY" /\ Move(r, "started", "denied")
Ask(r) == ruling[r] = "REQUIRE_APPROVAL" /\ Move(r, "started", "waiting")
Reject(r) == Move(r, "waiting", "rejected")
Succeed(r) == calls[r] > 0 /\ (Move(r, "started", "succeeded") \/ Move(r, "waiting", "succeeded"))
Fail(r) == Move(r, "started", "failed") \/ (calls[r] > 0 /\ Move(r, "waiting", "failed"))

Next ==
    \E r \in Runs :
        \/ Start(r) \/ CallAllowed(r) \/ CallApproved(r)
        \/ Deny(r) \/ Ask(r) \/ Reject(r) \/ Succeed(r) \/ Fail(r)

Spec == Init /\ [][Next]_vars

-----------------------------------------------------------------------------
\* A run succeeds only through its tool, a tool is called only when the ruling
\* or a reviewer lets it, and an allowed tool is called at most once.
Promise ==
    \A r \in Runs :
        /\ life[r] = "succeeded" => calls[r] > 0
        /\ calls[r] > 0 => ruling[r] \in {"ALLOW", "REQUIRE_APPROVAL"}
        /\ ruling[r] = "ALLOW" => calls[r] <= 1
        /\ life[r] \in {"waiting", "rejected"} => ruling[r] = "REQUIRE_APPROVAL"
        /\ life[r] = "denied" => calls[r] = 0

-----------------------------------------------------------------------------
LEMMA PromiseStep == TypeOK /\ Promise /\ [Next]_vars => TypeOK' /\ Promise'
<1> SUFFICES ASSUME TypeOK, Promise, [Next]_vars PROVE TypeOK' /\ Promise'
  OBVIOUS
<1>1. CASE UNCHANGED vars
  BY <1>1 DEF TypeOK, Promise, vars
<1>2. ASSUME NEW r \in Runs, NEW from \in Life, NEW to \in Life, Move(r, from, to)
      PROVE  TypeOK' /\ \A x \in Runs : /\ calls'[x] = calls[x] /\ ruling'[x] = ruling[x]
                                        /\ life'[x] = IF x = r THEN to ELSE life[x]
  BY <1>2 DEF Move, TypeOK
<1>3. ASSUME NEW r \in Runs, Start(r) \/ Deny(r) \/ Ask(r) \/ Reject(r) \/ Succeed(r) \/ Fail(r)
      PROVE  TypeOK' /\ Promise'
  BY <1>2, <1>3 DEF Start, Deny, Ask, Reject, Succeed, Fail, Move, Life, Promise, TypeOK
<1>4. ASSUME NEW r \in Runs, CallAllowed(r) PROVE TypeOK' /\ Promise'
  BY <1>4 DEF CallAllowed, TypeOK, Promise
<1>5. ASSUME NEW r \in Runs, CallApproved(r) PROVE TypeOK' /\ Promise'
  BY <1>5 DEF CallApproved, TypeOK, Promise
<1> QED
  BY <1>1, <1>3, <1>4, <1>5 DEF Next

\* The promise holds of every behaviour the flow charts of docs/architecture.md
\* allow (safety_gateway.py:74-138, approvals.py:48-110).
THEOREM PromiseKept == Spec => []Promise
<1>1. Init => TypeOK /\ Promise
  BY DEF Init, TypeOK, Promise, Life
<1> QED
  BY <1>1, PromiseStep, PTL DEF Spec
=============================================================================
