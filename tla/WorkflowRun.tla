------------------------------ MODULE WorkflowRun ------------------------------
(***************************************************************************)
(* One workflow run and everything in an application process that executes *)
(* it or decides about it: the streams of POST /start and POST /resume,    *)
(* the tasks of the RunDriver if the run is driver-managed, and the        *)
(* handlers for cancel, retry and the three approval decisions.            *)
(*                                                                         *)
(* The code runs in one event loop.  An execution holds its own copy of    *)
(* the run and is suspended when it awaits or yields; one action is the    *)
(* code from one suspension to the next.  An HTTP handler reads the row,   *)
(* changes it and writes it back without a suspension, in one action.      *)
(*                                                                         *)
(* A workflow is a sequence of nodes.  What a gate asks for, and what an   *)
(* action must have been approved as, is its key: the step id of the       *)
(* action (approvalIdentityVersion 2, `exact`) or its action type.         *)
(*                                                                         *)
(* RunLease models what happens to a driver-managed run when its process   *)
(* dies or its lease runs out, ActionDispatch the budgets.                 *)
(***************************************************************************)
EXTENDS Integers, Sequences

CONSTANTS Exec,      \* executions of the run (streams and driver tasks)
          NoExec,    \* the lease is free
          Key,       \* what an approval can name
          NoKey,     \* key of an action that needs no approval
          Templates, \* definitions started by POST /start
          Planned,   \* definitions of driver-managed planning runs
          MaxAttempts, \* max_attempts of a node
          MaxManual  \* bound on resume and retry requests

Kind == {"task", "risk", "gate", "action", "wait", "close"}

(* auto is the second of next_nodes of a risk gate, 0 if it has only one.  *)
NodeConfig == [kind : Kind, key : Key \cup {NoKey}, exact : BOOLEAN, auto : Nat]

ASSUME KeyAssumption == NoKey \notin Key
ASSUME ExecAssumption == NoExec \notin Exec
ASSUME BoundAssumption == MaxAttempts \in Nat \ {0} /\ MaxManual \in Nat
ASSUME PlanAssumption ==
  \A p \in Templates \cup Planned :
    /\ p \in Seq(NodeConfig) /\ p # <<>>
    /\ \A n \in DOMAIN p :
         /\ p[n].auto \in DOMAIN p \cup {0}
         /\ p[n].kind = "gate" => p[n].key \in Key
         /\ p[n].kind # "close" => n + 1 \in DOMAIN p

Status == {"pending", "running", "paused", "awaiting", "completed",
           "failed", "rejected", "cancelled"}
Terminal == {"completed", "failed", "rejected", "cancelled"}

(* Where an execution is suspended: before its first write, before or in   *)
(* the body of a node, in an external call, or after the body.             *)
Phase == {"idle", "start", "enter", "call", "after"}

VARIABLES
  plan,      \* the definition at the version of the run
  managed,   \* driver_managed
  risky,     \* the rule router found that the event requires approval
  row,       \* the row: status, current node and approval state
  holder,    \* the driver task that holds the lease
  record,    \* per node: the action record under its idempotency key
  phase,     \* per execution
  fenced,    \* per execution: it has a driver context
  pos,       \* per execution: current_node_id of its loop
  tries,     \* per execution: attempt at that node
  mem,       \* per execution: its copy of the row
  granted,   \* keys that a human has approved so far
  open,      \* per node: calls in flight, succeeded, or of unknown outcome
  manual     \* number of resume and retry requests accepted

definition == <<plan, managed, risky>>
execs == <<phase, fenced, pos, tries, mem>>
vars == <<plan, managed, risky, row, holder, record,
          phase, fenced, pos, tries, mem, granted, open, manual>>

Node == DOMAIN plan
NoQuestion == [node |-> 0, keys |-> {}]

(* waited is what a wait node looks for in node_outputs: the wait node     *)
(* whose output it holds, or 0.                                            *)
Copy == [status : Status, at : Node,
         pending : [node : Node \cup {0}, keys : SUBSET Key],
         approved : SUBSET Key, waited : Node \cup {0}]

TypeOK ==
  /\ plan \in Templates \cup Planned
  /\ managed \in BOOLEAN /\ risky \in BOOLEAN
  /\ row \in Copy
  /\ holder \in Exec \cup {NoExec}
  /\ record \in [Node -> {"none", "executing", "succeeded", "failed"}]
  /\ phase \in [Exec -> Phase]
  /\ fenced \in [Exec -> BOOLEAN]
  /\ pos \in [Exec -> Node]
  /\ tries \in [Exec -> 1 .. MaxAttempts]
  /\ mem \in [Exec -> Copy]
  /\ granted \in SUBSET Key
  /\ open \in [Node -> Int]
  /\ manual \in 0 .. MaxManual

NewRun == [status |-> "pending", at |-> 1, pending |-> NoQuestion,
           approved |-> {}, waited |-> 0]

(* start() has saved the row and yields workflow_started; or the planning  *)
(* API has saved a driver-managed row, which nobody executes yet.          *)
Init ==
  /\ \/ /\ managed = TRUE
        /\ plan \in Planned
        /\ phase = [e \in Exec |-> "idle"]
     \/ /\ managed = FALSE
        /\ plan \in Templates
        /\ \E s \in Exec : phase = [e \in Exec |-> IF e = s THEN "start" ELSE "idle"]
  /\ risky \in BOOLEAN
  /\ row = NewRun
  /\ holder = NoExec
  /\ record = [n \in Node |-> "none"]
  /\ fenced = [e \in Exec |-> FALSE]
  /\ pos = [e \in Exec |-> 1]
  /\ tries = [e \in Exec |-> 1]
  /\ mem = [e \in Exec |-> NewRun]
  /\ granted = {}
  /\ open = [n \in Node |-> 0]
  /\ manual = 0

-----------------------------------------------------------------------------
(* Executions.                                                             *)

At(e, p) == phase[e] = p
Goto(e, p) == phase' = [phase EXCEPT ![e] = p]
Remember(e, m) == mem' = [mem EXCEPT ![e] = m]

(* Mutations: see RunLease. *)
Valid_AsNoCancelCheck(e) == fenced[e] => holder = e

(* Whether the writes of e go through: with a driver context they are      *)
(* fenced (fenced_update_run), without one they always do (save_run).      *)
Valid(e) == fenced[e] => holder = e /\ row.status # "cancelled"

(* The generator of e ends; a driver task also releases its lease.         *)
End(e) ==
  /\ Goto(e, "idle")
  /\ fenced' = [fenced EXCEPT ![e] = FALSE]
  /\ pos' = [pos EXCEPT ![e] = 1]
  /\ tries' = [tries EXCEPT ![e] = 1]
  /\ Remember(e, NewRun)
  /\ holder' = IF holder = e THEN NoExec ELSE holder

(* _execute_definition from node n on, with the copy m. *)
Loop(e, m, n) ==
  /\ Goto(e, "enter")
  /\ Remember(e, m)
  /\ pos' = [pos EXCEPT ![e] = n]
  /\ tries' = [tries EXCEPT ![e] = 1]

Running(m) == [m EXCEPT !.status = "running"]

(* start(), after its first yield: RUNNING is saved over whatever is there. *)
Start(e) ==
  /\ At(e, "start")
  /\ row' = Running(mem[e])
  /\ Loop(e, Running(mem[e]), 1)
  /\ UNCHANGED <<definition, holder, record, fenced, granted, open, manual>>

(* The driver claims a PENDING run, and execute_created_run runs it from   *)
(* its entry node.                                                         *)
ExecuteCreatedRun(e) ==
  /\ managed
  /\ At(e, "idle")
  /\ row.status = "pending"
  /\ holder = NoExec
  /\ holder' = e
  /\ fenced' = [fenced EXCEPT ![e] = TRUE]
  /\ row' = Running(row)
  /\ Loop(e, Running(row), 1)
  /\ UNCHANGED <<definition, record, granted, open, manual>>

(* resume() goes on where the row stands.  RUNNING is only in its copy:    *)
(* the row keeps its status until the first node is over, so that a second *)
(* resume is accepted meanwhile.                                           *)
Resume(e) ==
  /\ At(e, "idle")
  /\ manual < MaxManual
  /\ row.status \in {"paused", "awaiting"}
  /\ Loop(e, Running(row), row.at)
  /\ manual' = manual + 1
  /\ UNCHANGED <<definition, row, holder, record, fenced, granted, open>>

(* The client of a stream disconnects: its generator is thrown away. *)
Disconnect(e) ==
  /\ ~fenced[e] /\ ~At(e, "idle")
  /\ End(e)
  /\ UNCHANGED <<definition, row, record, granted, open, manual>>

-----------------------------------------------------------------------------
(* The bodies of nodes.  After each the execution is re-verified (M2).     *)

Inside(e, k) == At(e, "enter") /\ plan[pos[e]].kind = k

NodeReturns(e, m) ==
  \/ /\ Valid(e)
     /\ Goto(e, "after")
     /\ Remember(e, m)
     /\ UNCHANGED <<holder, fenced, pos, tries>>
  \/ /\ ~Valid(e)
     /\ End(e)

(* A node that succeeds replaces node_outputs by its own output alone.     *)
Output(e) ==
  [mem[e] EXCEPT !.waited = IF plan[pos[e]].kind = "wait" THEN pos[e] ELSE 0]
Failed(e) == [mem[e] EXCEPT !.status = "failed"]

Unaffected == UNCHANGED <<definition, row, granted, manual>>

(* Nodes that compute: trigger, rules, retrieval, agents, evaluation. *)
Task(e) ==
  /\ Inside(e, "task") \/ Inside(e, "risk")
  /\ NodeReturns(e, Output(e)) \/ NodeReturns(e, Failed(e))
  /\ UNCHANGED <<record, open>> /\ Unaffected

HumanApproval_AsAlwaysAsks(e) ==
  LET m == Output(e)
      g == plan[pos[e]]
  IN
  /\ Inside(e, "gate")
  /\ \E proposed \in IF g.exact THEN {{}} ELSE SUBSET Key :
       NodeReturns(e, [m EXCEPT !.status = "awaiting",
         !.pending = [node |-> pos[e], keys |-> proposed \cup {g.key}]])
  /\ UNCHANGED <<record, open>> /\ Unaffected

(* execute_human_approval.  The gate is skipped only if what it declares   *)
(* is approved and no question is pending; a legacy gate adds the actions  *)
(* that agents have proposed.                                              *)
HumanApproval(e) ==
  LET m == Output(e)
      g == plan[pos[e]]
  IN
  /\ Inside(e, "gate")
  /\ \/ /\ m.pending = NoQuestion /\ g.key \in m.approved
        /\ NodeReturns(e, m)
     \/ /\ ~(m.pending = NoQuestion /\ g.key \in m.approved)
        /\ \E proposed \in IF g.exact THEN {{}} ELSE SUBSET Key :
             NodeReturns(e, [m EXCEPT !.status = "awaiting",
               !.pending = [node |-> pos[e], keys |-> proposed \cup {g.key}]])
  /\ UNCHANGED <<record, open>> /\ Unaffected

(* execute_wait pauses the run once; resumed, it finds its own output. *)
Wait(e) ==
  /\ Inside(e, "wait")
  /\ \/ mem[e].waited = pos[e] /\ NodeReturns(e, Output(e))
     \/ /\ mem[e].waited # pos[e]
        /\ NodeReturns(e, [Output(e) EXCEPT !.status = "paused"])
  /\ UNCHANGED <<record, open>> /\ Unaffected

Close(e) ==
  /\ Inside(e, "close")
  /\ NodeReturns(e, [Output(e) EXCEPT !.status = "completed"])
  /\ UNCHANGED <<record, open>> /\ Unaffected

Approved_AsRunLevel(m, n) == plan[n].key = NoKey \/ m.approved # {}

(* enforce_tool_request with is_current_action_approved: a tool that needs *)
(* an approval is let through only by one that names this action.          *)
Approved(m, n) == plan[n].key = NoKey \/ plan[n].key \in m.approved

AttemptFails_AsOffByOne(e) ==
  \/ /\ tries[e] <= MaxAttempts
     /\ Goto(e, "enter")
     /\ tries' = [tries EXCEPT ![e] = @ + 1]
     /\ UNCHANGED <<holder, fenced, pos, mem>>
  \/ NodeReturns(e, Failed(e))

(* A failed attempt: another one, or the node has failed. *)
AttemptFails(e) ==
  \/ /\ tries[e] < MaxAttempts
     /\ Goto(e, "enter")
     /\ tries' = [tries EXCEPT ![e] = @ + 1]
     /\ UNCHANGED <<holder, fenced, pos, mem>>
  \/ NodeReturns(e, Failed(e))

(* execute_action up to the call.  For the executor it is a success        *)
(* without a call if the action is not approved or has been executed, but  *)
(* also if the budget is exhausted or the idempotency check raises; it is  *)
(* a failure if a question is pending, the record says EXECUTING, or the   *)
(* marker cannot be saved.                                                 *)
SkipAction(e) ==
  /\ Inside(e, "action")
  /\ ~Approved(mem[e], pos[e]) \/ mem[e].pending = NoQuestion
  /\ NodeReturns(e, Output(e))
  /\ UNCHANGED <<record, open>> /\ Unaffected

RefuseAction(e) ==
  /\ Inside(e, "action")
  /\ Approved(mem[e], pos[e])
  /\ AttemptFails(e)
  /\ UNCHANGED <<record, open>> /\ Unaffected

DispatchAction_AsIgnoresExecuting(e) ==
  /\ Inside(e, "action")
  /\ Approved(mem[e], pos[e])
  /\ mem[e].pending = NoQuestion
  /\ record[pos[e]] # "succeeded"
  /\ Valid(e)
  /\ record' = [record EXCEPT ![pos[e]] = "executing"]
  /\ open' = [open EXCEPT ![pos[e]] = @ + 1]
  /\ Goto(e, "call")
  /\ UNCHANGED <<holder, fenced, pos, tries, mem>> /\ Unaffected

(* From the checks through the marker to the call there is no suspension. *)
DispatchAction(e) ==
  /\ Inside(e, "action")
  /\ Approved(mem[e], pos[e])
  /\ mem[e].pending = NoQuestion
  /\ record[pos[e]] \in {"none", "failed"}
  /\ Valid(e)
  /\ record' = [record EXCEPT ![pos[e]] = "executing"]
  /\ open' = [open EXCEPT ![pos[e]] = @ + 1]
  /\ Goto(e, "call")
  /\ UNCHANGED <<holder, fenced, pos, tries, mem>> /\ Unaffected

CallSucceeds(e) ==
  /\ At(e, "call")
  /\ record' = [record EXCEPT ![pos[e]] = "succeeded"]
  /\ NodeReturns(e, Output(e))
  /\ UNCHANGED open /\ Unaffected

CallFails(e) ==
  /\ At(e, "call")
  /\ record' = [record EXCEPT ![pos[e]] = "failed"]
  /\ open' = [open EXCEPT ![pos[e]] = @ - 1]
  /\ AttemptFails(e)
  /\ Unaffected

(* The node times out, with an unknown outcome of its call. *)
CallTimesOut(e) ==
  /\ At(e, "call")
  /\ AttemptFails(e)
  /\ UNCHANGED <<record, open>> /\ Unaffected

-----------------------------------------------------------------------------
(* After a node.                                                           *)

(* A risk gate branches on "requires_approval", a field of the output of   *)
(* the rule router.  _eval_condition looks for it in state._node_outputs,  *)
(* which nothing fills: it is false whatever the router has found.         *)
ConditionHolds == FALSE

NextNode(n) ==
  IF plan[n].kind = "risk" /\ plan[n].auto # 0 /\ ~ConditionHolds
    THEN plan[n].auto ELSE n + 1

(* The copy is persisted, and unless the run waits or is over, the next    *)
(* node is entered; a lost lease or a cancellation ends the loop there.    *)
Advance(e) ==
  LET m == [mem[e] EXCEPT !.at = NextNode(pos[e])] IN
  /\ At(e, "after")
  /\ mem[e].status = "running"
  /\ \/ Valid(e) /\ row' = m /\ Loop(e, m, m.at) /\ UNCHANGED <<holder, fenced>>
     \/ ~Valid(e) /\ UNCHANGED row /\ End(e)
  /\ UNCHANGED <<definition, record, granted, open, manual>>

Stop(e) ==
  /\ At(e, "after")
  /\ mem[e].status # "running"
  /\ row' = IF Valid(e) THEN mem[e] ELSE row
  /\ End(e)
  /\ UNCHANGED <<definition, record, granted, open, manual>>

-----------------------------------------------------------------------------
(* Handlers.                                                               *)

Cancel ==
  /\ row.status \notin Terminal
  /\ row' = [row EXCEPT !.status = "cancelled"]
  /\ UNCHANGED <<definition, holder, record, execs, granted, open, manual>>

(* A decision that approves `keys` replaces what was approved before.  A   *)
(* run of the driver goes back to PENDING, another waits for resume().     *)
Approve(keys) ==
  /\ row.status = "awaiting"
  /\ row.pending # NoQuestion
  /\ row' = [row EXCEPT !.approved = keys, !.pending = NoQuestion,
                        !.at = row.pending.node + 1,
                        !.status = IF managed THEN "pending" ELSE "awaiting"]
  /\ holder' = IF managed THEN NoExec ELSE holder
  /\ granted' = granted \cup keys

(* approve and edit_and_approve.  The editor of a question that names a    *)
(* step cannot change the step.                                            *)
Decide ==
  /\ \/ Approve(row.pending.keys)
     \/ \E keys \in SUBSET Key :
          /\ row.pending # NoQuestion => ~plan[row.pending.node].exact
          /\ Approve(keys)
  /\ UNCHANGED <<definition, record, execs, open, manual>>

Reject ==
  /\ row.status = "awaiting"
  /\ row.pending # NoQuestion
  /\ row' = [row EXCEPT !.status = "rejected", !.approved = {}, !.pending = NoQuestion]
  /\ UNCHANGED <<definition, holder, record, execs, granted, open, manual>>

(* retry_node puts the run at any node, whatever its status. *)
RetryNode(n) ==
  /\ manual < MaxManual
  /\ row' = [row EXCEPT !.at = n]
  /\ manual' = manual + 1
  /\ UNCHANGED <<definition, holder, record, execs, granted, open>>

-----------------------------------------------------------------------------
Body(e) ==
  \/ Task(e) \/ HumanApproval(e) \/ Wait(e) \/ Close(e)
  \/ SkipAction(e) \/ RefuseAction(e) \/ DispatchAction(e)
  \/ CallSucceeds(e) \/ CallFails(e) \/ CallTimesOut(e)

Next ==
  \/ \E e \in Exec :
       \/ Start(e) \/ ExecuteCreatedRun(e) \/ Resume(e) \/ Disconnect(e)
       \/ Body(e) \/ Advance(e) \/ Stop(e)
  \/ Cancel \/ Decide \/ Reject
  \/ \E n \in Node : RetryNode(n)

Spec == Init /\ [][Next]_vars

-----------------------------------------------------------------------------
(* Properties.                                                             *)

(* No external call of an action that needs approval is made unless a      *)
(* human has approved this very action (its step id, or in a template its  *)
(* type), whatever is resumed, retried, edited or restarted from its entry *)
(* in between.                                                             *)
OnlyApprovedCalls ==
  \A n \in Node : open[n] > 0 /\ plan[n].key # NoKey => plan[n].key \in granted

(* Each action is called at most once, except after a call that was        *)
(* reported as failed, although the run can be resumed twice, put back to  *)
(* an earlier node or restarted from its entry, and although the           *)
(* executions overwrite each other's row.                                  *)
AtMostOneCall == \A n \in Node : open[n] <= 1

(* A driver-managed run that only the driver executes does not leave a     *)
(* final status; an accepted cancellation or rejection is not overwritten  *)
(* by the task that was running.                                           *)
DriverRespectsTheEnd ==
  [][managed /\ manual = 0 /\ row.status \in Terminal => row'.status = row.status]_vars

(* state.py calls CANCELLED final and not convertible.  A cancelled run    *)
(* stays cancelled, whoever executes it.                                   *)
CancelledIsFinal == [][row.status = "cancelled" => row'.status = "cancelled"]_vars

(* The description of the risk gate in the templates: high risk goes to    *)
(* human approval.  A run that the router found risky does not complete    *)
(* past a risk gate with two branches unless a human has decided.          *)
Branches == \E n \in Node : plan[n].kind = "risk" /\ plan[n].auto # 0
RiskyRunAsksHuman ==
  row.status = "completed" /\ risky /\ Branches /\ manual = 0 => granted # {}

(* Fairness: the driver polls, and an execution goes on, since every node  *)
(* runs under a timeout; a human answers every question in the end.        *)
FairSpec ==
  /\ Spec
  /\ \A e \in Exec : WF_vars(ExecuteCreatedRun(e) \/ Body(e) \/ Advance(e) \/ Stop(e))
  /\ WF_vars(Decide)

Gates == {n \in Node : plan[n].kind = "gate"}

(* A driver-managed run with at most one gate ends, if only the driver     *)
(* executes it: it is not parked between its gate and its action, nor does *)
(* it ask again when it restarts from its entry.                           *)
OneGatePlanEnds ==
  managed /\ (\A g, h \in Gates : g = h) => <>(row.status \in Terminal \/ manual > 0)

(* A gate is skipped if what it declares has been approved, and each       *)
(* action of high risk has a gate of its own (human_approval.py,           *)
(* adapter.py).  A driver-managed run does not ask for the approval of an  *)
(* action step that a human has already approved in this run.              *)
NotAskedTwice ==
  [][managed /\ manual = 0 /\ row.pending = NoQuestion /\ row'.pending # NoQuestion
       => ~(row'.pending.keys \subseteq granted)]_vars

-----------------------------------------------------------------------------
(* What holds between the row, the copies, the records and the calls, in a *)
(* form that every step preserves.                                         *)

(* Only actions are called, no execution goes on behind a close node, and  *)
(* questions are asked by gates.                                           *)
AsksAtGate(c) ==
  c.pending # NoQuestion => c.pending.node \in Node /\ plan[c.pending.node].kind = "gate"
WellPlaced ==
  /\ \A e \in Exec :
       /\ At(e, "call") => plan[pos[e]].kind = "action"
       /\ At(e, "after") /\ mem[e].status = "running" => plan[pos[e]].kind # "close"
       /\ AsksAtGate(mem[e])
  /\ AsksAtGate(row)

(* What any copy takes for approved was approved by a human. *)
ApprovedIsGranted ==
  /\ row.approved \subseteq granted
  /\ \A e \in Exec : mem[e].approved \subseteq granted

(* A call that may have taken effect is on record; no two executions are   *)
(* in a call of the same action.                                           *)
CallIsRecorded ==
  /\ \A n \in Node :
       /\ open[n] \in {0, 1}
       /\ open[n] = 1 => record[n] \in {"executing", "succeeded"}
  /\ \A e \in Exec :
       At(e, "call") => open[pos[e]] = 1 /\ record[pos[e]] = "executing"
  /\ \A e, f \in Exec : At(e, "call") /\ At(f, "call") /\ pos[e] = pos[f] => e = f

(* Unless somebody resumes it, a driver-managed run is only in tasks of    *)
(* the driver, and while one of them holds it, it is running or cancelled. *)
OnlyTheDriver ==
  managed /\ manual = 0 =>
    /\ \A e \in Exec : At(e, "idle") \/ (fenced[e] /\ ~At(e, "start"))
    /\ holder # NoExec => row.status \in {"running", "cancelled"}

IInv ==
  /\ TypeOK
  /\ WellPlaced
  /\ ApprovedIsGranted
  /\ OnlyApprovedCalls
  /\ CallIsRecorded
  /\ OnlyTheDriver
=============================================================================
