---------------------------- MODULE ActionDispatch ----------------------------
(***************************************************************************)
(* One action node of a driver-managed run, executed by whichever task     *)
(* holds the run: the path through execute_action from the idempotency     *)
(* check to the external call and back, the retries around it, and what a  *)
(* new holder does with a run its predecessor left behind.                 *)
(*                                                                         *)
(* The lease is the abstract one of ExclusiveLease, which RunLease         *)
(* implements.  Tasks interleave between SQL statements.  Two deployments  *)
(* are distinguished: in one process all tasks share an event loop, and    *)
(* the read-modify-write of _reserve_durable is one step; in several, it   *)
(* is the two statements it consists of.                                   *)
(***************************************************************************)
EXTENDS Integers

CONSTANTS Owner,          \* driver processes
          MaxEpoch,       \* bound on generations
          MaxToolCalls,   \* budgetLimits.maxToolCalls
          MaxRetries,     \* budgetLimits.maxRetries
          MaxAttempts     \* max_attempts of the node

ASSUME EpochAssumption == MaxEpoch \in Nat
ASSUME BudgetAssumption ==
  MaxToolCalls \in Nat /\ MaxRetries \in Nat /\ MaxAttempts \in Nat \ {0}

Worker == Owner \X (1 .. MaxEpoch)

Status == {"pending", "running", "awaiting", "completed", "failed", "cancelled"}
Record == {"none", "executing", "succeeded", "failed"}

(* Where a task stands in execute_action and around it: "store" is between *)
(* the two statements of a reservation, "okRow" and "errorRow" before the  *)
(* write that follows the node.                                            *)
Place == {"idle", "begin", "check", "c1", "reserve", "store", "marker", "c2",
          "dispatch", "call", "save", "error", "ok", "okRow", "errorRow", "quit"}

VARIABLES
  oneProcess,  \* the deployment
  holder, epoch, health,   \* the lease
  status,      \* of the run
  highRisk,    \* the tool is HIGH_RISK with a side effect
  record,      \* the action record under the node's idempotency key
  toolCalls,   \* toolCallsUsed of the run's lineage
  retries,     \* retriesUsed
  place,       \* per task
  attempt,     \* per task: attempt number at the node
  outcome,     \* per task: result of its last call, "none" outside "save"
  copy,        \* per task: the row that _reserve_durable will write back
  issued,      \* external calls started
  open,        \* calls in flight, succeeded, or of unknown outcome
  cancelled    \* a cancel request was accepted

deployment == <<oneProcess, highRisk>>
lease == <<holder, epoch, health>>
row == <<status, toolCalls, retries>>
tasks == <<place, attempt, outcome, copy>>
calls == <<issued, open>>
vars == <<oneProcess, holder, epoch, health, status, highRisk, record,
          toolCalls, retries, place, attempt, outcome, copy, issued, open,
          cancelled>>

Lease == INSTANCE ExclusiveLease

(* Where a task goes on after a reservation. *)
Then == {"idle", "check", "marker", "okRow", "errorRow"}

Copy == [status : Status, toolCalls : 0 .. MaxToolCalls,
         retries : 0 .. MaxRetries, then : Then]
NoCopy == [status |-> "pending", toolCalls |-> 0, retries |-> 0, then |-> "idle"]

TypeOK ==
  /\ oneProcess \in BOOLEAN
  /\ holder \in SUBSET Worker
  /\ epoch \in 0 .. MaxEpoch
  /\ health \in {"live", "late", "lapsed"}
  /\ status \in Status
  /\ highRisk \in BOOLEAN
  /\ record \in Record
  /\ toolCalls \in 0 .. MaxToolCalls
  /\ retries \in 0 .. MaxRetries
  /\ place \in [Worker -> Place]
  /\ attempt \in [Worker -> 1 .. MaxAttempts]
  /\ outcome \in [Worker -> {"none", "succeeded", "failed"}]
  /\ copy \in [Worker -> Copy]
  /\ issued \in Nat
  /\ open \in Int
  /\ cancelled \in BOOLEAN

Init ==
  /\ oneProcess \in BOOLEAN
  /\ Lease!Init
  /\ status = "pending" /\ highRisk \in BOOLEAN
  /\ record = "none" /\ toolCalls = 0 /\ retries = 0
  /\ place = [w \in Worker |-> "idle"]
  /\ attempt = [w \in Worker |-> 1]
  /\ outcome = [w \in Worker |-> "none"]
  /\ copy = [w \in Worker |-> NoCopy]
  /\ issued = 0 /\ open = 0 /\ cancelled = FALSE

-----------------------------------------------------------------------------
(* is_driver_execution_valid.  While the lease is "late" the answer        *)
(* depends on how old the caller's clock value is.                         *)
Holds(w) == holder = {w} /\ status # "cancelled"
SeenValid(w) == Holds(w) /\ health # "lapsed"
SeenInvalid(w) == Holds(w) => health # "live"

At(w, p) == place[w] = p
Goto(w, p) == place' = [place EXCEPT ![w] = p]
Local == <<attempt, outcome, copy>>

(* A driver claims the run and starts a task (claim_driver_run, _drive).   *)
(* If there is one process, a claim under another id comes after a restart. *)
Claim(o) ==
  /\ status \in {"pending", "running"}
  /\ oneProcess => \A w \in Worker : w[1] # o => At(w, "idle")
  /\ Lease!Grant(o)
  /\ Goto(<<o, epoch + 1>>, "begin")
  /\ UNCHANGED <<row, deployment, record, Local, calls, cancelled>>

(* A PENDING run is executed from its entry: the first fenced write makes  *)
(* it RUNNING.                                                             *)
BeginPending(w) ==
  /\ At(w, "begin")
  /\ status = "pending"
  /\ SeenValid(w)
  /\ status' = "running"
  /\ Goto(w, "check")
  /\ UNCHANGED <<lease, deployment, record, toolCalls, retries, Local, calls, cancelled>>

(* _recover_running: a run found RUNNING with an action of high risk is    *)
(* left alone, whether its call is recorded as started (unknown outcome)   *)
(* or not (fail-closed); another action is replayed.                       *)
BeginReplay(w) ==
  /\ At(w, "begin")
  /\ status = "running"
  /\ ~highRisk
  /\ Goto(w, "check")
  /\ UNCHANGED <<lease, row, deployment, record, Local, calls, cancelled>>

(* Everything else ends the task: fail-closed recovery, a class that       *)
(* cannot be resolved, a status that is not runnable, a refused write.     *)
BeginNothing(w) ==
  /\ At(w, "begin")
  /\ (status = "pending") => SeenInvalid(w)
  /\ Goto(w, "quit")
  /\ UNCHANGED <<lease, row, deployment, record, Local, calls, cancelled>>

-----------------------------------------------------------------------------
(* execute_action.                                                         *)

CheckIdempotency_AsIgnoresExecuting(w) ==
  /\ At(w, "check")
  /\ \/ record = "succeeded" /\ Goto(w, "ok")
     \/ record \in {"none", "executing", "failed"} /\ Goto(w, "c1")
  /\ UNCHANGED <<lease, row, deployment, record, Local, calls, cancelled>>

(* The idempotency check: a succeeded record skips the call, a record that *)
(* says EXECUTING is an error, and a failed or missing one lets it go on.  *)
(* A check that raises returns a result without "error": a success for the *)
(* executor.                                                               *)
CheckIdempotency(w) ==
  /\ At(w, "check")
  /\ \/ record = "succeeded" /\ Goto(w, "ok")
     \/ record = "executing" /\ Goto(w, "error")
     \/ record \in {"none", "failed"} /\ Goto(w, "c1")
     \/ Goto(w, "ok")
  /\ UNCHANGED <<lease, row, deployment, record, Local, calls, cancelled>>

(* C1: the driver gate before the budget is touched. *)
GateC1(w) ==
  /\ At(w, "c1")
  /\ \/ SeenValid(w) /\ Goto(w, "reserve")
     \/ SeenInvalid(w) /\ Goto(w, "quit")
  /\ UNCHANGED <<lease, row, deployment, record, Local, calls, cancelled>>

(* _reserve_durable, after which the task goes to p: one step within one   *)
(* process; otherwise get_run, and then a save_run that writes the whole   *)
(* row back, status included, without the fence.                           *)
Reserved(w, p, t, r) ==
  \/ /\ oneProcess
     /\ toolCalls' = t /\ retries' = r
     /\ Goto(w, p)
     /\ UNCHANGED copy
  \/ /\ ~oneProcess
     /\ copy' = [copy EXCEPT ![w] = [status |-> status, toolCalls |-> t,
                                    retries |-> r, then |-> p]]
     /\ Goto(w, "store")
     /\ UNCHANGED <<toolCalls, retries>>

WriteBack(w) ==
  /\ At(w, "store")
  /\ status' = copy[w].status
  /\ toolCalls' = copy[w].toolCalls
  /\ retries' = copy[w].retries
  /\ copy' = [copy EXCEPT ![w] = NoCopy]
  /\ Goto(w, copy[w].then)
  /\ UNCHANGED <<lease, deployment, record, attempt, outcome, calls, cancelled>>

Reserve_AsUnlimited(w) ==
  /\ At(w, "reserve")
  /\ \/ toolCalls < MaxToolCalls /\ Reserved(w, "marker", toolCalls + 1, retries)
     \/ Goto(w, "marker") /\ UNCHANGED <<toolCalls, retries, copy>>
  /\ UNCHANGED <<lease, status, deployment, record, attempt, outcome, calls, cancelled>>
Reserve_AsOffByOne(w) ==
  /\ At(w, "reserve")
  /\ \/ toolCalls <= MaxToolCalls /\ Reserved(w, "marker", toolCalls + 1, retries)
     \/ Goto(w, "ok") /\ UNCHANGED <<toolCalls, retries, copy>>
  /\ UNCHANGED <<lease, status, deployment, record, attempt, outcome, calls, cancelled>>

(* reserve_tool_call_durable.  If the budget is exhausted or the save      *)
(* fails, the result has no "error": a success for the executor.           *)
Reserve(w) ==
  /\ At(w, "reserve")
  /\ \/ toolCalls < MaxToolCalls /\ Reserved(w, "marker", toolCalls + 1, retries)
     \/ Goto(w, "ok") /\ UNCHANGED <<toolCalls, retries, copy>>
  /\ UNCHANGED <<lease, status, deployment, record, attempt, outcome, calls, cancelled>>

(* The EXECUTING marker, saved with INSERT OR REPLACE: it also replaces    *)
(* the record of another attempt.  If the save raises, the node has failed *)
(* without a call.                                                         *)
SaveMarker(w) ==
  /\ At(w, "marker")
  /\ \/ record' = "executing" /\ Goto(w, "c2")
     \/ UNCHANGED record /\ Goto(w, "error")
  /\ UNCHANGED <<lease, row, deployment, Local, calls, cancelled>>

GateC2_AsNoGate(w) ==
  /\ At(w, "c2")
  /\ Goto(w, "dispatch")
  /\ UNCHANGED <<lease, row, deployment, record, Local, calls, cancelled>>

(* C2: the gate between marker and call.  A cancelled run gets its marker  *)
(* finalised as FAILED (cancelled_before_dispatch), if that save succeeds; *)
(* a lost lease leaves it as it is.                                        *)
GateC2(w) ==
  /\ At(w, "c2")
  /\ \/ SeenValid(w) /\ Goto(w, "dispatch") /\ UNCHANGED record
     \/ /\ SeenInvalid(w)
        /\ Goto(w, "quit")
        /\ \/ UNCHANGED record
           \/ status = "cancelled" /\ record' = "failed"
  /\ UNCHANGED <<lease, row, deployment, Local, calls, cancelled>>

(* _dispatch_action starts the external call. *)
Dispatch(w) ==
  /\ At(w, "dispatch")
  /\ Goto(w, "call")
  /\ issued' = issued + 1
  /\ open' = open + 1
  /\ UNCHANGED <<lease, row, deployment, record, Local, cancelled>>

(* The call returns: it succeeded, or it is reported as failed.            *)
CallReturns(w) ==
  /\ At(w, "call")
  /\ \/ outcome' = [outcome EXCEPT ![w] = "succeeded"] /\ UNCHANGED open
     \/ outcome' = [outcome EXCEPT ![w] = "failed"] /\ open' = open - 1
  /\ Goto(w, "save")
  /\ UNCHANGED <<lease, row, deployment, record, attempt, copy, issued, cancelled>>

(* The node's timeout (wait_for) abandons the call, which may still take   *)
(* effect; the marker stays.                                               *)
CallTimesOut(w) ==
  /\ At(w, "call")
  /\ Goto(w, "error")
  /\ UNCHANGED <<lease, row, deployment, record, Local, calls, cancelled>>

(* The final record, saved whoever holds the run by now.  If the save      *)
(* raises, the marker stays and the node has failed.                       *)
SaveResult(w) ==
  /\ At(w, "save")
  /\ \/ record' = outcome[w] /\ Goto(w, IF outcome[w] = "succeeded" THEN "ok" ELSE "error")
     \/ UNCHANGED record /\ Goto(w, "error")
  /\ outcome' = [outcome EXCEPT ![w] = "none"]
  /\ UNCHANGED <<lease, row, deployment, attempt, copy, calls, cancelled>>

-----------------------------------------------------------------------------
(* _execute_single_node, and the driver around it.                         *)

(* Another attempt, within max_attempts and the run's retry budget. *)
Retry(w) ==
  /\ At(w, "error")
  /\ attempt[w] < MaxAttempts
  /\ retries < MaxRetries
  /\ Reserved(w, "check", toolCalls, retries + 1)
  /\ attempt' = [attempt EXCEPT ![w] = attempt[w] + 1]
  /\ UNCHANGED <<lease, status, deployment, record, outcome, calls, cancelled>>

(* The node is over, with success, or without another attempt (none left,  *)
(* or the retry could not be reserved).  The execution is re-verified      *)
(* (M2), and reserve_step_durable counts the step.                         *)
NodeOver(w) ==
  /\ At(w, "ok") \/ At(w, "error")
  /\ \/ /\ SeenValid(w)
        /\ Reserved(w, IF At(w, "ok") THEN "okRow" ELSE "errorRow", toolCalls, retries)
     \/ /\ SeenInvalid(w)
        /\ Goto(w, "quit")
        /\ UNCHANGED <<toolCalls, retries, copy>>
  /\ UNCHANGED <<lease, status, deployment, record, attempt, outcome, calls, cancelled>>

(* The fenced write after it.  After a success the run goes on to its end  *)
(* or to a later approval.                                                 *)
PersistNode(w) ==
  /\ At(w, "okRow") \/ At(w, "errorRow")
  /\ \/ /\ SeenValid(w)
        /\ status' \in IF At(w, "okRow") THEN {"completed", "awaiting"} ELSE {"failed"}
     \/ SeenInvalid(w) /\ UNCHANGED status
  /\ Goto(w, "quit")
  /\ UNCHANGED <<lease, toolCalls, retries, deployment, record, Local, calls, cancelled>>

(* The end of _drive releases the lease if the task still holds it. *)
Quit(w) ==
  /\ At(w, "quit")
  /\ Goto(w, "idle")
  /\ attempt' = [attempt EXCEPT ![w] = 1]
  /\ \/ holder = {w} /\ Lease!Drop
     \/ holder # {w} /\ UNCHANGED lease
  /\ UNCHANGED <<row, deployment, record, outcome, copy, calls, cancelled>>

(* _heartbeat of the task that holds the run. *)
Heartbeat ==
  /\ status \in {"pending", "running"}
  /\ \E w \in Worker : holder = {w} /\ ~At(w, "idle")
  /\ Lease!Renew
  /\ UNCHANGED <<row, deployment, record, tasks, calls, cancelled>>

TimePasses ==
  /\ Lease!Age
  /\ UNCHANGED <<row, deployment, record, tasks, calls, cancelled>>

(* A process dies: its tasks are gone, its calls and its lease are not.    *)
Crash(o) ==
  /\ place' = [w \in Worker |-> IF w[1] = o THEN "idle" ELSE place[w]]
  /\ attempt' = [w \in Worker |-> IF w[1] = o THEN 1 ELSE attempt[w]]
  /\ outcome' = [w \in Worker |-> IF w[1] = o THEN "none" ELSE outcome[w]]
  /\ copy' = [w \in Worker |-> IF w[1] = o THEN NoCopy ELSE copy[w]]
  /\ UNCHANGED <<lease, row, deployment, record, calls, cancelled>>

Cancel ==
  /\ status \in {"pending", "running", "awaiting"}
  /\ status' = "cancelled"
  /\ cancelled' = TRUE
  /\ UNCHANGED <<lease, toolCalls, retries, deployment, record, tasks, calls>>

(* A later approval of the same run queues it again: it starts from its    *)
(* entry and comes back to this node.                                      *)
Approve ==
  /\ status = "awaiting"
  /\ status' = "pending"
  /\ Lease!Drop \/ (holder = {} /\ UNCHANGED lease)
  /\ UNCHANGED <<toolCalls, retries, deployment, record, tasks, calls, cancelled>>

-----------------------------------------------------------------------------
Next ==
  \/ \E o \in Owner : Claim(o) \/ Crash(o)
  \/ \E w \in Worker :
       \/ BeginPending(w) \/ BeginReplay(w) \/ BeginNothing(w)
       \/ CheckIdempotency(w) \/ GateC1(w)
       \/ Reserve(w) \/ WriteBack(w)
       \/ SaveMarker(w) \/ GateC2(w) \/ Dispatch(w)
       \/ CallReturns(w) \/ CallTimesOut(w) \/ SaveResult(w)
       \/ Retry(w) \/ NodeOver(w) \/ PersistNode(w) \/ Quit(w)
  \/ Heartbeat \/ TimePasses \/ Cancel \/ Approve

Spec == Init /\ [][Next]_vars

-----------------------------------------------------------------------------
(* Properties.                                                             *)

(* A cancellation that was accepted can be undone, if there are several    *)
(* processes, by a reservation that had read the row before.               *)
CancelMayBeUndone == cancelled /\ ~oneProcess

(* However often tasks are taken over, restarted, retried or cut off by a  *)
(* timeout, at most one external call of the action is in flight, has      *)
(* succeeded or has an unknown outcome: only a call reported as failed is  *)
(* followed by another one.                                                *)
AtMostOneOpenCall == open <= 1 \/ CancelMayBeUndone

(* A call that may have taken effect is on record as such as long as the   *)
(* run can still be executed: that is what makes every later holder stop.  *)
OpenCallOnRecord ==
  open > 0 /\ ~cancelled => record \in {"executing", "succeeded"}

(* Within one process, every call was paid for in the durable budget       *)
(* before it was made.                                                     *)
CallsWithinBudget == oneProcess => issued <= toolCalls

(* Within one process, no task passes the last gate before the external    *)
(* call once a cancel request has been accepted.                           *)
Passes(w) == place[w] = "c2" /\ place'[w] = "dispatch"
CancelStopsDispatch ==
  [][oneProcess /\ cancelled => \A w \in Worker : ~Passes(w)]_vars

(* The same of every deployment, as the comments on the gates have it.     *)
CancelStopsDispatchAnywhere ==
  [][cancelled => \A w \in Worker : ~Passes(w)]_vars

-----------------------------------------------------------------------------
(* What holds between the tasks, the lease and the record, in a form that  *)
(* every step preserves.                                                   *)

Claimed(w) == holder = {w}

(* Tasks between the idempotency check and the last gate, tasks behind the *)
(* gate whose call is not over, and tasks that have paid for their call.   *)
Checked(w) ==
  \/ place[w] \in {"c1", "reserve", "marker", "c2"}
  \/ place[w] = "store" /\ copy[w].then = "marker"
Calling(w) == place[w] \in {"dispatch", "call", "save"}
Paid(w) == place[w] \in {"marker", "c2"}

(* Every task has a generation that was granted. *)
TasksAreOld ==
  /\ \A w \in Worker : place[w] # "idle" => w[2] <= epoch
  /\ \A w \in holder : w \in Worker /\ w[2] <= epoch

(* Within one process no row is held between two statements, and nothing   *)
(* takes back a cancellation.                                              *)
CancelledStays ==
  /\ status = "cancelled" => cancelled
  /\ \A w \in Worker : place[w] = "store" => ~oneProcess
  /\ \A w \in Worker : copy[w].status = "cancelled" => cancelled
  /\ cancelled /\ oneProcess => status = "cancelled"

(* At most one task is behind the gate, and `open` counts its call, or the *)
(* call of a task that has gone.                                           *)
OneCaller ==
  /\ open \in {0, 1}
  /\ \A v, w \in Worker : Calling(v) /\ Calling(w) => v = w
  /\ \A w \in Worker :
       /\ At(w, "dispatch") => open = 0
       /\ At(w, "call") => open = 1
       /\ At(w, "save") => outcome[w] \in {"succeeded", "failed"}
       /\ At(w, "save") => open = IF outcome[w] = "failed" THEN 0 ELSE 1

(* Up to a cancellation, a call is on record, and no task that holds the   *)
(* run is on its way to another one.                                       *)
CallIsKnown ==
  ~cancelled =>
    /\ open = 1 \/ (\E w \in Worker : Calling(w)) => record \in {"executing", "succeeded"}
    /\ \A w \in Worker : Claimed(w) /\ Checked(w) =>
         open = 0 /\ \A v \in Worker : ~Calling(v)
    /\ \A w \in Worker : Claimed(w) /\ At(w, "c2") => record = "executing"

(* Within one process, a call that has not been made yet is paid for.      *)
CallIsPaid ==
  oneProcess =>
    /\ issued <= toolCalls
    /\ \A w \in Worker :
         \/ At(w, "dispatch")
         \/ ~cancelled /\ Claimed(w) /\ Paid(w)
         => issued < toolCalls

IInv ==
  /\ TypeOK
  /\ TasksAreOld
  /\ CancelledStays
  /\ CancelMayBeUndone \/ (OneCaller /\ CallIsKnown)
  /\ CallIsPaid
=============================================================================
