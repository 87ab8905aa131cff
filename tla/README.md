# TrafficMind: a verification project

TrafficMind analyses road traffic events and runs *workflows* about them: durable
sequences of nodes that retrieve knowledge, ask models for advice, ask a human for approval
and call external tools (notify the police, dispatch a patrol, publish a message). This
directory holds TLA+ models of its execution core and of the components around it, the TLC
runs that check them, and proofs that TLAPS checks.

All paths below are relative to `src/backend/` unless they start with `src/`.

## 1. Inventory

### 1.1 The execution core (modelled)

| Part | State | Operations |
|---|---|---|
| Run driver, `workflow/run_driver.py`, `recovery.py` | per process: owner id, its tasks and their heartbeats; on the row: `driver_owner`, `driver_lease_until`, `driver_generation` | poll, claim, `_drive` (pending, running, other), heartbeat, release, recovery of a stale run |
| Executor, `workflow/executor.py`, `state.py` | per execution: a copy of the run (`TrafficWorkflowState`), `_lease_lost`, the driver context | `start`, `resume`, `execute_created_run`, `cancel`, three approval decisions, `retry_node`; the node loop with attempts, timeouts, gates and persistence |
| Nodes, `workflow/nodes/` | fields of the state: pending approval, approved actions, node outputs | `execute_action`, `execute_human_approval`, `execute_wait`, `execute_close`, `execute_risk_gate`, computing nodes |
| Repository, `workflow/repository.py` | SQLite: `workflow_runs`, node runs, events, approvals, action records, definition versions | `save_run` (whole row), `fenced_update_run` and the other compare-and-set statements, `save_action_record` (INSERT OR REPLACE), claim transactions |
| Budget, `planning/budget.py` | the lineage inside `state_json`: limits and usage of steps, tool calls, retries, replans, model calls, active time | `reserve_*_durable`: read the row, change it, save it; active segments |
| HTTP API, `workflow/api.py`, `planning/api.py` | none of its own | start, resume, cancel, retry, approvals; plan, execute, replan |
| Adapter, `planning/adapter.py` | none | a plan becomes a definition: a gate in front of every action of high risk |

How they interact. A *template* run is started by POST /start and executed inside the
request: its generator is the server-sent event stream. A *planning* run is only saved
(`driver_managed=1`); a RunDriver in some process claims it and executes it in a task.
A gate leaves a run AWAITING_APPROVAL and ends its execution. An approval of a template run
keeps it waiting for POST /resume; an approval of a driver-managed run puts it back to
PENDING, and the driver executes it again from its entry node, past what has been done,
because action records and approved steps are durable. Cancel, approve, reject and retry are
handlers that read the row, change it and save it. Several processes may share the
database; within one, everything but the tools runs in one event loop.

What makes it hard:

- an execution works on a copy of the row and writes it back later; between its reads and its
  writes another execution, a handler or another process may have written;
- a lease can run out under a healthy holder, the same process may claim a run twice, and a
  process can die between any two statements, with an external call in flight;
- an external call cannot be taken back: retries, restarts, recoveries, takeovers and timeouts
  must not repeat it, and a cancellation must stop it;
- an approval is for one action, but survives restarts, edits, other approvals and retries.

### 1.2 Around the core

| Part | State and operations | What makes it correct | Module |
|---|---|---|---|
| Wait scheduler, `workflow/wait_scheduler.py` | claims due PAUSED runs by setting the status column to `claimed`, rewrites the row and resumes, releases old claims | a due run leaves its wait, not before its time, whoever dies in between | `WaitScheduler` |
| Definitions and conditions, `workflow/definition.py`, `condition.py` | versioned definitions; a small condition language | a run keeps the version it was started with; what was validated can be evaluated | `Definitions` |
| Planning continuation, `planning/continuation.py`, `assessment.py`, claims in `repository.py` | observation, critic, redesign and assessment claims, child runs, lineage | one child per run; budgets inherited and never exceeded; each decision put to the provider once; completed steps stay completed | `Continuation` |
| Provenance, `planning/decision_provenance.py` | reads rows only | never says more than happened | `Provenance` |
| Planner, validator, compiler, `planning/planner.py`, `validator.py`, `proposal_compiler.py`, `revision.py` | one request; revisions of a plan | accepted plans are valid and walked in order, each risky action behind its gate | `PlanCompiler` |
| Decision context, `planning/context_assembler.py` | reads rows only | system facts and the failure are not crowded out | `DecisionContext` |
| Case memory, `case_memory/` | cases built from runs, binding and facts | a case tells how its run ended | `CaseMemory` |
| Grounding, `grounding/assembler.py`, `regional/historical.py` | reads event, binding, history, knowledge, cases | every part is about the event as it was during the request | `Grounding` |
| Collaboration, `agent/collaboration/` | task graph, budget, rows, events | fusion is last; the arbiter is before it; a run ends in a legal status | `Collaboration` |
| Collaboration page, `src/frontend/src/components/collaboration/` | selection, runs shown, requests and stream under way | the page at rest shows what is stored | `RunView` |
| Memory, `memory/` | items, event threads, session state | one active thread; facts stay in theirs; the best source wins | `Memory` |
| Regional knowledge, `regional/repository.py`, `resolver.py` | places, names, bindings | a name means one place of a region; bindings stay in their region | `Regional` |
| Documents and index, `knowledge/service.py`, `rag/v2/` | rows, chunks, vectors per model, the active collection | active documents are searchable; a switch of collections leaves out none but the failed | `KnowledgeIndex` |
| Simulation, `simulation/` | run, events, snapshots in memory and in rows | the rows never refer to events that are not there | `Simulation` |
| Chat agent, prompts and clients, chat storage, observability, evaluation | per request, single upserts, read-only views | no interleavings of their own | none, see section 7 |

How these interact with the core. A run that ended is handled by `Continuation`, whose child is an
ordinary driver-managed run of another version (`Definitions`), its plan revised by the operators
of `PlanCompiler`; what the provider is shown is a `DecisionContext`, what was decided is reported by
`Provenance`. A run with a wait node is resumed by the `WaitScheduler`, or handed to the driver. An action
node may act on a simulation. Cases are built from ended runs, offered to later events by
`Grounding`, which needs the names and bindings of `Regional`. A collaboration run recalls and writes
`Memory` and is followed by the page of `RunView`.

Shared state among them is a row at a time, so that each component is a module over the rows it uses;
where two interact through more than one row they are composed: `Provenance` extends `Continuation`,
`Grounding` extends `CaseMemory`, `RunView` has the part of a collaboration run that its client sees.

## 2. Plan

Done, in the order of importance: `ExclusiveLease`, `RunLease`, `ActionDispatch`, `WorkflowRun` with their
proofs; then `Continuation` and `Provenance`, `PlanCompiler`, `WaitScheduler`, `Definitions`, `Regional`, and the
services around them. Eight modules of proofs: `RunLease_proof`, `ActionDispatch_proof`, `WorkflowRun_proof`;
`Continuation_proof`; `PlanCompiler_proof` (`PlanCompiler`, `DecisionContext`); `Planning_proof` (`Provenance`, `CaseMemory`,
`Grounding`, and the composed run `MCPlanning`); `Knowledge_proof` (`KnowledgeIndex`, `Memory`, `Regional`); and `Services_proof`
(`WaitScheduler`, `Definitions`, `Collaboration`, `Simulation`, `RunView`, and the composed run `MCServices`). `Planning_proof`
extends the two before it and `Services_proof` extends `Knowledge_proof`, so that components proved about in one of these
two groups have no names in common.

What would add most next: `WaitScheduler` composed with the executions of `WorkflowRun`; parallel agent
groups; the contents of tool results.

## 3. The modules

### ExclusiveLease
A grant that can lapse: `holder`, `epoch` and `health` ("live", then "late" while clocks can
disagree, then "lapsed"). `Grant` needs a lease that is free or no longer live and takes a new
epoch; `Renew` needs one that has not lapsed. `RunLease` implements it, `ActionDispatch` uses it
in place of the lease columns.

### RunLease
One driver-managed row. State: the status column, the three driver columns (the lease as the
time that remains), whether any node run has been recorded, and for each process whether it is
alive and whether it is between the two statements of `claim_driver_run`. An execution is the
pair of owner and generation that `set_driver_context` arms; for each the model has the statement
it stands before, the status in its copy, whether its heartbeat is still looping, and the history
flag `stale`: somebody else has written the row since it read it.

One action is one SQL statement and the Python up to the next. Every statement that compares the
lease with "now" carries a clock value computed up to `Lag` ticks earlier, since the code
computes it before it opens the connection. `Drive` to `Finish` follow `_drive`,
`execute_created_run`, `_safe_replay`, `resume` and `_execute_definition`; `Gate` is the check
before each node, `NodeReturn` the one after it. Handlers (`Cancel`, `Approve`, `Reject`, `Replan`, `Retry`)
and the reservations of the budget inside a node (`Reserve`) are two actions: they read the row, and
`WriteBack` saves the whole of it, status included, without the fence. Between the two the event
loop of their process does nothing else (`busy`, `Idle`), the other processes go on, and whoever writes the row
makes the reader `late`. A write that comes late, or a replan that makes a run failed that had not failed, sets the history
variable `torn`: from then on the row may say anything, RUNNING over CANCELLED included, and the
properties of the row claim nothing more; the lease columns are not among what these writes replace, and
`LeaseIsExclusive` holds all the same. The cursor and the attempt that `retry_node` writes are not followed;
a request to resume a driver-managed run is left to `WorkflowRun`. A new process has a new owner id, so that
`Crash` has no restart.

### ActionDispatch
One action node of a driver-managed run. Each task goes through `execute_action`: the idempotency
check, gate C1, the reservation, the EXECUTING marker, gate C2, the call, the final record; around
it are the attempts of `_execute_single_node` with their own reservation, the write after the
node, and what a new holder does with the run (`BeginPending`, `BeginReplay`, `BeginNothing`).
Every save on the way can fail. `oneProcess` is chosen at the start: within one process there
is no suspension between the read and the write of `_reserve_durable`; between processes there is
(`Reserved`, `WriteBack`). `open` counts the calls in flight, succeeded or of unknown outcome:
a timeout abandons a call, it does not undo it.

### WorkflowRun
One run and one event loop. An execution (a stream or a driver task) has its copy `mem` of the row
and is suspended before its first write (`start`), before or in a node (`enter`), in an external
call (`call`), or behind the node (`after`). The definition is a sequence of nodes of six kinds.
An approval names a *key*: the step id of an action, or its type in templates. `row.pending` is
the question a gate has asked; `row.approved` the keys of the last decision; `row.waited` the one
entry of `node_outputs` that a wait node looks for (every node that succeeds replaces the whole of
`node_outputs`, executor.py:858). `holder` is the lease, which does not run out here: expiry,
takeover and recovery are in the other two modules. The claim and the first write of
`execute_created_run` are one action, because there is no suspension between them that another
action could use. `retry_node` with a node id the definition does not have is left out: the loop
then ends at once.

### Continuation, Provenance
A set of runs of one plan. A run has a status, the copy of the lineage's usage in its row, markers of
its critic, redesign and assessment, the pointer to its child and the version of its plan. Processes handle
a run that ended: the request of a user, the driver's assessment. `Read`, `ClaimCritic`, `Review`,
`Decide`, `ClaimDraft`, `Draft`, `Revise`, `Reload`, `Cutover`, `ClaimAssessment` and `CompleteAssessment`
follow `explicit_replan` and `assess_terminal_run`; each is one transaction or one call of the provider. A
process may crash between any two. `OtherRun` is any other run that takes a version of the plan: it takes
its number in one step here, as within one server process, and `Definitions` takes it apart.
`Provenance` adds what the report of `decision_provenance.py` says, in three functions of the rows, and
as history which calls really went out.

### PlanCompiler
Three ways to a plan (rules, a model's proposal, `auto`, which falls back to the rules), the
validator, revisions that carry completed steps, redesigns that compile new ones behind them, and `Walk`, the
path `_determine_next_node` takes through the graph that `plan_to_definition` and
`plan_to_child_definition` make of it. Identifiers are kind, slug and number, since their uniqueness
is what compiler and validator are about; texts only tell duplicates apart. `Picked`, which keeps some elements of a
sequence in their order, is a recursive function and not the library's fold, so that it can be proved about.
`PlanAssumption` says that agents and actions are finitely many, that the registry has one entry for a name, and that saving the
result is not of high risk.

### WaitScheduler
One run with its waits, the two places where its status is stored (the column and `state_json`), the timer
columns, and the executions of a user's resume and of the scheduler. The statements of a pause and of a scan
are one after the other without a suspension (`sync`), but the process may die between them.

### Definitions
The rows of definitions and versions, and the runs bound to them. `Begin`, `Freeze`, `SaveRun` and
`SaveDefinition` are the statements of the handlers; within one process they are not interrupted,
processes interleave. `Eval` and `ValidCondition` are the condition language and its validator, on definitions
with gates (`MCGraphs`).

### CaseMemory, Grounding, DecisionContext
`CaseMemory` has events, their bindings, runs and the builders of cases, each of which reads the run,
the place and the facts in three steps. A run can change after its end: `RetryNode` dates it, the stream of a
`Resume` completes it again or calls, `Replanned` makes it failed, and a handler or a reservation of another
process writes back what it read before (`WriteOver`). All but the first set the history field `overrun`: the case
of such a run keeps what the row no longer says, and `CaseIsHowItEnded` leaves it out. `Grounding` adds a request that reads the event and everything
about it in turn. `Offset` is the difference of the server's local time from UTC: `createdAt` is local,
`completed_at` is UTC, and the query compares them as they are. `DecisionContext` lets a run leave its
rows node by node, and has twelve kinds of evidence, ranking, packing and the caps of each trust class, with
sizes in hundreds of characters as the code's truncation leaves them. The code sorts a list by a key whose last
part is unique; the model has the set of the sources and takes the one that no other outranks (`Best`), a round of the
loop of `pack_evidence` at a time (`Consider`). `ContextAssumption` is that a node may take one attempt, and that attempts,
agents and memories are numbers.

### Collaboration, RunView, Memory
`Collaboration` has the streams of one session, each with its tasks and rows; a stream can be interleaved,
closed or die at every event it sends. `RunView` is the page: the stream, which may split events between
chunks and break, the requests for details, which may answer in any order, and the list of the session. `Memory`
has the runs of a session between recall and write. All are driven by one event loop.

### Regional, KnowledgeIndex, Simulation
`Regional`: importers validate a pack and commit it later; the server resolves and binds in between.
`KnowledgeIndex`: one job at a time over rows, chunks and vectors, each write of its own, with
failing embeddings and restarts under another model. `Simulation`: memory and rows, commit by commit.

## 4. The runs

| Run | What it shows | Bounds |
|---|---|---|
| `run_lease` | safety of the lease and the fence; refinement of `ExclusiveLease` | 2 processes, 2 generations, lease of 2 ticks, clocks up to 1 tick late; not beyond a torn write (below) |
| `run_lease_live` | a pending run is claimed; the run of a dead holder is claimed again | 2 processes of which 1 stays up and has the handlers, 2 generations, no reservations |
| `action_dispatch` | one open call, on record, within the budget, none after a cancellation | 2 processes, 2 generations, 2 tool calls, 1 retry, 2 attempts |
| `workflow_run` | only approved calls, each once; driver tasks respect the end; a plan with one gate ends | 2 executions, 2 templates, 2 plans, 2 keys, 2 attempts, 2 resume or retry requests |
| `planning` | the four parts of planning, and cases, grounding and decision contexts: one child and one review per run within the budget, plans valid and walked in order, reports and contexts that are true | see below |
| `services` | the eight services of section 1.2, one at a time | see below |
| `version_overwritten` | section 6 | 2 servers, 3 versions, 2 runs |
| `heartbeat_stops`, `cancel_undone`, `cancelled_overwritten`, `risk_gate`, `two_gates` | section 6 | as above |

Why the bounds are enough to be interesting. Every conflict the fence has to exclude is between an
execution and its successor, of another process or of the same one (two generations); the proofs
below have no bound. A third generation adds a second stale execution, which differs
from the first in nothing the statements look at. Two calls and one retry in the
budget are enough to run out of either. The two plans have one gate and two gates; the
templates have the risk gate, and a wait behind an action; two keys are what it takes for one
approval to replace another, and two requests are what it takes for a second execution to overlap
with the first and for a node to be put back in between. `MaxGen` and `MaxEpoch` bound counters
that the code does not bound, `MaxManual` the number of requests. In `run_lease` the constraint
`NotTorn` ends the exploration behind a write that replaces what it has not read: the
properties of the row say nothing more there, and that the types and the lease survive it is proved.
`run_lease_live` leaves out reservations and requests to the process that may crash (`Small`): the properties are
about what the process that stays up does.
Deadlock is not checked: a run that has ended stops.

`planning` and `services` put modules that share no state under one next-state relation: `part` is chosen in
the initial state and says which of them moves, the others keep their initial state, so that the states
are the sum and not the product. `planning`: `Continuation` has one process (several handlers, but no two replans of one
parent at the same time: see the hazard at continuation.py:282), 3 runs of 2 steps, 2 versions and every budget small
enough to run out; `PlanCompiler` proposals of 3 items with 2 revisions (a redesign of a redesign); cases
of 1 run and 1 event at 1 place (`OfOneEvent`), with 2 builders, the second of which is used only beside the first, since
they differ in name alone (the constraint `NotOverrun` ends the exploration of a run that was overrun, of which nothing
more is claimed); grounding 2 events at 2 places, 1 request, 1 fault, and local time one hour ahead of UTC; `DecisionContext` 3 nodes,
since two fill what one leaves of a cap, with 1 or 3 attempts. `services`: waits for an event and then for a timer,
with two crashes; 2 documents in 2 texts under 2 models with 1 failure and 1 restart; 2 streams, 2 domain
agents, and a budget of 2 calls, which ends a run early; 3 runs of a session (two to open threads and one to come
late); 2 injected events and 2 workflows; 2 runs on a page with one event under way; 1 server
with 3 versions and 3 runs, 2 importers with packs that share, add and spell names differently.

Fairness. `RunLease` (`FairSpec` in `MCRunLease`): a process that stays up keeps polling, its
tasks go on, since each node runs under a timeout, and its heartbeats; time passes. Nothing
is assumed of a process that may crash, nor of handlers. `WorkflowRun`: the driver polls, an execution that is not
thrown away goes on, and a human answers a question in the end (the last is an assumption about
users, and the reason why only approvals, not rejections or cancellations, are fair). `WaitScheduler`: the loop scans, what it has begun
goes on, executions go on, since nodes run under timeouts, and the timer elapses; crashes are
bounded and nothing is assumed of the user or of the release of old claims, which no run needs to be woken,
since a scan also takes up claims it finds.

Every property has a mutation in the module it is about (the definitions named `..._As...`): a slip
the code could contain, with which TLC finds the property violated.

## 5. What is proved

`RunLease_proof` proves for every set of processes, any number of generations, any lease length
and any lag up to it, from the four assumptions on the constants in `RunLease`:

- `TypeCorrect` and `Invariant`: `Spec => []TypeOK`, `Spec => []IInv`;
- as long as no unfenced write has replaced a row it had not read (`torn`): `NoLostUpdate`
  (`FencedWriterIsCurrent`), `HolderIsInformed` (`HolderKnowsTheRow`, a part of the
  invariant that no run checks on its own), and `TerminalStays`, `WaitIsForAHuman`, the two action
  properties of the run;
- whatever is written: `ReleaseIsOwn`, and `LeaseRefines`: `RunLease` implements `ExclusiveLease`.

The argument. That whoever passes the fence is current is not inductive. What is needed is
(`IInv`): a running task has a generation that was granted and a live process (`TasksAreOld`);
and, unless a write was torn, while a process reads its generation back, its tasks are all older, and if it still holds the
lease nobody but cancel has touched the row (`ClaimIsFresh`): this is what makes
the second statement of the claim harmless; the position of the holder determines the status in
the row and in its copy, up to a cancellation (`HolderKnowsTheRow`); and a stale copy is only in an
execution that has lost the run or whose run is cancelled, except where the awaiting row is
written a second time (`StaleOnlyIfLost`). A claim sets a new generation, so all older executions
lose `IsOwner` at that step; a handler that writes what it has just read moves the status away from where the
holder can be, or is a cancellation, which the fence refuses; one that is late sets `torn`. The action properties
follow from the invariant step by step. That they need the exception is a fact about the code: see `cancel_undone`
and the entries below it in section 6.

`ActionDispatch_proof` proves for every set of processes, any number of generations, attempts
and any budget, from the two assumptions in `ActionDispatch`:

- `TypeCorrect`, `Invariant`;
- `OneOpenCall` (`AtMostOneOpenCall`), `CallRecorded` (`OpenCallOnRecord`);
- `BudgetHolds` (`CallsWithinBudget`), `CancelIsHeard` (`CancelStopsDispatch`).

The argument. `open <= 1` says nothing of the task that is about to call. What carries it is
`CallIsKnown`: up to a cancellation, a task that holds the lease and is between its idempotency
check and gate C2 excludes every open call and every other task behind the gate. It is true after
the check because a call that may have taken effect is on record (the record is what the check
reads) and because a claim stops the predecessor: a task that has lost the lease cannot pass C2,
and one that is behind C2 already has left an EXECUTING record that stops its successor. Once
behind the gate a task may lose the lease, so `OneCaller` speaks of all tasks, holders or not.
`CallIsPaid` adds that a task that has reserved keeps its reservation until it has called, which
needs one process: between two, a reservation is a lost update. `CancelledStays` says that
within one process nothing takes a cancellation back, `TasksAreOld` that a new claim
finds no task of its own generation. The first two parts are claimed only while no other process
can have undone a cancellation (`CancelMayBeUndone`), which is what `cancel_undone` shows to be
necessary.

`WorkflowRun_proof` proves for every workflow that `PlanAssumption` admits (what a gate asks for is a
key, every node but a close node has a successor), any number of executions, attempts and requests:

- `TypeCorrect`, `Invariant`;
- `ApprovalHolds` (`OnlyApprovedCalls`), `CalledOnce` (`AtMostOneCall`);
- `EndIsRespected` (`DriverRespectsTheEnd`).

The argument. An execution looks at its own copy, not at what humans have decided: `ApprovedIsGranted`
bounds the approvals in the row and in every copy, however old, by what was granted. `CallIsRecorded`
says that a call in flight is the one open call of its action and its record says EXECUTING; since
there is no suspension between the check of the record and the call, no other
execution can begin it. `OnlyTheDriver` says that, unless somebody resumes or retries, every
execution is a task of the driver, and while one holds the lease the run is running or cancelled;
hence a task can save its copy only over a running row. `WellPlaced` supports the type invariant:
no execution goes on behind a close node, and a question belongs to a gate, which has a successor.

`Continuation_proof` proves for any number of processes, runs, steps and any budget, from the three
assumptions in `Continuation`:

- `TypeCorrect`: no run records more replans or provider calls than its lineage may have;
- `VersionsAreOwn` (`OwnVersion`): a run of the lineage shares its version with no run outside of it, and a
  child is newer than its parent.

The argument for the second (`VersionInv`): no version in a row is beyond the table's latest, and the
transaction that creates a child takes the next. The last step of a handler writes back a copy of its parent's
row, read before; what makes the invariant inductive is that the copy keeps what the row has from its creation,
version and parent (`Stamp`), which no step changes. It rests on every start taking its number in one step, which holds within a server process; `version_overwritten` shows what happens between two.

It also proves, for any number of processes,

- `CompletedStepsAreKept` (`CompletedStepsStay`): what a run completed is not executed again by its child,

and for one process that may die anywhere (`OneProcess`), any steps, runs and budget:

- `SpendIsBounded` (`LineageSpend`), `EachRunOnce` (`OncePerRun`).

All rest on what a step of a handler does to the row of its run and to what it has read (`Effect`, one lemma for each
action). For the first (`CarryInv`), a run's completed steps are fixed once it has ended, so that the copy a cutover writes back
has the same ones (`Core`). For the others (`BudgetInv`), the runs form a chain (`Chain`) and only its last one is
replanned or assessed; its row has what the handler copied (`AtTheEnd`); and every call, also the one under way,
is already in its usage (`Budget`), which a child takes over. `EachRunOnce` needs one process: two that have read the
same parent can each give it a child, since `Cutover` does not look at the parent's pointer again, and
the row one of them writes back can undo a claim of the other.

`PlanCompiler_proof` proves, for any agents and actions, proposals and recommendations of any size and any number of
revisions (`PlanAssumption`):

- `PlanInvariant`, `PlanTypes`;
- `WalkFollowsThePlan` (`WalkIsThePlan`), `PlansStayValid` (`PlansAreValid`);

and for any kinds of nodes, length of a run, attempts, agents and memories (`ContextAssumption`):

- `ContextInvariant`, `ContextTypes`, `DecisionsInformed` (`DecisionsAreInformed`).

The argument for plans (`PlanInv`). Every plan is a chain: each step depends on the one before it, except the carried ones, which
come first (`IsChain`). `ChainIsAcyclic` and `WalkIs` are what makes this worth having: the validator accepts it, and the
walk takes exactly the steps that are not carried. A run that fails has completed the steps that follow the carried ones, up
to an action (`Chained`), so that what a revision carries comes first again (`RevisionIs`), and a redesign puts its new steps
behind it (`RedesignIs`). New identifiers are unique because a number is the count of the same kind and slug so far, from
the highest that a kept step has (`NumberIs`, `SeedIs`). What the compiler joins is described piece by piece (`Piece`,
`PieceConcat`): the gate of an action of high risk stands directly before it (`GateIsBefore`), hence what is built passes the
validator (`BuiltIsValid`), and where a revision carries the gate and not its action, the action depends on it.

The argument for decisions (`ContextInv`). What a run leaves is finite (`CollectedIs`), and of finitely many entries one
is outranked by none (`BestIs`, the one that the fewest outrank), so that every round of the packing takes one entry away and
in the end none is left (`PackReaches`). Whatever a run leaves, a pack holds of each class no more than its share and drops a
system fact only when the facts together with the shares of the other classes exceed the budget (`Kept`): this is why
`SystemFactsKept` asks the facts to need no more than the rest, and why a single untrusted source cannot push one out
by being ranked before it. For `FailureIsShown`: a run fails at its last node; the row of that node and its
first error are the explicit evidence, no other source reaches their relevance (`RelevanceIs`), each is the first of its
type, so that the two rank before everything else (`ExplicitRankFirst`), and two entries of at most four hundred characters fit into the share of
their class in every budget in which they are asked for (`PackShows`).

`Planning_proof` proves

- `ProvenanceTypes`, `ReportsAreTrue` (`ProvenanceIsTrue`) for one process, any lineages, budgets and number of graders;
- `GroundInvariant`, `GroundTypes`, `CasesTellTheEnd` (`CaseIsHowItEnded`) for any events, runs, builders and documents;
- `ContextsAreOfTheirRequests` (`ContextIsOfTheRequest`) for any difference of local time from UTC, of the stamps as
  they are stored (section 6 says what this leaves open);
- of the run that composes the parts: `PlanningRunsItsParts`, `PlanningTypes` (`TypesOK`) and `PlanningIsSafe`, every invariant
  of `planning` at once, for one process.

The arguments. A step of the composed run is a step of one part and leaves the variables of the others alone, so that each part
behaves as its own specification says and the theorems about it hold in the run. The report is a function of the markers in the rows, the calls are history; `ProvInv` ties them
together: a completed decision was asked for, and one that was asked for was claimed (`Marked`), for assessments as
long as one driver went to assess the run (`Graded`). It uses what `Continuation_proof` says of the
steps, and one process, where no copy written back undoes a claim. A case is written from three reads. `CaseInv` says that what a builder holds
still tells how its run ended (`Tells`, `AtWork`), because a run that ended under the driver keeps its
status, its date once it has one and, when it completed, its call (`Lasts`), until it is overrun: the stream of a
resume, a replan or another process may change a run after its end, and nothing is claimed of those, nor of template
runs. For contexts, `RequestInv` says of each part that it is about a place the event was seen to have during the
request, and of history and cases that they are stamped before a date it was seen to have.

`Knowledge_proof` proves, for any documents, contents, models, restarts and failures (`IndexAssumption`):

- `IndexIsComplete` (`ActiveIsSearchable`), `SwitchLeavesOnlyFailures` (`OnlyFailuresAreLeftOut`);

for any runs of a session and any values:

- `MemoryTypes`, `MemoryInvariant`, `MemoryConsistent` (`MemoryIsConsistent`);

and for any packs, places, texts, regions and importers:

- `RegionalTypes`, `NamesInvariant`, `NamesResolve` (`NameIsUnambiguous`), `BindingsHold` (`BindingInRegion`).

The arguments. A job's collection is the active one unless the model has changed, and then the job
was given every active document; the documents it is done with are in its collection with the text of their rows,
those it leaves alone were there before (`AtWork`). A process that dies leaves every document of its job among those
that are hurt. Of the memory (`MemoryInv`), an item comes from a run that is over and keeps that run's thread or none, and
besides "one fact lives" it needs that a superseded fact has a live one of no worse source (`BetterFact`), since
a write compares with what is live and not with what was. Of the regions: a pack is validated against a database that may have changed when it is written.
Within a pack a name has one owner (`PacksConsistent`, true since validation and nothing changes a
pack), against the rows every alias is checked again inside the transaction; together they
keep `OneOwner`. A binding is checked in its transaction too, and a place never leaves its region.

`Services_proof` proves

- `WaitTypes` for every path, and `WakesAreTimely` (`WokenInTime`) for every path of which a timer is the last wait
  (`TimerIsLast`), with any number of crashes;
- `DefInvariant`, `DefinitionsAreHeld` (`DefinitionsHold`) for one server process (`OneServer`), any definitions, graphs and drafts:
  between two, `version_overwritten` refutes it;
- `CollabInvariant`, `RunsEndInOrder` (`RunEndsInOrder`) for any domain agents, budget of calls, streams and
  events, as long as the loop has the five rounds a run can need (the code has six);
- `SimInvariant`, `SimTypes`, `HistoryStaysWhole` (`HistoryIsWhole`) for any events, workflows and number of snapshots;
- `ViewInvariant`, `ViewIsTrueAtRest` (`ViewAtRest`) for any runs and any length of what is under way;
- of the run that composes all services: `ServicesRunTheirParts`, `ServicesTypes` (`TypesOK`) for one server process, and
  `ServicesAreSafe`, every invariant of `services` at once, for one server process and paths with `TimerIsLast`. Its
  `MCSpec` states fairness of the composed steps; the safety part of `WaitSpec` follows from it (`WaitSafety`), its
  fairness would need `ENABLED`.

The arguments. `WakeInv`: the timer is armed only at the last wait, which no execution leaves for another, and
whatever the scheduler holds, a claim of a dead process included, it took when the timer was due. `DefInv`: versions
are numbered without a gap (`Numbered`), so that the count a handler has read is the latest number, and it stays so until it
has frozen its definition, because no other handler is in between; the version a run is bound to then holds its plan
(`Kept`). `CollabInv`: the graph of tasks changes under the run, but the run can only stand at seven
places (`AtDomain` to `Fused`), each of which determines which tasks have ended how, what the layer holds and
how many layers are spent; hence the loop never ends for want of a layer, and every status is reached
from one the state machine accepts. `SimInv`: a snapshot, in memory or in a row, shows no event it
does not list and lists none without a row (`Shown`); the row of an event is committed before the snapshot that lists it, and
what a restart loads is no more than the rows. Its types
need `SimBound`: the number after the last one there is room for is in no row, so that what a restart loads keeps to
the bound (`LoadedInBounds`), and a handler that found room still has it when it comes to append. `ViewInv`: answers
may come in any order, so the latest request must be the one for what is selected (`LatestCounts`), and the answer to a request made
after the end of a run's stream is the final row; what is selected is always of the session shown (`SessionInv`).

Nearly every induction here is over steps. Where an argument needs more, that a set of numbers has a smallest member or a
finite set of runs a latest one, `SmallestExists` derives it from the well-foundedness of the natural numbers in its
form for sets; the induction theorems that take a predicate as a parameter cannot be used. From it `UpTo` and `Recursion`
derive that the recursive functions of `PlanCompiler` exist and what they are at each number.

Not provable here, and left to TLC: the liveness properties (`PendingRunStarts`,
`CrashedRunReclaimed`, `OneGatePlanEnds`, `DueRunWakes`) and what the violation runs refute. Every other invariant and
action property that a passing run checks is stated by a theorem.

## 6. Where the code does not do what it says

Each is a run that TLC ends with a counterexample.

- `cancelled_overwritten`: an accepted cancellation of a template run is overwritten by its
  stream, because writes without a driver context are not fenced.
- `two_gates`: in a plan with two gates the second decision replaces the first, the run
  restarts from its entry, and the first gate asks again. The run can only end when its active-time
  budget is exhausted, hence the property is stated as safety: an approved step is not asked for again.
- `risk_gate`: the condition of a risk gate reads `_node_outputs`, which nothing sets; a risky event
  takes the automatic branch.
- `cancel_undone`: with several processes, `_reserve_durable` writes the row back with the
  status it read; a cancellation in between is lost and the action is called.
- `heartbeat_stops`: after a safe replay the status column is `paused` until the replayed node is
  over, and the heartbeat of the healthy holder is refused.

- `version_overwritten`: a start has read the latest version number when a replan of another process
  takes the next; the start's INSERT OR REPLACE then replaces the snapshot of the child, which executes,
  or resumes after a wait, a plan that is not its own. If the plan lacks the node the run stands at, the run is
  reported as completed while its row says running.

Others met while modelling have no run of their own. Each was reproduced, or shown to follow from steps that a module has
and its properties except:

- Handlers and reservations of two processes undo each other, not only a cancellation and a call: in `RunLease`, a
  reservation or a handler that has read RUNNING writes it, or its own decision, over any final status the row has taken since
  (`WriteBack`, executor.py:324-338, 363-435, 441-455, budget.py:255-272). state.py:48-50 calls these statuses not convertible.
  `TerminalIsFinal` without its exception is violated in the instance of `run_lease`.
- `POST /runs/{id}/replan` is documented as "对失败/拒绝的 run" (for a run that failed or was rejected, `planning/api.py:440`), but
  `explicit_replan` (continuation.py:274-305) does not look at the status: a RUNNING, CANCELLED or COMPLETED run with a failed action
  among its node runs is given a child and its row is made FAILED by the cutover (repository.py:1017). For a
  rejected run the decision is always not to replan, so that the branch for it at continuation.py:698 is never taken.
- `retry_node` takes a run that has ended (executor.py:441-455, `workflow/api.py:556`), where its answer says "retrying":
  nothing is executed, and the row of a run that the driver completed is dated with the time of the retry (executor.py:991), the
  fenced write having left the date out. A case built before keeps having none and is never offered; one built
  afterwards is dated by the retry. A case of a run that was overrun keeps a status and calls that
  the run no longer has: `CaseIsHowItEnded` without its exception is violated.
- `assembler.py:362` notes "strict_past_completed_cases", but the query (`case_memory/repository.py:230`, `282`) compares
  `completed_at` in UTC with a `createdAt` that `datetime.now()` writes in local time (`tools/db_tools.py:93`): in UTC+8 cases that
  ended up to eight hours after the event are offered to it. `ContextIsOfTheRequest` compares the stamps as stored; with
  `Offset` added to a case's stamp it is violated in the instance of `planning`.
- `rag/v2/indexer.py` promises at lines 12, 66-69 and 92 that a failed rebuild leaves the previous version active. An embedding
  that fails is caught for each document (193-196) and the version is committed all the same (204-210): the incomplete collection
  becomes the active one. Nor is such a document indexed by the next job, since its row has its new checksum already
  (296, 309). `OnlyFailuresAreLeftOut` and `ActiveIsSearchable` except the documents whose embedding failed.
- A correction by the user is said to supersede the fact (`memory/extractor.py:599`, `memory/write_gate.py:176`,
  `docs/PHASE10_MEMORY_V2.md:121`), but the policy has no rule that lets a stable fact come from a correction
  (`memory/policy.py:38-44`): the corrected fact is refused and the old one stays live. The correction itself, if it replaces
  an earlier one, is stored without its thread (`memory/sqlite_repository.py:588-607`) and told in every thread of the session.

See also the notes of the hazards in `PROJECT.json`.

## 7. Not modelled

Of the core: parallel agent groups (they compute, and are one `Task`), the active-time budget and the
budget of steps, events and audit entries, node-run rows except where `DecisionContext` reads them,
the classes of `recovery.py` except as the constant `highRisk` of a run, the content of questions,
results and tool arguments.

Of planning: the loop guard's fingerprints and rejection constraints, retry of a run that has been continued,
prompts, digests and schemas of parameters. Of definitions: parallel branches, comparison operators
other than exists, eq and gte, conditions nested deeper than one level, the migration of named
conditions. Of cases: lessons, the markers of simulated sources, the recovery of the source plan. Of
collaboration: contents and quality scores of results; of the page: statuses in the list, tasks and
results, deletion of sessions. Of memory: ranking, expiry, deletion by the user. Of retrieval: ranking,
query planning, rerankers as numbers. Of the simulation: the traffic model.

Not at all: the chat agent (one sequential request), prompts and model clients (conversion of data), chat
storage (single statements), observability and evaluation (read-only), and pages of the frontend other than
the collaboration workspace.
