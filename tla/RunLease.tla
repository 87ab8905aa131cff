------------------------------- MODULE RunLease -------------------------------
(***************************************************************************)
(* One driver-managed row of workflow_runs, and everything that writes its *)
(* status or its lease: the RunDriver processes that claim it, the tasks   *)
(* they start, their heartbeats, and the HTTP handlers for cancel,         *)
(* approve, reject, retry and replan.                                      *)
(*                                                                         *)
(* Processes interleave between SQL statements: one action is one          *)
(* statement, with the pure Python up to the next one.  The handlers, and  *)
(* the budget reservations of a node, read the row in one statement and    *)
(* write it back in another, without a fence.  No await comes between the  *)
(* two, so the event loop of the process does nothing else (busy); another *)
(* process may write in between, and its write is lost (torn).  An         *)
(* execution is identified by the pair <<owner, generation>> with which    *)
(* set_driver_context arms it.                                             *)
(***************************************************************************)
EXTENDS Integers

CONSTANTS Owner,        \* owner ids of server processes; a restart has a new id
          NoOwner,      \* driver_owner IS NULL
          NoLease,      \* driver_lease_until IS NULL
          MaxGen,       \* bound on driver_generation
          LeaseTicks,   \* lease_seconds
          Lag           \* oldest clock value a statement may carry

ASSUME OwnerAssumption == NoOwner \notin Owner
ASSUME NoLeaseAssumption == NoLease \notin Int
ASSUME MaxGenAssumption == MaxGen \in Nat
ASSUME LeaseAssumption == LeaseTicks \in Nat /\ Lag \in Nat /\ Lag <= LeaseTicks

Worker == Owner \X (1 .. MaxGen)

Status == {"pending", "running", "paused", "awaiting", "completed",
           "failed", "rejected", "cancelled"}
Runnable == {"pending", "running"}
Terminal == {"completed", "failed", "rejected", "cancelled"}

(* Where a task of _drive stands: before which statement, or inside the    *)
(* handler of a node ("node").                                             *)
Phase == {"none", "drive", "load", "first", "open", "replay", "reload",
          "segment", "gate", "node", "persist", "close", "final", "ending"}

VARIABLES
  status,     \* status column (state_json carries the same status)
  owner,      \* driver_owner
  gen,        \* driver_generation
  lease,      \* driver_lease_until minus now, or NoLease
  nodeRuns,   \* workflow_node_runs of the run: none, some, or one of a failed action
  alive,      \* processes that have not crashed
  reading,    \* processes between the claim UPDATE and its SELECT
  phase,      \* per execution: see Phase
  mem,        \* per execution: status in its in-memory state
  hb,         \* per execution: its _heartbeat task is still looping
  stale,      \* per execution: another actor wrote the row since it read it
  busy,       \* per process: between reading the row for a reservation or a request
              \* and writing it back
  back,       \* per process: the status it is then going to write
  late,       \* processes that read the row before it was last written
  torn        \* an unfenced write has replaced what it had not read (history)

row == <<status, owner, gen, lease>>
tasks == <<phase, mem, hb, stale>>
writeBacks == <<busy, back, late, torn>>
vars == <<row, nodeRuns, alive, reading, tasks, writeBacks>>

Business == {"none", "reservation", "request"}
Idle(o) == busy[o] = "none"

TypeOK ==
  /\ status \in Status
  /\ owner \in Owner \cup {NoOwner}
  /\ gen \in 0 .. MaxGen
  /\ lease \in ((-(Lag + 1)) .. LeaseTicks) \cup {NoLease}
  /\ (lease = NoLease) <=> (owner = NoOwner)
  /\ nodeRuns \in {"none", "some", "failed"}
  /\ alive \in SUBSET Owner
  /\ reading \in SUBSET alive
  /\ phase \in [Worker -> Phase]
  /\ mem \in [Worker -> Status]
  /\ hb \in [Worker -> BOOLEAN]
  /\ stale \in [Worker -> BOOLEAN]
  /\ busy \in [Owner -> Business]
  /\ back \in [Owner -> Status]
  /\ late \in SUBSET Owner
  /\ torn \in BOOLEAN

(* save_driver_managed_run *)
Init ==
  /\ status = "pending" /\ owner = NoOwner /\ gen = 0 /\ lease = NoLease
  /\ nodeRuns = "none"
  /\ alive = Owner /\ reading = {}
  /\ phase = [w \in Worker |-> "none"]
  /\ mem = [w \in Worker |-> "pending"]
  /\ hb = [w \in Worker |-> FALSE]
  /\ stale = [w \in Worker |-> FALSE]
  /\ busy = [o \in Owner |-> "none"] /\ back = [o \in Owner |-> "pending"]
  /\ late = {} /\ torn = FALSE

-----------------------------------------------------------------------------
(* The SQL predicates.  A statement compares driver_lease_until with a     *)
(* `now` its caller computed up to Lag ticks (d) before it runs.           *)

(* Mutations: each _As... definition is a slip that the next definition    *)
(* could contain; some property of the project fails with it.              *)
Claimable_AsAtExpiry(d) ==
  status \in Runnable /\ (lease # NoLease => lease + d <= 0)
Claimable_AsNullOnly(d) == status \in Runnable /\ lease = NoLease
Claimable_AsPendingOnly(d) ==
  status = "pending" /\ (lease # NoLease => lease + d < 0)

(* claim_driver_run, list_driver_candidates *)
Claimable(d) == status \in Runnable /\ (lease # NoLease => lease + d < 0)

(* is_driver_owner, and the WHERE of release_driver_lease *)
IsOwner(w) == owner = w[1] /\ gen = w[2]

Valid_AsNoGeneration(w, d) ==
  owner = w[1] /\ status # "cancelled" /\ lease # NoLease /\ lease + d >= 0
Valid_AsNoCancelCheck(w, d) ==
  IsOwner(w) /\ lease # NoLease /\ lease + d >= 0

(* is_driver_execution_valid, and the WHERE of fenced_update_run *)
Valid(w, d) ==
  /\ IsOwner(w)
  /\ status # "cancelled"
  /\ lease # NoLease
  /\ lease + d >= 0

(* heartbeat_driver_lease *)
Renewable(w, d) ==
  /\ IsOwner(w)
  /\ lease # NoLease
  /\ lease + d >= 0
  /\ status \in Runnable

(* Executions that may still write from a copy of the row. *)
Reader == {w \in Worker : phase[w] \notin {"none", "drive", "ending"}}

(* A write of the row by w makes the copies of all other executions stale, *)
(* and what another process is about to write back late.                   *)
WrittenBy(w) ==
  /\ stale' = [v \in Worker |-> v # w /\ (stale[v] \/ v \in Reader)]
  /\ late' = {o \in Owner : ~Idle(o)}

Goto(w, p) == phase' = [phase EXCEPT ![w] = p]
Remember(w, s) == mem' = [mem EXCEPT ![w] = s]

(* fenced_update_run with the status s, then to p or, refused, to q. *)
FencedWrite(w, d, s, p, q) ==
  /\ UNCHANGED <<busy, back, torn>>
  /\ \/ /\ Valid(w, d)
        /\ status' = s
        /\ WrittenBy(w)
        /\ Goto(w, p)
     \/ /\ ~Valid(w, d)
        /\ Goto(w, q)
        /\ UNCHANGED <<status, stale, late>>

-----------------------------------------------------------------------------
(* The driver: poll, claim, start a task.                                  *)

(* _poll_once: the CAS of claim_driver_run. *)
ClaimDriverRun(o, d) ==
  /\ o \in alive \ reading
  /\ gen < MaxGen
  /\ Claimable(d)
  /\ owner' = o
  /\ lease' = LeaseTicks - d
  /\ gen' = gen + 1
  /\ reading' = reading \cup {o}
  /\ UNCHANGED <<status, nodeRuns, alive, tasks, writeBacks>>

(* claim_driver_run reads the generation back in a second statement, and   *)
(* _poll_once starts _drive with it; _drive starts the heartbeat.          *)
ReadGeneration(o) ==
  /\ o \in reading
  /\ reading' = reading \ {o}
  /\ Goto(<<o, gen>>, "drive")
  /\ hb' = [hb EXCEPT ![<<o, gen>>] = TRUE]
  /\ UNCHANGED <<row, nodeRuns, alive, mem, stale, writeBacks>>

(* _drive reads the row and dispatches on its status.  A run found RUNNING *)
(* is a leftover of a dead execution: _recover_running either replays the  *)
(* stale node, which needs a node_run row to know its type, or leaves the  *)
(* run as it is (fail-closed, unknown outcome).                            *)
Drive(w) ==
  /\ phase[w] = "drive"
  /\ Remember(w, status)
  /\ stale' = [stale EXCEPT ![w] = FALSE]
  /\ \/ status = "pending" /\ Goto(w, "load")
     \/ status = "running" /\ nodeRuns # "none" /\ Goto(w, "replay")
     \/ status # "pending" /\ Goto(w, "ending")
  /\ UNCHANGED <<row, nodeRuns, alive, reading, hb, writeBacks>>

(* execute_created_run reads the row again; PENDING becomes RUNNING in     *)
(* memory.                                                                 *)
Load(w) ==
  /\ phase[w] = "load"
  /\ Remember(w, IF status = "pending" THEN "running" ELSE status)
  /\ stale' = [stale EXCEPT ![w] = FALSE]
  /\ Goto(w, "first")
  /\ UNCHANGED <<row, nodeRuns, alive, reading, hb, writeBacks>>

(* Its first _persist_run, and _open_active_segment.  A refused write sets *)
(* _lease_lost, and the next gate leaves the loop.                         *)
FirstPersist(w, d) ==
  /\ phase[w] = "first"
  /\ FencedWrite(w, d, mem[w], "open", "final")
  /\ UNCHANGED <<owner, gen, lease, nodeRuns, alive, reading, mem, hb>>

OpenSegment(w, d) ==
  /\ phase[w] = "open"
  /\ FencedWrite(w, d, mem[w], "gate", "final")
  /\ UNCHANGED <<owner, gen, lease, nodeRuns, alive, reading, mem, hb>>

-----------------------------------------------------------------------------
(* Recovery of a stale RUNNING run.                                        *)

(* _safe_replay persists PAUSED, whatever the outcome, and calls resume(). *)
ReplayPause(w, d) ==
  /\ phase[w] = "replay"
  /\ Remember(w, "paused")
  /\ FencedWrite(w, d, "paused", "reload", "reload")
  /\ UNCHANGED <<owner, gen, lease, nodeRuns, alive, reading, hb>>

(* resume() reads the row; it goes on only from PAUSED or                  *)
(* AWAITING_APPROVAL, with RUNNING in memory.                              *)
ReplayResume(w) ==
  /\ phase[w] = "reload"
  /\ stale' = [stale EXCEPT ![w] = FALSE]
  /\ \/ status \in {"paused", "awaiting"} /\ Goto(w, "segment")
     \/ status \notin {"paused", "awaiting"} /\ Goto(w, "ending")
  /\ Remember(w, status)
  /\ UNCHANGED <<row, nodeRuns, alive, reading, hb, writeBacks>>

(* resume() opens the active segment by writing the row it loaded: the     *)
(* status column keeps the old value until the first node has returned.    *)
ReplaySegment(w, d) ==
  /\ phase[w] = "segment"
  /\ FencedWrite(w, d, mem[w], "gate", "final")
  /\ Remember(w, "running")
  /\ UNCHANGED <<owner, gen, lease, nodeRuns, alive, reading, hb>>

-----------------------------------------------------------------------------
(* The loop of _execute_definition.                                        *)

(* The gate before every node: durable CANCELLED, _lease_lost, or an       *)
(* execution no longer valid all leave the loop.                           *)
Gate(w, d) ==
  /\ phase[w] = "gate"
  /\ \/ Valid(w, d) /\ Goto(w, "node")
     \/ ~Valid(w, d) /\ Goto(w, "final")
  /\ UNCHANGED <<row, nodeRuns, alive, reading, mem, hb, stale, writeBacks>>

(* reserve_tool_call_durable and reserve_retry_durable inside a node, and  *)
(* reserve_step_durable behind one that counts (should_count_step), read   *)
(* the row; WriteBack saves it, with the status that was read.             *)
Reserve(w) ==
  /\ \/ phase[w] = "node"
     \/ phase[w] = "persist" /\ mem[w] # "awaiting"
  /\ busy' = [busy EXCEPT ![w[1]] = "reservation"]
  /\ back' = [back EXCEPT ![w[1]] = status]
  /\ UNCHANGED <<row, nodeRuns, alive, reading, tasks, late, torn>>

(* _execute_single_node returns.  If the execution is no longer valid it   *)
(* raises DriverLeaseLost, and every write on the way out is refused too.  *)
(* Otherwise it records the node run, perhaps in place of an earlier one   *)
(* of the node, and the node has moved the in-memory status: stay running  *)
(* (go to the next node), ask for approval, fail, or (close) complete.     *)
NodeReturn(w, d) ==
  /\ phase[w] = "node"
  /\ \/ /\ ~Valid(w, d)
        /\ Goto(w, "ending")
        /\ UNCHANGED <<nodeRuns, mem>>
     \/ /\ Valid(w, d)
        /\ \E s \in {"running", "awaiting"} : Remember(w, s)
        /\ nodeRuns' \in {"some", nodeRuns} \ {"none"}
        /\ Goto(w, "persist")
     \/ /\ Valid(w, d)
        /\ Remember(w, "failed")
        /\ nodeRuns' \in {"some", "failed", nodeRuns} \ {"none"}
        /\ Goto(w, "persist")
     \/ /\ Valid(w, d)
        /\ Remember(w, "completed")
        /\ nodeRuns' \in {"some", nodeRuns} \ {"none"}
        /\ Goto(w, "final")
  /\ UNCHANGED <<row, alive, reading, hb, stale, writeBacks>>

(* The _persist_run after a node: on to the next node's gate, or out.      *)
Persist(w, d) ==
  /\ phase[w] = "persist"
  /\ \/ mem[w] = "running" /\ FencedWrite(w, d, "running", "gate", "final")
     \/ mem[w] = "awaiting" /\ FencedWrite(w, d, "awaiting", "close", "ending")
     \/ mem[w] = "failed" /\ FencedWrite(w, d, "failed", "ending", "ending")
  /\ UNCHANGED <<owner, gen, lease, nodeRuns, alive, reading, mem, hb>>

(* _close_active_segment writes the awaiting row once more. *)
CloseSegment(w, d) ==
  /\ phase[w] = "close"
  /\ FencedWrite(w, d, mem[w], "ending", "ending")
  /\ UNCHANGED <<owner, gen, lease, nodeRuns, alive, reading, mem, hb>>

(* After the loop, however it was left: persist, and save the event        *)
(* workflow_completed.                                                     *)
Finish(w, d) ==
  /\ phase[w] = "final"
  /\ FencedWrite(w, d, mem[w], "ending", "ending")
  /\ UNCHANGED <<owner, gen, lease, nodeRuns, alive, reading, mem, hb>>

(* The finally block of _drive. *)
ReleaseDriverLease(w) ==
  /\ phase[w] = "ending"
  /\ \/ IsOwner(w) /\ owner' = NoOwner /\ lease' = NoLease
     \/ ~IsOwner(w) /\ UNCHANGED <<owner, lease>>
  /\ Goto(w, "none")
  /\ Remember(w, "pending")
  /\ hb' = [hb EXCEPT ![w] = FALSE]
  /\ stale' = [stale EXCEPT ![w] = FALSE]
  /\ UNCHANGED <<status, gen, nodeRuns, alive, reading, writeBacks>>

(* _heartbeat: a refused renewal ends the loop for good. *)
Heartbeat(w, d) ==
  /\ hb[w]
  /\ \/ Renewable(w, d) /\ lease' = LeaseTicks - d /\ UNCHANGED hb
     \/ ~Renewable(w, d) /\ hb' = [hb EXCEPT ![w] = FALSE] /\ UNCHANGED lease
  /\ UNCHANGED <<status, owner, gen, nodeRuns, alive, reading,
                 phase, mem, stale, writeBacks>>

-----------------------------------------------------------------------------
(* The HTTP handlers, and the environment.                                 *)

(* A handler in process o has read the row and is going to save it with    *)
(* the status s.                                                           *)
Means(o, s) ==
  /\ busy' = [busy EXCEPT ![o] = "request"]
  /\ back' = [back EXCEPT ![o] = s]
  /\ UNCHANGED <<row, nodeRuns, alive, reading, tasks, late, torn>>

(* executor.cancel. *)
Cancel(o) == status \notin Terminal /\ Means(o, "cancelled")

(* _process_approval: a granted approval first saves the row as it waits.  *)
Approve(o) == status = "awaiting" /\ Means(o, "awaiting")
Reject(o) == status = "awaiting" /\ Means(o, "rejected")

(* explicit_replan does not ask whether the run has ended, only for a node *)
(* run of a failed action and that nobody has rejected the run; the child  *)
(* transaction of the cutover makes the parent FAILED.                     *)
Replan(o) == nodeRuns = "failed" /\ status # "rejected" /\ Means(o, "failed")

(* retry_node saves the row with the status it has, whatever that is.  It  *)
(* moves the cursor and counts an attempt, which this module does not      *)
(* follow: here it is like a reservation.                                  *)
Retry(o) ==
  /\ busy' = [busy EXCEPT ![o] = "reservation"]
  /\ back' = [back EXCEPT ![o] = status]
  /\ UNCHANGED <<row, nodeRuns, alive, reading, tasks, late, torn>>

(* Nothing that was written since it was read is replaced, and no status   *)
(* but that of a failed run becomes failed.                                *)
Clean(o) ==
  o \notin late /\ (busy[o] = "request" /\ back[o] = "failed" => status = "failed")

Queued_AsKeepsLease(o) ==
  IF busy[o] = "request" /\ back[o] = "pending"
    THEN owner' = NoOwner /\ UNCHANGED lease ELSE UNCHANGED <<owner, lease>>

(* set_run_status_managed clears the lease, save_run leaves it alone.      *)
Queued(o) ==
  IF busy[o] = "request" /\ back[o] = "pending"
    THEN owner' = NoOwner /\ lease' = NoLease ELSE UNCHANGED <<owner, lease>>

(* save_run, and the cutover's UPDATE of the parent.  A granted approval   *)
(* goes on with set_run_status_managed, which queues the run again.  A     *)
(* reservation that is not late leaves everything modelled as it is: what  *)
(* it counts is read again before each write of the row (_persist_run).    *)
WriteBack(o) ==
  /\ ~Idle(o)
  /\ status' = back[o]
  /\ torn' = (torn \/ ~Clean(o))
  /\ Queued(o)
  /\ back' = [back EXCEPT ![o] = "pending"]
  /\ busy' = [busy EXCEPT ![o] = IF @ = "request" /\ back[o] = "awaiting" THEN @ ELSE "none"]
  /\ IF busy[o] = "reservation" /\ o \notin late
       THEN UNCHANGED <<stale, late>>
       ELSE /\ stale' = [v \in Worker |-> stale[v] \/ v \in Reader]
            /\ late' = {p \in Owner \ {o} : ~Idle(p)}
  /\ UNCHANGED <<gen, nodeRuns, alive, reading, phase, mem, hb>>

(* Time passes; a lease is not followed further than Lag + 1 past expiry. *)
Tick ==
  /\ lease # NoLease
  /\ lease > -(Lag + 1)
  /\ lease' = lease - 1
  /\ UNCHANGED <<status, owner, gen, nodeRuns, alive, reading, tasks, writeBacks>>

(* A process dies with all its tasks. *)
Crash(o) ==
  /\ o \in alive
  /\ alive' = alive \ {o}
  /\ reading' = reading \ {o}
  /\ phase' = [w \in Worker |-> IF w[1] = o THEN "none" ELSE phase[w]]
  /\ mem' = [w \in Worker |-> IF w[1] = o THEN "pending" ELSE mem[w]]
  /\ hb' = [w \in Worker |-> hb[w] /\ w[1] # o]
  /\ stale' = [w \in Worker |-> stale[w] /\ w[1] # o]
  /\ busy' = [busy EXCEPT ![o] = "none"]
  /\ back' = [back EXCEPT ![o] = "pending"]
  /\ late' = late \ {o}
  /\ UNCHANGED <<row, nodeRuns, torn>>

-----------------------------------------------------------------------------
Task(w) ==
  \/ Drive(w) \/ Load(w) \/ ReplayResume(w) \/ ReleaseDriverLease(w)
  \/ \E d \in 0 .. Lag :
       \/ FirstPersist(w, d) \/ OpenSegment(w, d)
       \/ ReplayPause(w, d) \/ ReplaySegment(w, d)
       \/ Gate(w, d) \/ NodeReturn(w, d) \/ Persist(w, d)
       \/ CloseSegment(w, d) \/ Finish(w, d)

(* What the event loop of a process can turn to when it is not busy. *)
Execution(w) == Idle(w[1]) /\ (Task(w) \/ Reserve(w))

Poll(o) == Idle(o) /\ ((\E d \in 0 .. Lag : ClaimDriverRun(o, d)) \/ ReadGeneration(o))

Request(o) ==
  o \in alive /\ Idle(o) /\ (Cancel(o) \/ Approve(o) \/ Reject(o) \/ Replan(o) \/ Retry(o))

Next ==
  \/ \E o \in Owner : Poll(o) \/ Request(o) \/ WriteBack(o) \/ Crash(o)
  \/ \E w \in Worker :
       \/ Execution(w)
       \/ Idle(w[1]) /\ \E d \in 0 .. Lag : Heartbeat(w, d)
  \/ Tick

Spec == Init /\ [][Next]_vars

-----------------------------------------------------------------------------
(* Properties.                                                             *)

(* An execution whose next statement is a fenced write, other than the     *)
(* second write of an awaiting row.                                        *)
Writing == {"first", "open", "replay", "segment", "persist", "final"}

(* These three hold as long as no unfenced write has replaced what it had  *)
(* not read (torn).  With one process none can, except that of Replan over *)
(* a run that has not failed; with several a reservation or a handler can, *)
(* and the runs cancel_undone and cancelled_overwritten show what then     *)
(* happens to a cancellation.                                              *)

(* A fenced write that the database would accept never overwrites a row    *)
(* that another execution or an HTTP handler has written since this one    *)
(* read it: whoever passes the fence of fenced_update_run is current, even *)
(* when the same process has claimed the run twice.  (The cursor and the   *)
(* attempt that retry_node writes are not followed here.)                  *)
FencedWriterIsCurrent ==
  ~torn => \A w \in Worker, d \in 0 .. Lag :
             phase[w] \in Writing /\ Valid(w, d) => ~stale[w]

(* state.py calls these final and not convertible: no step of any process  *)
(* takes a driver-managed run out of completed, failed or cancelled,       *)
(* except an unfenced write that replaces what it had not read, or comes   *)
(* after one that did.                                                     *)
TerminalIsFinal ==
  [][(status \in {"completed", "failed", "cancelled"} /\ ~torn') => status' = status]_vars

(* A run that waits for a human is moved only by approve, reject or        *)
(* cancel, with the same exception; never by the execution that left it    *)
(* there, by an older one, or by a driver that claims it.                  *)
OnlyAHumanEndsTheWait ==
  [][status = "awaiting" /\ ~torn' =>
       status' \in {"awaiting", "pending", "rejected", "cancelled"}]_vars

(* The lease of a run is given up only by the execution that holds it, in  *)
(* the finally block of its task, or when an approval queues the run       *)
(* again: an older task of the same process that ends late does not take   *)
(* the lease from its successor.                                           *)
LeaseDroppedByItsHolder ==
  [][owner # NoOwner /\ owner' = NoOwner =>
       \/ status' = "pending" /\ \E o \in Owner : busy[o] = "request" /\ back[o] = "pending"
       \/ <<owner, gen>> \in Worker /\ phase[<<owner, gen>>] = "ending"]_vars

(* A comment in _heartbeat: a refused renewal means that the lease was     *)
(* lost.  The heartbeat of an execution that is running a node stops only  *)
(* when the execution is no longer valid.                                  *)
HeartbeatStopsOnlyWhenLost ==
  [][\A w \in Worker :
       phase[w] = "node" /\ hb[w] /\ ~hb'[w] =>
         \/ w[1] \notin alive'
         \/ \E d \in 0 .. Lag : ~Valid(w, d)]_vars

(* The lease seen as an exclusive grant that can lapse. *)
AbstractHolder == IF owner = NoOwner THEN {} ELSE {<<owner, gen>>}
AbstractHealth ==
  IF lease = NoLease THEN "live"
  ELSE IF lease >= 0 THEN "live"
  ELSE IF lease >= -Lag THEN "late" ELSE "lapsed"

Abstract == INSTANCE ExclusiveLease WITH
  MaxEpoch <- MaxGen,
  holder <- AbstractHolder, epoch <- gen, health <- AbstractHealth

(* claim, heartbeat, release and requeue implement an exclusive lease: one *)
(* holder, a new epoch with every grant, no grant over a lease that has    *)
(* not run out, no renewal of one that has lapsed.                         *)
LeaseIsExclusive == Abstract!Spec

-----------------------------------------------------------------------------
(* What holds between the tasks and the row, in a form that every step     *)
(* preserves.                                                              *)

(* A running task belongs to a live process and to a generation granted. *)
TasksAreOld ==
  \A w \in Worker : phase[w] # "none" => w[2] <= gen /\ w[1] \in alive

(* While a process reads its generation back, all its tasks are older, and *)
(* if it still holds the lease nobody but cancel has touched the row.      *)
ClaimIsFresh ==
  \A o \in reading :
    /\ \A w \in Worker : w[1] = o /\ phase[w] # "none" => w[2] < gen
    /\ owner = o => status \in Runnable \cup {"cancelled"}

(* Up to a cancellation, the statement that the lease holder has reached   *)
(* determines what it can find in the row and in its own memory.           *)
HolderKnows(w) ==
  /\ phase[w] = "drive" => status \in Runnable
  /\ phase[w] = "load" => status = "pending"
  /\ phase[w] = "first" => status = "pending" /\ mem[w] = "running"
  /\ phase[w] = "open" => status = "running" /\ mem[w] = "running"
  /\ phase[w] = "replay" => status = "running"
  /\ phase[w] = "reload" => status \in {"running", "paused"}
  /\ phase[w] = "segment" => status = "paused" /\ mem[w] = "paused"
  /\ phase[w] \in {"gate", "node"} =>
       status \in {"running", "paused"} /\ mem[w] = "running"
  /\ phase[w] = "persist" =>
       /\ status \in {"running", "paused"}
       /\ mem[w] \in {"running", "awaiting", "failed"}
  /\ phase[w] = "close" =>
       status \in {"awaiting", "rejected"} /\ mem[w] = "awaiting"
  /\ phase[w] = "final" =>
       /\ status \in {"pending", "running", "paused"}
       /\ mem[w] \in {"running", "completed"}

HolderKnowsTheRow ==
  \A w \in Worker : IsOwner(w) /\ status # "cancelled" => HolderKnows(w)

(* A copy is out of date only in an execution that has lost the run. *)
StaleOnlyIfLost ==
  \A w \in Worker :
    /\ stale[w]
    /\ phase[w] \notin {"none", "drive", "close", "ending"}
    => ~IsOwner(w) \/ status = "cancelled"

(* The row still is as a busy process found it, unless someone has written *)
(* it since.                                                               *)
Found(o) ==
  /\ busy[o] = "reservation" => back[o] = status
  /\ busy[o] = "request" =>
       \/ back[o] = "cancelled" /\ status \notin Terminal
       \/ back[o] \in {"awaiting", "pending", "rejected"} /\ status = "awaiting"
       \/ back[o] = "failed"

WriteBacksAreKnown == \A o \in Owner \ late : Found(o)

RowIsKnown == ClaimIsFresh /\ HolderKnowsTheRow /\ StaleOnlyIfLost /\ WriteBacksAreKnown

IInv ==
  /\ TypeOK
  /\ TasksAreOld
  /\ torn \/ RowIsKnown
=============================================================================
