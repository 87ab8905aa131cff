---------------------------- MODULE WaitScheduler ----------------------------
(***************************************************************************)
(* Wait nodes and the WaitScheduler of one server process: a run pauses at *)
(* a wait node, for a time or for an outside event, and goes on when the   *)
(* scheduler finds its wake_at passed or somebody resumes it.              *)
(*                                                                         *)
(* The statements of a pause and of a scan, up to the first node the scan  *)
(* executes, run without an await: nothing else of the process comes       *)
(* between them (sync), but the process may die there.                     *)
(***************************************************************************)
EXTENDS Integers, Sequences

CONSTANTS Waits,     \* the wait nodes on the path of the run: "timer" or "event"
          Crashes    \* bound on the deaths of the process

ASSUME WaitAssumption == Waits \in Seq({"timer", "event"}) /\ Crashes \in Nat

Status == {"running", "paused", "claimed", "pending", "failed", "completed"}
Who == {"user", "scheduler"} \* who consumes an execution of the run

VARIABLES
  col,     \* the column status of the row
  json,    \* status in state_json
  node,    \* current_node in state_json: the wait it last reached, or 0
  outputs, \* wait nodes with an entry in node_outputs
  timer,   \* wait_type and wake_at: "none", "set", "due"
  old,     \* the row was claimed longer than _CLAIM_LEASE_SECONDS ago
  exec,    \* executions: "wait" is about to execute node, "body" works towards the next
  sync,    \* the statement the process executes next, or "free"
  managed, \* driver_managed
  crashes
waitVars == <<col, json, node, outputs, timer, old, exec, sync, managed, crashes>>

WaitTypeOK ==
  /\ col \in Status /\ json \in Status \ {"claimed"}
  /\ node \in 0 .. Len(Waits) /\ outputs \subseteq 1 .. Len(Waits)
  /\ timer \in {"none", "set", "due"} /\ old \in BOOLEAN /\ managed \in BOOLEAN
  /\ exec \in [Who -> {"none", "wait", "body"}]
  /\ sync \in {"free", "arm", "mark", "wake"}
  /\ crashes \in 0 .. Crashes

WaitInit ==
  /\ col = "running" /\ json = "running" /\ node = 0 /\ outputs = {}
  /\ timer = "none" /\ old = FALSE
  /\ exec = [e \in Who |-> IF e = "user" THEN "body" ELSE "none"]
  /\ sync = "free" /\ managed \in BOOLEAN /\ crashes = 0

Write(s) == col' = s /\ json' = s

-----------------------------------------------------------------------------
(* Executions.                                                             *)

(* The nodes up to the next wait are done: the run pauses there, or ends.  *)
Reach(e) ==
  /\ sync = "free" /\ exec[e] = "body"
  /\ exec' = [exec EXCEPT ![e] = "none"]
  /\ IF node < Len(Waits)
     THEN /\ Write("paused") /\ node' = node + 1 /\ outputs' = outputs \cup {node + 1}
          /\ sync' = IF Waits[node + 1] = "timer" THEN "arm" ELSE "free"
     ELSE Write("completed") /\ UNCHANGED <<node, outputs, sync>>
  /\ UNCHANGED <<timer, old, managed, crashes>>

(* The second statement of a timed pause: wait_type and wake_at, which     *)
(* nothing ever clears.                                                    *)
Arm ==
  /\ sync = "arm"
  /\ timer' = "set" /\ sync' = "free"
  /\ UNCHANGED <<col, json, node, outputs, old, exec, managed, crashes>>

(* execute_wait finds its own output and the run goes on; only now the row *)
(* says running.                                                           *)
Pass(e) ==
  /\ sync = "free" /\ exec[e] = "wait"
  /\ node \in outputs
  /\ Write("running")
  /\ exec' = [exec EXCEPT ![e] = "body"]
  /\ UNCHANGED <<node, outputs, timer, old, sync, managed, crashes>>

(* resume() looks at state_json alone. *)
Resumable == json = "paused"

(* POST /runs/{id}/resume. *)
UserResume ==
  /\ sync = "free" /\ exec["user"] = "none"
  /\ ~managed /\ Resumable
  /\ exec' = [exec EXCEPT !["user"] = "wait"]
  /\ UNCHANGED <<col, json, node, outputs, timer, old, sync, managed, crashes>>

-----------------------------------------------------------------------------
(* _scan_once.  A scan that resumed the run goes on when that execution    *)
(* ends.                                                                   *)

Due_AsArmed == col = "paused" /\ timer # "none"
Due == col = "paused" /\ timer = "due"

(* The claim, then the rows that are claimed, by this scan or an earlier   *)
(* one of a process that died.                                             *)
Scan ==
  /\ sync = "free" /\ exec["scheduler"] = "none"
  /\ Due \/ col = "claimed"
  /\ col' = "claimed"
  /\ old' = (old /\ ~Due)
  /\ sync' = "mark"
  /\ UNCHANGED <<json, node, outputs, timer, exec, managed, crashes>>

Waiting_AsPaused == col = "paused"

(* get_run reads 'claimed' as paused. *)
Waiting == col \in {"paused", "claimed"}

(* _resume_waiting_run writes the state back with the wait as done; an     *)
(* exception marks the row failed.                                         *)
Mark ==
  /\ sync = "mark"
  /\ \/ /\ Waiting
        /\ Write("paused") /\ outputs' = outputs \cup {node}
        /\ sync' = "wake"
     \/ /\ ~Waiting
        /\ sync' = "free" /\ UNCHANGED <<col, json, outputs>>
     \/ /\ col' = "failed" /\ sync' = "free"
        /\ UNCHANGED <<json, outputs>>
  /\ UNCHANGED <<node, timer, old, exec, managed, crashes>>

(* A run of a driver is handed back to it, any other executed here. *)
Wake ==
  /\ sync = "wake"
  /\ IF managed THEN Write("pending") /\ UNCHANGED exec
     ELSE exec' = [exec EXCEPT !["scheduler"] = "wait"] /\ UNCHANGED <<col, json>>
  /\ sync' = "free"
  /\ UNCHANGED <<node, outputs, timer, old, managed, crashes>>

(* The end of a scan: a claim that is too old is given back. *)
Release ==
  /\ sync = "free" /\ exec["scheduler"] = "none"
  /\ col = "claimed" /\ old
  /\ col' = "paused" /\ old' = FALSE
  /\ UNCHANGED <<json, node, outputs, timer, exec, sync, managed, crashes>>

-----------------------------------------------------------------------------
(* Time: the delay of the timer, the lease of a claim. *)
Elapse ==
  /\ timer = "set" /\ sync = "free"
  /\ timer' = "due"
  /\ UNCHANGED <<col, json, node, outputs, old, exec, sync, managed, crashes>>

Age ==
  /\ col = "claimed" /\ ~old
  /\ old' = TRUE
  /\ UNCHANGED <<col, json, node, outputs, timer, exec, sync, managed, crashes>>

(* The process dies and another starts. *)
WaitCrash ==
  /\ crashes < Crashes
  /\ crashes' = crashes + 1
  /\ exec' = [e \in Who |-> "none"] /\ sync' = "free"
  /\ UNCHANGED <<col, json, node, outputs, timer, old, managed>>

WaitNext ==
  \/ Scan \/ Mark \/ Wake \/ Arm \/ Release \/ UserResume \/ Elapse \/ Age \/ WaitCrash
  \/ \E e \in Who : Pass(e) \/ Reach(e)

(* The loop scans every few seconds, a node is bounded by its timeout, and *)
(* time passes.                                                            *)
WaitFairness ==
  /\ WF_waitVars(Scan) /\ WF_waitVars(Mark) /\ WF_waitVars(Wake) /\ WF_waitVars(Arm)
  /\ WF_waitVars(Elapse)
  /\ \A e \in Who : WF_waitVars(Pass(e)) /\ WF_waitVars(Reach(e))

WaitSpec == WaitInit /\ [][WaitNext]_waitVars /\ WaitFairness

-----------------------------------------------------------------------------
(* Properties, for a path on which no other wait follows a timer.          *)

(* The scheduler goes on with a run at no wait but the timer, and not      *)
(* before its time, whatever it finds claimed or left over.                *)
WokenInTime ==
  exec["scheduler"] = "wait" => Waits[node] = "timer" /\ timer = "due"

(* A run whose timer is due leaves the wait, although the process may die  *)
(* between the claim and the resumption.                                   *)
DueRunWakes == (col \in {"paused", "claimed"} /\ timer = "due")
                 ~> (col \notin {"paused", "claimed"})
=============================================================================
