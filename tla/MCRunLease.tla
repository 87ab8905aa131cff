------------------------------ MODULE MCRunLease ------------------------------
(* RunLease on small instances.                                            *)
EXTENDS RunLease, TLC

CONSTANT Steady   \* processes that never crash

Symmetry == Permutations(Owner \ Steady)

(* To keep the graph of FairSpec small, requests come to the processes that *)
(* stay up, none of them is a retry, and nodes are of the kinds that       *)
(* reserve no budget (should_count_step).                                  *)
Small ==
  \A o \in Owner :
    busy'[o] # "reservation" /\ (o \notin Steady => busy'[o] = "none")

(***************************************************************************)
(* Fairness.  Time passes, and code without an await goes on.  The poll    *)
(* loop of a process that is up polls every poll_interval; its tasks go    *)
(* on, since every node runs under a timeout (wait_for).  A process may    *)
(* die at any step, which disables all of its steps.  Nothing is assumed   *)
(* of the people behind the HTTP handlers, nor of the heartbeats.          *)
(***************************************************************************)
FairSpec ==
  /\ Init
  /\ [][Next /\ Steady \subseteq alive' /\ Small]_vars
  /\ WF_vars(Tick)
  /\ \A o \in Owner : WF_vars(Poll(o)) /\ WF_vars(WriteBack(o))
  /\ \A w \in Worker : WF_vars(Execution(w))

(* The bound on generations forbids the claim that is due. *)
Exhausted == gen = MaxGen /\ Claimable(0)

(* Every pending run is picked up and moves on, also when the process that *)
(* claimed it dies before it writes RUNNING, or is so slow that its lease  *)
(* lapses.                                                                 *)
PendingRunStarts == status = "pending" ~> status # "pending" \/ Exhausted

(* A run whose driver died while it was pending or running is claimed by   *)
(* another process, if nothing else moves it.                              *)
CrashedRunReclaimed ==
  owner # NoOwner /\ owner \notin alive /\ status \in Runnable ~>
    \/ owner \in alive
    \/ status \notin Runnable
    \/ Exhausted

(* What follows a write that has replaced what it had not read is not      *)
(* explored: the properties but LeaseIsExclusive and the types say nothing *)
(* of it, and those are theorems.                                          *)
NotTorn == ~torn
=============================================================================
