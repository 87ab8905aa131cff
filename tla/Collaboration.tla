---------------------------- MODULE Collaboration ----------------------------
(***************************************************************************)
(* Multi-agent analysis of one chat session: the streams a client opens    *)
(* (app.py), each one run of CollaborationOrchestrator.execute over a task *)
(* graph (agent/collaboration/orchestrator.py, task_graph.py, executor.py, *)
(* state.py), and the collaboration_runs rows the next stream reads.  A    *)
(* stream is suspended at each event it sends: other streams run there, a  *)
(* client that went away closes it there, and the process may die there.   *)
(***************************************************************************)
EXTENDS Naturals, FiniteSets

CONSTANTS Streams, Incidents, NoEvent,
          Domain,      \* the domain agents a run may select
          Calls,       \* ExecutionBudget.max_agent_calls
          Layers       \* the rounds of execute's loop, six

ASSUME CollabAssumption ==
  /\ Domain \cap {"DispatchAgent", "ConflictDetector", "ConflictArbiter", "FusionAgent"} = {}
  /\ Calls \in Nat
  /\ Layers \in Nat /\ Layers >= 5   \* domain, dispatch, detect, arbiter, fusion

VARIABLES rows,     \* collaboration_runs of the session: status, event, encoding
          last,     \* the stream whose row was saved last, NoEvent before any
          generator \* the generator of each stream
collabVars == <<rows, last, generator>>

Dispatch == "DispatchAgent"   Detect == "ConflictDetector"
Arbiter == "ConflictArbiter"  Fusion == "FusionAgent"
System == {Detect, Arbiter, Fusion}
Tasks == Domain \cup System \cup {Dispatch}
Ended == {"completed", "partial_success", "failed", "interrupted"}

Row == [status : {"none", "created"} \cup Ended, event : Incidents \cup {NoEvent},
        twice : BOOLEAN]   \* the JSON columns were encoded twice
Generator == [pc : {"new", "asked", "open", "closed"}, event : Incidents \cup {NoEvent},
        status : {"created", "running", "arbitrating", "fusing"} \cup Ended,
        task : [Tasks -> {"absent", "pending", "running", "succeeded", "failed", "blocked"}],
        after : [Tasks -> SUBSET Tasks],
        todo : SUBSET Tasks, layer : 0..Layers, calls : 0..Calls,
        conflict : {"none", "medium", "high"}, final : BOOLEAN]

CollabTypeOK ==
  /\ rows \in [Streams -> Row] /\ last \in Streams \cup {NoEvent}
  /\ generator \in [Streams -> Generator]

NewGenerator == [pc |-> "new", event |-> NoEvent, status |-> "created",
           task |-> [t \in Tasks |-> "absent"], after |-> [t \in Tasks |-> {}],
           todo |-> {}, layer |-> 0, calls |-> 0, conflict |-> "none", final |-> FALSE]
CollabInit ==
  /\ rows = [s \in Streams |-> [status |-> "none", event |-> NoEvent, twice |-> FALSE]]
  /\ last = NoEvent /\ generator = [s \in Streams |-> NewGenerator]

SavedStreams == {s \in Streams : rows[s].status # "none"}
\* get_session_bound_event_ids; a row encoded twice makes it raise.
Bound == {rows[s].event : s \in SavedStreams} \ {NoEvent}
Readable == \A s \in SavedStreams : ~rows[s].twice

\* _prepare_event_bound_stream: the bindings are checked when the request arrives.
Admitted(e) == e = NoEvent \/ (Readable /\ Bound \subseteq {e})
AskStream(s, e) ==
  /\ generator[s].pc = "new" /\ Admitted(e)
  /\ generator' = [generator EXCEPT ![s].pc = "asked", ![s].event = e]
  /\ UNCHANGED <<rows, last>>

\* The generator starts later: load_previous_run_context reads the latest row of
\* the session and raises when its event was encoded twice; then routing, the
\* first save_run and the task graph.
Graph(agents) == [t \in Tasks |->
  CASE t \in Domain   -> {}
    [] t = Dispatch   -> agents
    [] t = Detect     -> {Dispatch}
    [] t = Arbiter    -> {}
    [] t = Fusion     -> {Detect}]
Open(s) ==
  /\ generator[s].pc = "asked"
  /\ IF last # NoEvent /\ rows[last].twice
       THEN generator' = [generator EXCEPT ![s].pc = "closed"] /\ UNCHANGED <<rows, last>>
       ELSE /\ rows' = [rows EXCEPT ![s] = [status |-> "created", event |-> generator[s].event,
                                            twice |-> FALSE]]
            /\ last' = s
            /\ \E agents \in SUBSET Domain :
                 generator' = [generator EXCEPT ![s] = [@ EXCEPT
                   !.pc = "open", !.status = "running", !.after = Graph(agents),
                   !.task = [t \in Tasks |-> IF t \in agents \cup {Dispatch, Detect, Fusion}
                                               THEN "pending" ELSE "absent"]]]

\* get_ready_tasks, once per layer; a layer's tasks run one after the other.
Ready(r) == {t \in Tasks : r.task[t] = "pending" /\ \A d \in r.after[t] : r.task[d] = "succeeded"}
MoreLayers_AsFewer(r) == r.layer + 2 < Layers /\ Ready(r) # {}
MoreLayers(r) == r.layer < Layers /\ Ready(r) # {}
Layer(s) ==
  /\ generator[s].pc = "open" /\ generator[s].todo = {} /\ MoreLayers(generator[s])
  /\ generator' = [generator EXCEPT ![s].todo = Ready(generator[s]), ![s].layer = @ + 1]
  /\ UNCHANGED <<rows, last>>

Turn(s, t) ==
  /\ generator[s].pc = "open" /\ t \in generator[s].todo
  /\ \A u \in generator[s].todo : generator[s].task[u] = "running" => u = t
Done(r, t) == [r EXCEPT !.todo = @ \ {t}, !.task[t] = "succeeded", !.calls = 0]
\* mark_failed: the attempt is never below max_retries here, so the task fails and
\* its own pending dependents, not theirs, are blocked.
Failed(r, t) == [r EXCEPT !.todo = @ \ {t}, !.calls = 0, !.task = [u \in Tasks |->
  IF u = t THEN "failed" ELSE IF t \in r.after[u] /\ @[u] = "pending" THEN "blocked" ELSE @[u]]]

Affordable_AsOffByOne(r) == r.calls <= Calls

\* can_call_agent; the count is that of the task's agent.
Affordable(r) == r.calls < Calls

\* execute_single_agent: an attempt succeeds, fails for good (a required field is
\* missing, the budget is used up, or the last attempt), or is tried again.
Attempt(s, t) ==
  /\ Turn(s, t) /\ t \notin System
  /\ LET r == generator[s] IN
       \/ Affordable(r) /\ generator' = [generator EXCEPT ![s] = Done(r, t)]
       \/ generator' = [generator EXCEPT ![s] = Failed(r, t)]
       \/ Affordable(r) /\ generator' = [generator EXCEPT ![s].task[t] = "running",
                                                          ![s].calls = @ + 1]
  /\ UNCHANGED <<rows, last>>

\* CollaborationRunState.transition: the allowed successors of a status; "created"
\* stands for the routing status that follows it before the first task.
Successors(status) ==
  CASE status = "created"     -> {"running"}
    [] status = "running"     -> {"arbitrating", "fusing", "partial_success", "failed", "completed"}
    [] status = "arbitrating" -> {"fusing", "failed"}
    [] status = "fusing"      -> {"completed", "partial_success", "failed"}
    [] OTHER                  -> {}

\* The detector compares what the signal and the congestion agent say with the
\* safety agent's result; a high conflict inserts the arbiter and makes the fusion
\* wait for it.
Results(r) == {t \in Domain \cup {Dispatch} : r.task[t] = "succeeded"}
Severity(r) ==
  {"none"}
  \cup (IF {"SignalAgent", "PublicSafetyAgent"} \subseteq Results(r) THEN {"high"} ELSE {})
  \cup (IF {"CongestionAgent", "PublicSafetyAgent"} \subseteq Results(r) THEN {"medium"} ELSE {})
WithArbiter_AsAside(r) == [r EXCEPT !.task[Arbiter] = "pending", !.after[Arbiter] = {Detect}]
WithArbiter(r) == [r EXCEPT !.task[Arbiter] = "pending", !.after[Arbiter] = {Detect},
                            !.after[Fusion] = {Arbiter}]
DetectConflicts(s) ==
  /\ Turn(s, Detect) /\ "arbitrating" \in Successors(generator[s].status)
  /\ \E c \in Severity(generator[s]) :
       LET r == [Done(generator[s], Detect) EXCEPT !.conflict = c, !.status = "arbitrating"] IN
         generator' = [generator EXCEPT ![s] = IF c = "high" THEN WithArbiter(r) ELSE r]
  /\ UNCHANGED <<rows, last>>
Arbitrate(s) ==
  /\ Turn(s, Arbiter)
  /\ generator' = [generator EXCEPT ![s] = Done(@, Arbiter)]
  /\ UNCHANGED <<rows, last>>
Fuse(s) ==
  /\ Turn(s, Fusion) /\ "fusing" \in Successors(generator[s].status)
  /\ generator' = [generator EXCEPT ![s] =
                     [Done(@, Fusion) EXCEPT !.status = "fusing", !.final = TRUE]]
  /\ UNCHANGED <<rows, last>>

\* The completion invariants of execute: results without a fusion still complete.
Outcome(r) ==
  IF Results(r) = {} THEN "failed"
  ELSE IF r.final /\ \E t \in Tasks : r.task[t] \notin {"absent", "succeeded"}
    THEN "partial_success"
  ELSE "completed"
Finish(s) ==
  /\ generator[s].pc = "open" /\ generator[s].todo = {} /\ ~MoreLayers(generator[s])
  /\ Outcome(generator[s]) \in Successors(generator[s].status)
  /\ generator' = [generator EXCEPT ![s].pc = "closed", ![s].status = Outcome(generator[s])]
  /\ rows' = [rows EXCEPT ![s].status = Outcome(generator[s])] /\ last' = s

\* A closed stream or an exception: the guard of agent_stream marks the row it
\* reads back as failed and saves it, its JSON text encoded once more.
Encoded(row) == [row EXCEPT !.status = "failed", !.twice = TRUE]
Abort(s) ==
  /\ generator[s].pc = "open"
  /\ generator' = [generator EXCEPT ![s].pc = "closed"]
  /\ rows' = [rows EXCEPT ![s] = Encoded(@)] /\ last' = s

\* The process dies: no guard runs and every row stays as it is.
CollabCrash ==
  /\ \E s \in Streams : generator[s].pc \in {"asked", "open"}
  /\ generator' = [s \in Streams |-> IF generator[s].pc \in {"asked", "open"}
                                 THEN [generator[s] EXCEPT !.pc = "closed"] ELSE generator[s]]
  /\ UNCHANGED <<rows, last>>

CollabNext ==
  \/ \E s \in Streams :
       \/ \E e \in Incidents \cup {NoEvent} : AskStream(s, e)
       \/ Open(s) \/ Layer(s) \/ DetectConflicts(s) \/ Arbitrate(s) \/ Fuse(s)
       \/ (\E t \in Tasks : Attempt(s, t)) \/ Finish(s) \/ Abort(s)
  \/ CollabCrash
CollabSpec == CollabInit /\ [][CollabNext]_collabVars

-----------------------------------------------------------------------------
(* Properties                                                              *)

\* FusionAgent's forbidden responsibilities (roles.py): it does not fuse before
\* the selected domain agents and the dispatcher are done, and a high conflict is
\* never fused over without its arbitration, whatever was retried or inserted.
FusionIsLast ==
  \A s \in Streams : generator[s].final =>
    /\ \A t \in Tasks : generator[s].task[t] \in {"absent", "succeeded"}
    /\ generator[s].conflict = "high" => generator[s].task[Arbiter] = "succeeded"

\* However a run's tasks end, the status its completion asks for is one
\* CollaborationRunState.transition accepts: execute never raises instead of
\* saving its result.
EndIsLegal ==
  \A s \in Streams :
    generator[s].pc = "open" /\ generator[s].todo = {} /\ ~MoreLayers(generator[s])
      => Outcome(generator[s]) \in Successors(generator[s].status)

\* A collaboration run fuses when all its tasks have succeeded, the arbiter of a
\* high conflict among them, and ends in a status its state machine accepts
\* (orchestrator.py, state.py).
RunEndsInOrder == FusionIsLast /\ EndIsLegal
=============================================================================
