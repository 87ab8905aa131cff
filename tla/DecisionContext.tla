---------------------------- MODULE DecisionContext ----------------------------
(***************************************************************************)
(* context_assembler: what an LLM gets to see of a run when it reviews,    *)
(* redesigns or grades it.  A run leaves rows of twelve types; each        *)
(* becomes a source with a trust class, the sources are ranked, and as     *)
(* many as a budget of characters allows are packed, untrusted ones within *)
(* a share of it.                                                          *)
(*                                                                         *)
(* The run is the sequence of its node executions, a handler at a time.    *)
(* Of a source the model keeps what ranking and packing look at; a size is *)
(* in hundreds of characters, and a field of free text as long as its      *)
(* truncation allows.                                                      *)
(***************************************************************************)
EXTENDS Integers, Sequences, FiniteSets, SequencesExt

CONSTANTS Kind,        \* node kinds that occur
          MaxNodes,    \* bound on the node executions of a run
          Tries,       \* numbers of attempts a node may take, up to max_attempts
          Agents,      \* outputs an agent node records
          Memories     \* items a recall returns

ASSUME ContextAssumption ==
  /\ MaxNodes \in Nat /\ 1 \in Tries /\ Tries \subseteq Nat \ {0}
  /\ Agents \in Nat /\ Memories \in Nat

Trust == 0 .. 4   \* TrustClass: system, tool, agent, knowledge, external
DecisionType == {"critic", "semantic_replan", "assessment"}

(* DECISION_BUDGET_CHARS, perEvidenceChars and t3ProjectionChars. *)
Total == [critic |-> 60, semantic_replan |-> 40, assessment |-> 50]
PerEvidence(t) == IF t = 3 THEN 2 ELSE 4

(* t1Ratio .. t4Ratio, in percent. *)
Ratio == <<40, 25, 15, 10>>

(* cap_for *)
Cap(d, t) == IF t = 0 THEN Total[d] ELSE (Total[d] * Ratio[t]) \div 100

VARIABLES
  trace,   \* the node executions, each [kind, end, tries]
  status,  \* "running", "completed" or "failed"
  context  \* the context of the last decision

ctxVars == <<trace, status, context>>

(* SourceProjection.  node 0 is none; n tells sources of one type and node *)
(* apart.                                                                  *)
Source(type, trust, node, n, time, bad, size) ==
  [type |-> type, trust |-> trust, node |-> node, n |-> n, time |-> time,
   bad |-> bad, size |-> IF size > PerEvidence(trust) THEN PerEvidence(trust) ELSE size]

(* The types, in the order of their names. *)
TypeOrder ==
  [action |-> 1, agent_output |-> 2, approval |-> 3, error |-> 4, event |-> 5, memory |-> 6,
   node_output |-> 7, node_run |-> 8, policy_audit |-> 9, rag_trace |-> 10, risk |-> 11,
   simulation |-> 12]

SourceRec ==
  [type : DOMAIN TypeOrder, trust : Trust, node : Nat, n : Nat, time : Nat, bad : BOOLEAN,
   size : 0 .. 4]

End == {"ok", "denied", "failed", "interrupted"}
NoContext == [type |-> "none", packed |-> <<>>, dropped |-> <<>>]

ContextTypeOK ==
  /\ trace \in Seq([kind : Kind, end : End, tries : Tries \cup {0}])
  /\ Len(trace) <= MaxNodes
  /\ status \in {"running", "completed", "failed"}
  /\ context.type \in DecisionType \cup {"none"}
  /\ context.packed \in Seq(SourceRec) /\ context.dropped \in Seq(SourceRec)

ContextInit == trace = <<>> /\ status = "running" /\ context = NoContext

-----------------------------------------------------------------------------
(* The run.                                                                *)

(* A node that was interrupted is executed next. *)
MayRun(k) ==
  /\ status = "running" /\ Len(trace) < MaxNodes
  /\ trace # <<>> /\ Last(trace).end = "interrupted" => k = Last(trace).kind

(* A node ends well, after some failed attempts; an action may end so      *)
(* without having been executed, refused by the tool policy.               *)
NodeEnds(k, e, t) ==
  /\ MayRun(k)
  /\ e = "denied" => k = "action"
  /\ trace' = Append(trace, [kind |-> k, end |-> e, tries |-> t])
  /\ UNCHANGED <<status, context>>

(* The node fails, and the run with it, after its last attempt or when no  *)
(* retry is left to the run; without an attempt, and without an error, if  *)
(* the run's active time was spent.                                        *)
NodeFails(k, t) ==
  /\ MayRun(k)
  /\ t = 0 => k # "approval"
  /\ trace' = Append(trace, [kind |-> k, end |-> "failed", tries |-> t])
  /\ status' = "failed"
  /\ UNCHANGED context

(* The process dies in a node that may be replayed, and _safe_replay marks *)
(* its row failed.  One interruption of a run is enough.                   *)
NodeInterrupted(k) ==
  /\ MayRun(k)
  /\ k \notin {"action", "approval"}
  /\ \A i \in DOMAIN trace : trace[i].end # "interrupted"
  /\ trace' = Append(trace, [kind |-> k, end |-> "interrupted", tries |-> 1])
  /\ UNCHANGED <<status, context>>

RunCompletes ==
  /\ status = "running" /\ trace # <<>> /\ Last(trace).end # "interrupted"
  /\ status' = "completed"
  /\ UNCHANGED <<trace, context>>

-----------------------------------------------------------------------------
(* collect_source_projections: one normalizer for each type of row.  No    *)
(* two sources are equal, and their order is left to the ranking.          *)

(* The id of the node: an interrupted execution has that of its replay. *)
NodeOf(i) == IF trace[i].end = "interrupted" THEN i + 1 ELSE i

When(c, S) == IF c THEN S ELSE {}
Succeeded(x) == x.end \in {"ok", "denied"}

(* _norm_node_runs: with an error it is no longer a system fact. *)
NodeRunOf(i, x) ==
  {CASE Succeeded(x)           -> Source("node_run", 0, i, 1, i, FALSE, 2)
     [] x.end = "failed"       -> Source("node_run", 1, i, 1, i, TRUE, 6)
     [] x.end = "interrupted"  -> Source("node_run", 1, i, 0, i, TRUE, 2)}

(* project_node_output, by the shape of the output. *)
OutputOf(i, x) ==
  When(Succeeded(x),
    {CASE x.kind = "retrieve" -> Source("node_output", 3, i, 0, 0, FALSE, 1)
       [] x.kind = "recall"   -> Source("node_output", 1, i, 0, 0, FALSE, 1)
       [] x.kind = "action"   -> Source("node_output", 1, i, 0, 0, FALSE, 2)
       [] OTHER               -> Source("node_output", 1, i, 0, 0, FALSE, 3)})

(* _norm_events: node_started, and node_completed or node_failed. *)
EventsOf(i, x) ==
  {Source("event", 0, i, j, i, FALSE, 1) :
     j \in IF x.end = "interrupted" THEN {0} ELSE IF x.tries = 0 THEN {1} ELSE 1 .. 2}

(* _norm_actions: the record of an action that was dispatched. *)
ActionOf(i, x) ==
  When(x.kind = "action" /\ x.end # "denied" /\ x.tries > 0,
       {Source("action", 1, i, 0, i, x.end = "failed", 5)})

(* _norm_approvals *)
ApprovalOf(i, x) ==
  When(x.kind = "approval" /\ x.end = "ok", {Source("approval", 0, i, 0, i, FALSE, 1)})

(* _norm_agent_outputs *)
AgentsOf(i, x) ==
  When(x.kind = "agent" /\ x.end = "ok",
       {Source("agent_output", 2, 0, a, i, FALSE, 5) : a \in 1 .. Agents})

(* _norm_risk: one assessment, of the agents' findings. *)
RiskOf ==
  When(\E i \in DOMAIN trace : trace[i].kind = "agent" /\ trace[i].end = "ok",
       {Source("risk", 2, 0, 0, 0, FALSE, 4)})

(* _norm_policy_audit *)
AuditOf(i, x) ==
  When(x.end = "denied", {Source("policy_audit", 0, i, 0, i, FALSE, 2)})

(* _norm_rag_traces *)
RagOf(i, x) ==
  When(x.kind = "retrieve" /\ x.end = "ok", {Source("rag_trace", 3, 0, i, 0, FALSE, 1)})

(* _norm_memory *)
MemoryOf(i, x) ==
  When(x.kind = "recall" /\ x.end = "ok",
       {Source("memory", 3, 0, Memories * i + m, 0, FALSE, 3) : m \in 1 .. Memories})

(* _norm_simulation: the simulation run and its last snapshot. *)
SimulationOf ==
  When(\E i \in DOMAIN trace : trace[i].kind = "simulate" /\ trace[i].end = "ok",
       {Source("simulation", 1, 0, j, 0, FALSE, 1) : j \in 1 .. 2})

(* _norm_errors: one for each failed attempt. *)
ErrorsOf(i, x) ==
  When(x.end # "interrupted",
       {Source("error", 1, i, t, i, TRUE, 5) :
          t \in 1 .. (IF x.end = "failed" THEN x.tries ELSE x.tries - 1)})

SourcesOf(i, x) ==
  NodeRunOf(i, x) \cup OutputOf(i, x) \cup EventsOf(i, x) \cup ActionOf(i, x)
  \cup ApprovalOf(i, x) \cup AgentsOf(i, x) \cup AuditOf(i, x) \cup RagOf(i, x)
  \cup MemoryOf(i, x) \cup ErrorsOf(i, x)

Collected ==
  UNION ({SourcesOf(NodeOf(i), trace[i]) : i \in DOMAIN trace} \cup {RiskOf, SimulationOf})

-----------------------------------------------------------------------------
(* Ranking.                                                                *)

(* _build_observation names the first row that failed; a run that          *)
(* completed has no observation.                                           *)
Observed ==
  IF status = "failed"
  THEN NodeOf(CHOOSE i \in DOMAIN trace :
                ~Succeeded(trace[i]) /\ \A j \in 1 .. i - 1 : Succeeded(trace[j]))
  ELSE 0

(* _observation_evidence: the row of that node and its first error. *)
Explicit(s) ==
  /\ Observed # 0 /\ s.node = Observed
  /\ s.type = "node_run" \/ (s.type = "error" /\ s.n = 1)

(* _relevance.  Without an observation the node the run stopped at counts. *)
Relevance(s) ==
  (IF Explicit(s) THEN 100 ELSE 0)
  + (IF Observed # 0 THEN (IF s.node = Observed THEN 40 ELSE 0)
     ELSE IF s.node = Len(trace) THEN 30 ELSE 0)
  + (IF s.bad THEN 20 ELSE 0)
  + (IF s.type = "policy_audit" THEN 20 ELSE 0)
  + 5 * (4 - s.trust)

SortKey_AsAscending(s) ==
  <<Relevance(s), s.trust, s.time, TypeOrder[s.type], s.node, s.n>>

(* The key of rank_projections, the relevance first, negated. *)
SortKey(s) == <<-Relevance(s), s.trust, s.time, TypeOrder[s.type], s.node, s.n>>

Precedes(a, b) ==
  \E i \in DOMAIN a : a[i] < b[i] /\ \A j \in 1 .. i - 1 : a[j] = b[j]

(* The sources with what ranks them: late is 0 for the best of each type.  *)
Ranked(sources) ==
  LET keyed == {[key |-> SortKey(s), src |-> s] : s \in sources}
  IN {[late |-> IF \E y \in keyed : y.src.type = x.src.type /\ Precedes(y.key, x.key)
                THEN 1 ELSE 0,
       key |-> x.key, src |-> x.src] : x \in keyed}

(* rank_projections: the best of each type first, then the others. *)
Outranks(x, y) == x.late < y.late \/ (x.late = y.late /\ Precedes(x.key, y.key))
Best(ranked) == CHOOSE x \in ranked : \A y \in ranked : ~Outranks(y, x)

-----------------------------------------------------------------------------
(* Packing.                                                                *)

Fits_AsTotalOnly(d, acc, s) == acc.total + s.size <= Total[d]

(* A source that does not fit is left out, and smaller ones after it may   *)
(* still be packed.                                                        *)
Fits(d, acc, s) ==
  /\ acc.total + s.size <= Total[d]
  /\ s.trust # 0 => acc.used[s.trust] + s.size <= Cap(d, s.trust)

(* One round of the loop of pack_evidence. *)
Consider(d, acc) ==
  LET x == Best(acc.left)
      s == x.src
  IN IF Fits(d, acc, s)
     THEN [left |-> acc.left \ {x}, total |-> acc.total + s.size,
           used |-> [acc.used EXCEPT ![s.trust] = @ + s.size],
           packed |-> Append(acc.packed, s), dropped |-> acc.dropped]
     ELSE [acc EXCEPT !.left = @ \ {x}, !.dropped = Append(@, s)]

(* pack_evidence *)
Pack(d, ranked) ==
  LET after[n \in 0 .. Cardinality(ranked)] ==
        IF n = 0
        THEN [left |-> ranked, total |-> 0, used |-> [t \in Trust |-> 0],
              packed |-> <<>>, dropped |-> <<>>]
        ELSE Consider(d, after[n - 1])
  IN after[Cardinality(ranked)]

(* assemble_decision_context *)
AssembleDecision(d) ==
  /\ IF d = "assessment" THEN status = "completed" ELSE status = "failed"
  /\ context.type # d
  /\ LET pack == Pack(d, Ranked(Collected)) IN
       context' = [type |-> d, packed |-> pack.packed, dropped |-> pack.dropped]
  /\ UNCHANGED <<trace, status>>

ContextNext ==
  \/ \E k \in Kind, e \in {"ok", "denied"}, t \in Tries : NodeEnds(k, e, t)
  \/ \E k \in Kind, t \in Tries \cup {0} : NodeFails(k, t)
  \/ \E k \in Kind : NodeInterrupted(k)
  \/ RunCompletes
  \/ \E d \in DecisionType : AssembleDecision(d)

ContextSpec == ContextInit /\ [][ContextNext]_ctxVars

-----------------------------------------------------------------------------
(* Properties.                                                             *)

(* What the system's own facts need of a context. *)
FactSize(s) ==
  LET upTo[n \in 0 .. Len(s)] ==
        IF n = 0 THEN 0 ELSE upTo[n - 1] + (IF s[n].trust = 0 THEN s[n].size ELSE 0)
  IN upTo[Len(s)]

(* The system's own facts about a run are never crowded out by text of     *)
(* tools, agents and documents, however much of it there is, as long as    *)
(* they need no more than the share left to them (pack_evidence).          *)
SystemFactsKept ==
  context.type # "none"
  /\ FactSize(context.packed) + FactSize(context.dropped)
       <= Total[context.type] - Cap(context.type, 1) - Cap(context.type, 2)
                              - Cap(context.type, 3) =>
    \A i \in DOMAIN context.dropped : context.dropped[i].trust # 0

(* Who decides about a failed run sees the failure that ended it: the row  *)
(* of the failed node and its first error, if it has one.  (A run with an  *)
(* interrupted node is observed there instead, also when the replay        *)
(* succeeded.)                                                             *)
FailureIsShown ==
  context.type \in {"critic", "semantic_replan"}
  /\ (\A i \in DOMAIN trace : trace[i].end # "interrupted") =>
    \A type \in {"node_run"} \cup (IF Last(trace).tries > 0 THEN {"error"} ELSE {}) :
      \E s \in ToSet(context.packed) : s.type = type /\ s.node = Len(trace) /\ s.n = 1

(* The system's facts are not crowded out of a decision's context, and the *)
(* failure that ended the run is in it (context_assembler.py).             *)
DecisionsAreInformed == SystemFactsKept /\ FailureIsShown
=============================================================================
