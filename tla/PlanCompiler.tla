----------------------------- MODULE PlanCompiler -----------------------------
(***************************************************************************)
(* The plans of the planning package: how a plan is built from rules or    *)
(* compiled from the proposal of an LLM, what validate_plan lets through,  *)
(* the graph the executor walks, and how a failed plan is revised.         *)
(*                                                                         *)
(* A step's id is <<kind, slug, number>>; plans built from rules number no *)
(* step (0).  An action's text stands for its parameters and objective,    *)
(* which only the search for duplicates compares.                          *)
(***************************************************************************)
EXTENDS Integers, Sequences, FiniteSets, SequencesExt

CONSTANTS Agent,    \* executable agents
          Notify,   \* actions of high risk that the rules or agents propose
          Simulate, \* actions of high risk that stand for a simulation
          Text,     \* parameters and objectives of an action
          MaxItems, \* bound on the steps of a proposal
          MaxRev    \* bound on the revisions of a plan

Save == "save_result"
Risky == Notify \cup Simulate \* the tool registry: approvalRequired
None == "none"

(* The registry has one entry for a name, and save_result is of low risk. *)
ASSUME PlanAssumption ==
  /\ IsFiniteSet(Agent) /\ IsFiniteSet(Notify) /\ IsFiniteSet(Simulate)
  /\ Notify \cap Simulate = {} /\ {Save, None} \cap Risky = {} /\ None \notin Agent
  /\ MaxItems \in Nat \ {0} /\ MaxRev \in Nat

(* A step an LLM proposes; cap is what its requiredCapabilities resolve to *)
(* and good whether its parameters fit the schema.                         *)
Item == [act : {FALSE}, cap : Agent \cup {None}, needs : BOOLEAN, text : {1}, good : {TRUE}]
   \cup [act : {TRUE}, cap : Risky \cup {None}, needs : {FALSE}, text : Text, good : BOOLEAN]

Id == {"step", "agent", "approval", "action"} \X (Agent \cup Risky \cup
        {Save, "validate_event", "rule_router", "rag_retrieve", "memory_context",
         "evidence_evaluate", "risk_gate", "close"}) \X Nat
NoId == <<"step", "none", 0>>

VARIABLES
  phase, \* "none", "planned", "failed" (an action of the run failed), "refused"
  mode,  \* plannerMode of the request
  v2,    \* approvalIdentityVersion is 2
  rev,   \* revisions made
  steps, \* the plan, also the one that was refused
  done   \* ids of the steps the last run completed
planVars == <<phase, mode, v2, rev, steps, done>>

Mode == {"deterministic", "llm", "auto"}

PlanTypeOK ==
  /\ phase \in {"none", "planned", "failed", "refused"}
  /\ mode \in Mode
  /\ v2 \in BOOLEAN /\ rev \in 0 .. MaxRev
  /\ \A s \in ToSet(steps) :
       /\ s.id \in Id /\ s.deps \subseteq Id
       /\ s.target \in Id \cup {NoId} /\ s.carried \in BOOLEAN
  /\ done \subseteq {s.id : s \in ToSet(steps)}

-----------------------------------------------------------------------------
(* Building a plan.                                                        *)

NewStep(kind, slug, n, type) ==
  [id |-> <<kind, slug, n>>, type |-> type, action |-> None, target |-> NoId,
   text |-> 0, deps |-> {}, carried |-> FALSE]

(* The elements of s at the places I, in their order. *)
Picked(s, I) ==
  LET upTo[n \in 0 .. Len(s)] ==
        IF n = 0 THEN <<>>
        ELSE IF n \in I THEN Append(upTo[n - 1], s[n]) ELSE upTo[n - 1]
  IN upTo[Len(s)]

Structural(t) == <<NewStep("step", t, 0, t)>>
If(c, s) == IF c THEN s ELSE <<>>

(* Every step depends on the one before. *)
Wire(s) == [i \in DOMAIN s |-> [s[i] EXCEPT !.deps = IF i = 1 THEN {} ELSE {s[i - 1].id}]]

AgentStep(a, n) == NewStep("agent", a, n, "agent_task")
ActionStep(a, n, text) ==
  [NewStep("action", a, n, "action") EXCEPT !.action = a, !.text = text]

(* The gate of an action; target is metadata.targetActionStepId. *)
Gate(a, n, target) ==
  [NewStep("approval", a, n, "human_approval") EXCEPT !.action = a, !.target = target]

(* An action of high risk follows its gate. *)
Gated(a, n, m, text, bind) ==
  If(a \in Risky, <<Gate(a, m, IF bind THEN <<"action", a, n>> ELSE NoId)>>)
  \o <<ActionStep(a, n, text)>>

Classify_AsRegistered(a) == a \in Risky \cup {Save}

(* _classify_agent_action: what an agent may recommend. *)
Classify(a) == a \in Notify

(* ActionCandidateResolver.resolve: the rule for high risk, the accepted   *)
(* recommendations that are new, the simulation, save_result last.         *)
Candidates(high, recommended, simulate) ==
  LET rule == If(high, SetToSeq(Notify))
      new == {a \in recommended : Classify(a) /\ a \notin ToSet(rule)}
  IN rule \o SetToSeq(new) \o If(simulate, SetToSeq(Simulate)) \o <<Save>>

(* build_plan. *)
BuildPlan(agents, candidates) ==
  Wire(Structural("validate_event") \o Structural("rule_router")
       \o Structural("rag_retrieve") \o Structural("memory_context")
       \o [i \in DOMAIN agents |-> AgentStep(agents[i], 0)]
       \o Structural("evidence_evaluate") \o Structural("risk_gate")
       \o FlattenSeq([i \in DOMAIN candidates |-> Gated(candidates[i], 0, 0, 1, FALSE)])
       \o Structural("close"))

(* _next_step_id: item i is the n-th of its capability, after those the    *)
(* counters were seeded with.                                              *)
Number(items, i, seed) ==
  seed + Cardinality({j \in 1 .. i : items[j].cap = items[i].cap})

Seed_AsZero(kind, slug, kept) == 0

(* _seed_counters: the highest number among the completed steps. *)
Seed(kind, slug, kept) ==
  LET used == {n \in {id[3] : id \in kept} : <<kind, slug, n>> \in kept}
  IN IF used = {} THEN 0 ELSE CHOOSE n \in used : \A k \in used : k <= n

(* The steps compile_proposal and compile_replan_suffix share: agents,     *)
(* evaluation, risk gate, gated actions, save_result, close.               *)
Body(items, kept) ==
  LET agents == Picked(items, {i \in DOMAIN items : ~items[i].act /\ items[i].cap # None})
      acts == Picked(items, {i \in DOMAIN items : items[i].act})
      agentN(i) == Number(agents, i, Seed("agent", agents[i].cap, kept))
      actN(i) == Number(acts, i, Seed("action", acts[i].cap, kept))
      gateN(i) == Number(acts, i, Seed("approval", acts[i].cap, kept))
  IN [i \in DOMAIN agents |-> AgentStep(agents[i].cap, agentN(i))]
     \o If(agents # <<>>, Structural("evidence_evaluate"))
     \o Structural("risk_gate")
     \o FlattenSeq([i \in DOMAIN acts |->
          Gated(acts[i].cap, actN(i), gateN(i), acts[i].text, TRUE)])
     \o <<ActionStep(Save, Seed("action", Save, kept) + 1, 0)>>
     \o Structural("close")

Compile(items, rag, memory) ==
  Wire(Structural("validate_event") \o Structural("rule_router")
       \o If(rag, Structural("rag_retrieve")) \o If(memory, Structural("memory_context"))
       \o Body(items, {}))

(* The errors that compilation itself raises: a capability that resolves   *)
(* to nothing, unless the step only asks for evidence; bad parameters.     *)
Compilable(items) ==
  \A x \in ToSet(items) :
    IF x.act THEN x.cap # None /\ x.good ELSE x.cap # None \/ x.needs

-----------------------------------------------------------------------------
(* validate_plan.                                                          *)

Ids(s) == {x.id : x \in ToSet(s)}
Unique(s) == \A i, j \in DOMAIN s : s[i].id = s[j].id => i = j

(* Kahn's algorithm, a round at a time: a step leaves when nothing it      *)
(* depends on is left; what never leaves is a cycle.                       *)
Cyclic(s) ==
  LET left[n \in 0 .. Len(s)] ==
        IF n = 0 THEN Ids(s)
        ELSE LET before == left[n - 1]
             IN {x.id : x \in {y \in ToSet(s) : y.deps \cap before # {}}} \cap before
  IN left[Len(s)] # {}

RiskyActions(s) == {x \in ToSet(s) : x.type = "action" /\ x.action \in Risky}
Gates(s) == {x \in ToSet(s) : x.type = "human_approval"}

(* No two actions with the same parameters and objective; in a plan of     *)
(* rules no two of high risk with the same action.                         *)
DistinctActions(s, two) ==
  \A i, j \in DOMAIN s :
    s[i].type = "action" /\ s[j].type = "action" /\ s[i].action = s[j].action
      /\ (IF two THEN s[i].text = s[j].text ELSE s[i].action \in Risky)
    => i = j

(* A gate of the action, bound to the exact step, is a dependency of it. *)
HasGate(s, x, two) ==
  \E g \in Gates(s) :
    g.id \in x.deps /\ IF two THEN g.target = x.id ELSE g.action = x.action

(* An acyclic plan whose dependencies exist has entries, and every step is *)
(* reachable from one, so these two checks of the code are not repeated.   *)
Valid(s, two) ==
  /\ Unique(s)
  /\ \A x \in ToSet(s) : x.deps \subseteq Ids(s)
  /\ ~Cyclic(s)
  /\ \E x \in ToSet(s) : x.type = "close"
  /\ DistinctActions(s, two)
  /\ \A x \in RiskyActions(s) : HasGate(s, x, two)
  /\ two => \A g \in Gates(s) : g.target # NoId

-----------------------------------------------------------------------------
(* plan_to_definition and plan_to_child_definition: carried steps are not  *)
(* in the graph and count as satisfied dependencies.                       *)

Live(s) == {i \in DOMAIN s : ~s[i].carried}
LiveIds(s) == {s[i].id : i \in Live(s)}

First(I) == IF I = {} THEN 0 ELSE CHOOSE i \in I : \A j \in I : i <= j

Entry_AsUncarried(s) == First({i \in Live(s) : s[i].deps = {}})

(* next_nodes[0] of the trigger, and of step i. *)
Entry(s) == First({i \in Live(s) : s[i].deps \cap LiveIds(s) = {}})

Next0(s, i) == First({j \in Live(s) : s[i].id \in s[j].deps})

(* The walk of the executor, which follows the first edge of each node. *)
Walk(s) ==
  LET at[n \in 1 .. Len(s)] ==
        IF n = 1 THEN Entry(s)
        ELSE LET before == at[n - 1] IN IF before = 0 THEN 0 ELSE Next0(s, before)
  IN Picked(at, {n \in DOMAIN at : at[n] # 0})

-----------------------------------------------------------------------------
PlanInit ==
  /\ phase = "none" /\ mode = "deterministic" /\ v2 = FALSE /\ rev = 0
  /\ steps = <<>> /\ done = {}

Keep_AsUnchecked(s, two) ==
  /\ steps' = s /\ v2' = two /\ done' = {} /\ phase' = "planned"

(* The endpoints validate what was built before they keep it. *)
Keep(s, two) ==
  /\ steps' = s /\ v2' = two /\ done' = {}
  /\ phase' = IF Valid(s, two) THEN "planned" ELSE "refused"

(* POST /plans and /plans/from-agent without an LLM, or after its failure  *)
(* in mode "auto".                                                         *)
Build ==
  \E agents \in SUBSET Agent, recommended \in SUBSET (Risky \cup {Save}),
     high, simulate \in BOOLEAN :
    Keep(BuildPlan(SetToSeq(agents), Candidates(high, recommended, simulate)), FALSE)

BuildDeterministic ==
  /\ phase = "none"
  /\ Build
  /\ UNCHANGED <<mode, rev>>

Items(n) == UNION {[1 .. k -> Item] : k \in 0 .. n}

(* build_plan_with_mode: compile_proposal ends with validate_plan.  No     *)
(* proposal stands for a provider that failed or dependencies that are not *)
(* linear.                                                                 *)
BuildFromProposal ==
  /\ phase = "none"
  /\ mode' \in {"llm", "auto"}
  /\ \/ \E items \in Items(MaxItems), rag, memory \in BOOLEAN :
          LET s == Compile(items, rag, memory) IN
          /\ Compilable(items) /\ Valid(s, TRUE)
          /\ Keep(s, TRUE)
     \/ mode' = "auto" /\ Build
     \/ mode' = "llm" /\ phase' = "refused" /\ UNCHANGED <<steps, v2, done>>
  /\ UNCHANGED rev

(* A run of the plan up to an action that fails; all before it succeeded,  *)
(* the gates included.                                                     *)
RunFails ==
  /\ phase = "planned"
  /\ \E n \in DOMAIN Walk(steps) :
       /\ steps[Walk(steps)[n]].type = "action"
       /\ done' = {steps[Walk(steps)[k]].id : k \in 1 .. n - 1}
  /\ phase' = "failed"
  /\ UNCHANGED <<mode, v2, rev, steps>>

(* _carried_step keeps no metadata but its own. *)
Carry(x) == [x EXCEPT !.carried = TRUE, !.target = NoId]

(* build_revision. *)
Revision == [i \in DOMAIN steps |-> IF steps[i].id \in done THEN Carry(steps[i]) ELSE steps[i]]

(* build_semantic_revision: the completed steps, without those that every  *)
(* suffix brings again, then the suffix.                                   *)
Redesign(suffix) ==
  LET kept == Picked(steps, {i \in DOMAIN steps :
        steps[i].id \in done /\ steps[i].type \notin {"evidence_evaluate", "risk_gate", "close"}})
      prefix == [i \in DOMAIN kept |-> Carry(kept[i])]
      wired == Wire(suffix)
  IN prefix \o [i \in DOMAIN wired |->
       IF i = 1 /\ prefix # <<>> THEN [wired[i] EXCEPT !.deps = {prefix[Len(prefix)].id}]
       ELSE wired[i]]

(* _perform_replan, with a redesign where the plan came from an LLM and    *)
(* the suffix compiles.                                                    *)
RevisePlan ==
  /\ phase = "failed" /\ rev < MaxRev
  /\ \/ Keep(Revision, v2)
     \/ /\ v2
        /\ \E items \in Items(MaxItems - 1) :
             Compilable(items) /\ Keep(Redesign(Body(items, done)), v2)
  /\ rev' = rev + 1
  /\ UNCHANGED mode

PlanNext == BuildDeterministic \/ BuildFromProposal \/ RunFails \/ RevisePlan

PlanSpec == PlanInit /\ [][PlanNext]_planVars

-----------------------------------------------------------------------------
(* Properties.                                                             *)

(* The executor follows one edge of each node and no other, and still      *)
(* reaches every step of an accepted plan that is not carried, in the      *)
(* order of the plan, however the plan was revised (adapter.py,            *)
(* revision.py, executor.py).                                              *)
WalkIsThePlan ==
  phase = "planned" =>
    LET w == Walk(steps) IN
    /\ \A n \in DOMAIN w : w[n] \in Live(steps) /\ (n > 1 => w[n - 1] < w[n])
    /\ \A i \in Live(steps) : \E n \in DOMAIN w : w[n] = i

(* On the walk an action of high risk comes directly after a gate that     *)
(* asks for it, unless that gate was answered in the run before; in a plan *)
(* of an LLM the gate names the very step.                                 *)
GateBeforeAction ==
  phase = "planned" =>
    LET w == Walk(steps) IN
    \A n \in DOMAIN w :
      LET x == steps[w[n]] IN
      x \in RiskyActions(steps) =>
        \/ /\ n > 1
           /\ steps[w[n - 1]].type = "human_approval"
           /\ steps[w[n - 1]].action = x.action
           /\ v2 => steps[w[n - 1]].target = x.id
        \/ \E g \in Gates(steps) :
             g.carried /\ g.id \in x.deps /\ (v2 => g.target = x.id)

(* A plan built from the rules is valid whatever the agents recommended:   *)
(* "auto" has an answer for every failure of the LLM.                      *)
FallbackIsValid == phase = "refused" /\ rev = 0 => mode = "llm"

(* The steps of a redesign never take the id of a step that is kept, so a  *)
(* redesign is never refused for that.                                     *)
RedesignIdsAreNew == Unique(steps)

(* The plan built from the rules is valid, a redesign gives no step the id *)
(* of a completed one, and an action of high risk is reached through its   *)
(* gate, or the gate was answered in the run before (planner.py,           *)
(* proposal_compiler.py, validator.py).                                    *)
PlansAreValid == FallbackIsValid /\ RedesignIdsAreNew /\ GateBeforeAction
=============================================================================
