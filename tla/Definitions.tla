------------------------------ MODULE Definitions ------------------------------
(***************************************************************************)
(* Workflow definitions, their versions, and the runs bound to them        *)
(* (definition.py, condition.py, models.py, repository.py): a definition   *)
(* is validated and saved; a run, or an activation, takes the next version *)
(* number and freezes the definition under it; a replan freezes the plan   *)
(* of the child in its transaction; a run that was paused, and a run       *)
(* created for the driver, read their snapshot again.                      *)
(*                                                                         *)
(* A handler does not yield between its statements, so one process runs    *)
(* them together; another process may be in between.  Conditions nest to   *)
(* any depth in the code: here a compound one holds simple ones.           *)
(***************************************************************************)
EXTENDS Naturals, Sequences, FiniteSets

CONSTANTS Servers,      \* processes
          Ids,          \* definition ids
          Graphs,      \* what definitions may hold, valid or not
          Drafts,      \* the graphs saved as a draft; the others are active
          Inputs,      \* events: the values that conditions read
          MaxVersion, MaxRuns  \* bounds

SimpleOp == {"exists", "eq", "gte"}
CompoundOp == {"all", "any"}

NoGraph == [entry |-> "", nodes |-> {}]

(* A graph names its nodes and their successors by strings. *)
ASSUME DefAssumption ==
  /\ MaxVersion \in Nat /\ MaxRuns \in Nat /\ Inputs # {}
  /\ NoGraph \notin Graphs
  /\ \A g \in Graphs : /\ g.entry \in STRING
                       /\ \A n \in g.nodes : n.id \in STRING /\ n.next \in Seq(STRING)

Snapshot == Graphs \cup {NoGraph}
Missing == [kind |-> "missing", val |-> 0]
IdleServer == [kind |-> "idle"]

VARIABLES
  defs,  \* workflow_definitions
  snap,  \* workflow_definition_versions: the frozen graph of each version
  runs,  \* the runs, in the order of their creation
  pc     \* what a process is in the middle of

defVars == <<defs, snap, runs, pc>>

(* The plan a run was created from (of, history), and the one its          *)
(* execution holds in memory.                                              *)
BoundRun == [id : Ids, version : 1 .. MaxVersion, of : Graphs, mem : Snapshot, node : STRING,
        input : Inputs, status : {"pending", "running", "paused", "ended", "lost"}]

DefTypeOK ==
  /\ defs \in [Ids -> [status : {"none", "draft", "active", "deprecated"}, graph : Snapshot]]
  /\ snap \in [Ids -> [1 .. MaxVersion -> Snapshot]]
  /\ runs \in Seq(BoundRun) /\ Len(runs) <= MaxRuns

DefInit ==
  /\ defs = [i \in Ids |-> [status |-> "none", graph |-> NoGraph]]
  /\ snap = [i \in Ids |-> [v \in 1 .. MaxVersion |-> NoGraph]]
  /\ runs = <<>>
  /\ pc = [s \in Servers |-> IdleServer]

-----------------------------------------------------------------------------
(* Conditions.  A field of the event is always allowed; the field of an    *)
(* output is known by the id of its node.                                  *)

AllowedFields == {"risk_assessment", "current_event"}
KnownIds == {"rule_router", "evidence_evaluate", "g", "a"}

ValidSimple(c) == c.op \in SimpleOp /\ c.field \in AllowedFields \cup KnownIds

ValidCondition_AsShallow(c) ==
  IF c.op \in CompoundOp THEN c.conditions # <<>> ELSE ValidSimple(c)

(* validate_condition_structure *)
ValidCondition(c) ==
  IF c.op \in CompoundOp
  THEN c.conditions # <<>> /\ \A i \in DOMAIN c.conditions : ValidSimple(c.conditions[i])
  ELSE ValidSimple(c)

Truth(b) == IF b THEN "true" ELSE "false"

(* _resolve_field and _eval_simple.  Values are [kind, val]; "unreadable"  *)
(* and "undefined" are the errors of the two.                              *)
EvalSimple(c, input, ids) ==
  IF c.op \notin SimpleOp \/ c.field \notin AllowedFields \cup ids THEN "unreadable"
  ELSE IF c.op = "exists" THEN Truth(input[c.field] # Missing)
  ELSE IF input[c.field] = Missing THEN "undefined"
  ELSE IF c.op = "eq" THEN Truth(input[c.field] = c.value)
  ELSE IF input[c.field].kind # "number" \/ c.value.kind # "number" THEN "undefined"
  ELSE Truth(input[c.field].val >= c.value.val)

(* evaluate_condition: every part is evaluated, and one that fails fails   *)
(* the whole.                                                              *)
Eval(c, input, ids) ==
  IF c.op \notin CompoundOp THEN EvalSimple(c, input, ids)
  ELSE LET results == {EvalSimple(c.conditions[i], input, ids) : i \in DOMAIN c.conditions} IN
       IF "unreadable" \in results \/ c.conditions = <<>> THEN "unreadable"
       ELSE IF "undefined" \in results THEN "undefined"
       ELSE Truth(IF c.op = "all" THEN results = {"true"} ELSE "true" \in results)

-----------------------------------------------------------------------------
(* Definitions.                                                            *)

NodeIds(g) == {n.id : n \in g.nodes}
NodeOf(g, id) == CHOOSE n \in g.nodes : n.id = id

(* WorkflowDefinition.validate *)
ValidGraph(g) ==
  /\ g.entry \in NodeIds(g) /\ NodeOf(g, g.entry).type = "trigger"
  /\ \E n \in g.nodes : n.type = "close"
  /\ \A n \in g.nodes :
       /\ \A i \in DOMAIN n.next : n.next[i] \in NodeIds(g)
       /\ n.type = "risk_gate" => ValidCondition(n.condition)

(* create_definition, seed_workflow_templates, POST /plans. *)
Define(i, g) ==
  /\ defs[i].status = "none" /\ ValidGraph(g)
  /\ defs' = [defs EXCEPT ![i] = [status |-> IF g \in Drafts THEN "draft" ELSE "active",
                                  graph |-> g]]
  /\ UNCHANGED <<snap, runs, pc>>

Latest(i) == Cardinality({v \in 1 .. MaxVersion : snap[i][v] # NoGraph})

(* A handler reads the definition and, for a version, the latest number.   *)
BeginHandler(s, i, kind, input) ==
  /\ pc[s] = IdleServer /\ defs[i].status # "none" /\ Latest(i) < MaxVersion
  /\ CASE kind = "activate" -> defs[i].status # "active"
       [] kind = "deprecate" -> TRUE
       [] OTHER -> /\ ValidGraph(defs[i].graph) /\ defs[i].status # "deprecated"
                   /\ Len(runs) < MaxRuns
  /\ pc' = [pc EXCEPT ![s] = [kind |-> kind, id |-> i, def |-> defs[i], n |-> Latest(i),
                              input |-> input, saved |-> FALSE]]
  /\ UNCHANGED <<defs, snap, runs>>

(* create_version: INSERT OR REPLACE under the next number, which replaces *)
(* the row that took this number in between.                               *)
Freeze(s) ==
  /\ pc[s].kind \in {"start", "create", "activate"} /\ ~pc[s].saved
  /\ snap' = [snap EXCEPT ![pc[s].id][pc[s].n + 1] = pc[s].def.graph]
  /\ pc' = [pc EXCEPT ![s].saved = TRUE]
  /\ UNCHANGED <<defs, runs>>

NewRunRow(i, v, g, mem, input) ==
  [id |-> i, version |-> v, of |-> g, mem |-> mem, node |-> g.entry, input |-> input,
   status |-> IF mem = NoGraph THEN "pending" ELSE "running"]

(* start executes the definition it read; a run created for the driver     *)
(* waits.                                                                  *)
SaveRun(s) ==
  /\ pc[s].kind \in {"start", "create"} /\ pc[s].saved /\ Len(runs) < MaxRuns
  /\ LET g == pc[s].def.graph IN
       runs' = Append(runs, NewRunRow(pc[s].id, pc[s].n + 1, g,
                                   IF pc[s].kind = "start" THEN g ELSE NoGraph, pc[s].input))
  /\ pc' = [pc EXCEPT ![s] = IdleServer]
  /\ UNCHANGED <<defs, snap>>

(* activate_definition and deprecate_definition write the whole row back.  *)
SaveDefinition(s) ==
  /\ \/ pc[s].kind = "activate" /\ pc[s].saved
     \/ pc[s].kind = "deprecate"
  /\ defs' = [defs EXCEPT ![pc[s].id] =
       [pc[s].def EXCEPT !.status = IF pc[s].kind = "activate" THEN "active" ELSE "deprecated"]]
  /\ pc' = [pc EXCEPT ![s] = IdleServer]
  /\ UNCHANGED <<snap, runs>>

DefCrash(s) ==
  /\ pc[s] # IdleServer
  /\ pc' = [pc EXCEPT ![s] = IdleServer]
  /\ UNCHANGED <<defs, snap, runs>>

(* A process that is in the middle of a handler does nothing else.         *)
ServerFree == \E s \in Servers : pc[s] = IdleServer

Successor_AsParents(r) == runs[r].version + 1
Successor(r) == Latest(runs[r].id) + 1

(* create_child_continuation_tx: number, snapshot and child in one         *)
(* transaction.                                                            *)
Replan(r, g) ==
  /\ ServerFree /\ runs[r].status = "ended" /\ Len(runs) < MaxRuns
  /\ Successor(r) <= MaxVersion /\ ValidGraph(g)
  /\ snap' = [snap EXCEPT ![runs[r].id][Successor(r)] = g]
  /\ runs' = Append(runs, NewRunRow(runs[r].id, Successor(r), g, NoGraph, runs[r].input))
  /\ UNCHANGED <<defs, pc>>

-----------------------------------------------------------------------------
(* Runs.                                                                   *)

Change(r, new) == runs' = [runs EXCEPT ![r] = new] /\ UNCHANGED <<defs, snap, pc>>

(* get_definition_at_version *)
Frozen(r) == snap[runs[r].id][runs[r].version]

(* execute_created_run and resume. *)
TakeUp(r) ==
  /\ ServerFree /\ runs[r].status \in {"pending", "paused"}
  /\ Change(r, [runs[r] EXCEPT !.mem = Frozen(r), !.status = "running"])

(* _determine_next_node; of an output nothing is ever injected.            *)
NextNode(r) ==
  LET run == runs[r]
      n == NodeOf(run.mem, run.node)
      yes == n.type = "risk_gate" /\ Eval(n.condition, run.input, NodeIds(run.mem)) = "true"
  IN
    IF n.type = "close" \/ n.next = <<>> THEN ""
    ELSE IF n.type = "risk_gate" /\ Len(n.next) > 1 /\ ~yes THEN n.next[2]
    ELSE n.next[1]

(* A node succeeds, or a wait pauses the run, or the run stands at a node  *)
(* that its definition does not have and is left running by nobody.        *)
Walk(r) ==
  /\ ServerFree /\ runs[r].status = "running"
  /\ IF runs[r].node \notin NodeIds(runs[r].mem)
     THEN Change(r, [runs[r] EXCEPT !.status = "lost", !.mem = NoGraph])
     ELSE \/ IF NextNode(r) = ""
             THEN Change(r, [runs[r] EXCEPT !.status = "ended", !.mem = NoGraph])
             ELSE Change(r, [runs[r] EXCEPT !.node = NextNode(r)])
          \/ /\ NodeOf(runs[r].mem, runs[r].node).type = "wait"
             /\ Change(r, [runs[r] EXCEPT !.status = "paused", !.mem = NoGraph])

DefNext ==
  \/ \E i \in Ids, g \in Graphs : Define(i, g)
  \/ \E s \in Servers :
       \/ \E i \in Ids, x \in Inputs, k \in {"start", "create"} : BeginHandler(s, i, k, x)
       \/ \E i \in Ids, k \in {"activate", "deprecate"} :
            BeginHandler(s, i, k, CHOOSE x \in Inputs : TRUE)
       \/ Freeze(s) \/ SaveRun(s) \/ SaveDefinition(s) \/ DefCrash(s)
  \/ \E r \in DOMAIN runs :
       TakeUp(r) \/ Walk(r) \/ \E g \in Graphs : Replan(r, g)

DefSpec == DefInit /\ [][DefNext]_defVars

-----------------------------------------------------------------------------
(* Properties.                                                             *)

(* "A run is bound to its version and is not affected by later changes"    *)
(* (definition.py): the snapshot of a run is the plan it was created from, *)
(* whatever is started, activated or replanned next to it, and this is     *)
(* what it executes, also after a pause.                                   *)
RunKeepsItsPlan ==
  \A r \in DOMAIN runs : Frozen(r) = runs[r].of /\ runs[r].mem \in {NoGraph, runs[r].of}

(* What a definition was validated for can be evaluated: the condition of  *)
(* a gate that names no node outside of the definition fails only on       *)
(* values that are missing or of another kind.                             *)
Names(c) == IF c.op \in CompoundOp
            THEN {c.conditions[i].field : i \in DOMAIN c.conditions} ELSE {c.field}
GatesAreReadable ==
  \A r \in DOMAIN runs : \A n \in runs[r].of.nodes :
    n.type = "risk_gate" /\ Names(n.condition) \cap KnownIds \subseteq NodeIds(runs[r].of) =>
      Eval(n.condition, runs[r].input, NodeIds(runs[r].of)) # "unreadable"

(* Within one server process a run keeps the plan it was bound to, and a   *)
(* condition that was accepted can be evaluated (definition.py,            *)
(* condition.py).                                                          *)
DefinitionsHold == RunKeepsItsPlan /\ GatesAreReadable
=============================================================================
