--------------------------- MODULE WorkflowRun_proof ---------------------------
(* Theorems about WorkflowRun, for every workflow, every number of         *)
(* executions and attempts, and any number of requests.                    *)
EXTENDS WorkflowRun, TLAPS

USE KeyAssumption, ExecAssumption, BoundAssumption

(* What the assumption on the definitions says of the one of this run. *)
LEMMA PlanFacts ==
  ASSUME plan \in Templates \cup Planned
  PROVE  /\ 1 \in Node /\ Node \subseteq Nat \ {0}
         /\ \A n \in Node :
              /\ plan[n] \in NodeConfig
              /\ plan[n].auto \in Node \cup {0}
              /\ plan[n].kind = "gate" => plan[n].key \in Key
              /\ plan[n].kind # "close" => n + 1 \in Node
<1>1. plan \in Seq(NodeConfig) /\ plan # <<>>
  BY PlanAssumption
<1>2. DOMAIN plan = 1 .. Len(plan) /\ Len(plan) \in Nat /\ Len(plan) # 0
  BY <1>1
<1>3. \A n \in DOMAIN plan : plan[n] \in NodeConfig
  BY <1>1, <1>2
<1>4. QED
  BY <1>2, <1>3, PlanAssumption DEF Node

LEMMA NewRunType ==
  ASSUME plan \in Templates \cup Planned
  PROVE  NewRun \in Copy
  BY PlanFacts DEF NewRun, Copy, NoQuestion, Status

LEMMA TypeInit == Init => TypeOK
<1> SUFFICES ASSUME Init PROVE TypeOK
  OBVIOUS
<1>1. plan \in Templates \cup Planned /\ managed \in BOOLEAN
  BY DEF Init
<1>2. NewRun \in Copy /\ 1 \in Node
  BY <1>1, NewRunType, PlanFacts
<1>3. row \in Copy /\ mem \in [Exec -> Copy] /\ pos \in [Exec -> Node]
  BY <1>2 DEF Init
<1>4. phase \in [Exec -> Phase]
  BY DEF Init, Phase
<1>5. /\ holder \in Exec \cup {NoExec}
      /\ record \in [Node -> {"none", "executing", "succeeded", "failed"}]
      /\ tries \in [Exec -> 1 .. MaxAttempts]
      /\ open \in [Node -> Int]
      /\ granted \in SUBSET Key
      /\ manual \in 0 .. MaxManual
  BY DEF Init
<1>6. fenced \in [Exec -> BOOLEAN] /\ risky \in BOOLEAN
  BY DEF Init
<1>7. QED
  BY <1>1, <1>3, <1>4, <1>5, <1>6 DEF TypeOK

-----------------------------------------------------------------------------
(* The variables of the executions, and what the helpers of the actions    *)
(* leave behind.                                                           *)

TypedExecs ==
  /\ phase \in [Exec -> Phase]
  /\ fenced \in [Exec -> BOOLEAN]
  /\ pos \in [Exec -> Node]
  /\ tries \in [Exec -> 1 .. MaxAttempts]
  /\ mem \in [Exec -> Copy]
  /\ holder \in Exec \cup {NoExec}

LEMMA EndType ==
  ASSUME TypeOK, definition' = definition, NEW e \in Exec, End(e)
  PROVE  TypedExecs'
<1>1. NewRun \in Copy /\ 1 \in Node /\ "idle" \in Phase /\ 1 \in 1 .. MaxAttempts
  BY NewRunType, PlanFacts DEF TypeOK, Phase
<1>2. Node' = Node /\ Copy' = Copy
  BY DEF definition, Node, Copy
<1>3. QED
  BY <1>1, <1>2 DEF TypeOK, TypedExecs, End, Goto, Remember

LEMMA LoopType ==
  ASSUME TypeOK, definition' = definition, NEW e \in Exec, NEW m \in Copy, NEW n \in Node,
         Loop(e, m, n), fenced' \in [Exec -> BOOLEAN], holder' \in Exec \cup {NoExec}
  PROVE  TypedExecs'
<1>1. "enter" \in Phase /\ 1 \in 1 .. MaxAttempts
  BY DEF Phase
<1>2. Node' = Node /\ Copy' = Copy
  BY DEF definition, Node, Copy
<1>3. QED
  BY <1>1, <1>2 DEF TypeOK, TypedExecs, Loop, Goto, Remember

LEMMA NodeReturnsType ==
  ASSUME TypeOK, definition' = definition, NEW e \in Exec, NEW m \in Copy, NodeReturns(e, m)
  PROVE  TypedExecs'
<1>1. "after" \in Phase
  BY DEF Phase
<1>2. Node' = Node /\ Copy' = Copy
  BY DEF definition, Node, Copy
<1>3. CASE End(e)
  BY <1>3, EndType
<1>4. CASE ~End(e)
  BY <1>1, <1>2, <1>4 DEF TypeOK, TypedExecs, NodeReturns, Goto, Remember
<1>5. QED
  BY <1>3, <1>4

LEMMA OutputType ==
  ASSUME TypeOK, NEW e \in Exec
  PROVE  /\ mem[e] \in Copy /\ Output(e) \in Copy /\ Failed(e) \in Copy
         /\ \A s \in Status : [Output(e) EXCEPT !.status = s] \in Copy
<1>1. mem[e] \in Copy /\ pos[e] \in Node
  BY DEF TypeOK
<1>2. "failed" \in Status
  BY DEF Status
<1>3. QED
  BY <1>1, <1>2 DEF Output, Failed, Copy

LEMMA AttemptFailsType ==
  ASSUME TypeOK, definition' = definition, NEW e \in Exec, AttemptFails(e)
  PROVE  TypedExecs'
<1>1. CASE NodeReturns(e, Failed(e))
  BY <1>1, OutputType, NodeReturnsType
<1>2. CASE ~NodeReturns(e, Failed(e))
  <2>1. "enter" \in Phase /\ Node' = Node /\ Copy' = Copy
    BY DEF Phase, definition, Node, Copy
  <2>2. QED
    BY <1>2, <2>1 DEF TypeOK, TypedExecs, AttemptFails, Goto
<1>3. QED
  BY <1>1, <1>2

(* The variables that no body of a node changes, and those it may. *)
LEMMA BodyType ==
  ASSUME TypeOK, Unaffected, TypedExecs',
         record' \in [Node -> {"none", "executing", "succeeded", "failed"}],
         open' \in [Node -> Int]
  PROVE  TypeOK'
<1>1. Node' = Node /\ Copy' = Copy
  BY DEF Unaffected, definition, Node, Copy
<1>2. QED
  BY <1>1 DEF TypeOK, Unaffected, TypedExecs, definition

(* A gate asks for its own key, and for the keys that agents have proposed. *)
QuestionOf(e, keys) ==
  [Output(e) EXCEPT !.status = "awaiting", !.pending = [node |-> pos[e], keys |-> keys]]

LEMMA QuestionType ==
  ASSUME TypeOK, NEW e \in Exec, NEW keys \in SUBSET Key
  PROVE  QuestionOf(e, keys) \in Copy
<1>1. Output(e) \in Copy /\ pos[e] \in Node /\ "awaiting" \in Status
  BY OutputType DEF TypeOK, Status
<1>2. QED
  BY <1>1 DEF QuestionOf, Copy

LEMMA GateCases ==
  ASSUME TypeOK, NEW e \in Exec, HumanApproval(e)
  PROVE  \/ NodeReturns(e, Output(e))
         \/ \E keys \in SUBSET Key : NodeReturns(e, QuestionOf(e, keys))
<1>1. plan[pos[e]].key \in Key
  BY PlanFacts DEF TypeOK, HumanApproval, Inside
<1>2. QED
  BY <1>1 DEF HumanApproval, QuestionOf

LEMMA ComputeReturns ==
  ASSUME TypeOK, NEW e \in Exec,
         Task(e) \/ HumanApproval(e) \/ Wait(e) \/ Close(e) \/ SkipAction(e)
  PROVE  \E m \in Copy : NodeReturns(e, m)
<1>1. /\ Output(e) \in Copy /\ Failed(e) \in Copy
      /\ [Output(e) EXCEPT !.status = "paused"] \in Copy
      /\ [Output(e) EXCEPT !.status = "completed"] \in Copy
  BY OutputType DEF Status
<1>2. CASE HumanApproval(e)
  BY <1>1, <1>2, GateCases, QuestionType
<1>3. CASE Wait(e)
  <2>1. CASE mem[e].waited = pos[e]
    BY <1>1, <1>3, <2>1 DEF Wait
  <2>2. CASE mem[e].waited # pos[e]
    BY <1>1, <1>3, <2>2 DEF Wait
  <2>3. QED
    BY <2>1, <2>2
<1>4. CASE Task(e)
  BY <1>1, <1>4 DEF Task
<1>5. CASE Close(e)
  BY <1>1, <1>5 DEF Close
<1>6. CASE SkipAction(e)
  BY <1>1, <1>6 DEF SkipAction
<1>7. QED
  BY <1>2, <1>3, <1>4, <1>5, <1>6

LEMMA ComputeType ==
  ASSUME TypeOK, NEW e \in Exec,
         Task(e) \/ HumanApproval(e) \/ Wait(e) \/ Close(e) \/ SkipAction(e)
  PROVE  TypeOK'
<1>1. Unaffected /\ record' = record /\ open' = open /\ definition' = definition
  BY DEF Task, HumanApproval, Wait, Close, SkipAction, Unaffected
<1>2. TypedExecs'
  BY <1>1, ComputeReturns, NodeReturnsType
<1>3. QED
  BY <1>1, <1>2, BodyType DEF TypeOK

LEMMA ActionType ==
  ASSUME TypeOK, NEW e \in Exec,
         \/ RefuseAction(e) \/ DispatchAction(e)
         \/ CallSucceeds(e) \/ CallFails(e) \/ CallTimesOut(e)
  PROVE  TypeOK'
<1>1. Unaffected /\ definition' = definition
  BY DEF RefuseAction, DispatchAction, CallSucceeds, CallFails, CallTimesOut, Unaffected
<1>2. /\ record' \in [Node -> {"none", "executing", "succeeded", "failed"}]
      /\ open' \in [Node -> Int]
  BY DEF TypeOK, RefuseAction, DispatchAction, CallSucceeds, CallFails, CallTimesOut
<1>3. TypedExecs'
  <2>1. CASE DispatchAction(e)
    <3>1. "call" \in Phase /\ Node' = Node /\ Copy' = Copy
      BY <1>1 DEF Phase, definition, Node, Copy
    <3>2. QED
      BY <2>1, <3>1 DEF DispatchAction, Goto, TypeOK, TypedExecs
  <2>2. CASE CallSucceeds(e)
    BY <1>1, <2>2, OutputType, NodeReturnsType DEF CallSucceeds
  <2>3. CASE RefuseAction(e) \/ CallFails(e) \/ CallTimesOut(e)
    BY <1>1, <2>3, AttemptFailsType DEF RefuseAction, CallFails, CallTimesOut
  <2>4. QED
    BY <2>1, <2>2, <2>3
<1>4. QED
  BY <1>1, <1>2, <1>3, BodyType

LEMMA FrameType ==
  ASSUME TypeOK, TypedExecs', row' \in Copy',
         UNCHANGED <<definition, record, granted, open, manual>>
  PROVE  TypeOK'
<1>1. Node' = Node /\ plan' = plan /\ managed' = managed /\ risky' = risky
  BY DEF definition, Node
<1>2. record' = record /\ granted' = granted /\ open' = open /\ manual' = manual
  OBVIOUS
<1>3. QED
  BY <1>1, <1>2 DEF TypeOK, TypedExecs

LEMMA NextNodeType ==
  ASSUME plan \in Templates \cup Planned, NEW n \in Node, plan[n].kind # "close"
  PROVE  NextNode(n) \in Node
  BY PlanFacts DEF NextNode

(* Every step preserves the type invariant: an execution does not run over *)
(* the end of its plan, nor a decision, which continues behind a gate.     *)
LEMMA TypeStep == TypeOK /\ WellPlaced /\ [Next]_vars => TypeOK'
<1> SUFFICES ASSUME TypeOK, WellPlaced, [Next]_vars PROVE TypeOK'
  OBVIOUS
<1>0. definition' = definition
  BY DEF Next, Body, Start, ExecuteCreatedRun, Resume, Disconnect, Task, HumanApproval, Wait,
     Close, SkipAction, RefuseAction, DispatchAction, CallSucceeds, CallFails, CallTimesOut,
     Advance, Stop, Cancel, Decide, Reject, RetryNode, Unaffected, definition, vars
<1>n. Node' = Node /\ Copy' = Copy
  BY <1>0 DEF definition, Node, Copy
<1>s. \A c \in Copy, s \in Status : [c EXCEPT !.status = s] \in Copy
  BY DEF Copy
<1>1. ASSUME NEW e \in Exec, Start(e) PROVE TypeOK'
  <2>1. Running(mem[e]) \in Copy /\ 1 \in Node
    BY <1>s, PlanFacts DEF TypeOK, Running, Status
  <2>2. TypedExecs'
    BY <1>0, <1>1, <2>1, LoopType DEF Start, TypeOK
  <2>3. QED
    BY <1>0, <1>n, <1>1, <2>1, <2>2 DEF Start, TypeOK, TypedExecs, definition
<1>2. ASSUME NEW e \in Exec, ExecuteCreatedRun(e) PROVE TypeOK'
  <2>1. Running(row) \in Copy /\ 1 \in Node
    BY <1>s, PlanFacts DEF TypeOK, Running, Status
  <2>2. fenced' \in [Exec -> BOOLEAN] /\ holder' \in Exec \cup {NoExec}
    BY <1>2 DEF ExecuteCreatedRun, TypeOK
  <2>3. TypedExecs'
    BY <1>0, <1>2, <2>1, <2>2, LoopType DEF ExecuteCreatedRun
  <2>4. QED
    BY <1>0, <1>n, <1>2, <2>1, <2>3 DEF ExecuteCreatedRun, TypeOK, TypedExecs, definition
<1>3. ASSUME NEW e \in Exec, Resume(e) PROVE TypeOK'
  <2>1. Running(row) \in Copy /\ row.at \in Node
    BY <1>s DEF TypeOK, Running, Status, Copy
  <2>2. TypedExecs'
    BY <1>0, <1>3, <2>1, LoopType DEF Resume, TypeOK
  <2>3. manual' \in 0 .. MaxManual
    BY <1>3 DEF Resume, TypeOK
  <2>4. QED
    BY <1>0, <1>n, <1>3, <2>2, <2>3 DEF Resume, TypeOK, TypedExecs, definition
<1>4. ASSUME NEW e \in Exec, Disconnect(e) PROVE TypeOK'
  BY <1>0, <1>n, <1>4, EndType DEF Disconnect, TypeOK, TypedExecs, definition
<1>5. ASSUME NEW e \in Exec, Body(e) PROVE TypeOK'
  BY <1>5, ComputeType, ActionType DEF Body
<1>6. ASSUME NEW e \in Exec, Advance(e) PROVE TypeOK'
  <2> DEFINE m == [mem[e] EXCEPT !.at = NextNode(pos[e])]
  <2>1. NextNode(pos[e]) \in Node
    BY <1>6, NextNodeType DEF Advance, WellPlaced, TypeOK
  <2>2. m \in Copy /\ m.at \in Node
    BY <2>1 DEF TypeOK, Copy
  <2>3. CASE End(e)
    <3>1. TypedExecs'
      BY <1>0, <2>3, EndType
    <3>2. row' \in Copy
      BY <1>6, <2>2 DEF Advance, TypeOK
    <3>3. UNCHANGED <<definition, record, granted, open, manual>>
      BY <1>6 DEF Advance
    <3>4. QED
      BY <1>n, <3>1, <3>2, <3>3, FrameType
  <2>4. CASE Loop(e, m, m.at) /\ row' = m /\ UNCHANGED <<holder, fenced>>
    <3>1. TypedExecs'
      BY <1>0, <2>2, <2>4, LoopType DEF TypeOK
    <3>2. QED
      BY <1>0, <1>n, <1>6, <2>2, <2>4, <3>1 DEF Advance, TypeOK, TypedExecs, definition
  <2>5. QED
    BY <1>6, <2>3, <2>4 DEF Advance
<1>7. ASSUME NEW e \in Exec, Stop(e) PROVE TypeOK'
  BY <1>0, <1>n, <1>7, EndType DEF Stop, TypeOK, TypedExecs, definition
<1>8. CASE Cancel
  <2>1. row' \in Copy
    BY <1>s, <1>8 DEF Cancel, TypeOK, Status
  <2>2. QED
    BY <1>n, <1>8, <2>1 DEF Cancel, TypeOK, definition, execs
<1>9. CASE Decide
  <2>1. PICK keys \in SUBSET Key : Approve(keys)
    BY <1>9 DEF Decide, TypeOK, Copy
  <2>2. row.pending.node + 1 \in Node
    BY <2>1, PlanFacts DEF Approve, WellPlaced, AsksAtGate, TypeOK
  <2>3. NoQuestion \in [node : Node \cup {0}, keys : SUBSET Key]
    BY DEF NoQuestion
  <2>4. row' \in Copy
    BY <2>1, <2>2, <2>3 DEF Approve, TypeOK, Copy, Status
  <2>5. QED
    BY <1>n, <1>9, <2>1, <2>4 DEF Decide, Approve, TypeOK, definition, execs
<1>10. CASE Reject
  <2>1. NoQuestion \in [node : Node \cup {0}, keys : SUBSET Key]
    BY DEF NoQuestion
  <2>2. row' \in Copy
    BY <1>10, <2>1 DEF Reject, TypeOK, Copy, Status
  <2>3. QED
    BY <1>n, <1>10, <2>2 DEF Reject, TypeOK, definition, execs
<1>11. ASSUME NEW n \in Node, RetryNode(n) PROVE TypeOK'
  <2>1. row' \in Copy
    BY <1>11 DEF RetryNode, TypeOK, Copy
  <2>2. manual' \in 0 .. MaxManual
    BY <1>11 DEF RetryNode, TypeOK
  <2>3. QED
    BY <1>n, <1>11, <2>1, <2>2 DEF RetryNode, TypeOK, definition, execs
<1>12. CASE UNCHANGED vars
  BY <1>n, <1>12 DEF vars, TypeOK
<1>13. QED
  BY <1>1, <1>2, <1>3, <1>4, <1>5, <1>6, <1>7, <1>8, <1>9, <1>10, <1>11, <1>12 DEF Next

-----------------------------------------------------------------------------
(* Where executions stand, and who asks.                                   *)

LEMMA PlacedInit == Init => WellPlaced
<1>1. AsksAtGate(NewRun)
  BY DEF AsksAtGate, NewRun
<1>2. QED
  BY <1>1 DEF Init, WellPlaced, At

(* What an execution may do without disturbing it. *)
LEMMA PlacedEnd ==
  ASSUME TypeOK, WellPlaced, definition' = definition, AsksAtGate(row)', NEW e \in Exec, End(e)
  PROVE  WellPlaced'
<1>1. plan' = plan /\ Node' = Node
  BY DEF definition, Node
<1>2. AsksAtGate(NewRun)
  BY DEF AsksAtGate, NewRun
<1>3. QED
  BY <1>1, <1>2 DEF TypeOK, WellPlaced, AsksAtGate, At, End, Goto, Remember

LEMMA PlacedLoop ==
  ASSUME TypeOK, WellPlaced, definition' = definition, AsksAtGate(row)',
         NEW e \in Exec, NEW m \in Copy, NEW n \in Node, Loop(e, m, n), AsksAtGate(m)
  PROVE  WellPlaced'
<1>1. plan' = plan /\ Node' = Node
  BY DEF definition, Node
<1>2. QED
  BY <1>1 DEF TypeOK, WellPlaced, AsksAtGate, At, Loop, Goto, Remember

LEMMA PlacedReturn ==
  ASSUME TypeOK, WellPlaced, definition' = definition, row' = row,
         NEW e \in Exec, NEW m \in Copy, NodeReturns(e, m), AsksAtGate(m),
         m.status = "running" => plan[pos[e]].kind # "close"
  PROVE  WellPlaced'
<1>1. plan' = plan /\ Node' = Node
  BY DEF definition, Node
<1>2. AsksAtGate(row)'
  BY <1>1 DEF WellPlaced, AsksAtGate
<1>3. CASE End(e)
  BY <1>2, <1>3, PlacedEnd
<1>4. CASE ~End(e)
  BY <1>1, <1>2, <1>4 DEF TypeOK, WellPlaced, AsksAtGate, At, NodeReturns, Goto, Remember
<1>5. QED
  BY <1>3, <1>4

LEMMA PlacedFailure ==
  ASSUME TypeOK, WellPlaced, definition' = definition, row' = row,
         NEW e \in Exec, AttemptFails(e)
  PROVE  WellPlaced'
<1>1. CASE NodeReturns(e, Failed(e))
  <2>1. Failed(e) \in Copy /\ Failed(e).status = "failed" /\ AsksAtGate(Failed(e))
    BY OutputType DEF TypeOK, Copy, Failed, WellPlaced, AsksAtGate
  <2>2. QED
    BY <1>1, <2>1, PlacedReturn
<1>2. CASE ~NodeReturns(e, Failed(e))
  <2>1. plan' = plan /\ Node' = Node
    BY DEF definition, Node
  <2>2. QED
    BY <1>2, <2>1 DEF TypeOK, WellPlaced, AsksAtGate, At, AttemptFails, Goto
<1>3. QED
  BY <1>1, <1>2

LEMMA PlacedBody ==
  ASSUME TypeOK, WellPlaced, NEW e \in Exec, Body(e)
  PROVE  WellPlaced'
<1>1. definition' = definition /\ row' = row
  BY DEF Body, Task, HumanApproval, Wait, Close, SkipAction, RefuseAction, DispatchAction,
     CallSucceeds, CallFails, CallTimesOut, Unaffected
<1>2. /\ Output(e) \in Copy /\ AsksAtGate(Output(e))
      /\ Failed(e) \in Copy /\ AsksAtGate(Failed(e)) /\ Failed(e).status = "failed"
  BY OutputType DEF TypeOK, Copy, Output, Failed, WellPlaced, AsksAtGate
<1>3. ASSUME NEW s \in Status
      PROVE  LET m == [Output(e) EXCEPT !.status = s]
             IN  m \in Copy /\ AsksAtGate(m) /\ m.status = s
  BY <1>2, OutputType DEF Copy, AsksAtGate
<1>4. CASE Task(e) \/ SkipAction(e)
  <2>1. plan[pos[e]].kind # "close"
    BY <1>4 DEF Task, SkipAction, Inside
  <2>2. NodeReturns(e, Output(e)) \/ NodeReturns(e, Failed(e))
    BY <1>4 DEF Task, SkipAction
  <2>3. QED
    BY <1>1, <1>2, <2>1, <2>2, PlacedReturn
<1>5. CASE HumanApproval(e)
  <2>1. plan[pos[e]].kind = "gate" /\ pos[e] \in Node
    BY <1>5 DEF HumanApproval, Inside, TypeOK
  <2>2. ASSUME NEW keys \in SUBSET Key
        PROVE  /\ QuestionOf(e, keys) \in Copy
               /\ AsksAtGate(QuestionOf(e, keys))
    BY <1>2, <2>1, QuestionType DEF QuestionOf, AsksAtGate, Copy
  <2>3. QED
    BY <1>1, <1>2, <1>5, <2>1, <2>2, GateCases, PlacedReturn
<1>6. CASE Wait(e)
  <2>1. plan[pos[e]].kind # "close"
    BY <1>6 DEF Wait, Inside
  <2>2. NodeReturns(e, Output(e)) \/ NodeReturns(e, [Output(e) EXCEPT !.status = "paused"])
    BY <1>6 DEF Wait
  <2>3. "paused" \in Status
    BY DEF Status
  <2>4. QED
    BY <1>1, <1>2, <1>3, <2>1, <2>2, <2>3, PlacedReturn
<1>7. CASE Close(e)
  <2>1. "completed" \in Status
    BY DEF Status
  <2>2. QED
    BY <1>1, <1>3, <1>7, <2>1, PlacedReturn DEF Close
<1>8. CASE DispatchAction(e)
  BY <1>1, <1>8 DEF DispatchAction, Inside, Goto, TypeOK, WellPlaced, AsksAtGate, At,
     definition, Node
<1>9. CASE CallSucceeds(e)
  <2>1. plan[pos[e]].kind = "action"
    BY <1>9 DEF CallSucceeds, WellPlaced
  <2>2. QED
    BY <1>1, <1>2, <1>9, <2>1, PlacedReturn DEF CallSucceeds
<1>10. CASE RefuseAction(e) \/ CallFails(e) \/ CallTimesOut(e)
  BY <1>1, <1>10, PlacedFailure DEF RefuseAction, CallFails, CallTimesOut
<1>11. QED
  BY <1>4, <1>5, <1>6, <1>7, <1>8, <1>9, <1>10 DEF Body

LEMMA PlacedStep == TypeOK /\ WellPlaced /\ [Next]_vars => WellPlaced'
<1> SUFFICES ASSUME TypeOK, WellPlaced, [Next]_vars PROVE WellPlaced'
  OBVIOUS
<1>1. ASSUME NEW e \in Exec, Start(e) \/ ExecuteCreatedRun(e) PROVE WellPlaced'
  <2>1. PICK c \in {mem[e], row} : row' = Running(c) /\ Loop(e, Running(c), 1)
    BY <1>1 DEF Start, ExecuteCreatedRun
  <2>2. definition' = definition
    BY <1>1 DEF Start, ExecuteCreatedRun
  <2>3. Running(c) \in Copy /\ AsksAtGate(Running(c)) /\ 1 \in Node
    <3>1. c \in Copy /\ AsksAtGate(c)
      BY DEF TypeOK, WellPlaced
    <3>2. Running(c) \in Copy /\ Running(c).pending = c.pending
      BY <3>1 DEF Copy, Running, Status
    <3>3. QED
      BY <3>1, <3>2, PlanFacts DEF AsksAtGate, TypeOK
  <2>4. AsksAtGate(row)'
    BY <2>1, <2>2, <2>3 DEF AsksAtGate, definition, Node
  <2>5. QED
    BY <2>1, <2>2, <2>3, <2>4, PlacedLoop
<1>2. ASSUME NEW e \in Exec, Resume(e) PROVE WellPlaced'
  <2>1. Running(row) \in Copy /\ AsksAtGate(Running(row)) /\ row.at \in Node
    BY DEF TypeOK, Copy, Running, Status, WellPlaced, AsksAtGate
  <2>2. definition' = definition /\ AsksAtGate(row)'
    BY <1>2 DEF Resume, WellPlaced, AsksAtGate, definition, Node
  <2>3. QED
    BY <1>2, <2>1, <2>2, PlacedLoop DEF Resume
<1>3. ASSUME NEW e \in Exec, Disconnect(e) PROVE WellPlaced'
  <2>1. definition' = definition /\ AsksAtGate(row)'
    BY <1>3 DEF Disconnect, WellPlaced, AsksAtGate, definition, Node
  <2>2. QED
    BY <1>3, <2>1, PlacedEnd DEF Disconnect
<1>4. ASSUME NEW e \in Exec, Body(e) PROVE WellPlaced'
  BY <1>4, PlacedBody
<1>5. ASSUME NEW e \in Exec, Advance(e) PROVE WellPlaced'
  <2> DEFINE m == [mem[e] EXCEPT !.at = NextNode(pos[e])]
  <2>1. NextNode(pos[e]) \in Node
    BY <1>5, NextNodeType DEF Advance, WellPlaced, TypeOK
  <2>2. m \in Copy /\ m.at \in Node /\ AsksAtGate(m)
    BY <2>1 DEF TypeOK, Copy, WellPlaced, AsksAtGate
  <2>3. definition' = definition /\ (row' = m \/ row' = row)
    BY <1>5 DEF Advance
  <2>4. AsksAtGate(row)'
    BY <2>2, <2>3 DEF WellPlaced, AsksAtGate, definition, Node
  <2>5. Loop(e, m, m.at) \/ End(e)
    BY <1>5 DEF Advance
  <2> HIDE DEF m
  <2>6. QED
    BY <2>2, <2>3, <2>4, <2>5, PlacedLoop, PlacedEnd
<1>6. ASSUME NEW e \in Exec, Stop(e) PROVE WellPlaced'
  <2>1. definition' = definition /\ AsksAtGate(row)'
    BY <1>6 DEF Stop, WellPlaced, AsksAtGate, definition, Node
  <2>2. QED
    BY <1>6, <2>1, PlacedEnd DEF Stop
<1>7. CASE Cancel \/ Decide \/ Reject \/ \E n \in Node : RetryNode(n)
  <2>1. UNCHANGED <<definition, execs>>
    BY <1>7 DEF Cancel, Decide, Reject, RetryNode
  <2>2. row'.pending \in {row.pending, NoQuestion}
    BY <1>7 DEF Cancel, Decide, Approve, Reject, RetryNode, TypeOK, Copy
  <2>3. QED
    BY <2>1, <2>2 DEF WellPlaced, AsksAtGate, At, definition, execs, Node
<1>8. CASE UNCHANGED vars
  BY <1>8 DEF vars, WellPlaced, AsksAtGate, At, Node
<1>9. QED
  BY <1>1, <1>2, <1>3, <1>4, <1>5, <1>6, <1>7, <1>8 DEF Next

(* No step of any execution, nor any request, puts a run into a state that *)
(* its type excludes: statuses, positions in the plan, questions.          *)
THEOREM TypeCorrect == Spec => []TypeOK
<1>1. Init => TypeOK /\ WellPlaced
  BY TypeInit, PlacedInit
<1>2. TypeOK /\ WellPlaced /\ [Next]_vars => (TypeOK /\ WellPlaced)'
  BY TypeStep, PlacedStep
<1>3. QED
  BY <1>1, <1>2, PTL DEF Spec

-----------------------------------------------------------------------------
(* What an execution does to its copy and to its place, in general: it     *)
(* ends, or keeps a copy that has the approvals of the old one.            *)

(* An execution that enters, calls or returns. *)
Moves(e, m) ==
  /\ \E p \in Phase \ {"idle", "start"} : Goto(e, p)
  /\ mem' \in {mem, [mem EXCEPT ![e] = m]}
  /\ UNCHANGED <<holder, fenced, pos>>

LEMMA BodyMoves ==
  ASSUME TypeOK, NEW e \in Exec, Body(e)
  PROVE  End(e) \/ \E m \in Copy : m.approved = mem[e].approved /\ Moves(e, m)
<1>1. mem[e] \in Copy /\ "enter" \in Phase /\ "call" \in Phase /\ "after" \in Phase
  BY DEF TypeOK, Phase
<1>2. ASSUME NEW m \in Copy, NodeReturns(e, m), m.approved = mem[e].approved
      PROVE  End(e) \/ \E c \in Copy : c.approved = mem[e].approved /\ Moves(e, c)
  BY <1>1, <1>2 DEF NodeReturns, Moves, Remember
<1>3. /\ Output(e) \in Copy /\ Output(e).approved = mem[e].approved
      /\ Failed(e) \in Copy /\ Failed(e).approved = mem[e].approved
  BY <1>1, OutputType DEF Output, Failed, Copy
<1>4. \A s \in Status : LET m == [Output(e) EXCEPT !.status = s]
                        IN  m \in Copy /\ m.approved = mem[e].approved
  BY <1>3, OutputType DEF Copy
<1>5. CASE AttemptFails(e)
  BY <1>1, <1>2, <1>3, <1>5 DEF AttemptFails, Moves
<1>6. CASE Task(e) \/ SkipAction(e) \/ CallSucceeds(e)
  BY <1>2, <1>3, <1>6 DEF Task, SkipAction, CallSucceeds
<1>7. CASE HumanApproval(e)
  <2>1. ASSUME NEW keys \in SUBSET Key
        PROVE  /\ QuestionOf(e, keys) \in Copy
               /\ QuestionOf(e, keys).approved = mem[e].approved
    BY <1>3, QuestionType DEF QuestionOf, Copy
  <2>2. QED
    BY <1>2, <1>3, <1>7, <2>1, GateCases
<1>8. CASE Wait(e) \/ Close(e)
  <2>1. "paused" \in Status /\ "completed" \in Status
    BY DEF Status
  <2>2. \/ NodeReturns(e, Output(e))
        \/ NodeReturns(e, [Output(e) EXCEPT !.status = "paused"])
        \/ NodeReturns(e, [Output(e) EXCEPT !.status = "completed"])
    BY <1>8 DEF Wait, Close
  <2>3. QED
    BY <1>2, <1>3, <1>4, <2>1, <2>2
<1>9. CASE DispatchAction(e)
  BY <1>1, <1>9 DEF DispatchAction, Moves
<1>10. QED
  BY <1>5, <1>6, <1>7, <1>8, <1>9 DEF Body, RefuseAction, CallFails, CallTimesOut

-----------------------------------------------------------------------------
(* Approvals.                                                              *)

LEMMA CopyKeepsGrants ==
  ASSUME TypeOK, ApprovedIsGranted, granted \subseteq granted', row'.approved \subseteq granted',
         NEW e \in Exec, NEW m \in Copy, m.approved \subseteq granted,
         mem' \in {mem, [mem EXCEPT ![e] = m], [mem EXCEPT ![e] = NewRun]}
  PROVE  ApprovedIsGranted'
<1>1. NewRun.approved = {}
  BY DEF NewRun
<1>2. \A f \in Exec : mem'[f].approved \in {mem[f].approved, m.approved, {}}
  BY <1>1 DEF TypeOK
<1>3. QED
  BY <1>2 DEF ApprovedIsGranted

LEMMA GrantsInit == Init => ApprovedIsGranted
  BY DEF Init, ApprovedIsGranted, NewRun

LEMMA GrantsStep == TypeOK /\ ApprovedIsGranted /\ [Next]_vars => ApprovedIsGranted'
<1> SUFFICES ASSUME TypeOK, ApprovedIsGranted, [Next]_vars PROVE ApprovedIsGranted'
  OBVIOUS
<1>0. ASSUME NEW c \in Copy
      PROVE  Running(c) \in Copy /\ Running(c).approved = c.approved
  BY DEF Running, Copy, Status
<1>1. row \in Copy /\ row.approved \subseteq granted
      /\ \A e \in Exec : mem[e] \in Copy /\ mem[e].approved \subseteq granted
  BY DEF TypeOK, ApprovedIsGranted
<1>2. ASSUME NEW e \in Exec, Start(e) \/ ExecuteCreatedRun(e) PROVE ApprovedIsGranted'
  <2>1. PICK c \in {mem[e], row} : row' = Running(c) /\ Loop(e, Running(c), 1)
    BY <1>2 DEF Start, ExecuteCreatedRun
  <2>2. granted' = granted
    BY <1>2 DEF Start, ExecuteCreatedRun
  <2>3. QED
    BY <1>0, <1>1, <2>1, <2>2, CopyKeepsGrants DEF Loop, Remember
<1>3. ASSUME NEW e \in Exec, Resume(e) PROVE ApprovedIsGranted'
  BY <1>0, <1>1, <1>3, CopyKeepsGrants DEF Resume, Loop, Remember
<1>4. ASSUME NEW e \in Exec, Disconnect(e) \/ Stop(e) PROVE ApprovedIsGranted'
  <2>1. granted' = granted /\ row' \in {row, mem[e]} /\ mem' = [mem EXCEPT ![e] = NewRun]
    BY <1>4 DEF Disconnect, Stop, End, Remember
  <2>2. QED
    BY <1>1, <2>1, CopyKeepsGrants
<1>5. ASSUME NEW e \in Exec, Body(e) PROVE ApprovedIsGranted'
  <2>1. granted' = granted /\ row' = row
    BY <1>5 DEF Body, Task, HumanApproval, Wait, Close, SkipAction, RefuseAction,
       DispatchAction, CallSucceeds, CallFails, CallTimesOut, Unaffected
  <2>2. CASE End(e)
    BY <1>1, <2>1, <2>2, CopyKeepsGrants DEF End, Remember
  <2>3. CASE \E m \in Copy : m.approved = mem[e].approved /\ Moves(e, m)
    BY <1>1, <2>1, <2>3, CopyKeepsGrants DEF Moves
  <2>4. QED
    BY <1>5, <2>2, <2>3, BodyMoves
<1>6. ASSUME NEW e \in Exec, Advance(e) PROVE ApprovedIsGranted'
  <2>1. granted' = granted /\ row'.approved \in {row.approved, mem[e].approved}
    BY <1>1, <1>6 DEF Advance, Copy
  <2>2. \A f \in Exec : mem'[f].approved \in {mem[f].approved, {}}
    BY <1>1, <1>6 DEF Advance, Loop, End, Remember, NewRun, TypeOK, Copy
  <2>3. QED
    BY <1>1, <2>1, <2>2 DEF ApprovedIsGranted
<1>7. CASE Cancel \/ Reject \/ \E n \in Node : RetryNode(n)
  <2>1. granted' = granted /\ mem' = mem
    BY <1>7 DEF Cancel, Reject, RetryNode, execs
  <2>2. row'.approved \in {row.approved, {}}
    BY <1>1, <1>7 DEF Cancel, Reject, RetryNode, Copy
  <2>3. QED
    BY <1>1, <2>1, <2>2 DEF ApprovedIsGranted
<1>8. CASE Decide
  <2>1. PICK keys : Approve(keys)
    BY <1>8 DEF Decide
  <2>2. row'.approved = keys /\ granted' = granted \cup keys /\ mem' = mem
    BY <1>1, <1>8, <2>1 DEF Decide, Approve, execs, Copy
  <2>3. QED
    BY <1>1, <2>2 DEF ApprovedIsGranted
<1>9. CASE UNCHANGED vars
  BY <1>9 DEF vars, ApprovedIsGranted
<1>10. QED
  BY <1>2, <1>3, <1>4, <1>5, <1>6, <1>7, <1>8, <1>9 DEF Next

-----------------------------------------------------------------------------
(* Calls.                                                                  *)

(* Only three steps touch the calls and the records. *)
LEMMA OtherStepsDoNotCall ==
  ASSUME [Next]_vars,
         \A e \in Exec : ~DispatchAction(e) /\ ~CallSucceeds(e) /\ ~CallFails(e)
  PROVE  UNCHANGED <<record, open>>
  BY DEF Next, Body, Start, ExecuteCreatedRun, Resume, Disconnect, Task, HumanApproval, Wait,
     Close, SkipAction, RefuseAction, CallTimesOut, Advance, Stop, Cancel, Decide, Reject,
     RetryNode, vars

LEMMA DefinitionFixed == [Next]_vars => definition' = definition /\ granted \subseteq granted'
  BY DEF Next, Body, Start, ExecuteCreatedRun, Resume, Disconnect, Task, HumanApproval, Wait,
     Close, SkipAction, RefuseAction, DispatchAction, CallSucceeds, CallFails, CallTimesOut,
     Advance, Stop, Cancel, Decide, Approve, Reject, RetryNode, Unaffected, definition, vars

LEMMA ApprovedCallsStep ==
  TypeOK /\ ApprovedIsGranted /\ OnlyApprovedCalls /\ [Next]_vars => OnlyApprovedCalls'
<1> SUFFICES ASSUME TypeOK, ApprovedIsGranted, OnlyApprovedCalls, [Next]_vars,
                    NEW n \in Node, open'[n] > 0, plan[n].key # NoKey
             PROVE  plan[n].key \in granted
  BY DefinitionFixed DEF OnlyApprovedCalls, definition, Node
<1>1. CASE open[n] > 0
  BY <1>1 DEF OnlyApprovedCalls
<1>2. CASE ~(open[n] > 0)
  <2>1. open' # open
    BY <1>2
  <2>2. ASSUME NEW e \in Exec, CallSucceeds(e) PROVE FALSE
    BY <2>1, <2>2 DEF CallSucceeds
  <2>3. ASSUME NEW e \in Exec, CallFails(e) PROVE FALSE
    BY <1>2, <2>3 DEF CallFails, TypeOK
  <2>4. PICK e \in Exec : DispatchAction(e)
    BY <2>1, <2>2, <2>3, OtherStepsDoNotCall
  <2>5. pos[e] = n
    BY <1>2, <2>4 DEF DispatchAction, TypeOK
  <2>6. QED
    BY <2>4, <2>5 DEF DispatchAction, Approved, ApprovedIsGranted
<1>3. QED
  BY <1>1, <1>2

(* A step that neither makes a call nor moves an execution that is in one. *)
LEMMA QuietStep ==
  ASSUME CallIsRecorded, Node' = Node, UNCHANGED <<record, open>>,
         \A f \in Exec : At(f, "call")' => At(f, "call") /\ pos'[f] = pos[f]
  PROVE  CallIsRecorded'
  BY DEF CallIsRecorded

LEMMA FailureLeavesCall ==
  ASSUME TypeOK, NEW e \in Exec,
         AttemptFails(e) \/ (\E m \in Copy : NodeReturns(e, m)) \/ End(e)
  PROVE  /\ ~At(e, "call")'
         /\ \A f \in Exec : f # e => phase'[f] = phase[f] /\ pos'[f] = pos[f]
<1>1. CASE End(e)
  BY <1>1 DEF End, Goto, At, TypeOK
<1>2. CASE ~End(e)
  BY <1>2 DEF AttemptFails, NodeReturns, Goto, At, TypeOK
<1>3. QED
  BY <1>1, <1>2

LEMMA RecordedInit == Init => CallIsRecorded
  BY DEF Init, CallIsRecorded, At

(* A call is begun only where none is open, and while it is in flight its  *)
(* record keeps every other execution from the same call.                  *)
LEMMA RecordedStep == TypeOK /\ CallIsRecorded /\ [Next]_vars => CallIsRecorded'
<1> SUFFICES ASSUME TypeOK, CallIsRecorded, [Next]_vars PROVE CallIsRecorded'
  OBVIOUS
<1>0. Node' = Node /\ \A e \in Exec : pos[e] \in Node
  BY DefinitionFixed DEF definition, Node, TypeOK
<1>1. ASSUME NEW e \in Exec, DispatchAction(e) PROVE CallIsRecorded'
  <2>1. open[pos[e]] = 0 /\ \A f \in Exec : At(f, "call") => pos[f] # pos[e]
    BY <1>0, <1>1 DEF DispatchAction, CallIsRecorded
  <2>2. /\ \A n \in Node : n # pos[e] => open'[n] = open[n] /\ record'[n] = record[n]
        /\ open'[pos[e]] = 1 /\ record'[pos[e]] = "executing"
        /\ pos' = pos
    BY <1>0, <1>1, <2>1 DEF DispatchAction, TypeOK
  <2>3. \A f \in Exec : At(f, "call")' <=> At(f, "call") \/ f = e
    BY <1>1 DEF DispatchAction, Goto, At, TypeOK
  <2>4. QED
    BY <1>0, <2>1, <2>2, <2>3 DEF CallIsRecorded
<1>2. ASSUME NEW e \in Exec, CallSucceeds(e) \/ CallFails(e) PROVE CallIsRecorded'
  <2>1. ~At(e, "call")' /\ \A f \in Exec : f # e => phase'[f] = phase[f] /\ pos'[f] = pos[f]
    BY <1>2, OutputType, FailureLeavesCall DEF CallSucceeds, CallFails
  <2>2. At(e, "call") /\ open[pos[e]] = 1
    BY <1>2 DEF CallSucceeds, CallFails, CallIsRecorded
  <2>3. /\ \A n \in Node : n # pos[e] => open'[n] = open[n] /\ record'[n] = record[n]
        /\ \/ open'[pos[e]] = 1 /\ record'[pos[e]] = "succeeded"
           \/ open'[pos[e]] = 0
    BY <1>0, <1>2, <2>2 DEF CallSucceeds, CallFails, TypeOK
  <2>4. \A f \in Exec : At(f, "call")' =>
          f # e /\ At(f, "call") /\ pos'[f] = pos[f] /\ pos[f] # pos[e]
    BY <2>1, <2>2 DEF CallIsRecorded, At
  <2>5. QED
    BY <1>0, <2>2, <2>3, <2>4 DEF CallIsRecorded
<1>3. CASE \A e \in Exec : ~DispatchAction(e) /\ ~CallSucceeds(e) /\ ~CallFails(e)
  <2>1. UNCHANGED <<record, open>>
    BY <1>3, OtherStepsDoNotCall
  <2>2. \A f \in Exec : At(f, "call")' => At(f, "call") /\ pos'[f] = pos[f]
    <3>1. ASSUME NEW e \in Exec, ~At(e, "call")',
                 \A f \in Exec : f # e => phase'[f] = phase[f] /\ pos'[f] = pos[f]
          PROVE  \A f \in Exec : At(f, "call")' => At(f, "call") /\ pos'[f] = pos[f]
      BY <3>1 DEF At
    <3>2. ASSUME NEW e \in Exec, NEW m, NEW n, Loop(e, m, n)
          PROVE  /\ ~At(e, "call")'
                 /\ \A f \in Exec : f # e => phase'[f] = phase[f] /\ pos'[f] = pos[f]
      BY <3>2 DEF Loop, Goto, At, TypeOK
    <3>3. ASSUME NEW e \in Exec, Start(e) \/ ExecuteCreatedRun(e) \/ Resume(e) \/ Advance(e)
          PROVE  End(e) \/ \E m, n : Loop(e, m, n)
      BY <3>3 DEF Start, ExecuteCreatedRun, Resume, Advance
    <3>4. ASSUME NEW e \in Exec, Disconnect(e) \/ Stop(e) PROVE End(e)
      BY <3>4 DEF Disconnect, Stop
    <3>5. ASSUME NEW e \in Exec, Body(e)
          PROVE  AttemptFails(e) \/ (\E m \in Copy : NodeReturns(e, m)) \/ End(e)
      <4>1. CASE RefuseAction(e) \/ CallTimesOut(e)
        BY <4>1 DEF RefuseAction, CallTimesOut
      <4>2. CASE Task(e) \/ HumanApproval(e) \/ Wait(e) \/ Close(e) \/ SkipAction(e)
        BY <4>2, ComputeReturns
      <4>3. QED
        BY <1>3, <3>5, <4>1, <4>2 DEF Body
    <3>6. CASE UNCHANGED <<phase, pos>>
      BY <3>6 DEF At
    <3>7. CASE \E e \in Exec : Body(e)
      BY <3>1, <3>5, <3>7, FailureLeavesCall
    <3>8. CASE \E e \in Exec :
                 \/ Start(e) \/ ExecuteCreatedRun(e) \/ Resume(e) \/ Disconnect(e)
                 \/ Advance(e) \/ Stop(e)
      BY <3>1, <3>2, <3>3, <3>4, <3>8, FailureLeavesCall
    <3>9. CASE Cancel \/ Decide \/ Reject \/ (\E n \in Node : RetryNode(n)) \/ UNCHANGED vars
      BY <3>6, <3>9 DEF Cancel, Decide, Reject, RetryNode, execs, vars
    <3>10. QED
      BY <3>7, <3>8, <3>9 DEF Next
  <2>3. QED
    BY <1>0, <2>1, <2>2, QuietStep
<1>4. QED
  BY <1>1, <1>2, <1>3

-----------------------------------------------------------------------------
(* Runs that only the driver executes.                                     *)

LEMMA DriverInit == Init => OnlyTheDriver
  BY DEF Init, OnlyTheDriver, At

(* An execution ends, or goes on as the task that it is.                   *)
LEMMA DriverMoves ==
  ASSUME TypeOK, OnlyTheDriver, managed, manual = 0, managed' = managed,
         NEW e \in Exec, ~At(e, "idle"),
         \/ End(e)
         \/ /\ \E p \in Phase \ {"idle", "start"} : Goto(e, p)
            /\ UNCHANGED <<holder, fenced>>,
         holder' # NoExec => row'.status \in {"running", "cancelled"}
  PROVE  OnlyTheDriver'
<1>1. \A f \in Exec : f # e =>
        phase'[f] = phase[f] /\ fenced'[f] = fenced[f]
  BY DEF End, Goto, TypeOK
<1>2. At(e, "idle")' \/ (fenced'[e] /\ ~At(e, "start")')
  <2>1. CASE End(e)
    BY <2>1 DEF End, Goto, At, TypeOK
  <2>2. CASE ~End(e)
    BY <2>2 DEF OnlyTheDriver, Goto, At, TypeOK
  <2>3. QED
    BY <2>1, <2>2
<1>3. \A f \in Exec : At(f, "idle")' \/ (fenced'[f] /\ ~At(f, "start")')
  BY <1>1, <1>2 DEF OnlyTheDriver, At
<1>4. QED
  BY <1>3 DEF OnlyTheDriver

LEMMA DriverStep == TypeOK /\ OnlyTheDriver /\ [Next]_vars => OnlyTheDriver'
<1> SUFFICES ASSUME TypeOK, OnlyTheDriver, [Next]_vars PROVE OnlyTheDriver'
  OBVIOUS
<1>0. managed' = managed
  BY DefinitionFixed DEF definition
<1>m. manual' = manual \/ manual' = manual + 1
  BY DEF Next, Body, Start, ExecuteCreatedRun, Resume, Disconnect, Task, HumanApproval, Wait,
     Close, SkipAction, RefuseAction, DispatchAction, CallSucceeds, CallFails, CallTimesOut,
     Advance, Stop, Cancel, Decide, Reject, RetryNode, Unaffected, vars
<1> SUFFICES ASSUME managed, manual = 0, manual' = 0 PROVE OnlyTheDriver'
  BY <1>0, <1>m DEF OnlyTheDriver, TypeOK
<1>h. /\ \A e \in Exec : At(e, "idle") \/ (fenced[e] /\ ~At(e, "start"))
      /\ holder # NoExec => row.status \in {"running", "cancelled"}
  BY DEF OnlyTheDriver
<1>1. ASSUME NEW e \in Exec, Start(e) \/ Resume(e) \/ Disconnect(e) PROVE FALSE
  BY <1>1, <1>h DEF Start, Resume, Disconnect, At
<1>2. ASSUME NEW e \in Exec, ExecuteCreatedRun(e) PROVE OnlyTheDriver'
  <2>1. row'.status = "running"
    BY <1>2 DEF ExecuteCreatedRun, Running, TypeOK, Copy
  <2>2. /\ \A f \in Exec : f # e => phase'[f] = phase[f] /\ fenced'[f] = fenced[f]
        /\ fenced'[e] /\ ~At(e, "start")'
    BY <1>2 DEF ExecuteCreatedRun, Loop, Goto, At, TypeOK
  <2>3. QED
    BY <1>h, <2>1, <2>2 DEF OnlyTheDriver, At
<1>3. ASSUME NEW e \in Exec, Body(e) PROVE OnlyTheDriver'
  <2>1. ~At(e, "idle")
    BY <1>3 DEF Body, Task, HumanApproval, Wait, Close, SkipAction, RefuseAction,
       DispatchAction, CallSucceeds, CallFails, CallTimesOut, Inside, At
  <2>2. row' = row
    BY <1>3 DEF Body, Task, HumanApproval, Wait, Close, SkipAction, RefuseAction,
       DispatchAction, CallSucceeds, CallFails, CallTimesOut, Unaffected
  <2>3. \/ End(e)
        \/ (\E p \in Phase \ {"idle", "start"} : Goto(e, p)) /\ UNCHANGED <<holder, fenced>>
    BY <1>3, BodyMoves DEF Moves
  <2>4. holder' \in {holder, NoExec}
    BY <2>3 DEF End
  <2>5. QED
    BY <1>0, <1>h, <2>1, <2>2, <2>3, <2>4, DriverMoves
<1>4. ASSUME NEW e \in Exec, Advance(e) \/ Stop(e) PROVE OnlyTheDriver'
  <2>1. ~At(e, "idle")
    BY <1>4 DEF Advance, Stop, At
  <2>2. fenced[e]
    BY <1>h, <2>1
  <2>3. CASE ~End(e)
    <3>1. /\ Loop(e, [mem[e] EXCEPT !.at = NextNode(pos[e])], NextNode(pos[e]))
          /\ row' = [mem[e] EXCEPT !.at = NextNode(pos[e])]
          /\ UNCHANGED <<holder, fenced>>
          /\ mem[e].status = "running"
      BY <1>4, <2>3 DEF Advance, Stop, TypeOK, Copy
    <3>2. row'.status = "running"
      BY <3>1 DEF TypeOK, Copy
    <3>3. \E p \in Phase \ {"idle", "start"} : Goto(e, p)
      BY <3>1 DEF Loop, Phase
    <3>4. QED
      BY <1>0, <2>1, <3>1, <3>2, <3>3, DriverMoves
  <2>4. CASE End(e)
    <3>1. holder' # NoExec => holder' = holder /\ holder # e
      BY <2>4 DEF End
    <3>2. holder # e => row' = row \/ row'.status = "running"
      BY <1>4, <2>2 DEF Advance, Stop, Valid, TypeOK, Copy
    <3>3. QED
      BY <1>0, <1>h, <2>1, <2>4, <3>1, <3>2, DriverMoves
  <2>5. QED
    BY <2>3, <2>4
<1>5. CASE Cancel
  BY <1>0, <1>h, <1>5 DEF Cancel, OnlyTheDriver, At, execs, TypeOK, Copy
<1>6. CASE Decide
  BY <1>0, <1>h, <1>6 DEF Decide, Approve, OnlyTheDriver, At, execs
<1>7. CASE Reject
  <2>1. holder' = NoExec /\ execs' = execs
    BY <1>h, <1>7 DEF Reject
  <2>2. QED
    BY <1>0, <1>h, <2>1 DEF OnlyTheDriver, At, execs
<1>8. ASSUME NEW n \in Node, RetryNode(n) PROVE FALSE
  BY <1>8 DEF RetryNode
<1>9. CASE UNCHANGED vars
  BY <1>0, <1>h, <1>9 DEF vars, OnlyTheDriver, At
<1>10. QED
  BY <1>1, <1>2, <1>3, <1>4, <1>5, <1>6, <1>7, <1>8, <1>9 DEF Next

(* A step of a task of the driver saves its copy only while the run is not *)
(* cancelled and the task holds it, and then it is running.                *)
LEMMA EndStep ==
  ASSUME TypeOK, OnlyTheDriver, [Next]_vars, managed, manual = 0, row.status \in Terminal
  PROVE  row'.status = row.status
<1>0. row.status \notin {"pending", "running", "paused", "awaiting"}
  BY DEF Terminal
<1>1. ASSUME NEW e \in Exec, Start(e) PROVE FALSE
  BY <1>1 DEF Start, At, OnlyTheDriver
<1>2. ASSUME NEW e \in Exec, ExecuteCreatedRun(e) \/ Resume(e) PROVE FALSE
  BY <1>0, <1>2 DEF ExecuteCreatedRun, Resume
<1>3. ASSUME NEW e \in Exec, Disconnect(e) \/ Body(e) PROVE row' = row
  BY <1>3 DEF Disconnect, Body, Task, HumanApproval, Wait, Close, SkipAction, RefuseAction,
     DispatchAction, CallSucceeds, CallFails, CallTimesOut, Unaffected
<1>4. ASSUME NEW e \in Exec, Advance(e) \/ Stop(e) PROVE row' = row
  <2>1. fenced[e]
    BY <1>4 DEF Advance, Stop, At, OnlyTheDriver
  <2>2. Valid(e) => holder # NoExec /\ row.status # "cancelled"
    BY <2>1 DEF Valid
  <2>3. ~Valid(e)
    BY <1>0, <2>2 DEF OnlyTheDriver
  <2>4. QED
    BY <1>4, <2>3 DEF Advance, Stop
<1>5. CASE Cancel \/ Decide \/ Reject
  BY <1>0, <1>5 DEF Cancel, Decide, Approve, Reject
<1>6. ASSUME NEW n \in Node, RetryNode(n) PROVE row'.status = row.status
  BY <1>6 DEF RetryNode, TypeOK, Copy
<1>7. CASE UNCHANGED vars
  BY <1>7 DEF vars
<1>8. QED
  BY <1>1, <1>2, <1>3, <1>4, <1>5, <1>6, <1>7 DEF Next

-----------------------------------------------------------------------------
(* The invariant, in every workflow and with any number of executions,     *)
(* retries and requests: places, approvals, calls and, unless somebody     *)
(* resumes the run, the lease.                                             *)
THEOREM Invariant == Spec => []IInv
<1>1. Init => IInv
  <2>1. Init => OnlyApprovedCalls
    BY DEF Init, OnlyApprovedCalls
  <2>2. QED
    BY <2>1, TypeInit, PlacedInit, GrantsInit, RecordedInit, DriverInit DEF IInv
<1>2. IInv /\ [Next]_vars => IInv'
  BY TypeStep, PlacedStep, GrantsStep, ApprovedCallsStep, RecordedStep, DriverStep DEF IInv
<1>3. QED
  BY <1>1, <1>2, PTL DEF Spec

(* No external call of an action that needs approval is made unless a      *)
(* human has approved that action, whatever is resumed, retried, edited    *)
(* or restarted in between (policy_guard.py, approvals.py).                *)
THEOREM ApprovalHolds == Spec => []OnlyApprovedCalls
<1>1. IInv => OnlyApprovedCalls
  BY DEF IInv
<1>2. QED
  BY <1>1, Invariant, PTL

(* An action is called at most once, except after a call that was reported *)
(* as failed, although executions overlap and overwrite each other's row   *)
(* (the idempotency records of execute_action).                            *)
THEOREM CalledOnce == Spec => []AtMostOneCall
<1>1. IInv => AtMostOneCall
  BY DEF IInv, CallIsRecorded, AtMostOneCall
<1>2. QED
  BY <1>1, Invariant, PTL

(* A driver-managed run that only the driver executes does not leave a     *)
(* final status: a cancellation or rejection that was accepted is not      *)
(* overwritten by the task that was running (fenced_update_run).           *)
THEOREM EndIsRespected == Spec => DriverRespectsTheEnd
<1>1. IInv /\ [Next]_vars
        => [managed /\ manual = 0 /\ row.status \in Terminal => row'.status = row.status]_vars
  BY EndStep DEF IInv
<1>2. QED
  BY <1>1, Invariant, PTL DEF Spec, DriverRespectsTheEnd
=============================================================================
