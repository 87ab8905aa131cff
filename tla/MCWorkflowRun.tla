---------------------------- MODULE MCWorkflowRun ----------------------------
(* WorkflowRun on small instances.                                         *)
EXTENDS WorkflowRun, TLC

CONSTANTS k1, k2

Symmetry == Permutations(Exec)

Computes(k) == [kind |-> k, key |-> NoKey, exact |-> FALSE, auto |-> 0]
Branch(n) == [Computes("risk") EXCEPT !.auto = n]
Gate(k, x) == [kind |-> "gate", key |-> k, exact |-> x, auto |-> 0]
Action(k) == [Computes("action") EXCEPT !.key = k]

(* The end of ramp_congestion; a template with a gate and a wait. *)
Congestion == <<Branch(3), Gate(k1, FALSE), Action(k1), Computes("close")>>
Patrol == <<Gate(k1, FALSE), Action(k1), Computes("wait"), Computes("close")>>
ATemplate == {Congestion, Patrol}

(* What the planner compiles: one action that needs approval, or two. *)
OneGate == <<Computes("task"), Gate(k1, TRUE), Action(k1), Action(NoKey), Computes("close")>>
TwoGates == <<Gate(k1, TRUE), Action(k1), Gate(k2, TRUE), Action(k2), Computes("close")>>
APlan == {OneGate, TwoGates}
=============================================================================
