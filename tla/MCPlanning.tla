------------------------------ MODULE MCPlanning ------------------------------
(* TLC instances of Provenance, PlanCompiler, Grounding and DecisionContext, *)
(* which share no state; part, chosen at the start, says which of them       *)
(* moves.  Grounding has two parts: the building of cases alone, and an      *)
(* assembly among runs that complete and cases that are built before it      *)
(* begins.                                                                   *)
EXTENDS Provenance, Grounding, PlanCompiler, DecisionContext

CONSTANTS e1, e2, b1, b2, here, there  \* Grounding

VARIABLE part
all == <<vars, provVars, planVars, groundVars, ctxVars, part>>

MCRegionOf(p) == IF p = here THEN "near" ELSE "far"
MCDocs == {[place |-> "near", from |-> 1]}

MCInit ==
  /\ Init /\ ProvInit /\ PlanInit /\ GroundInit /\ ContextInit
  /\ part \in {"continuation", "plan", "cases", "grounding", "context"}

(* What is left out of the part "cases": the second event, the place, of   *)
(* which CaseIsHowItEnded says nothing, and what differs only in the names *)
(* of the builders.                                                        *)
OfOneEvent ==
  /\ event'[e2] = NoEvent /\ binding'[e1] # there
  /\ builder'[b2] # IdleBuilder => \E b \in Builders : builder[b] # IdleBuilder

(* What is left out of the part "grounding".                               *)
InOneRequest ==
  /\ builder'[b2] = IdleBuilder
  /\ request' # NoRequest => builder'[b1] = IdleBuilder
  /\ \A r \in WfRuns : wfRun'[r] = NoWfRun \/
       (wfRun'[r].status \in {"running", "completed"} /\ wfRun'[r].call = "none" /\ ~wfRun'[r].managed
        /\ ~wfRun'[r].overrun)

MCNext ==
  \/ /\ part = "continuation" /\ ProvNext
     /\ UNCHANGED <<planVars, groundVars, ctxVars, part>>
  \/ /\ part = "plan" /\ PlanNext
     /\ UNCHANGED <<vars, provVars, groundVars, ctxVars, part>>
  \/ /\ part = "cases" /\ Others /\ OfOneEvent
     /\ UNCHANGED <<vars, provVars, planVars, ctxVars, part>>
  \/ /\ part = "grounding" /\ GroundNext /\ InOneRequest
     /\ UNCHANGED <<vars, provVars, planVars, ctxVars, part>>
  \/ /\ part = "context" /\ ContextNext
     /\ UNCHANGED <<vars, provVars, planVars, groundVars, part>>

MCSpec == MCInit /\ [][MCNext]_all

(* What follows once a run was overrun is not explored: it stays so, and   *)
(* CaseIsHowItEnded then asks no more of its case than the event.          *)
NotOverrun == \A r \in WfRuns : wfRun[r] # NoWfRun => ~wfRun[r].overrun

-----------------------------------------------------------------------------
(* Properties.                                                             *)

(* The types of all parts; those of Continuation bound what a run may      *)
(* record of its lineage's budget.                                         *)
TypesOK == TypeOK /\ ProvTypeOK /\ PlanTypeOK /\ GroundTypeOK /\ ContextTypeOK
=============================================================================
