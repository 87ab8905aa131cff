------------------------------- MODULE MCGraphs -------------------------------
(* Definitions for TLC: one with a gate and a wait, one that the validator *)
(* refuses, and the plan of a replanned run; and the events that lead      *)
(* through them.                                                           *)
EXTENDS Sequences, FiniteSets

N(id, type, next) == [id |-> id, type |-> type, next |-> next, condition |-> [op |-> "none"]]
Number(n) == [kind |-> "number", val |-> n]
Nothing == [kind |-> "missing", val |-> 0]

Gated(cond) ==
  [entry |-> "t",
   nodes |-> {N("t", "trigger", <<"g">>), N("w", "wait", <<"c">>), N("c", "close", <<>>),
              [N("g", "risk_gate", <<"w", "c">>) EXCEPT !.condition = cond]}]
Risky == [op |-> "gte", field |-> "risk_assessment", value |-> Number(1)]
Stored == [op |-> "exists", field |-> "g"]
Secret == [op |-> "eq", field |-> "secret", value |-> Number(1)]

MCGraphSet ==
  {Gated([op |-> "any", conditions |-> <<Risky, Stored>>]),
   Gated([op |-> "all", conditions |-> <<Secret>>]),
   [entry |-> "t", nodes |-> {N("t", "trigger", <<"a">>), N("a", "agent", <<"c">>),
                              N("c", "close", <<>>)}]}
MCDrafts == {g \in MCGraphSet : Cardinality(g.nodes) = 3}
MCInputs == [risk_assessment : {Nothing, Number(0), Number(1)}, current_event : {Nothing},
             rule_router : {Nothing}, evidence_evaluate : {Nothing}, g : {Nothing},
             a : {Nothing}]
=============================================================================
