------------------------------ MODULE MCServices ------------------------------
(* TLC instances of eight components that share no state with each other:    *)
(* part, chosen at the start, says which of them moves.                    *)
EXTENDS Regional, WaitScheduler, KnowledgeIndex, Collaboration, Memory, Simulation, RunView,
        Definitions, MCGraphs

CONSTANTS road1, road2, cross  \* places of Regional

VARIABLE part
all == <<regionalVars, waitVars, indexVars, collabVars, memoryVars, simVars, viewVars, defVars,
         part>>

T1 == [norm |-> 1, style |-> 1]
T2 == [norm |-> 1, style |-> 2]
MCText == {T1, T2}
MCPacks == [region : Regions, ends : {{}, {road1, cross}},
            names : {{<<road1, T1>>}, {<<road2, T2>>}, {<<road1, T1>>, <<cross, T2>>},
                     {<<road1, T1>>, <<road1, T2>>}}]
MCWaits == <<"event", "timer">>

MCInit ==
  /\ RegionalInit /\ WaitInit /\ IndexInit /\ CollabInit /\ MemoryInit /\ SimInit /\ ViewInit
  /\ DefInit
  /\ part \in {"regional", "wait", "index", "collaboration", "memory", "simulation",
              "view", "definitions"}
  /\ part = "wait" \/ ~managed

WaitStep ==
  /\ part = "wait"
  /\ UNCHANGED <<regionalVars, indexVars, collabVars, memoryVars, simVars, viewVars, defVars,
                 part>>

MCNext ==
  \/ /\ part = "regional" /\ RegionalNext
     /\ UNCHANGED <<waitVars, indexVars, collabVars, memoryVars, simVars, viewVars, defVars,
                    part>>
  \/ WaitStep /\ WaitNext
  \/ /\ part = "index" /\ IndexNext
     /\ UNCHANGED <<regionalVars, waitVars, collabVars, memoryVars, simVars, viewVars, defVars,
                    part>>
  \/ /\ part = "collaboration" /\ CollabNext
     /\ UNCHANGED <<regionalVars, waitVars, indexVars, memoryVars, simVars, viewVars, defVars,
                    part>>
  \/ /\ part = "memory" /\ MemoryNext
     /\ UNCHANGED <<regionalVars, waitVars, indexVars, collabVars, simVars, viewVars, defVars,
                    part>>
  \/ /\ part = "simulation" /\ SimNext
     /\ UNCHANGED <<regionalVars, waitVars, indexVars, collabVars, memoryVars, viewVars, defVars,
                    part>>
  \/ /\ part = "view" /\ ViewNext
     /\ UNCHANGED <<regionalVars, waitVars, indexVars, collabVars, memoryVars, simVars, defVars,
                    part>>
  \/ /\ part = "definitions" /\ DefNext
     /\ UNCHANGED <<regionalVars, waitVars, indexVars, collabVars, memoryVars, simVars, viewVars,
                    part>>

(* WaitFairness. *)
MCSpec ==
  /\ MCInit /\ [][MCNext]_all
  /\ WF_all(WaitStep /\ Scan) /\ WF_all(WaitStep /\ Mark)
  /\ WF_all(WaitStep /\ Wake) /\ WF_all(WaitStep /\ Arm)
  /\ WF_all(WaitStep /\ Elapse)
  /\ \A e \in Who : WF_all(WaitStep /\ Pass(e)) /\ WF_all(WaitStep /\ Reach(e))

-----------------------------------------------------------------------------
(* The types of all parts; a collaboration run, among others, stays within *)
(* its calls and layers.                                                   *)
TypesOK ==
  RegionalTypeOK /\ WaitTypeOK /\ IndexTypeOK /\ CollabTypeOK /\ MemoryTypeOK /\ SimTypeOK
  /\ ViewTypeOK /\ DefTypeOK
=============================================================================
