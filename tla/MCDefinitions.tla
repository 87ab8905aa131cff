---------------------------- MODULE MCDefinitions ----------------------------
(* Two server processes on the definitions of MCGraphs.                    *)
EXTENDS Definitions, MCGraphs
=============================================================================
