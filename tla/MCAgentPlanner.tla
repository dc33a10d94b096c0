---------------------------- MODULE MCAgentPlanner ----------------------------
(* One run of two steps over two vessels.                                    *)
EXTENDS AgentPlanner

CONSTANTS v1, v2
===============================================================================
