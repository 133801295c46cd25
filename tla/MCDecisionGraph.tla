---------------------------- MODULE MCDecisionGraph ----------------------------
(* DecisionGraph for TLC: sets of settings. *)
EXTENDS DecisionGraph

MCRounds == {0, 2}
MCBoth == BOOLEAN
===============================================================================
