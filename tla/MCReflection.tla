----------------------------- MODULE MCReflection -----------------------------
(***************************************************************************)
(* Reflection for TLC: the event loop with its phase 2 and one graph       *)
(* thread that may outlive its tick, over two days and a restart.          *)
(* Hypotheses have a line separator in their text, lessons have none.      *)
(***************************************************************************)
EXTENDS Reflection

CONSTANT t1

MCPlain == {r \in Reflections : ~r.split /\ r.source # "hypothesis"}
MCSeparated == {r \in Reflections : r.split /\ r.source = "hypothesis"}
===============================================================================
