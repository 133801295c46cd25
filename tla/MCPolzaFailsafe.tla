--------------------------- MODULE MCPolzaFailsafe ---------------------------
(* PolzaFailsafe for TLC: one ticker that is held long, one that is short. *)
EXTENDS PolzaFailsafe

MCTickers == {"SBER", "LKOH"}
MCQuantities == "SBER" :> {0, 1} @@ "LKOH" :> {-1, 0}
===============================================================================
