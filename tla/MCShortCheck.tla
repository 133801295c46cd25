----------------------------- MODULE MCShortCheck -----------------------------
(* ShortCheck for TLC: the candidates in their order, and the two settings. *)
EXTENDS ShortCheck

MCCandidates == <<"SBER", "GAZP">>
MCSecids == {"AUTO", "GAZP"}
===============================================================================
