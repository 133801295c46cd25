--------------------------- MODULE MCOrderDelivery ---------------------------
(***************************************************************************)
(* OrderDelivery for TLC: one order that is sent and one dry run, with the *)
(* three attempts of stop_after_attempt(3).                                *)
(***************************************************************************)
EXTENDS OrderDelivery

CONSTANTS live, dry

MCOrders == {live, dry}
MCDryRun == {dry}
===============================================================================
