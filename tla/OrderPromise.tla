----------------------------- MODULE OrderPromise -----------------------------
(***************************************************************************)
(* What a caller of ArenaGoClient.submit_order may rely on, and no more:   *)
(* an order is executed between zero and MaxFills times, possibly after    *)
(* the call has already failed, and the call answers at most once.  The    *)
(* one positive guarantee is that "success" is never reported for an order *)
(* that was not executed.  OrderDelivery implements this specification;    *)
(* TradingTick places its orders through a client of this kind.            *)
(***************************************************************************)
EXTENDS Naturals

CONSTANTS Orders,     \* the submit_order calls
          MaxFills    \* how many times the broker may execute one of them

VARIABLES fills,      \* executions of each order at the broker
          verdict     \* what the caller was told: a dict with success, a
                      \* dict without it, or an exception

vars == <<fills, verdict>>

Verdicts == {"success", "rejected", "raised"}

TypeOK ==
  /\ fills \in [Orders -> 0..MaxFills]
  /\ verdict \in [Orders -> Verdicts \cup {"none"}]

Init ==
  /\ fills = [o \in Orders |-> 0]
  /\ verdict = [o \in Orders |-> "none"]

Fill(o) ==
  /\ fills[o] < MaxFills
  /\ fills' = [fills EXCEPT ![o] = @ + 1]
  /\ UNCHANGED verdict

Answer(o, v) ==
  /\ verdict[o] = "none"
  /\ v = "success" => fills[o] > 0
  /\ verdict' = [verdict EXCEPT ![o] = v]
  /\ UNCHANGED fills

Next == \E o \in Orders : Fill(o) \/ \E v \in Verdicts : Answer(o, v)

Spec == Init /\ [][Next]_vars
===============================================================================
