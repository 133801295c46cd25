---------------------------- MODULE OrderDelivery ----------------------------
(***************************************************************************)
(* ArenaGoClient.submit_order with its tenacity retry, against the broker  *)
(* and the network between them.  A POST carries no idempotency key: every *)
(* attempt that reaches the broker is an order of its own.  An attempt the *)
(* client has given up on may still be on its way.                         *)
(***************************************************************************)
EXTENDS Naturals, FiniteSets

CONSTANTS Orders,       \* calls of submit_order
          DryRun,       \* those made through a client with dry_run
          MaxAttempts   \* stop_after_attempt(3)

ASSUME DryRunAssumption == DryRun \subseteq Orders
ASSUME MaxAttemptsAssumption == MaxAttempts \in Nat \ {0}

VARIABLES
  phase,    \* where the call is: ready, waiting, backoff, returned
  tries,    \* attempts made so far
  request,  \* each attempt's POST, as the network and the broker see it
  reply,    \* the broker's HTTP answer to each attempt
  heard,    \* how each attempt ended for the client
  result    \* what the call gave its caller

vars == <<phase, tries, request, reply, heard, result>>

Attempts == 1..MaxAttempts
Live == Orders \ DryRun

\* _is_retryable_arenago: time-outs, connect and read errors ("transport")
\* and HTTP 5xx are sent again; a 4xx and every other exception are not.
Retryable4xxToo(h) == h \in {"transport", "5xx", "4xx"}
Retryable(h) == h \in {"transport", "5xx"}

TypeOK ==
  /\ phase \in [Orders -> {"ready", "waiting", "backoff", "returned"}]
  /\ tries \in [Orders -> 0..MaxAttempts]
  /\ request \in [Orders -> [Attempts ->
                   {"none", "travelling", "lost", "filled", "refused"}]]
  /\ reply \in [Orders -> [Attempts -> {"none", "ok", "declined", "4xx", "5xx"}]]
  /\ heard \in [Orders -> [Attempts ->
                 {"none", "ok", "declined", "4xx", "5xx", "transport", "broken"}]]
  /\ result \in [Orders -> {"none", "success", "rejected", "raised"}]

Init ==
  /\ phase = [o \in Orders |-> "ready"]
  /\ tries = [o \in Orders |-> 0]
  /\ request = [o \in Orders |-> [a \in Attempts |-> "none"]]
  /\ reply = [o \in Orders |-> [a \in Attempts |-> "none"]]
  /\ heard = [o \in Orders |-> [a \in Attempts |-> "none"]]
  /\ result = [o \in Orders |-> "none"]

-------------------------------------------------------------------------------
(* The client. *)

\* dry_run answers {"success": True, "status": "DRY_RUN"} before any POST.
ReturnDryRun(o) ==
  /\ o \in DryRun
  /\ phase[o] = "ready"
  /\ phase' = [phase EXCEPT ![o] = "returned"]
  /\ result' = [result EXCEPT ![o] = "success"]
  /\ UNCHANGED <<tries, request, reply, heard>>

\* self._client.post(...): the first attempt, or the next after the back-off.
Post(o) ==
  /\ o \notin DryRun
  /\ phase[o] \in {"ready", "backoff"}
  /\ tries[o] < MaxAttempts
  /\ phase' = [phase EXCEPT ![o] = "waiting"]
  /\ tries' = [tries EXCEPT ![o] = @ + 1]
  /\ request' = [request EXCEPT ![o][tries[o] + 1] = "travelling"]
  /\ UNCHANGED <<reply, heard, result>>

\* Variant: the attempts run out and nobody re-raises.
EndAttemptNoReraise(o, h, r) ==
  /\ phase[o] = "waiting"
  /\ heard' = [heard EXCEPT ![o][tries[o]] = h]
  /\ IF Retryable(h)
     THEN /\ phase' = [phase EXCEPT ![o] = "backoff"]
          /\ UNCHANGED result
     ELSE /\ phase' = [phase EXCEPT ![o] = "returned"]
          /\ result' = [result EXCEPT ![o] = r]
  /\ UNCHANGED <<tries, request, reply>>

\* The attempt is over with h: tenacity retries, or gives the caller r.
EndAttempt(o, h, r) ==
  /\ phase[o] = "waiting"
  /\ heard' = [heard EXCEPT ![o][tries[o]] = h]
  /\ IF Retryable(h) /\ tries[o] < MaxAttempts
     THEN /\ phase' = [phase EXCEPT ![o] = "backoff"]
          /\ UNCHANGED result
     ELSE /\ phase' = [phase EXCEPT ![o] = "returned"]
          /\ result' = [result EXCEPT ![o] = r]
  /\ UNCHANGED <<tries, request, reply>>

\* r.json() of a 2xx answer: callers test response.get("success").
ReceiveOk(o) ==
  /\ phase[o] = "waiting"
  /\ reply[o][tries[o]] = "ok"
  /\ EndAttempt(o, "ok", "success")

\* Variant: a 2xx status is taken for an accepted order.
ReceiveDeclinedAsSuccess(o) ==
  /\ phase[o] = "waiting"
  /\ reply[o][tries[o]] = "declined"
  /\ EndAttempt(o, "declined", "success")

ReceiveDeclined(o) ==
  /\ phase[o] = "waiting"
  /\ reply[o][tries[o]] = "declined"
  /\ EndAttempt(o, "declined", "rejected")

\* raise_for_status.
ReceiveError(o) ==
  /\ phase[o] = "waiting"
  /\ reply[o][tries[o]] \in {"4xx", "5xx"}
  /\ EndAttempt(o, reply[o][tries[o]], "raised")

\* httpx gives up on the attempt, whatever became of the request: the
\* 5-second time-out, a connect error or a read error.
TransportError(o) == EndAttempt(o, "transport", "raised")

\* Any other exception of the attempt: a protocol or write error, a 2xx body
\* that is not JSON.
OtherError(o) == EndAttempt(o, "broken", "raised")

Client(o) ==
  \/ ReturnDryRun(o) \/ Post(o)
  \/ ReceiveOk(o) \/ ReceiveDeclined(o) \/ ReceiveError(o)
  \/ TransportError(o) \/ OtherError(o)

-------------------------------------------------------------------------------
(* The network and the broker, external to the repository. *)

Settle(o, a, state, answer) ==
  /\ request[o][a] = "travelling"
  /\ request' = [request EXCEPT ![o][a] = state]
  /\ reply' = [reply EXCEPT ![o][a] = answer]
  /\ UNCHANGED <<phase, tries, heard, result>>

\* The request never arrives.
Lose(o, a) == Settle(o, a, "lost", "none")

\* The broker executes the order.  Nothing is assumed of what it answers: the
\* answer may be lost, a gateway may turn it into a 5xx, and a 4xx or a business
\* error may come for an order it has accepted.
Execute(o, a) ==
  \E answer \in {"ok", "declined", "4xx", "5xx", "none"} : Settle(o, a, "filled", answer)

\* Market closed, not enough cash, not a valid secid, a failing broker.  The
\* one thing taken from the broker's word: "success" is said of executed orders.
Refuse(o, a) ==
  \E answer \in {"declined", "4xx", "5xx", "none"} : Settle(o, a, "refused", answer)

Environment(o) == \E a \in Attempts : Lose(o, a) \/ Execute(o, a) \/ Refuse(o, a)

Next == \E o \in Orders : Client(o) \/ Environment(o)

\* httpx's time-out and tenacity's sleep both end, so the client moves on;
\* nothing is assumed of the network or the broker.
Fairness == \A o \in Orders : WF_vars(Client(o))

Spec == Init /\ [][Next]_vars /\ Fairness

-------------------------------------------------------------------------------
(* Properties. *)

Fills(o) == {a \in Attempts : request[o][a] = "filled"}

\* submit_order reports success only for an order the broker executed, however
\* many attempts, late executions and lost answers there were.
SuccessIsExecuted ==
  \A o \in Live : result[o] = "success" => Fills(o) # {}

\* arenago.py:20-21 retries no 4xx, which may be said of an order the broker has
\* already accepted.  Whatever the broker answers and however late it acts, it
\* executes a repeat only when the client could not know how any of the attempts
\* before it had ended: each was cut off in transport or answered 5xx.
RepeatOnlyWhenUnknown ==
  \A o \in Live : \A b \in Fills(o) : \A a \in Attempts :
    a < b => heard[o][a] \in {"transport", "5xx"}

\* The caller is never left waiting: every call that was started returns.
EveryCallReturns == \A o \in Orders : phase[o] # "ready" ~> phase[o] = "returned"

\* README.md:29 promises orders "с retry-логикой и идемпотентностью": an order
\* submitted once is executed at most once.  Repeating a POST whose outcome
\* is unknown breaks it.
ExecutedAtMostOnce == \A o \in Live : Cardinality(Fills(o)) <= 1

-------------------------------------------------------------------------------
(* OrderDelivery implements OrderPromise for the orders that are not dry runs. *)

Promise == INSTANCE OrderPromise
  WITH Orders <- Live, MaxFills <- MaxAttempts,
       fills <- [o \in Live |-> Cardinality(Fills(o))],
       verdict <- [o \in Live |-> result[o]]

\* Every step of the client, the network and the broker is an execution, an
\* answer or nothing to the caller's eyes.
ImplementsPromise == Promise!Spec
===============================================================================
