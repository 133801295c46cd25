----------------------------- MODULE TickThreads -----------------------------
(***************************************************************************)
(* The event loop of a tick and the threads it hands its blocking calls to *)
(* (asyncio.to_thread): the reads before phase 1, one graph run per ticker *)
(* behind a semaphore and a time-out, one call of                          *)
(* _apply_decision_with_risk after another in phase 2.  What the graph     *)
(* decides is DecisionGraph's, what phase 2 does with it TradingTick's.    *)
(***************************************************************************)
EXTENDS Integers, FiniteSets, Sequences, FiniteSetsExt

CONSTANTS
  Tickers,   \* AGENT_UNIVERSE
  Cap,       \* AGENT_LLM_TICKERS_PER_TICK, 0: none
  Slots,     \* AGENT_MAX_CONCURRENT_TICKERS
  Workers,   \* threads of the event loop's default executor
  MaxTicks   \* bound: ticks

ASSUME TickersAssumption == IsFiniteSet(Tickers)
ASSUME NumbersAssumption ==
  Cap \in Nat /\ Slots \in Nat \ {0} /\ Workers \in Nat \ {0} /\ MaxTicks \in Nat

VARIABLES
  tick,     \* tick_count
  stage,    \* where run_once is
  step,     \* the next of Reads
  held,     \* the tickers get_portfolio returned positions of
  coro,     \* the _evaluate coroutine of each ticker, then its result
  free,     \* the semaphore
  todo,     \* the tickers phase 2 still has to apply
  queue,    \* the executor's queue of calls
  running,  \* the calls its threads are in
  over,     \* finished calls whose caller has not been resumed
  source,   \* history: the tick of the graph run a result came from
  life      \* of the process: down, up, stopping, closed, ended

vars == <<tick, stage, step, held, coro, free, todo, queue, running, over, source, life>>
loop == <<tick, step, held, coro, free, todo, source>>

Reads == <<"portfolio", "balance", "trades", "context">>
Kinds == {"portfolio", "balance", "trades", "context", "graph", "apply"}
Calls == [kind : Kinds, ticker : Tickers \cup {"none"}, tick : 1..MaxTicks]
Read(n) == [kind |-> Reads[n], ticker |-> "none", tick |-> tick]
Graph(t) == [kind |-> "graph", ticker |-> t, tick |-> tick]
Apply(t) == [kind |-> "apply", ticker |-> t, tick |-> tick]

Stopped == life \in {"stopping", "closed", "ended"}

Queued == {queue[i] : i \in DOMAIN queue}
InGraph == {t \in Tickers : coro[t] = "inside"}
Batch == {t \in Tickers : coro[t] # "skipped"}

TypeOK ==
  /\ tick \in 0..MaxTicks /\ stage \in {"sleep", "read", "evaluate", "apply"}
  /\ step \in 1..Len(Reads)
  /\ held \subseteq Tickers /\ todo \subseteq Tickers
  /\ coro \in [Tickers -> {"skipped", "waiting", "inside", "decided", "failed", "timed_out"}]
  /\ free \in 0..Slots
  /\ queue \in Seq(Calls) /\ running \subseteq Calls /\ over \subseteq Calls
  /\ Cardinality(running) <= Workers
  /\ source \in [Tickers -> 0..MaxTicks]
  /\ life \in {"down", "up", "stopping", "closed", "ended"}

Init ==
  /\ tick = 0 /\ stage = "sleep" /\ step = 1
  /\ held = {} /\ coro = [t \in Tickers |-> "skipped"] /\ free = Slots
  /\ todo = {} /\ queue = <<>> /\ running = {} /\ over = {}
  /\ source = [t \in Tickers |-> 0] /\ life = "down"

-------------------------------------------------------------------------------
(* The executor. *)

\* Variant: a result belongs to whoever waits for its ticker.
AwaitedByTicker(c) ==
  CASE c.kind = "graph" -> stage = "evaluate" /\ coro[c.ticker] = "inside"
    [] OTHER -> c.tick = tick /\ ~Stopped

\* The caller still waits for this very call.
Awaited(c) ==
  /\ c.tick = tick /\ ~Stopped
  /\ c.kind = "graph" => stage = "evaluate" /\ coro[c.ticker] = "inside"

StartCall ==
  /\ queue # <<>> /\ Cardinality(running) < Workers
  /\ running' = running \cup {Head(queue)} /\ queue' = Tail(queue)
  /\ UNCHANGED <<loop, stage, over, life>>

\* Every blocking call has time-outs and bounded retries of its own.
EndCall(c) ==
  /\ c \in running
  /\ running' = running \ {c}
  /\ over' = IF Awaited(c) THEN over \cup {c} ELSE over
  /\ UNCHANGED <<loop, stage, queue, life>>

\* The queue once a call that waits in it is cancelled.
Without(c) ==
  IF \E i \in DOMAIN queue : queue[i] = c
  THEN LET i == CHOOSE i \in DOMAIN queue : queue[i] = c
       IN  SubSeq(queue, 1, i - 1) \o SubSeq(queue, i + 1, Len(queue))
  ELSE queue

-------------------------------------------------------------------------------
(* run_once: the reads and the batch. *)

StartTick ==
  /\ stage = "sleep" /\ life = "up" /\ tick < MaxTicks
  /\ tick' = tick + 1 /\ stage' = "read" /\ step' = 1
  /\ coro' = [t \in Tickers |-> "skipped"]
  /\ queue' = Append(queue, [Read(1) EXCEPT !.tick = tick + 1])
  /\ UNCHANGED <<held, free, todo, running, over, source, life>>

\* Variant: the most liquid tickers, whatever is held.
BatchesByLiquidity(positions, alerts) ==
  IF Cap = 0 \/ Cap >= Cardinality(Tickers) THEN {Tickers}
  ELSE LET rest == Tickers \ alerts
       IN  kSubset(IF Cap < Cardinality(rest) THEN Cap ELSE Cardinality(rest), rest)

\* select_llm_tickers, for every order of liquidity.
Batches(positions, alerts) ==
  IF Cap = 0 \/ Cap >= Cardinality(Tickers) THEN {Tickers}
  ELSE LET rest == (Tickers \ positions) \ alerts
           room == IF Cardinality(positions) >= Cap THEN 0 ELSE Cap - Cardinality(positions)
           size == IF room < Cardinality(rest) THEN room ELSE Cardinality(rest)
       IN  {positions \cup others : others \in kSubset(size, rest)}

\* The reads may end the tick: no portfolio, an empty account, no trades, the
\* daily limit.
SkipTick ==
  /\ stage = "read" /\ Read(step) \in over /\ Reads[step] # "context"
  /\ over' = over \ {Read(step)} /\ stage' = "sleep"
  /\ UNCHANGED <<loop, queue, running, life>>

NextRead(positions) ==
  /\ stage = "read" /\ Read(step) \in over /\ step < Len(Reads)
  /\ held' = IF Reads[step] = "portfolio" THEN positions ELSE held
  /\ over' = over \ {Read(step)} /\ step' = step + 1
  /\ queue' = Append(queue, Read(step + 1))
  /\ UNCHANGED <<tick, stage, coro, free, todo, running, source, life>>

StartPhase1(alerts) ==
  /\ stage = "read" /\ Read(Len(Reads)) \in over
  /\ over' = over \ {Read(Len(Reads))}
  /\ \E batch \in Batches(held, alerts) :
       coro' = [t \in Tickers |-> IF t \in batch THEN "waiting" ELSE "skipped"]
  /\ free' = Slots /\ stage' = "evaluate"
  /\ UNCHANGED <<tick, step, held, todo, queue, running, source, life>>

-------------------------------------------------------------------------------
(* Phase 1. *)

\* Variant: the semaphore is not asked.
EnterAtOnce(t) ==
  /\ stage = "evaluate" /\ coro[t] = "waiting"
  /\ coro' = [coro EXCEPT ![t] = "inside"]
  /\ queue' = Append(queue, Graph(t))
  /\ UNCHANGED <<tick, stage, step, held, free, todo, running, over, source, life>>

Enter(t) ==
  /\ stage = "evaluate" /\ coro[t] = "waiting" /\ free > 0
  /\ coro' = [coro EXCEPT ![t] = "inside"] /\ free' = free - 1
  /\ queue' = Append(queue, Graph(t))
  /\ UNCHANGED <<tick, stage, step, held, todo, running, over, source, life>>

\* The coroutine is resumed with the decision or the exception of its call.
Resume(t, result) ==
  /\ stage = "evaluate" /\ coro[t] = "inside"
  /\ \E c \in over :
       /\ c.kind = "graph" /\ c.ticker = t
       /\ over' = over \ {c} /\ source' = [source EXCEPT ![t] = c.tick]
  /\ coro' = [coro EXCEPT ![t] = result] /\ free' = free + 1
  /\ UNCHANGED <<tick, stage, step, held, todo, queue, running, life>>

\* Variant: the slot is not given back.
TimeOutHoldingSlot(t) ==
  /\ stage = "evaluate" /\ coro[t] = "inside"
  /\ coro' = [coro EXCEPT ![t] = "timed_out"]
  /\ queue' = Without(Graph(t)) /\ over' = over \ {Graph(t)}
  /\ UNCHANGED <<tick, stage, step, held, free, todo, running, source, life>>

\* wait_for gives up: a queued call is cancelled, a running one goes on and
\* nobody waits for it; the slot is given back in either case.
TimeOut(t) ==
  /\ stage = "evaluate" /\ coro[t] = "inside"
  /\ coro' = [coro EXCEPT ![t] = "timed_out"] /\ free' = free + 1
  /\ queue' = Without(Graph(t)) /\ over' = over \ {Graph(t)}
  /\ UNCHANGED <<tick, stage, step, held, todo, running, source, life>>

-------------------------------------------------------------------------------
(* Phase 2. *)

\* gather returns when every coroutine has; failed and timed out tickers are
\* passed over.
StartPhase2 ==
  /\ stage = "evaluate"
  /\ \A t \in Tickers : coro[t] \notin {"waiting", "inside"}
  /\ todo' = {t \in Tickers : coro[t] \notin {"failed", "timed_out"}}
  /\ stage' = "apply"
  /\ UNCHANGED <<tick, step, held, coro, free, queue, running, over, source, life>>

Applying == \E c \in Queued \cup running \cup over : c.kind = "apply" /\ c.tick = tick

\* Variant: the next ticker does not wait for the one before.
ApplyAtOnce(t) ==
  /\ stage = "apply" /\ t \in todo
  /\ Apply(t) \notin Queued \cup running \cup over
  /\ queue' = Append(queue, Apply(t))
  /\ UNCHANGED <<loop, stage, running, over, life>>

ApplyNext(t) ==
  /\ stage = "apply" /\ t \in todo /\ ~Applying
  /\ queue' = Append(queue, Apply(t))
  /\ UNCHANGED <<loop, stage, running, over, life>>

Applied(t) ==
  /\ stage = "apply" /\ Apply(t) \in over
  /\ over' = over \ {Apply(t)} /\ todo' = todo \ {t}
  /\ UNCHANGED <<tick, stage, step, held, coro, free, queue, running, source, life>>

EndTick ==
  /\ stage = "apply" /\ todo = {} /\ ~Applying
  /\ stage' = "sleep"
  /\ UNCHANGED <<loop, queue, running, over, life>>

-------------------------------------------------------------------------------
(* The life of the process: lifespan, start and stop. *)

\* start, when AGENT_ENABLED.
Start ==
  /\ life = "down" /\ life' = "up"
  /\ UNCHANGED <<loop, stage, queue, running, over>>

\* Variant: only the stop event is set.
StopWithoutCancel ==
  /\ life = "up" /\ life' = "stopping" /\ stage' = "sleep" /\ over' = {}
  /\ UNCHANGED <<loop, queue, running>>

\* Cancelling the task cancels what it awaits: a queued call is never made, a
\* running one goes on.
Stop ==
  /\ life = "up" /\ life' = "stopping" /\ stage' = "sleep" /\ over' = {}
  /\ queue' = <<>>
  /\ UNCHANGED <<loop, running>>

\* lifespan closes the broker's client, whoever is still using it.
CloseClient ==
  /\ life = "stopping" /\ life' = "closed"
  /\ UNCHANGED <<loop, stage, queue, running, over>>

\* The interpreter waits for the executor's threads.
Exit ==
  /\ life = "closed" /\ running = {} /\ life' = "ended"
  /\ UNCHANGED <<loop, stage, queue, running, over>>

\* The grace period is over.
Kill ==
  /\ life \in {"stopping", "closed"} /\ life' = "ended" /\ running' = {}
  /\ UNCHANGED <<loop, stage, queue, over>>

Step ==
  \/ StartTick \/ SkipTick
  \/ (\E positions \in SUBSET Tickers : NextRead(positions))
  \/ (\E alerts \in SUBSET Tickers : StartPhase1(alerts))
  \/ (\E t \in Tickers :
        Enter(t) \/ (\E result \in {"decided", "failed"} : Resume(t, result))
        \/ ApplyNext(t) \/ Applied(t))
  \/ StartPhase2 \/ EndTick

Expire == \E t \in Tickers : TimeOut(t)

End == \E c \in running : EndCall(c)

Life == Start \/ Stop \/ CloseClient \/ Exit \/ Kill

Next == Step \/ StartCall \/ End \/ Expire \/ Life

\* The event loop goes on with what is ready, the executor's threads take
\* what is queued, and every call ends.  No time-out has to fire.
Fairness == WF_vars(Step) /\ WF_vars(StartCall) /\ WF_vars(End)

Spec == Init /\ [][Next]_vars /\ Fairness

-------------------------------------------------------------------------------
(* Properties. *)

\* Graph runs nobody waits for: timed out, or of an earlier tick.
Orphans == {c \in running : c.kind = "graph" /\ ~Awaited(c)}

\* Every position is in the batch, and the cap yields to positions only.
PositionsAreEvaluated ==
  stage \in {"evaluate", "apply"} =>
    /\ held \subseteq Batch
    /\ Cap > 0 => Cardinality(Batch) <= IF Cardinality(held) > Cap
                                        THEN Cardinality(held) ELSE Cap

\* What phase 2 applies was computed in this tick, from this tick's portfolio.
ResultsAreFresh ==
  stage \in {"evaluate", "apply"} =>
    \A t \in Tickers : coro[t] = "decided" => source[t] = tick

\* With as many threads as slots a call is kept waiting by orphans only.
KeptWaitingByOrphansOnly ==
  ~Stopped /\ Workers >= Slots /\ queue # <<>> /\ Cardinality(running) = Workers
    => Orphans # {}

\* Orders are sent from one thread at a time: through time-outs, orphans, ticks
\* and a stop there is one call of _apply_decision_with_risk at most, so one
\* ticker at most trades unrecorded when the process stops.
OrdersOneAtATime ==
  Cardinality({c \in Queued \cup running \cup over : c.kind = "apply"}) <= 1

\* After stop() no call is begun, whatever was queued.
NothingBegunAfterStop == [][Stopped => running' \subseteq running]_vars

\* Whatever fails or times out, a tick ends.
TickEnds == stage # "sleep" ~> stage = "sleep"

===============================================================================
