---------------------------- MODULE PolzaFailsafe ----------------------------
(***************************************************************************)
(* _handle_polza_balance_failsafe: when the account that pays for the LLM  *)
(* is empty the scheduler stops trading and, after a grace period, closes  *)
(* every position.  The start of the period is kept in memory and in the   *)
(* journal; a restart reads it back.  What a tick does when it trades is   *)
(* in TradingTick: here it moves a position somewhere.                     *)
(*                                                                         *)
(* Instants are counted as ages, up to Grace, in memory and in the         *)
(* journal alike: only elapsed < grace is ever asked.                      *)
(***************************************************************************)
EXTENDS JournalFile, Integers

CONSTANTS
  Tickers,
  Quantities,      \* of each ticker: the lots trading may leave of it
  Grace,           \* POLZA_BALANCE_GRACE_MINUTES, not 0 (`or 30`)
  TailLines,       \* journal.tail(2000)
  MaxFills,        \* executions of one order (OrderPromise)
  MaxFaults        \* bound: crashes, failing checks and writes, orders not
                   \* executed, strays

ASSUME GraceAssumption == Grace \in Nat \ {0}
ASSUME QuantitiesAssumption == Quantities \in [Tickers -> SUBSET Int]
ASSUME TailAssumption == TailLines \in Nat \ {0}
ASSUME BoundsAssumption == MaxFills \in Nat /\ MaxFaults \in Nat

VARIABLES
  balance,     \* what polza.ai would answer
  pos, stray,  \* the broker: positions, orders it may still execute (of equal
               \* ones, one)
  file,        \* the end of the journal
  up,          \* whether the process runs
  depletedAt,  \* _polza_balance_depleted_at
  phase,       \* where the tick is
  read, todo,  \* the positions it has read, those it has still to close
  call,        \* the submit_order under way
  faults,
  lowFor,      \* history: age of the depletion as the checks have seen it
  since,       \* history: lines written since the record of that depletion, all
               \* that are read when it was not written
  stale,       \* history: of the last recovery the journal has no record
  exact        \* history: no order executed twice or after its answer

env == <<balance, pos, stray>>
process == <<up, depletedAt, phase, read, todo, call>>
history == <<lowFor, since, stale, exact>>
vars == <<env, file, process, faults, history>>

Never == -1
Ages == 0..Grace
NoCall == [t |-> "none", delta |-> 0, fills |-> 0]

Depleted(age) == [event |-> "depleted", age |-> age]
Recovered == [event |-> "recovered", age |-> 0]
Other == [event |-> "other", age |-> 0]   \* tick, tick_skipped, close_all, ...

TypeOK ==
  /\ balance \in {"ok", "low"}
  /\ pos \in [Tickers -> Int]
  /\ stray \subseteq [t : Tickers, delta : Int]
  /\ file \in Seq([record : [event : {"depleted", "recovered", "other"}, age : Ages],
                   readable : BOOLEAN, ended : BOOLEAN])
  /\ up \in BOOLEAN
  /\ depletedAt \in Ages \cup {Never}
  /\ phase \in {"idle", "checking", "trading", "closing"}
  /\ read \in [Tickers -> Int] /\ todo \subseteq Tickers
  /\ todo # {} => phase = "closing"
  /\ call \in [t : Tickers, delta : Int, fills : 0..MaxFills] \cup {NoCall}
  /\ faults \in 0..MaxFaults
  /\ lowFor \in Ages \cup {Never}
  /\ since \in 0..TailLines /\ stale \in BOOLEAN /\ exact \in BOOLEAN

Nothing == [t \in Tickers |-> 0]

Init ==
  /\ balance \in {"ok", "low"}
  /\ pos \in [Tickers -> UNION {Quantities[t] : t \in Tickers}]
  /\ \A t \in Tickers : pos[t] \in Quantities[t]
  /\ stray = {}
  /\ file = <<>>
  /\ up = TRUE /\ depletedAt = Never
  /\ phase = "idle" /\ read = Nothing /\ todo = {} /\ call = NoCall
  /\ faults = 0
  /\ lowFor = Never /\ since = TailLines /\ stale = FALSE /\ exact = TRUE

Fault == faults < MaxFaults /\ faults' = faults + 1

-------------------------------------------------------------------------------
(* The journal, cut to the lines tail looks at. *)

Kept(f) == LastLines(f, TailLines)

\* Where the lines that tail returns speak of the balance.
About(lines) ==
  {i \in DOMAIN lines : lines[i].readable /\ lines[i].record.event # "other"}

\* Variant: the first record of the tail decides.
LoadOldest(f) ==
  LET lines == Kept(f)
      about == About(lines)
  IN  IF about = {} \/ lines[Min(about)].record.event = "recovered" THEN Never
      ELSE lines[Min(about)].record.age

\* _load_polza_balance_depleted_at: the last record about the balance decides.
Load(f) ==
  LET lines == Kept(f)
      about == About(lines)
  IN  IF about = {} \/ lines[Max(about)].record.event = "recovered" THEN Never
      ELSE lines[Max(about)].record.age

\* What a write that fails leaves: nothing, or a part of the line; write returns
\* as if all was well.
Failed(f, record) == {f} \cup Torn(f, record)

Wrote(record) ==
  \/ file' = Kept(Write(file, record)) /\ UNCHANGED faults
  \/ (\E f \in Failed(file, record) : file' = Kept(f)) /\ Fault

\* The record is in the journal as a line of its own, nothing after it.
Told(f, record) == f # <<>> /\ Last(f) = Line(record, TRUE, TRUE)

Cap(n) == IF n < TailLines THEN n ELSE TailLines
Lines(n) == Cap(since + n)

Journalled(record) ==
  /\ Wrote(record)
  /\ since' = Lines(1)

-------------------------------------------------------------------------------
(* A tick. *)

\* Outside the trading window, or get_portfolio failed.
SkipTick ==
  /\ up /\ phase = "idle"
  /\ Journalled(Other)
  /\ UNCHANGED <<env, process, lowFor, stale, exact>>

ReadPortfolio ==
  /\ up /\ phase = "idle"
  /\ phase' = "checking" /\ read' = pos
  /\ UNCHANGED <<env, file, up, depletedAt, todo, call, faults, history>>

\* get_balance_amount raises: a warning, and the tick trades.
CheckFails ==
  /\ up /\ phase = "checking" /\ Fault
  /\ phase' = "trading"
  /\ UNCHANGED <<env, file, up, depletedAt, read, todo, call, history>>

Recovery ==
  IF depletedAt = Never THEN UNCHANGED <<file, faults, stale>>
  ELSE Wrote(Recovered) /\ stale' = ~Told(file', Recovered)

\* Variant: the start of the depletion stays in memory.
CheckOkKeepsStart ==
  /\ up /\ phase = "checking" /\ balance = "ok"
  /\ Recovery
  /\ phase' = "trading"
  /\ lowFor' = Never /\ since' = TailLines
  /\ UNCHANGED <<env, up, depletedAt, read, todo, call, exact>>

CheckOk ==
  /\ up /\ phase = "checking" /\ balance = "ok"
  /\ Recovery
  /\ depletedAt' = Never /\ phase' = "trading"
  /\ lowFor' = Never /\ since' = TailLines
  /\ UNCHANGED <<env, up, read, todo, call, exact>>

Seen == lowFor' = IF lowFor = Never THEN 0 ELSE lowFor

\* What the record of a depletion tells the journal, f with it, n lines on.
Dated(f, n) ==
  /\ since' = IF lowFor = Never /\ Told(f, Depleted(0)) THEN Cap(n) ELSE Lines(n)
  /\ stale' = (stale /\ ~Told(f, Depleted(0)))

\* The balance is gone: the period starts, and the tick is skipped.
CheckDepleted ==
  /\ up /\ phase = "checking" /\ balance = "low" /\ depletedAt = Never
  /\ depletedAt' = 0
  /\ \E f \in {Write(file, Depleted(0))} \cup Failed(file, Depleted(0)) :
       \E g \in {Write(f, Other)} \cup Failed(f, Other) :
         /\ file' = Kept(g)
         /\ IF f = Write(file, Depleted(0)) /\ g = Write(f, Other)
            THEN UNCHANGED faults ELSE Fault
         /\ Dated(f, 2)
  /\ phase' = "idle" /\ read' = Nothing
  /\ Seen
  /\ UNCHANGED <<env, up, todo, call, exact>>

\* elapsed < grace: the tick is skipped.
CheckInGrace ==
  /\ up /\ phase = "checking" /\ balance = "low"
  /\ depletedAt \in 0..(Grace - 1)
  /\ Journalled(Other)
  /\ phase' = "idle" /\ read' = Nothing
  /\ Seen
  /\ UNCHANGED <<env, up, depletedAt, todo, call, stale, exact>>

\* Variant: a depletion counts from the tick that sees it.
CheckGraceOverRestarting ==
  /\ up /\ phase = "checking" /\ balance = "low"
  /\ depletedAt = Grace
  /\ depletedAt' = 0
  /\ Journalled(Other)
  /\ phase' = "idle" /\ read' = Nothing
  /\ Seen
  /\ UNCHANGED <<env, up, todo, call, stale, exact>>

CheckGraceOver ==
  /\ up /\ phase = "checking" /\ balance = "low"
  /\ depletedAt = Grace
  /\ phase' = "closing"
  /\ todo' = {t \in Tickers : read[t] # 0}
  /\ Seen
  /\ UNCHANGED <<env, file, up, depletedAt, read, call, faults, since, stale, exact>>

\* Variant: the direction of the position instead of the opposite one.
ClosingDeltaSameSide(t) == read[t]

\* "S" for a long, "B" for a short, the whole quantity that was read.
ClosingDelta(t) == -read[t]

Close(t) ==
  /\ up /\ phase = "closing" /\ call = NoCall /\ t \in todo
  /\ call' = [t |-> t, delta |-> ClosingDelta(t), fills |-> 0]
  /\ UNCHANGED <<env, file, up, depletedAt, phase, read, todo, faults, history>>

\* success, order_rejected, or an exception that is turned into a rejection;
\* an attempt that was given up may still arrive.
Answer ==
  /\ up /\ call # NoCall
  /\ \/ call.fills > 0 /\ stray' = stray /\ UNCHANGED faults
     \/ call.fills = 0 /\ stray' = stray /\ Fault
     \/ stray' = stray \cup {[t |-> call.t, delta |-> call.delta]} /\ Fault
  /\ todo' = todo \ {call.t} /\ call' = NoCall
  /\ UNCHANGED <<balance, pos, file, up, depletedAt, phase, read, history>>

\* Variant: the thread that closes is not awaited.
EndCloseUnawaited ==
  /\ up /\ phase = "closing"
  /\ Journalled(Other)
  /\ phase' = "idle" /\ read' = Nothing
  /\ UNCHANGED <<env, up, depletedAt, todo, call, lowFor, stale, exact>>

EndClose ==
  /\ up /\ phase = "closing" /\ todo = {}
  /\ Journalled(Other)
  /\ phase' = "idle" /\ read' = Nothing
  /\ UNCHANGED <<env, up, depletedAt, todo, call, lowFor, stale, exact>>

\* The rest of the tick, and its record.
Trade(t) ==
  /\ up /\ phase = "trading"
  /\ \E qty \in Quantities[t] : pos' = [pos EXCEPT ![t] = qty]
  /\ UNCHANGED <<balance, stray, file, process, faults, history>>

EndTrade ==
  /\ up /\ phase = "trading"
  /\ Journalled(Other)
  /\ phase' = "idle" /\ read' = Nothing
  /\ UNCHANGED <<env, up, depletedAt, todo, call, lowFor, stale, exact>>

-------------------------------------------------------------------------------
(* The process stops and is started again. *)

\* The record the tick was about to write when it stopped, if it matters.
Pending ==
  IF phase = "checking" /\ balance = "ok" /\ depletedAt # Never THEN Recovered
  ELSE IF phase = "checking" /\ balance = "low" /\ depletedAt = Never
       THEN Depleted(0) ELSE Other

\* Before that record, after it, or in the middle of it.  stop() cancels the
\* task; the thread that closes goes on, as far as the pod lets it.
Crash ==
  /\ up /\ Fault
  /\ \/ UNCHANGED <<file, lowFor, since, stale>>
     \/ /\ \E f \in {Write(file, Pending)} \cup Torn(file, Pending) : file' = Kept(f)
        /\ CASE Pending = Recovered ->
                  /\ lowFor' = Never /\ since' = TailLines
                  /\ stale' = ~Told(file', Recovered)
             [] Pending = Depleted(0) -> Seen /\ Dated(file', 1)
             [] OTHER -> since' = Lines(1) /\ UNCHANGED <<lowFor, stale>>
  /\ stray' = stray \cup {[t |-> t, delta |-> ClosingDelta(t)] : t \in todo}
  /\ up' = FALSE /\ depletedAt' = Never
  /\ phase' = "idle" /\ read' = Nothing /\ todo' = {} /\ call' = NoCall
  /\ UNCHANGED <<balance, pos, exact>>

Restart ==
  /\ ~up
  /\ up' = TRUE /\ depletedAt' = Load(file)
  /\ UNCHANGED <<env, file, phase, read, todo, call, faults, history>>

-------------------------------------------------------------------------------
(* The world outside: time, the balance, the broker. *)

Older(age) == IF age = Never THEN Never ELSE IF age < Grace THEN age + 1 ELSE Grace

Pass ==
  /\ depletedAt' = Older(depletedAt) /\ lowFor' = Older(lowFor)
  /\ file' = [i \in DOMAIN file |->
                IF file[i].record.event = "depleted"
                THEN [file[i] EXCEPT !.record.age = Older(@)] ELSE file[i]]
  /\ UNCHANGED <<env, up, phase, read, todo, call, faults, since, stale,
                 exact>>

BalanceChanges ==
  /\ balance' = IF balance = "ok" THEN "low" ELSE "ok"
  /\ UNCHANGED <<pos, stray, file, process, faults, history>>

Fill ==
  /\ call # NoCall /\ call.fills < MaxFills
  /\ IF call.fills = 0 THEN UNCHANGED faults ELSE Fault
  /\ pos' = [pos EXCEPT ![call.t] = @ + call.delta]
  /\ call' = [call EXCEPT !.fills = @ + 1]
  /\ exact' = (exact /\ call.fills = 0)
  /\ UNCHANGED <<balance, stray, file, up, depletedAt, phase, read, todo, lowFor,
                 since, stale>>

FillStray ==
  /\ \E order \in stray :
       /\ pos' = [pos EXCEPT ![order.t] = @ + order.delta]
       /\ stray' = stray \ {order}
  /\ exact' = FALSE
  /\ UNCHANGED <<balance, file, process, faults, lowFor, since, stale>>

Check == CheckFails \/ CheckOk \/ CheckDepleted \/ CheckInGrace \/ CheckGraceOver

Next ==
  \/ SkipTick \/ ReadPortfolio \/ Check
  \/ (\E t \in Tickers : Close(t) \/ Trade(t)) \/ Answer \/ EndClose \/ EndTrade
  \/ Crash \/ Restart
  \/ Pass \/ BalanceChanges \/ Fill \/ FillStray

\* What the process does one after the other, once it has the positions.
Step ==
  \/ ReadPortfolio \/ Check
  \/ (\E t \in Tickers : Close(t)) \/ Answer \/ EndClose \/ EndTrade

\* _loop runs tick after tick, submit_order returns (OrderDelivery), the pod is
\* restarted, time passes and the broker executes what it is sent; the balance
\* and the trades of a tick are under no obligation.
Fairness == WF_vars(Step) /\ WF_vars(Restart) /\ WF_vars(Pass) /\ WF_vars(Fill)

Spec == Init /\ [][Next]_vars /\ Fairness

-------------------------------------------------------------------------------
(* Properties. *)

\* Positions are closed only when every check that answered for the length of
\* the grace period has seen the account empty, restarts in between included.
\* The one exception: the record of the last recovery was not written, and the
\* depletion before it is dated by a line that is still read.
CloseNotEarly ==
  [][phase # "closing" /\ phase' = "closing" => lowFor' = Grace \/ stale]_vars

\* What the fail-safe says of its orders, without that exception: "closing all
\* positions after grace period".
ClosesAfterGrace ==
  [][phase # "closing" /\ phase' = "closing" => lowFor' = Grace]_vars

\* A restart does not start the period anew: a check that finds the account
\* empty Grace after the first one did closes, as long as the record of the
\* depletion has been written and is among the lines the restart looks at.
GraceSurvivesRestart ==
  [][phase = "checking" /\ phase' # "checking" /\ lowFor = Grace /\ up'
     /\ lowFor' = Grace /\ since < TailLines /\ faults' = faults
     => phase' = "closing"]_vars

\* An order of the fail-safe never leaves a position larger than it was, as
\* long as every order was executed once and before its answer.
ClosingReduces ==
  [][phase = "closing" /\ exact' =>
       \A t \in Tickers : pos'[t] = pos[t] \/ pos'[t] = 0]_vars

\* An account that stays empty ends with every position closed, whatever was
\* refused, executed twice or interrupted before.
EventuallyFlat ==
  <>[](balance = "low") => <>[](\A t \in Tickers : pos[t] = 0)
===============================================================================
