------------------------------ MODULE ShortCheck ------------------------------
(***************************************************************************)
(* ShortCheckRunner: one SELL, a pause, one BUY, with a state file that a  *)
(* restarted process reads.  The broker is OrderPromise: an order may be   *)
(* executed more than once, or after the process that sent it has gone.    *)
(*                                                                         *)
(* Instants are ages, counted up to Delay: only elapsed < delay is asked.  *)
(***************************************************************************)
EXTENDS Integers, Sequences, FiniteSets

CONSTANTS
  Candidates,  \* SHORT_CHECK_CANDIDATES, or the universe, in order
  Secids,      \* what SHORT_CHECK_SECID may be, from one process to the next
  Delay,       \* SHORT_CHECK_DELAY_SECONDS
  MaxFills,    \* executions of one order
  MaxFaults    \* bound: stops, failing calls, repeated executions, strays

Tickers == {Candidates[i] : i \in DOMAIN Candidates}

ASSUME SecidAssumption == Secids \subseteq Tickers \cup {"AUTO"}
ASSUME DelayAssumption == Delay \in Nat
ASSUME BoundsAssumption == MaxFills \in Nat /\ MaxFaults \in Nat

VARIABLES
  disk,    \* short_check_state.json, as _read_state returns it
  pc,      \* where run() is
  state,   \* the dictionary it works on
  call,    \* the submit_order under way
  stray,   \* orders of a process that has gone, or given up by the client
  net,     \* lots the check has bought minus lots it has sold
  faults,
  sent,    \* history: submit_order calls, by direction
  cuts,    \* history: writes of the state file that were cut off
  sold,    \* history: ticker of the SELL that was answered with success, its age
  exact    \* history: no order executed twice or after its answer

process == <<disk, pc, state>>
broker == <<call, stray, net>>
history == <<sent, cuts, sold, exact>>
vars == <<process, broker, faults, history>>

Never == -1
Ages == {Never} \cup 0..Delay
NoTicker == "none"
NoCall == [direction |-> "none", secid |-> NoTicker, fills |-> 0]
Unsold == [secid |-> NoTicker, age |-> Never]

\* {}: no file, or one that is no JSON.  Unreadable: not even UTF-8.
Empty == [status |-> "none", secid |-> NoTicker, soldAt |-> Never]
Unreadable == [Empty EXCEPT !.status = "unreadable"]

Statuses == {"none", "unreadable", "no_candidate", "sell_started", "sell_rejected",
             "sell_submitted", "buy_started", "buy_rejected", "done"}
States == [status : Statuses, secid : Tickers \cup {NoTicker}, soldAt : Ages]

TypeOK ==
  /\ disk \in States /\ state \in States
  /\ pc \in {"boot", "resolving", "saving", "selling", "waiting", "buying", "over"}
  /\ call \in [direction : {"S", "B"}, secid : Tickers, fills : 0..MaxFills]
              \cup {NoCall}
  /\ stray \subseteq [direction : {"S", "B"}, secid : Tickers]
  /\ net \in [Tickers -> Int]
  /\ faults \in 0..MaxFaults
  /\ sent \in [{"S", "B"} -> Nat] /\ cuts \in Nat
  /\ sold \in [secid : Tickers \cup {NoTicker}, age : Ages] /\ exact \in BOOLEAN

Init ==
  /\ disk = Empty /\ pc = "boot" /\ state = Empty
  /\ call = NoCall /\ stray = {} /\ net = [t \in Tickers |-> 0]
  /\ faults = 0
  /\ sent = [d \in {"S", "B"} |-> 0] /\ cuts = 0 /\ sold = Unsold /\ exact = TRUE

Fault == faults < MaxFaults /\ faults' = faults + 1

-------------------------------------------------------------------------------
(* run *)

\* Variant: a SELL whose outcome is unknown is sent again.
BootRepeatsStarted ==
  /\ pc = "boot"
  /\ state' = disk
  /\ pc' = CASE disk.status = "sell_submitted" -> "waiting"
             [] disk.status \in {"none", "no_candidate", "sell_started"} -> "resolving"
             [] OTHER -> "over"
  /\ UNCHANGED <<disk, broker, faults, history>>

\* Variant: every state but an empty one is final.
BootNeverResumes ==
  /\ pc = "boot"
  /\ state' = disk
  /\ pc' = IF disk.status \in {"none", "no_candidate"} THEN "resolving" ELSE "over"
  /\ UNCHANGED <<disk, broker, faults, history>>

\* Done, uncertain and rejected states are final; a SELL waits for its BUY.
Boot ==
  /\ pc = "boot"
  /\ state' = disk
  /\ pc' = CASE disk.status = "sell_submitted" -> "waiting"
             [] disk.status \in {"none", "no_candidate"} -> "resolving"
             [] OTHER -> "over"
  /\ UNCHANGED <<disk, broker, faults, history>>

\* _write_state(record), then what follows it.
Save(record) == state' = record /\ pc' = "saving"

Started(t) == [status |-> "sell_started", secid |-> t, soldAt |-> Never]

ResolveConfigured(t) ==
  /\ pc = "resolving" /\ t \in Secids
  /\ Save(Started(t))
  /\ UNCHANGED <<disk, broker, faults, history>>

\* The first candidate that the portfolio does not hold.
ResolveAuto(held) ==
  LET free == {i \in DOMAIN Candidates : Candidates[i] \notin held}
  IN  /\ pc = "resolving" /\ "AUTO" \in Secids
      /\ \/ free = {} /\ Save([Empty EXCEPT !.status = "no_candidate"])
         \/ \E i \in free : (\A j \in free : i <= j) /\ Save(Started(Candidates[i]))
      /\ UNCHANGED <<disk, broker, faults, history>>

\* get_portfolio raises, and run with it.
ResolveFails ==
  /\ pc = "resolving" /\ "AUTO" \in Secids
  /\ Fault
  /\ pc' = "over"
  /\ UNCHANGED <<disk, state, broker, history>>

Order(direction, t) ==
  /\ call' = [direction |-> direction, secid |-> t, fills |-> 0]
  /\ sent' = [sent EXCEPT ![direction] = @ + 1]

\* The file is written; after sell_started and buy_started comes the order.
Saved ==
  /\ pc = "saving"
  /\ disk' = state
  /\ CASE state.status = "sell_started" -> pc' = "selling" /\ Order("S", state.secid)
       [] state.status = "buy_started" -> pc' = "buying" /\ Order("B", state.secid)
       [] state.status = "sell_submitted" -> pc' = "waiting" /\ UNCHANGED <<call, sent>>
       [] OTHER -> pc' = "over" /\ UNCHANGED <<call, sent>>
  /\ UNCHANGED <<state, stray, net, faults, cuts, sold, exact>>

\* submit_order answers.  Without success, by an answer or an exception, the
\* order may still be executed.
Answered(success) ==
  /\ call' = NoCall
  /\ \/ success /\ call.fills > 0 /\ UNCHANGED <<stray, faults>>
     \/ /\ ~success /\ Fault
        /\ stray' \in {stray,
                       stray \cup {[direction |-> call.direction, secid |-> call.secid]}}

\* sold_at is read back only from sell_submitted.
AnswerSell(success) ==
  /\ pc = "selling"
  /\ Answered(success)
  /\ Save([state EXCEPT !.status = IF success THEN "sell_submitted" ELSE "sell_rejected",
                        !.soldAt = 0])
  /\ sold' = IF success THEN [secid |-> call.secid, age |-> 0] ELSE sold
  /\ UNCHANGED <<disk, net, sent, cuts, exact>>

\* Variant: a resumed process covers at once.
CoverAtOnce ==
  /\ pc = "waiting"
  /\ Save([state EXCEPT !.status = "buy_started"])
  /\ UNCHANGED <<disk, broker, faults, history>>

\* _remaining_delay is over.
Cover ==
  /\ pc = "waiting" /\ state.soldAt = Delay
  /\ Save([state EXCEPT !.status = "buy_started"])
  /\ UNCHANGED <<disk, broker, faults, history>>

\* Variant: the answer is not looked at.
AnswerBuyUnread(success) ==
  /\ pc = "buying"
  /\ Answered(success)
  /\ Save([disk EXCEPT !.status = "done"])
  /\ UNCHANGED <<disk, net, history>>

AnswerBuy(success) ==
  /\ pc = "buying"
  /\ Answered(success)
  /\ Save([disk EXCEPT !.status = IF success THEN "done" ELSE "buy_rejected"])
  /\ UNCHANGED <<disk, net, history>>

-------------------------------------------------------------------------------
(* The process stops, and is started again; also after it has ended. *)

\* write_text empties the file before it fills it.
CutOff == {Empty, Unreadable}

\* Killed, or cancelled at an await: the thread of submit_order may go on.  Or
\* write_text raises, and run with it.
Crash ==
  /\ pc # "over" /\ Fault
  /\ pc' = "over" /\ state' = Empty
  /\ \/ disk' \in {disk} \cup (IF pc = "saving" THEN {state} ELSE {}) /\ cuts' = cuts
     \/ pc = "saving" /\ disk' \in CutOff /\ cuts' = cuts + 1
  /\ call' = NoCall
  /\ stray' = IF call = NoCall THEN stray
              ELSE stray \cup {[direction |-> call.direction, secid |-> call.secid]}
  /\ UNCHANGED <<net, sent, sold, exact>>

Restart ==
  /\ pc = "over"
  /\ pc' = "boot" /\ state' = Empty
  /\ UNCHANGED <<disk, broker, faults, history>>

-------------------------------------------------------------------------------
(* Time and the broker. *)

Older(age) == IF age \in 0..(Delay - 1) THEN age + 1 ELSE age

Pass ==
  /\ disk' = [disk EXCEPT !.soldAt = Older(@)]
  /\ state' = [state EXCEPT !.soldAt = Older(@)]
  /\ sold' = [sold EXCEPT !.age = Older(@)]
  /\ UNCHANGED <<pc, broker, faults, sent, cuts, exact>>

Signed(direction) == IF direction = "S" THEN -1 ELSE 1

Fill ==
  /\ call # NoCall /\ call.fills < MaxFills
  /\ IF call.fills = 0 THEN UNCHANGED faults ELSE Fault
  /\ net' = [net EXCEPT ![call.secid] = @ + Signed(call.direction)]
  /\ call' = [call EXCEPT !.fills = @ + 1]
  /\ exact' = (exact /\ call.fills = 0)
  /\ UNCHANGED <<process, stray, sent, cuts, sold>>

FillStray ==
  /\ \E order \in stray :
       /\ net' = [net EXCEPT ![order.secid] = @ + Signed(order.direction)]
       /\ stray' = stray \ {order}
  /\ exact' = FALSE
  /\ UNCHANGED <<process, call, faults, sent, cuts, sold>>

Resolve ==
  \/ \E t \in Tickers : ResolveConfigured(t)
  \/ \E held \in SUBSET Tickers : ResolveAuto(held)
Answer == \E success \in BOOLEAN : AnswerSell(success) \/ AnswerBuy(success)

Next ==
  \/ Boot \/ Resolve \/ ResolveFails \/ Saved \/ Answer \/ Cover
  \/ Crash \/ Restart
  \/ Pass \/ Fill \/ FillStray

\* run() goes on, submit_order returns (OrderDelivery), time passes, and a pod
\* that stopped is started again; the broker executes what reaches it.
Fairness ==
  /\ WF_vars(Boot) /\ WF_vars(Saved) /\ WF_vars(Answer) /\ WF_vars(Cover)
  /\ WF_vars(Restart) /\ WF_vars(Pass) /\ WF_vars(Fill)

Spec == Init /\ [][Next]_vars /\ Fairness

-------------------------------------------------------------------------------
(* Properties. *)

\* short_check.py:18-21: one SELL and one BUY at most, restarts included.
OneShot == sent["S"] <= 1 /\ sent["B"] <= 1

\* What the code keeps of it: nothing but a write of the state file that was cut
\* off makes a process sell once more, and no SELL is covered twice.
OneSellForEachCut == sent["S"] <= 1 + cuts /\ sent["B"] <= sent["S"]

\* The BUY covers what was sold: after a SELL that was answered with success,
\* of the same ticker, and not before the pause is over, whichever process
\* sends it.
BuyCoversTheSell ==
  [][sent'["B"] # sent["B"] => sold = [secid |-> call'.secid, age |-> Delay]]_vars

\* A check that says it is done has left nothing at the broker, but for one lot
\* sold for each write of the state file that was cut off, as long as every order
\* was executed once and before its answer.
DoneMeansFlat ==
  disk.status = "done" /\ exact => \A t \in Tickers : net[t] \in (-cuts)..0

\* A SELL that is on record does not stay open for want of a process that
\* would cover it: its BUY is at least begun, whatever stops in between, up to a
\* stop inside the write that records the beginning.
CoverIsBegun ==
  (disk.status = "sell_submitted")
    ~> (disk.status \in {"buy_started", "buy_rejected", "done"} \/ disk \in CutOff)

===============================================================================
