--------------------------- MODULE ShortCheck_proofs ---------------------------
(***************************************************************************)
(* What is on disk decides what a process may still send: the state file   *)
(* is at least as far as the orders that have gone out, but for those of a *)
(* process whose write was cut off.  From this follow, for any number of   *)
(* restarts, how many orders there are, that the BUY is the one the SELL   *)
(* called for, and what is left when the check is done.                    *)
(***************************************************************************)
EXTENDS ShortCheck, TLAPS

Fresh == {"none", "no_candidate"}

\* Where an order is about to be sent, its ticker is known; one is under way
\* exactly where run() waits for it.
Named ==
  /\ pc = "saving" /\ state.status \in {"sell_started", "sell_submitted", "buy_started"}
       => state.secid \in Tickers
  /\ pc \in {"selling", "waiting"} => state.secid \in Tickers
  /\ disk.status = "sell_submitted" => disk.secid \in Tickers
  /\ pc \in {"selling", "buying"} <=> call # NoCall
  /\ pc = "selling" => call.secid = state.secid /\ call.direction = "S"
  /\ pc = "buying" => call.direction = "B"

TypeInv == TypeOK /\ Named

\* No order has gone out that the file does not know of, but for one SELL for
\* each write that was cut off; and a SELL on record is still to be covered.
FileIsAhead ==
  /\ disk.status \in Fresh => sent["S"] <= cuts
  /\ disk.status = "sell_submitted" => sent["B"] < sent["S"]
  /\ pc = "selling" => sent["B"] < sent["S"]
  /\ pc = "saving" /\ state.status = "sell_submitted" => sent["B"] < sent["S"]

\* Where run() is follows from the file it has read or written.
InStep ==
  /\ pc = "resolving" => disk.status \in Fresh
  /\ pc = "selling" => disk.status = "sell_started"
  /\ pc = "waiting" => disk.status = "sell_submitted"
  /\ pc = "buying" => disk.status = "buy_started"
  /\ pc = "saving" =>
       \/ state.status \in {"no_candidate", "sell_started"} /\ disk.status \in Fresh
       \/ /\ state.status \in {"sell_submitted", "sell_rejected"}
          /\ disk.status = "sell_started"
       \/ state.status = "buy_started" /\ disk.status = "sell_submitted"
       \/ state.status \in {"done", "buy_rejected"} /\ disk.status = "buy_started"

CountInv == TypeInv /\ FileIsAhead /\ InStep /\ OneSellForEachCut

\* A record of the SELL is the record of the one that was answered.
Recorded(record) == sold = [secid |-> record.secid, age |-> record.soldAt]

SaleInv ==
  /\ TypeInv
  /\ disk.status = "sell_submitted" => Recorded(disk)
  /\ pc = "selling" => disk.status # "sell_submitted"
  /\ pc = "waiting" => Recorded(state)
  /\ pc = "saving" /\ state.status \in {"sell_submitted", "buy_started"} => Recorded(state)
  /\ pc = "saving" /\ state.status = "buy_started" => state.soldAt = Delay

-------------------------------------------------------------------------------

LEMMA OlderType ==
  ASSUME NEW age \in Ages
  PROVE  Older(age) \in Ages
BY DelayAssumption DEF Older, Ages, Never

\* Only a free candidate is chosen.
LEMMA CandidateType ==
  ASSUME NEW i \in DOMAIN Candidates
  PROVE  Candidates[i] \in Tickers
BY DEF Tickers

LEMMA InitType == Init => TypeInv
BY DelayAssumption, BoundsAssumption
DEF Init, TypeInv, Named, TypeOK, States, Statuses, Empty, Ages, Never, Unsold, NoCall

LEMMA StartedType ==
  ASSUME NEW t \in Tickers
  PROVE  Started(t) \in States
BY DEF Started, States, Statuses, Ages

\* The order under way is a proper one.
LEMMA CallType ==
  ASSUME TypeInv, pc \in {"selling", "buying"}
  PROVE  /\ call \in [direction : {"S", "B"}, secid : Tickers, fills : 0..MaxFills]
         /\ [direction |-> call.direction, secid |-> call.secid]
              \in [direction : {"S", "B"}, secid : Tickers]
BY DEF TypeInv, TypeOK, Named

LEMMA AnsweredType ==
  ASSUME TypeInv, pc \in {"selling", "buying"}, NEW success \in BOOLEAN, Answered(success)
  PROVE  /\ call' = NoCall
         /\ stray' \subseteq [direction : {"S", "B"}, secid : Tickers]
         /\ faults' \in 0..MaxFaults
BY CallType, BoundsAssumption DEF Answered, Fault, TypeInv, TypeOK

LEMMA StepType == TypeInv /\ [Next]_vars => TypeInv'
<1> SUFFICES ASSUME TypeInv, [Next]_vars PROVE TypeInv'
  OBVIOUS
<1> USE DelayAssumption, BoundsAssumption DEF TypeInv, TypeOK, Named
<1>1. CASE Boot
  BY <1>1 DEF Boot, broker, history
<1>2. ASSUME NEW t \in Tickers, ResolveConfigured(t) PROVE TypeInv'
  BY <1>2, StartedType DEF ResolveConfigured, Save, Started, broker, history
<1>3. ASSUME NEW held \in SUBSET Tickers, ResolveAuto(held) PROVE TypeInv'
  <2>1. [Empty EXCEPT !.status = "no_candidate"] \in States
    BY DEF Empty, States, Statuses, Ages
  <2>2. \A i \in DOMAIN Candidates : Started(Candidates[i]) \in States
    BY CandidateType, StartedType
  <2>3. /\ state' \in States /\ pc' = "saving"
        /\ state'.status = "no_candidate" \/ state'.secid \in Tickers
    BY <1>3, <2>1, <2>2, CandidateType DEF ResolveAuto, Save, Started, Empty
  <2> QED
    BY <1>3, <2>3 DEF ResolveAuto, broker, history
<1>4. CASE ResolveFails
  BY <1>4 DEF ResolveFails, Fault, broker, history
<1>5. ASSUME Saved PROVE TypeInv'
  <2>1. CASE state.status = "sell_started"
    BY <1>5, <2>1 DEF Saved, Order, NoCall
  <2>2. CASE state.status = "buy_started"
    BY <1>5, <2>2 DEF Saved, Order, NoCall
  <2>3. CASE state.status \notin {"sell_started", "buy_started"}
    BY <1>5, <2>3 DEF Saved
  <2> QED
    BY <2>1, <2>2, <2>3
<1>6. ASSUME NEW success \in BOOLEAN, AnswerSell(success) PROVE TypeInv'
  <2>1. Answered(success) /\ pc = "selling" /\ pc' = "saving"
    BY <1>6 DEF AnswerSell, Save
  <2>2. state' \in States /\ state'.secid = state.secid
    <3>1. 0 \in Ages /\ {"sell_submitted", "sell_rejected"} \subseteq Statuses
      BY DEF Ages, Statuses
    <3>2. PICK status \in {"sell_submitted", "sell_rejected"} :
            state' = [state EXCEPT !.status = status, !.soldAt = 0]
      BY <1>6 DEF AnswerSell, Save
    <3> QED
      BY <3>1, <3>2 DEF States
  <2>3. sold' \in [secid : Tickers \cup {NoTicker}, age : Ages]
    <3>1. 0 \in Ages
      BY DEF Ages
    <3>2. call.secid \in Tickers
      BY <2>1
    <3>3. CASE success
      BY <1>6, <3>1, <3>2, <3>3 DEF AnswerSell
    <3>4. CASE ~success
      BY <1>6, <3>4 DEF AnswerSell
    <3> QED
      BY <3>3, <3>4
  <2> QED
    BY <1>6, <2>1, <2>2, <2>3, AnsweredType DEF AnswerSell
<1>7. CASE Cover
  <2>1. state' \in States /\ state'.secid = state.secid
    BY <1>7 DEF Cover, Save, States, Statuses
  <2> QED
    BY <1>7, <2>1 DEF Cover, Save, broker, history
<1>8. ASSUME NEW success \in BOOLEAN, AnswerBuy(success) PROVE TypeInv'
  <2>1. Answered(success) /\ pc = "buying" /\ pc' = "saving"
    BY <1>8 DEF AnswerBuy, Save
  <2>2. state' \in States /\ state'.status \in {"done", "buy_rejected"}
    BY <1>8 DEF AnswerBuy, Save, States, Statuses
  <2> QED
    BY <1>8, <2>1, <2>2, AnsweredType DEF AnswerBuy, history
<1>9. ASSUME Crash PROVE TypeInv'
  <2>1. /\ disk' \in States
        /\ disk'.status = "sell_submitted" => disk'.secid \in Tickers
    BY <1>9 DEF Crash, CutOff, Empty, Unreadable, States, Statuses, Ages
  <2>4. cuts' \in Nat
    BY <1>9 DEF Crash
  <2>2. stray' \subseteq [direction : {"S", "B"}, secid : Tickers]
    BY <1>9, CallType DEF Crash
  <2>3. state' \in States
    BY <1>9 DEF Crash, Empty, States, Statuses, Ages
  <2> QED
    BY <1>9, <2>1, <2>2, <2>3, <2>4 DEF Crash, Fault
<1>10. CASE Restart
  BY <1>10 DEF Restart, Empty, States, Statuses, Ages, broker, history
<1>11. ASSUME Pass PROVE TypeInv'
  <2>1. disk' \in States /\ disk'.status = disk.status /\ disk'.secid = disk.secid
    BY <1>11, OlderType DEF Pass, States
  <2>2. state' \in States /\ state'.status = state.status /\ state'.secid = state.secid
    BY <1>11, OlderType DEF Pass, States
  <2>3. sold' \in [secid : Tickers \cup {NoTicker}, age : Ages]
    BY <1>11, OlderType DEF Pass
  <2> QED
    BY <1>11, <2>1, <2>2, <2>3 DEF Pass, broker
<1>12. ASSUME Fill PROVE TypeInv'
  <2>1. call' \in [direction : {"S", "B"}, secid : Tickers, fills : 0..MaxFills]
    BY <1>12 DEF Fill
  <2>2. net' \in [Tickers -> Int]
    BY <1>12 DEF Fill, Signed
  <2> QED
    BY <1>12, <2>1, <2>2 DEF Fill, Fault, NoCall, process
<1>13. ASSUME FillStray PROVE TypeInv'
  <2>1. net' \in [Tickers -> Int]
    BY <1>13 DEF FillStray, Signed
  <2> QED
    BY <1>13, <2>1 DEF FillStray, process
<1>14. CASE UNCHANGED vars
  BY <1>14 DEF vars, process, broker, history
<1> HIDE DEF TypeInv, TypeOK, Named
<1> QED
  BY <1>1, <1>2, <1>3, <1>4, <1>5, <1>6, <1>7, <1>8, <1>9, <1>10, <1>11, <1>12,
     <1>13, <1>14
  DEF Next, Resolve, Answer

\* Every variable keeps its type, and an order under way is always one that
\* run() is waiting for.
THEOREM TypeCorrect == Spec => []TypeOK
<1>1. Init => TypeInv
  BY InitType
<1>2. TypeInv /\ [Next]_vars => TypeInv'
  BY StepType
<1>3. TypeInv => TypeOK
  BY DEF TypeInv
<1> QED
  BY <1>1, <1>2, <1>3, PTL DEF Spec

-------------------------------------------------------------------------------

LEMMA CountInit == Init => CountInv
BY InitType DEF Init, CountInv, FileIsAhead, InStep, OneSellForEachCut, Empty, Fresh

\* Only a write that is cut off makes a process forget an order sent before it.
LEMMA CountStep == CountInv /\ [Next]_vars => CountInv'
<1> SUFFICES ASSUME CountInv, [Next]_vars PROVE CountInv'
  OBVIOUS
<1>0. TypeInv' /\ sent \in [{"S", "B"} -> Nat] /\ cuts \in Nat
  BY StepType DEF CountInv, TypeInv, TypeOK
<1> USE DEF CountInv, FileIsAhead, InStep, OneSellForEachCut, Fresh
<1>1. CASE Boot
  BY <1>0, <1>1 DEF Boot, broker, history
<1>2. ASSUME NEW t \in Tickers, ResolveConfigured(t) PROVE CountInv'
  BY <1>0, <1>2 DEF ResolveConfigured, Save, Started, broker, history
<1>3. ASSUME NEW held \in SUBSET Tickers, ResolveAuto(held) PROVE CountInv'
  BY <1>0, <1>3 DEF ResolveAuto, Save, Started, Empty, broker, history
<1>4. CASE ResolveFails
  BY <1>0, <1>4 DEF ResolveFails, broker, history
<1>5. ASSUME Saved PROVE CountInv'
  <2>1. CASE state.status = "sell_started"
    <3>1. sent' = [sent EXCEPT !["S"] = @ + 1] /\ disk.status \in Fresh
      BY <1>5, <2>1 DEF Saved, Order
    <3>2. sent'["S"] = sent["S"] + 1 /\ sent'["B"] = sent["B"]
      BY <1>0, <3>1
    <3>3. sent["S"] <= cuts
      BY <3>1
    <3> QED
      BY <1>0, <1>5, <2>1, <3>2, <3>3 DEF Saved
  <2>2. CASE state.status = "buy_started"
    <3>1. sent' = [sent EXCEPT !["B"] = @ + 1] /\ disk.status = "sell_submitted"
      BY <1>5, <2>2 DEF Saved, Order
    <3>2. sent'["B"] = sent["B"] + 1 /\ sent'["S"] = sent["S"]
      BY <1>0, <3>1
    <3> QED
      BY <1>0, <1>5, <2>2, <3>1, <3>2 DEF Saved
  <2>3. CASE state.status \notin {"sell_started", "buy_started"}
    BY <1>0, <1>5, <2>3 DEF Saved
  <2> QED
    BY <2>1, <2>2, <2>3
<1>6. ASSUME NEW success \in BOOLEAN, AnswerSell(success) PROVE CountInv'
  BY <1>0, <1>6 DEF AnswerSell, Save, TypeInv, TypeOK, States
<1>7. CASE Cover
  BY <1>0, <1>7 DEF Cover, Save, broker, history, TypeInv, TypeOK, States
<1>8. ASSUME NEW success \in BOOLEAN, AnswerBuy(success) PROVE CountInv'
  BY <1>0, <1>8 DEF AnswerBuy, Save, history, TypeInv, TypeOK, States
<1>9. CASE Crash
  <2>1. pc' = "over" /\ sent' = sent
    BY <1>9 DEF Crash
  <2>2. CASE cuts' = cuts /\ (disk' = disk \/ (pc = "saving" /\ disk' = state))
    BY <1>0, <2>1, <2>2
  <2>3. CASE cuts' = cuts + 1 /\ disk' \in CutOff
    <3>1. disk'.status # "sell_submitted"
      BY <2>3 DEF CutOff, Empty, Unreadable
    <3> QED
      BY <1>0, <2>1, <2>3, <3>1
  <2> QED
    BY <1>9, <2>2, <2>3 DEF Crash
<1>10. CASE Restart
  BY <1>0, <1>10 DEF Restart, broker, history
<1>11. CASE Pass
  <2>1. disk'.status = disk.status /\ state'.status = state.status
    BY <1>11 DEF Pass, TypeInv, TypeOK, States
  <2> QED
    BY <1>0, <1>11, <2>1 DEF Pass, broker
<1>12. CASE Fill
  BY <1>0, <1>12 DEF Fill, process
<1>13. CASE FillStray
  BY <1>0, <1>13 DEF FillStray, process
<1>14. CASE UNCHANGED vars
  BY <1>0, <1>14 DEF vars, process, broker, history
<1> HIDE DEF CountInv, FileIsAhead, InStep, OneSellForEachCut, Fresh
<1> QED
  BY <1>1, <1>2, <1>3, <1>4, <1>5, <1>6, <1>7, <1>8, <1>9, <1>10, <1>11, <1>12,
     <1>13, <1>14
  DEF Next, Resolve, Answer

\* One SELL and one BUY are all that is ever sent, whatever stops and restarts
\* the process and however often run() is called, and one more of each for every
\* write of the state file that is cut off.
THEOREM SentAtMostOnce == Spec => []OneSellForEachCut
<1>1. Init => CountInv
  BY CountInit
<1>2. CountInv /\ [Next]_vars => CountInv'
  BY CountStep
<1>3. CountInv => OneSellForEachCut
  BY DEF CountInv
<1> QED
  BY <1>1, <1>2, <1>3, PTL DEF Spec

-------------------------------------------------------------------------------

LEMMA SaleInit == Init => SaleInv
BY InitType DEF Init, SaleInv, Empty

LEMMA SaleStep == SaleInv /\ [Next]_vars => SaleInv'
<1> SUFFICES ASSUME SaleInv, [Next]_vars PROVE SaleInv'
  OBVIOUS
<1>0. TypeInv /\ TypeInv'
  BY StepType DEF SaleInv
<1> USE DEF SaleInv, Recorded
<1>1. CASE Boot
  BY <1>0, <1>1 DEF Boot, broker, history
<1>2. ASSUME NEW t \in Tickers, ResolveConfigured(t) PROVE SaleInv'
  BY <1>0, <1>2 DEF ResolveConfigured, Save, Started, broker, history
<1>3. ASSUME NEW held \in SUBSET Tickers, ResolveAuto(held) PROVE SaleInv'
  BY <1>0, <1>3 DEF ResolveAuto, Save, Started, Empty, broker, history
<1>4. CASE ResolveFails
  BY <1>0, <1>4 DEF ResolveFails, broker, history
<1>5. CASE Saved
  BY <1>0, <1>5 DEF Saved
<1>6. ASSUME NEW success \in BOOLEAN, AnswerSell(success) PROVE SaleInv'
  <2>1. call.secid = state.secid
    BY <1>0, <1>6 DEF AnswerSell, TypeInv, Named
  <2>2. /\ pc' = "saving"
        /\ UNCHANGED disk
        /\ disk.status # "sell_submitted"
    BY <1>6 DEF AnswerSell, Save
  <2>3. CASE success
    <3>1. /\ state'.status = "sell_submitted"
          /\ state'.secid = state.secid /\ state'.soldAt = 0
          /\ sold' = [secid |-> call.secid, age |-> 0]
      BY <1>0, <1>6, <2>3 DEF AnswerSell, Save, TypeInv, TypeOK, States
    <3> QED
      BY <1>0, <2>1, <2>2, <3>1
  <2>4. CASE ~success
    <3>1. state'.status = "sell_rejected"
      BY <1>0, <1>6, <2>4 DEF AnswerSell, Save, TypeInv, TypeOK, States
    <3> QED
      BY <1>0, <2>2, <3>1
  <2> QED
    BY <2>3, <2>4
<1>7. CASE Cover
  <2>1. state' = [state EXCEPT !.status = "buy_started"] /\ state \in States
    BY <1>0, <1>7 DEF Cover, Save, TypeInv, TypeOK
  <2>2. state'.secid = state.secid /\ state'.soldAt = state.soldAt
    BY <2>1 DEF States
  <2> QED
    BY <1>0, <1>7, <2>2 DEF Cover, Save, broker, history
<1>8. ASSUME NEW success \in BOOLEAN, AnswerBuy(success) PROVE SaleInv'
  BY <1>0, <1>8 DEF AnswerBuy, Save, history
<1>9. CASE Crash
  BY <1>0, <1>9 DEF Crash, CutOff, Empty, Unreadable, history
<1>10. CASE Restart
  BY <1>0, <1>10 DEF Restart, broker, history
<1>11. CASE Pass
  <2>1. /\ disk' = [disk EXCEPT !.soldAt = Older(@)] /\ disk \in States
        /\ state' = [state EXCEPT !.soldAt = Older(@)] /\ state \in States
        /\ sold' = [sold EXCEPT !.age = Older(@)]
        /\ sold \in [secid : Tickers \cup {NoTicker}, age : Ages]
        /\ UNCHANGED pc
    BY <1>0, <1>11 DEF Pass, TypeInv, TypeOK
  <2>2. /\ disk'.status = disk.status /\ disk'.secid = disk.secid
        /\ disk'.soldAt = Older(disk.soldAt)
    BY <2>1 DEF States
  <2>3. /\ state'.status = state.status /\ state'.secid = state.secid
        /\ state'.soldAt = Older(state.soldAt)
    BY <2>1 DEF States
  <2>4. sold' = [secid |-> sold.secid, age |-> Older(sold.age)]
    BY <2>1
  <2>5. \A record \in {disk, state} : Recorded(record) =>
          sold' = [secid |-> record.secid, age |-> Older(record.soldAt)]
    BY <2>4
  <2>6. Older(Delay) = Delay
    BY DelayAssumption DEF Older
  <2>7. disk'.status = "sell_submitted" => Recorded(disk)'
    BY <2>2, <2>5
  <2>8. pc' = "waiting" => Recorded(state)'
    BY <2>1, <2>3, <2>5
  <2>9. pc' = "saving" /\ state'.status \in {"sell_submitted", "buy_started"}
          => Recorded(state)'
    BY <2>1, <2>3, <2>5
  <2>10. pc' = "saving" /\ state'.status = "buy_started" => state'.soldAt = Delay
    BY <2>1, <2>3, <2>6
  <2> QED
    BY <1>0, <2>1, <2>2, <2>7, <2>8, <2>9, <2>10
<1>12. CASE Fill
  BY <1>0, <1>12 DEF Fill, process
<1>13. CASE FillStray
  BY <1>0, <1>13 DEF FillStray, process
<1>14. CASE UNCHANGED vars
  BY <1>0, <1>14 DEF vars, process, broker, history
<1> HIDE DEF SaleInv, Recorded
<1> QED
  BY <1>1, <1>2, <1>3, <1>4, <1>5, <1>6, <1>7, <1>8, <1>9, <1>10, <1>11, <1>12,
     <1>13, <1>14
  DEF Next, Resolve, Answer

\* The only step that sends a BUY is the one after buy_started was saved.
LEMMA BuyStep ==
  SaleInv /\ [Next]_vars =>
    (sent'["B"] # sent["B"] => sold = [secid |-> call'.secid, age |-> Delay])
<1> SUFFICES ASSUME SaleInv, [Next]_vars, sent'["B"] # sent["B"]
             PROVE  sold = [secid |-> call'.secid, age |-> Delay]
  OBVIOUS
<1>1. Saved
  BY DEF Next, Resolve, Answer, Boot, ResolveConfigured, ResolveAuto, ResolveFails,
         AnswerSell, AnswerBuy, Cover, Crash, Restart, Pass, Fill, FillStray, vars,
         broker, history
<1>2. state.status = "buy_started"
  <2>1. sent \in [{"S", "B"} -> Nat]
    BY DEF SaleInv, TypeInv, TypeOK
  <2>2. CASE state.status = "sell_started"
    BY <1>1, <2>1, <2>2 DEF Saved, Order
  <2>3. CASE state.status = "sell_submitted"
    BY <1>1, <2>3 DEF Saved
  <2>4. CASE state.status \notin {"sell_started", "sell_submitted", "buy_started"}
    BY <1>1, <2>4 DEF Saved
  <2> QED
    BY <2>2, <2>3, <2>4
<1>3. call'.secid = state.secid
  BY <1>1, <1>2 DEF Saved, Order
<1> QED
  BY <1>1, <1>2, <1>3 DEF Saved, SaleInv, Recorded

\* Whichever process sends the BUY, it is for the ticker of the SELL that was
\* answered with success, and the pause since that answer is over; also when
\* writes of the state file are cut off.
THEOREM CoversTheSell == Spec => BuyCoversTheSell
<1>1. Init => SaleInv
  BY SaleInit
<1>2. SaleInv /\ [Next]_vars => SaleInv'
  BY SaleStep
<1>3. SaleInv /\ [Next]_vars =>
        (sent'["B"] # sent["B"] => sold = [secid |-> call'.secid, age |-> Delay])
  BY BuyStep
<1> QED
  BY <1>1, <1>2, <1>3, PTL DEF Spec, BuyCoversTheSell

-------------------------------------------------------------------------------
(* What the broker holds of the check, while every order is executed once. *)

\* The check has bought k lots of t, net of what it sold, and nothing else, but
\* for one lot sold for each write that was cut off.
NetIs(t, k) ==
  \A u \in Tickers : net[u] - (IF u = t THEN k ELSE 0) \in (-cuts)..0
NetIsZero == \A u \in Tickers : net[u] \in (-cuts)..0

\* What is held follows from the state on disk, or from the one about to be
\* written, and from the order under way.
HeldInv ==
  exact =>
    /\ call.fills <= 1
    /\ \A u \in Tickers : net[u] \in (-cuts - 1)..0
    /\ disk.status \in Fresh => NetIsZero
    /\ pc = "selling" => NetIs(call.secid, 0 - call.fills)
    /\ pc = "saving" /\ state.status = "sell_submitted" => NetIs(state.secid, -1)
    /\ disk.status = "sell_submitted" => NetIs(disk.secid, -1)
    /\ pc = "buying" => NetIs(call.secid, call.fills - 1)
    /\ pc = "saving" /\ state.status = "done" => NetIsZero
    /\ disk.status = "done" => NetIsZero

FlatInv == CountInv /\ SaleInv /\ HeldInv

LEMMA NothingOwed ==
  ASSUME TypeInv, NEW t \in Tickers
  PROVE  NetIsZero <=> NetIs(t, 0)
BY DEF TypeInv, TypeOK, NetIs, NetIsZero

LEMMA OneLotAtMost ==
  ASSUME TypeInv, NEW t \in Tickers, NEW k \in {-1, 0}, NetIs(t, k)
  PROVE  \A u \in Tickers : net[u] \in (-cuts - 1)..0
BY DEF TypeInv, TypeOK, NetIs

LEMMA HeldInit == Init => HeldInv
BY DEF Init, HeldInv, NetIsZero, Empty, Fresh, NoCall

\* Without a change of the books, the file or the order, what is held stays.
LEMMA HeldStays ==
  ASSUME HeldInv, UNCHANGED <<net, call, exact, cuts>>, disk'.status = disk.status,
         disk'.secid = disk.secid,
         pc' \in {"selling", "buying"} => pc' = pc,
         pc' = "saving" /\ state'.status \in {"sell_submitted", "done"} =>
           pc = "saving" /\ state'.status = state.status /\ state'.secid = state.secid
  PROVE  HeldInv'
BY DEF HeldInv, NetIs, NetIsZero

LEMMA HeldStep ==
  ASSUME FlatInv, [Next]_vars
  PROVE  HeldInv'
<1>0. TypeInv /\ CountInv /\ SaleInv /\ HeldInv
  BY DEF FlatInv, CountInv
<1>1. CASE Boot
  BY <1>0, <1>1, HeldStays DEF Boot, broker, history
<1>2. ASSUME NEW t \in Tickers, ResolveConfigured(t) PROVE HeldInv'
  BY <1>0, <1>2, HeldStays DEF ResolveConfigured, Save, Started, broker, history
<1>3. ASSUME NEW held \in SUBSET Tickers, ResolveAuto(held) PROVE HeldInv'
  BY <1>0, <1>3, HeldStays DEF ResolveAuto, Save, Started, Empty, broker, history
<1>4. CASE ResolveFails
  BY <1>0, <1>4, HeldStays DEF ResolveFails, broker, history
<1>5. ASSUME Saved PROVE HeldInv'
  <2>1. /\ pc = "saving" /\ disk' = state /\ UNCHANGED <<state, net, exact, cuts>>
        /\ pc' # "saving"
    BY <1>5 DEF Saved
  <2>2. CASE state.status = "sell_started"
    <3>1. pc' = "selling" /\ call' = [direction |-> "S", secid |-> state.secid, fills |-> 0]
      BY <1>5, <2>2 DEF Saved, Order
    <3>2. disk.status \in Fresh
      BY <1>0, <2>1, <2>2 DEF CountInv, InStep
    <3>3. exact => NetIsZero
      BY <1>0, <3>2 DEF HeldInv
    <3>4. exact' => NetIs(call.secid, 0 - call.fills)'
      <4>1. call'.secid \in Tickers /\ 0 - call'.fills = 0
        <5>1. state.secid \in Tickers
          BY <1>0, <2>1, <2>2 DEF TypeInv, Named
        <5> QED
          BY <3>1, <5>1
      <4>2. exact => NetIs(call'.secid, 0)
        BY <1>0, <3>3, <4>1, NothingOwed
      <4> QED
        BY <2>1, <4>1, <4>2 DEF NetIs
    <3>5. call'.fills <= 1
      BY <3>1
    <3>6. exact' => \A u \in Tickers : net'[u] \in (-cuts' - 1)..0
      BY <1>0, <2>1 DEF HeldInv
    <3> QED
      BY <2>1, <2>2, <3>1, <3>4, <3>5, <3>6 DEF HeldInv, Fresh
  <2>3. CASE state.status = "buy_started"
    <3>1. pc' = "buying" /\ call' = [direction |-> "B", secid |-> state.secid, fills |-> 0]
      BY <1>5, <2>3 DEF Saved, Order
    <3>2. disk.status = "sell_submitted"
      BY <1>0, <2>1, <2>3 DEF CountInv, InStep, Fresh
    <3>3. disk.secid = state.secid
      <4>1. Recorded(disk) /\ Recorded(state)
        BY <1>0, <2>1, <2>3, <3>2 DEF SaleInv
      <4> QED
        BY <4>1 DEF Recorded
    <3>4. exact => NetIs(state.secid, -1)
      BY <1>0, <3>2, <3>3 DEF HeldInv
    <3>5. exact' => NetIs(call.secid, call.fills - 1)'
      <4>1. call'.secid = state.secid /\ call'.fills - 1 = -1
        BY <3>1
      <4> QED
        BY <2>1, <3>4, <4>1 DEF NetIs
    <3>6. call'.fills <= 1
      BY <3>1
    <3>7. exact' => \A u \in Tickers : net'[u] \in (-cuts' - 1)..0
      BY <1>0, <2>1 DEF HeldInv
    <3> QED
      BY <2>1, <2>3, <3>1, <3>5, <3>6, <3>7 DEF HeldInv, Fresh
  <2>4. CASE state.status \notin {"sell_started", "buy_started"}
    <3>1. pc' \in {"waiting", "over"} /\ UNCHANGED call
      BY <1>5, <2>4 DEF Saved
    <3>2. state.status \in Fresh => disk.status \in Fresh
      BY <1>0, <2>1 DEF CountInv, InStep, Fresh
    <3> QED
      BY <1>0, <2>1, <3>1, <3>2 DEF HeldInv, NetIs, NetIsZero
  <2> QED
    BY <2>2, <2>3, <2>4
<1>6. ASSUME NEW success \in BOOLEAN, AnswerSell(success) PROVE HeldInv'
  <2>1. /\ pc = "selling" /\ pc' = "saving" /\ call' = NoCall /\ Answered(success)
        /\ UNCHANGED <<disk, net, exact, cuts>> /\ disk.status = "sell_started"
        /\ call.secid = state.secid
    BY <1>0, <1>6 DEF AnswerSell, Save, Answered, CountInv, InStep, TypeInv, Named
  <2>2. /\ state'.secid = state.secid
        /\ state'.status = IF success THEN "sell_submitted" ELSE "sell_rejected"
    BY <1>0, <1>6 DEF AnswerSell, Save, TypeInv, TypeOK, States
  <2>3. call.fills \in 0..MaxFills
    BY <1>0, <2>1, CallType
  <2>4. exact /\ success => NetIs(state'.secid, -1)
    <3>1. SUFFICES ASSUME exact, success PROVE NetIs(state.secid, -1)
      BY <2>2
    <3>2. call.fills = 1
      BY <1>0, <2>1, <2>3, <3>1, BoundsAssumption DEF Answered, HeldInv
    <3> QED
      BY <1>0, <2>1, <3>1, <3>2 DEF HeldInv
  <2>5. exact' => NoCall.fills <= 1 /\ \A u \in Tickers : net'[u] \in (-cuts' - 1)..0
    BY <1>0, <2>1 DEF HeldInv, NoCall
  <2>6. exact' /\ success => NetIs(state.secid, -1)'
    BY <2>1, <2>4 DEF NetIs
  <2> QED
    BY <2>1, <2>2, <2>5, <2>6 DEF HeldInv, Fresh
<1>7. CASE Cover
  <2>1. state'.status = "buy_started"
    BY <1>0, <1>7 DEF Cover, Save, TypeInv, TypeOK, States
  <2> QED
    BY <1>0, <1>7, <2>1, HeldStays DEF Cover, Save, broker, history
<1>8. ASSUME NEW success \in BOOLEAN, AnswerBuy(success) PROVE HeldInv'
  <2>1. /\ pc = "buying" /\ pc' = "saving" /\ call' = NoCall /\ Answered(success)
        /\ UNCHANGED <<disk, net, exact, cuts>> /\ disk.status = "buy_started"
    BY <1>0, <1>8 DEF AnswerBuy, Save, Answered, history, CountInv, InStep
  <2>2. state'.status = IF success THEN "done" ELSE "buy_rejected"
    BY <1>0, <1>8 DEF AnswerBuy, Save, TypeInv, TypeOK, States
  <2>3. call.fills \in 0..MaxFills
    BY <1>0, <2>1, CallType
  <2>4. exact /\ success => NetIsZero
    <3>1. SUFFICES ASSUME exact, success PROVE NetIsZero
      OBVIOUS
    <3>2. call.fills = 1
      BY <1>0, <2>1, <2>3, <3>1, BoundsAssumption DEF Answered, HeldInv
    <3> QED
      BY <1>0, <2>1, <3>1, <3>2 DEF HeldInv, NetIs, NetIsZero
  <2>5. exact' => NoCall.fills <= 1 /\ \A u \in Tickers : net'[u] \in (-cuts' - 1)..0
    BY <1>0, <2>1 DEF HeldInv, NoCall
  <2>6. exact' /\ success => NetIsZero'
    BY <2>1, <2>4 DEF NetIsZero
  <2> QED
    BY <2>1, <2>2, <2>5, <2>6 DEF HeldInv, Fresh
<1>9. ASSUME Crash PROVE HeldInv'
  <2>1. pc' = "over" /\ call' = NoCall /\ UNCHANGED <<net, exact>>
    BY <1>9 DEF Crash
  <2>2. CASE UNCHANGED cuts /\ (disk' = disk \/ (pc = "saving" /\ disk' = state))
    <3>1. pc = "saving" /\ state.status \in Fresh => disk.status \in Fresh
      BY <1>0 DEF CountInv, InStep, Fresh
    <3> QED
      BY <1>0, <2>1, <2>2, <3>1 DEF HeldInv, NetIs, NetIsZero, NoCall
  <2>3. CASE cuts' = cuts + 1 /\ disk' \in CutOff
    <3>1. disk'.status \notin {"sell_submitted", "done"}
      BY <2>3 DEF CutOff, Empty, Unreadable
    <3>2. cuts \in Nat
      BY <1>0 DEF TypeInv, TypeOK
    <3>3. exact => NetIsZero' /\ \A u \in Tickers : net'[u] \in (-cuts' - 1)..0
      BY <1>0, <2>1, <2>3, <3>2 DEF HeldInv, NetIsZero
    <3> QED
      BY <2>1, <2>3, <3>1, <3>3 DEF HeldInv, NoCall
  <2> QED
    BY <1>9, <2>2, <2>3 DEF Crash
<1>10. CASE Restart
  BY <1>0, <1>10, HeldStays DEF Restart, broker, history
<1>11. CASE Pass
  <2>1. /\ disk'.status = disk.status /\ disk'.secid = disk.secid
        /\ state'.status = state.status /\ state'.secid = state.secid
    BY <1>0, <1>11 DEF Pass, TypeInv, TypeOK, States
  <2> QED
    BY <1>0, <1>11, <2>1, HeldStays DEF Pass, broker
<1>12. ASSUME Fill PROVE HeldInv'
  <2>1. SUFFICES ASSUME exact' PROVE HeldInv'
    BY DEF HeldInv
  <2>2. exact /\ call.fills = 0 /\ call # NoCall /\ UNCHANGED <<disk, pc, state>>
    BY <1>12, <2>1 DEF Fill, process
  <2>3. pc \in {"selling", "buying"}
    BY <1>0, <2>2 DEF TypeInv, Named
  <2>4. /\ call \in [direction : {"S", "B"}, secid : Tickers, fills : 0..MaxFills]
        /\ net \in [Tickers -> Int]
        /\ call' = [call EXCEPT !.fills = call.fills + 1]
        /\ net' = [net EXCEPT ![call.secid] = @ + Signed(call.direction)]
    BY <1>0, <1>12, <2>3, CallType DEF Fill, TypeInv, TypeOK
  <2>5. call'.fills = 1 /\ call'.secid = call.secid
    BY <2>2, <2>4
  <2>6. CASE pc = "selling"
    <3>1. call.direction = "S" /\ disk.status = "sell_started"
      BY <1>0, <2>6 DEF CountInv, InStep, TypeInv, Named
    <3>2. NetIs(call.secid, 0)
      BY <1>0, <2>2, <2>6 DEF HeldInv
    <3>3. NetIs(call.secid, -1)'
      <4>1. /\ cuts \in Nat /\ UNCHANGED cuts
            /\ net' = [net EXCEPT ![call.secid] = @ + (-1)]
        BY <1>0, <1>12, <2>4, <3>1 DEF Fill, Signed, TypeInv, TypeOK
      <4>2. \A u \in Tickers :
              net'[u] = net[u] + (IF u = call.secid THEN -1 ELSE 0)
        BY <2>4, <4>1
      <4> QED
        BY <2>4, <2>5, <3>2, <4>1, <4>2 DEF NetIs
    <3>4. \A u \in Tickers : net'[u] \in (-cuts' - 1)..0
      <4>1. call'.secid \in Tickers /\ TypeInv'
        BY <1>0, <2>4, <2>5, StepType
      <4> QED
        BY <3>3, <4>1 DEF NetIs, TypeInv, TypeOK
    <3>5. NetIs(call.secid, 0 - call.fills)'
      BY <2>5, <3>3
    <3> QED
      BY <2>2, <2>5, <2>6, <3>1, <3>4, <3>5 DEF HeldInv, Fresh
  <2>7. CASE pc = "buying"
    <3>1. call.direction = "B" /\ disk.status = "buy_started"
      BY <1>0, <2>7 DEF CountInv, InStep, TypeInv, Named
    <3>2. NetIs(call.secid, -1)
      BY <1>0, <2>2, <2>7 DEF HeldInv
    <3>3. NetIs(call.secid, 0)'
      <4>1. /\ cuts \in Nat /\ UNCHANGED cuts
            /\ net' = [net EXCEPT ![call.secid] = @ + (1)]
        BY <1>0, <1>12, <2>4, <3>1 DEF Fill, Signed, TypeInv, TypeOK
      <4>2. \A u \in Tickers :
              net'[u] = net[u] + (IF u = call.secid THEN 1 ELSE 0)
        BY <2>4, <4>1
      <4> QED
        BY <2>4, <2>5, <3>2, <4>1, <4>2 DEF NetIs
    <3>4. \A u \in Tickers : net'[u] \in (-cuts' - 1)..0
      <4>1. call'.secid \in Tickers /\ TypeInv'
        BY <1>0, <2>4, <2>5, StepType
      <4> QED
        BY <3>3, <4>1 DEF NetIs, TypeInv, TypeOK
    <3>5. NetIs(call.secid, call.fills - 1)'
      BY <2>5, <3>3
    <3> QED
      BY <2>2, <2>5, <2>7, <3>1, <3>4, <3>5 DEF HeldInv, Fresh
  <2> QED
    BY <2>3, <2>6, <2>7
<1>13. CASE FillStray
  BY <1>13 DEF FillStray, HeldInv
<1>14. CASE UNCHANGED vars
  BY <1>0, <1>14, HeldStays DEF vars, process, broker, history
<1> QED
  BY <1>1, <1>2, <1>3, <1>4, <1>5, <1>6, <1>7, <1>8, <1>9, <1>10, <1>11, <1>12,
     <1>13, <1>14
  DEF Next, Resolve, Answer

\* A file that says "done" is that of a check that has closed what it had opened,
\* but for one lot for each write of the state file that was cut off.
THEOREM DoneLeavesNothing == Spec => []DoneMeansFlat
<1>1. Init => FlatInv
  BY CountInit, SaleInit, HeldInit DEF FlatInv
<1>2. FlatInv /\ [Next]_vars => FlatInv'
  BY CountStep, SaleStep, HeldStep DEF FlatInv
<1>3. FlatInv => DoneMeansFlat
  BY DEF FlatInv, HeldInv, NetIsZero, DoneMeansFlat
<1> QED
  BY <1>1, <1>2, <1>3, PTL DEF Spec
===============================================================================
