------------------------- MODULE OrderDelivery_proofs -------------------------
(***************************************************************************)
(* Proofs about OrderDelivery, for any set of orders and any number of     *)
(* attempts.  Fairness plays no part in them.                              *)
(***************************************************************************)
EXTENDS OrderDelivery, FiniteSetTheorems, TLAPS

LEMMA ConstantsType == MaxAttempts \in Nat /\ MaxAttempts > 0 /\ 1 \in Attempts
  BY MaxAttemptsAssumption DEF Attempts

\* The number of the attempt under way is an attempt.
LEMMA WaitingType ==
  ASSUME TypeOK, NEW o \in Orders, phase[o] = "waiting", tries[o] > 0
  PROVE  tries[o] \in Attempts
  BY ConstantsType DEF TypeOK, Attempts

-------------------------------------------------------------------------------
(* Types. *)

\* An attempt is under way only after one was made.
Counted == \A o \in Orders : phase[o] = "waiting" => tries[o] > 0

LEMMA InitTypeOK == Init => TypeOK /\ Counted
  BY ConstantsType DEF Init, TypeOK, Counted

LEMMA EndAttemptTypeOK ==
  ASSUME TypeOK, Counted, NEW o \in Orders,
         NEW h \in {"ok", "declined", "4xx", "5xx", "transport", "broken"},
         NEW r \in {"success", "rejected", "raised"},
         EndAttempt(o, h, r)
  PROVE  TypeOK' /\ Counted'
<1>1. tries[o] \in Attempts
  BY WaitingType DEF EndAttempt, Counted
<1>2. heard' \in [Orders -> [Attempts ->
                 {"none", "ok", "declined", "4xx", "5xx", "transport", "broken"}]]
  BY <1>1 DEF EndAttempt, TypeOK
<1>3. /\ phase' \in [Orders -> {"ready", "waiting", "backoff", "returned"}]
      /\ result' \in [Orders -> {"none", "success", "rejected", "raised"}]
  BY DEF EndAttempt, TypeOK
<1>4. Counted'
  BY DEF EndAttempt, TypeOK, Counted
<1>5. QED
  BY <1>2, <1>3, <1>4 DEF EndAttempt, TypeOK

LEMMA SettleTypeOK ==
  ASSUME TypeOK, Counted, NEW o \in Orders, NEW a \in Attempts,
         NEW state \in {"lost", "filled", "refused"},
         NEW answer \in {"none", "ok", "declined", "4xx", "5xx"},
         Settle(o, a, state, answer)
  PROVE  TypeOK' /\ Counted'
  BY DEF Settle, TypeOK, Counted

LEMMA StepTypeOK ==
  ASSUME TypeOK, Counted, [Next]_vars
  PROVE  TypeOK' /\ Counted'
<1>1. CASE UNCHANGED vars
  BY <1>1 DEF vars, TypeOK, Counted
<1>2. ASSUME NEW o \in Orders, Client(o)
      PROVE  TypeOK' /\ Counted'
  <2>1. CASE ReturnDryRun(o)
    BY <2>1 DEF ReturnDryRun, TypeOK, Counted
  <2>2. CASE Post(o)
    <3>1. tries[o] + 1 \in Attempts
      BY <2>2, ConstantsType DEF Post, TypeOK, Attempts
    <3>2. QED
      BY <2>2, <3>1, ConstantsType DEF Post, TypeOK, Counted, Attempts
  <2>3. CASE ReceiveOk(o)
    BY <2>3, EndAttemptTypeOK DEF ReceiveOk
  <2>4. CASE ReceiveDeclined(o)
    BY <2>4, EndAttemptTypeOK DEF ReceiveDeclined
  <2>5. CASE ReceiveError(o)
    BY <2>5, EndAttemptTypeOK DEF ReceiveError
  <2>6. CASE TransportError(o)
    BY <2>6, EndAttemptTypeOK DEF TransportError
  <2>7. CASE OtherError(o)
    BY <2>7, EndAttemptTypeOK DEF OtherError
  <2>8. QED
    BY <1>2, <2>1, <2>2, <2>3, <2>4, <2>5, <2>6, <2>7 DEF Client
<1>3. ASSUME NEW o \in Orders, NEW a \in Attempts,
             Lose(o, a) \/ Execute(o, a) \/ Refuse(o, a)
      PROVE  TypeOK' /\ Counted'
  BY <1>3, SettleTypeOK DEF Lose, Execute, Refuse
<1>4. QED
  BY <1>1, <1>2, <1>3 DEF Next, Environment

\* Every variable of the client, the network and the broker keeps its type.
THEOREM TypeCorrect == Spec => []TypeOK
<1>1. Spec => [](TypeOK /\ Counted)
  BY InitTypeOK, StepTypeOK, PTL DEF Spec
<1>2. QED
  BY <1>1, PTL

-------------------------------------------------------------------------------
(* What the client heard agrees with what the broker did.                  *)

Told(o) ==
  /\ phase[o] # "returned" => result[o] = "none"
  /\ result[o] = "success" /\ o \in Live
       => \E a \in Attempts : request[o][a] = "filled"
  /\ phase[o] = "backoff" => heard[o][tries[o]] \in {"transport", "5xx"}
  /\ phase[o] = "ready" => tries[o] = 0
  /\ \A a \in Attempts : a < tries[o] => heard[o][a] \in {"transport", "5xx"}

Sent(o, a) ==
  /\ a > tries[o] => request[o][a] = "none"
  /\ reply[o][a] = "ok" => request[o][a] = "filled"

Consistent == \A o \in Orders : Told(o) /\ \A a \in Attempts : Sent(o, a)

Inv == TypeOK /\ Counted /\ Consistent

LEMMA InitInv == Init => Inv
<1>1. Init => Consistent
  BY ConstantsType DEF Init, Consistent, Told, Sent, Attempts
<1>2. QED
  BY <1>1, InitTypeOK DEF Inv

\* The network and the broker touch one attempt, and only while its request is
\* on its way.
LEMMA SettleConsistent ==
  ASSUME Inv, NEW o \in Orders, NEW a \in Attempts,
         NEW state \in {"lost", "filled", "refused"},
         NEW answer \in {"none", "ok", "declined", "4xx", "5xx"},
         answer = "ok" => state = "filled",
         Settle(o, a, state, answer)
  PROVE  Consistent'
<1> SUFFICES ASSUME NEW p \in Orders
             PROVE  Told(p)' /\ \A b \in Attempts : Sent(p, b)'
  BY DEF Consistent
<1>1. /\ request' = [request EXCEPT ![o][a] = state]
      /\ reply' = [reply EXCEPT ![o][a] = answer]
      /\ request[o][a] = "travelling"
      /\ UNCHANGED <<phase, tries, heard, result>>
  BY DEF Settle
<1>2. Told(p) /\ \A b \in Attempts : Sent(p, b)
  BY DEF Inv, Consistent
<1>3. ASSUME NEW b \in Attempts
      PROVE  Sent(p, b)'
  BY <1>1, <1>2 DEF Sent, Inv, TypeOK
<1>4. \A b \in Attempts : request[p][b] \in {"filled", "refused"}
                            => request'[p][b] = request[p][b]
  BY <1>1 DEF Inv, TypeOK
<1>5. Told(p)'
  BY <1>1, <1>2, <1>4, ConstantsType DEF Told
<1>6. QED
  BY <1>3, <1>5

\* The end of an attempt: success needs an ok, a back-off an unknown outcome.
LEMMA EndAttemptConsistent ==
  ASSUME Inv, NEW o \in Orders,
         NEW h \in {"ok", "declined", "4xx", "5xx", "transport", "broken"},
         NEW r \in {"success", "rejected", "raised"},
         r = "success" => reply[o][tries[o]] = "ok",
         EndAttempt(o, h, r)
  PROVE  Consistent'
<1> SUFFICES ASSUME NEW p \in Orders
             PROVE  Told(p)' /\ \A b \in Attempts : Sent(p, b)'
  BY DEF Consistent
<1>1. Told(p) /\ \A b \in Attempts : Sent(p, b)
  BY DEF Inv, Consistent
<1>2. tries[o] \in Attempts
  BY WaitingType DEF EndAttempt, Inv, Counted
<1>3. \A b \in Attempts : Sent(p, b)'
  BY <1>1 DEF Sent, EndAttempt
<1>4. CASE p # o
  BY <1>1, <1>3, <1>4 DEF Told, EndAttempt, Inv, TypeOK
<1>5. CASE p = o
  <2>1. phase'[o] # "returned" => result'[o] = "none"
    BY <1>1, <1>5 DEF Told, EndAttempt, Inv, TypeOK
  <2>2. ASSUME result'[o] = "success"
        PROVE  \E a \in Attempts : request'[o][a] = "filled"
    <3>1. result[o] = "none"
      BY <1>1, <1>5 DEF Told, EndAttempt
    <3>2. r = "success"
      BY <2>2, <3>1 DEF EndAttempt, Inv, TypeOK
    <3>3. request[o][tries[o]] = "filled"
      BY <3>2, <1>1, <1>2, <1>5 DEF Sent
    <3>4. QED
      BY <3>3, <1>2 DEF EndAttempt
  <2>3. /\ phase'[o] = "backoff" => heard'[o][tries'[o]] \in {"transport", "5xx"}
        /\ phase'[o] # "ready"
    BY <1>2, ConstantsType DEF EndAttempt, Retryable, Inv, TypeOK
  <2>4. \A a \in Attempts : a < tries'[o] => heard'[o][a] \in {"transport", "5xx"}
    BY <1>1, <1>2, <1>5 DEF Told, EndAttempt, Inv, TypeOK, Attempts
  <2>5. QED
    BY <1>3, <1>5, <2>1, <2>2, <2>3, <2>4 DEF Told
<1>6. QED
  BY <1>4, <1>5, <1>3

LEMMA ClientConsistent ==
  ASSUME Inv, NEW o \in Orders, Client(o)
  PROVE  Consistent'
<1>1. CASE ReturnDryRun(o)
  BY <1>1 DEF ReturnDryRun, Inv, TypeOK, Consistent, Told, Sent, Live
<1>2. CASE Post(o)
  <2> SUFFICES ASSUME NEW p \in Orders
               PROVE  Told(p)' /\ \A b \in Attempts : Sent(p, b)'
    BY DEF Consistent
  <2>1. Told(p) /\ \A b \in Attempts : Sent(p, b)
    BY DEF Inv, Consistent
  <2>2. request[o][tries[o] + 1] = "none" /\ tries[o] + 1 \in Attempts
    BY <1>2, ConstantsType DEF Post, Inv, TypeOK, Attempts, Consistent, Sent
  <2>3. ASSUME NEW b \in Attempts
        PROVE  Sent(p, b)'
    BY <1>2, <2>1, <2>2, ConstantsType DEF Post, Sent, Inv, TypeOK, Attempts
  <2>4. Told(p)'
    <3>1. \A b \in Attempts : request[p][b] = "filled" => request'[p][b] = "filled"
      BY <1>2, <2>2 DEF Post, Inv, TypeOK
    <3>2. CASE p = o
      <4>1. \A a \in Attempts : a < tries[o] + 1 => heard[o][a] \in {"transport", "5xx"}
        BY <1>2, <2>1, <3>2 DEF Post, Told, Inv, TypeOK, Attempts
      <4>2. QED
        BY <1>2, <2>1, <3>1, <3>2, <4>1 DEF Post, Told, Inv, TypeOK
    <3>3. CASE p # o
      BY <1>2, <2>1, <3>1, <3>3 DEF Post, Told, Inv, TypeOK
    <3>4. QED
      BY <3>2, <3>3
  <2>5. QED
    BY <2>3, <2>4
<1>3. CASE ReceiveOk(o)
  BY <1>3, EndAttemptConsistent DEF ReceiveOk
<1>4. CASE ReceiveDeclined(o)
  BY <1>4, EndAttemptConsistent DEF ReceiveDeclined
<1>5. CASE ReceiveError(o)
  BY <1>5, EndAttemptConsistent DEF ReceiveError
<1>6. CASE TransportError(o)
  BY <1>6, EndAttemptConsistent DEF TransportError
<1>7. CASE OtherError(o)
  BY <1>7, EndAttemptConsistent DEF OtherError
<1>8. QED
  BY <1>1, <1>2, <1>3, <1>4, <1>5, <1>6, <1>7 DEF Client

LEMMA StepInv == Inv /\ [Next]_vars => Inv'
<1> SUFFICES ASSUME Inv, [Next]_vars PROVE Inv'
  OBVIOUS
<1>1. TypeOK' /\ Counted'
  BY StepTypeOK DEF Inv
<1>2. CASE UNCHANGED vars
  BY <1>1, <1>2 DEF vars, Inv, Consistent, Told, Sent
<1>3. ASSUME NEW o \in Orders, NEW a \in Attempts,
             Lose(o, a) \/ Execute(o, a) \/ Refuse(o, a)
      PROVE  Consistent'
  <2>1. CASE Lose(o, a)
    BY <2>1, SettleConsistent DEF Lose
  <2>2. CASE Execute(o, a)
    BY <2>2, SettleConsistent DEF Execute
  <2>3. CASE Refuse(o, a)
    BY <2>3, SettleConsistent DEF Refuse
  <2>4. QED
    BY <1>3, <2>1, <2>2, <2>3
<1>4. Consistent'
  BY <1>2, <1>3, ClientConsistent DEF Next, Environment, Inv
<1>5. QED
  BY <1>1, <1>4 DEF Inv

LEMMA Invariance == Spec => []Inv
  BY InitInv, StepInv, PTL DEF Spec

\* For any number of attempts, success is only reported for an executed order.
THEOREM SuccessCorrect == Spec => []SuccessIsExecuted
<1>1. Inv => SuccessIsExecuted
  BY DEF Inv, Consistent, Told, SuccessIsExecuted, Fills, Live
<1>2. QED
  BY <1>1, Invariance, PTL

\* For any number of attempts, a repeat is executed only when the outcome of
\* every attempt before it was unknown to the client.
THEOREM RepeatCorrect == Spec => []RepeatOnlyWhenUnknown
<1>1. ASSUME Inv, NEW o \in Live, NEW b \in Fills(o), NEW a \in Attempts, a < b
      PROVE  heard[o][a] \in {"transport", "5xx"}
  <2>1. Told(o) /\ Sent(o, b) /\ b \in Attempts
    BY <1>1 DEF Inv, Consistent, Live, Fills
  <2>2. tries[o] \in Nat /\ b \in Nat /\ request[o][b] = "filled"
    BY <1>1, <2>1 DEF Fills, Attempts, Inv, TypeOK, Live
  <2>3. b <= tries[o]
    BY <2>1, <2>2 DEF Sent
  <2>4. a < tries[o]
    BY <1>1, <2>3 DEF Inv, TypeOK, Live, Attempts, Fills
  <2>5. QED
    BY <2>1, <2>4 DEF Told
<1>2. Inv => RepeatOnlyWhenUnknown
  BY <1>1 DEF RepeatOnlyWhenUnknown
<1>3. QED
  BY <1>2, Invariance, PTL

-------------------------------------------------------------------------------
(* The refinement.  An order counts as many fills as attempts the broker   *)
(* executed; only Execute adds one, only the end of an attempt answers.    *)

LEMMA FillsFinite ==
  ASSUME NEW o \in Orders
  PROVE  /\ IsFiniteSet(Fills(o))
         /\ Cardinality(Fills(o)) \in Nat
         /\ Cardinality(Fills(o)) > 0 <=> Fills(o) # {}
<1>1. IsFiniteSet(Attempts)
  BY FS_Interval, ConstantsType DEF Attempts
<1>2. IsFiniteSet(Fills(o))
  BY <1>1, FS_Subset DEF Fills
<1>3. QED
  BY <1>2, FS_CardinalityType, FS_EmptySet

LEMMA ExecuteCounts ==
  ASSUME TypeOK, NEW o \in Live, NEW a \in Attempts,
         NEW answer \in {"none", "ok", "declined", "4xx", "5xx"}, Settle(o, a, "filled", answer)
  PROVE  /\ Cardinality(Fills(o)') = Cardinality(Fills(o)) + 1
         /\ Cardinality(Fills(o)) < MaxAttempts
<1>1. a \notin Fills(o)
  BY DEF Settle, Fills
<1>2. Fills(o)' = Fills(o) \cup {a}
  BY DEF Settle, Fills, TypeOK, Live
<1>3. IsFiniteSet(Fills(o))
  BY FillsFinite DEF Live
<1>4. Cardinality(Fills(o) \cup {a}) = Cardinality(Fills(o)) + 1
  BY <1>1, <1>3, FS_AddElement
<1>5. IsFiniteSet(Attempts) /\ Cardinality(Attempts) = MaxAttempts
  BY FS_Interval, ConstantsType DEF Attempts
<1>6. Fills(o) \cup {a} \subseteq Attempts
  BY DEF Fills
<1>7. Cardinality(Fills(o) \cup {a}) <= MaxAttempts
  BY <1>5, <1>6, FS_Subset
<1>8. Cardinality(Fills(o)) \in Nat
  BY FillsFinite DEF Live
<1>9. QED
  BY <1>2, <1>4, <1>7, <1>8, ConstantsType

FillsOf == [o \in Live |-> Cardinality(Fills(o))]
VerdictOf == [o \in Live |-> result[o]]

LEMMA InitRefines == Init => Promise!Init
<1> SUFFICES ASSUME Init PROVE Promise!Init
  OBVIOUS
<1>1. \A o \in Live : Fills(o) = {}
  BY DEF Init, Fills, Live
<1>2. \A o \in Live : Cardinality(Fills(o)) = 0
  BY <1>1, FS_EmptySet
<1>3. QED
  BY <1>2 DEF Init, Promise!Init, Live

LEMMA SettleRefines ==
  ASSUME Inv, NEW o \in Orders, NEW a \in Attempts,
         NEW state \in {"lost", "filled", "refused"},
         NEW answer \in {"none", "ok", "declined", "4xx", "5xx"},
         Settle(o, a, state, answer)
  PROVE  [Promise!Next]_(Promise!vars)
<1>1. VerdictOf' = VerdictOf
  BY DEF Settle, VerdictOf
<1>2. \A p \in Live : p # o => Fills(p)' = Fills(p)
  BY DEF Settle, Fills, Inv, TypeOK, Live
<1>3. CASE o \in Live /\ state = "filled"
  <2>1. /\ Cardinality(Fills(o)') = Cardinality(Fills(o)) + 1
        /\ Cardinality(Fills(o)) < MaxAttempts
    BY <1>3, ExecuteCounts DEF Inv
  <2>2. FillsOf' = [FillsOf EXCEPT ![o] = @ + 1]
    BY <1>2, <1>3, <2>1 DEF FillsOf
  <2>3. Promise!Fill(o)
    BY <1>1, <1>3, <2>1, <2>2 DEF Promise!Fill, FillsOf, VerdictOf
  <2>4. QED
    BY <1>3, <2>3 DEF Promise!Next
<1>4. CASE ~(o \in Live /\ state = "filled")
  <2>1. \A p \in Live : Fills(p)' = Fills(p)
    BY <1>2, <1>4 DEF Settle, Fills, Inv, TypeOK
  <2>2. FillsOf' = FillsOf
    BY <2>1 DEF FillsOf
  <2>3. QED
    BY <1>1, <2>2 DEF Promise!vars, FillsOf, VerdictOf
<1>5. QED
  BY <1>3, <1>4

LEMMA ClientRefines ==
  ASSUME Inv, Inv', NEW o \in Orders, Client(o)
  PROVE  [Promise!Next]_(Promise!vars)
<1>1. \A p \in Live : Fills(p)' = Fills(p)
  <2>1. CASE Post(o)
    <3>1. request[o][tries[o] + 1] = "none" /\ tries[o] + 1 \in Attempts
      BY <2>1, ConstantsType DEF Post, Inv, TypeOK, Attempts, Consistent, Sent
    <3>2. QED
      BY <2>1, <3>1 DEF Post, Fills, Inv, TypeOK, Live
  <2>2. CASE UNCHANGED request
    BY <2>2 DEF Fills
  <2>3. QED
    BY <2>1, <2>2 DEF Client, ReturnDryRun, ReceiveOk, ReceiveDeclined, ReceiveError,
                      TransportError, OtherError, EndAttempt
<1>2. FillsOf' = FillsOf
  BY <1>1 DEF FillsOf
<1>3. CASE o \notin Live \/ result'[o] = result[o]
  <2>1. VerdictOf' = VerdictOf
    BY <1>3 DEF VerdictOf, Client, ReturnDryRun, Post, ReceiveOk, ReceiveDeclined,
                ReceiveError, TransportError, OtherError, EndAttempt, Inv, TypeOK, Live
  <2>2. QED
    BY <1>2, <2>1 DEF Promise!vars, FillsOf, VerdictOf
<1>4. CASE o \in Live /\ result'[o] # result[o]
  <2>1. result[o] = "none" /\ result'[o] \in {"success", "rejected", "raised"}
    BY <1>4 DEF Client, ReturnDryRun, Post, ReceiveOk, ReceiveDeclined, ReceiveError,
                TransportError, OtherError, EndAttempt, Inv, Consistent, Told, TypeOK, Live
  <2>2. VerdictOf' = [VerdictOf EXCEPT ![o] = result'[o]]
    BY <1>4 DEF VerdictOf, Client, ReturnDryRun, Post, ReceiveOk, ReceiveDeclined,
                ReceiveError, TransportError, OtherError, EndAttempt, Inv, TypeOK, Live
  <2>3. result'[o] = "success" => Fills(o) # {}
    BY <1>1, <1>4 DEF Inv, Consistent, Told, Fills
  <2>4. result'[o] = "success" => Cardinality(Fills(o)) > 0
    BY <2>3, FillsFinite
  <2>5. PICK v \in Promise!Verdicts : v = result'[o]
    BY <2>1 DEF Promise!Verdicts
  <2>6. Promise!Answer(o, v)
    BY <1>2, <1>4, <2>1, <2>2, <2>4, <2>5 DEF Promise!Answer, FillsOf, VerdictOf
  <2>7. QED
    BY <1>4, <2>5, <2>6 DEF Promise!Next
<1>5. QED
  BY <1>3, <1>4

LEMMA StepRefines == Inv /\ Inv' /\ [Next]_vars => [Promise!Next]_(Promise!vars)
<1> SUFFICES ASSUME Inv, Inv', [Next]_vars PROVE [Promise!Next]_(Promise!vars)
  OBVIOUS
<1>1. CASE UNCHANGED vars
  BY <1>1 DEF vars, Promise!vars, Fills
<1>2. ASSUME NEW o \in Orders, NEW a \in Attempts,
             Lose(o, a) \/ Execute(o, a) \/ Refuse(o, a)
      PROVE  [Promise!Next]_(Promise!vars)
  <2>1. CASE Lose(o, a)
    BY <2>1, SettleRefines DEF Lose
  <2>2. CASE Execute(o, a)
    BY <2>2, SettleRefines DEF Execute
  <2>3. CASE Refuse(o, a)
    BY <2>3, SettleRefines DEF Refuse
  <2>4. QED
    BY <1>2, <2>1, <2>2, <2>3
<1>3. QED
  BY <1>1, <1>2, ClientRefines DEF Next, Environment

\* The retrying client, the network and the broker implement OrderPromise.
THEOREM PromiseKept == Spec => ImplementsPromise
<1>1. Spec => Promise!Init
  BY InitRefines DEF Spec
<1>2. Spec => [][Promise!Next]_(Promise!vars)
  BY Invariance, StepRefines, PTL DEF Spec
<1>3. QED
  BY <1>1, <1>2 DEF ImplementsPromise, Promise!Spec

-------------------------------------------------------------------------------
(* How long a call can last.  Each step of the client brings its return      *)
(* nearer and nobody else takes it away; that the client goes on is the      *)
(* fairness EveryCallReturns assumes.                                        *)

\* Before each attempt there is one left to make.
Retries ==
  \A o \in Orders :
    /\ phase[o] = "ready" => tries[o] = 0
    /\ phase[o] \in {"ready", "backoff"} => tries[o] < MaxAttempts

\* Two steps for an attempt, to send it and to end it.
StepsLeft(o) ==
  IF phase[o] = "returned" THEN 0
  ELSE 2 * (MaxAttempts - tries[o]) + (IF phase[o] = "waiting" THEN 2 ELSE 1)

\* tenacity stops before the attempts run out.
LEMMA RetriesKept == TypeOK /\ Retries /\ [Next]_vars => Retries'
<1> SUFFICES ASSUME TypeOK, Retries, [Next]_vars, NEW p \in Orders
             PROVE  /\ phase'[p] = "ready" => tries'[p] = 0
                    /\ phase'[p] \in {"ready", "backoff"} => tries'[p] < MaxAttempts
  BY DEF Retries
<1>1. CASE \E o \in Orders : Client(o)
  <2>1. PICK o \in Orders : Client(o)
    BY <1>1
  <2>2. CASE ReturnDryRun(o)
    BY <2>2 DEF ReturnDryRun, TypeOK, Retries
  <2>3. CASE Post(o)
    BY <2>3 DEF Post, TypeOK, Retries
  <2>4. CASE \E h, r : EndAttempt(o, h, r)
    BY <2>4, ConstantsType DEF EndAttempt, TypeOK, Retries
  <2> QED
    BY <2>1, <2>2, <2>3, <2>4
       DEF Client, ReceiveOk, ReceiveDeclined, ReceiveError, TransportError, OtherError
<1>2. CASE UNCHANGED <<phase, tries>>
  BY <1>2 DEF Retries
<1> QED
  BY <1>1, <1>2 DEF Next, Environment, Lose, Execute, Refuse, Settle, vars

LEMMA ClientShortens ==
  ASSUME TypeOK, TypeOK', Retries, NEW o \in Orders, Client(o)
  PROVE  StepsLeft(o)' < StepsLeft(o)
<1>1. tries[o] \in Nat /\ tries[o] <= MaxAttempts /\ MaxAttempts \in Nat
  BY ConstantsType DEF TypeOK
<1>2. CASE ReturnDryRun(o)
  <2>1. phase[o] = "ready" /\ phase'[o] = "returned"
    BY <1>2 DEF ReturnDryRun, TypeOK
  <2> QED
    BY <1>1, <2>1 DEF StepsLeft
<1>3. CASE Post(o)
  <2>1. /\ phase[o] \in {"ready", "backoff"} /\ phase'[o] = "waiting"
        /\ tries'[o] = tries[o] + 1
    BY <1>3 DEF Post, TypeOK
  <2> QED
    BY <1>1, <2>1 DEF StepsLeft
<1>4. CASE \E h, r : EndAttempt(o, h, r)
  <2>1. /\ phase[o] = "waiting" /\ phase'[o] \in {"backoff", "returned"}
        /\ tries'[o] = tries[o]
    BY <1>4 DEF EndAttempt, TypeOK
  <2> QED
    BY <1>1, <2>1 DEF StepsLeft
<1> QED
  BY <1>2, <1>3, <1>4
     DEF Client, ReceiveOk, ReceiveDeclined, ReceiveError, TransportError, OtherError

\* What is left of one call is changed by its own client only.
LEMMA OthersWait ==
  ASSUME TypeOK, [Next]_vars, NEW o \in Orders, ~Client(o)
  PROVE  StepsLeft(o)' = StepsLeft(o)
<1>1. phase'[o] = phase[o] /\ tries'[o] = tries[o]
  <2>1. CASE \E p \in Orders \ {o} : Client(p)
    BY <2>1 DEF Client, ReturnDryRun, Post, ReceiveOk, ReceiveDeclined, ReceiveError,
                TransportError, OtherError, EndAttempt, TypeOK
  <2>2. CASE UNCHANGED <<phase, tries>>
    BY <2>2
  <2> QED
    BY <2>1, <2>2 DEF Next, Environment, Lose, Execute, Refuse, Settle, vars
<1> QED
  BY <1>1 DEF StepsLeft

\* A call that has not returned can go on: it is waiting, which a time-out can
\* end, or an attempt is left; and every step of its client is one of at most
\* 2 * MaxAttempts + 1, whatever network and broker do.
THEOREM CallShortens ==
  Spec => /\ []Retries
          /\ [][\A o \in Orders :
                  IF Client(o) THEN StepsLeft(o)' < StepsLeft(o)
                               ELSE StepsLeft(o)' = StepsLeft(o)]_vars
          /\ [](\A o \in Orders : StepsLeft(o) \in 0..(2 * MaxAttempts + 1))
<1>1. Init => Retries
  BY ConstantsType DEF Init, Retries
<1>2. Spec => [](TypeOK /\ Retries)
  BY <1>1, RetriesKept, TypeCorrect, PTL DEF Spec
<1>3. ASSUME TypeOK, TypeOK', Retries, [Next]_vars
      PROVE  [\A o \in Orders :
                IF Client(o) THEN StepsLeft(o)' < StepsLeft(o)
                             ELSE StepsLeft(o)' = StepsLeft(o)]_vars
  BY <1>3, ClientShortens, OthersWait
<1>4. TypeOK /\ Counted => \A o \in Orders : StepsLeft(o) \in 0..(2 * MaxAttempts + 1)
  BY ConstantsType DEF TypeOK, Counted, StepsLeft
<1>5. Spec => []Inv
  BY Invariance
<1>6. Inv => TypeOK /\ Counted
  BY DEF Inv
<1> QED
  BY <1>2, <1>3, <1>4, <1>5, <1>6, PTL DEF Spec
===============================================================================
