-------------------------- MODULE RiskOfficer_proofs --------------------------
(***************************************************************************)
(* Facts about the arithmetic of Ledger, for any universe, lots and        *)
(* commission, and what evaluate returns, for any settings, decision and   *)
(* context.                                                                *)
(***************************************************************************)
EXTENDS RiskOfficer, Sequences, WellFoundedInduction, TLAPS

-------------------------------------------------------------------------------
(* A sum over the universe is an integer.  Total is defined by recursion   *)
(* over 0..N; that the recursion has a solution, and only integer ones,    *)
(* follows from the least number at which it would fail.                   *)

LessThan == {ss \in Nat \X Nat : ss[1] < ss[2]}

LEMMA LessThanWellFounded == IsWellFoundedOn(LessThan, Nat)
<1>1. OpToRel(<, Nat) = LessThan
  BY DEF OpToRel, LessThan
<1>2. QED
  BY <1>1, NatLessThanWellFounded

LEMMA LeastElement ==
  ASSUME NEW T \in SUBSET Nat, T # {}
  PROVE  \E m \in T : \A k \in T : m <= k
<1>1. PICK m \in T : \A k \in T : ~(<<k, m>> \in LessThan)
  BY LessThanWellFounded, WFMin
<1>2. \A k \in T : ~(k < m)
  BY <1>1 DEF LessThan
<1>3. QED
  BY <1>2

Sums(g, amount, n) ==
  g = [i \in 0..n |-> IF i = 0 THEN 0 ELSE g[i - 1] + amount[i]]

LEMMA SumsExist ==
  ASSUME NEW amount \in [Tickers -> Int], NEW n \in 0..N
  PROVE  \E g \in [0..n -> Int] : Sums(g, amount, n)
<1> DEFINE Bad == {k \in 0..N : ~\E g \in [0..k -> Int] : Sums(g, amount, k)}
<1>1. SUFFICES ASSUME Bad # {} PROVE FALSE
  OBVIOUS
<1>2. PICK m \in Bad : \A k \in Bad : m <= k
  <2>1. Bad \in SUBSET Nat
    BY NAssumption
  <2> HIDE DEF Bad
  <2>2. QED
    BY <1>1, <2>1, LeastElement
<1>3. m \in Nat /\ m <= N /\ N \in Nat
  BY NAssumption
<1>4. CASE m = 0
  <2>1. [i \in 0..0 |-> 0] \in [0..0 -> Int]
    OBVIOUS
  <2>2. Sums([i \in 0..0 |-> 0], amount, 0)
    BY DEF Sums
  <2>3. QED
    BY <1>4, <2>1, <2>2
<1>5. CASE m > 0
  <2>1. m - 1 \in 0..N /\ m - 1 \notin Bad
    BY <1>2, <1>3, <1>5
  <2>2. PICK g \in [0..(m - 1) -> Int] : Sums(g, amount, m - 1)
    BY <2>1
  <2>3. m \in Tickers
    BY <1>3, <1>5 DEF Tickers
  <2> DEFINE h == [i \in 0..m |-> IF i = m THEN g[m - 1] + amount[m] ELSE g[i]]
  <2>4. h \in [0..m -> Int]
    BY <1>3, <1>5, <2>3
  <2>5. \A i \in 0..m : h[i] = IF i = 0 THEN 0 ELSE h[i - 1] + amount[i]
    <3> TAKE i \in 0..m
    <3>1. CASE i = m
      BY <1>3, <1>5, <3>1
    <3>2. CASE i # m
      <4>1. i \in 0..(m - 1)
        BY <1>3, <3>2
      <4>2. g[i] = IF i = 0 THEN 0 ELSE g[i - 1] + amount[i]
        BY <2>2, <4>1 DEF Sums
      <4>3. QED
        BY <1>3, <3>2, <4>1, <4>2
    <3>3. QED
      BY <3>1, <3>2
  <2>6. h = [i \in 0..m |-> IF i = 0 THEN 0 ELSE h[i - 1] + amount[i]]
    BY <2>5
  <2>7. Sums(h, amount, m)
    BY <2>6 DEF Sums
  <2> HIDE DEF h
  <2>8. QED
    BY <2>4, <2>7
<1>6. QED
  BY <1>3, <1>4, <1>5

LEMMA SumsUnique ==
  ASSUME NEW amount \in [Tickers -> Int], NEW g, Sums(g, amount, N)
  PROVE  g[N] \in Int
<1> DEFINE Bad == {k \in 0..N : g[k] \notin Int}
<1>1. SUFFICES ASSUME Bad # {} PROVE FALSE
  BY NAssumption
<1>2. PICK m \in Bad : \A k \in Bad : m <= k
  <2>1. Bad \in SUBSET Nat
    BY NAssumption
  <2> HIDE DEF Bad
  <2>2. QED
    BY <1>1, <2>1, LeastElement
<1>3. m \in 0..N /\ N \in Nat
  BY NAssumption
<1>4. g[m] = IF m = 0 THEN 0 ELSE g[m - 1] + amount[m]
  BY <1>3 DEF Sums
<1>5. CASE m > 0
  <2>1. m \in Tickers /\ m - 1 \in 0..N /\ m - 1 \notin Bad
    BY <1>2, <1>3, <1>5 DEF Tickers
  <2>2. g[m - 1] \in Int /\ amount[m] \in Int
    BY <2>1
  <2>3. QED
    BY <1>4, <1>5, <2>2
<1>6. QED
  BY <1>3, <1>4, <1>5

LEMMA TotalType ==
  ASSUME NEW amount \in [Tickers -> Int]
  PROVE  Total(amount) \in Int
<1> DEFINE upTo == CHOOSE g : Sums(g, amount, N)
<1>1. N \in 0..N
  BY NAssumption
<1>2. \E g : Sums(g, amount, N)
  BY <1>1, SumsExist
<1>3. Sums(upTo, amount, N)
  BY <1>2
<1>4. upTo[N] \in Int
  BY <1>3, SumsUnique
<1>5. Total(amount) = upTo[N]
  BY DEF Total, Sums
<1>6. QED
  BY <1>4, <1>5

LEMMA TotalIsSum ==
  ASSUME NEW amount \in [Tickers -> Int]
  PROVE  \E g : Sums(g, amount, N) /\ Total(amount) = g[N]
<1> DEFINE upTo == CHOOSE g : Sums(g, amount, N)
<1>1. N \in 0..N
  BY NAssumption
<1>2. \E g : Sums(g, amount, N)
  BY <1>1, SumsExist
<1>3. Sums(upTo, amount, N)
  BY <1>2
<1>4. Total(amount) = upTo[N]
  BY DEF Total, Sums
<1>5. QED
  BY <1>3, <1>4

\* One amount that changes changes the total by as much.
LEMMA TotalChanged ==
  ASSUME NEW amount \in [Tickers -> Int], NEW t \in Tickers, NEW x \in Int
  PROVE  Total([amount EXCEPT ![t] = x]) = Total(amount) - amount[t] + x
<1> DEFINE other == [amount EXCEPT ![t] = x]
<1>1. other \in [Tickers -> Int] /\ other[t] = x
      /\ \A u \in Tickers : u # t => other[u] = amount[u]
  OBVIOUS
<1> HIDE DEF other
<1>2. PICK f : Sums(f, amount, N) /\ Total(amount) = f[N]
  BY TotalIsSum
<1>3. PICK g : Sums(g, other, N) /\ Total(other) = g[N]
  BY <1>1, TotalIsSum
<1> DEFINE shift(i) == IF i < t THEN 0 ELSE x - amount[t]
           Bad == {k \in 0..N : ~(f[k] \in Int /\ g[k] = f[k] + shift(k))}
<1>4. amount[t] \in Int /\ t \in 1..N /\ N \in Nat
  BY NAssumption DEF Tickers
<1>5. Bad = {}
  <2> SUFFICES ASSUME Bad # {} PROVE FALSE
    OBVIOUS
  <2>1. PICK m \in Bad : \A k \in Bad : m <= k
    <3>1. Bad \in SUBSET Nat
      BY NAssumption
    <3> HIDE DEF Bad
    <3> QED
      BY <3>1, LeastElement
  <2>2. m \in 0..N
    OBVIOUS
  <2>3. /\ f[m] = IF m = 0 THEN 0 ELSE f[m - 1] + amount[m]
        /\ g[m] = IF m = 0 THEN 0 ELSE g[m - 1] + other[m]
    BY <1>2, <1>3, <2>2 DEF Sums
  <2>4. CASE m = 0
    BY <1>4, <2>3, <2>4
  <2>5. CASE m > 0
    <3>1. m \in Tickers /\ m - 1 \in 0..N /\ m - 1 \notin Bad
      BY <1>4, <2>1, <2>2, <2>5 DEF Tickers
    <3>2. f[m - 1] \in Int /\ g[m - 1] = f[m - 1] + shift(m - 1) /\ amount[m] \in Int
      BY <3>1
    <3>3. other[m] = amount[m] + shift(m) - shift(m - 1)
      BY <1>1, <1>4, <2>2, <3>1, <3>2
    <3>4. shift(m) \in Int /\ shift(m - 1) \in Int
      BY <1>4
    <3>5. f[m] = f[m - 1] + amount[m] /\ g[m] = g[m - 1] + other[m]
      BY <2>3, <2>5
    <3> HIDE DEF shift
    <3>6. f[m] \in Int /\ g[m] = f[m] + shift(m)
      BY <3>2, <3>3, <3>4, <3>5
    <3> QED
      BY <2>1, <3>6
  <2> QED
    BY <1>4, <2>2, <2>4, <2>5
<1>6. f[N] \in Int /\ g[N] = f[N] + (x - amount[t])
  <2>1. N \in 0..N /\ ~(N < t)
    BY <1>4
  <2> QED
    BY <1>5, <2>1
<1> QED
  BY <1>2, <1>3, <1>4, <1>6 DEF other

LEMMA TotalOfNothing == Total([t \in Tickers |-> 0]) = 0
<1> DEFINE zero == [t \in Tickers |-> 0]
<1>1. zero \in [Tickers -> Int]
  OBVIOUS
<1>2. PICK g : Sums(g, zero, N) /\ Total(zero) = g[N]
  BY <1>1, TotalIsSum
<1> DEFINE Bad == {k \in 0..N : g[k] # 0}
<1>3. Bad = {}
  <2> SUFFICES ASSUME Bad # {} PROVE FALSE
    OBVIOUS
  <2>1. PICK m \in Bad : \A k \in Bad : m <= k
    <3>1. Bad \in SUBSET Nat
      BY NAssumption
    <3> HIDE DEF Bad
    <3> QED
      BY <3>1, LeastElement
  <2>2. m \in 0..N /\ N \in Nat
    BY NAssumption
  <2>3. g[m] = IF m = 0 THEN 0 ELSE g[m - 1] + zero[m]
    BY <1>2, <2>2 DEF Sums
  <2>4. m # 0 => m \in Tickers /\ m - 1 \in 0..N /\ m - 1 \notin Bad
    BY <2>1, <2>2 DEF Tickers
  <2> QED
    BY <2>1, <2>3, <2>4
<1>4. N \in 0..N
  BY NAssumption
<1> QED
  BY <1>2, <1>3, <1>4

-------------------------------------------------------------------------------
(* Amounts. *)

LEMMA ProductNat ==
  ASSUME NEW a \in Nat, NEW b \in Nat
  PROVE  a * b \in Nat
  OBVIOUS

LEMMA ProductInt ==
  ASSUME NEW a \in Int, NEW b \in Int
  PROVE  a * b \in Int
  OBVIOUS

LEMMA LotType ==
  ASSUME NEW t \in Tickers
  PROVE  Lot[t] \in Nat /\ Lot[t] > 0
  BY LotAssumption

LEMMA NotionalType ==
  ASSUME NEW t \in Tickers, NEW lots \in Nat, NEW price \in Nat
  PROVE  Notional(t, lots, price) \in Nat
<1>1. lots * Lot[t] \in Nat
  BY LotType, ProductNat
<1>2. QED
  BY <1>1, ProductNat DEF Notional

LEMMA CommissionType ==
  ASSUME NEW amount \in Nat
  PROVE  Commission(amount) \in Nat
<1>1. amount * CommissionPct \in Nat
  BY CommissionAssumption, ProductNat
<1>2. QED
  BY <1>1 DEF Commission

LEMMA SizeType ==
  ASSUME NEW p \in Position
  PROVE  Size(p) \in Nat /\ (Size(p) = 0 <=> p.qty = 0)
  BY DEF Position, Size

LEMMA ProductMonotone ==
  ASSUME NEW a \in Nat, NEW b \in Nat, NEW c \in Nat, a <= b
  PROVE  a * c <= b * c
<1>1. (b - a) * c \in Nat
  BY ProductNat
<1>2. (b - a) * c = b * c - a * c
  OBVIOUS
<1>3. a * c \in Nat /\ b * c \in Nat
  BY ProductNat
<1>4. QED
  BY <1>1, <1>2, <1>3

LEMMA NotionalMonotone ==
  ASSUME NEW t \in Tickers, NEW a \in Nat, NEW b \in Nat, NEW at \in Nat, a <= b
  PROVE  Notional(t, a, at) <= Notional(t, b, at)
<1> DEFINE x == a * Lot[t]
           y == b * Lot[t]
<1>1. x \in Nat /\ y \in Nat /\ x <= y
  BY LotType, ProductNat, ProductMonotone
<1> HIDE DEF x, y
<1>2. x * at <= y * at
  BY <1>1, ProductMonotone
<1>3. QED
  BY <1>2 DEF Notional, x, y

LEMMA NotionalZero ==
  ASSUME NEW t \in Tickers, NEW at \in Nat
  PROVE  Notional(t, 0, at) = 0
<1>1. 0 * Lot[t] = 0
  BY LotType
<1>2. QED
  BY <1>1 DEF Notional

LEMMA WorthType ==
  ASSUME NEW t \in Tickers, NEW p \in Position, NEW price \in Nat
  PROVE  Worth(t, p, price) \in Int
<1>1. p.avg \in Nat /\ Size(p) \in Nat /\ Lot[t] \in Nat
  BY SizeType, LotType DEF Position
<1>2. Notional(t, Size(p), p.avg) \in Nat
  BY <1>1, NotionalType
<1>3. Size(p) * Lot[t] \in Int
  BY <1>1, ProductNat
<1>4. /\ Size(p) * Lot[t] * (price - p.avg) \in Int
      /\ Size(p) * Lot[t] * (p.avg - price) \in Int
  BY <1>1, <1>3, ProductInt
<1>5. QED
  BY <1>2, <1>4 DEF Worth, PnL

LEMMA NavType ==
  ASSUME NEW cash \in Int, NEW pos \in [Tickers -> Position],
         NEW price \in [Tickers -> Nat]
  PROVE  NAV(cash, pos, price) \in Int
<1> DEFINE worth == [t \in Tickers |-> Worth(t, pos[t], price[t])]
<1>1. worth \in [Tickers -> Int]
  BY WorthType
<1>2. Total(worth) \in Int
  BY <1>1, TotalType
<1>3. QED
  BY <1>2 DEF NAV

-------------------------------------------------------------------------------
(* Fills. *)

LEMMA MovedType ==
  ASSUME NEW p \in Position, NEW delta \in Int, NEW price \in Nat
  PROVE  Moved(p, delta, price) \in Position /\ Moved(p, delta, price).qty = p.qty + delta
<1> DEFINE q == p.qty + delta
           size == IF q < 0 THEN -q ELSE q
           add == IF delta < 0 THEN -delta ELSE delta
<1>1. p.qty \in Int /\ p.avg \in Nat /\ Size(p) \in Nat
  BY SizeType DEF Position
<1>2. q \in Int /\ size \in Nat /\ add \in Nat
  BY <1>1
<1>3. CASE q = 0
  BY <1>3, <1>1 DEF Moved, Flat, Position
<1>4. CASE q # 0
  <2>1. size > 0
    BY <1>2, <1>4
  <2>2. Size(p) * p.avg \in Nat /\ add * price \in Nat
    BY <1>1, <1>2, ProductNat
  <2>3. Size(p) * p.avg + add * price \in Nat
    BY <2>2
  <2>4. (Size(p) * p.avg + add * price) \div size \in Nat
    <3> HIDE DEF size, add
    <3>1. \A m \in Nat, k \in Nat : k > 0 => m \div k \in Nat
      OBVIOUS
    <3>2. QED
      BY <1>2, <2>1, <2>3, <3>1
  <2> HIDE DEF size, add
  <2>5. Moved(p, delta, price) =
          [qty |-> q,
           avg |-> IF SameSide(p.qty, delta)
                   THEN (Size(p) * p.avg + add * price) \div size
                   ELSE IF SameSide(p.qty, q) THEN p.avg ELSE price]
    BY <1>4 DEF Moved, size, add
  <2>6. QED
    BY <1>1, <1>2, <2>4, <2>5 DEF Position
<1>5. QED
  BY <1>3, <1>4

LEMMA OpeningType ==
  ASSUME NEW p \in Position, NEW delta \in Int
  PROVE  /\ Reducing(p, delta) \in Nat /\ Reducing(p, delta) <= Size(p)
         /\ Opening(p, delta) \in Nat
         /\ Opening(p, delta) <= IF delta < 0 THEN -delta ELSE delta
  BY DEF Opening, Reducing, Position, Size, SameSide

LEMMA ReductionOpensNothing ==
  ASSUME NEW p \in Position, NEW delta \in Int, SameSide(p.qty, -delta),
         (IF delta < 0 THEN -delta ELSE delta) <= Size(p)
  PROVE  Opening(p, delta) = 0
  BY DEF Opening, Reducing, Position, Size, SameSide

LEMMA BrokerCashType ==
  ASSUME NEW t \in Tickers, NEW cash \in Int, NEW p \in Position, NEW delta \in Int,
         NEW price \in Nat
  PROVE  BrokerCash(t, cash, p, delta, price) \in Int
<1> DEFINE closed == [p EXCEPT !.qty = IF @ < 0 THEN -Reducing(p, delta)
                                                ELSE Reducing(p, delta)]
           opened == Notional(t, Opening(p, delta), price)
           turnover == Notional(t, Reducing(p, delta), price) + opened
<1>1. closed \in Position
  BY OpeningType DEF Position
<1>2. Worth(t, closed, price) \in Int
  BY <1>1, WorthType
<1>3. opened \in Nat /\ turnover \in Nat
  <2>1. Opening(p, delta) \in Nat /\ Reducing(p, delta) \in Nat
    BY OpeningType
  <2>2. opened \in Nat /\ Notional(t, Reducing(p, delta), price) \in Nat
    BY <2>1, NotionalType
  <2>3. QED
    BY <2>2
<1>4. Commission(turnover) \in Nat
  BY <1>3, CommissionType
<1>5. BrokerCash(t, cash, p, delta, price)
        = cash + Worth(t, closed, price) - opened - Commission(turnover)
  BY DEF BrokerCash
<1> HIDE DEF closed, opened, turnover
<1>6. QED
  BY <1>2, <1>3, <1>4, <1>5

-------------------------------------------------------------------------------
(* Products, quotients and the largest of many. *)

LEMMA Products ==
  ASSUME NEW a \in Int, NEW b \in Int, NEW c \in Int
  PROVE  a * b * c \in Int
  OBVIOUS

LEMMA DivNat ==
  ASSUME NEW a \in Nat, NEW b \in Nat, b > 0
  PROVE  a \div b \in Nat
  OBVIOUS

LEMMA DivBound ==
  ASSUME NEW a \in Nat, NEW b \in Nat, b > 0
  PROVE  (a \div b) * b <= a
  OBVIOUS

LEMMA Cancel ==
  ASSUME NEW n \in Nat, n > 0, NEW x \in Int, NEW y \in Int, n * x <= n * y
  PROVE  x <= y
<1> SUFFICES ASSUME x > y PROVE FALSE
  OBVIOUS
<1>1. n * (x - y) = n * x - n * y /\ n * x \in Int /\ n * y \in Int
  OBVIOUS
<1>2. (x - y - 1) * n \in Nat
  BY ProductNat
<1>3. (x - y - 1) * n = n * (x - y) - n
  OBVIOUS
<1> QED
  BY <1>1, <1>2, <1>3

LEMMA NotionalAdds ==
  ASSUME NEW t \in Tickers, NEW a \in Nat, NEW b \in Nat, NEW at \in Nat
  PROVE  Notional(t, a + b, at) = Notional(t, a, at) + Notional(t, b, at)
<1>1. Lot[t] \in Int
  BY LotType
<1> QED
  BY <1>1 DEF Notional

\* Some of the numbers of a sequence, and one more, have a largest.
LEMMA MaxExists ==
  ASSUME NEW q \in Seq(Int), NEW D \in SUBSET DOMAIN q, NEW n \in Int
  PROVE  LET S == {q[i] : i \in D} \cup {n}
         IN  Max(S) \in S /\ \A y \in S : Max(S) >= y
<1> DEFINE S(k) == {q[i] : i \in D \cap 1..k} \cup {n}
           Top(k) == \E x \in S(k) : \A y \in S(k) : x >= y
           Bad == {k \in 0..Len(q) : ~Top(k)}
<1>1. DOMAIN q = 1..Len(q) /\ Len(q) \in Nat /\ \A i \in 1..Len(q) : q[i] \in Int
  OBVIOUS
<1>2. Bad = {}
  <2> SUFFICES ASSUME Bad # {} PROVE FALSE
    OBVIOUS
  <2>1. PICK m \in Bad : \A k \in Bad : m <= k
    <3>1. Bad \in SUBSET Nat
      BY <1>1
    <3> HIDE DEF Bad
    <3> QED
      BY <3>1, LeastElement
  <2>2. m \in 0..Len(q) /\ ~Top(m)
    OBVIOUS
  <2>3. CASE m = 0
    <3>1. S(0) = {n} /\ n >= n
      OBVIOUS
    <3>2. Top(0)
      BY <3>1
    <3> QED
      BY <2>2, <2>3, <3>2
  <2>4. CASE m # 0
    <3>1. m - 1 \in 0..Len(q) /\ m - 1 \notin Bad
      <4> HIDE DEF Bad
      <4> QED
        BY <1>1, <2>1, <2>2, <2>4
    <3>2. PICK x \in S(m - 1) : \A y \in S(m - 1) : x >= y
      BY <3>1
    <3>3. x \in Int /\ q[m] \in Int /\ \A y \in S(m - 1) : y \in Int
      BY <1>1, <2>2, <2>4, <3>1
    <3>4. CASE m \notin D
      <4>1. D \cap 1..m = D \cap 1..(m - 1)
        BY <1>1, <2>2, <3>4
      <4> QED
        BY <2>2, <3>2, <4>1
    <3>5. CASE m \in D
      <4>1. D \cap 1..m = (D \cap 1..(m - 1)) \cup {m}
        BY <1>1, <2>2, <2>4, <3>5
      <4>2. S(m) = S(m - 1) \cup {q[m]}
        BY <4>1
      <4> HIDE DEF S
      <4>3. CASE q[m] >= x
        <5>1. q[m] \in S(m) /\ \A y \in S(m) : q[m] >= y
          BY <3>2, <3>3, <4>2, <4>3
        <5> QED
          BY <2>2, <5>1
      <4>4. CASE ~(q[m] >= x)
        <5>1. x \in S(m) /\ \A y \in S(m) : x >= y
          BY <3>2, <3>3, <4>2, <4>4
        <5> QED
          BY <2>2, <5>1
      <4> QED
        BY <4>3, <4>4
    <3> QED
      BY <3>4, <3>5
  <2> QED
    BY <2>3, <2>4
<1>3. Top(Len(q)) /\ S(Len(q)) = {q[i] : i \in D} \cup {n}
  <2>1. D \cap 1..Len(q) = D
    BY <1>1
  <2>2. S(Len(q)) = {q[i] : i \in D} \cup {n}
    BY <2>1
  <2>3. Len(q) \in 0..Len(q)
    BY <1>1
  <2> HIDE DEF Top
  <2> QED
    BY <1>2, <2>2, <2>3
<1> QED
  BY <1>3 DEF Max

-------------------------------------------------------------------------------
(* What a fill takes from the worth of an account. *)

\* The arithmetic of a worth: of a long, of a short, and of a short enlarged at
\* an average n that rounding has lowered by r.
LEMMA WorthArithmetic ==
  ASSUME NEW s \in Int, NEW d \in Int, NEW l \in Int, NEW a \in Int, NEW x \in Int
  PROVE  /\ s * l * a + s * l * (x - a) = s * l * x
         /\ s * l * a + s * l * (a - x) = s * l * (2 * a - x)
         /\ (s + d) * l * x = s * l * x + d * l * x
         /\ (s + d) * l * (2 * a - x) = s * l * (2 * a - x) + d * l * (2 * a - x)
  OBVIOUS

LEMMA ShortEnlarged ==
  ASSUME NEW s \in Int, NEW d \in Int, NEW l \in Int, NEW a \in Int, NEW x \in Int,
         NEW n \in Int, NEW r \in Int, (s + d) * n = s * a + d * x - r
  PROVE  (s + d) * l * (2 * n - x) = s * l * (2 * a - x) + d * l * x - 2 * l * r
<1>1. (s + d) * l * (2 * n - x) = 2 * l * ((s + d) * n) - (s + d) * l * x
  OBVIOUS
<1>2. 2 * l * (s * a + d * x - r) - (s + d) * l * x
        = s * l * (2 * a - x) + d * l * x - 2 * l * r
  OBVIOUS
<1> QED
  BY <1>1, <1>2

\* A quotient times its divisor, and what is left.
LEMMA DivRest ==
  ASSUME NEW a \in Nat, NEW b \in Nat, b > 0
  PROVE  \E r \in Nat : r < b /\ b * (a \div b) = a - r
<1> DEFINE q == a \div b
<1>1. q \in Int /\ q * b <= a /\ a < (q + 1) * b
  OBVIOUS
<1> HIDE DEF q
<1>2. q * b \in Int /\ b * q = q * b /\ (q + 1) * b = q * b + b
  BY <1>1
<1>3. PICK r \in Nat : r = a - q * b
  BY <1>1, <1>2
<1>4. r < b /\ b * q = a - r
  BY <1>1, <1>2, <1>3
<1> QED
  BY <1>4 DEF q

\* What a position is worth: a long its price, a short its cost less the rise.
LEMMA WorthOf ==
  ASSUME NEW t \in Tickers, NEW p \in Position, NEW at \in Nat
  PROVE  /\ p.qty > 0 => Worth(t, p, at) = Size(p) * Lot[t] * at
         /\ p.qty <= 0 => Worth(t, p, at) = Size(p) * Lot[t] * (2 * p.avg - at)
         /\ p.qty = 0 => Worth(t, p, at) = 0
<1> DEFINE s == Size(p)
           l == Lot[t]
           a == p.avg
<1>1. s \in Int /\ l \in Int /\ a \in Int /\ at \in Int /\ (p.qty = 0 => s = 0) /\ p.qty \in Int
  BY LotType, SizeType DEF Position
<1>2. Worth(t, p, at) = s * l * a + (IF p.qty > 0 THEN s * l * (at - a) ELSE s * l * (a - at))
  BY DEF Worth, PnL, Notional
<1> HIDE DEF s, l, a
<1>3. /\ s * l * a + s * l * (at - a) = s * l * at
      /\ s * l * a + s * l * (a - at) = s * l * (2 * a - at)
  BY <1>1, WorthArithmetic
<1>4. s = 0 => s * l * (2 * a - at) = 0
  BY <1>1
<1>5. p.qty > 0 => Worth(t, p, at) = s * l * at
  BY <1>2, <1>3
<1>6. p.qty <= 0 => Worth(t, p, at) = s * l * (2 * a - at)
  BY <1>1, <1>2, <1>3
<1>7. p.qty = 0 => Worth(t, p, at) = 0
  BY <1>1, <1>4, <1>6
<1> QED
  BY <1>5, <1>6, <1>7 DEF s, l, a

\* A reduction gives back what the closed lots were worth, less the commission.
LEMMA ReductionKeepsWorth ==
  ASSUME NEW t \in Tickers, NEW p \in Position, NEW delta \in Int, NEW at \in Nat,
         NEW cash \in Int, Opening(p, delta) = 0
  PROVE  LET add == IF delta < 0 THEN -delta ELSE delta
         IN  BrokerCash(t, cash, p, delta, at) + Worth(t, Moved(p, delta, at), at)
               = cash + Worth(t, p, at) - Commission(Notional(t, add, at))
<1> DEFINE add == IF delta < 0 THEN -delta ELSE delta
           m == Moved(p, delta, at)
           part == Reducing(p, delta)
           closed == [p EXCEPT !.qty = IF @ < 0 THEN -Reducing(p, delta)
                                                ELSE Reducing(p, delta)]
           l == Lot[t]
           a == p.avg
           fee == Commission(Notional(t, add, at))
<1>1. /\ p.qty \in Int /\ a \in Nat /\ a \in Int /\ l \in Int /\ at \in Int /\ add \in Nat
      /\ part \in Nat /\ part = add /\ part <= Size(p) /\ Size(p) \in Nat
      /\ (p.qty < 0 => delta >= 0) /\ (p.qty > 0 => delta <= 0) /\ (p.qty = 0 => delta = 0)
  BY OpeningType, LotType, SizeType DEF Position, Opening, Reducing, Size, SameSide
<1>2. /\ m \in Position /\ m.qty = p.qty + delta
      /\ closed \in Position /\ closed.qty = (IF p.qty < 0 THEN -part ELSE part)
      /\ closed.avg = a
  BY <1>1, MovedType DEF Position
<1>3. m.qty # 0 => m.avg = a
  <2>1. SUFFICES ASSUME p.qty + delta # 0 PROVE m.avg = a
    BY <1>2
  <2>2. ~SameSide(p.qty, delta) /\ SameSide(p.qty, p.qty + delta)
    <3> HIDE DEF part, closed, m, fee, l, a
    <3>1. Size(p) = IF p.qty < 0 THEN -p.qty ELSE p.qty
      BY DEF Size
    <3> QED
      BY <1>1, <2>1, <3>1 DEF SameSide, add
  <2> QED
    BY <2>1, <2>2 DEF Moved
<1>4. Size(closed) = part /\ Size(p) = part + Size(m) /\ Size(m) \in Nat
  <2> HIDE DEF m, closed, part
  <2> QED
    BY <1>1, <1>2 DEF Size, Position
<1>5. BrokerCash(t, cash, p, delta, at) = cash + Worth(t, closed, at) - fee
  <2>1. Notional(t, 0, at) = 0 /\ Notional(t, add, at) \in Nat
    BY <1>1, NotionalZero, NotionalType
  <2>2. Worth(t, closed, at) \in Int /\ fee \in Int
    BY <1>2, <2>1, WorthType, CommissionType
  <2>3. BrokerCash(t, cash, p, delta, at)
          = cash + Worth(t, closed, at) - Notional(t, 0, at)
            - Commission(Notional(t, add, at) + Notional(t, 0, at))
    BY <1>1 DEF BrokerCash
  <2> HIDE DEF closed, add
  <2>4. Commission(Notional(t, add, at) + Notional(t, 0, at)) = fee
    <3>1. Notional(t, add, at) + Notional(t, 0, at) = Notional(t, add, at)
      BY <2>1
    <3> QED
      BY <3>1
  <2> HIDE DEF fee
  <2> QED
    BY <2>1, <2>2, <2>3, <2>4
<1>6. Worth(t, p, at) = Worth(t, closed, at) + Worth(t, m, at)
  <2>1. Worth(t, p, at) \in Int /\ Worth(t, closed, at) \in Int /\ Worth(t, m, at) \in Int
    BY <1>2, WorthType
  <2>2. CASE p.qty > 0
    <3>1. Worth(t, p, at) = Size(p) * l * at
      BY <2>2, WorthOf
    <3>2. Worth(t, closed, at) = part * l * at
      <4>1. closed.qty > 0 => Worth(t, closed, at) = Size(closed) * l * at
        BY <1>2, WorthOf
      <4>2. closed.qty = 0 => Worth(t, closed, at) = 0
        BY <1>2, WorthOf
      <4>3. closed.qty = part
        <5> HIDE DEF closed, part
        <5> QED
          BY <1>1, <1>2, <2>2
      <4> HIDE DEF closed, part, l
      <4>4. part = 0 => part * l * at = 0
        BY <1>1
      <4> QED
        BY <1>1, <1>4, <4>1, <4>2, <4>3, <4>4
    <3>3. Worth(t, m, at) = Size(m) * l * at
      <4>1. m.qty > 0 => Worth(t, m, at) = Size(m) * l * at
        BY <1>2, WorthOf
      <4>2. m.qty = 0 => Worth(t, m, at) = 0 /\ Size(m) = 0
        BY <1>2, WorthOf, SizeType
      <4>3. m.qty >= 0 /\ m.qty \in Int
        <5> HIDE DEF part, add, l
        <5>1. Size(p) = p.qty
          BY <2>2 DEF Size, Position
        <5> QED
          BY <1>1, <1>2, <2>2, <5>1 DEF add
      <4>4. 0 * l * at = 0
        BY <1>1
      <4> HIDE DEF m, l
      <4> QED
        BY <4>1, <4>2, <4>3, <4>4
    <3> DEFINE s == Size(m)
    <3> HIDE DEF m, closed, part, l, s
    <3>4. (part + s) * l * at = part * l * at + s * l * at
      BY <1>1, <1>4, WorthArithmetic DEF s
    <3> QED
      BY <1>4, <3>1, <3>2, <3>3, <3>4 DEF s
  <2>3. CASE p.qty <= 0
    <3>1. Worth(t, p, at) = Size(p) * l * (2 * a - at)
      BY <2>3, WorthOf
    <3>2. Worth(t, closed, at) = part * l * (2 * a - at)
      <4>1. closed.qty <= 0
        BY <1>1, <1>2, <2>3 DEF Size
      <4>2. Worth(t, closed, at) = Size(closed) * l * (2 * closed.avg - at)
        BY <1>2, <4>1, WorthOf
      <4> HIDE DEF closed, part
      <4> QED
        BY <1>2, <1>4, <4>2
    <3>3. Worth(t, m, at) = Size(m) * l * (2 * a - at)
      <4>1. m.qty <= 0 /\ m.qty \in Int
        <5> HIDE DEF part, add, l
        <5>1. Size(p) = -p.qty
          BY <1>1, <2>3 DEF Size
        <5> QED
          BY <1>1, <1>2, <2>3, <5>1 DEF add
      <4>2. Worth(t, m, at) = Size(m) * l * (2 * m.avg - at)
        BY <1>2, <4>1, WorthOf
      <4>3. m.qty = 0 => Worth(t, m, at) = 0 /\ Size(m) = 0
        BY <1>2, WorthOf, SizeType
      <4>4. 0 * l * (2 * a - at) = 0
        BY <1>1
      <4> HIDE DEF m, l
      <4> QED
        BY <1>3, <4>2, <4>3, <4>4
    <3> DEFINE s == Size(m)
    <3> HIDE DEF m, closed, part, l, s, a
    <3>4. (part + s) * l * (2 * a - at) = part * l * (2 * a - at) + s * l * (2 * a - at)
      <4>1. part \in Int /\ s \in Int /\ l \in Int /\ a \in Int /\ at \in Int
        BY <1>1, <1>4 DEF s
      <4> QED
        BY <4>1, WorthArithmetic
    <3> QED
      BY <1>4, <3>1, <3>2, <3>3, <3>4 DEF s
  <2> QED
    BY <1>1, <2>2, <2>3
<1>7. fee \in Int /\ Worth(t, closed, at) \in Int /\ Worth(t, m, at) \in Int
  BY <1>1, <1>2, NotionalType, CommissionType, WorthType
<1> DEFINE b == BrokerCash(t, cash, p, delta, at)
           wp == Worth(t, p, at)
           wc == Worth(t, closed, at)
           wm == Worth(t, m, at)
<1>8. b + wm = cash + wp - fee
  <2>1. b = cash + wc - fee /\ wp = wc + wm /\ wc \in Int /\ wm \in Int /\ fee \in Int
    BY <1>5, <1>6, <1>7
  <2> HIDE DEF b, wp, wc, wm, fee
  <2> QED
    BY <2>1
<1> QED
  BY <1>8

\* An opening takes the commission, and of a short the rounding of its average.
LEMMA OpeningKeepsWorth ==
  ASSUME NEW t \in Tickers, NEW p \in Position, NEW delta \in Int, NEW at \in Nat,
         NEW cash \in Int, delta # 0, Reducing(p, delta) = 0
  PROVE  LET add == IF delta < 0 THEN -delta ELSE delta
             m == Moved(p, delta, at)
             left == cash + Worth(t, p, at) - Commission(Notional(t, add, at))
             held == BrokerCash(t, cash, p, delta, at) + Worth(t, m, at)
         IN  held <= left /\ held >= left - 2 * Lot[t] * Size(m)
<1> DEFINE add == IF delta < 0 THEN -delta ELSE delta
           m == Moved(p, delta, at)
           l == Lot[t]
           s == Size(p)
           a == p.avg
           n == m.avg
           fee == Commission(Notional(t, add, at))
           b == BrokerCash(t, cash, p, delta, at)
           wp == Worth(t, p, at)
           wm == Worth(t, m, at)
           paid == add * l * at
<1>1. /\ p.qty \in Int /\ a \in Nat /\ a \in Int /\ l \in Nat /\ l \in Int /\ at \in Int
      /\ add \in Nat /\ add > 0 /\ add \in Int /\ s \in Nat /\ s \in Int
      /\ p.qty = 0 \/ SameSide(p.qty, delta)
  BY OpeningType, LotType, SizeType DEF Position, Reducing, Size, SameSide
<1>2. /\ m \in Position /\ m.qty = p.qty + delta /\ m.qty # 0 /\ n \in Nat /\ n \in Int
      /\ Size(m) = s + add
      /\ m.qty > 0 \/ m.qty < 0
      /\ m.qty > 0 => p.qty >= 0
      /\ m.qty < 0 => p.qty <= 0 /\ m.qty <= 0
  <2>1. m \in Position /\ m.qty = p.qty + delta /\ m.avg \in Nat
    BY MovedType DEF Position
  <2>2. m.qty # 0
    BY <1>1, <2>1 DEF SameSide
  <2>3. /\ m.qty > 0 \/ m.qty < 0
        /\ m.qty > 0 => p.qty >= 0
        /\ m.qty < 0 => p.qty <= 0 /\ m.qty <= 0
    <3> HIDE DEF m
    <3> QED
      BY <1>1, <2>1 DEF SameSide
  <2>4. Size(m) = s + add
    <3> HIDE DEF m
    <3> QED
      BY <1>1, <2>1 DEF SameSide, Size
  <2> QED
    BY <2>1, <2>2, <2>3, <2>4
<1>3. /\ wp \in Int /\ wm \in Int /\ fee \in Int /\ paid \in Int
  <2>1. Notional(t, add, at) \in Nat
    BY <1>1, NotionalType
  <2>2. wp \in Int /\ wm \in Int
    BY <1>2, WorthType
  <2>3. fee \in Nat
    BY <2>1, CommissionType
  <2>4. paid \in Int
    BY <2>1 DEF Notional
  <2> QED
    BY <2>2, <2>3, <2>4
<1>4. b = cash - paid - fee
  <2> DEFINE closed == [p EXCEPT !.qty = IF @ < 0 THEN -Reducing(p, delta)
                                                  ELSE Reducing(p, delta)]
  <2>1. closed \in Position /\ closed.qty = 0
    <3>1. closed = [p EXCEPT !.qty = 0]
      OBVIOUS
    <3> HIDE DEF closed
    <3> QED
      BY <3>1 DEF Position
  <2>2. Worth(t, closed, at) = 0
    <3> HIDE DEF closed
    <3> QED
      BY <2>1, WorthOf
  <2>3. Opening(p, delta) = add
    BY <1>1 DEF Opening
  <2>4. Notional(t, 0, at) = 0 /\ Notional(t, add, at) = paid
    BY NotionalZero DEF Notional
  <2>5. b = cash + Worth(t, closed, at) - Notional(t, add, at)
            - Commission(Notional(t, 0, at) + Notional(t, add, at))
    BY <2>3 DEF BrokerCash
  <2> HIDE DEF closed, add, paid
  <2>6. Notional(t, 0, at) + Notional(t, add, at) = Notional(t, add, at)
    BY <1>3, <2>4
  <2>7. b = cash + 0 - paid - fee
    BY <2>2, <2>4, <2>5, <2>6
  <2> HIDE DEF b, fee
  <2> QED
    BY <1>3, <2>7
<1>5. PICK r \in Nat : r <= s + add /\ wm = wp + paid - 2 * l * r
  <2>1. CASE m.qty > 0
    <3>1. wm = (s + add) * l * at
      BY <1>2, <2>1, WorthOf
    <3>2. wp = s * l * at
      <4>1. p.qty > 0 => wp = s * l * at
        BY WorthOf
      <4>2. p.qty = 0 => wp = 0 /\ s = 0
        BY WorthOf, SizeType
      <4>3. 0 * l * at = 0
        BY <1>1
      <4>4. p.qty >= 0
        <5> HIDE DEF m
        <5> QED
          BY <1>2, <2>1
      <4> HIDE DEF wp, s, l
      <4> QED
        BY <1>1, <4>1, <4>2, <4>3, <4>4
    <3>3. (s + add) * l * at = s * l * at + add * l * at
      <4> HIDE DEF s, add, l
      <4> QED
        BY <1>1, WorthArithmetic
    <3>4. wm = wp + paid - 2 * l * 0
      <4>1. wm = wp + paid /\ 2 * l * 0 = 0
        BY <1>1, <3>1, <3>2, <3>3
      <4> HIDE DEF wm, wp, paid, l
      <4> QED
        BY <1>3, <4>1
    <3>5. 0 <= s + add
      <4> HIDE DEF s, add
      <4> QED
        BY <1>1
    <3> HIDE DEF wm, wp, paid, l, s, add
    <3> QED
      BY <3>4, <3>5
  <2>2. CASE m.qty < 0
    <3>0. m.qty <= 0 /\ p.qty <= 0
      <4> HIDE DEF m
      <4> QED
        BY <1>2, <2>2
    <3>1. wm = (s + add) * l * (2 * n - at)
      <4>1. wm = Size(m) * l * (2 * n - at)
        BY <1>2, <3>0, WorthOf
      <4> HIDE DEF m, wm, s, add, n
      <4> QED
        BY <1>2, <4>1
    <3>2. wp = s * l * (2 * a - at)
      BY <3>0, WorthOf
    <3>3. \E r \in Nat : r < s + add /\ (s + add) * n = (s * a + add * at) - r
      <4>1. CASE p.qty = 0
        <5>1. n = at /\ s = 0
          BY <1>1, <1>2, <4>1 DEF Moved, SameSide, Size
        <5>2. 0 * a = 0 /\ (0 + add) * at = (0 + add * at) - 0 /\ 0 < 0 + add
          <6> HIDE DEF add
          <6> QED
            BY <1>1
        <5> HIDE DEF s, n, a, add
        <5> QED
          BY <5>1, <5>2
      <4>2. CASE p.qty # 0
        <5> DEFINE sum == s * a + add * at
                   size == s + add
        <5>1. sum \in Nat /\ size \in Nat /\ size > 0
          <6> HIDE DEF s, add, a
          <6>1. s * a \in Nat /\ add * at \in Nat
            BY <1>1, ProductNat
          <6> QED
            BY <1>1, <6>1
        <5>2. n = sum \div size
          <6> DEFINE q == p.qty + delta
          <6>1. SameSide(p.qty, delta) /\ q # 0
            BY <1>1, <1>2, <4>2
          <6>2. (IF q < 0 THEN -q ELSE q) = size
            BY <1>2, <6>1 DEF Size
          <6> HIDE DEF size
          <6>3. Moved(p, delta, at)
                  = [qty |-> q, avg |-> (Size(p) * p.avg + add * at) \div size]
            BY <6>1, <6>2 DEF Moved
          <6> QED
            BY <6>3
        <5> HIDE DEF sum, size
        <5>3. \E r \in Nat : r < size /\ size * n = sum - r
          BY <5>1, <5>2, DivRest
        <5>4. sum = s * a + add * at /\ size = s + add
          BY DEF sum, size
        <5> HIDE DEF s, add, n, a
        <5>5. PICK r \in Nat : r < size /\ size * n = sum - r
          BY <5>3
        <5>6. r < s + add /\ (s + add) * n = (s * a + add * at) - r
          BY <5>4, <5>5
        <5> QED
          BY <5>6
      <4> QED
        BY <4>1, <4>2
    <3> HIDE DEF wm, wp, s, add, l, a, n
    <3>4. PICK r \in Nat : r < s + add /\ (s + add) * n = (s * a + add * at) - r
      BY <3>3
    <3>5. (s + add) * l * (2 * n - at) = s * l * (2 * a - at) + add * l * at - 2 * l * r
      <4>1. n \in Int
        BY <1>2
      <4> QED
        BY <1>1, <3>4, <4>1, ShortEnlarged
    <3>6. r <= s + add
      BY <1>1, <3>4
    <3> QED
      BY <3>1, <3>2, <3>5, <3>6
  <2> QED
    BY <1>2, <2>1, <2>2
<1>6. 2 * l * r \in Nat /\ 2 * l * r <= 2 * l * (s + add)
  <2> HIDE DEF l, s, add
  <2>1. 2 * l \in Nat
    BY <1>1
  <2> DEFINE k == 2 * l
  <2>2. k * r = r * k /\ k * (s + add) = (s + add) * k /\ k \in Nat /\ s + add \in Nat
    BY <1>1, <2>1
  <2> HIDE DEF k
  <2>3. r * k \in Nat /\ r * k <= (s + add) * k
    BY <1>5, <2>2, ProductNat, ProductMonotone
  <2> QED
    BY <2>2, <2>3 DEF k
<1>7. 2 * l * (s + add) = 2 * l * Size(m)
  BY <1>2
<1> DEFINE lost == 2 * l * r
           most == 2 * l * Size(m)
<1>8. lost \in Nat /\ most \in Int /\ lost <= most /\ wm = wp + paid - lost
  <2>1. most \in Int
    BY <1>1, <1>2, SizeType, Products
  <2> QED
    BY <1>5, <1>6, <1>7, <2>1
<1> HIDE DEF b, wp, wm, fee, paid, lost, most
<1>9. b + wm <= cash + wp - fee /\ b + wm >= (cash + wp - fee) - most
  BY <1>3, <1>4, <1>8
<1>10. b + wm <= (cash + wp - fee) /\ b + wm >= (cash + wp - fee) - 2 * Lot[t] * Size(m)
  <2>1. most = 2 * Lot[t] * Size(m)
    BY DEF most
  <2> HIDE DEF m
  <2> QED
    BY <1>9, <2>1
<1> QED
  BY <1>10 DEF b, wp, wm, fee

-------------------------------------------------------------------------------
(* What the officer is asked. *)

Decisions == [signal : Signals, size : Nat]
Contexts == [cash : Int, pos : [Tickers -> Position], nav : Int, price : Nat,
             openNav : Int, spent : Nat, history : SUBSET Int, session : Int,
             sigma : Nat, sound : BOOLEAN, done : SUBSET Steps]

LEMMA SettingsType ==
  /\ Settings.ALLOW_FLIP \in BOOLEAN
  /\ Settings.MAX_INSTRUMENT \in Nat /\ Settings.MAX_SECTOR \in Nat
  /\ Settings.MAX_TICK_BUY \in Nat /\ Settings.TRIM_MAX_PER_TICK \in Nat
  /\ Settings.LOCK_FRACTION \in Nat /\ Settings.PARTIAL_FRACTION \in Nat
  BY SettingsAssumption

-------------------------------------------------------------------------------
(* An order that reduces: at most what is held, on the side it is held.    *)

Reduces(v, p) ==
  /\ v \in Verdicts
  /\ v.op \in ReducingOps /\ v.open = 0 /\ v.close <= Size(p)
  /\ p.qty # 0 /\ (v.op \in Covers <=> p.qty < 0)

LEMMA TrimReduces ==
  ASSUME NEW t \in Tickers, NEW c \in Contexts, RiskTrim(t, c) # None
  PROVE  Reduces(RiskTrim(t, c), c.pos[t])
<1> DEFINE p == c.pos[t]
           value == Lot[t] * c.price
           kept == (Settings.MAX_INSTRUMENT * c.nav) \div (100 * value)
           most == (Settings.TRIM_MAX_PER_TICK * c.nav) \div (100 * value)
<1>1. /\ RiskTrim(t, c) = Trim(p, TrimLots(t, c))
      /\ c.price > 0 /\ c.nav > 0 /\ p.qty # 0 /\ TrimLots(t, c) > 0
  BY DEF RiskTrim
<1>2. p \in Position /\ Size(p) \in Nat /\ c.price \in Nat /\ c.nav \in Nat
  BY <1>1, SizeType DEF Contexts
<1>3. value \in Nat /\ value > 0
  BY <1>1, <1>2, LotType
<1>4. kept \in Nat /\ most \in Nat
  <2> HIDE DEF value
  <2>1. 100 * value \in Nat /\ 100 * value > 0
    BY <1>3
  <2>2. Settings.MAX_INSTRUMENT * c.nav \in Nat /\ Settings.TRIM_MAX_PER_TICK * c.nav \in Nat
    BY <1>2, SettingsType, ProductNat
  <2>3. QED
    BY <2>1, <2>2, DivNat
<1>5. TrimLots(t, c) = IF Settings.TRIM_MAX_PER_TICK > 0 /\ most > 0
                       THEN Least(Size(p) - kept, most) ELSE Size(p) - kept
  BY DEF TrimLots
<1>6. TrimLots(t, c) \in Nat /\ TrimLots(t, c) <= Size(p)
  <2> HIDE DEF kept, most, p
  <2>1. QED
    BY <1>1, <1>2, <1>4, <1>5 DEF Least
<1>7. QED
  BY <1>1, <1>2, <1>6
     DEF Reduces, Trim, Verdict, Verdicts, ReducingOps, Sells, Covers, Position, Size

LEMMA PartialQtyType ==
  ASSUME NEW size \in Nat, NEW fraction \in Nat
  PROVE  PartialQty(size, fraction) \in Nat /\ PartialQty(size, fraction) <= size
<1>1. CASE fraction = 0 \/ fraction >= 100
  BY <1>1 DEF PartialQty
<1>2. CASE fraction > 0 /\ fraction < 100
  <2> DEFINE m == size * fraction
  <2>1. m \in Nat /\ m <= size * 100
    BY <1>2, ProductNat
  <2>2. PartialQty(size, fraction) = (m + 99) \div 100
    BY <1>2 DEF PartialQty
  <2>3. m <= size * 99
    BY <1>2
  <2> HIDE DEF m
  <2>4. QED
    BY <2>1, <2>2, <2>3
<1>3. QED
  BY <1>1, <1>2

LEMMA ExitReduces ==
  ASSUME NEW t \in Tickers, NEW d \in Decisions, NEW c \in Contexts,
         RiskPnLExit(t, d, c) # None
  PROVE  Reduces(RiskPnLExit(t, d, c), c.pos[t])
<1> DEFINE p == c.pos[t]
           v == RiskPnLExit(t, d, c)
<1>1. p \in Position /\ Size(p) \in Nat
  BY SizeType DEF Contexts
<1>2. p.qty # 0
  BY DEF RiskPnLExit
<1>3. \/ v = StopLoss(p)
      \/ \E lots \in 0..Size(p), step \in Steps \cup {"none"} : v = TakeProfit(p, lots, step)
  <2>1. CASE v = StopLoss(p)
    BY <2>1
  <2>2. CASE v = TakeProfit(p, Size(p), "none")
    BY <2>2, <1>1
  <2>3. CASE v = ProfitLadder(t, d, c)
    <3>1. CASE v = TakeProfit(p, Size(p), "none")
      BY <3>1, <1>1
    <3>2. CASE v # TakeProfit(p, Size(p), "none")
      <4> DEFINE step == NextStep(p, d.signal, c.price, c.done)
                 lots == PartialQty(Size(p), StepFraction(step))
      <4>1. step \in Steps \cup {"none"}
        BY DEF NextStep, Steps
      <4>2. lots \in 0..Size(p)
        <5> HIDE DEF step, p
        <5>1. StepFraction(step) \in Nat
          BY SettingsType DEF StepFraction
        <5>2. lots \in Nat /\ lots <= Size(p)
          BY <1>1, <5>1, PartialQtyType
        <5> HIDE DEF lots
        <5>3. QED
          BY <1>1, <5>2
      <4>3. v # None
        OBVIOUS
      <4>4. v = TakeProfit(p, lots, step)
        <5>1. v = IF Reached(p, c.price, Settings.PROFIT_FULL)
                  THEN TakeProfit(p, Size(p), "none")
                  ELSE IF step # "none" /\ lots > 0 THEN TakeProfit(p, lots, step)
                                                    ELSE None
          BY <2>3, Zenon DEF ProfitLadder
        <5> HIDE DEF v, step, lots
        <5>2. QED
          BY <3>2, <4>3, <5>1
      <4>5. QED
        BY <4>1, <4>2, <4>4
    <3>3. QED
      BY <3>1, <3>2
  <2>4. QED
    BY <2>1, <2>2, <2>3 DEF RiskPnLExit
<1>4. QED
  BY <1>1, <1>2, <1>3
     DEF Reduces, StopLoss, TakeProfit, Verdict, Verdicts, ReducingOps, Sells, Covers, Position,
         Size
-------------------------------------------------------------------------------
(* An order that opens: the tick's budget has room for it, and it is on    *)
(* the side already held, or a flip that closes all of the other side.     *)

Enlarges(v, t, c) ==
  /\ v \in Verdicts /\ v.op \in OpeningOps /\ v.open > 0 /\ v.step = "none"
  /\ TickGate(c, TotalCost(t, v.open, c.price))
  /\ LET held == c.pos[t].qty
     IN  \/ /\ v.close = 0
            /\ \/ v.op \in {"open_long", "add_long"} /\ held >= 0
               \/ v.op \in {"open_short", "add_short"} /\ held <= 0
         \/ /\ Settings.ALLOW_FLIP /\ v.close = Size(c.pos[t])
            /\ \/ v.op = "flip_short_to_long" /\ held < 0
               \/ v.op = "flip_long_to_short" /\ held > 0

\* quantity_for_buy answers a number of lots, never a negative one.
LEMMA QuantityType ==
  ASSUME NEW cash \in Int, NEW num \in Int, NEW den \in Nat, den > 0,
         NEW price \in Nat, NEW lot \in Nat, lot > 0
  PROVE  QuantityForBuy(cash, num, den, price, lot) \in Nat
<1>1. CASE cash > 0 /\ num > 0 /\ price > 0
  <2>1. cash * num \in Nat
    BY <1>1, ProductNat
  <2>2. den * price \in Nat /\ den * price > 0
    BY <1>1, ProductNat
  <2>3. (den * price) * lot \in Nat /\ (den * price) * lot > 0
    <3> DEFINE m == den * price
    <3>1. m \in Nat /\ m > 0
      BY <2>2
    <3> HIDE DEF m
    <3>2. m * lot \in Nat /\ m * lot > 0
      BY <3>1, ProductNat
    <3>3. QED
      BY <3>2 DEF m
  <2>4. (cash * num) \div (den * price * lot) \in Nat
    <3> DEFINE a == cash * num
               b == den * price * lot
    <3>1. a \in Nat /\ b \in Nat /\ b > 0
      BY <2>1, <2>3
    <3> HIDE DEF a, b
    <3>2. a \div b \in Nat
      BY <3>1, DivNat
    <3>3. QED
      BY <3>2 DEF a, b
  <2>5. QED
    BY <1>1, <2>4 DEF QuantityForBuy
<1>2. CASE ~(cash > 0 /\ num > 0 /\ price > 0)
  BY <1>2 DEF QuantityForBuy
<1>3. QED
  BY <1>1, <1>2

\* effective_size is a number, whatever is held.
LEMMA EffectiveSizeType ==
  ASSUME NEW t \in Tickers, NEW d \in Decisions, NEW c \in Contexts, NEW flip \in BOOLEAN
  PROVE  EffectiveSize(t, d, c, flip) \in Int
<1>1. NavUnit(c) \in Nat /\ NavUnit(c) > 0
  BY DEF Contexts, NavUnit
<1>2. BaseValue(t, c, flip) \in Nat
  <2>1. Notional(t, Size(c.pos[t]), c.price) \in Nat
    <3>1. Size(c.pos[t]) \in Nat /\ c.price \in Nat
      BY SizeType DEF Contexts
    <3>2. QED
      BY <3>1, NotionalType
  <2>2. QED
    BY <2>1 DEF BaseValue
<1>3. SectorValue(t, c, flip) \in Int
  <2> DEFINE others == [u \in Tickers |->
                          IF u # t /\ Sector[u] = Sector[t]
                          THEN Notional(u, Size(c.pos[u]), c.pos[u].avg) ELSE 0]
  <2>1. \A u \in Tickers : Notional(u, Size(c.pos[u]), c.pos[u].avg) \in Nat
    <3> TAKE u \in Tickers
    <3>1. Size(c.pos[u]) \in Nat /\ c.pos[u].avg \in Nat
      BY SizeType DEF Contexts, Position
    <3>2. QED
      BY <3>1, NotionalType
  <2>2. others \in [Tickers -> Int]
    BY <2>1
  <2> HIDE DEF others
  <2>3. Total(others) \in Int
    BY <2>2, TotalType
  <2>4. SectorValue(t, c, flip) =
          IF c.nav <= 0 THEN 0 ELSE BaseValue(t, c, flip) + Total(others)
    BY DEF SectorValue, others
  <2>5. QED
    BY <1>2, <2>3, <2>4
<1>4. /\ d.size * NavUnit(c) \in Int
      /\ Settings.MAX_INSTRUMENT * NavUnit(c) \in Int
      /\ Settings.MAX_SECTOR * NavUnit(c) \in Int
  <2>1. d.size \in Nat
    BY DEF Decisions
  <2>2. QED
    BY <1>1, <2>1, SettingsType, ProductNat
<1> DEFINE asked == d.size * NavUnit(c)
           alone == Settings.MAX_INSTRUMENT * NavUnit(c)
           together == Settings.MAX_SECTOR * NavUnit(c)
<1>5. asked \in Int /\ alone \in Int /\ together \in Int
  BY <1>4
<1>6. EffectiveSize(t, d, c, flip) =
        Least(asked, Least(alone - 100 * BaseValue(t, c, flip),
                           together - 100 * SectorValue(t, c, flip)))
  BY DEF EffectiveSize
<1> HIDE DEF asked, alone, together
<1>7. QED
  BY <1>2, <1>3, <1>5, <1>6 DEF Least

\* What is left of an opening after every clip is a number of lots.
LEMMA OpenQtyType ==
  ASSUME NEW t \in Tickers, NEW d \in Decisions, NEW c \in Contexts, NEW flip \in BOOLEAN
  PROVE  OpenQty(t, d, c, flip) \in Int
<1> DEFINE desired == QuantityForBuy(c.cash, d.size, 100, c.price, Lot[t])
           bySize == QuantityForBuy(c.cash, EffectiveSize(t, d, c, flip),
                                    100 * NavUnit(c), c.price, Lot[t])
<1>1. /\ c.cash \in Int /\ c.price \in Nat /\ d.size \in Int
      /\ Size(c.pos[t]) \in Nat
  BY SizeType DEF Contexts, Decisions
<1>2. 100 * NavUnit(c) \in Nat /\ 100 * NavUnit(c) > 0
  BY DEF Contexts, NavUnit
<1>3. desired \in Nat
  <2>1. 100 \in Nat /\ 100 > 0 /\ Lot[t] \in Nat /\ Lot[t] > 0
    BY LotType
  <2>2. QED
    BY <1>1, <2>1, QuantityType, Zenon
<1>4. bySize \in Nat
  <2> DEFINE size == EffectiveSize(t, d, c, flip)
             unit == 100 * NavUnit(c)
  <2>1. size \in Int /\ unit \in Nat /\ unit > 0
    BY <1>2, EffectiveSizeType
  <2> HIDE DEF size, unit
  <2>2. QuantityForBuy(c.cash, size, unit, c.price, Lot[t]) \in Nat
    BY <1>1, <2>1, LotType, QuantityType
  <2>3. QED
    BY <2>2 DEF size, unit
<1>5. OpenQty(t, d, c, flip) =
        Least(bySize, IF (IF flip THEN desired - Size(c.pos[t]) ELSE desired) > 0
                      THEN IF flip THEN desired - Size(c.pos[t]) ELSE desired ELSE 0)
  BY DEF OpenQty
<1> HIDE DEF desired, bySize
<1>6. QED
  BY <1>1, <1>3, <1>4, <1>5 DEF Least

\* A signal on the side of the position, or without one, opens or blocks.
LEMMA OpenOrAddEnlarges ==
  ASSUME NEW t \in Tickers, NEW d \in Decisions, NEW c \in Contexts,
         d.signal # "HOLD", ~Against(d, c.pos[t]), OpenOrAdd(t, d, c) # Block
  PROVE  Enlarges(OpenOrAdd(t, d, c), t, c)
<1> DEFINE lots == OpenQty(t, d, c, FALSE)
           op == OpeningOp(d, c.pos[t])
           v == OpenOrAdd(t, d, c)
<1>1. /\ v = Verdict(op, 0, lots, "none")
      /\ lots > 0 /\ TickGate(c, TotalCost(t, lots, c.price))
  BY DEF OpenOrAdd, OpeningPasses
<1>2. lots \in Nat
  <2>1. lots \in Int
    BY OpenQtyType, Zenon
  <2>2. lots > 0
    BY <1>1
  <2> HIDE DEF lots
  <2>3. QED
    BY <2>1, <2>2
<1>3. d.signal \in {"BUY", "SELL"} /\ c.pos[t] \in Position
  BY DEF Decisions, Contexts, Signals
<1>4. \/ op \in {"open_long", "add_long"} /\ c.pos[t].qty >= 0
      \/ op \in {"open_short", "add_short"} /\ c.pos[t].qty <= 0
  BY <1>3 DEF OpeningOp, Against, Position
<1>5. op \in OpeningOps
  BY <1>4 DEF OpeningOps
<1>6. v.op = op /\ v.close = 0 /\ v.open = lots /\ v.step = "none" /\ v \in Verdicts
  <2> HIDE DEF lots, op, v
  <2>1. QED
    BY <1>1, <1>2, <1>5 DEF Verdict, Verdicts
<1> HIDE DEF lots, op, v
<1>7. Enlarges(v, t, c)
  BY <1>1, <1>4, <1>5, <1>6 DEF Enlarges
<1>8. QED
  BY <1>7 DEF v

\* A signal against the position closes within it, or flips all of it.
LEMMA CloseOrFlipSound ==
  ASSUME NEW t \in Tickers, NEW d \in Decisions, NEW c \in Contexts,
         Against(d, c.pos[t])
  PROVE  \/ Reduces(CloseOrFlip(t, d, c), c.pos[t])
         \/ Enlarges(CloseOrFlip(t, d, c), t, c)
<1> DEFINE p == c.pos[t]
           desired == QuantityForBuy(c.cash, d.size, 100, c.price, Lot[t])
           lots == OpenQty(t, d, c, TRUE)
           v == CloseOrFlip(t, d, c)
<1>1. p \in Position /\ Size(p) \in Nat /\ p.qty # 0
  BY SizeType DEF Contexts, Against, Position
<1>2. desired \in Nat
  <2>1. c.cash \in Int /\ c.price \in Nat /\ d.size \in Int
    BY DEF Contexts, Decisions
  <2>2. 100 \in Nat /\ 100 > 0 /\ Lot[t] \in Nat /\ Lot[t] > 0
    BY LotType
  <2>3. QED
    BY <2>1, <2>2, QuantityType, Zenon
<1>3. \A close \in 0..Size(p) :
        v = Verdict(ClosingOp(p), close, 0, "none") => Reduces(v, p)
  <2> HIDE DEF v, p
  <2>1. QED
    BY <1>1 DEF Reduces, Verdict, Verdicts, ClosingOp, ReducingOps, Sells, Covers, Position
<1>4. CASE desired <= Size(p) \/ ~Settings.ALLOW_FLIP
  <2> DEFINE close == IF desired > 0 THEN Least(desired, Size(p)) ELSE Size(p)
  <2>1. v = Verdict(ClosingOp(p), close, 0, "none")
    BY <1>4 DEF CloseOrFlip
  <2>2. close \in 0..Size(p)
    <3> HIDE DEF desired, p
    <3>1. QED
      BY <1>1, <1>2 DEF Least
  <2>3. QED
    BY <1>3, <2>1, <2>2
<1>5. CASE ~(desired <= Size(p) \/ ~Settings.ALLOW_FLIP) /\ ~OpeningPasses(t, d, c, TRUE)
  <2>1. v = Verdict(ClosingOp(p), Size(p), 0, "none")
    BY <1>5 DEF CloseOrFlip
  <2>2. Size(p) \in 0..Size(p)
    BY <1>1
  <2>3. QED
    BY <1>3, <2>1, <2>2
<1>6. CASE ~(desired <= Size(p) \/ ~Settings.ALLOW_FLIP) /\ OpeningPasses(t, d, c, TRUE)
  <2> DEFINE op == OpeningOp(d, p)
  <2>1. v = Verdict(op, Size(p), lots, "none") /\ Settings.ALLOW_FLIP
    BY <1>6 DEF CloseOrFlip
  <2>2. lots > 0 /\ TickGate(c, TotalCost(t, lots, c.price))
    BY <1>6 DEF OpeningPasses
  <2>3. lots \in Nat
    <3>1. lots \in Int
      BY OpenQtyType, Zenon
    <3>2. lots > 0
      BY <2>2
    <3> HIDE DEF lots
    <3>3. QED
      BY <3>1, <3>2
  <2>4. \/ op = "flip_short_to_long" /\ p.qty < 0
        \/ op = "flip_long_to_short" /\ p.qty > 0
    BY <1>1 DEF OpeningOp, Against, Position
  <2>5. op \in OpeningOps
    BY <2>4 DEF OpeningOps
  <2>6. /\ v.op = op /\ v.close = Size(p) /\ v.open = lots /\ v.step = "none"
        /\ v \in Verdicts
    <3> HIDE DEF lots, op, v, p
    <3>1. QED
      BY <1>1, <2>1, <2>3, <2>5 DEF Verdict, Verdicts
  <2> HIDE DEF lots, op, v
  <2>7. Enlarges(v, t, c)
    BY <2>1, <2>2, <2>4, <2>5, <2>6 DEF Enlarges
  <2>8. QED
    BY <2>7 DEF v
<1>7. QED
  BY <1>4, <1>5, <1>6

\* evaluate: the officer lets through nothing, a reduction of what is held, or
\* an opening for which the tick's budget has room.
THEOREM EvaluateSound ==
  ASSUME NEW t \in Tickers, NEW d \in Decisions, NEW c \in Contexts
  PROVE  \/ Evaluate(t, d, c) \in {Hold, Block}
         \/ Reduces(Evaluate(t, d, c), c.pos[t])
         \/ Enlarges(Evaluate(t, d, c), t, c)
<1>1. CASE RiskTrim(t, c) # None
  BY <1>1, TrimReduces DEF Evaluate
<1>2. CASE RiskTrim(t, c) = None /\ RiskPnLExit(t, d, c) # None
  BY <1>2, ExitReduces DEF Evaluate
<1>3. CASE RiskTrim(t, c) = None /\ RiskPnLExit(t, d, c) = None
  BY <1>3, OpenOrAddEnlarges, CloseOrFlipSound DEF Evaluate
<1>4. QED
  BY <1>1, <1>2, <1>3

-------------------------------------------------------------------------------
(* What an opening that passes its gates has passed. *)

\* An order that opens has passed every gate, and a flip has the signal's side.
LEMMA OpeningPassed ==
  ASSUME NEW t \in Tickers, NEW d \in Decisions, NEW c \in Contexts,
         Evaluate(t, d, c).op \in OpeningOps
  PROVE  /\ \E flip \in BOOLEAN :
              /\ OpeningPasses(t, d, c, flip)
              /\ Evaluate(t, d, c).open = OpenQty(t, d, c, flip)
              /\ Evaluate(t, d, c).close = (IF flip THEN Size(c.pos[t]) ELSE 0)
              /\ d.signal # "HOLD" /\ (flip <=> Against(d, c.pos[t]))
         /\ Evaluate(t, d, c).op = "flip_short_to_long" => d.signal = "BUY"
         /\ Evaluate(t, d, c).op = "flip_long_to_short" => d.signal # "BUY"
<1>1. OpeningOps \cap ReducingOps = {}
  BY DEF OpeningOps, ReducingOps, Sells, Covers
<1>2. RiskTrim(t, c) = None
  BY <1>1, TrimReduces DEF Evaluate, Reduces
<1>3. RiskPnLExit(t, d, c) = None
  BY <1>1, <1>2, ExitReduces DEF Evaluate, Reduces
<1>4. CASE Against(d, c.pos[t])
  <2>1. Evaluate(t, d, c) = CloseOrFlip(t, d, c)
    <3>1. d.signal # "HOLD"
      BY <1>4 DEF Against
    <3> QED
      BY <1>2, <1>3, <1>4, <3>1 DEF Evaluate
  <2>2. ClosingOp(c.pos[t]) \notin OpeningOps
    BY DEF ClosingOp, OpeningOps
  <2>3. /\ OpeningPasses(t, d, c, TRUE)
        /\ Evaluate(t, d, c).op = OpeningOp(d, c.pos[t])
        /\ Evaluate(t, d, c).open = OpenQty(t, d, c, TRUE)
        /\ Evaluate(t, d, c).close = Size(c.pos[t])
    <3>1. \/ CloseOrFlip(t, d, c).op = ClosingOp(c.pos[t])
          \/ /\ OpeningPasses(t, d, c, TRUE) /\ CloseOrFlip(t, d, c).op = OpeningOp(d, c.pos[t])
             /\ CloseOrFlip(t, d, c).open = OpenQty(t, d, c, TRUE)
             /\ CloseOrFlip(t, d, c).close = Size(c.pos[t])
      BY DEF CloseOrFlip, Verdict
    <3> QED
      BY <2>1, <2>2, <3>1
  <2>4. d.signal # "HOLD"
    BY <1>4 DEF Against
  <2> QED
    BY <1>4, <2>3, <2>4 DEF OpeningOp
<1>5. CASE ~Against(d, c.pos[t])
  <2>1. Evaluate(t, d, c) \in {Hold, OpenOrAdd(t, d, c)}
    BY <1>2, <1>3, <1>5 DEF Evaluate
  <2>2. Hold.op \notin OpeningOps /\ Block.op \notin OpeningOps
    BY DEF Hold, Block, Verdict, OpeningOps
  <2>3. /\ OpeningPasses(t, d, c, FALSE)
        /\ Evaluate(t, d, c).op = OpeningOp(d, c.pos[t])
        /\ Evaluate(t, d, c).open = OpenQty(t, d, c, FALSE)
        /\ Evaluate(t, d, c).close = 0
    <3>1. \/ OpenOrAdd(t, d, c) = Block
          \/ /\ OpeningPasses(t, d, c, FALSE) /\ OpenOrAdd(t, d, c).op = OpeningOp(d, c.pos[t])
             /\ OpenOrAdd(t, d, c).open = OpenQty(t, d, c, FALSE)
             /\ OpenOrAdd(t, d, c).close = 0
      BY DEF OpenOrAdd, Verdict
    <3> QED
      BY <2>1, <2>2, <3>1
  <2>4. d.signal # "HOLD"
    BY <1>2, <1>3, <2>2 DEF Evaluate
  <2> QED
    BY <1>5, <2>3, <2>4 DEF OpeningOp
<1> QED
  BY <1>4, <1>5

LEMMA BudgetSign ==
  ASSUME NEW most \in Nat, NEW worth \in Int, NEW amount \in Nat,
         100 * amount <= most * worth
  PROVE  /\ 100 * amount <= most * (IF worth > 0 THEN worth ELSE 0)
         /\ amount > 0 => worth > 0
<1>1. CASE worth > 0
  BY <1>1
<1>2. CASE ~(worth > 0)
  <2>1. (-worth) * most \in Nat
    BY <1>2, ProductNat
  <2>2. (-worth) * most = -(most * worth) /\ most * worth \in Int /\ most * 0 = 0
    OBVIOUS
  <2>3. most * worth <= 0
    BY <2>1, <2>2
  <2> DEFINE x == most * worth
  <2>4. x \in Int /\ x <= 0 /\ 100 * amount <= x
    BY <2>2, <2>3
  <2> HIDE DEF x
  <2>5. amount = 0
    BY <2>4
  <2> QED
    BY <1>2, <2>2, <2>5
<1> QED
  BY <1>1, <1>2

\* A share of NAV that is applied to less cash than NAV buys no more than it.
LEMMA QuantityBound ==
  ASSUME NEW money \in Int, NEW num \in Int, NEW worth \in Nat, worth > 0, money <= worth,
         NEW at \in Nat, NEW lot \in Nat, lot > 0,
         QuantityForBuy(money, num, 100 * worth, at, lot) > 0
  PROVE  100 * (QuantityForBuy(money, num, 100 * worth, at, lot) * lot * at) <= num
<1> DEFINE q == QuantityForBuy(money, num, 100 * worth, at, lot)
           whole == 100 * worth * at * lot
           part == 100 * (q * lot * at)
<1>1. money > 0 /\ num > 0 /\ at > 0 /\ q = (money * num) \div whole
  BY DEF QuantityForBuy
<1>2. money * num \in Nat /\ worth * num \in Nat /\ money * num <= worth * num
  BY <1>1, ProductNat, ProductMonotone
<1>3. whole \in Nat /\ whole > 0
  <2>1. 100 * worth \in Nat /\ 100 * worth > 0
    OBVIOUS
  <2>2. \A a, b \in Nat : a > 0 /\ b > 0 => a * b \in Nat /\ a * b > 0
    OBVIOUS
  <2>3. 100 * worth * at \in Nat /\ 100 * worth * at > 0
    BY <1>1, <2>1, <2>2
  <2> QED
    BY <2>2, <2>3
<1>4. q \in Nat /\ q * whole <= money * num
  <2> HIDE DEF whole, q
  <2>1. (money * num) \div whole \in Nat /\ ((money * num) \div whole) * whole <= money * num
    BY <1>2, <1>3, DivNat, DivBound
  <2> QED
    BY <1>1, <2>1
<1>5. q * whole = worth * part /\ part \in Int
  <2> HIDE DEF q
  <2>1. q * (100 * worth * at * lot) = worth * (100 * (q * lot * at))
    BY <1>4
  <2>2. 100 * (q * lot * at) \in Int
    BY <1>4, Products
  <2> QED
    BY <2>1, <2>2
<1>6. worth * part <= worth * num
  <2> DEFINE x == q * whole
             y == money * num
             z == worth * num
  <2>1. x <= y /\ y <= z /\ x \in Int /\ y \in Int /\ z \in Int
    <3> HIDE DEF q, whole
    <3> QED
      BY <1>2, <1>3, <1>4, ProductInt
  <2> HIDE DEF x, y, z
  <2>2. x <= z
    BY <2>1
  <2> QED
    BY <1>5, <2>2 DEF x, z
<1> HIDE DEF part
<1>7. part <= num
  BY <1>5, <1>6, Cancel
<1> QED
  BY <1>7 DEF part

\* The lots that are opened fit into the room under the caps.
LEMMA OpeningFits ==
  ASSUME NEW t \in Tickers, NEW d \in Decisions, NEW c \in Contexts, NEW flip \in BOOLEAN,
         OpeningPasses(t, d, c, flip), c.cash <= c.nav
  PROVE  LET amount == Notional(t, OpenQty(t, d, c, flip), c.price)
         IN  /\ OpenQty(t, d, c, flip) > 0 /\ OpenQty(t, d, c, flip) \in Nat /\ c.nav > 0
             /\ 100 * amount <= Settings.MAX_INSTRUMENT * c.nav - 100 * BaseValue(t, c, flip)
             /\ 100 * amount <= Settings.MAX_SECTOR * c.nav - 100 * SectorValue(t, c, flip)
<1> DEFINE eff == EffectiveSize(t, d, c, flip)
           bySize == QuantityForBuy(c.cash, eff, 100 * NavUnit(c), c.price, Lot[t])
           q == OpenQty(t, d, c, flip)
           room1 == Settings.MAX_INSTRUMENT * NavUnit(c) - 100 * BaseValue(t, c, flip)
           room2 == Settings.MAX_SECTOR * NavUnit(c) - 100 * SectorValue(t, c, flip)
<1>1. /\ c.cash \in Int /\ c.nav \in Int /\ c.price \in Nat /\ c.pos[t] \in Position
      /\ Lot[t] \in Nat /\ Lot[t] > 0 /\ d.size \in Nat
  BY LotType DEF Contexts, Decisions
<1>2. q > 0 /\ q \in Int /\ eff \in Int
  BY OpenQtyType, EffectiveSizeType DEF OpeningPasses
<1>3. q <= bySize /\ bySize \in Int
  <2>1. NavUnit(c) \in Nat /\ NavUnit(c) > 0
    BY <1>1 DEF NavUnit
  <2>2. 100 * NavUnit(c) \in Nat /\ 100 * NavUnit(c) > 0
    BY <2>1
  <2>3. bySize \in Nat
    <3> HIDE DEF eff
    <3> QED
      BY <1>1, <1>2, <2>2, QuantityType
  <2>4. \E x : q = Least(bySize, IF x > 0 THEN x ELSE 0) /\ x \in Int
    <3>1. QuantityForBuy(c.cash, d.size, 100, c.price, Lot[t]) \in Nat
      <4>1. 100 \in Nat /\ 100 > 0 /\ d.size \in Int
        BY <1>1
      <4> QED
        BY <1>1, <4>1, QuantityType
    <3>2. Size(c.pos[t]) \in Nat
      BY <1>1, SizeType
    <3> DEFINE x == IF flip THEN QuantityForBuy(c.cash, d.size, 100, c.price, Lot[t]) - Size(c.pos[t])
                            ELSE QuantityForBuy(c.cash, d.size, 100, c.price, Lot[t])
    <3>3. x \in Int
      BY <3>1, <3>2
    <3>4. q = Least(bySize, IF x > 0 THEN x ELSE 0)
      BY DEF OpenQty
    <3> QED
      BY <3>3, <3>4
  <2> HIDE DEF q, bySize
  <2> QED
    BY <2>3, <2>4 DEF Least
<1>4. bySize > 0
  <2> HIDE DEF q, bySize
  <2> QED
    BY <1>2, <1>3
<1>5. c.cash > 0
  BY <1>4 DEF QuantityForBuy
<1>6. c.nav > 0 /\ c.nav \in Nat /\ NavUnit(c) = c.nav
  BY <1>1, <1>5 DEF NavUnit
<1>7. 100 * (bySize * Lot[t] * c.price) <= eff
  <2> HIDE DEF eff
  <2> QED
    BY <1>1, <1>2, <1>4, <1>6, QuantityBound
<1>8. 100 * Notional(t, q, c.price) <= eff
  <2> HIDE DEF q, bySize, eff
  <2>1. q \in Nat /\ bySize \in Nat
    BY <1>2, <1>3
  <2>2. /\ Notional(t, q, c.price) <= Notional(t, bySize, c.price)
        /\ Notional(t, q, c.price) \in Nat /\ Notional(t, bySize, c.price) \in Nat
    BY <1>1, <1>3, <2>1, NotionalMonotone, NotionalType
  <2>3. 100 * Notional(t, bySize, c.price) <= eff
    BY <1>7 DEF Notional
  <2> QED
    BY <1>2, <2>2, <2>3
<1>9. room1 \in Int /\ room2 \in Int
  <2>1. BaseValue(t, c, flip) \in Int
    <3>1. Size(c.pos[t]) \in Nat
      BY <1>1, SizeType
    <3>2. Notional(t, Size(c.pos[t]), c.price) \in Nat
      BY <1>1, <3>1, NotionalType
    <3> QED
      BY <3>2 DEF BaseValue
  <2>2. SectorValue(t, c, flip) \in Int
    <3> DEFINE other == [u \in Tickers |-> IF u # t /\ Sector[u] = Sector[t]
                                           THEN Notional(u, Size(c.pos[u]), c.pos[u].avg) ELSE 0]
    <3>1. ASSUME NEW u \in Tickers
          PROVE  Notional(u, Size(c.pos[u]), c.pos[u].avg) \in Nat
      <4>1. c.pos[u] \in Position
        BY DEF Contexts
      <4>2. Size(c.pos[u]) \in Nat /\ c.pos[u].avg \in Nat
        BY <4>1, SizeType DEF Position
      <4> QED
        BY <4>2, NotionalType
    <3>2. other \in [Tickers -> Int]
      BY <3>1
    <3>3. Total(other) \in Int
      BY <3>2, TotalType
    <3>4. SectorValue(t, c, flip) = IF c.nav <= 0 THEN 0 ELSE BaseValue(t, c, flip) + Total(other)
      BY DEF SectorValue
    <3> HIDE DEF other
    <3> QED
      BY <2>1, <3>3, <3>4
  <2>3. /\ Settings.MAX_INSTRUMENT * NavUnit(c) \in Int
        /\ Settings.MAX_SECTOR * NavUnit(c) \in Int
    BY <1>6, SettingsType, ProductNat
  <2> QED
    BY <2>1, <2>2, <2>3
<1>10. eff <= room1 /\ eff <= room2
  <2>1. \E z \in Int : eff = Least(z, Least(room1, room2))
    <3>1. d.size * NavUnit(c) \in Int
      BY <1>1, <1>6, ProductInt
    <3>2. eff = Least(d.size * NavUnit(c), Least(room1, room2))
      BY DEF EffectiveSize
    <3> QED
      BY <3>1, <3>2
  <2> HIDE DEF eff, room1, room2
  <2> QED
    BY <1>9, <2>1 DEF Least
<1>11. 100 * Notional(t, q, c.price) <= room1 /\ 100 * Notional(t, q, c.price) <= room2
  <2>1. Notional(t, q, c.price) \in Nat
    <3> HIDE DEF q
    <3>1. q \in Nat
      BY <1>2
    <3> QED
      BY <1>1, <3>1, NotionalType
  <2> DEFINE amount == Notional(t, q, c.price)
  <2>2. amount \in Nat /\ 100 * amount <= eff
    BY <1>8, <2>1
  <2> HIDE DEF amount, eff, room1, room2
  <2>3. 100 * amount <= room1 /\ 100 * amount <= room2
    BY <1>2, <1>9, <1>10, <2>2
  <2> QED
    BY <2>3 DEF amount
<1> QED
  BY <1>2, <1>6, <1>11

\* What has not lost MAX_DRAWDOWN against the peak has not lost it against any
\* NAV below the peak.
LEMMA BelowPeak ==
  ASSUME NEW dd \in 0..100, NEW peak \in Int, NEW e \in Int, NEW worth \in Int,
         e <= peak, 100 * (peak - worth) < dd * peak
  PROVE  100 * (e - worth) < dd * e
<1> DEFINE x == dd * peak
           y == dd * e
<1>1. (100 - dd) * (peak - e) \in Nat
  BY ProductNat
<1>2. (100 - dd) * (peak - e) = 100 * peak - 100 * e - x + y
  OBVIOUS
<1>3. x \in Int /\ y \in Int
  BY ProductInt
<1>4. 100 * (peak - worth) < x
  OBVIOUS
<1>5. 100 * peak - 100 * e - x + y >= 0
  BY <1>1, <1>2
<1> HIDE DEF x, y
<1>6. 100 * (e - worth) < y
  BY <1>3, <1>4, <1>5
<1> QED
  BY <1>6 DEF y

\* With something held, the kill switch compares with every NAV of the history.
LEMMA DrawdownGate ==
  ASSUME NEW c \in Contexts, NEW q \in Seq(Int), NEW D \in SUBSET DOMAIN q,
         c.history = {q[j] : j \in D}, \E u \in Tickers : c.pos[u].qty # 0,
         ~KillSwitchMdd(c), Settings.MAX_DRAWDOWN <= 100,
         NEW i \in D, c.nav > 0 \/ q[i] > 0
  PROVE  100 * (q[i] - c.nav) < Settings.MAX_DRAWDOWN * q[i]
<1> DEFINE S == {q[j] : j \in D} \cup {c.nav}
           dd == Settings.MAX_DRAWDOWN
           e == q[i]
           peak == Peak(c)
<1>1. c.nav \in Int /\ e \in Int /\ dd \in 0..100 /\ dd \in Int
  <2>1. dd \in Nat
    BY SettingsAssumption
  <2>2. c.nav \in Int
    BY DEF Contexts
  <2>3. e \in Int
    OBVIOUS
  <2>4. dd <= 100
    OBVIOUS
  <2> HIDE DEF dd, e
  <2>5. dd \in 0..100 /\ dd \in Int
    BY <2>1, <2>4
  <2> QED
    BY <2>2, <2>3, <2>5
<1>2. peak \in Int /\ peak >= c.nav /\ peak >= e
  <2>1. Max(S) \in S /\ \A y \in S : Max(S) >= y
    BY <1>1, MaxExists
  <2>2. c.nav \in S /\ e \in S /\ \A y \in S : y \in Int
    BY <1>1
  <2>3. peak = Max(S)
    BY DEF Peak
  <2> HIDE DEF S, peak, e
  <2> QED
    BY <2>1, <2>2, <2>3
<1>3. peak > 0
  <2> HIDE DEF peak
  <2> QED
    BY <1>1, <1>2
<1>4. ~(100 * (peak - c.nav) >= dd * peak)
  BY <1>3 DEF KillSwitchMdd
<1>5. 100 * (peak - c.nav) < dd * peak
  <2>1. dd * peak \in Int
    <3> HIDE DEF dd, peak
    <3> QED
      BY <1>1, <1>2, ProductInt
  <2> DEFINE x == dd * peak
  <2>2. x \in Int /\ ~(100 * (peak - c.nav) >= x)
    BY <1>4, <2>1
  <2> HIDE DEF x, peak
  <2>3. 100 * (peak - c.nav) < x
    BY <1>1, <1>2, <2>2
  <2> QED
    BY <2>3 DEF x
<1> HIDE DEF peak, e, dd
<1>6. 100 * (e - c.nav) < dd * e
  BY <1>1, <1>2, <1>5, BelowPeak
<1> QED
  BY <1>6 DEF e, dd

\* With the lots that are opened the ticker, and its sector, stay within the caps.
LEMMA CapsGate ==
  ASSUME NEW t \in Tickers, NEW d \in Decisions, NEW c \in Contexts, NEW flip \in BOOLEAN,
         OpeningPasses(t, d, c, flip), c.cash <= c.nav
  PROVE  LET lots == IF flip THEN OpenQty(t, d, c, flip)
                             ELSE Size(c.pos[t]) + OpenQty(t, d, c, flip)
             held == Notional(t, lots, c.price)
             others == Total([u \in Tickers |->
                         IF u # t /\ Sector[u] = Sector[t]
                         THEN Notional(u, Size(c.pos[u]), c.pos[u].avg) ELSE 0])
         IN  /\ OpenQty(t, d, c, flip) \in Nat /\ OpenQty(t, d, c, flip) > 0
             /\ 100 * held <= Settings.MAX_INSTRUMENT * c.nav
             /\ 100 * (held + others) <= Settings.MAX_SECTOR * c.nav
<1> DEFINE open == OpenQty(t, d, c, flip)
           p == c.pos[t]
           amount == Notional(t, open, c.price)
           base == BaseValue(t, c, flip)
           other == [u \in Tickers |-> IF u # t /\ Sector[u] = Sector[t]
                                       THEN Notional(u, Size(c.pos[u]), c.pos[u].avg) ELSE 0]
           lots == IF flip THEN open ELSE Size(p) + open
<1>1. /\ open > 0 /\ open \in Nat /\ c.nav > 0
      /\ 100 * amount <= Settings.MAX_INSTRUMENT * c.nav - 100 * base
      /\ 100 * amount <= Settings.MAX_SECTOR * c.nav - 100 * SectorValue(t, c, flip)
  BY OpeningFits
<1>2. p \in Position /\ c.price \in Nat /\ c.nav \in Nat
  BY <1>1 DEF Contexts
<1>3. Size(p) \in Nat
  BY <1>2, SizeType
<1>4. Notional(t, lots, c.price) = base + amount /\ base \in Nat /\ amount \in Nat
  <2> HIDE DEF open, p
  <2>1. amount \in Nat /\ Notional(t, Size(p), c.price) \in Nat
    BY <1>1, <1>2, <1>3, NotionalType
  <2>2. base = IF flip THEN 0 ELSE Notional(t, Size(p), c.price)
    BY <1>1, <1>2 DEF BaseValue, p
  <2>3. CASE flip
    <3> HIDE DEF base, amount
    <3>1. Notional(t, lots, c.price) = amount
      BY <2>3 DEF amount
    <3> QED
      BY <2>1, <2>2, <2>3, <3>1
  <2>4. CASE ~flip
    <3>1. Notional(t, Size(p) + open, c.price) = Notional(t, Size(p), c.price) + amount
      BY <1>1, <1>2, <1>3, NotionalAdds
    <3>2. lots = Size(p) + open
      BY <2>4
    <3> HIDE DEF base, amount, lots
    <3> QED
      BY <2>1, <2>2, <2>4, <3>1, <3>2
  <2> QED
    BY <2>3, <2>4
<1>5. SectorValue(t, c, flip) = base + Total(other)
  BY <1>1, <1>2 DEF SectorValue
<1>6. Total(other) \in Int
  <2>1. ASSUME NEW u \in Tickers PROVE Notional(u, Size(c.pos[u]), c.pos[u].avg) \in Nat
    <3>1. c.pos[u] \in Position
      BY DEF Contexts
    <3>2. Size(c.pos[u]) \in Nat /\ c.pos[u].avg \in Nat
      BY <3>1, SizeType DEF Position
    <3> QED
      BY <3>2, NotionalType
  <2>2. other \in [Tickers -> Int]
    BY <2>1
  <2> QED
    BY <2>2, TotalType
<1> DEFINE sum == Total(other)
           held == Notional(t, lots, c.price)
           top1 == Settings.MAX_INSTRUMENT * c.nav
           top2 == Settings.MAX_SECTOR * c.nav
<1>7. /\ held = base + amount /\ base \in Nat /\ amount \in Nat /\ sum \in Int
      /\ top1 \in Int /\ top2 \in Int
      /\ 100 * amount <= top1 - 100 * base /\ 100 * amount <= top2 - 100 * (base + sum)
  <2>1. top1 \in Int /\ top2 \in Int
    BY <1>2, SettingsType, ProductInt
  <2> HIDE DEF base, amount, other, lots
  <2> QED
    BY <1>1, <1>4, <1>5, <1>6, <2>1
<1>8. 100 * held <= top1 /\ 100 * (held + sum) <= top2
  <2> HIDE DEF held, base, amount, sum, top1, top2
  <2> QED
    BY <1>7
<1> HIDE DEF open
<1> QED
  BY <1>1, <1>8 DEF open

\* A ladder step is ordered by a reduction, and only when it was not taken yet.
LEMMA StepNotTaken ==
  ASSUME NEW t \in Tickers, NEW d \in Decisions, NEW c \in Contexts,
         Evaluate(t, d, c).step # "none"
  PROVE  Evaluate(t, d, c).step \notin c.done
<1> DEFINE p == c.pos[t]
           step == NextStep(p, d.signal, c.price, c.done)
<1>1. \A op, close, open : Verdict(op, close, open, "none").step = "none"
  BY DEF Verdict
<1>2. RiskTrim(t, c) = None \/ RiskTrim(t, c).step = "none"
  BY <1>1 DEF RiskTrim, Trim
<1>3. Hold.step = "none" /\ CloseOrFlip(t, d, c).step = "none"
      /\ OpenOrAdd(t, d, c).step = "none"
  BY <1>1 DEF Hold, Block, CloseOrFlip, OpenOrAdd
<1>4. Evaluate(t, d, c) = RiskPnLExit(t, d, c) /\ RiskPnLExit(t, d, c) # None
  BY <1>2, <1>3 DEF Evaluate
<1>5. RiskPnLExit(t, d, c) = ProfitLadder(t, d, c)
  BY <1>1, <1>4 DEF RiskPnLExit, StopLoss, TakeProfit
<1>6. \/ ProfitLadder(t, d, c).step = "none"
      \/ ProfitLadder(t, d, c).step = step /\ step # "none"
  <2> HIDE DEF step
  <2> QED
    BY <1>1, <1>4, <1>5, Zenon DEF ProfitLadder, TakeProfit, Verdict, step
<1>7. step # "none" => step \notin c.done
  BY DEF NextStep
<1> QED
  BY <1>4, <1>5, <1>6, <1>7
===============================================================================
