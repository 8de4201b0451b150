------------------------------- MODULE MoneyProofs -------------------------------
(***************************************************************************)
(* For every base, and every width of the integers that holds an amount:   *)
(*                                                                         *)
(* Addition, subtraction and negation of amounts are exact or refused: the *)
(* guards compute nothing that wraps, and let nothing through that does.   *)
(*                                                                         *)
(* A text is read as the number its digits stand for by their places, or   *)
(* refused for its form, its sign or its magnitude; and the text written   *)
(* for an amount is read back as that amount.  The loops are recursive     *)
(* functions here.  That they have values at all, and which, is proved by  *)
(* induction over the digits: no number is the least that fails, since the *)
(* order of the naturals is well-founded.                                  *)
(***************************************************************************)
EXTENDS Money, WellFoundedInduction, TLAPS

\* What fits does not wrap.
LEMMA WrappedIsIdentity ==
  ASSUME NEW n \in Units
  PROVE  Wrapped(n) = n
<1>1. MaxInt \in Nat /\ n \in Int /\ -MaxInt - 1 <= n /\ n <= MaxInt
  BY WidthAssumption DEF Units, MinInt
<1>2. \A k, x \in Nat : x < k => x % k = x
  OBVIOUS
<1>3. n + MaxInt + 1 \in Nat /\ n + MaxInt + 1 < 2 * (MaxInt + 1) /\ 2 * (MaxInt + 1) \in Nat
  BY <1>1
<1>4. (n + MaxInt + 1) % (2 * (MaxInt + 1)) = n + MaxInt + 1
  BY <1>2, <1>3
<1> QED
  BY <1>1, <1>4 DEF Wrapped

\* A sum fits exactly when the guard of Add lets it through.
LEMMA AddGuard ==
  ASSUME NEW x \in Units, NEW y \in Units
  PROVE  x + y \in Units <=> /\ ~(y > 0 /\ x > Wrapped(MaxInt - y))
                             /\ ~(y < 0 /\ x < Wrapped(MinInt - y))
<1>1. MaxInt \in Nat /\ x \in Int /\ y \in Int
  BY WidthAssumption DEF Units, MinInt
\* What the guard compares with does not wrap itself.
<1>2. y > 0 => Wrapped(MaxInt - y) = MaxInt - y
  <2>1. y > 0 => MaxInt - y \in Units
    BY <1>1 DEF Units, MinInt
  <2> QED
    BY <2>1, WrappedIsIdentity
<1>3. y < 0 => Wrapped(MinInt - y) = MinInt - y
  <2>1. y < 0 => MinInt - y \in Units
    BY <1>1 DEF Units, MinInt
  <2> QED
    BY <2>1, WrappedIsIdentity
<1>4. x + y \in Units <=> ~(y > 0 /\ x > MaxInt - y) /\ ~(y < 0 /\ x < MinInt - y)
  BY <1>1 DEF Units, MinInt
<1> QED
  BY <1>2, <1>3, <1>4

LEMMA AddIsExact ==
  ASSUME NEW a, NEW b, a.units \in Units, b.units \in Units, Mismatch(a, b) = ""
  PROVE  Add(a, b) = IF a.units + b.units \in Units THEN Ok(a.units + b.units)
                     ELSE Fail("AMOUNT_OVERFLOW")
  BY AddGuard, WrappedIsIdentity DEF Add

\* A difference fits exactly when the guard of Sub lets it through.
LEMMA SubGuard ==
  ASSUME NEW x \in Units, NEW y \in Units
  PROVE  x - y \in Units <=> /\ ~(y < 0 /\ x > Wrapped(MaxInt + y))
                             /\ ~(y > 0 /\ x < Wrapped(MinInt + y))
<1>1. MaxInt \in Nat /\ x \in Int /\ y \in Int
  BY WidthAssumption DEF Units, MinInt
\* What the guard compares with does not wrap itself.
<1>2. y < 0 => Wrapped(MaxInt + y) = MaxInt + y
  <2>1. y < 0 => MaxInt + y \in Units
    BY <1>1 DEF Units, MinInt
  <2> QED
    BY <2>1, WrappedIsIdentity
<1>3. y > 0 => Wrapped(MinInt + y) = MinInt + y
  <2>1. y > 0 => MinInt + y \in Units
    BY <1>1 DEF Units, MinInt
  <2> QED
    BY <2>1, WrappedIsIdentity
<1>4. x - y \in Units <=> ~(y < 0 /\ x > MaxInt + y) /\ ~(y > 0 /\ x < MinInt + y)
  BY <1>1 DEF Units, MinInt
<1> QED
  BY <1>2, <1>3, <1>4

LEMMA SubIsExact ==
  ASSUME NEW a, NEW b, a.units \in Units, b.units \in Units, Mismatch(a, b) = ""
  PROVE  Sub(a, b) = IF a.units - b.units \in Units THEN Ok(a.units - b.units)
                     ELSE Fail("AMOUNT_OVERFLOW")
  BY SubGuard, WrappedIsIdentity DEF Sub

\* Only the smallest integer has no negation.
LEMMA NegGuard ==
  ASSUME NEW x \in Units
  PROVE  -x \in Units <=> x # MinInt
<1>1. MaxInt \in Nat /\ x \in Int
  BY WidthAssumption DEF Units, MinInt
<1> QED
  BY <1>1 DEF Units, MinInt

LEMMA NegIsExact ==
  ASSUME NEW a, a.units \in Units, a.currency # ""
  PROVE  Neg(a) = IF -a.units \in Units THEN Ok(-a.units) ELSE Fail("AMOUNT_OVERFLOW")
  BY NegGuard, WrappedIsIdentity DEF Neg

-----------------------------------------------------------------------------

\* What the caller gets of an operation whose result is exact or refused.
LEMMA ResultIsExact ==
  ASSUME NEW exact, NEW result, NEW currency, Becomes(result, currency),
         result = IF exact \in Units THEN Ok(exact) ELSE Fail("AMOUNT_OVERFLOW")
  PROVE  Exactly(exact)
<1>1. CASE exact \in Units
  BY <1>1 DEF Becomes, Exactly, Ok
<1>2. CASE exact \notin Units
  BY <1>2 DEF Becomes, Exactly, Fail
<1> QED
  BY <1>1, <1>2

LEMMA StepIsExact ==
  ASSUME value \in Amounts
  PROVE  /\ \A m \in Operands : m.currency = value.currency =>
              /\ Plus(m) => Exactly(value.units + m.units)
              /\ Minus(m) => Exactly(value.units - m.units)
         /\ Negated => Exactly(-value.units)
<1>1. value.units \in Units /\ value.currency # ""
  BY InputAssumption DEF Amounts
<1>2. ASSUME NEW m \in Operands, m.currency = value.currency
      PROVE  m.units \in Units /\ Mismatch(value, m) = ""
  BY <1>1, <1>2, InputAssumption DEF Units, MinInt, Mismatch
<1>3. ASSUME NEW m \in Operands, m.currency = value.currency
      PROVE  Plus(m) => Exactly(value.units + m.units)
  BY <1>1, <1>2, <1>3, AddIsExact, ResultIsExact DEF Plus
<1>4. ASSUME NEW m \in Operands, m.currency = value.currency
      PROVE  Minus(m) => Exactly(value.units - m.units)
  BY <1>1, <1>2, <1>4, SubIsExact, ResultIsExact DEF Minus
<1>5. Negated => Exactly(-value.units)
  BY <1>1, NegIsExact, ResultIsExact DEF Negated
<1> QED
  BY <1>3, <1>4, <1>5

\* Add, Sub and Neg: whatever the width, results are exact or refused.
THEOREM ArithmeticExact == Spec => ArithmeticIsExact
  BY StepIsExact, PTL DEF ArithmeticIsExact

-----------------------------------------------------------------------------
(* Recursion and division *)

LEMMA Induction ==
  ASSUME NEW n \in Nat, NEW S, 0 \in S, \A i \in 1..n : i - 1 \in S => i \in S
  PROVE  0..n \subseteq S
<1> SUFFICES ASSUME 0..n \ S # {} PROVE FALSE
  OBVIOUS
<1> DEFINE R == OpToRel(<, Nat)
           T == 0..n \ S
<1>1. IsWellFoundedOn(R, Nat)
  BY NatLessThanWellFounded
<1>2. \A i, j \in Nat : i < j => <<i, j>> \in R
  BY DEF OpToRel
<1>3. T \subseteq Nat /\ T # {}
  OBVIOUS
<1> HIDE DEF R, T
<1>4. PICK x \in T : \A y \in T : <<y, x>> \notin R
  BY <1>1, <1>3, WFMin
<1>5. x \in 1..n /\ x - 1 \in 0..n /\ x \notin S /\ x - 1 < x
  BY <1>4 DEF T
<1>6. x - 1 \in S
  BY <1>2, <1>3, <1>4, <1>5 DEF T
<1> QED
  BY <1>5, <1>6

\* A recursion that goes back by one has a solution.
Solves(f, n, zero, step) ==
  f[0] = zero /\ \A i \in 1..n : f[i] = step[i][f[i - 1]]
LEMMA Recursion ==
  ASSUME NEW n \in Nat, NEW S, NEW zero \in S, NEW step \in [1..n -> [S -> S]]
  PROVE  \E f \in [0..n -> S] : Solves(f, n, zero, step)
<1> DEFINE T == {m \in 0..n : \E f \in [0..m -> S] : Solves(f, m, zero, step)}
<1>1. 0 \in T
  <2>1. [i \in 0..0 |-> zero] \in [0..0 -> S]
    OBVIOUS
  <2>2. Solves([i \in 0..0 |-> zero], 0, zero, step)
    BY DEF Solves
  <2> QED
    BY <2>1, <2>2
<1>2. ASSUME NEW m \in 1..n, m - 1 \in T
      PROVE  m \in T
  <2>1. PICK f \in [0..(m - 1) -> S] : Solves(f, m - 1, zero, step)
    BY <1>2
  <2> DEFINE g == [i \in 0..m |-> IF i = m THEN step[m][f[m - 1]] ELSE f[i]]
  <2>2. step[m][f[m - 1]] \in S
    BY m - 1 \in 0..(m - 1)
  <2>3. g \in [0..m -> S]
    <3>1. \A i \in 0..m : i # m => i \in 0..(m - 1)
      OBVIOUS
    <3> QED
      BY <2>2, <3>1
  <2>4. g[m] = step[m][f[m - 1]] /\ \A i \in 0..(m - 1) : g[i] = f[i]
    OBVIOUS
  <2> HIDE DEF g
  <2>5. g[0] = zero
    BY <2>1, <2>4 DEF Solves
  <2>6. ASSUME NEW i \in 1..m
        PROVE  g[i] = step[i][g[i - 1]]
    <3>1. g[i - 1] = f[i - 1] /\ i - 1 \in 0..(m - 1)
      BY <2>4
    <3>2. CASE i = m
      BY <3>1, <3>2, <2>4
    <3>3. CASE i # m
      <4>1. i \in 1..(m - 1) /\ i \in 0..(m - 1)
        BY <3>3
      <4> QED
        BY <2>1, <2>4, <3>1, <4>1 DEF Solves
    <3> QED
      BY <3>2, <3>3
  <2>7. Solves(g, m, zero, step)
    BY <2>5, <2>6 DEF Solves
  <2> QED
    BY <2>3, <2>7
<1>3. 0..n \subseteq T
  <2> HIDE DEF T
  <2> QED
    BY <1>1, <1>2, Induction
<1> QED
  BY <1>3

-----------------------------------------------------------------------------
(* Digits *)

Digits == Seq(0..Base)

LEMMA DigitsAre ==
  ASSUME NEW s \in Digits
  PROVE  Len(s) \in Nat /\ \A i \in 1..Len(s) : s[i] \in 0..Base
<1>1. ASSUME NEW S, NEW c \in Seq(S), NEW i \in 1..Len(c)
      PROVE  c[i] \in S
  OBVIOUS
<1>2. Len(s) \in Nat
  BY DEF Digits
<1>3. \A i \in 1..Len(s) : s[i] \in 0..Base
  BY <1>1, Zenon DEF Digits
<1> QED
  BY <1>2, <1>3

LEMMA BaseIsNatural == Base \in Nat /\ Base >= 2 /\ MaxInt \in Nat /\ MaxInt >= Base
<1>1. Base \in Nat /\ Base >= 2 /\ MaxInt \in Nat /\ MaxInt >= Base * Base
  BY WidthAssumption
<1>2. Base * Base >= Base
  BY <1>1
<1> QED
  BY <1>1, <1>2

\* Division, by the base or the scale.
Quotient(x, b) == x \div b
Remainder(x, b) == x % b

LEMMA Division ==
  ASSUME NEW x \in Nat, NEW b \in Nat, b >= 2
  PROVE  /\ Quotient(x, b) \in Nat /\ Remainder(x, b) \in 0..(b - 1)
         /\ x = Quotient(x, b) * b + Remainder(x, b)
         /\ x > 0 => Quotient(x, b) < x
<1> DEFINE q == Quotient(x, b)
           r == Remainder(x, b)
<1>1. q \in Nat /\ r \in 0..(b - 1)
  BY DEF Quotient, Remainder
<1>2. r = x - b * q
  BY DEF Quotient, Remainder
<1> HIDE DEF q, r
<1>3. b * q >= 2 * q
  BY <1>1
<1>4. x = q * b + r
  BY <1>1, <1>2
<1>5. x > 0 => q < x
  BY <1>1, <1>3, <1>4
<1> QED
  BY <1>1, <1>4, <1>5 DEF q, r

\* The number digits stand for, digit by digit: the loop without its guards.
IsHorner(v, s) ==
  v = [i \in 0..Len(s) |-> IF i = 0 THEN 0 ELSE v[i - 1] * Base + s[i]]
Horner(s) == CHOOSE v : IsHorner(v, s)
Number(s) == Horner(s)[Len(s)]

LEMMA HornerIs ==
  ASSUME NEW s \in Digits
  PROVE  /\ Horner(s) \in [0..Len(s) -> Nat]
         /\ Horner(s)[0] = 0
         /\ \A i \in 1..Len(s) : Horner(s)[i] = Horner(s)[i - 1] * Base + s[i]
<1> DEFINE n == Len(s)
           step == [i \in 1..n |-> [x \in Nat |-> x * Base + s[i]]]
<1>1. n \in Nat /\ 0 \in Nat /\ \A i \in 1..n : s[i] \in 0..Base
  BY DigitsAre
<1>2. \A i \in 1..n, x \in Nat : step[i][x] = x * Base + s[i]
  OBVIOUS
<1>3. \A i \in 1..n, x \in Nat : x * Base + s[i] \in Nat
  BY <1>1, BaseIsNatural
<1>4. step \in [1..n -> [Nat -> Nat]]
  BY <1>3
<1> HIDE DEF step
<1>5. PICK f \in [0..n -> Nat] : Solves(f, n, 0, step)
  <2> HIDE DEF n
  <2> QED
    BY <1>1, <1>4, Recursion
<1>6. f[0] = 0 /\ \A i \in 1..n : f[i] = f[i - 1] * Base + s[i]
  <2>1. \A i \in 1..n : i - 1 \in 0..n
    BY <1>1
  <2> QED
    BY <1>2, <1>5, <2>1 DEF Solves
<1>7. IsHorner(f, s)
  BY <1>1, <1>6 DEF IsHorner
<1>8. IsHorner(Horner(s), s)
  BY <1>7 DEF Horner
<1> DEFINE v == Horner(s)
           S == {i \in 0..n : v[i] \in Nat}
<1> HIDE DEF v
<1>9. v = [i \in 0..n |-> IF i = 0 THEN 0 ELSE v[i - 1] * Base + s[i]]
  BY <1>8 DEF IsHorner, v
<1>10. v[0] = 0 /\ \A i \in 1..n : v[i] = v[i - 1] * Base + s[i]
  <2>1. v[0] = 0
    BY <1>1, <1>9
  <2>2. ASSUME NEW i \in 1..n
        PROVE  v[i] = v[i - 1] * Base + s[i]
    <3>1. i \in 0..n /\ i # 0
      OBVIOUS
    <3> QED
      BY <1>9, <3>1
  <2> QED
    BY <2>1, <2>2
<1>11. 0..n \subseteq S
  <2>1. 0 \in S
    BY <1>1, <1>10
  <2>2. ASSUME NEW i \in 1..n, i - 1 \in S
        PROVE  i \in S
    <3>1. v[i - 1] \in Nat /\ i \in 0..n
      BY <2>2
    <3>2. v[i] \in Nat
      BY <1>3, <1>10, <3>1
    <3> QED
      BY <3>1, <3>2
  <2> HIDE DEF S, n
  <2> QED
    BY <1>1, <2>1, <2>2, Induction
<1>12. v \in [0..n -> Nat]
  BY <1>9, <1>11
<1> QED
  BY <1>10, <1>12 DEF v

\* What is read is never less than what was read before.
LEMMA HornerGrows ==
  ASSUME NEW s \in Digits, NEW i \in 1..Len(s)
  PROVE  Horner(s)[i] >= Horner(s)[i - 1]
<1>1. s[i] \in Nat /\ Base \in Nat /\ Base >= 2
  <2>1. s[i] \in 0..Base
    BY DigitsAre
  <2> QED
    BY <2>1, BaseIsNatural
<1>2. Horner(s)[i - 1] \in Nat /\ Horner(s)[i] = Horner(s)[i - 1] * Base + s[i]
  BY HornerIs, i - 1 \in 0..Len(s)
<1> DEFINE x == Horner(s)[i - 1]
<1> HIDE DEF x
<1>3. x \in Nat => x * Base >= x
  BY <1>1
<1> QED
  BY <1>1, <1>2, <1>3 DEF x

\* Digits in front are read first.
LEMMA HornerOfLonger ==
  ASSUME NEW s \in Digits, NEW c \in Digits, Len(c) >= Len(s),
         \A i \in 1..Len(s) : c[i] = s[i]
  PROVE  Horner(c)[Len(s)] = Number(s)
<1> DEFINE n == Len(s)
           S == {i \in 0..n : Horner(c)[i] = Horner(s)[i]}
<1>1. n \in Nat /\ Len(c) \in Nat /\ n <= Len(c)
  BY DigitsAre
<1>2. 0 \in S
  BY <1>1, HornerIs
<1>3. ASSUME NEW i \in 1..n, i - 1 \in S
      PROVE  i \in S
  <2>1. i \in 1..Len(c)
    BY <1>1
  <2>2. Horner(c)[i] = Horner(c)[i - 1] * Base + c[i]
    BY <2>1, HornerIs
  <2>3. Horner(s)[i] = Horner(s)[i - 1] * Base + s[i]
    BY HornerIs
  <2> QED
    BY <1>1, <1>3, <2>2, <2>3
<1>4. 0..n \subseteq S
  <2> HIDE DEF S, n
  <2> QED
    BY <1>1, <1>2, <1>3, Induction
<1>5. n \in 0..n
  BY <1>1
<1> QED
  BY <1>4, <1>5 DEF Number

-----------------------------------------------------------------------------
(* Reading *)

\* The guard of the loop computes nothing that wraps, and is about what comes next.
LEMMA GuardIsExact ==
  ASSUME NEW u \in Nat, NEW d \in 0..(Base - 1)
  PROVE  FitsNext(u, d) <=> u * Base + d <= MaxInt
<1> DEFINE x == MaxInt - d
           q == Quotient(x, Base)
           r == Remainder(x, Base)
<1>1. Base \in Nat /\ Base >= 2 /\ MaxInt \in Nat /\ MaxInt >= Base
  BY BaseIsNatural
<1>2. x \in Nat /\ d \in Nat
  BY <1>1
<1>3. FitsNext(u, d) <=> u <= q
  BY DEF FitsNext, Quotient
<1>4. q \in Nat /\ r \in 0..(Base - 1) /\ x = q * Base + r
  <2> QED
    BY <1>1, <1>2, Division
<1>5. u * Base + d <= MaxInt <=> u * Base <= x
  BY <1>1, <1>2
<1> HIDE DEF x, q, r
<1>6. u <= q => u * Base <= q * Base
  BY <1>1, <1>4
<1>7. u > q => u * Base >= (q + 1) * Base
  BY <1>1, <1>4
<1>8. (q + 1) * Base = q * Base + Base
  BY <1>1, <1>4
<1> DEFINE uB == u * Base
           qB == q * Base
           q1B == (q + 1) * Base
<1>9. uB \in Nat /\ qB \in Nat /\ q1B \in Nat
  BY <1>1, <1>4
<1> HIDE DEF uB, qB, q1B
<1>10. u <= q <=> uB <= x
  <2>1. (u <= q => uB <= qB) /\ (u > q => uB >= q1B) /\ q1B = qB + Base /\ x = qB + r
    BY <1>4, <1>6, <1>7, <1>8 DEF uB, qB, q1B
  <2> QED
    BY <1>1, <1>2, <1>4, <1>9, <2>1
<1> QED
  BY <1>3, <1>5, <1>10 DEF uB

\* The loop as the function it is.
NextDigit(read, digit) ==
  IF read.failure # "" THEN read
  ELSE IF digit = Base THEN Fail("INVALID_AMOUNT")
  ELSE IF ~FitsNext(read.units, digit) THEN Fail("AMOUNT_OVERFLOW")
  ELSE Ok(Wrapped(read.units * Base + digit))
IsRead(so, s) ==
  so = [i \in 0..Len(s) |-> IF i = 0 THEN Ok(0) ELSE NextDigit(so[i - 1], s[i])]
Results == [units : Int, failure : {"", "INVALID_AMOUNT", "AMOUNT_OVERFLOW"}]

LEMMA ResultsAre ==
  /\ \A u : Ok(u).units = u /\ Ok(u).failure = ""
  /\ Fail("INVALID_AMOUNT").failure # "" /\ Fail("AMOUNT_OVERFLOW").failure # ""
  /\ Ok(0) \in Results /\ \A u \in Int : Ok(u) \in Results
  /\ Fail("INVALID_AMOUNT") \in Results /\ Fail("AMOUNT_OVERFLOW") \in Results
<1>1. \A u : Ok(u).units = u /\ Ok(u).failure = ""
  BY DEF Ok
<1>2. Fail("INVALID_AMOUNT").failure # "" /\ Fail("AMOUNT_OVERFLOW").failure # ""
  BY DEF Fail
<1>3. Ok(0) \in Results /\ \A u \in Int : Ok(u) \in Results
  BY DEF Ok, Results
<1>4. Fail("INVALID_AMOUNT") \in Results /\ Fail("AMOUNT_OVERFLOW") \in Results
  BY DEF Fail, Results
<1> QED
  BY <1>1, <1>2, <1>3, <1>4

LEMMA ReadExists ==
  ASSUME NEW s \in Digits
  PROVE  \E so : IsRead(so, s)
<1> DEFINE n == Len(s)
           step == [i \in 1..n |-> [read \in Results |-> NextDigit(read, s[i])]]
<1>1. n \in Nat /\ \A i \in 1..n : s[i] \in 0..Base
  BY DigitsAre
<1>2. ASSUME NEW i \in 1..n, NEW read \in Results
      PROVE  NextDigit(read, s[i]) \in Results
  <2>1. read.units \in Int
    BY DEF Results
  <2>2. read.units * Base + s[i] \in Int
    BY <1>1, <2>1, BaseIsNatural
  <2>3. Wrapped(read.units * Base + s[i]) \in Int
    BY <2>2, BaseIsNatural DEF Wrapped
  <2>4. /\ Ok(Wrapped(read.units * Base + s[i])) \in Results
        /\ Fail("INVALID_AMOUNT") \in Results
        /\ Fail("AMOUNT_OVERFLOW") \in Results
    BY <2>3, ResultsAre
  <2> QED
    BY <2>4, Zenon DEF NextDigit
<1>3. step \in [1..n -> [Results -> Results]] /\ Ok(0) \in Results
  <2>1. Ok(0) \in Results
    BY ResultsAre
  <2> QED
    BY <1>2, <2>1, Zenon
<1>4. \A i \in 1..n : \A read \in Results : step[i][read] = NextDigit(read, s[i])
  OBVIOUS
<1> HIDE DEF step
<1>5. PICK so \in [0..n -> Results] : Solves(so, n, Ok(0), step)
  <2> HIDE DEF n
  <2> QED
    BY <1>1, <1>3, Recursion
<1>6. so[0] = Ok(0) /\ \A i \in 1..n : so[i] = NextDigit(so[i - 1], s[i])
  <2>1. \A i \in 1..n : i - 1 \in 0..n
    BY <1>1
  <2> QED
    BY <1>4, <1>5, <2>1 DEF Solves
<1>7. IsRead(so, s)
  BY <1>1, <1>6 DEF IsRead
<1> QED
  BY <1>7

\* Accumulate accepts digits that fit, as the number they stand for, and for
\* digits refuses what does not fit.
LEMMA AccumulateIsExact ==
  ASSUME NEW s \in Digits
  PROVE  \/ /\ \A j \in 1..Len(s) : s[j] # Base
            /\ Number(s) <= MaxInt
            /\ Accumulate(s) = Ok(Number(s))
         \/ /\ Accumulate(s).failure # ""
            /\ \/ \E j \in 1..Len(s) : s[j] = Base
               \/ Number(s) > MaxInt /\ Accumulate(s) = Fail("AMOUNT_OVERFLOW")
<1> DEFINE n == Len(s)
           h == Horner(s)
           so == CHOOSE f : IsRead(f, s)
           Read(i) == /\ \A j \in 1..i : s[j] # Base
                      /\ h[i] <= MaxInt
                      /\ so[i] = Ok(h[i])
           Refused(i) == /\ so[i].failure # ""
                         /\ \/ \E j \in 1..i : s[j] = Base
                            \/ h[i] > MaxInt /\ so[i] = Fail("AMOUNT_OVERFLOW")
           S == {i \in 0..n : Read(i) \/ Refused(i)}
<1>1. n \in Nat /\ \A i \in 1..n : s[i] \in 0..Base
  BY DigitsAre
<1>2. Accumulate(s) = so[n]
  BY DEF Accumulate, IsRead, NextDigit
<1>3. IsRead(so, s)
  BY ReadExists
<1>4. h \in [0..n -> Nat] /\ h[0] = 0 /\ \A i \in 1..n : h[i] = h[i - 1] * Base + s[i]
  BY HornerIs
<1>5. \A i \in 1..n : h[i] >= h[i - 1]
  BY HornerGrows
<1> HIDE DEF so, h
<1>6. so[0] = Ok(0) /\ \A i \in 1..n : so[i] = NextDigit(so[i - 1], s[i])
  <2>1. so[0] = Ok(0)
    <3>1. 0 \in 0..n
      BY <1>1
    <3> QED
      BY <1>3, <3>1 DEF IsRead
  <2>2. ASSUME NEW i \in 1..n
        PROVE  so[i] = NextDigit(so[i - 1], s[i])
    <3>1. i \in 0..n /\ i # 0
      BY <1>1
    <3> QED
      BY <1>3, <3>1 DEF IsRead
  <2> QED
    BY <2>1, <2>2
<1>7. 0 \in S
  <2>1. Read(0)
    <3>1. so[0] = Ok(h[0]) /\ h[0] <= MaxInt
      BY <1>4, <1>6, BaseIsNatural
    <3>2. 1..0 = {}
      OBVIOUS
    <3> QED
      BY <3>1, <3>2
  <2>2. 0 \in 0..n
    BY <1>1
  <2> QED
    BY <2>1, <2>2, Zenon
<1>8. ASSUME NEW i \in 1..n, i - 1 \in S
      PROVE  Read(i) \/ Refused(i)
  <2>1. /\ h[i - 1] \in Nat /\ h[i] \in Nat /\ h[i] >= h[i - 1]
        /\ h[i] = h[i - 1] * Base + s[i] /\ s[i] \in 0..Base
        /\ so[i] = NextDigit(so[i - 1], s[i])
    <3>1. i - 1 \in 0..n /\ i \in 0..n
      BY <1>1
    <3>2. h[i - 1] \in Nat /\ h[i] \in Nat
      BY <1>4, <3>1
    <3>3. h[i] >= h[i - 1] /\ h[i] = h[i - 1] * Base + s[i]
      BY <1>4, <1>5
    <3> QED
      BY <1>1, <1>6, <3>2, <3>3, Zenon
  <2>2. (1..i) = (1..(i - 1)) \cup {i}
    OBVIOUS
  <2>3. CASE Refused(i - 1)
    <3>1. so[i] = so[i - 1]
      BY <2>1, <2>3 DEF NextDigit
    <3>2. h[i - 1] > MaxInt => h[i] > MaxInt
      BY <2>1, BaseIsNatural
    <3> QED
      BY <2>2, <2>3, <3>1, <3>2
  <2>4. CASE Read(i - 1)
    <3>1. so[i - 1].failure = "" /\ so[i - 1].units = h[i - 1]
      <4>1. so[i - 1] = Ok(h[i - 1])
        BY <2>4
      <4> QED
        BY <4>1, ResultsAre
    <3>2. CASE s[i] = Base
      <4>1. so[i] = Fail("INVALID_AMOUNT")
        BY <2>1, <3>1, <3>2 DEF NextDigit
      <4>2. so[i].failure # ""
        BY <4>1, ResultsAre
      <4>3. i \in 1..i
        OBVIOUS
      <4> QED
        BY <3>2, <4>2, <4>3
    <3>3. CASE s[i] # Base
      <4>1. s[i] \in 0..(Base - 1)
        BY <2>1, <3>3, BaseIsNatural
      <4>2. FitsNext(h[i - 1], s[i]) <=> h[i] <= MaxInt
        BY <2>1, <4>1, GuardIsExact
      <4>3. CASE h[i] <= MaxInt
        <5>1. Wrapped(h[i]) = h[i]
          BY <2>1, <4>3, WrappedIsIdentity, BaseIsNatural DEF Units, MinInt
        <5>2. so[i] = Ok(h[i])
          BY <2>1, <3>1, <3>3, <4>2, <4>3, <5>1 DEF NextDigit
        <5>3. \A j \in 1..i : s[j] # Base
          BY <2>2, <2>4, <3>3
        <5> QED
          BY <4>3, <5>2, <5>3
      <4>4. CASE ~(h[i] <= MaxInt)
        <5>1. so[i] = Fail("AMOUNT_OVERFLOW")
          BY <2>1, <3>1, <3>3, <4>2, <4>4 DEF NextDigit
        <5>2. so[i].failure # "" /\ h[i] > MaxInt
          BY <2>1, <4>4, <5>1, BaseIsNatural DEF Fail
        <5> QED
          BY <5>1, <5>2
      <4> QED
        BY <4>3, <4>4
    <3> QED
      BY <3>2, <3>3
  <2> QED
    BY <1>8, <2>3, <2>4
<1>9. 0..n \subseteq S
  <2>1. ASSUME NEW i \in 1..n, i - 1 \in S
        PROVE  i \in S
    <3>1. i \in 0..n
      BY <1>1
    <3> QED
      BY <1>8, <2>1, <3>1, Zenon
  <2> HIDE DEF S, n
  <2> QED
    BY <1>1, <1>7, <2>1, Induction
<1>10. Read(n) \/ Refused(n)
  <2>1. n \in 0..n
    BY <1>1
  <2>2. n \in S
    BY <1>9, <2>1
  <2> QED
    BY <2>2, Zenon
<1> QED
  BY <1>2, <1>10 DEF Number, h

\* The places of a number, and the sum over its digits, as the functions they are.
IsPlace(p, n) == p = [k \in 0..n |-> IF k = 0 THEN 1 ELSE Base * p[k - 1]]
IsSum(f, p, s, last) ==
  f = [i \in 0..Len(s) |->
         IF i = 0 THEN 0 ELSE f[i - 1] + s[i] * p[last + Len(s) - i]]

LEMMA PlacesAre ==
  ASSUME NEW n \in Nat, NEW p, p = CHOOSE f : IsPlace(f, n)
  PROVE  p \in [0..n -> Nat] /\ p[0] = 1 /\ \A k \in 1..n : p[k] = Base * p[k - 1]
<1> DEFINE step == [k \in 1..n |-> [x \in Nat |-> Base * x]]
<1>1. \A x \in Nat : Base * x \in Nat
  BY BaseIsNatural
<1>2. step \in [1..n -> [Nat -> Nat]] /\ \A k \in 1..n, x \in Nat : step[k][x] = Base * x
  BY <1>1
<1> HIDE DEF step
<1>3. PICK f \in [0..n -> Nat] : Solves(f, n, 1, step)
  <2>1. 1 \in Nat
    OBVIOUS
  <2> QED
    BY <1>2, <2>1, Recursion
<1>4. f[0] = 1 /\ \A k \in 1..n : f[k] = Base * f[k - 1]
  <2>1. \A k \in 1..n : k - 1 \in 0..n
    OBVIOUS
  <2> QED
    BY <1>2, <1>3, <2>1 DEF Solves
<1>5. IsPlace(f, n)
  BY <1>4 DEF IsPlace
<1>6. IsPlace(p, n)
  BY <1>5
<1>7. p = [k \in 0..n |-> IF k = 0 THEN 1 ELSE Base * p[k - 1]]
  BY <1>6 DEF IsPlace
<1>8. p[0] = 1 /\ \A k \in 1..n : p[k] = Base * p[k - 1]
  <2>1. 0 \in 0..n /\ \A k \in 1..n : k \in 0..n /\ k # 0
    OBVIOUS
  <2> QED
    BY <1>7, <2>1
<1> DEFINE S == {k \in 0..n : p[k] \in Nat}
<1>9. 0..n \subseteq S
  <2>1. 0 \in S
    BY <1>8
  <2>2. ASSUME NEW k \in 1..n, k - 1 \in S
        PROVE  k \in S
    <3>1. p[k - 1] \in Nat /\ k \in 0..n
      BY <2>2
    <3> QED
      BY <1>1, <1>8, <3>1
  <2> HIDE DEF S
  <2> QED
    BY <2>1, <2>2, Induction
<1>10. p \in [0..n -> Nat]
  BY <1>7, <1>9
<1> QED
  BY <1>8, <1>10

\* Digit by digit or place by place, digits stand for the same number.
LEMMA WeightIsNumber ==
  ASSUME NEW s \in Digits, NEW last \in Nat
  PROVE  \E p \in [0..(last + Len(s)) -> Nat] :
           /\ p[0] = 1 /\ \A k \in 1..(last + Len(s)) : p[k] = Base * p[k - 1]
           /\ Weight(s, last) = Number(s) * p[last]
<1> DEFINE n == Len(s)
           p == CHOOSE f : IsPlace(f, last + n)
           sum == CHOOSE f : IsSum(f, p, s, last)
           h == Horner(s)
<1>1. n \in Nat /\ last + n \in Nat /\ \A i \in 1..n : s[i] \in 0..Base
  BY DigitsAre
<1>2. Weight(s, last) = sum[n]
  BY DEF Weight, IsSum, IsPlace
<1> HIDE DEF p
<1>3. p \in [0..(last + n) -> Nat] /\ p[0] = 1 /\ \A k \in 1..(last + n) : p[k] = Base * p[k - 1]
  <2> HIDE DEF n
  <2> QED
    BY <1>1, PlacesAre DEF p
<1>4. h \in [0..n -> Nat] /\ h[0] = 0 /\ \A i \in 1..n : h[i] = h[i - 1] * Base + s[i]
  BY HornerIs
<1> HIDE DEF h, sum
<1> DEFINE f == [i \in 0..n |-> h[i] * p[last + n - i]]
<1>5. ASSUME NEW i \in 1..n
      PROVE  h[i] * p[last + n - i] = h[i - 1] * p[last + n - (i - 1)] + s[i] * p[last + n - i]
  <2>1. /\ h[i - 1] \in Nat /\ h[i] = h[i - 1] * Base + s[i]
        /\ s[i] \in Nat /\ Base \in Nat
    <3>1. s[i] \in 0..Base /\ Base \in Nat
      BY <1>1, BaseIsNatural
    <3>2. i - 1 \in 0..n
      BY <1>1
    <3>3. h[i - 1] \in Nat /\ h[i] = h[i - 1] * Base + s[i]
      BY <1>4, <3>2
    <3> QED
      BY <3>1, <3>3
  <2> DEFINE k == last + n - i
             x == h[i - 1]
             y == p[k]
  <2>2. k \in 0..(last + n) /\ k + 1 \in 1..(last + n) /\ last + n - (i - 1) = k + 1
    BY <1>1
  <2> HIDE DEF k
  <2>3. p[k + 1] = Base * p[k] /\ p[k] \in Nat
    <3>1. (k + 1) - 1 = k
      BY <2>2
    <3> QED
      BY <1>3, <2>2, <3>1
  <2> HIDE DEF x, y
  <2>4. x \in Nat /\ y \in Nat
    BY <2>1, <2>3 DEF x, y
  <2>5. (x * Base + s[i]) * y = x * (Base * y) + s[i] * y
    BY <2>1, <2>4
  <2> QED
    BY <2>1, <2>2, <2>3, <2>5 DEF x, y, k
<1>6. IsSum(f, p, s, last)
  <2>1. f[0] = 0
    <3>1. p[last + n - 0] \in Nat /\ h[0] = 0 /\ 0 \in 0..n
      BY <1>1, <1>3, <1>4
    <3> QED
      BY <3>1
  <2>2. ASSUME NEW i \in 1..n
        PROVE  f[i] = f[i - 1] + s[i] * p[last + n - i]
    <3>1. i \in 0..n /\ i - 1 \in 0..n
      BY <1>1
    <3> QED
      BY <1>5, <3>1
  <2>3. f = [i \in 0..n |-> f[i]]
    OBVIOUS
  <2> HIDE DEF f
  <2>4. \A i \in 0..n : f[i] = IF i = 0 THEN 0 ELSE f[i - 1] + s[i] * p[last + n - i]
    BY <1>1, <2>1, <2>2
  <2>5. f = [i \in 0..n |-> IF i = 0 THEN 0 ELSE f[i - 1] + s[i] * p[last + n - i]]
    BY <2>3, <2>4, Zenon
  <2> QED
    BY <2>5 DEF IsSum
<1>7. IsSum(sum, p, s, last)
  BY <1>6 DEF sum
<1> DEFINE S == {i \in 0..n : sum[i] = f[i]}
<1>8. sum[0] = 0 /\ \A i \in 1..n : sum[i] = sum[i - 1] + s[i] * p[last + n - i]
  <2>1. 0 \in 0..n /\ \A i \in 1..n : i \in 0..n /\ i # 0
    BY <1>1
  <2> QED
    BY <1>7, <2>1 DEF IsSum
<1>9. f[0] = 0 /\ \A i \in 1..n : f[i] = f[i - 1] + s[i] * p[last + n - i]
  <2>1. 0 \in 0..n /\ \A i \in 1..n : i \in 0..n /\ i # 0
    BY <1>1
  <2> HIDE DEF f
  <2> QED
    BY <1>6, <2>1 DEF IsSum
<1>10. 0..n \subseteq S
  <2> HIDE DEF f
  <2>1. 0 \in S
    BY <1>1, <1>8, <1>9
  <2>2. ASSUME NEW i \in 1..n, i - 1 \in S
        PROVE  i \in S
    BY <1>1, <1>8, <1>9, <2>2
  <2> HIDE DEF S, n
  <2> QED
    BY <1>1, <2>1, <2>2, Induction
<1>11. sum[n] = h[n] * p[last]
  <2>1. n \in 0..n /\ last + n - n = last
    BY <1>1
  <2> QED
    BY <1>10, <2>1
<1> QED
  BY <1>2, <1>3, <1>11 DEF Number, h

LEMMA WeightIs ==
  ASSUME NEW s \in Digits
  PROVE  /\ Weight(s, 0) = Number(s)
         /\ Weight(s, 1) = Number(s) * Base
         /\ Weight(s, 2) = Number(s) * Base * Base
<1>1. Number(s) \in Nat /\ Len(s) \in Nat /\ Base \in Nat
  <2>1. Len(s) \in 0..Len(s)
    BY DigitsAre
  <2> QED
    BY <2>1, HornerIs, DigitsAre, BaseIsNatural DEF Number
<1>2. Weight(s, 0) = Number(s)
  <2>1. PICK p : p[0] = 1 /\ Weight(s, 0) = Number(s) * p[0]
    BY WeightIsNumber
  <2> QED
    BY <1>1, <2>1
<1>3. Weight(s, 1) = Number(s) * Base
  <2>1. PICK p \in [0..(1 + Len(s)) -> Nat] :
          /\ p[0] = 1 /\ \A k \in 1..(1 + Len(s)) : p[k] = Base * p[k - 1]
          /\ Weight(s, 1) = Number(s) * p[1]
    BY WeightIsNumber, 1 \in Nat, Zenon
  <2>2. p[1] = Base * p[1 - 1] /\ 1 - 1 = 0
    BY <1>1, <2>1
  <2>3. p[1] = Base
    BY <1>1, <2>1, <2>2
  <2> QED
    BY <2>1, <2>3
<1>4. Weight(s, 2) = Number(s) * Base * Base
  <2>1. PICK p \in [0..(2 + Len(s)) -> Nat] :
          /\ p[0] = 1 /\ \A k \in 1..(2 + Len(s)) : p[k] = Base * p[k - 1]
          /\ Weight(s, 2) = Number(s) * p[2]
    BY WeightIsNumber, 2 \in Nat, Zenon
  <2>2. p[1] = Base * p[1 - 1] /\ 1 - 1 = 0 /\ p[2] = Base * p[2 - 1] /\ 2 - 1 = 1
    <3>1. 1 \in 1..(2 + Len(s)) /\ 2 \in 1..(2 + Len(s))
      BY <1>1
    <3>2. p[1] = Base * p[1 - 1] /\ p[2] = Base * p[2 - 1]
      BY <2>1, <3>1, Zenon
    <3> QED
      BY <3>2
  <2>3. p[1] = Base
    BY <1>1, <2>1, <2>2
  <2>4. p[2] = Base * Base
    BY <2>2, <2>3
  <2>5. Number(s) * (Base * Base) = Number(s) * Base * Base
    BY <1>1
  <2> QED
    BY <2>1, <2>4, <2>5
<1> QED
  BY <1>2, <1>3, <1>4

LEMMA Appended ==
  ASSUME NEW a \in Digits, NEW b \in Digits
  PROVE  /\ a \o b \in Digits /\ Len(a \o b) = Len(a) + Len(b)
         /\ \A i \in 1..Len(a) : (a \o b)[i] = a[i]
         /\ \A i \in 1..Len(b) : (a \o b)[Len(a) + i] = b[i]
<1>1. \A S : \A p, q \in Seq(S) :
        /\ p \o q \in Seq(S) /\ Len(p \o q) = Len(p) + Len(q)
        /\ \A i \in 1..Len(p) : (p \o q)[i] = p[i]
        /\ \A i \in 1..Len(q) : (p \o q)[Len(p) + i] = q[i]
  OBVIOUS
<1> QED
  BY <1>1 DEF Digits

\* The digits that are read: two decimals at the end of the whole.
LEMMA CombinedIs ==
  ASSUME NEW t, NEW w \in Digits, NEW f \in Digits, Len(f) \in 0..2,
         w = t.parts[1], f = FracPart(t)
  PROVE  LET c == Combined(t)
             n == Len(w)
         IN  /\ c \in Digits /\ Len(c) = n + 2
             /\ \A i \in 1..n : c[i] = w[i]
             /\ c[n + 1] = IF Len(f) = 0 THEN 0 ELSE f[1]
             /\ c[n + 2] = IF Len(f) = 2 THEN f[2] ELSE 0
<1> DEFINE k == Scale - Len(f)
           z == [i \in 1..k |-> 0]
           d == w \o f
           c == d \o z
<1>1. Combined(t) = c
  BY DEF Combined
<1>2. k \in Nat /\ Len(w) \in Nat /\ Len(f) \in Nat /\ k = 2 - Len(f)
  BY DigitsAre DEF Scale
<1>3. z \in Digits /\ Len(z) = k /\ \A i \in 1..k : z[i] = 0
  <2>1. 0 \in 0..Base
    BY BaseIsNatural
  <2>2. \A S : \A x \in S : [i \in 1..k |-> x] \in Seq(S) /\ Len([i \in 1..k |-> x]) = k
    BY <1>2
  <2> QED
    BY <2>1, <2>2 DEF Digits
<1> HIDE DEF k, z
<1>4. /\ d \in Digits /\ Len(d) = Len(w) + Len(f)
      /\ \A i \in 1..Len(w) : d[i] = w[i]
      /\ \A i \in 1..Len(f) : d[Len(w) + i] = f[i]
  BY Appended
<1> HIDE DEF d
<1>5. /\ c \in Digits /\ Len(c) = Len(d) + k
      /\ \A i \in 1..Len(d) : c[i] = d[i]
      /\ \A i \in 1..k : c[Len(d) + i] = z[i]
  BY <1>3, <1>4, Appended
<1> HIDE DEF c
<1> DEFINE n == Len(w)
<1>6. Len(c) = n + 2
  BY <1>2, <1>4, <1>5
<1>7. \A i \in 1..n : c[i] = w[i]
  BY <1>2, <1>4, <1>5
<1>8. CASE Len(f) = 0
  <2>1. k = 2 /\ Len(d) = n
    BY <1>2, <1>4, <1>8
  <2>2. c[n + 1] = 0 /\ c[n + 2] = 0
    BY <1>2, <1>3, <1>5, <2>1
  <2> QED
    BY <1>1, <1>5, <1>6, <1>7, <1>8, <2>2
<1>9. CASE Len(f) = 1
  <2>1. k = 1 /\ Len(d) = n + 1
    BY <1>2, <1>4, <1>9
  <2>2. c[n + 1] = f[1]
    BY <1>2, <1>4, <1>5, <1>9, <2>1
  <2>3. c[n + 2] = 0
    <3>1. n + 2 = Len(d) + 1
      BY <1>2, <2>1
    <3> QED
      BY <1>3, <1>5, <2>1, <3>1
  <2> QED
    BY <1>1, <1>5, <1>6, <1>7, <1>9, <2>2, <2>3
<1>10. CASE Len(f) = 2
  <2>1. k = 0 /\ Len(d) = n + 2
    BY <1>2, <1>4, <1>10
  <2>2. c[n + 1] = f[1] /\ c[n + 2] = f[2]
    BY <1>2, <1>4, <1>5, <1>10, <2>1
  <2> QED
    BY <1>1, <1>5, <1>6, <1>7, <1>10, <2>2
<1> QED
  BY <1>8, <1>9, <1>10

\* A number of one or two digits more.
LEMMA NumberOfLonger ==
  ASSUME NEW s \in Digits, NEW c \in Digits, Len(c) = Len(s) + 2,
         \A i \in 1..Len(s) : c[i] = s[i]
  PROVE  Number(c) = (Number(s) * Base + c[Len(s) + 1]) * Base + c[Len(s) + 2]
<1> DEFINE n == Len(s)
           h == Horner(c)
<1>1. n \in Nat /\ Len(c) = n + 2
  BY DigitsAre
<1>2. h[n] = Number(s)
  BY <1>1, HornerOfLonger
<1>3. \A i \in 1..Len(c) : h[i] = h[i - 1] * Base + c[i]
  BY HornerIs
<1> HIDE DEF h, n
<1>4. h[n + 1] = h[n] * Base + c[n + 1]
  <2>1. n + 1 \in 1..Len(c) /\ (n + 1) - 1 = n
    BY <1>1
  <2> QED
    BY <1>3, <2>1
<1>5. h[n + 2] = h[n + 1] * Base + c[n + 2]
  <2>1. n + 2 \in 1..Len(c) /\ (n + 2) - 1 = n + 1
    BY <1>1
  <2> QED
    BY <1>3, <2>1
<1>6. Number(c) = h[n + 2]
  BY <1>1 DEF Number, h
<1> QED
  BY <1>2, <1>4, <1>5, <1>6 DEF n

LEMMA NumberOfFew ==
  ASSUME NEW s \in Digits
  PROVE  /\ Number(s) \in Nat
         /\ Len(s) = 0 => Number(s) = 0
         /\ Len(s) = 1 => Number(s) = s[1]
         /\ Len(s) = 2 => Number(s) = s[1] * Base + s[2]
<1> DEFINE h == Horner(s)
<1>1. /\ h \in [0..Len(s) -> Nat] /\ h[0] = 0
      /\ \A i \in 1..Len(s) : h[i] = h[i - 1] * Base + s[i]
  BY HornerIs
<1>2. /\ Len(s) \in Nat /\ Base \in Nat /\ \A i \in 1..Len(s) : s[i] \in 0..Base
  BY DigitsAre, BaseIsNatural
<1>3. Number(s) = h[Len(s)]
  BY DEF Number
<1> HIDE DEF h
<1>4. Number(s) \in Nat
  BY <1>1, <1>2, <1>3
<1>5. Len(s) >= 1 => h[1] = s[1]
  <2>1. Len(s) >= 1 => h[1] = h[1 - 1] * Base + s[1] /\ s[1] \in Nat
    BY <1>1, <1>2
  <2>2. 1 - 1 = 0 /\ 0 * Base = 0
    BY <1>2
  <2> QED
    BY <1>1, <2>1, <2>2
<1>6. Len(s) = 2 => h[2] = s[1] * Base + s[2]
  <2>1. Len(s) = 2 => h[2] = h[2 - 1] * Base + s[2]
    BY <1>1, <1>2
  <2> QED
    BY <1>5, <2>1
<1> QED
  BY <1>1, <1>3, <1>4, <1>5, <1>6

\* What a text is before anything is known of it, and what the code asks of its form.
IsText(t) == t.negative \in BOOLEAN /\ t.parts \in Seq(Seq(0..Base)) \ {<<>>}
HasForm(t) ==
  /\ Len(t.parts) <= 2
  /\ Len(t.parts) = 2 => Len(FracPart(t)) \in 1..Scale
  /\ t.parts[1] # <<>>

LEMMA PartsAre ==
  ASSUME NEW t, IsText(t)
  PROVE  /\ Len(t.parts) \in Nat \ {0} /\ DOMAIN t.parts = 1..Len(t.parts)
         /\ t.parts[1] \in Digits
         /\ Len(t.parts) = 2 => t.parts[2] \in Digits
         /\ FracPart(t) \in Digits
         /\ Len(t.parts) # 2 => Len(FracPart(t)) = 0
         /\ Len(t.parts) = 2 => FracPart(t) = t.parts[2]
<1> DEFINE parts == t.parts
<1>1. parts \in Seq(Digits) /\ parts # <<>>
  BY DEF IsText, Digits
<1>2. \A S : \A c \in Seq(S) : /\ Len(c) \in Nat /\ DOMAIN c = 1..Len(c)
                               /\ \A i \in 1..Len(c) : c[i] \in S
                               /\ c # <<>> => Len(c) # 0
  OBVIOUS
<1> HIDE DEF parts
<1>3. /\ Len(parts) \in Nat \ {0} /\ DOMAIN parts = 1..Len(parts)
      /\ \A i \in 1..Len(parts) : parts[i] \in Digits
  BY <1>1, <1>2
<1>4. parts[1] \in Digits /\ (Len(parts) = 2 => parts[2] \in Digits)
  BY <1>3
<1>5. FracPart(t) = IF Len(parts) = 2 THEN parts[2] ELSE <<>>
  BY DEF FracPart, parts
<1>6. <<>> \in Digits /\ Len(<<>>) = 0
  BY DEF Digits
<1>7. CASE Len(parts) = 2
  BY <1>3, <1>4, <1>5, <1>7 DEF parts
<1>8. CASE Len(parts) # 2
  BY <1>3, <1>4, <1>5, <1>6, <1>8 DEF parts
<1> QED
  BY <1>7, <1>8

LEMMA DomainIs ==
  ASSUME NEW s \in Digits
  PROVE  DOMAIN s = 1..Len(s) /\ (s = <<>> <=> Len(s) = 0)
<1>1. \A S : \A c \in Seq(S) : DOMAIN c = 1..Len(c) /\ (c = <<>> <=> Len(c) = 0)
  OBVIOUS
<1> QED
  BY <1>1 DEF Digits

\* A text of the right form that holds no other character is a decimal, and the
\* digits that are read stand for what it means.
LEMMA CombinedIsText ==
  ASSUME NEW t, IsText(t), HasForm(t)
  PROVE  /\ Combined(t) \in Digits
         /\ Number(Combined(t)) = Magnitude(t)
         /\ (\A j \in 1..Len(Combined(t)) : Combined(t)[j] # Base) <=> IsDecimal(t)
<1> DEFINE w == t.parts[1]
           f == FracPart(t)
           c == Combined(t)
           n == Len(w)
           m == Len(t.parts)
<1>1. /\ w \in Digits /\ f \in Digits /\ m \in {1, 2}
      /\ m = 2 => f = t.parts[2] /\ Len(f) \in 1..2
      /\ m = 1 => Len(f) = 0
      /\ DOMAIN t.parts = 1..m /\ w # <<>>
  <2>1. /\ w \in Digits /\ f \in Digits
        /\ m \in Nat \ {0} /\ DOMAIN t.parts = 1..m
        /\ m = 2 => f = t.parts[2]
        /\ m # 2 => Len(f) = 0
    BY PartsAre
  <2>2. m <= 2 /\ (m = 2 => Len(f) \in 1..2) /\ w # <<>>
    BY DEF HasForm, Scale
  <2> HIDE DEF m, f, w
  <2>3. m \in {1, 2}
    BY <2>1, <2>2
  <2> QED
    BY <2>1, <2>2, <2>3
<1>2. /\ n \in Nat /\ Len(f) \in 0..2 /\ Base \in Nat /\ Base >= 2
      /\ \A i \in 1..n : w[i] \in 0..Base
      /\ \A i \in 1..Len(f) : f[i] \in 0..Base
  BY <1>1, DigitsAre, BaseIsNatural
<1>3. /\ c \in Digits /\ Len(c) = n + 2
      /\ \A i \in 1..n : c[i] = w[i]
      /\ c[n + 1] = IF Len(f) = 0 THEN 0 ELSE f[1]
      /\ c[n + 2] = IF Len(f) = 2 THEN f[2] ELSE 0
  BY <1>1, <1>2, CombinedIs
<1>4. Number(c) = (Number(w) * Base + c[n + 1]) * Base + c[n + 2]
  BY <1>1, <1>3, NumberOfLonger
<1>5. /\ Number(w) \in Nat /\ Number(f) \in Nat
      /\ Len(f) = 1 => Number(f) = f[1]
      /\ Len(f) = 2 => Number(f) = f[1] * Base + f[2]
  BY <1>1, NumberOfFew
<1>6. /\ Weight(w, 2) = Number(w) * Base * Base
      /\ Weight(f, 1) = Number(f) * Base /\ Weight(f, 0) = Number(f)
  BY <1>1, WeightIs
<1>7. Magnitude(t) = Weight(w, 2) + IF m = 2 THEN Weight(f, 2 - Len(f)) ELSE 0
  BY <1>1 DEF Magnitude, Scale
<1>8. IsDecimal(t) <=> /\ \A j \in 1..n : w[j] < Base
                       /\ m = 2 => \A j \in 1..Len(f) : f[j] < Base
  <2>1. /\ DOMAIN w = 1..n /\ DOMAIN f = 1..Len(f)
        /\ m = 2 => f # <<>>
    <3> HIDE DEF w, f, n, m
    <3>1. DOMAIN f = 1..Len(f) /\ (f = <<>> => Len(f) = 0)
      BY <1>1, DomainIs
    <3>2. DOMAIN w = 1..n
      BY <1>1, DomainIs DEF n
    <3> QED
      BY <1>1, <3>1, <3>2
  <2>2. m = 2 => Len(f) <= Scale
    <3>1. \A l \in 1..2 : l <= Scale
      BY DEF Scale
    <3> HIDE DEF f, m
    <3> QED
      BY <1>1, <3>1, Zenon
  <2>3. CASE m = 1
    <3>1. DOMAIN t.parts = {1}
      BY <1>1, <2>3
    <3> QED
      BY <1>1, <2>1, <2>3, <3>1 DEF IsDecimal
  <2>4. CASE m = 2
    <3>1. DOMAIN t.parts = {1, 2}
      BY <1>1, <2>4
    <3> QED
      BY <1>1, <2>1, <2>2, <2>4, <3>1 DEF IsDecimal
  <2> QED
    BY <1>1, <2>3, <2>4
<1> HIDE DEF w, f, c, n, m
<1>9. Number(c) = Magnitude(t)
  <2> DEFINE x == Number(w)
             B2 == x * Base * Base
  <2>1. x \in Nat /\ B2 \in Nat
    BY <1>2, <1>5
  <2>2. \A a, b \in Nat : (x * Base + a) * Base + b = x * Base * Base + (a * Base + b)
    BY <1>2, <2>1
  <2>3. CASE Len(f) = 0
    <3>1. Number(c) = (x * Base + 0) * Base + 0
      BY <1>3, <1>4, <2>3
    <3>2. Magnitude(t) = x * Base * Base + 0
      BY <1>1, <1>6, <1>7, <2>3
    <3>3. 0 * Base + 0 = 0 /\ 0 \in Nat
      BY <1>2
    <3> QED
      BY <2>2, <3>1, <3>2, <3>3
  <2>4. CASE Len(f) = 1
    <3>1. f[1] \in Nat /\ 1 <= Len(f) /\ m = 2
      BY <1>1, <1>2, <2>4
    <3>2. Number(c) = (x * Base + f[1]) * Base + 0
      BY <1>3, <1>4, <2>4
    <3>3. Magnitude(t) = x * Base * Base + f[1] * Base
      BY <1>5, <1>6, <1>7, <2>4, <3>1
    <3>4. f[1] * Base + 0 = f[1] * Base
      BY <1>2, <3>1
    <3> QED
      BY <2>2, <3>1, <3>2, <3>3, <3>4
  <2>5. CASE Len(f) = 2
    <3>1. f[1] \in Nat /\ f[2] \in Nat /\ m = 2
      BY <1>1, <1>2, <2>5
    <3>2. Number(c) = (x * Base + f[1]) * Base + f[2]
      BY <1>3, <1>4, <2>5
    <3>3. Magnitude(t) = x * Base * Base + (f[1] * Base + f[2])
      BY <1>5, <1>6, <1>7, <2>5, <3>1
    <3> QED
      BY <2>2, <3>1, <3>2, <3>3
  <2> QED
    BY <1>2, <2>3, <2>4, <2>5
<1>10. (\A j \in 1..Len(c) : c[j] # Base)
         <=> /\ \A j \in 1..n : w[j] < Base
             /\ m = 2 => \A j \in 1..Len(f) : f[j] < Base
  <2>1. 1..Len(c) = (1..n) \cup {n + 1, n + 2}
    BY <1>2, <1>3
  <2>2. (\A j \in 1..n : c[j] # Base) <=> \A j \in 1..n : w[j] < Base
    BY <1>2, <1>3
  <2>3. c[n + 1] # Base /\ c[n + 2] # Base <=> (m = 2 => \A j \in 1..Len(f) : f[j] < Base)
    <3>1. CASE Len(f) = 0
      BY <1>1, <1>2, <1>3, <3>1
    <3>2. CASE Len(f) = 1
      BY <1>1, <1>2, <1>3, <3>2
    <3>3. CASE Len(f) = 2
      BY <1>1, <1>2, <1>3, <3>3
    <3> QED
      BY <1>2, <3>1, <3>2, <3>3
  <2> QED
    BY <2>1, <2>2, <2>3
<1> QED
  BY <1>3, <1>8, <1>9, <1>10 DEF c

\* What reading a text gives: the amount it means, or a refusal for its form, its
\* sign or its magnitude.
LEMMA ParseIsExact ==
  ASSUME NEW t, IsText(t), NEW allowNegative \in BOOLEAN
  PROVE  LET read == ParseMinorUnits(t, allowNegative)
         IN  \/ /\ IsDecimal(t) /\ Magnitude(t) \in 0..MaxInt
                /\ read = Ok(IF t.negative THEN -Magnitude(t) ELSE Magnitude(t))
             \/ /\ read.failure # ""
                /\ \/ ~IsDecimal(t)
                   \/ read = Fail("INVALID_AMOUNT") /\ t.negative /\ ~allowNegative
                   \/ read = Fail("AMOUNT_OVERFLOW") /\ Magnitude(t) > MaxInt
<1> DEFINE read == Accumulate(Combined(t))
           result == ParseMinorUnits(t, allowNegative)
<1>1. CASE t.negative /\ ~allowNegative
  <2>1. result = Fail("INVALID_AMOUNT")
    BY <1>1 DEF ParseMinorUnits
  <2> QED
    BY <1>1, <2>1, ResultsAre
<1>2. CASE ~HasForm(t)
  <2>1. result = Fail("INVALID_AMOUNT")
    <3>1. \/ Len(t.parts) > 2
          \/ Len(t.parts) = 2 /\ Len(FracPart(t)) \notin 1..Scale
          \/ t.parts[1] = <<>>
      BY <1>2, PartsAre DEF HasForm
    <3> QED
      BY <3>1, Zenon DEF ParseMinorUnits
  <2>2. ~IsDecimal(t)
    <3> SUFFICES ASSUME IsDecimal(t)
                 PROVE  HasForm(t)
      BY <1>2
    <3>1. Len(t.parts) \in 1..2 /\ 1 \in DOMAIN t.parts
      BY PartsAre DEF IsDecimal
    <3>2. t.parts[1] # <<>>
      BY <3>1 DEF IsDecimal
    <3>3. Len(t.parts) = 2 => Len(FracPart(t)) \in 1..Scale
      <4> SUFFICES ASSUME Len(t.parts) = 2
                   PROVE  Len(FracPart(t)) \in 1..Scale
        OBVIOUS
      <4>1. FracPart(t) = t.parts[2] /\ FracPart(t) \in Digits /\ 2 \in DOMAIN t.parts
        BY PartsAre
      <4>2. FracPart(t) # <<>> /\ Len(FracPart(t)) <= Scale
        BY <4>1 DEF IsDecimal
      <4>3. Len(FracPart(t)) \in Nat /\ Len(FracPart(t)) # 0
        BY <4>1, <4>2, DomainIs, DigitsAre
      <4>4. \A l \in Nat : l # 0 /\ l <= Scale => l \in 1..Scale
        BY DEF Scale
      <4> QED
        BY <4>2, <4>3, <4>4, Zenon
    <3>4. \A l \in 1..2 : l <= 2
      OBVIOUS
    <3>5. Len(t.parts) <= 2
      BY <3>1, <3>4, Zenon
    <3> QED
      BY <3>2, <3>3, <3>5, Zenon DEF HasForm
  <2> QED
    BY <2>1, <2>2, ResultsAre
<1>3. CASE HasForm(t) /\ ~(t.negative /\ ~allowNegative)
  <2>1. /\ Combined(t) \in Digits
        /\ Number(Combined(t)) = Magnitude(t)
        /\ (\A j \in 1..Len(Combined(t)) : Combined(t)[j] # Base) <=> IsDecimal(t)
    BY <1>3, CombinedIsText
  <2>2. Magnitude(t) \in Nat
    BY <2>1, NumberOfFew
  <2>3. result = IF t.negative /\ read.failure = "" THEN Ok(Wrapped(-read.units)) ELSE read
    <3>1. ~(\/ t.negative /\ ~allowNegative
            \/ Len(t.parts) > 2
            \/ Len(t.parts) = 2 /\ Len(FracPart(t)) \notin 1..Scale
            \/ t.parts[1] = <<>>)
      BY <1>3, PartsAre DEF HasForm
    <3> QED
      BY <3>1, Zenon DEF ParseMinorUnits
  <2>4. \/ IsDecimal(t) /\ Magnitude(t) <= MaxInt /\ read = Ok(Magnitude(t))
        \/ /\ read.failure # ""
           /\ ~IsDecimal(t) \/ (Magnitude(t) > MaxInt /\ read = Fail("AMOUNT_OVERFLOW"))
    BY <2>1, AccumulateIsExact, Zenon
  <2> HIDE DEF read
  <2>5. CASE IsDecimal(t) /\ Magnitude(t) <= MaxInt /\ read = Ok(Magnitude(t))
    <3>1. read.failure = "" /\ read.units = Magnitude(t)
      BY <2>5, ResultsAre
    <3>2. Wrapped(-Magnitude(t)) = -Magnitude(t)
      BY <2>2, <2>5, WrappedIsIdentity, BaseIsNatural DEF Units, MinInt
    <3>3. Magnitude(t) \in 0..MaxInt
      BY <2>2, <2>5, BaseIsNatural
    <3>4. result = Ok(IF t.negative THEN -Magnitude(t) ELSE Magnitude(t))
      BY <2>3, <2>5, <3>1, <3>2, Zenon
    <3> QED
      BY <2>5, <3>3, <3>4
  <2>6. CASE /\ read.failure # ""
             /\ ~IsDecimal(t) \/ (Magnitude(t) > MaxInt /\ read = Fail("AMOUNT_OVERFLOW"))
    <3>1. result = read
      BY <2>3, <2>6
    <3> QED
      BY <2>6, <3>1
  <2> QED
    BY <2>4, <2>5, <2>6
<1> QED
  BY <1>1, <1>2, <1>3

\* Only Parse leaves a text, and starts from an amount that is not there yet.
LEMMA ReadingStep ==
  ASSUME ReadingIsExact, [Next]_vars
  PROVE  ReadingIsExact'
<1>1. ASSUME NEW t \in Texts, NEW code \in Codes, NEW allowNegative \in BOOLEAN,
             Parse(t, code, allowNegative)
      PROVE  ReadingIsExact'
  <2>1. IsText(t)
    BY InputAssumption DEF IsText
  <2>2. text' = t
    BY <1>1 DEF Parse
  <2>3. CASE ~IsCurrency(code)
    <3>1. Becomes(Fail("INVALID_INPUT"), "")
      BY <1>1, <2>3 DEF Parse
    <3>2. failure' = "INVALID_INPUT"
      BY <3>1 DEF Becomes, Fail
    <3> QED
      BY <3>2 DEF ReadingIsExact
  <2>4. CASE IsCurrency(code)
    <3> DEFINE read == ParseMinorUnits(t, allowNegative)
    <3>1. Becomes(read, code)
      BY <1>1, <2>4 DEF Parse
    <3>2. /\ failure' = read.failure
          /\ read.failure = "" => value'.units = read.units
      BY <3>1 DEF Becomes
    <3>3. \/ /\ IsDecimal(t) /\ Magnitude(t) \in 0..MaxInt
             /\ read = Ok(IF t.negative THEN -Magnitude(t) ELSE Magnitude(t))
          \/ /\ read.failure # ""
             /\ \/ ~IsDecimal(t)
                \/ read = Fail("INVALID_AMOUNT") /\ t.negative /\ ~allowNegative
                \/ read = Fail("AMOUNT_OVERFLOW") /\ Magnitude(t) > MaxInt
      BY <2>1, ParseIsExact, Zenon
    <3> HIDE DEF read
    <3>4. CASE /\ IsDecimal(t) /\ Magnitude(t) \in 0..MaxInt
               /\ read = Ok(IF t.negative THEN -Magnitude(t) ELSE Magnitude(t))
      <4>1. read.failure = "" /\ read.units = IF t.negative THEN -Magnitude(t) ELSE Magnitude(t)
        BY <3>4, ResultsAre, Zenon
      <4>2. Magnitude(t) <= MaxInt
        BY <3>4, BaseIsNatural
      <4> QED
        BY <2>2, <3>2, <3>4, <4>1, <4>2, Zenon DEF ReadingIsExact
    <3>5. CASE /\ read.failure # ""
               /\ \/ ~IsDecimal(t)
                  \/ read = Fail("INVALID_AMOUNT") /\ t.negative /\ ~allowNegative
                  \/ read = Fail("AMOUNT_OVERFLOW") /\ Magnitude(t) > MaxInt
      <4>1. /\ Fail("INVALID_AMOUNT").failure = "INVALID_AMOUNT"
            /\ Fail("AMOUNT_OVERFLOW").failure = "AMOUNT_OVERFLOW"
        BY DEF Fail
      <4>2. IsDecimal(t) => \/ failure' = "INVALID_AMOUNT" /\ t.negative
                            \/ failure' = "AMOUNT_OVERFLOW" /\ Magnitude(t) > MaxInt
        BY <3>2, <3>5, <4>1, Zenon
      <4> QED
        BY <2>2, <3>2, <3>5, <4>2, Zenon DEF ReadingIsExact
    <3> QED
      BY <3>3, <3>4, <3>5
  <2> QED
    BY <2>3, <2>4
<1>2. CASE text' = NoText
  BY <1>2 DEF ReadingIsExact
<1>3. CASE UNCHANGED vars
  <2>1. text' = text /\ value' = value /\ failure' = failure
    BY <1>3 DEF vars
  <2> QED
    BY <2>1, Zenon DEF ReadingIsExact
<1> QED
  BY <1>1, <1>2, <1>3 DEF Next, New, Plus, Minus, Negated

-----------------------------------------------------------------------------
(* Writing *)

\* One more digit at the end.
LEMMA NumberOfNext ==
  ASSUME NEW s \in Digits, NEW x \in 0..(Base - 1), \A i \in 1..Len(s) : s[i] < Base
  PROVE  /\ Append(s, x) \in Digits /\ Append(s, x) # <<>>
         /\ \A i \in 1..Len(Append(s, x)) : Append(s, x)[i] < Base
         /\ Number(Append(s, x)) = Number(s) * Base + x
<1> DEFINE c == Append(s, x)
           n == Len(s)
<1>1. n \in Nat /\ Base \in Nat /\ Base >= 2 /\ x \in 0..Base
  BY DigitsAre, BaseIsNatural
<1>2. /\ c \in Digits /\ Len(c) = n + 1 /\ c[n + 1] = x
      /\ \A i \in 1..n : c[i] = s[i]
  <2>1. \A S : \A b \in Seq(S), y \in S :
          /\ Append(b, y) \in Seq(S) /\ Len(Append(b, y)) = Len(b) + 1
          /\ Append(b, y)[Len(b) + 1] = y
          /\ \A i \in 1..Len(b) : Append(b, y)[i] = b[i]
    OBVIOUS
  <2> QED
    BY <1>1, <2>1 DEF Digits
<1> HIDE DEF c
<1>3. c # <<>>
  <2>1. Len(c) # 0
    BY <1>1, <1>2
  <2> QED
    BY <1>2, <2>1, DomainIs
<1>4. \A i \in 1..Len(c) : c[i] < Base
  <2>1. \A i \in 1..Len(c) : i \in 1..n \/ i = n + 1
    BY <1>1, <1>2
  <2>2. x < Base
    BY <1>1
  <2> QED
    BY <1>2, <2>1, <2>2
<1>5. Number(c) = Number(s) * Base + x
  <2>1. Horner(c)[n] = Number(s)
    BY <1>1, <1>2, HornerOfLonger
  <2>2. n + 1 \in 1..Len(c) /\ (n + 1) - 1 = n
    BY <1>1, <1>2
  <2>3. Horner(c)[n + 1] = Horner(c)[n] * Base + c[n + 1]
    BY <1>2, <2>2, HornerIs
  <2>4. Number(c) = Horner(c)[n + 1]
    BY <1>2 DEF Number
  <2> QED
    BY <1>2, <2>1, <2>3, <2>4
<1> QED
  BY <1>2, <1>3, <1>4, <1>5 DEF c

\* formatUint, as the function it is.
IsWritten(d, n) ==
  d = [k \in 0..n |-> IF k = 0 THEN <<>>
                      ELSE Append(d[Quotient(k, Base)], Remainder(k, Base))]

LEMMA WrittenExists ==
  ASSUME NEW n \in Nat
  PROVE  \E d : IsWritten(d, n)
<1> DEFINE T == {m \in 0..n : \E d : IsWritten(d, m)}
<1>1. \A k \in Nat : k > 0 => Quotient(k, Base) \in 0..(k - 1)
  <2>1. ASSUME NEW k \in Nat, k > 0
        PROVE  Quotient(k, Base) \in 0..(k - 1)
    <3>1. Quotient(k, Base) \in Nat /\ Quotient(k, Base) < k
      BY <2>1, Division, BaseIsNatural
    <3> QED
      BY <3>1
  <2> QED
    BY <2>1
<1>2. 0 \in T
  <2>1. IsWritten([k \in 0..0 |-> <<>>], 0)
    BY DEF IsWritten
  <2> QED
    BY <2>1
<1>3. ASSUME NEW m \in 1..n, m - 1 \in T
      PROVE  m \in T
  <2>1. PICK d : IsWritten(d, m - 1)
    BY <1>3
  <2> DEFINE g == [k \in 0..m |-> IF k = 0 THEN <<>>
                                 ELSE Append(d[Quotient(k, Base)], Remainder(k, Base))]
  <2>2. d = [k \in 0..(m - 1) |-> IF k = 0 THEN <<>>
                                 ELSE Append(d[Quotient(k, Base)], Remainder(k, Base))]
    BY <2>1 DEF IsWritten
  <2>3. \A k \in 0..(m - 1) : g[k] = d[k]
    <3>1. \A k \in 0..(m - 1) : k \in 0..m
      OBVIOUS
    <3> QED
      BY <2>2, <3>1
  <2>4. \A k \in 0..m : k # 0 => Quotient(k, Base) \in 0..(m - 1)
    BY <1>1
  <2> HIDE DEF g
  <2>5. \A k \in 0..m : k # 0 => g[Quotient(k, Base)] = d[Quotient(k, Base)]
    BY <2>3, <2>4
  <2>6. g = [k \in 0..m |-> IF k = 0 THEN <<>>
                            ELSE Append(g[Quotient(k, Base)], Remainder(k, Base))]
    BY <2>5 DEF g
  <2>7. IsWritten(g, m)
    BY <2>6 DEF IsWritten
  <2> QED
    BY <2>7
<1>4. 0..n \subseteq T
  <2> HIDE DEF T
  <2> QED
    BY <1>2, <1>3, Induction
<1> QED
  BY <1>4

\* formatUint writes digits that stand for the number.
LEMMA FormatUintIs ==
  ASSUME NEW n \in Nat
  PROVE  /\ FormatUint(n) \in Digits /\ FormatUint(n) # <<>>
         /\ \A i \in 1..Len(FormatUint(n)) : FormatUint(n)[i] < Base
         /\ Number(FormatUint(n)) = n
<1> DEFINE d == CHOOSE f : IsWritten(f, n)
           Right(k) == /\ d[k] \in Digits
                       /\ \A i \in 1..Len(d[k]) : d[k][i] < Base
                       /\ Number(d[k]) = k
                       /\ k > 0 => d[k] # <<>>
           S == {m \in 0..n : \A k \in 0..m : Right(k)}
<1>1. FormatUint(n) = IF n = 0 THEN <<0>> ELSE d[n]
  BY DEF FormatUint, IsWritten, Quotient, Remainder
<1>2. IsWritten(d, n)
  BY WrittenExists
<1> HIDE DEF d
<1>3. /\ d[0] = <<>>
      /\ \A k \in 1..n : d[k] = Append(d[Quotient(k, Base)], Remainder(k, Base))
  <2>1. 0 \in 0..n /\ \A k \in 1..n : k \in 0..n /\ k # 0
    OBVIOUS
  <2> QED
    BY <1>2, <2>1 DEF IsWritten
<1>4. <<>> \in Digits /\ Len(<<>>) = 0
  BY DEF Digits
<1>5. Right(0)
  <2>1. Number(<<>>) = 0
    BY <1>4, NumberOfFew
  <2>2. \A i \in 1..Len(<<>>) : FALSE
    BY <1>4
  <2>3. ~(0 > 0)
    OBVIOUS
  <2> QED
    BY <1>3, <1>4, <2>1, <2>2, <2>3, Zenon
<1>6. ASSUME NEW k \in 1..n, \A j \in 0..(k - 1) : Right(j)
      PROVE  Right(k)
  <2> DEFINE q == Quotient(k, Base)
             r == Remainder(k, Base)
  <2>1. q \in Nat /\ q < k /\ r \in 0..(Base - 1) /\ k = q * Base + r
    BY Division, BaseIsNatural
  <2> HIDE DEF q, r
  <2>2. q \in 0..(k - 1)
    BY <2>1
  <2>3. Right(q)
    BY <1>6, <2>2
  <2>4. d[k] = Append(d[q], r)
    BY <1>3 DEF q, r
  <2>5. /\ d[q] \in Digits /\ Number(d[q]) = q
        /\ \A i \in 1..Len(d[q]) : d[q][i] < Base
    BY <2>3
  <2>6. /\ d[k] \in Digits /\ d[k] # <<>>
        /\ \A i \in 1..Len(d[k]) : d[k][i] < Base
        /\ Number(d[k]) = q * Base + r
    BY <2>1, <2>4, <2>5, NumberOfNext
  <2> QED
    BY <2>1, <2>6, Zenon
<1> HIDE DEF Right
<1>7. 0..n \subseteq S
  <2>1. 0 \in S
    BY <1>5
  <2>2. ASSUME NEW m \in 1..n, m - 1 \in S
        PROVE  m \in S
    <3>1. \A k \in 0..(m - 1) : Right(k)
      BY <2>2
    <3>2. Right(m)
      BY <1>6, <3>1
    <3>3. m \in 0..n /\ \A k \in 0..m : k \in 0..(m - 1) \/ k = m
      OBVIOUS
    <3> QED
      BY <3>1, <3>2, <3>3
  <2> HIDE DEF S
  <2> QED
    BY <2>1, <2>2, Induction
<1>8. Right(n)
  <2>1. n \in S /\ n \in 0..n
    BY <1>7
  <2> QED
    BY <2>1
<1>9. CASE n = 0
  <2>1. FormatUint(n) = <<0>>
    BY <1>1, <1>9
  <2>2. <<0>> = Append(<<>>, 0)
    OBVIOUS
  <2>3. 0 \in 0..(Base - 1)
    BY BaseIsNatural
  <2>4. /\ <<0>> \in Digits /\ <<0>> # <<>>
        /\ \A i \in 1..Len(<<0>>) : <<0>>[i] < Base
        /\ Number(<<0>>) = Number(<<>>) * Base + 0
    <3>1. \A i \in 1..Len(<<>>) : <<>>[i] < Base
      BY <1>4
    <3> QED
      BY <1>4, <2>2, <2>3, <3>1, NumberOfNext
  <2>5. Number(<<0>>) = 0
    BY <1>4, <2>4, NumberOfFew, BaseIsNatural
  <2> QED
    BY <1>9, <2>1, <2>4, <2>5
<1>10. CASE n # 0
  <2>1. FormatUint(n) = d[n] /\ n > 0
    BY <1>1, <1>10
  <2> QED
    BY <1>8, <2>1 DEF Right
<1> QED
  BY <1>9, <1>10

LEMMA AbsIs ==
  ASSUME NEW u \in Units
  PROVE  Abs(u) = (IF u < 0 THEN -u ELSE u) /\ Abs(u) \in Nat
<1>1. MaxInt \in Nat /\ u \in Int /\ -MaxInt - 1 <= u /\ u <= MaxInt
  BY WidthAssumption DEF Units, MinInt
<1>2. CASE u < 0
  <2>1. -(u + 1) \in Units
    BY <1>1, <1>2 DEF Units, MinInt
  <2>2. Wrapped(-(u + 1)) = -(u + 1)
    BY <2>1, WrappedIsIdentity
  <2> QED
    BY <1>1, <1>2, <2>2 DEF Abs
<1>3. CASE ~(u < 0)
  BY <1>1, <1>3 DEF Abs
<1> QED
  BY <1>2, <1>3

\* The two digits of the fraction stand for it.
LEMMA FractionIs ==
  ASSUME NEW r \in 0..(ScaleFactor - 1)
  PROVE  /\ Fraction(r) \in Digits /\ Len(Fraction(r)) = 2
         /\ \A i \in 1..2 : Fraction(r)[i] < Base
         /\ Number(Fraction(r)) = r
<1> DEFINE a == Quotient(r, Base)
           b == Remainder(r, Base)
<1>1. Base \in Nat /\ Base >= 2 /\ r \in Nat /\ r < Base * Base
  BY BaseIsNatural DEF ScaleFactor
<1>2. a \in Nat /\ b \in 0..(Base - 1) /\ r = a * Base + b
  BY <1>1, Division
<1> HIDE DEF a, b
<1>3. a < Base
  <2>1. a >= Base => a * Base >= Base * Base
    BY <1>1, <1>2
  <2> DEFINE x == a * Base
             y == Base * Base
  <2>2. x \in Nat /\ y \in Nat
    BY <1>1, <1>2
  <2> HIDE DEF x, y
  <2>3. r < y /\ r = x + b /\ (a >= Base => x >= y)
    BY <1>1, <1>2, <2>1 DEF x, y
  <2> QED
    BY <1>1, <1>2, <2>2, <2>3
<1>4. Fraction(r) = <<a, b>>
  BY DEF Fraction, a, b, Quotient, Remainder
<1>5. a \in 0..Base /\ b \in 0..Base /\ b < Base
  BY <1>1, <1>2, <1>3
<1>6. <<a, b>> \in Digits /\ Len(<<a, b>>) = 2 /\ <<a, b>>[1] = a /\ <<a, b>>[2] = b
  <2>1. \A S : \A x, y \in S : <<x, y>> \in Seq(S)
    OBVIOUS
  <2>2. <<a, b>> \in Digits
    BY <1>5, <2>1 DEF Digits
  <2> QED
    BY <2>2
<1>7. Number(<<a, b>>) = a * Base + b
  BY <1>6, NumberOfFew
<1>8. \A i \in 1..2 : i = 1 \/ i = 2
  OBVIOUS
<1> QED
  BY <1>2, <1>3, <1>4, <1>5, <1>6, <1>7, <1>8

\* What is written is the decimal of the amount.
LEMMA AmountIs ==
  ASSUME NEW u \in Units
  PROVE  /\ IsText(Amount(u)) /\ IsDecimal(Amount(u))
         /\ Magnitude(Amount(u)) = Abs(u)
         /\ Amount(u).negative = (u < 0)
<1> DEFINE a == Abs(u)
           q == Quotient(a, ScaleFactor)
           r == Remainder(a, ScaleFactor)
           w == FormatUint(q)
           f == Fraction(r)
           t == Amount(u)
<1>1. a \in Nat /\ ScaleFactor \in Nat /\ ScaleFactor >= 2 /\ Base \in Nat
  <2>1. Base * Base >= 2 /\ Base * Base \in Nat
    BY BaseIsNatural
  <2> QED
    BY <2>1, AbsIs, BaseIsNatural DEF ScaleFactor
<1>2. q \in Nat /\ r \in 0..(ScaleFactor - 1) /\ a = q * ScaleFactor + r
  <2> HIDE DEF a
  <2> QED
    BY <1>1, Division
<1>3. t.negative = (u < 0) /\ t.parts = <<w, f>>
  BY DEF Amount, Quotient, Remainder
<1> HIDE DEF a, q, r, t
<1>4. /\ w \in Digits /\ w # <<>> /\ Number(w) = q
      /\ \A i \in 1..Len(w) : w[i] < Base
  BY <1>2, FormatUintIs
<1>5. /\ f \in Digits /\ Len(f) = 2 /\ Number(f) = r
      /\ \A i \in 1..2 : f[i] < Base
  BY <1>2, FractionIs
<1> HIDE DEF w, f
<1>6. IsText(t)
  <2>1. \A S : \A x, y \in S : <<x, y>> \in Seq(S) \ {<<>>}
    OBVIOUS
  <2>2. <<w, f>> \in Seq(Seq(0..Base)) \ {<<>>}
    BY <1>4, <1>5, <2>1 DEF Digits
  <2>3. (u < 0) \in BOOLEAN
    OBVIOUS
  <2> QED
    BY <1>3, <2>2, <2>3, Zenon DEF IsText
<1>7. Len(t.parts) = 2 /\ t.parts[1] = w /\ t.parts[2] = f /\ DOMAIN t.parts = {1, 2}
  BY <1>3
<1>8. DOMAIN w = 1..Len(w) /\ DOMAIN f = 1..2 /\ f # <<>>
  BY <1>4, <1>5, DomainIs
<1>9. IsDecimal(t)
  <2>1. 2 \in 1..2 /\ 2 <= Scale
    BY DEF Scale
  <2> QED
    BY <1>4, <1>5, <1>7, <1>8, <2>1 DEF IsDecimal
<1>10. Magnitude(t) = a
  <2>1. Scale = 2 /\ Scale - 2 = 0
    BY DEF Scale
  <2>2. Magnitude(t) = Weight(w, 2) + Weight(f, 0)
    BY <1>5, <1>7, <2>1 DEF Magnitude
  <2>3. Magnitude(t) = q * Base * Base + r
    BY <1>4, <1>5, <2>2, WeightIs
  <2>4. q * Base * Base = q * ScaleFactor
    BY <1>1, <1>2 DEF ScaleFactor
  <2> QED
    BY <1>2, <2>3, <2>4
<1> QED
  BY <1>3, <1>6, <1>9, <1>10 DEF t, a

LEMMA WritingIs ==
  ASSUME value.units \in Units
  PROVE  WritingIsExact
<1> DEFINE u == value.units
           t == Amount(u)
           m == Magnitude(t)
           read == ParseMinorUnits(t, TRUE)
<1>1. u \in Units /\ u \in Int /\ MaxInt \in Nat /\ MinInt = -MaxInt - 1 /\ u >= MinInt /\ u <= MaxInt
  BY WidthAssumption DEF Units, MinInt
<1>2. IsText(t) /\ IsDecimal(t) /\ m = Abs(u) /\ t.negative = (u < 0)
  BY AmountIs
<1>3. \/ m \in 0..MaxInt /\ read = Ok(IF t.negative THEN -m ELSE m)
      \/ read = Fail("AMOUNT_OVERFLOW") /\ m > MaxInt
  BY <1>2, ParseIsExact, Zenon
<1>4. m = (IF u < 0 THEN -u ELSE u)
  BY <1>1, <1>2, AbsIs
<1> HIDE DEF t, m, read
<1>5. WritingIsExact <=> read = IF u = MinInt THEN Fail("AMOUNT_OVERFLOW") ELSE Ok(u)
  BY DEF WritingIsExact, read, t
<1> HIDE DEF u
<1>6. CASE m \in 0..MaxInt /\ read = Ok(IF t.negative THEN -m ELSE m)
  <2>1. u # MinInt
    BY <1>1, <1>4, <1>6
  <2>2. (IF u < 0 THEN -m ELSE m) = u
    BY <1>1, <1>4
  <2>3. (IF t.negative THEN -m ELSE m) = u
    BY <1>2, <2>2, Zenon
  <2> QED
    BY <1>5, <1>6, <2>1, <2>3
<1>7. CASE read = Fail("AMOUNT_OVERFLOW") /\ m > MaxInt
  <2>1. u = MinInt
    BY <1>1, <1>4, <1>7
  <2> QED
    BY <1>5, <1>7, <2>1
<1> QED
  BY <1>3, <1>6, <1>7

-----------------------------------------------------------------------------

LEMMA WrappedFits ==
  ASSUME NEW n \in Int
  PROVE  Wrapped(n) \in Units
<1> DEFINE m == 2 * (MaxInt + 1)
           x == n + MaxInt + 1
<1>1. MaxInt \in Nat /\ m \in Nat /\ m > 0 /\ x \in Int
  BY WidthAssumption
<1>2. \A k \in Nat, y \in Int : k > 0 => y % k \in 0..(k - 1)
  OBVIOUS
<1>3. x % m \in 0..(m - 1)
  <2> HIDE DEF m, x
  <2> QED
    BY <1>1, <1>2
<1> DEFINE rest == x % m
<1>4. Wrapped(n) = rest - (MaxInt + 1)
  BY DEF Wrapped
<1> HIDE DEF rest
<1>5. rest \in 0..(m - 1)
  BY <1>3 DEF rest
<1> QED
  BY <1>1, <1>4, <1>5 DEF Units, MinInt

\* What succeeds gives an amount of the width of the machine.
LEMMA UnitsStep ==
  ASSUME value.units \in Units, [Next]_vars
  PROVE  value'.units \in Units
<1>1. ASSUME NEW read, NEW code, Becomes(read, code), read.failure = "" => read.units \in Units
      PROVE  value'.units \in Units
  BY <1>1 DEF Becomes
<1>2. ASSUME NEW t \in Texts, NEW code \in Codes, NEW allowNegative \in BOOLEAN,
             Parse(t, code, allowNegative)
      PROVE  value'.units \in Units
  <2>1. Fail("INVALID_INPUT").failure # ""
    BY DEF Fail
  <2>2. ParseMinorUnits(t, allowNegative).failure = ""
          => ParseMinorUnits(t, allowNegative).units \in Units
    <3> DEFINE read == ParseMinorUnits(t, allowNegative)
               m == Magnitude(t)
    <3>1. IsText(t)
      BY InputAssumption DEF IsText
    <3>2. \/ m \in 0..MaxInt /\ read = Ok(IF t.negative THEN -m ELSE m)
          \/ read.failure # ""
      BY <3>1, ParseIsExact, Zenon
    <3> HIDE DEF read, m
    <3>3. m \in 0..MaxInt => m \in Units /\ -m \in Units
      BY WidthAssumption DEF Units, MinInt
    <3>4. m \in 0..MaxInt => (IF t.negative THEN -m ELSE m) \in Units
      BY <3>3, Zenon
    <3>5. read.failure = "" => read.units \in Units
      BY <3>2, <3>4, ResultsAre, Zenon
    <3> QED
      BY <3>5 DEF read
  <2>3. CASE IsCurrency(code)
    <3>1. Becomes(ParseMinorUnits(t, allowNegative), code)
      BY <1>2, <2>3 DEF Parse
    <3> QED
      BY <1>1, <2>2, <3>1
  <2>4. CASE ~IsCurrency(code)
    <3>1. Becomes(Fail("INVALID_INPUT"), "")
      BY <1>2, <2>4 DEF Parse
    <3> QED
      BY <1>1, <2>1, <3>1
  <2> QED
    BY <2>3, <2>4
<1>3. ASSUME NEW units \in Units, NEW currency, New(units, currency)
      PROVE  value'.units \in Units
  <2>1. Fail("INVALID_INPUT").failure # "" /\ Ok(units).units = units
    BY ResultsAre DEF Fail
  <2>2. CASE currency = ""
    <3>1. Becomes(Fail("INVALID_INPUT"), currency)
      BY <1>3, <2>2 DEF New
    <3> QED
      BY <1>1, <2>1, <3>1
  <2>3. CASE currency # ""
    <3>1. Becomes(Ok(units), currency)
      BY <1>3, <2>3 DEF New
    <3> QED
      BY <1>1, <2>1, <3>1
  <2> QED
    BY <2>2, <2>3
\* The arithmetic fails, or answers with what fits.
<1>4. ASSUME NEW read, NEW code, Becomes(read, code), NEW n \in Int,
             read.failure # "" \/ read = Ok(Wrapped(n))
      PROVE  value'.units \in Units
  <2>1. read = Ok(Wrapped(n)) => read.units \in Units
    BY WrappedFits, ResultsAre
  <2> QED
    BY <1>1, <1>4, <2>1
<1>5. \A c : Fail(c).failure = c
  BY DEF Fail
<1>6. ASSUME NEW m \in Operands
      PROVE  value.units + m.units \in Int /\ value.units - m.units \in Int
  <2>1. m.units \in Units
    BY InputAssumption DEF Units, MinInt
  <2>2. \A x, y \in Units : x + y \in Int /\ x - y \in Int
    BY WidthAssumption DEF Units, MinInt
  <2> QED
    BY <2>1, <2>2
<1>7. ASSUME NEW m \in Operands, Plus(m)
      PROVE  value'.units \in Units
  <2>1. Add(value, m).failure # "" \/ Add(value, m) = Ok(Wrapped(value.units + m.units))
    <3>1. \/ Add(value, m) = Fail(Mismatch(value, m)) /\ Mismatch(value, m) # ""
          \/ Add(value, m) = Fail("AMOUNT_OVERFLOW")
          \/ Add(value, m) = Ok(Wrapped(value.units + m.units))
      BY Zenon DEF Add
    <3> QED
      BY <1>5, <3>1, ResultsAre, Zenon
  <2> QED
    BY <1>4, <1>6, <1>7, <2>1 DEF Plus
<1>8. ASSUME NEW m \in Operands, Minus(m)
      PROVE  value'.units \in Units
  <2>1. Sub(value, m).failure # "" \/ Sub(value, m) = Ok(Wrapped(value.units - m.units))
    <3>1. \/ Sub(value, m) = Fail(Mismatch(value, m)) /\ Mismatch(value, m) # ""
          \/ Sub(value, m) = Fail("AMOUNT_OVERFLOW")
          \/ Sub(value, m) = Ok(Wrapped(value.units - m.units))
      BY Zenon DEF Sub
    <3> QED
      BY <1>5, <3>1, ResultsAre, Zenon
  <2> QED
    BY <1>4, <1>6, <1>8, <2>1 DEF Minus
<1>9. ASSUME Negated
      PROVE  value'.units \in Units
  <2>1. -value.units \in Int
    BY WidthAssumption DEF Units, MinInt
  <2>2. Neg(value).failure # "" \/ Neg(value) = Ok(Wrapped(-value.units))
    <3>1. \/ Neg(value) = Fail("INVALID_INPUT") \/ Neg(value) = Fail("AMOUNT_OVERFLOW")
          \/ Neg(value) = Ok(Wrapped(-value.units))
      BY Zenon DEF Neg
    <3>2. Fail("INVALID_INPUT").failure # ""
      BY DEF Fail
    <3> QED
      BY <3>1, <3>2, ResultsAre, Zenon
  <2> QED
    BY <1>4, <1>9, <2>1, <2>2 DEF Negated
<1>10. CASE UNCHANGED vars
  BY <1>10 DEF vars
<1> QED
  BY <1>2, <1>3, <1>7, <1>8, <1>9, <1>10 DEF Next

\* parseMinorUnits: what is accepted is exact, and what is refused had to be.
THEOREM ReadingExact == Spec => []ReadingIsExact
<1>1. Init => ReadingIsExact
  BY DEF Init, ReadingIsExact
<1>2. ReadingIsExact /\ [Next]_vars => ReadingIsExact'
  BY ReadingStep
<1> QED
  BY <1>1, <1>2, PTL DEF Spec

\* Money.Amount: what is written is read back as what it was written for.
THEOREM WritingExact == Spec => []WritingIsExact
<1> DEFINE Fits == value.units \in Units
<1>1. Init => Fits
  <2>1. 0 \in Units
    BY WidthAssumption DEF Units, MinInt
  <2>2. Uninitialised.units = 0
    BY DEF Uninitialised
  <2> QED
    BY <2>1, <2>2, Zenon DEF Init
<1>2. Fits /\ [Next]_vars => Fits'
  BY UnitsStep
<1>3. Fits => WritingIsExact
  BY WritingIs
<1> QED
  BY <1>1, <1>2, <1>3, PTL DEF Spec

=============================================================================
