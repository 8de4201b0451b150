--------------------------------- MODULE Money ---------------------------------
(* The value object for amounts: reading and writing decimal texts, and         *)
(* addition, subtraction and sign at the width of the machine.                  *)
(*                                                                              *)
(* Base is 10 and MaxInt is math.MaxInt64 in the code.  A text is what its sign *)
(* and its separators make of it: digits 0..Base-1, and Base for any character  *)
(* that is no digit.                                                            *)
EXTENDS Integers, Sequences

CONSTANTS
  Base, MaxInt,
  Codes, WellFormed,   \* currency codes, and those of three uppercase letters
  Texts,               \* the texts a client may send
  Operands             \* what is added or subtracted

ASSUME WidthAssumption ==
  Base \in Nat /\ Base >= 2 /\ MaxInt \in Nat /\ MaxInt >= Base * Base
ASSUME InputAssumption ==
  /\ WellFormed \subseteq Codes /\ "" \notin WellFormed
  /\ \A t \in Texts : t.negative \in BOOLEAN /\ t.parts \in Seq(Seq(0..Base)) \ {<<>>}
  /\ \A m \in Operands : m.units \in (-MaxInt - 1)..MaxInt /\ m.currency \in WellFormed \cup {""}

VARIABLES
  value,     \* the Money at hand
  text,      \* what it was read from
  failure    \* of the last operation, "" when it succeeded

vars == <<value, text, failure>>

Scale == 2
ScaleFactor == Base * Base
MinInt == -MaxInt - 1
Units == MinInt..MaxInt
Amounts == [units : Units, currency : WellFormed]
Uninitialised == [units |-> 0, currency |-> ""]
NoText == [negative |-> FALSE, parts |-> <<>>]

\* Integers of the machine: what does not fit comes back from the other end.
Wrapped(n) == ((n + MaxInt + 1) % (2 * (MaxInt + 1))) - (MaxInt + 1)

Ok(units) == [units |-> units, failure |-> ""]
Fail(code) == [units |-> 0, failure |-> code]

-----------------------------------------------------------------------------
(* Reading *)

FitsWithoutDigit(units, digit) == units <= MaxInt \div Base
FitsNext(units, digit) == units <= (MaxInt - digit) \div Base

\* The digits one by one, refusing before the next one would not fit.
Accumulate(digits) ==
  LET so[i \in 0..Len(digits)] ==
        IF i = 0 THEN Ok(0)
        ELSE IF so[i - 1].failure # "" THEN so[i - 1]
        ELSE IF digits[i] = Base THEN Fail("INVALID_AMOUNT")
        ELSE IF ~FitsNext(so[i - 1].units, digits[i]) THEN Fail("AMOUNT_OVERFLOW")
        ELSE Ok(Wrapped(so[i - 1].units * Base + digits[i]))
  IN  so[Len(digits)]

FracPart(t) == IF Len(t.parts) = 2 THEN t.parts[2] ELSE <<>>
Combined(t) == t.parts[1] \o FracPart(t) \o [i \in 1..(Scale - Len(FracPart(t))) |-> 0]

ParseMinorUnits(t, allowNegative) ==
  LET read == Accumulate(Combined(t))
  IN  IF \/ t.negative /\ ~allowNegative
         \/ Len(t.parts) > 2
         \/ Len(t.parts) = 2 /\ Len(FracPart(t)) \notin 1..Scale
         \/ t.parts[1] = <<>>
      THEN Fail("INVALID_AMOUNT")
      ELSE IF t.negative /\ read.failure = "" THEN Ok(Wrapped(-read.units)) ELSE read

-----------------------------------------------------------------------------
(* Writing *)

FormatUint(n) ==
  LET digits[k \in 0..n] == IF k = 0 THEN <<>> ELSE Append(digits[k \div Base], k % Base)
  IN  IF n = 0 THEN <<0>> ELSE digits[n]

Abs(units) == IF units < 0 THEN Wrapped(-(units + 1)) + 1 ELSE units

FractionUnpadded(n) == FormatUint(n)
Fraction(n) == <<n \div Base, n % Base>>

Amount(units) ==
  [negative |-> units < 0,
   parts    |-> <<FormatUint(Abs(units) \div ScaleFactor), Fraction(Abs(units) % ScaleFactor)>>]

-----------------------------------------------------------------------------
(* Arithmetic *)

Mismatch(a, b) ==
  IF a.currency = "" \/ b.currency = "" THEN "INVALID_INPUT"
  ELSE IF a.currency # b.currency THEN "CURRENCY_MISMATCH" ELSE ""

AddUnguarded(a, b) ==
  IF Mismatch(a, b) # "" THEN Fail(Mismatch(a, b)) ELSE Ok(Wrapped(a.units + b.units))
Add(a, b) ==
  IF Mismatch(a, b) # "" THEN Fail(Mismatch(a, b))
  ELSE IF \/ b.units > 0 /\ a.units > Wrapped(MaxInt - b.units)
          \/ b.units < 0 /\ a.units < Wrapped(MinInt - b.units)
       THEN Fail("AMOUNT_OVERFLOW")
  ELSE Ok(Wrapped(a.units + b.units))

Sub(a, b) ==
  IF Mismatch(a, b) # "" THEN Fail(Mismatch(a, b))
  ELSE IF \/ b.units < 0 /\ a.units > Wrapped(MaxInt + b.units)
          \/ b.units > 0 /\ a.units < Wrapped(MinInt + b.units)
       THEN Fail("AMOUNT_OVERFLOW")
  ELSE Ok(Wrapped(a.units - b.units))

Neg(a) ==
  IF a.currency = "" THEN Fail("INVALID_INPUT")
  ELSE IF a.units = MinInt THEN Fail("AMOUNT_OVERFLOW")
  ELSE Ok(Wrapped(-a.units))

-----------------------------------------------------------------------------
(* A value comes from a text or a row, and goes through operations.  An        *)
(* operation that fails leaves the caller with the value it had.               *)

Init == value = Uninitialised /\ text = NoText /\ failure = ""

Becomes(result, currency) ==
  /\ failure' = result.failure
  /\ value' = IF result.failure = "" THEN [units |-> result.units, currency |-> currency]
              ELSE value

IsCurrency(code) == code \in WellFormed

\* Parse, of what a client sends; and ParseSigned.
Parse(t, code, allowNegative) ==
  /\ value = Uninitialised /\ text = NoText
  /\ text' = t
  /\ IF ~IsCurrency(code)
     THEN Becomes(Fail("INVALID_INPUT"), "")
     ELSE Becomes(ParseMinorUnits(t, allowNegative), code)

\* New, of what is stored.
New(units, currency) ==
  /\ value = Uninitialised
  /\ Becomes(IF currency = "" THEN Fail("INVALID_INPUT") ELSE Ok(units), currency)
  /\ text' = NoText

Plus(m) == Becomes(Add(value, m), value.currency) /\ text' = NoText
Minus(m) == Becomes(Sub(value, m), value.currency) /\ text' = NoText
Negated == Becomes(Neg(value), value.currency) /\ text' = NoText

Next ==
  \/ \E t \in Texts, code \in Codes, allowNegative \in BOOLEAN : Parse(t, code, allowNegative)
  \/ \E units \in Units, currency \in WellFormed \cup {""} : New(units, currency)
  \/ \E m \in Operands : Plus(m) \/ Minus(m)
  \/ Negated

Spec == Init /\ [][Next]_vars

-----------------------------------------------------------------------------
(* Properties *)

\* What a text means, whatever fits.
IsDecimal(t) ==
  /\ Len(t.parts) \in 1..2
  /\ \A i \in DOMAIN t.parts : t.parts[i] # <<>> /\ \A j \in DOMAIN t.parts[i] : t.parts[i][j] < Base
  /\ Len(t.parts) = 2 => Len(t.parts[2]) <= Scale
\* Each digit counts for its place; the last one of these for place last.
Weight(digits, last) ==
  LET place[k \in 0..(last + Len(digits))] == IF k = 0 THEN 1 ELSE Base * place[k - 1]
      sum[i \in 0..Len(digits)] ==
        IF i = 0 THEN 0 ELSE sum[i - 1] + digits[i] * place[last + Len(digits) - i]
  IN  sum[Len(digits)]
Magnitude(t) ==
  Weight(t.parts[1], Scale)
    + IF Len(t.parts) = 2 THEN Weight(t.parts[2], Scale - Len(t.parts[2])) ELSE 0

\* Parse accepts the decimals that fit and nothing else, as the amount they mean;
\* a decimal is refused only for its currency, its sign or its magnitude.
ReadingIsExact ==
  text # NoText =>
    IF failure = ""
    THEN /\ IsDecimal(text) /\ Magnitude(text) <= MaxInt
         /\ value.units = IF text.negative THEN -Magnitude(text) ELSE Magnitude(text)
    ELSE IsDecimal(text) =>
           \/ failure = "INVALID_INPUT"
           \/ failure = "INVALID_AMOUNT" /\ text.negative
           \/ failure = "AMOUNT_OVERFLOW" /\ Magnitude(text) > MaxInt

\* The normal form is read back as the amount it was written for, so equal
\* amounts and only they have equal payloads.  The smallest integer is the
\* exception: it is written, and refused when read.
WritingIsExact ==
  LET t == Amount(value.units)
  IN  ParseMinorUnits(t, TRUE) =
        IF value.units = MinInt THEN Fail("AMOUNT_OVERFLOW") ELSE Ok(value.units)

\* Sum, difference and negation of amounts are the exact ones when these fit, and
\* are refused exactly when they do not.
Exactly(exact) ==
  IF exact \in Units THEN failure' = "" /\ value'.units = exact
  ELSE failure' = "AMOUNT_OVERFLOW" /\ value' = value
ArithmeticIsExact ==
  [][(value \in Amounts) =>
       /\ \A m \in Operands : m.currency = value.currency =>
            /\ Plus(m) => Exactly(value.units + m.units)
            /\ Minus(m) => Exactly(value.units - m.units)
       /\ Negated => Exactly(-value.units)]_vars

=============================================================================
