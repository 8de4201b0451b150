------------------------ MODULE ReferenceRetriesProofs ------------------------
(***************************************************************************)
(* Workers take any time over what they have in hand.  For every number of *)
(* workers and operations and every policy: of the workers that have an    *)
(* operation in hand one at most is within its lease and not overtaken,    *)
(* and no attempt begins too early unless its worker was overtaken.        *)
(*                                                                         *)
(* What is in hand in time is not due before the lease ends, because no-   *)
(* thing but an attempt moves the next attempt forward, and an attempt by  *)
(* another is what being overtaken means.  The time since the last attempt *)
(* and the wait for the next add up to the backoff, which is at least the  *)
(* base delay doubled after each attempt, up to the cap, and never wraps.  *)
(***************************************************************************)
EXTENDS ReferenceRetries, WellFoundedInduction, TLAPS

-----------------------------------------------------------------------------
(* The policy *)

LEMMA Induction ==
  ASSUME NEW S \in SUBSET Nat, 0 \in S, \A n \in S : n + 1 \in S
  PROVE  S = Nat
<1> SUFFICES ASSUME Nat \ S # {} PROVE FALSE
  OBVIOUS
<1> DEFINE R == OpToRel(<, Nat)
<1>1. IsWellFoundedOn(R, Nat)
  BY NatLessThanWellFounded
<1>2. \A m, n \in Nat : m < n => <<m, n>> \in R
  BY DEF OpToRel
<1> HIDE DEF R
<1>3. PICK x \in Nat \ S : \A y \in Nat \ S : <<y, x>> \notin R
  BY <1>1, WFMin
<1>4. x # 0 /\ x - 1 \in Nat /\ x - 1 < x
  OBVIOUS
<1>5. x - 1 \in S
  BY <1>2, <1>3, <1>4
<1> QED
  BY <1>4, <1>5

\* The loop of backoff, and the doubling without the cap, as the functions they are.
IsDelay(d, n) ==
  d = [i \in 1..n |-> IF i = 1 THEN BaseDelay
                      ELSE IF d[i - 1] >= MaxDelay \div 2 THEN MaxDelay
                      ELSE Wrapped(2 * d[i - 1])]
IsDoubled(d, n) ==
  d = [i \in 1..n |-> IF i = 1 THEN BaseDelay ELSE 2 * d[i - 1]]

\* The recursions have a solution of every length: one round is added to the others.
LEMMA DelaysExist ==
  ASSUME NEW n \in Nat
  PROVE  (\E d : IsDelay(d, n)) /\ (\E d : IsDoubled(d, n))
<1> DEFINE S == {m \in Nat : (\E d : IsDelay(d, m)) /\ (\E d : IsDoubled(d, m))}
<1>1. 0 \in S
  <2>1. IsDelay([i \in 1..0 |-> 0], 0) /\ IsDoubled([i \in 1..0 |-> 0], 0)
    BY DEF IsDelay, IsDoubled
  <2> QED
    BY <2>1
<1>2. ASSUME NEW m \in S
      PROVE  m + 1 \in S
  <2>1. PICK d : IsDelay(d, m)
    OBVIOUS
  <2>2. PICK b : IsDoubled(b, m)
    OBVIOUS
  <2>3. IsDelay([i \in 1..(m + 1) |->
                   IF i \in 1..m THEN d[i]
                   ELSE IF i = 1 THEN BaseDelay
                   ELSE IF d[i - 1] >= MaxDelay \div 2 THEN MaxDelay
                   ELSE Wrapped(2 * d[i - 1])], m + 1)
    BY <2>1 DEF IsDelay
  <2>4. IsDoubled([i \in 1..(m + 1) |->
                     IF i \in 1..m THEN b[i]
                     ELSE IF i = 1 THEN BaseDelay ELSE 2 * b[i - 1]], m + 1)
    BY <2>2 DEF IsDoubled
  <2> QED
    BY <2>3, <2>4
<1> HIDE DEF S
<1>3. S = Nat
  BY <1>1, <1>2, Induction DEF S
<1> QED
  BY <1>3 DEF S

LEMMA WrappedIsIdentity ==
  ASSUME NEW d \in 0..MaxDuration
  PROVE  Wrapped(d) = d
<1>1. MaxDuration \in Nat
  BY PolicyAssumption
<1>2. \A k, x \in Nat : x < k => x % k = x
  OBVIOUS
<1>3. /\ d + MaxDuration + 1 \in Nat /\ 2 * (MaxDuration + 1) \in Nat
      /\ d + MaxDuration + 1 < 2 * (MaxDuration + 1)
  BY <1>1
<1>4. (d + MaxDuration + 1) % (2 * (MaxDuration + 1)) = d + MaxDuration + 1
  BY <1>2, <1>3
<1> QED
  BY <1>1, <1>4 DEF Wrapped

\* One round: what is doubled is below half of the cap, so it fits, and it was
\* not capped before.
LEMMA DelaysAreEnough ==
  ASSUME NEW n \in Nat, NEW d, NEW b, IsDelay(d, n), IsDoubled(b, n),
         NEW i \in 1..n
  PROVE  d[i] \in 1..MaxDelay /\ b[i] \in Nat /\ d[i] >= Smaller(b[i], MaxDelay)
<1>1. BaseDelay \in Nat \ {0} /\ MaxDelay \in BaseDelay..MaxDuration /\ MaxDuration \in Nat
  BY PolicyAssumption
<1> DEFINE Enough(m) == d[m] \in 1..MaxDelay /\ b[m] \in Nat /\ d[m] >= Smaller(b[m], MaxDelay)
           S == {m \in Nat : m \in 1..n => Enough(m)}
<1>2. 0 \in S
  OBVIOUS
<1>3. ASSUME NEW m \in S, m + 1 \in 1..n
      PROVE  Enough(m + 1)
  <2>1. CASE m = 0
    <3>1. d[1] = BaseDelay /\ b[1] = BaseDelay
      BY <1>3, <2>1 DEF IsDelay, IsDoubled
    <3> QED
      BY <1>1, <2>1, <3>1 DEF Smaller
  <2>2. CASE m # 0
    <3>1. Enough(m)
      BY <1>3, <2>2
    <3>2. /\ d[m + 1] = IF d[m] >= MaxDelay \div 2 THEN MaxDelay ELSE Wrapped(2 * d[m])
          /\ b[m + 1] = 2 * b[m]
      <4>1. m + 1 # 1 /\ (m + 1) - 1 = m
        BY <2>2
      <4> QED
        BY <1>3, <4>1 DEF IsDelay, IsDoubled
    <3> HIDE DEF Enough
    <3>3. CASE d[m] >= MaxDelay \div 2
      <4>1. d[m + 1] = MaxDelay /\ b[m + 1] \in Nat
        BY <3>1, <3>2, <3>3 DEF Enough
      <4> QED
        BY <1>1, <4>1 DEF Smaller, Enough
    <3>4. CASE ~(d[m] >= MaxDelay \div 2)
      <4>1. d[m] \in Nat /\ 2 * d[m] < MaxDelay
        BY <1>1, <3>1, <3>4 DEF Enough
      <4>2. Wrapped(2 * d[m]) = 2 * d[m]
        BY <1>1, <4>1, WrappedIsIdentity
      <4>3. d[m + 1] = 2 * d[m]
        BY <3>2, <3>4, <4>2
      <4> QED
        BY <1>1, <3>1, <3>2, <4>1, <4>3 DEF Smaller, Enough
    <3> QED
      BY <3>3, <3>4
  <2> QED
    BY <2>1, <2>2
<1> HIDE DEF Enough
<1>4. S = Nat
  <2>1. \A m \in S : m + 1 \in S
    BY <1>3
  <2> HIDE DEF S
  <2>2. S \in SUBSET Nat
    BY DEF S
  <2> QED
    BY <1>2, <2>1, <2>2, Induction
<1>5. Enough(i)
  BY <1>4
<1> QED
  BY <1>5 DEF Enough

\* The delay is within the cap, and no shorter than what the policy promises.
LEMMA BackoffIsEnough ==
  ASSUME NEW n \in Nat \ {0}
  PROVE  Backoff(n) \in 1..MaxDelay /\ Doubled(n) \in Nat /\ Backoff(n) >= Doubled(n)
<1> DEFINE d == CHOOSE f : IsDelay(f, n)
           b == CHOOSE f : IsDoubled(f, n)
<1>1. Backoff(n) = Smaller(d[n], MaxDelay) /\ Doubled(n) = Smaller(b[n], MaxDelay)
  BY DEF Backoff, Doubled, IsDelay, IsDoubled
<1>2. IsDelay(d, n) /\ IsDoubled(b, n)
  BY DelaysExist
<1> HIDE DEF d, b
<1>3. n \in 1..n
  OBVIOUS
<1>4. d[n] \in 1..MaxDelay /\ b[n] \in Nat /\ d[n] >= Smaller(b[n], MaxDelay)
  BY <1>2, <1>3, DelaysAreEnough
<1> QED
  BY <1>1, <1>4, PolicyAssumption DEF Smaller


-----------------------------------------------------------------------------
(* The invariant *)

Hands ==
  /\ batch \in [Workers -> SUBSET Operations]
  /\ trying \in [Workers -> SUBSET Operations]
  /\ overtaken \in [Workers -> SUBSET Operations]
  /\ elapsed \in [Workers -> Nat]
  /\ age \in [Workers -> Nat]
  /\ \A w \in Workers : batch[w] \cap trying[w] = {}

Rows ==
  /\ DOMAIN state = Operations
  /\ attempts \in [Operations -> Nat]
  /\ wait \in [Operations -> Nat]
  /\ since \in [Operations -> Nat]

Waits(o) == state[o] = "PENDING_REFERENCE"

\* Only what was recorded is ever tried.
Recorded(o) ==
  state[o] = "NEW" => attempts[o] = 0 /\ \A w \in Workers : o \notin InHand(w)

Shape == Hands /\ Rows /\ \A o \in Operations : Recorded(o)

\* The lease covers what is in hand and not overtaken.
Covered(w) ==
  \A o \in InHand(w) \ overtaken[w] :
    Waits(o) /\ ~Late(w) => wait[o] + elapsed[w] >= LeaseTime

\* Time passed since the last attempt, and what is left to wait, make up the
\* backoff; what was taken and not overtaken has waited for it.
Spaced(o) ==
  /\ since[o] + wait[o] >= Backoff(attempts[o])
  /\ \A w \in Workers : o \in batch[w] \ overtaken[w] => since[o] >= Backoff(attempts[o])

SpacingInv == \A o \in Operations : Waits(o) /\ attempts[o] > 0 => Spaced(o)

Inv == Shape /\ (\A w \in Workers : Covered(w)) /\ LeaseIsHeld /\ SpacingInv

LEMMA Start == Init => Inv
<1> SUFFICES ASSUME Init
             PROVE  Inv
  OBVIOUS
<1>1. \A w \in Workers : InHand(w) = {}
  BY DEF Init, InHand
<1>2. Shape
  BY <1>1 DEF Init, Shape, Hands, Rows, Recorded
<1>3. SpacingInv
  BY DEF Init, SpacingInv, Waits
<1> QED
  BY <1>1, <1>2, <1>3 DEF Inv, Covered, LeaseIsHeld

\* Leases stay as they are when workers let go at most, what was overtaken stays
\* so, and what was not keeps its next attempt.
LEMMA LeasesAreKept ==
  ASSUME Inv,
         \A w \in Workers : \A o \in InHand(w)' :
           /\ o \in InHand(w)
           /\ elapsed'[w] = elapsed[w]
           /\ o \in overtaken[w] => o \in overtaken'[w]
           /\ o \notin overtaken'[w] /\ Waits(o)' => Waits(o) /\ wait'[o] = wait[o]
  PROVE  (\A w \in Workers : Covered(w)') /\ LeaseIsHeld'
<1>1. ASSUME NEW w \in Workers
      PROVE  Covered(w)'
  <2> SUFFICES ASSUME NEW o \in InHand(w)' \ overtaken'[w], Waits(o)', ~Late(w)'
               PROVE  wait'[o] + elapsed'[w] >= LeaseTime
    BY DEF Covered
  <2>1. o \in InHand(w) \ overtaken[w] /\ Waits(o) /\ ~Late(w)
    BY DEF Late
  <2>2. wait'[o] = wait[o] /\ elapsed'[w] = elapsed[w]
    OBVIOUS
  <2> QED
    BY <2>1, <2>2 DEF Inv, Covered
<1>2. ASSUME NEW v \in Workers, NEW w \in Workers, v # w,
             NEW o \in InHand(v)' \cap InHand(w)'
      PROVE  \E u \in {v, w} : Late(u)' \/ o \in overtaken'[u]
  <2>1. PICK u \in {v, w} : Late(u) \/ o \in overtaken[u]
    BY <1>2 DEF Inv, LeaseIsHeld
  <2>2. u \in Workers /\ o \in InHand(u)'
    BY <1>2
  <2> QED
    BY <2>1, <2>2 DEF Late
<1> QED
  BY <1>1, <1>2 DEF LeaseIsHeld

\* So does the spacing of an operation whose row stays as it is.
LEMMA SpacingIsKept ==
  ASSUME Inv, NEW o \in Operations, Waits(o)', attempts'[o] > 0,
         state'[o] = state[o], attempts'[o] = attempts[o],
         since'[o] = since[o], wait'[o] = wait[o],
         \A w \in Workers : o \in batch'[w] \ overtaken'[w] => o \in batch[w] \ overtaken[w]
  PROVE  Spaced(o)'
<1>1. Spaced(o)
  BY DEF Inv, SpacingInv, Waits
<1> QED
  BY <1>1 DEF Spaced

LEMMA ParkKeeps ==
  ASSUME Inv, NEW p \in Operations, Park(p)
  PROVE  Inv'
<1>1. /\ state[p] = "NEW" /\ state' = [state EXCEPT ![p] = "PENDING_REFERENCE"]
      /\ UNCHANGED <<attempts, wait, since, batch, trying, elapsed, age, overtaken>>
  BY DEF Park
<1>2. attempts[p] = 0 /\ \A w \in Workers : p \notin InHand(w)
  BY <1>1 DEF Inv, Shape, Recorded
<1>3. \A w \in Workers : InHand(w)' = InHand(w)
  BY <1>1 DEF InHand
<1>4. \A o \in Operations \ {p} : state'[o] = state[o]
  BY <1>1 DEF Inv, Shape, Rows
<1>5. Shape'
  <2>1. Hands' /\ Rows'
    BY <1>1 DEF Inv, Shape, Hands, Rows
  <2>2. \A o \in Operations : Recorded(o)'
    BY <1>1, <1>2, <1>3, <1>4 DEF Inv, Shape, Recorded
  <2> QED
    BY <2>1, <2>2 DEF Shape
<1>6. \A w \in Workers : \A o \in InHand(w) : o \in Operations \ {p}
  BY <1>2 DEF Inv, Shape, Hands, InHand
<1>7. (\A w \in Workers : Covered(w)') /\ LeaseIsHeld'
  BY <1>1, <1>3, <1>4, <1>6, LeasesAreKept DEF Waits
<1>8. SpacingInv'
  <2> SUFFICES ASSUME NEW o \in Operations, Waits(o)', attempts'[o] > 0
               PROVE  Spaced(o)'
    BY DEF SpacingInv
  <2>1. o # p
    BY <1>1, <1>2
  <2> QED
    BY <1>1, <1>4, <2>1, SpacingIsKept
<1> QED
  BY <1>5, <1>7, <1>8 DEF Inv

\* What is leased was due, so it has waited, and nobody else has it in hand in
\* time: what others cover is not due.
LEMMA LeaseKeeps ==
  ASSUME Inv, NEW w \in Workers, Lease(w)
  PROVE  Inv'
<1>1. PICK taken \in Taken :
        /\ batch' = [batch EXCEPT ![w] = taken]
        /\ wait' = [o \in Operations |-> IF o \in taken THEN LeaseTime ELSE wait[o]]
  BY DEF Lease, LeasedFor
<1>2. taken \subseteq Operations /\ \A o \in taken : wait[o] = 0 /\ Waits(o)
  BY DEF Taken, Due, Waits
<1>3. UNCHANGED <<state, attempts, trying, elapsed, age, since, overtaken>> /\ InHand(w) = {}
  BY DEF Lease
<1>4. /\ InHand(w)' = taken /\ batch'[w] = taken
      /\ \A v \in Workers \ {w} : InHand(v)' = InHand(v) /\ batch'[v] = batch[v]
  BY <1>1, <1>3 DEF Inv, Shape, Hands, InHand
<1>5. Shape'
  <2>1. Hands'
    BY <1>1, <1>2, <1>3, <1>4 DEF Inv, Shape, Hands, InHand
  <2>2. Rows'
    BY <1>1, <1>3, PolicyAssumption DEF Inv, Shape, Rows
  <2>3. \A o \in Operations : Recorded(o)'
    BY <1>2, <1>3, <1>4 DEF Inv, Shape, Recorded, Waits
  <2> QED
    BY <2>1, <2>2, <2>3 DEF Shape
<1>6. ASSUME NEW v \in Workers \ {w}, NEW o \in taken, o \in InHand(v)
      PROVE  Late(v) \/ o \in overtaken[v]
  <2> SUFFICES ASSUME ~Late(v), o \notin overtaken[v]
               PROVE  FALSE
    OBVIOUS
  <2>1. wait[o] + elapsed[v] >= LeaseTime
    BY <1>2, <1>6 DEF Inv, Covered
  <2>2. wait[o] = 0 /\ elapsed[v] \in Nat
    BY <1>2 DEF Inv, Shape, Hands
  <2> QED
    BY <2>1, <2>2, PolicyAssumption DEF Late
<1>7. ASSUME NEW v \in Workers
      PROVE  Covered(v)'
  <2> SUFFICES ASSUME NEW o \in InHand(v)' \ overtaken'[v], Waits(o)', ~Late(v)'
               PROVE  wait'[o] + elapsed'[v] >= LeaseTime
    BY DEF Covered
  <2>1. o \in Operations /\ wait[o] \in Nat /\ elapsed[v] \in Nat
    BY <1>5 DEF Shape, Hands, InHand, Inv, Rows
  <2>2. CASE o \in taken
    <3>1. wait'[o] = LeaseTime
      BY <1>1, <2>1, <2>2
    <3> QED
      BY <1>3, <2>1, <3>1, PolicyAssumption
  <2>3. CASE o \notin taken
    <3>1. v # w /\ o \in InHand(v) \ overtaken[v] /\ Waits(o) /\ ~Late(v)
      BY <1>3, <1>4, <2>3 DEF Late, Waits
    <3>2. wait'[o] = wait[o]
      BY <1>1, <2>1, <2>3
    <3> QED
      BY <1>3, <3>1, <3>2 DEF Inv, Covered
  <2> QED
    BY <2>2, <2>3
<1>8. LeaseIsHeld'
  <2> SUFFICES ASSUME NEW v \in Workers, NEW u \in Workers, v # u,
                      NEW o \in InHand(v)' \cap InHand(u)'
               PROVE  \E x \in {v, u} : Late(x)' \/ o \in overtaken'[x]
    BY DEF LeaseIsHeld
  <2>1. \E x \in {v, u} : Late(x) \/ o \in overtaken[x]
    <3>1. CASE v = w
      BY <3>1, <1>4, <1>6
    <3>2. CASE u = w
      BY <3>2, <1>4, <1>6
    <3>3. CASE v # w /\ u # w
      BY <3>3, <1>4 DEF Inv, LeaseIsHeld
    <3> QED
      BY <3>1, <3>2, <3>3
  <2> QED
    BY <1>3, <2>1 DEF Late
<1>9. SpacingInv'
  <2> SUFFICES ASSUME NEW o \in Operations, Waits(o)', attempts'[o] > 0
               PROVE  Spaced(o)'
    BY DEF SpacingInv
  <2>1. Spaced(o) /\ attempts[o] \in Nat \ {0} /\ since[o] \in Nat /\ wait[o] \in Nat
    BY <1>3 DEF Inv, Shape, Rows, SpacingInv, Waits
  <2>2. Backoff(attempts[o]) \in Nat
    BY <2>1, BackoffIsEnough, PolicyAssumption
  <2>3. wait'[o] = IF o \in taken THEN LeaseTime ELSE wait[o]
    BY <1>1
  <2>4. o \in taken => since[o] >= Backoff(attempts[o])
    BY <1>2, <2>1, <2>2 DEF Spaced
  <2>5. since'[o] + wait'[o] >= Backoff(attempts[o])
    BY <1>3, <2>1, <2>2, <2>3, <2>4, PolicyAssumption DEF Spaced
  <2>6. \A v \in Workers : o \in batch'[v] => o \in taken \/ o \in batch[v]
    BY <1>4
  <2> QED
    BY <1>3, <2>1, <2>4, <2>5, <2>6 DEF Spaced
<1> QED
  BY <1>5, <1>7, <1>8, <1>9 DEF Inv

LEMMA BeginKeeps ==
  ASSUME Inv, NEW w \in Workers, NEW p \in Operations, Begin(w, p)
  PROVE  Inv'
<1>1. UNCHANGED <<state, attempts, wait, since, elapsed, overtaken>>
  BY DEF Begin, rows
<1>2. \A v \in Workers : InHand(v)' = InHand(v) /\ batch'[v] \subseteq batch[v]
  BY DEF Begin, Inv, Shape, Hands, InHand
<1>3. Shape'
  <2>1. Hands'
    BY DEF Begin, Inv, Shape, Hands, rows
  <2>2. Rows' /\ \A o \in Operations : Recorded(o)'
    BY <1>1, <1>2 DEF Inv, Shape, Rows, Recorded
  <2> QED
    BY <2>1, <2>2 DEF Shape
<1>4. (\A v \in Workers : Covered(v)') /\ LeaseIsHeld'
  BY <1>1, <1>2, LeasesAreKept DEF Waits
<1>5. SpacingInv'
  BY <1>1, <1>2, SpacingIsKept DEF SpacingInv
<1> QED
  BY <1>3, <1>4, <1>5 DEF Inv

\* The end of a retry takes one operation out of the hands of its worker, and
\* overtakes those that have in hand what it counted.
LEMMA LettingGo ==
  ASSUME Inv, NEW w \in Workers, NEW counted \in SUBSET Operations,
         LetGo(w, counted), batch' = batch
  PROVE  /\ Hands'
         /\ \A v \in Workers :
              /\ InHand(v)' \subseteq InHand(v) /\ (v = w => InHand(v)' \cap trying[w] = {})
              /\ \A o \in InHand(v)' :
                   /\ elapsed'[v] = elapsed[v]
                   /\ o \in overtaken'[v] <=> o \in overtaken[v] \/ (v # w /\ o \in counted)
<1>1. \A v \in Workers : InHand(v)' = IF v = w THEN batch[w] ELSE InHand(v)
  BY DEF LetGo, Inv, Shape, Hands, InHand
<1>2. Hands'
  BY DEF LetGo, Inv, Shape, Hands, InHand
<1>3. ASSUME NEW v \in Workers, NEW o \in InHand(v)'
      PROVE  /\ elapsed'[v] = elapsed[v]
             /\ o \in overtaken'[v] <=> o \in overtaken[v] \/ (v # w /\ o \in counted)
  BY <1>1, <1>3 DEF LetGo, Inv, Shape, Hands, InHand
<1>4. batch[w] \subseteq InHand(w) /\ batch[w] \cap trying[w] = {}
  BY DEF Inv, Shape, Hands, InHand
<1> QED
  BY <1>1, <1>2, <1>3, <1>4

\* A counted attempt sets the wait to what the backoff leaves of it, at the
\* instant the retry carries; whoever else has the operation is overtaken.
LEMMA MissKeeps ==
  ASSUME Inv, NEW w \in Workers, NEW p \in Operations,
         Retry(w, p), MissReference(w, p), LetGo(w, {p})
  PROVE  Inv'
<1> DEFINE failed == attempts[p] + 1
           left   == Larger(Backoff(failed) - age[w], 0)
<1>1. failed \in Nat \ {0} /\ age[w] \in Nat
  BY DEF Inv, Shape, Hands, Rows
<1>2. Backoff(failed) \in Nat
  BY <1>1, BackoffIsEnough, PolicyAssumption
<1>3. left \in Nat /\ age[w] + left >= Backoff(failed)
  BY <1>1, <1>2 DEF Larger
<1>4. /\ attempts' = [attempts EXCEPT ![p] = failed]
      /\ Waits(p)
      /\ \/ /\ wait' = [wait EXCEPT ![p] = left]
            /\ since' = [since EXCEPT ![p] = age[w]]
            /\ state' = state
         \/ /\ state' = [state EXCEPT ![p] = "REJECTED"]
            /\ wait' = [wait EXCEPT ![p] = 0]
            /\ since' = [since EXCEPT ![p] = 0]
  BY DEF MissReference, Leave, Waits
<1>5. batch' = batch /\ p \in trying[w]
  BY DEF Retry
<1> HIDE DEF left
<1>6. Rows'
  BY <1>1, <1>3, <1>4 DEF Inv, Shape, Rows
<1>7. /\ Hands'
      /\ \A v \in Workers :
           /\ InHand(v)' \subseteq InHand(v) /\ (v = w => InHand(v)' \cap trying[w] = {})
           /\ \A o \in InHand(v)' :
                /\ elapsed'[v] = elapsed[v]
                /\ o \in overtaken'[v] <=> o \in overtaken[v] \/ (v # w /\ o \in {p})
  BY <1>5, LettingGo
\* Only w had its own retry of p; every other is overtaken.
<1>8. \A v \in Workers : p \in InHand(v)' => p \in overtaken'[v]
  BY <1>5, <1>7
<1>9. \A o \in Operations \ {p} :
        /\ state'[o] = state[o] /\ attempts'[o] = attempts[o]
        /\ since'[o] = since[o] /\ wait'[o] = wait[o]
  BY <1>4 DEF Inv, Shape, Rows
<1>10. Shape'
  <2>1. \A o \in Operations : state'[o] = "NEW" => state[o] = "NEW" /\ o # p
    BY <1>4 DEF Inv, Shape, Rows, Waits
  <2>2. \A o \in Operations : Recorded(o)'
    BY <1>7, <1>9, <2>1 DEF Inv, Shape, Recorded
  <2> QED
    BY <1>6, <1>7, <2>2 DEF Shape
<1>11. (\A v \in Workers : Covered(v)') /\ LeaseIsHeld'
  <2> SUFFICES ASSUME NEW v \in Workers, NEW o \in InHand(v)', o \notin overtaken'[v], Waits(o)'
               PROVE  Waits(o) /\ wait'[o] = wait[o]
    BY <1>7, LeasesAreKept
  <2>1. o \in Operations /\ o # p
    BY <1>7, <1>8 DEF Hands, InHand
  <2> QED
    BY <1>9, <2>1 DEF Waits
<1>12. SpacingInv'
  <2> SUFFICES ASSUME NEW o \in Operations, Waits(o)', attempts'[o] > 0
               PROVE  Spaced(o)'
    BY DEF SpacingInv
  <2>1. CASE o = p
    <3>1. state'[p] # "REJECTED"
      BY <2>1 DEF Waits
    <3>2. since'[p] = age[w] /\ wait'[p] = left /\ attempts'[p] = failed
      BY <1>4, <3>1 DEF Inv, Shape, Rows
    <3>3. \A v \in Workers : p \notin batch'[v] \ overtaken'[v]
      BY <1>8 DEF InHand
    <3> QED
      BY <2>1, <1>3, <3>2, <3>3 DEF Spaced
  <2>2. CASE o # p
    <3>1. \A v \in Workers : o \in batch'[v] \ overtaken'[v] => o \in batch[v] \ overtaken[v]
      BY <1>5, <1>7 DEF InHand
    <3> QED
      BY <1>9, <2>2, <3>1, SpacingIsKept
  <2> QED
    BY <2>1, <2>2
<1> QED
  BY <1>10, <1>11, <1>12 DEF Inv

\* Every other end of a retry leaves the rows alone, but for what it concludes.
LEMMA OtherEndKeeps ==
  ASSUME Inv, NEW w \in Workers, LetGo(w, {}), batch' = batch,
         UNCHANGED rows \/ \E p \in Operations : ConcludeWithReference(p)
  PROVE  Inv'
<1>1. /\ Hands'
      /\ \A v \in Workers :
           /\ InHand(v)' \subseteq InHand(v)
           /\ \A o \in InHand(v)' :
                elapsed'[v] = elapsed[v] /\ (o \in overtaken'[v] <=> o \in overtaken[v])
  BY LettingGo
<1>2. \A v \in Workers : \A o \in batch'[v] \ overtaken'[v] : o \in batch[v] \ overtaken[v]
  BY <1>1 DEF InHand
<1>3. /\ Rows'
      /\ \A o \in Operations :
           \/ /\ state'[o] = state[o] /\ attempts'[o] = attempts[o]
              /\ since'[o] = since[o] /\ wait'[o] = wait[o]
           \/ state'[o] = "CONCLUDED"
  <2>1. CASE UNCHANGED rows
    BY <2>1 DEF rows, Inv, Shape, Rows
  <2>2. ASSUME NEW p \in Operations, ConcludeWithReference(p)
        PROVE  /\ Rows'
               /\ \A o \in Operations :
                    \/ /\ state'[o] = state[o] /\ attempts'[o] = attempts[o]
                       /\ since'[o] = since[o] /\ wait'[o] = wait[o]
                    \/ state'[o] = "CONCLUDED"
    <3>1. /\ state' = [state EXCEPT ![p] = "CONCLUDED"]
          /\ wait' = [wait EXCEPT ![p] = 0]
          /\ since' = [since EXCEPT ![p] = 0]
          /\ attempts' = attempts
      BY <2>2 DEF ConcludeWithReference, Leave
    <3> QED
      BY <3>1 DEF Inv, Shape, Rows
  <2> QED
    BY <2>1, <2>2
<1>4. Shape'
  <2>1. \A o \in Operations : Recorded(o)'
    BY <1>1, <1>3 DEF Inv, Shape, Recorded
  <2> QED
    BY <1>1, <1>3, <2>1 DEF Shape
<1>5. (\A v \in Workers : Covered(v)') /\ LeaseIsHeld'
  <2>1. \A v \in Workers : \A o \in InHand(v)' : o \in Operations
    BY <1>1 DEF Hands, InHand
  <2> QED
    BY <1>1, <1>3, <2>1, LeasesAreKept DEF Waits
<1>6. SpacingInv'
  <2> SUFFICES ASSUME NEW o \in Operations, Waits(o)', attempts'[o] > 0
               PROVE  Spaced(o)'
    BY DEF SpacingInv
  <2>1. /\ state'[o] = state[o] /\ attempts'[o] = attempts[o]
        /\ since'[o] = since[o] /\ wait'[o] = wait[o]
    BY <1>3 DEF Waits
  <2> QED
    BY <1>2, <2>1, SpacingIsKept
<1> QED
  BY <1>4, <1>5, <1>6 DEF Inv

LEMMA EndRetryKeeps ==
  ASSUME Inv, NEW w \in Workers, EndRetry(w)
  PROVE  Inv'
<1>1. CASE RetryFailed(w)
  BY <1>1, OtherEndKeeps DEF RetryFailed
<1>2. ASSUME NEW o \in Operations, Retry(w, o)
      PROVE  Inv'
  <2>1. batch' = batch
    BY <1>2 DEF Retry
  <2>2. CASE LeaveUntouched(o) /\ LetGo(w, {})
    BY <2>1, <2>2, OtherEndKeeps DEF LeaveUntouched
  <2>3. CASE ConcludeWithReference(o) /\ LetGo(w, {})
    BY <2>1, <2>3, OtherEndKeeps
  <2>4. CASE MissReference(w, o) /\ LetGo(w, {o})
    BY <1>2, <2>4, MissKeeps
  <2> QED
    BY <1>2, <2>2, <2>3, <2>4 DEF Retry
<1> QED
  BY <1>1, <1>2 DEF EndRetry

LEMMA CrashKeeps ==
  ASSUME Inv, NEW w \in Workers, Crash(w)
  PROVE  Inv'
<1>1. UNCHANGED <<state, attempts, wait, since>>
  BY DEF Crash, rows
<1>2. InHand(w)' = {} /\ batch'[w] = {}
  BY DEF Crash, Inv, Shape, Hands, InHand
<1>3. \A v \in Workers \ {w} :
        /\ InHand(v)' = InHand(v) /\ batch'[v] = batch[v]
        /\ elapsed'[v] = elapsed[v] /\ overtaken'[v] = overtaken[v]
  BY DEF Crash, Inv, Shape, Hands, InHand
<1>4. Shape'
  <2>1. Hands'
    BY DEF Crash, Inv, Shape, Hands
  <2>2. \A o \in Operations : Recorded(o)'
    BY <1>1, <1>2, <1>3 DEF Inv, Shape, Recorded
  <2> QED
    BY <1>1, <2>1, <2>2 DEF Inv, Shape, Rows
<1>5. (\A v \in Workers : Covered(v)') /\ LeaseIsHeld'
  BY <1>1, <1>2, <1>3, LeasesAreKept DEF Waits
<1>6. SpacingInv'
  <2>1. \A v \in Workers : \A o \in batch'[v] \ overtaken'[v] : o \in batch[v] \ overtaken[v]
    BY <1>2, <1>3
  <2> QED
    BY <1>1, <2>1, SpacingIsKept DEF SpacingInv
<1> QED
  BY <1>4, <1>5, <1>6 DEF Inv

\* Time takes as much from the wait as from the lease, and adds it to the time
\* since the last attempt; what is cut off at MaxDelay is no less than a backoff.
LEMMA TickKeeps ==
  ASSUME Inv, Tick
  PROVE  Inv'
<1>1. UNCHANGED <<state, attempts, batch, trying, overtaken>>
  BY DEF Tick
<1>2. \A w \in Workers : InHand(w)' = InHand(w)
  BY <1>1 DEF InHand
<1>3. \A o \in Operations :
        /\ wait'[o] = Larger(wait[o] - 1, 0)
        /\ since'[o] = IF attempts[o] = 0 \/ state[o] # "PENDING_REFERENCE" THEN 0
                       ELSE Smaller(since[o] + 1, MaxDelay)
  BY DEF Tick
<1>4. \A w \in Workers : InHand(w) # {} => elapsed'[w] = Smaller(elapsed[w] + 1, LeaseTime)
  BY DEF Tick
<1>5. MaxDelay \in Nat /\ LeaseTime \in Nat \ {0}
  BY PolicyAssumption
<1>6. Shape'
  <2>1. Rows'
    <3>1. \A o \in Operations : wait'[o] \in Nat /\ since'[o] \in Nat
      BY <1>3, <1>5 DEF Inv, Shape, Rows, Larger, Smaller
    <3>2. wait' \in [Operations -> Nat] /\ since' \in [Operations -> Nat]
      BY <3>1 DEF Tick
    <3> QED
      BY <1>1, <3>2 DEF Inv, Shape, Rows
  <2>2. Hands'
    <3>1. \A w \in Workers : Smaller(elapsed[w] + 1, LeaseTime) \in Nat
      BY <1>5 DEF Inv, Shape, Hands, Smaller
    <3>2. \A w \in Workers : Smaller(age[w] + 1, MaxDelay) \in Nat
      BY <1>5 DEF Inv, Shape, Hands, Smaller
    <3>3. elapsed' \in [Workers -> Nat] /\ age' \in [Workers -> Nat]
      BY <3>1, <3>2 DEF Tick
    <3> QED
      BY <1>1, <3>3 DEF Inv, Shape, Hands
  <2>3. \A o \in Operations : Recorded(o)'
    BY <1>1, <1>2 DEF Inv, Shape, Recorded
  <2> QED
    BY <2>1, <2>2, <2>3 DEF Shape
<1>7. ASSUME NEW w \in Workers
      PROVE  Covered(w)'
  <2> SUFFICES ASSUME NEW o \in InHand(w)' \ overtaken'[w], Waits(o)', ~Late(w)'
               PROVE  wait'[o] + elapsed'[w] >= LeaseTime
    BY DEF Covered
  <2>1. /\ o \in Operations /\ o \in InHand(w) \ overtaken[w] /\ Waits(o)
        /\ wait[o] \in Nat /\ elapsed[w] \in Nat
    BY <1>1, <1>2 DEF Inv, Shape, Hands, Rows, InHand, Waits
  <2>2. elapsed'[w] = Smaller(elapsed[w] + 1, LeaseTime)
    BY <1>4, <2>1
  <2>3. ~Late(w) /\ elapsed'[w] = elapsed[w] + 1
    BY <1>5, <2>1, <2>2 DEF Late, Smaller
  <2>4. wait[o] + elapsed[w] >= LeaseTime
    BY <2>1, <2>3 DEF Inv, Covered
  <2> QED
    BY <1>3, <1>5, <2>1, <2>3, <2>4 DEF Larger
<1>8. LeaseIsHeld'
  <2>1. ASSUME NEW u \in Workers, Late(u), InHand(u) # {}
        PROVE  Late(u)'
    BY <1>4, <1>5, <2>1 DEF Late, Smaller, Inv, Shape, Hands
  <2> SUFFICES ASSUME NEW v \in Workers, NEW w \in Workers, v # w,
                      NEW o \in InHand(v)' \cap InHand(w)'
               PROVE  \E u \in {v, w} : Late(u)' \/ o \in overtaken'[u]
    BY DEF LeaseIsHeld
  <2>2. o \in InHand(v) \cap InHand(w)
    BY <1>2
  <2>3. PICK u \in {v, w} : Late(u) \/ o \in overtaken[u]
    BY <2>2 DEF Inv, LeaseIsHeld
  <2>4. u \in Workers /\ InHand(u) # {}
    BY <2>2
  <2> QED
    BY <1>1, <2>1, <2>3, <2>4
<1>9. SpacingInv'
  <2> SUFFICES ASSUME NEW o \in Operations, Waits(o)', attempts'[o] > 0
               PROVE  Spaced(o)'
    BY DEF SpacingInv
  <2>1. /\ Waits(o) /\ Spaced(o)
        /\ attempts[o] \in Nat \ {0} /\ since[o] \in Nat /\ wait[o] \in Nat
    BY <1>1 DEF Inv, Shape, Rows, SpacingInv, Waits
  <2>2. Backoff(attempts[o]) \in Nat /\ Backoff(attempts[o]) <= MaxDelay
    BY <2>1, <1>5, BackoffIsEnough
  <2>3. since'[o] = Smaller(since[o] + 1, MaxDelay) /\ wait'[o] = Larger(wait[o] - 1, 0)
    BY <1>3, <2>1 DEF Waits
  <2>4. since'[o] + wait'[o] >= Backoff(attempts[o])
    <3>1. since[o] + wait[o] >= Backoff(attempts[o])
      BY <2>1 DEF Spaced
    <3> QED
      BY <1>5, <2>1, <2>2, <2>3, <3>1 DEF Smaller, Larger
  <2>5. ASSUME NEW w \in Workers, o \in batch[w] \ overtaken[w]
        PROVE  since'[o] >= Backoff(attempts[o])
    <3>1. since[o] >= Backoff(attempts[o])
      BY <2>1, <2>5 DEF Spaced
    <3> QED
      BY <1>5, <2>1, <2>2, <2>3, <3>1 DEF Smaller
  <2> QED
    BY <1>1, <2>4, <2>5 DEF Spaced
<1> QED
  BY <1>6, <1>7, <1>8, <1>9 DEF Inv

LEMMA StepKeeps ==
  ASSUME Inv, [Next]_vars
  PROVE  Inv'
<1>1. ASSUME NEW p \in Operations, ReferenceArrives(p)
      PROVE  Inv'
  <2>1. UNCHANGED <<rows, batch, trying, elapsed, age, overtaken>>
    BY <1>1 DEF ReferenceArrives
  <2> QED
    BY <2>1 DEF rows, Inv, Shape, Hands, Rows, Recorded, Covered, LeaseIsHeld, SpacingInv,
                Spaced, Waits, Late, InHand
<1>2. CASE UNCHANGED vars
  BY <1>2 DEF vars, Inv, Shape, Hands, Rows, Recorded, Covered, LeaseIsHeld, SpacingInv,
              Spaced, Waits, Late, InHand
<1> QED
  BY <1>1, <1>2, ParkKeeps, LeaseKeeps, BeginKeeps, EndRetryKeeps, CrashKeeps, TickKeeps DEF Next

LEMMA Invariance == Spec => []Inv
<1>1. Inv /\ [Next]_vars => Inv'
  BY StepKeeps
<1> QED
  BY Start, <1>1, PTL DEF Spec

-----------------------------------------------------------------------------
(* What follows *)

\* LeasePendingReferences and the lease: whatever workers are late, die or fail, of
\* those that have an operation in hand one at most is within its lease and was
\* not overtaken by an attempt of another.
THEOREM LeasesAreExclusive == Spec => []LeaseIsHeld
<1>1. Inv => LeaseIsHeld
  BY DEF Inv
<1> QED
  BY Invariance, <1>1, PTL

\* The delay between attempts: late or in time, and however long it waits for the
\* lock, no attempt of a worker that was not overtaken begins before the base delay,
\* doubled after each further one up to the cap, has passed since the last one.
THEOREM RetriesAreSpaced == Spec => AttemptsAreSpaced
<1> DEFINE Steps == \A w \in Workers, o \in Operations :
                      Begin(w, o) /\ attempts[o] > 0 /\ state[o] = "PENDING_REFERENCE"
                        /\ o \notin overtaken[w] => since[o] >= Doubled(attempts[o])
<1>1. ASSUME Inv, NEW w \in Workers, NEW o \in Operations, Begin(w, o),
             attempts[o] > 0, state[o] = "PENDING_REFERENCE", o \notin overtaken[w]
      PROVE  since[o] >= Doubled(attempts[o])
  <2>1. attempts[o] \in Nat \ {0} /\ since[o] \in Nat
    BY <1>1 DEF Inv, Shape, Rows
  <2>2. since[o] >= Backoff(attempts[o])
    BY <1>1 DEF Begin, Inv, SpacingInv, Spaced, Waits
  <2>3. /\ Backoff(attempts[o]) >= Doubled(attempts[o])
        /\ Backoff(attempts[o]) \in Nat /\ Doubled(attempts[o]) \in Nat
    BY <2>1, BackoffIsEnough, PolicyAssumption
  <2> QED
    BY <2>1, <2>2, <2>3
<1>2. Inv => Steps
  BY <1>1
<1> QED
  BY Invariance, <1>2, PTL DEF AttemptsAreSpaced

=============================================================================
