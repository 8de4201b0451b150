--------------------------- MODULE ReferenceRetries ---------------------------
(* When the workers of ResolvePendingReferences try waiting operations again:   *)
(* leases, attempts, backoff and the passing of time, with workers that take    *)
(* any time and outlive their leases.  What an attempt does to the wallet is    *)
(* the subject of Settlement; an attempt is one step here.                      *)
EXTENDS Integers, FiniteSets, Sequences, SequencesExt

CONSTANTS
  Operations, Workers,
  MaxAttempts, BaseDelay, MaxDelay, LeaseTime, BatchSize,
  MaxDuration,   \* the largest duration, math.MaxInt64 nanoseconds in the code
  Overflowing    \* operations that fail with an error once their reference is there

\* What Config.validate asks of the policy.
ASSUME PolicyAssumption ==
  /\ MaxAttempts \in Nat \ {0} /\ BatchSize \in Nat \ {0} /\ LeaseTime \in Nat \ {0}
  /\ BaseDelay \in Nat \ {0} /\ MaxDelay \in BaseDelay..MaxDuration
  /\ MaxDuration \in Nat /\ Overflowing \subseteq Operations

\* Instants are kept as the time left until them, or passed since them.
VARIABLES
  state,      \* of each operation; "NEW" before it is recorded
  attempts,   \* reference_attempts
  schedule,   \* the waiting operations in the order of next_attempt_at
  wait,       \* time left until next_attempt_at; 0 when due
  arrived,    \* operations whose reference is concluded
  batch,      \* leased by a worker and not tried yet
  trying,     \* the operation of the retry under way, at most one
  elapsed,    \* time since the worker leased its batch; LeaseTime when it is late
  age,        \* time since the instant the retry under way carries
  since,      \* time since the instant of the last attempt that was counted
  overtaken   \* in the worker's hands, and tried in vain by another meanwhile

vars == <<state, attempts, schedule, wait, arrived, batch, trying, elapsed, age, since, overtaken>>
rows == <<state, attempts, schedule, wait, since>>

Smaller(a, b) == IF a < b THEN a ELSE b
Larger(a, b) == IF a > b THEN a ELSE b
\* Times since an instant are not told apart past MaxDelay, those since a lease
\* past LeaseTime.
LongestWait == Larger(MaxDelay, LeaseTime)

\* Types, and: an operation is refused at its last attempt and no other; the
\* schedule is in order; no worker holds more than a batch.
TypeOK ==
  /\ state \in [Operations -> {"NEW", "PENDING_REFERENCE", "CONCLUDED", "REJECTED"}]
  /\ \A o \in Operations :
       /\ attempts[o] \in IF state[o] = "REJECTED" THEN {MaxAttempts} ELSE 0..(MaxAttempts - 1)
       /\ since[o] \in 0..MaxDelay
       /\ wait[o] \in 0..LongestWait
  /\ IsInjective(schedule)
  /\ ToSet(schedule) = {o \in Operations : state[o] = "PENDING_REFERENCE"}
  /\ \A i, j \in DOMAIN schedule : i < j => wait[schedule[i]] <= wait[schedule[j]]
  /\ arrived \subseteq Operations
  /\ \A w \in Workers :
       /\ batch[w] \subseteq Operations /\ Cardinality(batch[w] \cup trying[w]) <= BatchSize
       /\ trying[w] \subseteq Operations /\ Cardinality(trying[w]) <= 1
       /\ elapsed[w] \in 0..LeaseTime /\ age[w] \in 0..MaxDelay
       /\ overtaken[w] \subseteq batch[w] \cup trying[w]

Init ==
  /\ state = [o \in Operations |-> "NEW"]
  /\ attempts = [o \in Operations |-> 0]
  /\ schedule = <<>>
  /\ wait = [o \in Operations |-> 0]
  /\ arrived = {}
  /\ batch = [w \in Workers |-> {}]
  /\ trying = [w \in Workers |-> {}]
  /\ elapsed = [w \in Workers |-> 0]
  /\ age = [w \in Workers |-> 0]
  /\ since = [o \in Operations |-> 0]
  /\ overtaken = [w \in Workers |-> {}]

-----------------------------------------------------------------------------
(* The policy *)

\* int64 arithmetic: what does not fit comes back from the other end.
Wrapped(d) == ((d + MaxDuration + 1) % (2 * (MaxDuration + 1))) - (MaxDuration + 1)

\* backoff: the loop, one round per index.
BackoffUnguarded(n) ==
  LET delay[i \in 1..n] == IF i = 1 THEN BaseDelay ELSE Wrapped(2 * delay[i - 1])
  IN  Smaller(delay[n], MaxDelay)
Backoff(n) ==
  LET delay[i \in 1..n] ==
        IF i = 1 THEN BaseDelay
        ELSE IF delay[i - 1] >= MaxDelay \div 2 THEN MaxDelay
        ELSE Wrapped(2 * delay[i - 1])
  IN  Smaller(delay[n], MaxDelay)

\* What it is for: the base, doubled after each further attempt, up to the cap.
Doubled(n) ==
  LET doubled[i \in 1..n] == IF i = 1 THEN BaseDelay ELSE 2 * doubled[i - 1]
  IN  Smaller(doubled[n], MaxDelay)

\* The orders of next_attempt_at once the moved operations have new waits: equal
\* instants come in any order, and so does what was set to an instant past.
Schedules(waiting, moved, waits) ==
  LET Unmoved(q) == SelectSeq(q, LAMBDA o : o \in waiting \ moved)
  IN  {q \in SetToSeqs(waiting) :
         /\ Unmoved(q) = Unmoved(schedule)
         /\ \A i, j \in DOMAIN q : i < j => waits[q[i]] <= waits[q[j]]}

-----------------------------------------------------------------------------
(* The workers *)

InHand(w) == batch[w] \cup trying[w]

\* ProcessWager records an operation whose reference is not concluded: due now.
Park(o) ==
  /\ state[o] = "NEW"
  /\ state' = [state EXCEPT ![o] = "PENDING_REFERENCE"]
  /\ schedule' \in Schedules(ToSet(schedule) \cup {o}, {o}, wait)
  /\ UNCHANGED <<attempts, wait, arrived, batch, trying, elapsed, age, since, overtaken>>

\* Another operation concludes what the operation refers to.
ReferenceArrives(o) ==
  /\ state[o] = "PENDING_REFERENCE"
  /\ arrived' = arrived \cup {o}
  /\ UNCHANGED <<rows, batch, trying, elapsed, age, overtaken>>

\* The due operations, the ones due for longest first, up to the batch.
Due == {o \in Operations : state[o] = "PENDING_REFERENCE" /\ wait[o] = 0}
IsBefore(o, p) == \E i, j \in DOMAIN schedule : i < j /\ schedule[i] = o /\ schedule[j] = p
Take == Smaller(BatchSize, Cardinality(Due))
TakenInAnyOrder == {taken \in SUBSET Due : Cardinality(taken) = Take}
Taken == {taken \in SUBSET Due :
            /\ Cardinality(taken) = Take
            /\ \A o \in taken, p \in Due \ taken : IsBefore(o, p)}

\* next_attempt_at becomes the end of the lease.
LeasedForNothing(taken) == wait
LeasedFor(taken) == [o \in Operations |-> IF o \in taken THEN LeaseTime ELSE wait[o]]

\* Execute leases a batch.
Lease(w) ==
  /\ InHand(w) = {}
  /\ Due # {}
  /\ \E taken \in Taken :
       /\ batch' = [batch EXCEPT ![w] = taken]
       /\ wait' = LeasedFor(taken)
       /\ schedule' \in Schedules(ToSet(schedule), taken, wait')
  /\ UNCHANGED <<state, attempts, arrived, trying, elapsed, age, since, overtaken>>

\* retry reads the clock and waits for the lock of the wallet.
Begin(w, o) ==
  /\ trying[w] = {} /\ o \in batch[w]
  /\ trying' = [trying EXCEPT ![w] = {o}]
  /\ batch' = [batch EXCEPT ![w] = @ \ {o}]
  /\ age' = [age EXCEPT ![w] = 0]
  /\ UNCHANGED <<rows, arrived, elapsed, overtaken>>

\* A concluded operation has no next attempt.
Leave(o) ==
  /\ schedule' = SelectSeq(schedule, LAMBDA p : p # o)
  /\ wait' = [wait EXCEPT ![o] = 0]
  /\ since' = [since EXCEPT ![o] = 0]

\* Another worker concluded it meanwhile.
LeaveUntouched(o) == state[o] # "PENDING_REFERENCE" /\ UNCHANGED rows

ConcludeWithReference(o) ==
  /\ state[o] = "PENDING_REFERENCE" /\ o \in arrived /\ o \notin Overflowing
  /\ state' = [state EXCEPT ![o] = "CONCLUDED"]
  /\ Leave(o)
  /\ UNCHANGED attempts

\* RecordMissingReference, and the next attempt or the rejection.
MissReference(w, o) ==
  LET failed == attempts[o] + 1
      left   == Larger(Backoff(failed) - age[w], 0)
  IN  /\ state[o] = "PENDING_REFERENCE" /\ o \notin arrived
      /\ attempts' = [attempts EXCEPT ![o] = failed]
      /\ \/ /\ failed < MaxAttempts
            /\ wait' = [wait EXCEPT ![o] = left]
            /\ since' = [since EXCEPT ![o] = age[w]]
            /\ schedule' \in Schedules(ToSet(schedule), {o}, wait')
            /\ UNCHANGED state
         \/ /\ failed = MaxAttempts
            /\ state' = [state EXCEPT ![o] = "REJECTED"]
            /\ Leave(o)

\* The retry is over, and with the last of the batch the round.  Others may have
\* in hand what it counted an attempt of.
LetGo(w, counted) ==
  /\ trying' = [trying EXCEPT ![w] = {}]
  /\ age' = [age EXCEPT ![w] = 0]
  /\ elapsed' = [elapsed EXCEPT ![w] = IF batch[w] = {} THEN 0 ELSE @]
  /\ overtaken' = [v \in Workers |-> IF v = w THEN overtaken[v] \ trying[v]
                                    ELSE overtaken[v] \cup (counted \cap InHand(v))]

\* The transaction of retry, from the lock to the commit.
Retry(w, o) ==
  /\ o \in trying[w]
  /\ \/ (LeaveUntouched(o) \/ ConcludeWithReference(o)) /\ LetGo(w, {})
     \/ MissReference(w, o) /\ LetGo(w, {o})
  /\ UNCHANGED <<arrived, batch>>

\* It fails and rolls back; the round goes on with the next operation.
RetryFailed(w) ==
  /\ trying[w] # {}
  /\ LetGo(w, {})
  /\ UNCHANGED <<rows, arrived, batch>>

\* The worker dies, or is cancelled, and starts again.
Crash(w) ==
  /\ InHand(w) # {}
  /\ batch' = [batch EXCEPT ![w] = {}]
  /\ trying' = [trying EXCEPT ![w] = {}]
  /\ age' = [age EXCEPT ![w] = 0]
  /\ elapsed' = [elapsed EXCEPT ![w] = 0]
  /\ overtaken' = [overtaken EXCEPT ![w] = {}]
  /\ UNCHANGED <<rows, arrived>>

\* Time passes whatever is in hand: nothing ends a retry that waits for its lock.
Tick ==
  /\ wait' = [o \in Operations |-> Larger(wait[o] - 1, 0)]
  /\ since' = [o \in Operations |->
                 IF attempts[o] = 0 \/ state[o] # "PENDING_REFERENCE" THEN 0
                 ELSE Smaller(since[o] + 1, MaxDelay)]
  /\ elapsed' = [w \in Workers |-> IF InHand(w) = {} THEN 0
                                ELSE Smaller(elapsed[w] + 1, LeaseTime)]
  /\ age' = [w \in Workers |-> IF trying[w] = {} THEN 0
                            ELSE Smaller(age[w] + 1, MaxDelay)]
  /\ UNCHANGED <<state, attempts, schedule, arrived, batch, trying, overtaken>>

EndRetry(w) == RetryFailed(w) \/ \E o \in Operations : Retry(w, o)

Next ==
  \/ \E o \in Operations : Park(o) \/ ReferenceArrives(o)
  \/ \E w \in Workers : Lease(w) \/ EndRetry(w) \/ Crash(w)
  \/ \E w \in Workers, o \in Operations : Begin(w, o)
  \/ Tick

\* The pollers go on, time passes, and no operation meets a failure or a crash
\* at every retry; Overflowing is the exception.
Fairness ==
  /\ WF_vars(Tick)
  /\ \A w \in Workers : WF_vars(Lease(w)) /\ WF_vars(EndRetry(w))
  /\ \A o \in Operations :
       /\ SF_vars(\E w \in Workers : Begin(w, o))
       /\ SF_vars(\E w \in Workers : Retry(w, o))

Spec == Init /\ [][Next]_vars
FairSpec == Spec /\ Fairness

-----------------------------------------------------------------------------
(* Properties *)

Late(w) == elapsed[w] >= LeaseTime

\* Workers may be late, and a late one moves the next attempt of what it tries,
\* and with it the lease of whoever took it over.  That is all it takes and
\* nothing else does: of those that have an operation in hand, one at most is
\* within its lease and was not overtaken.
LeaseIsHeld ==
  \A v, w \in Workers : v # w =>
    \A o \in InHand(v) \cap InHand(w) :
      \E u \in {v, w} : Late(u) \/ o \in overtaken[u]

\* No attempt begins before the delay of the policy has passed since the last one
\* that was counted: the base, doubled after each further one up to the cap.  This
\* is so for late workers too, unless another counted one after the worker took it.
AttemptsAreSpaced ==
  [][\A w \in Workers, o \in Operations :
       Begin(w, o) /\ attempts[o] > 0 /\ state[o] = "PENDING_REFERENCE" /\ o \notin overtaken[w]
         => since[o] >= Doubled(attempts[o])]_vars

\* Waiting ends: an operation is concluded or given up, whatever workers die or are
\* late and retries fail meanwhile, and although others fail at every attempt.
WaitingEnds ==
  \A o \in Operations \ Overflowing :
    state[o] = "PENDING_REFERENCE" ~> state[o] \in {"CONCLUDED", "REJECTED"}

\* What the comments on the policy say (resolve_pending_references.go:18,23) and
\* late workers break: a lease is how long an operation is held before another
\* worker may take it, and a delay the wait before each further attempt.
HeldForItsLease ==
  \A v, w \in Workers : v # w /\ InHand(v) \cap InHand(w) # {} => Late(v) \/ Late(w)
EveryAttemptIsSpaced ==
  [][\A w \in Workers, o \in Operations :
       Begin(w, o) /\ attempts[o] > 0 /\ state[o] = "PENDING_REFERENCE"
         => since[o] >= Doubled(attempts[o])]_vars

=============================================================================
