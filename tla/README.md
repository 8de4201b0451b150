# betledger in TLA+

betledger keeps the wallets of players for game providers. Providers send
operations (BET, WIN, LOSS, REFUND, ROLLBACK) over HTTP or a FIFO queue; each is
settled against one wallet in PostgreSQL exactly once, whatever is repeated,
reordered or interrupted; what happened is announced by events that an outbox
publishes in order. This directory models the parts of that program where the
order of steps decides the result, checks them with TLC, and proves with TLAPS
what has to hold for any number of wallets, sessions and operations.

Paths below are relative to `src/`; "README" alone means `src/README.md`.

## 1. The system

| Component | State | Operations | Talks to |
|---|---|---|---|
| Domain: `internal/domain/{wager,wallet,ledger,money,event}` | none of its own; value objects and entities | `NewExternal`, `ResolveReference`, `MarkProcessed/Rejected/PendingReference`, `RecordMissingReference`, `Wallet.Apply` | called by the use cases |
| `ProcessWager` | one transaction: wallet, operation, ledger entry, events | settle an operation, replay it, report a conflict | HTTP handler, `ProcessInboxMessage`; PostgreSQL |
| `ResolvePendingReferences` | `attempts`, `next_attempt_at` of waiting operations | lease a batch, retry each in a transaction of its own | poller; PostgreSQL |
| `OpenWallet` | wallet, opening operation and entry, events | open a wallet | HTTP handler |
| `ProcessInboxMessage` | `inbox_messages` | take a message in, in the transaction of `ProcessWager` | queue consumer |
| `PublishOutbox` | `outbox_events`: `published_at`, `attempts`, `next_attempt_at` | lease, send, mark, reschedule | poller; event queue |
| `ReadWallet`, `ReadTransaction` | none | a wallet, pages of its ledger, an operation of the caller's own provider | HTTP handler |
| PostgreSQL repositories and schema | all tables | row locks, unique indexes, check constraints, conditional updates | the use cases |
| Queue consumer | the batch in hand | receive, handle, dead-letter, delete | command queue, `ProcessInboxMessage` |
| Background workers | goroutine, timer and context of each poller | rounds, shutdown | the three use cases that run in the background |
| HTTP server and authentication | requests in progress, the discovered identity provider | verify a token, check role and provider, validate, call a use case, answer | the use cases |
| API composition (`cmd/api`, Fx) | the order of the start | start the components, stop them in reverse | pool, verifier, listener |
| Configuration, metrics, logging, migrations | none that an operation depends on | | |

The components meet in the database. Use cases run in any number of goroutines
and processes; nothing is shared between them in memory. What makes them hard:

- **Interleaving.** Reads are READ COMMITTED. The row lock of the wallet
  (`SELECT ... FOR UPDATE`) orders what happens in one wallet; identifiers and
  idempotency keys are shared by all wallets of a provider, and there only the
  unique indexes order anything, by making a statement wait for another
  transaction in mid flight.
- **Retries and stale copies.** A worker holds a copy of an operation read when
  it was leased; the lease may run out and another worker may conclude it.
- **Failure.** Any statement may fail, a commit may succeed without an answer, a
  process may die between commit and deletion of the message, between the send
  of an event and its mark.
- **Order.** A reversal may arrive before what it reverses; events are numbered
  at insert and become visible at commit; messages come again while their first
  delivery is being handled; entries are stamped before the lock that orders
  them.
- **Not knowing.** A caller whose answer was lost, or who was told 503, cannot
  tell whether anything was committed and asks again; meanwhile the queue may
  bring the same operation.
- **Time.** Leases and backoffs are instants in rows, set by one worker and read
  by another; a worker may be late with either.
- **Numbers.** Amounts are texts outside and int64 minor units inside.
- **Ending.** Waiting operations must be given up in the end, sessions must not
  wait for each other for ever, a poisoned message must not block its group, and
  a shutdown must end while there is always more work.

What makes each component correct:

- *Settlement* (`ProcessWager`, `ResolvePendingReferences`, `OpenWallet` and the
  tables): balance, ledger and events tell the same story; each operation moves
  money at most once, and exactly when it is PROCESSED; nothing is reversed
  twice; concluded operations stay; answers are what is recorded; waiting is for
  a reason and ends; committed transactions are equivalent to decisions taken
  one at a time.
- *Outbox*: commit order is delivery order, nothing is dropped or marked unsent,
  everything is published in the end.
- *Inbox and consumer*: an operation is applied once however often its message
  comes; nothing is deleted that is neither recorded nor dead-lettered; every
  message leaves the queue.
- *Ledger pages*: in order, without repetition, complete for what was there.
- *Retries of references*: nobody takes what another worker holds in time, an
  attempt does not begin before the delay the policy asks for, what late workers
  disturb is what they attempt and no more, and an operation that waits is
  concluded or given up.
- *Money*: what is read is what the text says, what is written reads back as the
  same, and a sum is exact or an error.
- *HTTP*: whoever asks again is told the same story; "created" is said once;
  providers see nothing of each other; only those who may act do.
- *Workers and API process*: rounds go on until the shutdown, which ends, lets
  rounds and requests finish within its deadline and closes the pool last; a
  request never meets a component that has not started.

`PROJECT.json` lists the hazards line by line, each with the properties that
would catch it.

## 2. The modules

```
WagerRules          pure rules of the domain
  Settlement        transactions, locks, indexes and sessions over the tables
    SettlementBook    Settlement refines WalletBook
      SettlementProofs  types, what its indexes and row locks exclude, what the lock
                        is for (ledger and event order), what becomes of an
                        operation, and that it implements WalletBook, proved
  WalletBook        abstract specification: one decision at a time
ReferenceRetries    when waiting operations are tried again: leases, backoff, time
  ReferenceRetriesProofs  its leases are exclusive and attempts spaced, proved
OutboxPublisher     publishers, leases, the event queue
  OutboxPublisherProofs  its safety, proved
WagerConsumer       consumers, the command queue, inbox and operations
  WagerConsumerProofs  an operation is applied once however often it comes, proved
WagerApi            access, status codes and what successive callers are told
  WagerApiProofs      created once, providers apart, one story told, proved
Money               amounts: text, arithmetic, sign
  MoneyProofs         reading, writing and arithmetic are exact, proved
LedgerPages         pages of the ledger while operations settle
  LedgerPagesProofs   pages are in order and leave nothing out, proved
ProcessLifecycle    start, work and shutdown of the API and of the workers
  ProcessLifecycleProofs  work has what it uses and is not cut off, proved
```

**WagerRules** translates `internal/domain`: kinds, states and transitions
(`kind.go`, `state.go`), the conditions on a request (`NewExternal`), the
`Mark...` methods and `RecordMissingReference` (`transaction.go`), what an
operation may refer to (`ResolveReference`), and the direction, refusal and
overflow of a movement (`wallet.go`, `money.go`). Text is compared, never taken
apart, so it is atoms. Amounts are minor units up to `MaxBalance`, which stands
for the largest int64; a credit past it is the arithmetic error of the code, not
a wrapped number.

**Settlement** is the core. Its tables are `wallets`, `ops`
(`wager_transactions`), `ledger` (`wallet_ledger_entries`) and `outbox`, as
committed. A session is a goroutine in one transaction; its variables are the
local variables of `ProcessWager.Execute` or `ResolvePendingReferences.retry`,
and every statement it sends is a step:

| Action | Code |
|---|---|
| `Receive`, `Lease` | the call, with validation and payload hash; the copy of a waiting row, leased at any time and by several workers, since leases run out |
| `GetForUpdate`, `WalletNotFound` | `SELECT ... FOR UPDATE`, waiting for the lock |
| `FindReplay` / `Reload` | what is on record under key and identifier / the row as it is now |
| `FindReference`, `Conclude` | `findReference` with its two queries, `conclude` |
| `Save` | insert or update of the operation: waits for uncommitted rows in the unique indexes, fails on committed ones |
| `Write` | conditional update of the balance, ledger entry under its constraints, events |
| `Commit`, `Rollback`, `Return` | the end of the transaction, from any statement, and the answer |
| `OpenWallet` | one step: nobody can see its rows before they commit |

**WalletBook** says what the settlement promises without any of that: an
operation is parked while what it refers to is undecided, applied with its effect
or refused for a reason, in one instant. **SettlementBook** maps the tables to
the book; `ImplementsBook` says each commit is one such decision, justified by
the tables as they are when it commits.

**ReferenceRetries** is the other half of `ResolvePendingReferences`: not what a
retry does to the wallet, which Settlement has with retries at any moment, but
when it happens. Instants are kept as the time left until them or passed since
them: `wait` is what `next_attempt_at` leaves, `elapsed` the time since a worker
leased its batch, `age` the time since the clock reading a retry carries to its
end (`retry` reads it before it waits for the lock). `schedule` is the order of
`next_attempt_at` in which `LeasePendingReferences` takes rows. `Backoff` is the
loop of the code at the width of the integers, `Doubled` what it is for. A retry has
no deadline, so a round takes any time and its worker may be `Late`: what it still
has in hand is then due, and another worker takes it too. `overtaken` remembers, for
each worker, which of the operations it has in hand another has counted an attempt
of meanwhile; it is a history variable, read by the properties alone.

**OutboxPublisher** has the rows of each wallet in commit order (which
`OutboxFollowsCommitOrder` of Settlement justifies), what the event queue
accepted, what its deduplication remembers, and for each publisher its leased
batch and the send whose outcome is not recorded yet. Instants are abstracted to
whether a row is due: a lease or backoff may run out at any moment.

**WagerConsumer** has the FIFO queue (groups, visibility, redrive), the dead
letter queue, the inbox and the operations. A consumer goes through parse, find,
settle, record, commit, dead letter and delete, with visibility running out,
outages, other database errors, unanswered commits and crashes in between. What
settling does to the wallet is Settlement's subject; here it finds the operation
recorded, refuses it, or records it. `HttpRequest` is the same operation sent
over HTTP.

**WagerApi** is the HTTP interface over a database of operations and wallets. A
call goes from `sent` through `handled` to `answered`; what it is refused for is
`Refusal`, the checks of middleware and handler in their order. Settling an operation
is one step: Settlement has its statements, and the locks and indexes that make one
step of it. Opening a wallet is two, since calls race for it: `CreateWallet` inserts
its row, which nobody else sees yet and which makes an insert of the same wallet wait
(a call in stage `opening`), and `OpenWallet` commits, or `Fail` and `Forget` roll
back. `version` stands for the wallet, and `at` for the balance an operation
observed (each movement has a version of its own). What a caller cannot know is
there: a commit whose answer was lost is answered like an outage, calls end
without an answer (`Forget`), the queue brings operations (`Deliver`), workers
conclude what waits (`Resolve`). A call remembers which calls were answered before
it was sent (`before`), so properties can speak of successive answers while others
are in progress. Openings are operations of no provider, never reported by these
routes, and are left out of `ops`.

**Money** has one value that is read, added to, negated and written. A text is its
sign and the digits between its separators; `ParseMinorUnits`, `Amount`, `Add`, `Sub`
and `Neg` follow the code digit by digit and wrap around at `MaxInt`, and the
properties compare them with the exact value: that of a text is the sum of its
digits by their places (`Magnitude`), which no part of the code computes.

**LedgerPages** has the clock, the stamp each operation takes before the lock,
the entries in the order they commit, `updatedAt` of the wallet, and a reader that
follows cursors.

**ProcessLifecycle** is either binary (`app`): its components in the order Fx
starts them, stopped in reverse under one deadline, what had started also when a
start fails. Meanwhile requests are accepted, take a connection and end, and each
poller goes through its select loop with its timer, `stopping` channel and
`workCtx`. The pool is open from its construction; only its hook pings the
database. The queue lookups of publisher and consumer are one component.

## 3. The runs

Each `MC*` module gives the constants of one question; each `.cfg` lists the
properties. Distinct states are those of the complete search.

| Run | Instance | Question |
|---|---|---|
| `reversals` (422 000) | 1 wallet, a bet, its REFUND, its ROLLBACK and the ROLLBACK of the refund; 2 callers, 1 worker, 1 attempt | balance, ledger, reversals; refinement of the book |
| `wallets` | 3 wallets, 7 operations that share keys, identifiers and references between wallets, refusals of every kind; 2 callers | what the lock, the indexes and the sequence protect |
| `retries` | 1 wallet, a reversal that waits, two operations that wait for each other; 2 workers, 1 caller, 2 attempts | attempts, outcomes, stale copies |
| `sessions_end` | 3 wallets (one never opened), one key in two wallets; 2 callers, 1 worker | every session leaves its transaction |
| `consumers` (405 000) | 2 consumers, 5 queues of two messages: the same twice, one content under two keys, one identifier or key with two contents, a malformed one and one for no wallet; 2 receives | at most once, nothing dropped, every message leaves |
| `publishers` (26 000) | 2 publishers, 2 events of a wallet, 2 failures counted | order, no loss, everything published |
| `ledger_pages` (61 000) | 2 writers, 4 entries, 3 instants, pages of 1 | order and completeness of pages |
| `reference_retries` (287 000) | 2 operations, one of which fails at every attempt once its reference is there; 2 workers of any slowness, batches of 1, 4 attempts, base delay 1, cap 2, lease 2, integers up to 3 | leases, spacing of attempts, the end of waiting |
| `wager_api` (1 203 000) | 2 providers that share a key, a name and a wallet, a wallet that does not exist, 17 requests over the six routes, 2 messages of the queue; 2 calls, used again and again | what callers are told, and of whose operations |
| `money` (2 500) | integers of five bits, base 3, all texts of up to two digits on either side and some beyond | reading, writing, arithmetic |
| `processes` (6 700) | both binaries: pool, verifier, server; pool, queues, server and 3 pollers; 2 requests | start, shutdown, what work meets in between |
| `lost_message` | as `consumers` | expects a violation, see section 6 |

*Why the bounds are enough.* Races here are between two sessions, and the third
actor (a worker, a third wallet) is there where code of another kind takes part.
Four operations are the longest chain of references (a ROLLBACK may refer to a
REFUND, which refers to a BET) with a competing reversal. Balances are chosen so
that some bet is not covered and some credit passes `MaxBalance`. Two attempts
distinguish the last one from the others; in `reversals` the first is the last.
Two events suffice for the order of publication, which is a relation between
pairs, and two receives make a message come again and then be redriven.
`MaxEvents`, `MaxFailures`, `MaxClock`, `MaxEntries` and `MaxReceives` bound
counters; of these only `MaxReceives` is a limit of the system. Sets of like
goroutines are symmetric in the runs without liveness.

Two calls suffice in `wager_api`: its properties relate pairs of answers, and a
call that was forgotten is made again with any request, while what was committed
for it stays. Between the two, the queue and the workers act as well, and both may
open the wallet at once. Four attempts make `Backoff` double, reach its cap and stay there, and `MaxDuration` is
so small that doubling without the guard would wrap; times since an instant are
not told apart past `MaxDelay`, and those since a lease past `LeaseTime`, when the
worker is late. Five bits and base three leave the largest integer
with a third digit that some texts pass and others do not, which is where
accumulation may overflow; currencies are two well formed codes and one that is
not.

*Deadlock* is checked in `reversals`, `wallets`, `retries`, `sessions_end`,
`ledger_pages`, `reference_retries`, `wager_api` and `money`: the database can
always take another operation, time passes and clients call. It is not in
`publishers`, `consumers`, `lost_message` and `processes`, where events and
messages are used up and the process may have stopped.

*Fairness.*
- Settlement: strong fairness of `GetForUpdate` and of the statements under the
  lock. PostgreSQL grants row locks in the order they were asked for, and a
  statement is answered or fails. That statements end is an assumption: requests
  and messages have a deadline, retries and publications none of their own.
  Nothing is assumed of `Receive`, `Lease`, `OpenWallet` or `Rollback`.
- OutboxPublisher: instants pass; pollers keep polling (strong fairness of
  leasing, since the other publisher may hold the event again and again); a send
  tried for ever succeeds once, and so does its mark. Crashes are not fair, and
  neither is `RecordEvent`.
- ReferenceRetries: time passes, pollers lease and rounds go on (weak), and no
  operation meets a failure or a crash at every retry (strong, of its `Begin` and
  `Retry`). `Overflowing` operations are exempt: they fail for good. Crashes and
  single failures are not restricted.
- WagerConsumer: some consumer receives, steps end, visibility runs out, the
  redrive policy acts. Failures are unrestricted: no transaction need ever
  succeed for a message to leave.
- ProcessLifecycle: each hook of the start ends or fails (discovery has a
  deadline, Fx another), a request ends by its own deadline at the latest, timers
  fire, rounds end, hooks of the stop go on, and `select` chooses at random
  between ready cases, hence strong fairness of `Leave`. Nothing makes a shutdown
  begin or its deadline run out. That a request ends by its deadline takes the
  driver, which closes the connection of a statement that ran out of time.

*Types.* `TypeOK` of Settlement is checked and proved, that of OutboxPublisher
proved. In the other modules it documents the variables; their runs are spent on
properties that could fail.

## 4. What is proved

`SettlementProofs` proves, for any sets of wallets, callers, workers, requests
and opening balances and any `MaxBalance` and `MaxAttempts`:

- `TypeCorrect`: `Spec => []TypeOK`. This is not free: that rows written by
  `RecordMissingReference` keep `attempts <= MaxAttempts`, and balances stay
  natural numbers, depends on the guards before them.
- `WaitingEnds`: `Spec => []WaitingIsBounded`, an operation is given up exactly
  at its last attempt, whichever workers make the attempts.
- `RecordedOnce`: `Spec => []OneOperationPerKey`, an identifier or idempotency
  key names one recorded operation, whatever wallets it is sent to at once.
- `ReversedOnce`: `Spec => []OneReversalPerReference`, nothing is reversed twice.
- `CurrentWallet`: `Spec => []LoadedWalletIsCurrent`, a session that holds the
  row lock works on the wallet as it is committed.
- `CommitsInSequence`: `Spec => []OutboxFollowsCommitOrder`.
- `LedgerIsExact`: `Spec => []LedgerExplainsBalance`, the entries of a wallet are
  a chain from nothing to its balance.

And what becomes of an operation, its money and its events:

- `OnlyAdvance`: `Spec => OperationsOnlyAdvance`, no commit loses, reopens or
  rolls back an operation.
- `AnswersAreRecorded`: `Spec => []AnswerIsRecorded`.
- `MovesMoneyOnce`: `Spec => []MoneyMovesOnce`.
- `EventsTellLedger`: `Spec => []BalanceEventsFollowLedger`.
- `OutcomesAreTold`: `Spec => []OutcomeIsAnnouncedOnce`.

And the refinement:

- `OneDecisionAtATime`: `Spec => ImplementsBook`, every commit is one decision of
  WalletBook or a stutter.
- `ReversalsUndo`: `Spec => []ReversalsCancel`.
- `WaitingIsWarranted`: `Spec => WaitsOnlyForMissing`.
- `ConflictsAreReal`: `Spec => []NoSpuriousConflict`.

`OutboxPublisherProofs`, for any wallets and publishers and any `BatchSize`,
`MaxEvents` and `MaxFailures` that are positive:

- `WellTyped`: `Spec => []TypeOK`.
- `DeliveredInOrder`: `Spec => []FirstDeliveriesInOrder`.
- `MarkedAfterDelivery`: `Spec => []PublishedWasDelivered`.
- `HoldersNeverOvertake`: `Spec => []NoPublisherOvertakes`.

`WagerConsumerProofs`, for any consumers, any envelopes and any number of
deliveries:

- `AppliesOnce`: `Spec => []AppliedOnce`.
- `TakenInWithOperation`: `Spec => []InboxHoldsOperations`.
- `DeletedIsHandled`: `Spec => []DeletesOnlyTheHandled`.

`ReferenceRetriesProofs`, for any operations, workers, policy and lease:

- `LeasesAreExclusive`: `Spec => []LeaseIsHeld`, of the workers that have an
  operation in hand, one at most is within its lease and was not overtaken.
- `RetriesAreSpaced`: `Spec => AttemptsAreSpaced`.

Neither assumes that a round ends within its lease, which nothing in the code
makes it do.

`MoneyProofs`, for any base and width:

- `ReadingExact`: `Spec => []ReadingIsExact`, a text is read as what it means, and
  refused only for its form, its sign, its magnitude or its currency.
- `WritingExact`: `Spec => []WritingIsExact`, what is written is read back.
- `ArithmeticExact`: `Spec => ArithmeticIsExact`, the overflow checks of `Add`,
  `Sub` and `Neg` are exact: a result is right or refused, and refused only when
  it does not fit.

`LedgerPagesProofs`, for any ledger, writers, clock and page size:

- `PagesComeInOrder`: `Spec => []PagesAreOrdered`, no entry is given twice or out
  of order while the ledger grows.
- `PagesLeaveNothingOut`: `Spec => []PagesHoldWhatWasThere`.

`ProcessLifecycleProofs`, for either binary and any requests:

- `WorkIsProvidedFor`: `Spec => []WorkHasWhatItUses`.
- `WithinTheDeadlineNothingIsCut`: `Spec => []NothingIsCut`.

`WagerApiProofs`, for any calls, requests and messages:

- `CreatedIsSaidOnce`: `Spec => []CreatedOnce`.
- `ProvidersStayApart`: `Spec => []ProvidersAreApart`.
- `AskedAgainToldTheSame`: `Spec => []AnswersTellOneStory`.
- `WalletsAreToldInOrder`: `Spec => []WalletAnswersFollow`.

`TypeOK` is not inductive: the rows in `ops` get their counters from copies that
sessions hold, so the invariant has to speak of these copies too. `TypeInv` gives
every row, committed or in hand, the condition `CountsAttempts` (the failure code
says "given up" exactly at the last attempt, and an undecided row has no failure
code). The proof has a lemma for each domain method, one for each group of
actions, and one step for each action.

That a committed key is unique says nothing of rows still to be committed, so
`IndexInv` speaks of them: what a session wrote clashes neither with what is
committed nor with what another session wrote. `Save` establishes it, because the
index makes it wait for the one and fail on the other. A worker updates a row
that exists, so its identity does clash, with that row and no other;
`SessionInv` says a worker always settles a recorded request, and a processed
reversal always knows what it resolved to, without which it would be in no index
of reversals. `LockInv` (two sessions under the lock have different wallets, each
open and as committed) rests on both: a worker finds its row again by name, and
only because names are unique does it find the wallet it locked.

The ledger and outbox proofs speak of what a session is about to commit.
`EntryInv`: an uncommitted entry starts from the balance the session read, which
`LockInv` makes the committed one, so appending it extends the chain. `EventInv`:
uncommitted events belong to the locked wallet, so no two sessions number events
of one wallet at once. `CopyInv`: the copy a worker settles is, or follows from,
the row as it is, because only the holder of the wallet's lock replaces its rows
and the worker reads again under the lock. `OutcomeInv` gives each row an entry
exactly when it is processed and of a kind that moves money, `MoneyInv` makes every
entry but the opening that of one recorded operation, and `AnnounceInv` ties the
events about to be committed to the entry and the next version of the wallet.
`ToldInv` adds that an operation still waiting has been announced by one event and
no more, and that nothing is announced of what is not recorded, so the event a
commit brings is the first or the last word about its operation.

The refinement has to show that what a session concludes, from reads it made at
different instants, still stands when it commits. `VerdictInv` keeps the reason of
every outcome about to be committed: the row it resolved to, the row that
contradicts it, the balance that is short, or the absence of a decided reference
(`Verdict` in `SettlementProofs`); `ReadInv` says what `findReference` read is
on record as far as it matters. No step of another session takes a reason away: a
concluded row stays as it is, a row of the wallet is added or replaced only under
its lock, and the balance read under the lock is the committed one. That is why the
book waits only for operations of the wallet: a reference of another wallet may be
committed between the lookup and the commit. `BookedInv` ties the ledger to the
kinds (a bet takes its amount, a reversal has the opposite effect of what it refers
to), so that the effect of an entry is the effect the book gives the request. The lock
is also why a conflict is never with oneself (`FreshInv`): what `FindReplay` did not
find is not added to the wallet before the insert, and two reversals that resolved
to the same operation are of one wallet, so the second sees the first.

The outbox rests on `HeadOfWallet`: all predecessors of an event in some
publisher's hands are marked. The lease gives out nothing else, and marks are
never taken back, so it stays true however late the holder is. A send therefore
extends the delivered prefix by one or repeats a part of it. A row is marked only
after an answer, and an answer means delivery (the deduplication set is contained
in what was delivered, so a dropped repetition is one too).

The leases rest on `Covered`: while a worker has an operation in hand, is within its
lease and was not overtaken at that operation, the lease has at least as much time
left as it has still to run (`wait` and `elapsed` add up), so the operation is not
due and nobody can take it. Only an attempt counted by a worker that has it too sets
a new wait, and that worker has then overtaken the other; a conclusion leaves nothing
to take.

That attempts are spaced is an argument about clocks. For an operation that waits,
the time since its last counted attempt and the time left until the next make up
at least the backoff (`Spaced`); both change together as time passes, and what is
cut off at `MaxDelay` is no less than any backoff. An operation is leased when nothing
is left, so what is in a batch has waited (`SpacingInv`), and stays so until another
worker counts an attempt, which marks it overtaken. What remains is that the
loop of `backoff` is no less than the doubling without the cap and never wraps
(`BackoffIsEnough`).

Reading rests on `AccumulateIsExact`: before each digit the number read so far is
that of the digits in front of it (`Horner`) and fits, or there is a character that
is no digit, or the number was refused and is past `MaxInt`, where it stays, since
it only grows. `GuardIsExact` is the step: the quotient the guard compares with
says exactly whether the next digit fits. `WeightIsNumber` shows that the number
computed digit by digit is the sum by places; `FormatUintIs` that the digits
written for a number have it as their number, by induction over the number, each
digit taking one division off. Quotients by a base that is a parameter are beyond
the provers unless they are named, which is what `Quotient` and `Remainder` are for.

A recursive function is defined by a choice, so a proof has to show first that
there is such a function (`Recursion`, `DelaysExist`, `WrittenExists`), and then go
along it. Both are inductions over a set of naturals (`Induction`), which follows
from the well-foundedness of their order without an operator for the predicate.

The pages rest on `PagesInv`: the cursor divides the entries that were given from
those that were not. An entry committed later may fall on either side of it, but
never between entries given, since a page is a downward closed part of what is
behind the cursor. That a page holds as many entries as asked for, and none when
nothing is left, is counting: `Rank` is the place of an entry in its order, places
differ and are at most the number of entries, so all of them are taken
(`RanksAreTaken`). The order itself is one because `(created_at, id)` is unique.

Processes rest on `LifecycleInv`, which ties whoever works to how far the start came
(`started`, which the stop takes back from the end; `PlaceOf` is the place of each
component): the pool is open from the first component on and keys and queues are known
from the second, a request is in progress only with the server among the started
components, a poller waits or has a round only with itself among them. The deadline
alone lets a poller that is not done be cancelled and lets the process stop with
components left. A component is taken off only when its own work has ended, so nothing
is taken from under work in progress, whether the stop follows a signal or a start
that failed.

Consumption is exact without any help from the queue: the invariant says nothing of
visibility or receive counts, so the same message may be in any number of hands.
What a consumer found out in its transaction (`StillSo`: no operation has the key,
or this one has; no inbox row has the identifier) stays so until it commits. Nobody
else is in a transaction of the wallet (`ApartInv`), over HTTP neither, and a key
names operations of one wallet, which is an assumption on the envelopes; where a
key is sent to two wallets, the unique index decides, and that is proved in
`SettlementProofs` (`RecordedOnce`). An inbox row is inserted only when no other
consumer is about to commit one with its identifier.

Answers are backed by rows (`Backed` in `WagerApiProofs`): a result by an operation
with the caller's provider, key and payload, a conflict by one that differs in one
of them, a creation by the operation or wallet created. Rows are replaced only by
what becomes of them (`Kept`), so the backing stays whatever the queue and the
workers do, and a second creation would need a name that is both new and backed.
For wallets that takes `OpeningInv`: whoever is about to commit one is alone with it,
and it does not exist yet, because the index lets no second insert in and operations
are recorded only of wallets there are. The proof has one lemma for the database, one
for each action. That answers follow
from each other needs more: `Vouched` ties what an answer said to a row that says
it, with the outcome and the balance once it is concluded, and to the version of
its wallet; `Advances` says that no step takes that back (a concluded row stays, a
name keeps its row). So it is true when a later call is handled, and each outcome of
its use case is compared with it (the lemmas `After...`). `OrderInv` remembers who
was answered before whom. A variant of an operation sent to a wallet that does not
exist is told 404, not 409, because the wallet is looked up before the replay
(`process_wager.go:108`).

Assumptions, each named beside the constants: owners and currencies are
functions on the wallets, `MaxBalance` and `MaxAttempts` are positive, a request
has the fields of a request, a wallet of `Wallets` and a natural amount, opening
balances fit, callers and workers are different goroutines, an opening has
the name of no operation (it is recorded without a provider,
`transaction.go:31,149`); messages are finite in number and an idempotency key is
used in one wallet (WagerConsumer); a retry policy is one that `Config.validate` accepts;
there is some request to send; the machine's integers hold at least three digits.

With these, every invariant and every action property the runs check is proved. Only
model-checked are the five liveness properties: `EverySessionEnds`,
`EveryMessageLeaves`, `EveryEventIsPublished`, `WaitingEnds` and `ShutdownEnds`.
Fairness and ENABLED are out of the prover's reach. `RECURSIVE` operators do not
occur in any module; recursion is by functions.

## 5. What is not modelled

- The length and character checks on fields, and the texts of cursors and
  identifiers: a request with such a defect is `defect` in WagerApi, answered 400.
- Delays other than those of waiting references: the backoff of the outbox and
  poll intervals are abstracted to "due at any time", which allows more behaviours
  than the code.
- The comparison of `reconciliation`: one statement that adds up the ledger;
  `LedgerExplainsBalance` is what makes it come out even.
- The verification of a token (a library; WagerApi starts from whether it was
  accepted, the roles and the provider), health endpoints, configuration, metrics,
  logging. Migrations run in a container that ends before the API starts.
- Whether a statement that ran out of time is rolled back in time, which is up to
  the driver: sessions and requests are assumed to end.
- The order of messages of different groups, and of one group after a transient
  failure: no document promises any, and settlement tolerates all.
- `Transaction.MarkFailed`, which no use case calls, and the triggers that forbid
  changing ledger entries, which no statement of the code tries.
- The payloads of events beyond type, wallet, version and order.

## 6. Where code and documents differ

The first has a run. The others have a configuration of their own, which asks of
the same instance what the document says; TLC ends with the counterexample, e.g.
`tlc -config MCRedelivery.cfg MCConsumers`.

- `lost_message` (`MCLostMessage.cfg`): the consumer deletes a message also when
  sending it to the dead letter queue failed (`consumer.go:180`).
- `MCRedelivery.cfg`, `MCConsumers`: two deliveries of a message at once both find
  the inbox empty; the second ends in the dead letter queue as a conflict
  (`inbox.Record`), although its operation was applied. `README:314` says a
  redelivery is recognised.
- `MCTransientFailure.cfg`, `MCConsumers`: an error the server answers while it
  shuts down, or a connection cut in mid statement, is not `ErrUnavailable`
  (`postgres/errors.go:30`), and the message goes to the dead letter queue;
  `README:319` says transient failures leave it in the queue.
- `MCLostEntry.cfg`, `MCLedgerPages`: an entry committed behind a cursor that
  already passed its instant is on no later page (`process_wager.go:86`);
  `README:370` says nothing is lost between pages.
- `MCStaleInstant.cfg`, `MCLedgerPages`: of two operations that overlap, the one
  applied last may set `updatedAt` of the wallet back while its version grows
  (`wallet.go:191`); `README:375` says the two go together.
- `MCSlowRetry.cfg`, `MCReferenceRetries`: a worker whose lease ran out tries an
  operation that another worker has tried meanwhile, so attempts come closer than the
  delays and the operation may be given up early (`EveryAttemptIsSpaced`;
  `resolve_pending_references.go:134`). The comment on the policy (line 18) calls the
  delays the wait before each further attempt.
- `MCCutLease.cfg`, `MCReferenceRetries`: such a worker also overwrites
  `next_attempt_at`, and with it the lease of the other, so that a third round
  takes the operation before that lease is over (`HeldForItsLease`;
  `resolve_pending_references.go:145`). The comment on `Lease` (lines 23-24) says how
  long an operation is held before another worker may take it. `LeaseIsHeld` and
  `AttemptsAreSpaced` say what holds nevertheless.

Worth knowing, and not against any document except where said:

- The version in `UPDATE wallets ... WHERE version = ?` is a second line of
  defence: without the row lock the ledger would still explain the balance (the
  update would fail), and other properties break instead
  (`LoadedWalletIsCurrent`, `NoSpuriousConflict`, the refinement).
- The payload hash leaves the idempotency key out, so a message with the same id
  and content under another key is acknowledged as a redelivery
  (`DeletesOnlyTheHandled` is therefore stated by content).
- Opening a wallet has no idempotency key: a caller told 503 after the commit asks
  again and is told 409, without the id of the wallet. Operations are replayed
  instead (`AnswersTellOneStory`).
- With an odd cap, `Backoff` may reach the cap one doubling early; the wait is then
  longer than doubled, never shorter.
- A WIN that refers to a BET already refunded is accepted; only reversals are
  checked against reversals.
- An operation is only certain to see the undecided state of a reference in its
  own wallet, which is why `Undecided` in WalletBook speaks of the wallet.
- First deliveries are in order, but a publisher held up beyond its lease repeats
  an old event, which the queue drops only within its deduplication interval;
  after it, the old event follows newer ones.
- A poller told to stop may begin another round when its timer is due at the
  same moment, since `select` chooses either; `ShutdownEnds` rests on the choice
  being random.

## 7. Plan

Written so far: settlement with its abstract specification, retries in time,
publication, consumption, the HTTP interface, pages, money, pollers and the API
process. What is left:

*Composition*: settlement and outbox, so that each committed event is published in
the order of the versions of its wallet. The two halves are proved apart
(`CommitsInSequence`, `DeliveredInOrder`).
