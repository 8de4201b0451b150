----------------------------- MODULE Settlement -----------------------------
(***************************************************************************)
(* The core of the system: provider operations and retries of pending      *)
(* operations settled concurrently against PostgreSQL.                     *)
(*                                                                         *)
(* A session is one goroutine inside one database transaction: a caller    *)
(* runs ProcessWager.Execute, a worker runs ResolvePendingReferences.retry.*)
(* Each statement sent to the database is a step of its own, and the       *)
(* sessions interleave between statements.  Reads see what is committed    *)
(* (READ COMMITTED); what a session wrote becomes visible at its Commit;   *)
(* unique indexes also see the rows other sessions have not committed yet, *)
(* and wait for them.  A failure at any statement, a crash and a timeout   *)
(* all end in Rollback.                                                    *)
(*                                                                         *)
(* Optional values are sets of at most one element.                        *)
(***************************************************************************)
EXTENDS WagerRules

CONSTANTS
  Callers,          \* goroutines serving HTTP requests or queue messages
  Workers,          \* goroutines retrying pending operations
  Requests,         \* the operations providers may send, and send again
  OpeningBalances   \* the initial balances wallets are opened with

ASSUME SessionsAssumption == Callers \cap Workers = {}
ASSUME RequestsAssumption ==
  \A r \in Requests :
    /\ DOMAIN r = FieldNames
    /\ r.wallet \in Wallets
    /\ r.amount \in Nat
ASSUME OpeningAssumption == OpeningBalances \subseteq 0..MaxBalance

Sessions == Callers \cup Workers

VARIABLES
  \* tables: what is committed
  wallets,     \* wallets:               [open, balance, version] by id
  ops,         \* wager_transactions:    the set of rows but the OPENING ones
  ledger,      \* wallet_ledger_entries: entries of each wallet, oldest first
  outbox,      \* outbox_events:         the set of committed events
  \* sessions: the local variables of each use case
  pc,          \* the statement the session runs next
  tx,          \* the transaction object being settled, if any
  loaded,      \* the wallet as GetForUpdate read it
  reference,   \* the row findReference read, if any
  entry,       \* the ledger entry Apply produced, if any
  events       \* events inserted and not yet committed

tables == <<wallets, ops, ledger, outbox>>
session == <<pc, tx, loaded, reference, entry, events>>
vars == <<wallets, ops, ledger, outbox,
          pc, tx, loaded, reference, entry, events>>

-----------------------------------------------------------------------------
(* Types *)

Names == {NameOf(r) : r \in Requests}

OpeningName(w) == <<"OPENING", w>>

\* Openings are recorded under no provider.
ASSUME NamesAssumption ==
  \A r \in Requests, w \in Wallets : NameOf(r) # OpeningName(w)

Row == [request       : Requests,
        state         : States,
        resolved      : BOOLEAN,
        attempts      : 0..MaxAttempts,
        failureCode   : RejectionCodes \cup {NoFailure},
        resultBalance : Nat \cup {NoBalance}]

WalletRow == [open : BOOLEAN, balance : Nat, version : Nat]

ClosedWallet == [open |-> FALSE, balance |-> 0, version |-> 0]

Entry == [op        : Names \cup {OpeningName(w) : w \in Wallets},
          direction : {"DEBIT", "CREDIT"},
          amount    : Nat,
          before    : Nat,
          after     : Nat]

EventTypes == {"WagerTransactionPendingReference", "WagerTransactionRejected",
               "WagerTransactionProcessed", "WalletBalanceChanged"}

Event == [seq     : Nat,
          wallet  : Wallets,
          op      : Names \cup {OpeningName(w) : w \in Wallets},
          type    : EventTypes,
          version : Nat]

Steps == {"idle", "GetForUpdate", "FindReplay", "Reload", "FindReference",
          "Conclude", "Save", "Write", "Commit", "answered", "conflict"}

TypeOK ==
  /\ wallets \in [Wallets -> WalletRow]
  /\ ops \subseteq Row
  /\ ledger \in [Wallets -> Seq(Entry)]
  /\ outbox \subseteq Event
  /\ pc \in [Sessions -> Steps]
  /\ tx \in [Sessions -> SUBSET Row]
  /\ loaded \in [Sessions -> WalletRow]
  /\ reference \in [Sessions -> SUBSET Row]
  /\ entry \in [Sessions -> SUBSET Entry]
  /\ events \in [Sessions -> SUBSET Event]

-----------------------------------------------------------------------------
(* Reading the tables *)

\* Rows under an external identifier of the provider (FindByExternalID).
RowsNamed(name) == {u \in ops : NameOf(u.request) = name}

SameKey(r1, r2) == r1.provider = r2.provider /\ r1.key = r2.key

ReferenceName(request) == <<request.provider, request.ref>>

\* The kinds the query and the partial unique index on reversals list.
ForgottenRollback == {"REFUND"}
IndexedReversals == {"REFUND", "ROLLBACK"}

\* A row that reversed the operation called `name` and took effect.
ReversesProcessed(u, name) ==
  /\ u.request.kind \in IndexedReversals
  /\ u.state = "PROCESSED"
  /\ u.resolved
  /\ ReferenceName(u.request) = name

HasProcessedReversal(name) == \E u \in ops : ReversesProcessed(u, name)

\* The entries of the wallet that belong to an operation.
EntriesOf(w, name) == {i \in DOMAIN ledger[w] : ledger[w][i].op = name}

-----------------------------------------------------------------------------
(* Transactions, row locks and unique indexes of the database *)

\* The statements that run once the row lock of the wallet is held; the lock
\* goes when the transaction ends.
Holding == {"FindReplay", "Reload", "FindReference", "Conclude", "Save",
            "Write", "Commit"}

HoldsLock(s, w) == pc[s] \in Holding /\ \E t \in tx[s] : t.request.wallet = w

LockIsFree(w) == \A s \in Sessions : ~HoldsLock(s, w)

\* Rows other sessions inserted or updated and did not commit yet.
UncommittedOrTrying(s) ==
  UNION {tx[other] :
          other \in {z \in Sessions \ {s} : pc[z] \in {"Save", "Write", "Commit"}}}
Uncommitted(s) ==
  UNION {tx[other] : other \in {z \in Sessions \ {s} : pc[z] \in {"Write", "Commit"}}}

\* The three unique indexes of wager_transactions.
SameReversal(t, u) ==
  ReversesProcessed(t, ReferenceName(t.request))
    /\ ReversesProcessed(u, ReferenceName(t.request))

ClashesButForKey(t, u) ==
  \/ NameOf(t.request) = NameOf(u.request)
  \/ SameReversal(t, u)
Clashes(t, u) ==
  \/ NameOf(t.request) = NameOf(u.request)
  \/ SameKey(t.request, u.request)
  \/ SameReversal(t, u)

-----------------------------------------------------------------------------
(* Steps *)

\* The database transaction of s is over; `next` is what its caller sees.
EndSession(s, next) ==
  /\ pc' = [pc EXCEPT ![s] = next]
  /\ loaded' = [loaded EXCEPT ![s] = ClosedWallet]
  /\ reference' = [reference EXCEPT ![s] = {}]
  /\ entry' = [entry EXCEPT ![s] = {}]
  /\ events' = [events EXCEPT ![s] = {}]

Goto(s, step) == pc' = [pc EXCEPT ![s] = step]

\* ProcessWager.Execute up to the database transaction.
Receive(s, r) ==
  /\ pc[s] = "idle"
  /\ IsValidRequest(r)
  /\ tx' = [tx EXCEPT ![s] = {NewExternal(r)}]
  /\ Goto(s, "GetForUpdate")
  /\ UNCHANGED <<tables, loaded, reference, entry, events>>

\* A lease names any pending operation, also one another worker still works on:
\* leases run out.  SKIP LOCKED passes over a row with an uncommitted update.
\* Only the identifiers of the row taken here are used later.
Lease(s, t) ==
  /\ pc[s] = "idle"
  /\ t.state = "PENDING_REFERENCE"
  /\ \A u \in Uncommitted(s) : NameOf(u.request) # NameOf(t.request)
  /\ tx' = [tx EXCEPT ![s] = {t}]
  /\ Goto(s, "GetForUpdate")
  /\ UNCHANGED <<tables, loaded, reference, entry, events>>

\* SELECT ... FOR UPDATE: waits for the row lock.
CanReadUnlocked(s, w) == wallets[w].open
CanLock(s, w) == wallets[w].open /\ LockIsFree(w)

GetForUpdate(s) ==
  /\ pc[s] = "GetForUpdate"
  /\ \E t \in tx[s] :
       /\ CanLock(s, t.request.wallet)
       /\ loaded' = [loaded EXCEPT ![s] = wallets[t.request.wallet]]
  /\ Goto(s, IF s \in Callers THEN "FindReplay" ELSE "Reload")
  /\ UNCHANGED <<tables, tx, reference, entry, events>>

WalletNotFound(s) ==
  /\ pc[s] = "GetForUpdate"
  /\ \E t \in tx[s] : ~wallets[t.request.wallet].open
  /\ tx' = [tx EXCEPT ![s] = {}]
  /\ EndSession(s, "idle")
  /\ UNCHANGED tables

\* Same key and payload: the recorded operation is the answer.
IsReplayOf(u, r) ==
  SameKey(u.request, r) /\ PayloadHash(u.request) = PayloadHash(r)

\* Same key with another payload, or same identifier under another key.
IsConflictWith(u, r) ==
  \/ SameKey(u.request, r) /\ PayloadHash(u.request) # PayloadHash(r)
  \/ NameOf(u.request) = NameOf(r) /\ \A v \in ops : ~SameKey(v.request, r)

FindReplay(s) ==
  /\ pc[s] = "FindReplay"
  /\ \E t \in tx[s] :
       \/ \E u \in ops :
            /\ IsReplayOf(u, t.request)
            /\ tx' = [tx EXCEPT ![s] = {u}]
            /\ EndSession(s, "answered")
       \/ /\ \E u \in ops : IsConflictWith(u, t.request)
          /\ EndSession(s, "conflict")
          /\ UNCHANGED tx
       \/ /\ \A u \in ops : ~IsReplayOf(u, t.request)
                              /\ ~IsConflictWith(u, t.request)
          /\ Goto(s, "FindReference")
          /\ UNCHANGED <<tx, loaded, reference, entry, events>>
  /\ UNCHANGED tables

\* The retry works on the row as it is now, not as it was when leased.
ReloadAsLeased(s) ==
  /\ pc[s] = "Reload"
  /\ \E t \in tx[s] : \E u \in RowsNamed(NameOf(t.request)) :
       \/ /\ u.state = "PENDING_REFERENCE"
          /\ Goto(s, "FindReference")
          /\ UNCHANGED <<tx, loaded, reference, entry, events>>
       \/ /\ u.state # "PENDING_REFERENCE"
          /\ tx' = [tx EXCEPT ![s] = {}]
          /\ EndSession(s, "idle")
  /\ UNCHANGED tables
Reload(s) ==
  /\ pc[s] = "Reload"
  /\ \E t \in tx[s] : \E u \in RowsNamed(NameOf(t.request)) :
       \/ /\ u.state = "PENDING_REFERENCE"
          /\ tx' = [tx EXCEPT ![s] = {u}]
          /\ Goto(s, "FindReference")
          /\ UNCHANGED <<loaded, reference, entry, events>>
       \/ /\ u.state # "PENDING_REFERENCE"
          /\ tx' = [tx EXCEPT ![s] = {}]
          /\ EndSession(s, "idle")
  /\ UNCHANGED tables

FindReference(s) ==
  /\ pc[s] = "FindReference"
  /\ \E t \in tx[s] :
       reference' = [reference EXCEPT ![s] =
                       IF t.request.ref = NoReference THEN {}
                       ELSE RowsNamed(ReferenceName(t.request))]
  /\ Goto(s, "Conclude")
  /\ UNCHANGED <<tables, tx, loaded, entry, events>>

\* errReferencePending: not arrived, or not concluded.
MustWaitUntilProcessed(t, found) ==
  /\ t.request.ref # NoReference
  /\ \A u \in found : u.state # "PROCESSED"
MustWait(t, found) ==
  /\ t.request.ref # NoReference
  /\ \A u \in found : ~IsTerminal(u.state)

\* An operation just received starts to wait; one already waiting counts the
\* attempt and gives up at the last.
Wait(s, t) ==
  \/ /\ s \in Callers
     /\ CanTransitionTo(t.state, "PENDING_REFERENCE")
     /\ tx' = [tx EXCEPT ![s] = {MarkPendingReference(t)}]
  \/ /\ s \in Workers
     /\ t.state = "PENDING_REFERENCE"
     /\ tx' = [tx EXCEPT ![s] = {RecordMissingReference(t)}]

\* Refusal of an operation whose reference u has concluded.
RefusalWith(t, u, balance) ==
  LET disagreement == ResolveReference(t.request, u)
  IN  IF disagreement # NoFailure THEN disagreement
      ELSE IF IsReversal(t.request.kind) /\ HasProcessedReversal(NameOf(u.request))
        THEN "REFERENCE_ALREADY_REVERSED"
      ELSE ApplyRefusal(t.request, u.request.kind, balance)

NewEntry(t, direction, balance) ==
  [op        |-> NameOf(t.request),
   direction |-> direction,
   amount    |-> t.request.amount,
   before    |-> balance,
   after     |-> BalanceAfter(direction, balance, t.request.amount)]

\* conclude: refused by a rule, applied, or applied without moving money.  A
\* credit that overflows leaves no step but Rollback, and so does a reversal
\* without the reference it resolved to.
Settle(s, t, refusal, direction) ==
  LET balance == loaded[s].balance
  IN  \/ /\ refusal # NoFailure
         /\ CanTransitionTo(t.state, "REJECTED")
         /\ tx' = [tx EXCEPT ![s] = {MarkRejected(t, refusal)}]
         /\ UNCHANGED entry
      \/ /\ refusal = NoFailure
         /\ IsReversal(t.request.kind) => t.resolved
         /\ CanTransitionTo(t.state, "PROCESSED")
         /\ Moves(t.request.kind)
         /\ ~Overflows(direction, balance, t.request.amount)
         /\ LET e == NewEntry(t, direction, balance)
            IN  /\ tx' = [tx EXCEPT ![s] = {MarkProcessed(t, e.after)}]
                /\ entry' = [entry EXCEPT ![s] = {e}]
      \/ /\ refusal = NoFailure
         /\ CanTransitionTo(t.state, "PROCESSED")
         /\ ~Moves(t.request.kind)
         /\ tx' = [tx EXCEPT ![s] = {MarkProcessed(t, balance)}]
         /\ UNCHANGED entry

Conclude(s) ==
  /\ pc[s] = "Conclude"
  /\ \E t \in tx[s] :
       \/ /\ MustWait(t, reference[s])
          /\ Wait(s, t)
          /\ UNCHANGED entry
       \/ /\ t.request.ref = NoReference
          /\ Settle(s, t, ApplyRefusal(t.request, "NONE", loaded[s].balance),
                    DirectionOf(t.request.kind, "NONE"))
       \/ /\ t.request.ref # NoReference
          /\ \E u \in reference[s] :
               /\ IsTerminal(u.state)
               /\ LET agrees == ResolveReference(t.request, u) = NoFailure
                  IN  Settle(s, [t EXCEPT !.resolved = agrees],
                             RefusalWith(t, u, loaded[s].balance),
                             DirectionOf(t.request.kind, u.request.kind))
  /\ Goto(s, "Save")
  /\ UNCHANGED <<tables, loaded, reference, events>>

\* INSERT of a new row: waits for uncommitted rows it clashes with, and fails
\* with a conflict on a committed one.
Create(s, t) ==
  /\ \A u \in Uncommitted(s) : ~Clashes(t, u)
  /\ \/ /\ \E u \in ops : Clashes(t, u)
        /\ EndSession(s, "conflict")
     \/ /\ \A u \in ops : ~Clashes(t, u)
        /\ Goto(s, "Write")
        /\ UNCHANGED <<loaded, reference, entry, events>>

\* UPDATE ... WHERE state = 'PENDING_REFERENCE', after any uncommitted update of
\* the row; an attempt that leaves the operation waiting writes nothing else.
UpdateAnnouncingAttempts(s, t) ==
  /\ \A u \in Uncommitted(s) : NameOf(u.request) # NameOf(t.request)
  /\ \E u \in RowsNamed(NameOf(t.request)) : u.state = "PENDING_REFERENCE"
  /\ \A u \in ops \cup Uncommitted(s) : ~SameReversal(t, u)
  /\ Goto(s, "Write")
  /\ UNCHANGED <<loaded, reference, entry, events>>
UpdatePendingReference(s, t) ==
  /\ \A u \in Uncommitted(s) : NameOf(u.request) # NameOf(t.request)
  /\ \E u \in RowsNamed(NameOf(t.request)) : u.state = "PENDING_REFERENCE"
  /\ \A u \in ops \cup Uncommitted(s) : ~SameReversal(t, u)
  /\ Goto(s, IF t.state = "PENDING_REFERENCE" THEN "Commit" ELSE "Write")
  /\ UNCHANGED <<loaded, reference, entry, events>>

Save(s) ==
  /\ pc[s] = "Save"
  /\ \E t \in tx[s] :
       IF s \in Callers THEN Create(s, t) ELSE UpdatePendingReference(s, t)
  /\ UNCHANGED <<tables, tx>>

OutcomeEvent(t) ==
  CASE t.state = "PENDING_REFERENCE" -> "WagerTransactionPendingReference"
    [] t.state = "REJECTED"          -> "WagerTransactionRejected"
    [] OTHER                         -> "WagerTransactionProcessed"

NewEvent(seq, w, op, type, version) ==
  [seq |-> seq, wallet |-> w, op |-> op, type |-> type, version |-> version]

\* The events of one operation, in the order they are inserted: what became of
\* it and, when its entry moved the balance, the change.
NewEvents(from, w, op, type, moved, version) ==
  {NewEvent(from + 1, w, op, type, 0)}
    \cup {NewEvent(from + 2, w, op, "WalletBalanceChanged", version) : e \in moved}

\* outbox_events.sequence: a number drawn at insert exceeds every number drawn
\* before it, whatever its transaction comes to.  Numbers are only compared
\* between the events of one wallet, so each wallet's are counted apart, and
\* those of rolled back inserts, gaps in the database, are drawn again.
Drawn(w) ==
  {e.seq : e \in {f \in outbox \cup UNION {events[s] : s \in Sessions} :
                   f.wallet = w}}

LastSequence(w) ==
  IF Drawn(w) = {} THEN {0}
  ELSE {n \in Drawn(w) : \A m \in Drawn(w) : m <= n}

\* UPDATE wallets ... WHERE version = @expected_version.
VersionMatches(s, w) == wallets[w].version = loaded[s].version

\* The constraints of wallet_ledger_entries on a new row.
EntryIsAccepted(w, e) ==
  /\ EntriesOf(w, e.op) = {}
  /\ e.amount > 0
  /\ e.before >= 0
  /\ e.after >= 0

\* The rest of record: balance, ledger entry and events, none visible yet.  A
\* version that does not match, and an entry the table refuses, leave no step
\* but Rollback.
Write(s) ==
  /\ pc[s] = "Write"
  /\ \E t \in tx[s] : LET w == t.request.wallet IN
     \E last \in LastSequence(w) :
       /\ \A e \in entry[s] : VersionMatches(s, w) /\ EntryIsAccepted(w, e)
       /\ events' = [events EXCEPT ![s] =
                       NewEvents(last, w, NameOf(t.request), OutcomeEvent(t),
                                 entry[s], loaded[s].version + 1)]
  /\ Goto(s, "Commit")
  /\ UNCHANGED <<wallets, ops, ledger, outbox, tx, loaded, reference, entry>>

\* Wallet.move: the wallet row after the entry.
MovedSameVersion(wallet, e) == [wallet EXCEPT !.balance = e.after]
Moved(wallet, e) ==
  [wallet EXCEPT !.balance = e.after, !.version = wallet.version + 1]

Commit(s) ==
  /\ pc[s] = "Commit"
  /\ \E t \in tx[s] : LET w == t.request.wallet IN
       /\ ops' = (ops \ RowsNamed(NameOf(t.request))) \cup {t}
       /\ \/ entry[s] = {} /\ UNCHANGED <<wallets, ledger>>
          \/ \E e \in entry[s] :
               /\ wallets' = [wallets EXCEPT ![w] = Moved(loaded[s], e)]
               /\ ledger' = [ledger EXCEPT ![w] = Append(@, e)]
       /\ tx' = [tx EXCEPT ![s] = IF s \in Callers THEN {t} ELSE {}]
  /\ outbox' = outbox \cup events[s]
  /\ EndSession(s, IF s \in Callers THEN "answered" ELSE "idle")

\* A statement failed, timed out or was refused by the database, or the process
\* died: nothing the session wrote stays.
RollbackAnswering(s) ==
  /\ pc[s] \in Holding \cup {"GetForUpdate"}
  /\ EndSession(s, IF s \in Callers THEN "answered" ELSE "idle")
  /\ tx' = [tx EXCEPT ![s] = IF s \in Callers THEN @ ELSE {}]
  /\ UNCHANGED tables
Rollback(s) ==
  /\ pc[s] \in Holding \cup {"GetForUpdate"}
  /\ tx' = [tx EXCEPT ![s] = {}]
  /\ EndSession(s, "idle")
  /\ UNCHANGED tables

\* The caller hears the result, or the conflict.
Return(s) ==
  /\ pc[s] \in {"answered", "conflict"}
  /\ tx' = [tx EXCEPT ![s] = {}]
  /\ Goto(s, "idle")
  /\ UNCHANGED <<tables, loaded, reference, entry, events>>

\* OpenWallet.Execute: one transaction on rows nobody else can see before it
\* commits.  A second wallet of the same player and currency is refused.
OpenWallet(w, balance) ==
  /\ \A v \in Wallets :
       wallets[v].open => Owner[v] # Owner[w] \/ CurrencyOf[v] # CurrencyOf[w]
  /\ wallets' = [wallets EXCEPT ![w] =
                   [open |-> TRUE, balance |-> balance, version |-> 1]]
  /\ IF balance > 0
       THEN LET credit == [op |-> OpeningName(w), direction |-> "CREDIT",
                           amount |-> balance, before |-> 0, after |-> balance]
            IN  /\ ledger' = [ledger EXCEPT ![w] = Append(@, credit)]
                /\ \E last \in LastSequence(w) :
                     outbox' = outbox \cup
                       NewEvents(last, w, OpeningName(w),
                                 "WagerTransactionProcessed", {credit}, 1)
       ELSE UNCHANGED <<ledger, outbox>>
  /\ UNCHANGED <<ops, session>>

-----------------------------------------------------------------------------
(* Specification *)

Init ==
  /\ wallets = [w \in Wallets |-> ClosedWallet]
  /\ ops = {}
  /\ ledger = [w \in Wallets |-> << >>]
  /\ outbox = {}
  /\ pc = [s \in Sessions |-> "idle"]
  /\ tx = [s \in Sessions |-> {}]
  /\ loaded = [s \in Sessions |-> ClosedWallet]
  /\ reference = [s \in Sessions |-> {}]
  /\ entry = [s \in Sessions |-> {}]
  /\ events = [s \in Sessions |-> {}]

\* Inside the transaction, once the wallet is locked.
Settling(s) ==
  \/ FindReplay(s)
  \/ Reload(s)
  \/ FindReference(s)
  \/ Conclude(s)
  \/ Save(s)
  \/ Write(s)
  \/ Commit(s)

Next ==
  \/ \E w \in Wallets, b \in OpeningBalances : OpenWallet(w, b)
  \/ \E s \in Callers, r \in Requests : Receive(s, r)
  \/ \E s \in Workers : \E t \in ops : Lease(s, t)
  \/ \E s \in Sessions : GetForUpdate(s)
  \/ \E s \in Sessions : WalletNotFound(s)
  \/ \E s \in Sessions : Settling(s)
  \/ \E s \in Sessions : Rollback(s)
  \/ \E s \in Sessions : Return(s)

Spec == Init /\ [][Next]_vars

-----------------------------------------------------------------------------
(* Safety *)

\* A session that holds the row lock works on the wallet as committed, so the
\* conditional UPDATE of the balance never reports ErrConcurrentUpdate.
LoadedWalletIsCurrent ==
  \A s \in Sessions : pc[s] \in Holding =>
    \A t \in tx[s] : loaded[s] = wallets[t.request.wallet]

\* The entries of a wallet chain from zero to its balance, each one consistent
\* with its direction, and the version counts the movements after the opening:
\* no update of the balance is lost between sessions, and none lacks its entry.
ChainedUpTo(w, i) ==
  LET e == ledger[w][i]
  IN  /\ e.before = (IF i = 1 THEN 0 ELSE ledger[w][i - 1].after)
      /\ e.after = BalanceAfter(e.direction, e.before, e.amount)

HasOpening(w) == ledger[w] # << >> /\ ledger[w][1].op = OpeningName(w)

LedgerExplainsBalance ==
  \A w \in Wallets :
    /\ \A i \in 1..Len(ledger[w]) : ChainedUpTo(w, i)
    /\ wallets[w].balance =
         (IF ledger[w] = << >> THEN 0 ELSE ledger[w][Len(ledger[w])].after)
    /\ wallets[w].open => wallets[w].version =
         Len(ledger[w]) + (IF HasOpening(w) THEN 0 ELSE 1)
    /\ ~wallets[w].open => ledger[w] = << >>

\* An operation moves money exactly when it is PROCESSED and its kind moves any,
\* once, in its own wallet, and the balance it reports is the one it left.
MoneyMovesOnce ==
  \A u \in ops : \A w \in Wallets :
    LET moved == EntriesOf(w, NameOf(u.request))
    IN  IF w = u.request.wallet /\ u.state = "PROCESSED" /\ u.request.kind # "LOSS"
          THEN \E i \in moved : /\ moved = {i}
                                /\ ledger[w][i].amount = u.request.amount
                                /\ ledger[w][i].after = u.resultBalance
          ELSE moved = {}

\* No operation is reversed twice, whichever of REFUND and ROLLBACK come and
\* however they interleave with retries of reversals that were waiting.
OneReversalPerReference ==
  \A u, v \in ops :
    /\ IsReversal(u.request.kind) /\ u.state = "PROCESSED"
    /\ IsReversal(v.request.kind) /\ v.state = "PROCESSED"
    /\ ReferenceName(u.request) = ReferenceName(v.request)
    => u = v

\* An identifier and an idempotency key of a provider name one operation each,
\* also when the same ones reach two wallets at once.
OneOperationPerKey ==
  \A u, v \in ops :
    SameKey(u.request, v.request) \/ NameOf(u.request) = NameOf(v.request) => u = v

\* Sending an operation again never yields a conflict, even while the first
\* delivery is still running: a conflict always comes from another operation.
NoSpuriousConflict ==
  \A s \in Sessions : pc[s] = "conflict" =>
    \A t \in tx[s] : \E u \in ops :
      /\ u.request # t.request
      /\ SameKey(u.request, t.request) \/ NameOf(u.request) = NameOf(t.request)

\* A definitive answer given to a provider is what the database keeps.
AnswerIsRecorded ==
  \A s \in Sessions : pc[s] = "answered" =>
    \A t \in tx[s] : IsTerminal(t.state) => t \in ops

\* An operation gives up waiting exactly at the last attempt.
WaitingIsBounded ==
  \A u \in ops :
    /\ u.failureCode = "REFERENCE_NOT_FOUND" <=> u.attempts = MaxAttempts
    /\ u.state = "PENDING_REFERENCE" => u.attempts < MaxAttempts

\* Sequence numbers of a wallet follow its commit order: no event appears behind
\* one already committed, so a publisher that takes the oldest skips none.
OutboxFollowsCommitOrder ==
  \A s \in Sessions : \A e \in events[s] :
    /\ \A f \in outbox : f.wallet = e.wallet => f.seq < e.seq
    /\ \A z \in Sessions \ {s} : \A f \in events[z] : f.wallet # e.wallet

\* What became of a recorded operation is announced exactly once, after the
\* announcement that it waited, if it did.
OutcomeEventsOf(u) ==
  {e \in outbox : e.op = NameOf(u.request) /\ e.type # "WalletBalanceChanged"}

OutcomeIsAnnouncedOnce ==
  \A u \in ops : \E e \in OutcomeEventsOf(u) :
    /\ e.type = OutcomeEvent(u)
    /\ e.wallet = u.request.wallet
    /\ \A f \in OutcomeEventsOf(u) \ {e} :
         /\ f.type = "WagerTransactionPendingReference"
         /\ f.seq < e.seq
         /\ OutcomeEventsOf(u) = {e, f}

\* Read by sequence, the balance events of a wallet are its ledger, entry by
\* entry, with the wallet versions in step.
BalanceEventsOf(w) ==
  {e \in outbox : e.wallet = w /\ e.type = "WalletBalanceChanged"}

BalanceEventsFollowLedger ==
  \A w \in Wallets :
    LET offset == IF HasOpening(w) THEN 0 ELSE 1
    IN  /\ \A i \in DOMAIN ledger[w] : \E e \in BalanceEventsOf(w) :
             e.op = ledger[w][i].op /\ e.version = i + offset
        /\ \A e \in BalanceEventsOf(w) : e.version - offset \in DOMAIN ledger[w]
        /\ \A e, f \in BalanceEventsOf(w) :
             e # f => (e.seq < f.seq <=> e.version < f.version)

-----------------------------------------------------------------------------
(* Action properties *)

\* A recorded operation keeps its request for ever, a concluded one keeps
\* everything, and one that waits concludes or counts one more attempt.
Advances(u, v) ==
  /\ u.state = "PENDING_REFERENCE"
  /\ v.request = u.request
  /\ \/ /\ IsTerminal(v.state)
        /\ v.attempts \in {u.attempts, u.attempts + 1}
     \/ v = [u EXCEPT !.attempts = u.attempts + 1]

OperationsOnlyAdvance ==
  [][\A u \in ops : \E v \in ops' : v = u \/ Advances(u, v)]_vars

\* An operation is left waiting, or given up, only while the operation of the
\* same wallet it refers to is really missing or undecided at that instant.
WaitsOnlyForMissing ==
  [][\A t \in ops' \ ops :
       t.state = "PENDING_REFERENCE" \/ t.failureCode = "REFERENCE_NOT_FOUND" =>
         \A v \in RowsNamed(ReferenceName(t.request)) :
           v.request.wallet = t.request.wallet => ~IsTerminal(v.state)]_vars

-----------------------------------------------------------------------------
(* Liveness *)

\* Row locks are granted in the order they were asked for and every statement
\* is answered or fails, so a session that entered a transaction leaves it.
Fairness ==
  \A s \in Sessions :
    /\ SF_vars(GetForUpdate(s))
    /\ SF_vars(Settling(s))
    /\ WF_vars(WalletNotFound(s))
    /\ WF_vars(Return(s))

FairSpec == Spec /\ Fairness

EverySessionEnds ==
  \A s \in Sessions : pc[s] # "idle" ~> pc[s] = "idle"
=============================================================================
