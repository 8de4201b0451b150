--------------------------- MODULE SettlementProofs ---------------------------
(***************************************************************************)
(* Theorems about Settlement for every set of wallets, sessions, requests  *)
(* and opening balances: the types, and what row locks and unique indexes  *)
(* give.  Operations are recorded once, references are reversed once, and  *)
(* a session under the lock of a wallet works on the wallet as it is.      *)
(*                                                                         *)
(* Two invariants carry this.  IndexInv says of the rows that sessions     *)
(* wrote and did not commit that they clash neither with each other nor    *)
(* with committed ones, which is what an index that waits for uncommitted  *)
(* rows provides.  LockInv says that sessions under a lock have different  *)
(* wallets.  LockInv rests on IndexInv: a worker that reads its row again  *)
(* must still have the wallet it locked, and the row is found by name.     *)
(*                                                                         *)
(* The lock is what ledger and events rest on, each with an invariant of   *)
(* its own.  EntryInv says of an entry not yet committed that it starts    *)
(* from the balance the session read, which LockInv makes the committed    *)
(* one.  EventInv says of events not yet committed that they belong to the *)
(* wallet the session locked, so nobody else adds events to it.            *)
(*                                                                         *)
(* What becomes of an operation follows: it only advances, and moves money *)
(* once, exactly when it is concluded by an operation that moves any.      *)
(* CopyInv says of a worker's copy that it is, or follows from, the row as *)
(* it is: the copy was read again under the lock, and nobody without the   *)
(* lock replaces a row of that wallet.  OutcomeInv relates an entry not    *)
(* yet committed to the outcome it is committed with.                      *)
(*                                                                         *)
(* Last, Settlement implements WalletBook: what a session concludes from   *)
(* reads it made at different instants is still justified when it commits. *)
(* VerdictInv keeps, for every outcome about to be committed, the reason   *)
(* it rests on, and no other session takes a reason away: concluded rows   *)
(* stay as they are, rows of the wallet are replaced under its lock only,  *)
(* and the balance read under the lock is the committed one.               *)
(***************************************************************************)
EXTENDS SettlementBook, TLAPS

-----------------------------------------------------------------------------
(* Types and the count of attempts *)

\* What every copy of an operation satisfies, in the table or in the hands of a
\* session: it gave up waiting exactly when it made the last attempt.
CountsAttempts(t) ==
  /\ t.failureCode = "REFERENCE_NOT_FOUND" <=> t.attempts = MaxAttempts
  /\ ~IsTerminal(t.state) => t.failureCode = NoFailure

Counted == {t \in Row : CountsAttempts(t)}

TypeInv ==
  /\ wallets \in [Wallets -> WalletRow]
  /\ ops \subseteq Counted
  /\ ledger \in [Wallets -> Seq(Entry)]
  /\ outbox \subseteq Event
  /\ pc \in [Sessions -> Steps]
  /\ tx \in [Sessions -> SUBSET Counted]
  /\ loaded \in [Sessions -> WalletRow]
  /\ reference \in [Sessions -> SUBSET Counted]
  /\ entry \in [Sessions -> SUBSET Entry]
  /\ events \in [Sessions -> SUBSET Event]

\* The domain methods keep a transaction well formed (wager/transaction.go).
LEMMA NewExternalIsCounted ==
  ASSUME NEW r \in Requests
  PROVE  NewExternal(r) \in Counted
BY BoundsAssumption
   DEF NewExternal, Counted, CountsAttempts, Row, States, IsTerminal, NoFailure, NoBalance

LEMMA WaitingIsCounted ==
  ASSUME NEW t \in Counted, t.state = "PENDING"
  PROVE  MarkPendingReference(t) \in Counted
BY DEF MarkPendingReference, Counted, CountsAttempts, Row, States, IsTerminal

LEMMA AttemptIsCounted ==
  ASSUME NEW t \in Counted, t.state = "PENDING_REFERENCE"
  PROVE  RecordMissingReference(t) \in Counted
<1> DEFINE counted == [t EXCEPT !.attempts = t.attempts + 1]
           rejected == MarkRejected(counted, "REFERENCE_NOT_FOUND")
<1>1. /\ t \in Row
      /\ t.failureCode = NoFailure
      /\ t.attempts \in Nat
      /\ MaxAttempts \in Nat
      /\ t.attempts + 1 <= MaxAttempts
  <2>1. t.failureCode = NoFailure /\ t.attempts # MaxAttempts
    BY DEF Counted, CountsAttempts, IsTerminal, NoFailure
  <2> QED
    BY <2>1, BoundsAssumption DEF Counted, Row
<1>2. counted.attempts = t.attempts + 1
  BY <1>1 DEF Row
<1>3. counted \in Row /\ counted.failureCode = NoFailure
  BY <1>1 DEF Row
<1>4. /\ rejected \in Row
      /\ rejected.failureCode = "REFERENCE_NOT_FOUND"
      /\ rejected.attempts = t.attempts + 1
      /\ rejected.state = "REJECTED"
  <2>1. rejected = [counted EXCEPT !.state = "REJECTED",
                                   !.failureCode = "REFERENCE_NOT_FOUND"]
    BY DEF MarkRejected
  <2> HIDE DEF counted, rejected
  <2> QED
    BY <1>2, <1>3, <2>1 DEF Row, States, RejectionCodes
<1>5. RecordMissingReference(t) = IF counted.attempts < MaxAttempts THEN counted ELSE rejected
  BY DEF RecordMissingReference
<1> HIDE DEF counted, rejected
<1>6. CASE t.attempts + 1 < MaxAttempts
  <2>1. counted.failureCode # "REFERENCE_NOT_FOUND"
    BY <1>3 DEF NoFailure
  <2> QED
    BY <1>1, <1>2, <1>3, <1>5, <1>6, <2>1 DEF Counted, CountsAttempts
<1>7. CASE t.attempts + 1 = MaxAttempts
  BY <1>1, <1>2, <1>4, <1>5, <1>7 DEF Counted, CountsAttempts, IsTerminal
<1> QED
  BY <1>1, <1>6, <1>7

LEMMA RejectionIsCounted ==
  ASSUME NEW t \in Counted, ~IsTerminal(t.state),
         NEW code \in RejectionCodes \ {"REFERENCE_NOT_FOUND"}
  PROVE  MarkRejected(t, code) \in Counted
BY DEF MarkRejected, Counted, CountsAttempts, Row, States, IsTerminal, NoFailure,
       RejectionCodes

LEMMA ProcessedIsCounted ==
  ASSUME NEW t \in Counted, ~IsTerminal(t.state), NEW balance \in Nat
  PROVE  MarkProcessed(t, balance) \in Counted
BY DEF MarkProcessed, Counted, CountsAttempts, Row, States, IsTerminal, NoFailure,
       NoBalance

\* What inserting events adds to the outbox.
LEMMA LastSequenceIsNat ==
  ASSUME TypeInv, NEW w \in Wallets, NEW last \in LastSequence(w)
  PROVE  last \in Nat
<1>1. Drawn(w) \subseteq Nat
  <2>1. \A s \in Sessions : events[s] \subseteq Event
    BY DEF TypeInv
  <2>2. outbox \cup UNION {events[s] : s \in Sessions} \subseteq Event
    BY <2>1 DEF TypeInv
  <2>3. \A e \in Event : e.seq \in Nat
    BY DEF Event
  <2> QED
    BY <2>2, <2>3 DEF Drawn
<1> QED
  BY <1>1 DEF LastSequence

LEMMA NewEventsAreEvents ==
  ASSUME NEW from \in Nat, NEW w \in Wallets,
         NEW op \in Names \cup {OpeningName(v) : v \in Wallets},
         NEW type \in EventTypes, NEW moved, NEW version \in Nat
  PROVE  NewEvents(from, w, op, type, moved, version) \subseteq Event
BY DEF NewEvents, NewEvent, Event, EventTypes

\* A refusal is never the code reserved for an operation that gave up waiting.
LEMMA RefusalIsACode ==
  ASSUME NEW t, NEW u, NEW balance
  PROVE  RefusalWith(t, u, balance) \in
           (RejectionCodes \ {"REFERENCE_NOT_FOUND"}) \cup {NoFailure}
BY DEF RefusalWith, ResolveReference, ApplyRefusal, RejectionCodes, NoFailure

LEMMA ApplyRefusalIsACode ==
  ASSUME NEW request, NEW kind, NEW balance
  PROVE  ApplyRefusal(request, kind, balance) \in
           (RejectionCodes \ {"REFERENCE_NOT_FOUND"}) \cup {NoFailure}
BY DEF ApplyRefusal, RejectionCodes, NoFailure

-----------------------------------------------------------------------------

\* Every step of a session hands its fields values of their types.
LEMMA EndSessionIsTyped ==
  ASSUME TypeInv, NEW s \in Sessions, NEW next \in Steps, EndSession(s, next)
  PROVE  /\ pc' \in [Sessions -> Steps]
         /\ loaded' \in [Sessions -> WalletRow]
         /\ reference' \in [Sessions -> SUBSET Counted]
         /\ entry' \in [Sessions -> SUBSET Entry]
         /\ events' \in [Sessions -> SUBSET Event]
<1>1. ClosedWallet \in WalletRow
  BY DEF ClosedWallet, WalletRow
<1> QED
  BY <1>1 DEF TypeInv, EndSession

LEMMA NewEntryIsTyped ==
  ASSUME NEW t \in Counted, NEW direction \in {"DEBIT", "CREDIT"}, NEW balance \in Nat,
         direction = "DEBIT" => balance >= t.request.amount
  PROVE  NewEntry(t, direction, balance) \in Entry
<1>1. t.request \in Requests /\ t.request.amount \in Nat /\ NameOf(t.request) \in Names
  BY RequestsAssumption DEF Counted, Row, Names
<1>2. BalanceAfter(direction, balance, t.request.amount) \in Nat
  BY <1>1 DEF BalanceAfter
<1> QED
  BY <1>1, <1>2 DEF NewEntry, Entry

\* Wallet.Apply lets no debit through that the balance does not cover.
LEMMA FundsSuffice ==
  ASSUME TypeInv, NEW s \in Sessions, NEW t \in Counted, NEW kind,
         ApplyRefusal(t.request, kind, loaded[s].balance) = NoFailure,
         Moves(t.request.kind), DirectionOf(t.request.kind, kind) = "DEBIT"
  PROVE  loaded[s].balance >= t.request.amount
<1>1. loaded[s].balance \in Nat /\ t.request.amount \in Nat
  BY RequestsAssumption DEF TypeInv, WalletRow, Counted, Row
<1>2. ~ShortOfFunds(t.request.kind, "DEBIT", loaded[s].balance, t.request.amount)
  BY DEF ApplyRefusal, NoFailure
<1> QED
  BY <1>1, <1>2 DEF ShortOfFunds

LEMMA SettleIsTyped ==
  ASSUME TypeInv, NEW s \in Sessions, NEW t \in Counted,
         NEW refusal \in (RejectionCodes \ {"REFERENCE_NOT_FOUND"}) \cup {NoFailure},
         NEW direction \in {"DEBIT", "CREDIT"},
         refusal = NoFailure /\ Moves(t.request.kind) /\ direction = "DEBIT"
           => loaded[s].balance >= t.request.amount,
         Settle(s, t, refusal, direction)
  PROVE  /\ tx' \in [Sessions -> SUBSET Counted]
         /\ entry' \in [Sessions -> SUBSET Entry]
<1> DEFINE balance == loaded[s].balance
           e == NewEntry(t, direction, balance)
<1>1. balance \in Nat
  BY DEF TypeInv, WalletRow
<1>2. CASE refusal # NoFailure
  <2>1. /\ tx' = [tx EXCEPT ![s] = {MarkRejected(t, refusal)}]
        /\ UNCHANGED entry
        /\ CanTransitionTo(t.state, "REJECTED")
    BY <1>2 DEF Settle
  <2>2. MarkRejected(t, refusal) \in Counted
    BY <1>2, <2>1, RejectionIsCounted DEF CanTransitionTo, IsTerminal
  <2> QED
    BY <2>1, <2>2 DEF TypeInv
<1>3. CASE refusal = NoFailure /\ Moves(t.request.kind)
  <2>1. /\ tx' = [tx EXCEPT ![s] = {MarkProcessed(t, e.after)}]
        /\ entry' = [entry EXCEPT ![s] = {e}]
        /\ CanTransitionTo(t.state, "PROCESSED")
    BY <1>3 DEF Settle
  <2>2. e \in Entry
    BY <1>1, <1>3, NewEntryIsTyped
  <2>3. MarkProcessed(t, e.after) \in Counted
    BY <2>1, <2>2, ProcessedIsCounted DEF Entry, CanTransitionTo, IsTerminal
  <2> QED
    BY <2>1, <2>2, <2>3 DEF TypeInv
<1>4. CASE refusal = NoFailure /\ ~Moves(t.request.kind)
  <2>1. /\ tx' = [tx EXCEPT ![s] = {MarkProcessed(t, balance)}]
        /\ UNCHANGED entry
        /\ CanTransitionTo(t.state, "PROCESSED")
    BY <1>4 DEF Settle
  <2>2. MarkProcessed(t, balance) \in Counted
    BY <1>1, <2>1, ProcessedIsCounted DEF CanTransitionTo, IsTerminal
  <2> QED
    BY <2>1, <2>2 DEF TypeInv
<1> QED
  BY <1>2, <1>3, <1>4

LEMMA ConcludeIsTyped ==
  ASSUME TypeInv, NEW s \in Sessions, Conclude(s)
  PROVE  /\ tx' \in [Sessions -> SUBSET Counted]
         /\ entry' \in [Sessions -> SUBSET Entry]
<1>1. PICK t \in tx[s] :
        \/ /\ MustWait(t, reference[s])
           /\ Wait(s, t)
           /\ UNCHANGED entry
        \/ /\ t.request.ref = NoReference
           /\ Settle(s, t, ApplyRefusal(t.request, "NONE", loaded[s].balance),
                     DirectionOf(t.request.kind, "NONE"))
        \/ /\ t.request.ref # NoReference
           /\ \E u \in reference[s] :
                /\ IsTerminal(u.state)
                /\ LET agrees == ResolveReference(t.request, u) = NoFailure
                   IN  Settle(s, [t EXCEPT !.resolved = agrees],
                              RefusalWith(t, u, loaded[s].balance),
                              DirectionOf(t.request.kind, u.request.kind))
  BY DEF Conclude
<1>2. t \in Counted
  BY DEF TypeInv
<1>3. CASE MustWait(t, reference[s]) /\ Wait(s, t) /\ UNCHANGED entry
  <2>1. CASE t.state = "PENDING" /\ tx' = [tx EXCEPT ![s] = {MarkPendingReference(t)}]
    BY <1>2, <1>3, <2>1, WaitingIsCounted DEF TypeInv
  <2>2. CASE /\ t.state = "PENDING_REFERENCE"
             /\ tx' = [tx EXCEPT ![s] = {RecordMissingReference(t)}]
    BY <1>2, <1>3, <2>2, AttemptIsCounted DEF TypeInv
  <2> QED
    BY <1>3, <2>1, <2>2 DEF Wait, CanTransitionTo
<1>4. CASE /\ t.request.ref = NoReference
           /\ Settle(s, t, ApplyRefusal(t.request, "NONE", loaded[s].balance),
                     DirectionOf(t.request.kind, "NONE"))
  <2> DEFINE refusal == ApplyRefusal(t.request, "NONE", loaded[s].balance)
             direction == DirectionOf(t.request.kind, "NONE")
  <2>1. direction \in {"DEBIT", "CREDIT"}
    BY DEF DirectionOf
  <2>2. refusal = NoFailure /\ Moves(t.request.kind) /\ direction = "DEBIT"
          => loaded[s].balance >= t.request.amount
    BY <1>2, FundsSuffice
  <2>3. refusal \in (RejectionCodes \ {"REFERENCE_NOT_FOUND"}) \cup {NoFailure}
    BY ApplyRefusalIsACode
  <2>4. Settle(s, t, refusal, direction)
    BY <1>4
  <2> HIDE DEF refusal, direction
  <2> QED
    BY <1>2, <2>1, <2>2, <2>3, <2>4, SettleIsTyped
<1>5. CASE /\ t.request.ref # NoReference
           /\ \E u \in reference[s] :
                /\ IsTerminal(u.state)
                /\ LET agrees == ResolveReference(t.request, u) = NoFailure
                   IN  Settle(s, [t EXCEPT !.resolved = agrees],
                              RefusalWith(t, u, loaded[s].balance),
                              DirectionOf(t.request.kind, u.request.kind))
  <2>1. PICK u \in reference[s] :
          Settle(s, [t EXCEPT !.resolved = (ResolveReference(t.request, u) = NoFailure)],
                 RefusalWith(t, u, loaded[s].balance),
                 DirectionOf(t.request.kind, u.request.kind))
    BY <1>5
  <2> DEFINE resolved == [t EXCEPT !.resolved = (ResolveReference(t.request, u) = NoFailure)]
             refusal == RefusalWith(t, u, loaded[s].balance)
             direction == DirectionOf(t.request.kind, u.request.kind)
  <2>2. resolved \in Counted /\ resolved.request = t.request
    BY <1>2 DEF Counted, Row, CountsAttempts, IsTerminal
  <2>3. direction \in {"DEBIT", "CREDIT"}
    BY DEF DirectionOf
  <2>4. refusal = NoFailure => ApplyRefusal(t.request, u.request.kind, loaded[s].balance) = NoFailure
    BY DEF RefusalWith, NoFailure
  <2>5. refusal = NoFailure /\ Moves(t.request.kind) /\ direction = "DEBIT"
          => loaded[s].balance >= t.request.amount
    BY <1>2, <2>4, FundsSuffice
  <2>6. refusal \in (RejectionCodes \ {"REFERENCE_NOT_FOUND"}) \cup {NoFailure}
    BY RefusalIsACode
  <2>7. Settle(s, resolved, refusal, direction)
    BY <2>1
  <2>8. refusal = NoFailure /\ Moves(resolved.request.kind) /\ direction = "DEBIT"
          => loaded[s].balance >= resolved.request.amount
    BY <2>2, <2>5
  <2> HIDE DEF resolved, refusal, direction
  <2> QED
    BY <2>2, <2>3, <2>6, <2>7, <2>8, SettleIsTyped
<1> QED
  BY <1>1, <1>3, <1>4, <1>5

LEMMA WriteIsTyped ==
  ASSUME TypeInv, NEW s \in Sessions, Write(s)
  PROVE  events' \in [Sessions -> SUBSET Event]
<1>1. PICK t \in tx[s] : \E last \in LastSequence(t.request.wallet) :
        events' = [events EXCEPT ![s] =
                     NewEvents(last, t.request.wallet, NameOf(t.request),
                               OutcomeEvent(t), entry[s], loaded[s].version + 1)]
  BY DEF Write
<1>2. t.request.wallet \in Wallets /\ NameOf(t.request) \in Names
  BY RequestsAssumption DEF TypeInv, Counted, Row, Names
<1>3. \A last \in LastSequence(t.request.wallet) : last \in Nat
  BY <1>2, LastSequenceIsNat
<1>4. OutcomeEvent(t) \in EventTypes
  BY DEF OutcomeEvent, EventTypes
<1>5. loaded[s].version + 1 \in Nat
  BY DEF TypeInv, WalletRow
<1> QED
  BY <1>1, <1>2, <1>3, <1>4, <1>5, NewEventsAreEvents DEF TypeInv

LEMMA CommitIsTyped ==
  ASSUME TypeInv, NEW s \in Sessions, Commit(s)
  PROVE  TypeInv'
<1>1. PICK t \in tx[s] :
        /\ ops' = (ops \ RowsNamed(NameOf(t.request))) \cup {t}
        /\ \/ entry[s] = {} /\ UNCHANGED <<wallets, ledger>>
           \/ \E e \in entry[s] :
                /\ wallets' = [wallets EXCEPT ![t.request.wallet] = Moved(loaded[s], e)]
                /\ ledger' = [ledger EXCEPT ![t.request.wallet] = Append(@, e)]
        /\ tx' = [tx EXCEPT ![s] = IF s \in Callers THEN {t} ELSE {}]
  BY DEF Commit
<1>2. t \in Counted /\ t.request.wallet \in Wallets
  BY RequestsAssumption DEF TypeInv, Counted, Row
<1>3. ops' \subseteq Counted /\ tx' \in [Sessions -> SUBSET Counted]
  BY <1>1, <1>2 DEF TypeInv
<1>4. wallets' \in [Wallets -> WalletRow] /\ ledger' \in [Wallets -> Seq(Entry)]
  <2>1. ASSUME NEW e \in entry[s]
        PROVE  e \in Entry /\ Moved(loaded[s], e) \in WalletRow
    <3>1. e \in Entry /\ loaded[s] \in WalletRow
      BY DEF TypeInv
    <3>2. e.after \in Nat /\ loaded[s].version + 1 \in Nat
      BY <3>1 DEF Entry, WalletRow
    <3> QED
      BY <3>1, <3>2 DEF Moved, WalletRow
  <2>2. ASSUME NEW e \in Entry PROVE Append(ledger[t.request.wallet], e) \in Seq(Entry)
    BY <1>2 DEF TypeInv
  <2>3. CASE entry[s] = {} /\ UNCHANGED <<wallets, ledger>>
    BY <2>3 DEF TypeInv
  <2>4. ASSUME NEW e \in entry[s],
               wallets' = [wallets EXCEPT ![t.request.wallet] = Moved(loaded[s], e)],
               ledger' = [ledger EXCEPT ![t.request.wallet] = Append(@, e)]
        PROVE  wallets' \in [Wallets -> WalletRow] /\ ledger' \in [Wallets -> Seq(Entry)]
    BY <1>2, <2>1, <2>2, <2>4 DEF TypeInv
  <2> QED
    BY <1>1, <2>3, <2>4
<1>5. outbox' \subseteq Event
  BY DEF Commit, TypeInv
<1>6. /\ pc' \in [Sessions -> Steps]
      /\ loaded' \in [Sessions -> WalletRow]
      /\ reference' \in [Sessions -> SUBSET Counted]
      /\ entry' \in [Sessions -> SUBSET Entry]
      /\ events' \in [Sessions -> SUBSET Event]
  BY EndSessionIsTyped DEF Commit, Steps
<1> QED
  BY <1>3, <1>4, <1>5, <1>6 DEF TypeInv

LEMMA OpenWalletIsTyped ==
  ASSUME TypeInv, NEW w \in Wallets, NEW b \in OpeningBalances, OpenWallet(w, b)
  PROVE  TypeInv'
<1>1. b \in Nat
  BY OpeningAssumption, BoundsAssumption
<1>2. wallets' \in [Wallets -> WalletRow]
  BY <1>1 DEF TypeInv, OpenWallet, WalletRow
<1>3. ledger' \in [Wallets -> Seq(Entry)] /\ outbox' \subseteq Event
  <2> DEFINE credit == [op |-> OpeningName(w), direction |-> "CREDIT",
                        amount |-> b, before |-> 0, after |-> b]
  <2>1. CASE b > 0
    <3>1. credit \in Entry
      BY <1>1 DEF Entry
    <3>2. PICK last \in LastSequence(w) :
            outbox' = outbox \cup
              NewEvents(last, w, OpeningName(w), "WagerTransactionProcessed", {credit}, 1)
      BY <2>1 DEF OpenWallet
    <3>3. NewEvents(last, w, OpeningName(w), "WagerTransactionProcessed", {credit}, 1)
            \subseteq Event
      BY LastSequenceIsNat, NewEventsAreEvents DEF EventTypes
    <3>4. ledger' = [ledger EXCEPT ![w] = Append(@, credit)]
      BY <2>1 DEF OpenWallet
    <3>5. Append(ledger[w], credit) \in Seq(Entry)
      BY <3>1 DEF TypeInv
    <3> HIDE DEF credit
    <3> QED
      BY <3>2, <3>3, <3>4, <3>5 DEF TypeInv
  <2>2. CASE ~(b > 0)
    BY <2>2 DEF OpenWallet, TypeInv
  <2> QED
    BY <2>1, <2>2
<1> QED
  BY <1>2, <1>3 DEF OpenWallet, session, TypeInv

\* The step of one session.
LEMMA SessionIsTyped ==
  ASSUME TypeInv, NEW s \in Sessions,
         \/ \E r \in Requests : Receive(s, r)
         \/ \E t \in ops : Lease(s, t)
         \/ GetForUpdate(s) \/ WalletNotFound(s)
         \/ Settling(s) \/ Rollback(s) \/ Return(s)
  PROVE  TypeInv'
<1>1. ASSUME NEW r \in Requests, Receive(s, r) PROVE TypeInv'
  BY <1>1, NewExternalIsCounted DEF Receive, Goto, tables, TypeInv, Steps
<1>2. ASSUME NEW t \in ops, Lease(s, t) PROVE TypeInv'
  BY <1>2 DEF Lease, Goto, tables, TypeInv, Steps
<1>3. CASE GetForUpdate(s)
  <2>1. PICK t \in tx[s] : loaded' = [loaded EXCEPT ![s] = wallets[t.request.wallet]]
    BY <1>3 DEF GetForUpdate
  <2>2. wallets[t.request.wallet] \in WalletRow
    BY RequestsAssumption DEF TypeInv, Counted, Row
  <2>3. loaded' \in [Sessions -> WalletRow]
    BY <2>1, <2>2 DEF TypeInv
  <2>4. pc' \in [Sessions -> Steps]
    BY <1>3 DEF GetForUpdate, Goto, TypeInv, Steps
  <2> QED
    BY <1>3, <2>3, <2>4 DEF GetForUpdate, tables, TypeInv
<1>4. CASE WalletNotFound(s)
  <2>1. "idle" \in Steps /\ EndSession(s, "idle")
    BY <1>4 DEF WalletNotFound, Steps
  <2> QED
    BY <1>4, <2>1, EndSessionIsTyped DEF WalletNotFound, tables, TypeInv
<1>5. CASE FindReplay(s)
  <2>1. CASE EndSession(s, "answered") \/ EndSession(s, "conflict")
    <3>1. tx' \in [Sessions -> SUBSET Counted]
      BY <1>5 DEF FindReplay, TypeInv
    <3>2. "answered" \in Steps /\ "conflict" \in Steps
      BY DEF Steps
    <3> QED
      BY <1>5, <2>1, <3>1, <3>2, EndSessionIsTyped DEF FindReplay, tables, TypeInv
  <2>2. CASE Goto(s, "FindReference") /\ UNCHANGED <<tx, loaded, reference, entry, events>>
    BY <1>5, <2>2 DEF FindReplay, Goto, tables, TypeInv, Steps
  <2> QED
    BY <1>5, <2>1, <2>2 DEF FindReplay
<1>6. CASE Reload(s)
  <2>1. PICK t \in tx[s], u \in ops :
          \/ /\ tx' = [tx EXCEPT ![s] = {u}]
             /\ Goto(s, "FindReference")
             /\ UNCHANGED <<loaded, reference, entry, events>>
          \/ /\ tx' = [tx EXCEPT ![s] = {}]
             /\ EndSession(s, "idle")
    BY <1>6 DEF Reload, RowsNamed
  <2>2. tx' \in [Sessions -> SUBSET Counted]
    BY <2>1 DEF TypeInv
  <2>3. CASE EndSession(s, "idle")
    <3>1. "idle" \in Steps
      BY DEF Steps
    <3> QED
      BY <1>6, <2>2, <2>3, <3>1, EndSessionIsTyped DEF Reload, tables, TypeInv
  <2>4. CASE Goto(s, "FindReference") /\ UNCHANGED <<loaded, reference, entry, events>>
    BY <1>6, <2>2, <2>4 DEF Reload, Goto, tables, TypeInv, Steps
  <2> QED
    BY <2>1, <2>3, <2>4
<1>7. CASE FindReference(s)
  BY <1>7 DEF FindReference, RowsNamed, Goto, tables, TypeInv, Steps
<1>8. CASE Conclude(s)
  BY <1>8, ConcludeIsTyped DEF Conclude, Goto, tables, TypeInv, Steps
<1>9. CASE Save(s)
  <2>1. CASE EndSession(s, "conflict")
    <3>1. "conflict" \in Steps
      BY DEF Steps
    <3> QED
      BY <1>9, <2>1, <3>1, EndSessionIsTyped DEF Save, tables, TypeInv
  <2>2. CASE /\ Goto(s, "Write") \/ Goto(s, "Commit")
             /\ UNCHANGED <<loaded, reference, entry, events>>
    BY <1>9, <2>2 DEF Save, Goto, tables, TypeInv, Steps
  <2> QED
    BY <1>9, <2>1, <2>2 DEF Save, Create, UpdatePendingReference
<1>10. CASE Write(s)
  BY <1>10, WriteIsTyped DEF Write, Goto, TypeInv, Steps
<1>11. CASE Commit(s)
  BY <1>11, CommitIsTyped
<1>12. CASE Rollback(s)
  <2>1. "idle" \in Steps /\ EndSession(s, "idle")
    BY <1>12 DEF Rollback, Steps
  <2> QED
    BY <1>12, <2>1, EndSessionIsTyped DEF Rollback, tables, TypeInv
<1>13. CASE Return(s)
  BY <1>13 DEF Return, Goto, tables, TypeInv, Steps
<1> QED
  BY <1>1, <1>2, <1>3, <1>4, <1>5, <1>6, <1>7, <1>8, <1>9, <1>10, <1>11, <1>12, <1>13
     DEF Settling

LEMMA InitIsTyped == Init => TypeInv
<1>1. ClosedWallet \in WalletRow
  BY DEF ClosedWallet, WalletRow
<1> QED
  BY <1>1 DEF Init, TypeInv, Steps

\* Every reachable state is well typed, and every copy of an operation counts
\* its attempts right.
THEOREM TypeInvariant == Spec => []TypeInv
<1>1. ASSUME TypeInv, [Next]_vars PROVE TypeInv'
  <2>1. ASSUME NEW w \in Wallets, NEW b \in OpeningBalances, OpenWallet(w, b)
        PROVE  TypeInv'
    BY <1>1, <2>1, OpenWalletIsTyped
  <2>2. ASSUME NEW s \in Sessions,
               \/ \E r \in Requests : Receive(s, r)
               \/ \E t \in ops : Lease(s, t)
               \/ GetForUpdate(s) \/ WalletNotFound(s)
               \/ Settling(s) \/ Rollback(s) \/ Return(s)
        PROVE  TypeInv'
    BY <1>1, <2>2, SessionIsTyped
  <2>3. CASE UNCHANGED vars
    BY <1>1, <2>3 DEF vars, TypeInv
  <2> QED
    BY <1>1, <2>1, <2>2, <2>3 DEF Next, Sessions
<1> QED
  BY <1>1, InitIsTyped, PTL DEF Spec

\* The tables and the variables of every session keep their types.
THEOREM TypeCorrect == Spec => []TypeOK
<1>1. TypeInv => TypeOK
  BY DEF TypeInv, TypeOK, Counted
<1> QED
  BY <1>1, TypeInvariant, PTL

\* No operation waits for ever: one gives up at the last attempt the policy
\* allows, and only then, whatever workers and deliveries interleave.
THEOREM WaitingEnds == Spec => []WaitingIsBounded
<1>1. TypeInv => WaitingIsBounded
  BY BoundsAssumption
     DEF TypeInv, Counted, CountsAttempts, Row, IsTerminal, NoFailure, WaitingIsBounded
<1> QED
  BY <1>1, TypeInvariant, PTL

-----------------------------------------------------------------------------
(* The rows sessions hold *)

Writing(s) == pc[s] \in {"Write", "Commit"}

\* The part of Clashes that depends on the request alone.
SameIdentity(t, u) ==
  NameOf(t.request) = NameOf(u.request) \/ SameKey(t.request, u.request)

ReversesResolved(t) ==
  IsReversal(t.request.kind) /\ t.state = "PROCESSED" => t.resolved

\* A session settles one operation; a worker one that is on record.
SessionInv ==
  /\ \A s \in Sessions : \A t, u \in tx[s] : t = u
  /\ \A s \in Sessions : pc[s] = "Reload" => s \in Workers
  /\ \A s \in Workers : \A t \in tx[s] : \E u \in ops : u.request = t.request
  /\ \A s \in Sessions : \A t \in tx[s] : ReversesResolved(t)
  /\ \A u \in ops : ReversesResolved(u)

IndexInv ==
  /\ \A u, v \in ops : Clashes(u, v) => u = v
  /\ \A s \in Sessions : Writing(s) => \A t \in tx[s], u \in ops :
       /\ ~SameReversal(t, u)
       /\ s \in Callers => ~SameIdentity(t, u)
  /\ \A s, z \in Sessions : s # z /\ Writing(s) /\ Writing(z) =>
       \A t \in tx[s], u \in tx[z] :
         /\ ~SameReversal(t, u)
         /\ s \in Callers /\ z \in Callers => ~SameIdentity(t, u)

\* A step of one session leaves the others alone.
LEMMA OthersStay ==
  ASSUME TypeInv, NEW s \in Sessions,
         \/ \E r \in Requests : Receive(s, r)
         \/ \E t \in ops : Lease(s, t)
         \/ GetForUpdate(s) \/ WalletNotFound(s)
         \/ Settling(s) \/ Rollback(s) \/ Return(s)
  PROVE  \A z \in Sessions \ {s} :
           pc'[z] = pc[z] /\ tx'[z] = tx[z] /\ loaded'[z] = loaded[z]
<1> USE DEF EndSession, Goto, TypeInv
<1>1. CASE \/ \E r \in Requests : Receive(s, r)
           \/ \E t \in ops : Lease(s, t)
  BY <1>1 DEF Receive, Lease
<1>2. CASE GetForUpdate(s) \/ WalletNotFound(s) \/ Rollback(s) \/ Return(s)
  BY <1>2 DEF GetForUpdate, WalletNotFound, Rollback, Return
<1>3. CASE FindReplay(s) \/ Reload(s) \/ FindReference(s)
  BY <1>3 DEF FindReplay, Reload, FindReference
<1>4. CASE Conclude(s)
  <2>1. \E changed : tx' = [tx EXCEPT ![s] = changed]
    <3>1. \/ \E t : Wait(s, t)
          \/ \E t, refusal, direction : Settle(s, t, refusal, direction)
      BY <1>4 DEF Conclude
    <3>2. ASSUME NEW t, Wait(s, t)
          PROVE  \E changed : tx' = [tx EXCEPT ![s] = changed]
      BY <3>2 DEF Wait
    <3>3. ASSUME NEW t, NEW refusal, NEW direction, Settle(s, t, refusal, direction)
          PROVE  \E changed : tx' = [tx EXCEPT ![s] = changed]
      BY <3>3 DEF Settle
    <3> QED
      BY <3>1, <3>2, <3>3
  <2>2. pc' = [pc EXCEPT ![s] = "Save"] /\ loaded' = loaded
    BY <1>4 DEF Conclude
  <2> QED
    BY <2>1, <2>2
<1>5. CASE Save(s) \/ Write(s)
  BY <1>5 DEF Save, Create, UpdatePendingReference, Write
<1>6. CASE Commit(s)
  BY <1>6 DEF Commit
<1> QED
  BY <1>1, <1>2, <1>3, <1>4, <1>5, <1>6 DEF Settling

LEMMA ClashesIsSymmetric ==
  ASSUME NEW t, NEW u
  PROVE  /\ SameReversal(t, u) <=> SameReversal(u, t)
         /\ SameIdentity(t, u) <=> SameIdentity(u, t)
         /\ Clashes(t, u) <=> SameIdentity(t, u) \/ SameReversal(t, u)
<1>1. SameReversal(t, u) <=> SameReversal(u, t)
  BY DEF SameReversal, ReversesProcessed
<1>2. SameIdentity(t, u) <=> SameIdentity(u, t)
  BY DEF SameIdentity, SameKey
<1>3. Clashes(t, u) <=> SameIdentity(t, u) \/ SameReversal(t, u)
  BY DEF Clashes, SameIdentity
<1> QED
  BY <1>1, <1>2, <1>3

\* conclude decides the operation it was given, and applies a reversal only
\* with the reference it resolved.
LEMMA ConcludeKeepsRequest ==
  ASSUME TypeInv, SessionInv, NEW s \in Sessions, Conclude(s)
  PROVE  \E t \in tx[s], u \in Counted :
           /\ tx' = [tx EXCEPT ![s] = {u}]
           /\ u.request = t.request
           /\ ReversesResolved(u)
<1>1. PICK t \in tx[s] :
        \/ Wait(s, t)
        \/ \E refusal, direction : Settle(s, t, refusal, direction)
        \/ \E refusal, direction : \E agrees \in BOOLEAN :
             Settle(s, [t EXCEPT !.resolved = agrees], refusal, direction)
  BY DEF Conclude
<1>2. t \in Row /\ ReversesResolved(t)
  BY DEF TypeInv, Counted, SessionInv
<1>3. PICK u : tx' = [tx EXCEPT ![s] = {u}] /\ u.request = t.request /\ ReversesResolved(u)
  <2>1. CASE Wait(s, t)
    <3>1. CASE tx' = [tx EXCEPT ![s] = {MarkPendingReference(t)}]
      <4>1. /\ MarkPendingReference(t).request = t.request
            /\ MarkPendingReference(t).state = "PENDING_REFERENCE"
        BY <1>2 DEF MarkPendingReference, Row
      <4> QED
        BY <3>1, <4>1 DEF ReversesResolved
    <3>2. CASE /\ t.state = "PENDING_REFERENCE"
               /\ tx' = [tx EXCEPT ![s] = {RecordMissingReference(t)}]
      <4>1. /\ RecordMissingReference(t).request = t.request
            /\ RecordMissingReference(t).state # "PROCESSED"
        <5> DEFINE counted == [t EXCEPT !.attempts = t.attempts + 1]
        <5>1. counted.request = t.request /\ counted.state = "PENDING_REFERENCE"
          BY <1>2, <3>2 DEF Row
        <5>2. \/ RecordMissingReference(t) = counted
              \/ RecordMissingReference(t) = [counted EXCEPT !.state = "REJECTED",
                                                !.failureCode = "REFERENCE_NOT_FOUND"]
          BY DEF RecordMissingReference, MarkRejected
        <5>3. DOMAIN counted = DOMAIN t /\ "state" \in DOMAIN t
          BY <1>2 DEF Row
        <5> HIDE DEF counted
        <5> QED
          BY <5>1, <5>2, <5>3, <1>2 DEF Row
      <4> QED
        BY <3>2, <4>1 DEF ReversesResolved
    <3> QED
      BY <2>1, <3>1, <3>2 DEF Wait
  <2>2. ASSUME NEW v \in Row, v.request = t.request, NEW refusal, NEW direction,
               Settle(s, v, refusal, direction)
        PROVE  \E u : tx' = [tx EXCEPT ![s] = {u}] /\ u.request = t.request /\ ReversesResolved(u)
    <3>1. CASE tx' = [tx EXCEPT ![s] = {MarkRejected(v, refusal)}]
      <4>1. /\ MarkRejected(v, refusal).request = t.request
            /\ MarkRejected(v, refusal).state = "REJECTED"
        BY <2>2 DEF MarkRejected, Row
      <4> QED
        BY <3>1, <4>1 DEF ReversesResolved
    <3>2. CASE /\ IsReversal(v.request.kind) => v.resolved
               /\ \E balance : tx' = [tx EXCEPT ![s] = {MarkProcessed(v, balance)}]
      <4>1. \A balance : /\ MarkProcessed(v, balance).request = t.request
                         /\ MarkProcessed(v, balance).resolved = v.resolved
        BY <2>2 DEF MarkProcessed, Row
      <4> QED
        BY <2>2, <3>2, <4>1 DEF ReversesResolved
    <3>3. CASE /\ ~Moves(v.request.kind)
               /\ \E balance : tx' = [tx EXCEPT ![s] = {MarkProcessed(v, balance)}]
      <4>1. \A balance : MarkProcessed(v, balance).request = t.request
        BY <2>2 DEF MarkProcessed, Row
      <4>2. ~IsReversal(t.request.kind)
        BY <2>2, <3>3 DEF Moves, IsReversal
      <4>3. \A balance : ReversesResolved(MarkProcessed(v, balance))
        BY <4>1, <4>2 DEF ReversesResolved
      <4> QED
        BY <3>3, <4>1, <4>3
    <3> QED
      BY <2>2, <3>1, <3>2, <3>3 DEF Settle
  <2>3. ASSUME NEW agrees \in BOOLEAN
        PROVE  [t EXCEPT !.resolved = agrees] \in Row
               /\ [t EXCEPT !.resolved = agrees].request = t.request
    BY <1>2 DEF Row
  <2> QED
    BY <1>1, <1>2, <2>1, <2>2, <2>3
<1>4. u \in Counted
  <2>1. u \in tx'[s]
    BY <1>3 DEF TypeInv
  <2> QED
    BY <2>1, ConcludeIsTyped
<1> QED
  BY <1>1, <1>3, <1>4

-----------------------------------------------------------------------------
(* Operations are recorded once, references reversed once *)

\* What a commit does to the table: a caller adds its operation, a worker puts
\* its row in the place of the one it was read from.
LEMMA CommitReplaces ==
  ASSUME TypeInv, SessionInv, IndexInv, NEW s \in Sessions, Commit(s)
  PROVE  \E t \in tx[s] :
           /\ ops' = (ops \ RowsNamed(NameOf(t.request))) \cup {t}
           /\ s \in Callers => RowsNamed(NameOf(t.request)) = {}
           /\ s \in Workers => \E v \in ops : v.request = t.request
           /\ \A u \in RowsNamed(NameOf(t.request)) : u.request = t.request
           /\ \A u \in ops : ~SameReversal(t, u)
<1>1. PICK t \in tx[s] : ops' = (ops \ RowsNamed(NameOf(t.request))) \cup {t}
  BY DEF Commit
<1>2. Writing(s)
  BY DEF Commit, Writing
<1>3. s \in Callers => RowsNamed(NameOf(t.request)) = {}
  BY <1>2 DEF IndexInv, RowsNamed, SameIdentity
<1>4. s \in Workers => \E v \in ops : v.request = t.request
  BY DEF SessionInv
<1>5. ASSUME s \in Workers, NEW u \in RowsNamed(NameOf(t.request))
      PROVE  u.request = t.request
  <2>1. PICK v \in ops : v.request = t.request
    BY <1>4, <1>5
  <2>2. u \in ops /\ Clashes(u, v)
    BY <1>5, <2>1 DEF RowsNamed, Clashes
  <2> QED
    BY <2>1, <2>2 DEF IndexInv
<1> QED
  BY <1>1, <1>2, <1>3, <1>4, <1>5 DEF IndexInv, Sessions

\* Recorded requests are never forgotten.
LEMMA RequestsStay ==
  ASSUME TypeInv, SessionInv, IndexInv, [Next]_vars
  PROVE  \A u \in ops : \E v \in ops' : v.request = u.request
<1>1. CASE \E s \in Sessions : Commit(s)
  <2>1. PICK s \in Sessions : Commit(s)
    BY <1>1
  <2>2. PICK t \in tx[s] :
          /\ ops' = (ops \ RowsNamed(NameOf(t.request))) \cup {t}
          /\ \A u \in RowsNamed(NameOf(t.request)) : u.request = t.request
    BY <2>1, CommitReplaces
  <2> QED
    BY <2>2
<1>2. CASE ops' = ops
  BY <1>2
<1>3. (\E s \in Sessions : Commit(s)) \/ ops' = ops
  BY DEF Next, Settling, Receive, Lease, GetForUpdate, WalletNotFound, FindReplay, Reload,
         FindReference, Conclude, Save, Write, Rollback, Return, OpenWallet, tables, vars
<1> QED
  BY <1>1, <1>2, <1>3

\* What a session step does to the operation it holds.
LEMMA HeldOperation ==
  ASSUME TypeInv, SessionInv, NEW s \in Sessions,
         \/ s \in Callers /\ \E r \in Requests : Receive(s, r)
         \/ s \in Workers /\ \E t \in ops : Lease(s, t)
         \/ GetForUpdate(s) \/ WalletNotFound(s)
         \/ Settling(s) \/ Rollback(s) \/ Return(s)
  PROVE  /\ \A t, u \in tx'[s] : t = u
         /\ pc'[s] = "Reload" => s \in Workers
         /\ \A t \in tx'[s] : ReversesResolved(t)
         /\ s \in Workers => \A t \in tx'[s] : \E u \in ops : u.request = t.request
<1> USE DEF EndSession, Goto
<1>1. CASE s \in Callers /\ \E r \in Requests : Receive(s, r)
  <2>1. PICK r \in Requests : Receive(s, r)
    BY <1>1
  <2>2. tx'[s] = {NewExternal(r)} /\ pc'[s] = "GetForUpdate"
    BY <2>1 DEF Receive, TypeInv
  <2>3. NewExternal(r).state = "PENDING"
    BY DEF NewExternal
  <2> QED
    BY <1>1, <2>2, <2>3, SessionsAssumption DEF ReversesResolved
<1>2. CASE s \in Workers /\ \E t \in ops : Lease(s, t)
  BY <1>2 DEF Lease, SessionInv, TypeInv
<1>3. CASE GetForUpdate(s)
  BY <1>3 DEF GetForUpdate, SessionInv, TypeInv, Sessions
<1>4. CASE WalletNotFound(s) \/ Rollback(s) \/ Return(s)
  BY <1>4 DEF WalletNotFound, Rollback, Return, SessionInv, TypeInv
<1>5. CASE FindReplay(s)
  <2>1. (\E u \in ops : tx'[s] = {u}) \/ tx' = tx
    BY <1>5 DEF FindReplay, TypeInv
  <2>2. pc'[s] \in {"answered", "conflict", "FindReference"}
    BY <1>5 DEF FindReplay, TypeInv
  <2> QED
    BY <2>1, <2>2 DEF SessionInv
<1>6. CASE Reload(s)
  BY <1>6 DEF Reload, RowsNamed, SessionInv, TypeInv
<1>7. CASE FindReference(s)
  BY <1>7 DEF FindReference, SessionInv, TypeInv
<1>8. CASE Conclude(s)
  <2>1. PICK t \in tx[s], u \in Counted :
          /\ tx' = [tx EXCEPT ![s] = {u}]
          /\ u.request = t.request
          /\ ReversesResolved(u)
    BY <1>8, ConcludeKeepsRequest
  <2>2. tx'[s] = {u} /\ pc'[s] = "Save"
    BY <1>8, <2>1 DEF Conclude, TypeInv
  <2> QED
    BY <2>1, <2>2 DEF SessionInv
<1>9. CASE Save(s) \/ Write(s)
  BY <1>9 DEF Save, Create, UpdatePendingReference, Write, SessionInv, TypeInv
<1>10. CASE Commit(s)
  <2>1. PICK t \in tx[s] : tx' = [tx EXCEPT ![s] = IF s \in Callers THEN {t} ELSE {}]
    BY <1>10 DEF Commit
  <2>2. tx'[s] \subseteq {t} /\ pc'[s] \in {"answered", "idle"}
    BY <1>10, <2>1 DEF Commit, TypeInv
  <2> QED
    BY <2>1, <2>2 DEF SessionInv
<1> QED
  BY <1>1, <1>2, <1>3, <1>4, <1>5, <1>6, <1>7, <1>8, <1>9, <1>10 DEF Settling

LEMMA SessionInvHolds ==
  ASSUME TypeInv, SessionInv, IndexInv, [Next]_vars
  PROVE  SessionInv'
<1>1. \A u \in ops : \E v \in ops' : v.request = u.request
  BY RequestsStay
<1>2. ASSUME NEW w \in Wallets, NEW b \in OpeningBalances, OpenWallet(w, b)
      PROVE  SessionInv'
  BY <1>2 DEF OpenWallet, session, SessionInv
<1>3. ASSUME NEW s \in Sessions,
             \/ s \in Callers /\ \E r \in Requests : Receive(s, r)
             \/ s \in Workers /\ \E t \in ops : Lease(s, t)
             \/ GetForUpdate(s) \/ WalletNotFound(s)
             \/ Settling(s) \/ Rollback(s) \/ Return(s)
      PROVE  SessionInv'
  <2>1. \A z \in Sessions \ {s} : pc'[z] = pc[z] /\ tx'[z] = tx[z]
    BY <1>3, OthersStay
  <2>2. /\ \A t, u \in tx'[s] : t = u
        /\ pc'[s] = "Reload" => s \in Workers
        /\ \A t \in tx'[s] : ReversesResolved(t)
        /\ s \in Workers => \A t \in tx'[s] : \E u \in ops : u.request = t.request
    BY <1>3, HeldOperation
  <2>3. \A z \in Workers : \A t \in tx'[z] : \E u \in ops' : u.request = t.request
    <3> SUFFICES ASSUME NEW z \in Workers, NEW t \in tx'[z]
                 PROVE  \E u \in ops' : u.request = t.request
      OBVIOUS
    <3>1. PICK u \in ops : u.request = t.request
      BY <2>1, <2>2 DEF SessionInv, Sessions
    <3> QED
      BY <1>1, <3>1
  <2>4. \A u \in ops' : ReversesResolved(u)
    <3>1. CASE Commit(s)
      BY <3>1 DEF Commit, SessionInv
    <3>2. CASE ops' = ops
      BY <3>2 DEF SessionInv
    <3>3. Commit(s) \/ ops' = ops
      BY <1>3 DEF Settling, Receive, Lease, GetForUpdate, WalletNotFound, FindReplay,
                  Reload, FindReference, Conclude, Save, Write, Rollback, Return, tables
    <3> QED
      BY <3>1, <3>2, <3>3
  <2> QED
    BY <2>1, <2>2, <2>3, <2>4 DEF SessionInv, ReversesResolved
<1>4. CASE UNCHANGED vars
  BY <1>4 DEF vars, SessionInv
<1> QED
  BY <1>2, <1>3, <1>4 DEF Next, Sessions

\* A step that ends with nothing written, or with what was already written.
LEMMA QuietStepKeepsIndexes ==
  ASSUME IndexInv, NEW s \in Sessions, ops' = ops,
         \A z \in Sessions \ {s} : pc'[z] = pc[z] /\ tx'[z] = tx[z],
         ~Writing(s)' \/ (Writing(s) /\ tx'[s] = tx[s])
  PROVE  IndexInv'
<1>1. ASSUME NEW z \in Sessions, Writing(z)'
      PROVE  Writing(z) /\ tx'[z] = tx[z]
  BY <1>1 DEF Writing
<1>2. ASSUME NEW t, NEW u
      PROVE  /\ SameReversal(t, u)' <=> SameReversal(t, u)
             /\ SameIdentity(t, u)' <=> SameIdentity(t, u)
             /\ Clashes(t, u)' <=> Clashes(t, u)
  OBVIOUS
<1> QED
  BY <1>1, <1>2 DEF IndexInv

\* A row is written only after the indexes showed no clash, committed or not.
LEMMA SaveKeepsIndexes ==
  ASSUME TypeInv, SessionInv, IndexInv, NEW s \in Sessions, Save(s)
  PROVE  IndexInv'
<1>1. /\ \A z \in Sessions \ {s} : pc'[z] = pc[z]
      /\ ops' = ops
      /\ tx' = tx
  BY OthersStay DEF Save, Settling, tables
<1>2. CASE ~Writing(s)'
  BY <1>1, <1>2, QuietStepKeepsIndexes
<1>3. CASE Writing(s)'
  <2>1. PICK t \in tx[s] : IF s \in Callers THEN Create(s, t) ELSE UpdatePendingReference(s, t)
    BY DEF Save
  <2>2. \A u \in tx[s] : u = t
    BY <2>1 DEF SessionInv
  <2>3. s \in Callers => /\ \A u \in Uncommitted(s) : ~Clashes(t, u)
                         /\ \A u \in ops : ~Clashes(t, u)
    <3>1. ~EndSession(s, "conflict")
      BY <1>3 DEF EndSession, Writing, TypeInv
    <3> QED
      BY <2>1, <3>1 DEF Create
  <2>4. s \notin Callers => \A u \in ops \cup Uncommitted(s) : ~SameReversal(t, u)
    BY <2>1 DEF UpdatePendingReference
  <2>5. /\ \A u \in ops \cup Uncommitted(s) : ~SameReversal(t, u)
        /\ s \in Callers => \A u \in ops \cup Uncommitted(s) : ~SameIdentity(t, u)
    BY <2>3, <2>4, ClashesIsSymmetric
  <2>6. ASSUME NEW z \in Sessions \ {s}, Writing(z), NEW u \in tx[z]
        PROVE  u \in Uncommitted(s)
    BY <2>6 DEF Uncommitted, Writing
  <2>7. \A z \in Sessions \ {s} : Writing(z)' <=> Writing(z)
    BY <1>1 DEF Writing
  <2>8. ASSUME NEW z \in Sessions, Writing(z)', NEW v \in tx[z], NEW u \in ops
        PROVE  ~SameReversal(v, u) /\ (z \in Callers => ~SameIdentity(v, u))
    BY <2>2, <2>5, <2>7, <2>8 DEF IndexInv
  <2>9. ASSUME NEW y \in Sessions, NEW z \in Sessions, y # z, Writing(y)', Writing(z)',
               NEW v \in tx[y], NEW u \in tx[z]
        PROVE  ~SameReversal(v, u) /\ (y \in Callers /\ z \in Callers => ~SameIdentity(v, u))
    <3>1. CASE y = s
      BY <2>2, <2>5, <2>6, <2>7, <2>9, <3>1
    <3>2. CASE z = s
      BY <2>2, <2>5, <2>6, <2>7, <2>9, <3>2, ClashesIsSymmetric
    <3>3. CASE y # s /\ z # s
      BY <2>7, <2>9, <3>3 DEF IndexInv
    <3> QED
      BY <3>1, <3>2, <3>3
  <2>10. \A u, v \in ops : Clashes(u, v) => u = v
    BY DEF IndexInv
  <2>11. \A v, u : /\ SameReversal(v, u)' <=> SameReversal(v, u)
                   /\ SameIdentity(v, u)' <=> SameIdentity(v, u)
                   /\ Clashes(v, u)' <=> Clashes(v, u)
    OBVIOUS
  <2> QED
    BY <1>1, <2>8, <2>9, <2>10, <2>11 DEF IndexInv
<1> QED
  BY <1>2, <1>3

\* A commit makes one row visible that clashed with none, and the worker's row
\* has the identity of the one it replaces.
LEMMA CommitKeepsIndexes ==
  ASSUME TypeInv, SessionInv, IndexInv, NEW s \in Sessions, Commit(s)
  PROVE  IndexInv'
<1>1. PICK t \in tx[s] :
        /\ ops' = (ops \ RowsNamed(NameOf(t.request))) \cup {t}
        /\ s \in Callers => RowsNamed(NameOf(t.request)) = {}
        /\ s \in Workers => \E v \in ops : v.request = t.request
        /\ \A u \in ops : ~SameReversal(t, u)
  BY CommitReplaces
<1>2. Writing(s) /\ ~Writing(s)'
  BY DEF Commit, EndSession, Writing, TypeInv
<1>3. \A z \in Sessions \ {s} : tx'[z] = tx[z] /\ (Writing(z)' <=> Writing(z))
  <2>1. \A z \in Sessions \ {s} : pc'[z] = pc[z] /\ tx'[z] = tx[z]
    BY OthersStay DEF Settling
  <2> QED
    BY <2>1 DEF Writing
<1>4. \A u \in ops' : u = t \/ (u \in ops /\ NameOf(u.request) # NameOf(t.request))
  BY <1>1 DEF RowsNamed
<1>5. ASSUME NEW u \in ops, NameOf(u.request) # NameOf(t.request)
      PROVE  ~Clashes(t, u)
  <2>1. CASE s \in Callers
    BY <1>1, <1>2, <2>1, ClashesIsSymmetric DEF IndexInv
  <2>2. CASE s \in Workers
    <3>1. PICK v \in ops : v.request = t.request
      BY <1>1, <2>2
    <3>2. SameIdentity(t, u) => Clashes(v, u)
      BY <3>1 DEF SameIdentity, Clashes
    <3>3. ~SameIdentity(t, u)
      BY <1>5, <3>1, <3>2 DEF IndexInv
    <3> QED
      BY <1>1, <3>3, ClashesIsSymmetric
  <2> QED
    BY <2>1, <2>2 DEF Sessions
<1>6. \A u, v \in ops' : Clashes(u, v) => u = v
  BY <1>4, <1>5, ClashesIsSymmetric DEF IndexInv
<1>7. ASSUME NEW z \in Sessions \ {s}, Writing(z), NEW v \in tx[z], NEW u \in ops'
      PROVE  ~SameReversal(v, u) /\ (z \in Callers => ~SameIdentity(v, u))
  <2>1. CASE u \in ops
    BY <1>7, <2>1 DEF IndexInv
  <2>2. CASE u = t
    <3>1. ~SameReversal(v, t)
      BY <1>2, <1>7 DEF IndexInv
    <3>2. CASE s \in Callers
      BY <1>2, <1>7, <2>2, <3>1, <3>2 DEF IndexInv
    <3>3. CASE s \in Workers
      <4>1. PICK r \in ops : r.request = t.request
        BY <1>1, <3>3
      <4>2. z \in Callers => ~SameIdentity(v, r)
        BY <1>7 DEF IndexInv
      <4> QED
        BY <2>2, <3>1, <4>1, <4>2 DEF SameIdentity
    <3> QED
      BY <3>2, <3>3 DEF Sessions
  <2> QED
    BY <1>4, <2>1, <2>2
<1>8. \A v, u : /\ SameReversal(v, u)' <=> SameReversal(v, u)
                /\ SameIdentity(v, u)' <=> SameIdentity(v, u)
                /\ Clashes(v, u)' <=> Clashes(v, u)
  OBVIOUS
<1>9. \A z \in Sessions : Writing(z)' => z # s /\ Writing(z) /\ tx'[z] = tx[z]
  BY <1>2, <1>3
<1>10. \A y, z \in Sessions : y # z /\ Writing(y) /\ Writing(z) =>
         \A v \in tx[y], u \in tx[z] :
           /\ ~SameReversal(v, u)
           /\ y \in Callers /\ z \in Callers => ~SameIdentity(v, u)
  BY DEF IndexInv
<1> QED
  BY <1>6, <1>7, <1>8, <1>9, <1>10 DEF IndexInv

LEMMA IndexInvHolds ==
  ASSUME TypeInv, SessionInv, IndexInv, [Next]_vars
  PROVE  IndexInv'
<1>1. ASSUME NEW w \in Wallets, NEW b \in OpeningBalances, OpenWallet(w, b)
      PROVE  IndexInv'
  BY <1>1 DEF OpenWallet, session, IndexInv, Writing, Clashes, SameIdentity, SameReversal
<1>2. ASSUME NEW s \in Sessions,
             \/ \E r \in Requests : Receive(s, r)
             \/ \E t \in ops : Lease(s, t)
             \/ GetForUpdate(s) \/ WalletNotFound(s)
             \/ Settling(s) \/ Rollback(s) \/ Return(s)
      PROVE  IndexInv'
  <2>1. \A z \in Sessions \ {s} : pc'[z] = pc[z] /\ tx'[z] = tx[z]
    BY <1>2, OthersStay
  <2>2. CASE \/ \E r \in Requests : Receive(s, r)
             \/ \E t \in ops : Lease(s, t)
             \/ GetForUpdate(s) \/ WalletNotFound(s) \/ Rollback(s) \/ Return(s)
    <3>1. ops' = ops /\ ~Writing(s)'
      BY <2>2 DEF Receive, Lease, GetForUpdate, WalletNotFound, Rollback, Return,
                  EndSession, Goto, tables, Writing, TypeInv
    <3> QED
      BY <2>1, <3>1, QuietStepKeepsIndexes
  <2>3. CASE FindReplay(s) \/ Reload(s) \/ FindReference(s) \/ Conclude(s)
    <3>1. ops' = ops /\ ~Writing(s)'
      BY <2>3 DEF FindReplay, Reload, FindReference, Conclude,
                  EndSession, Goto, tables, Writing, TypeInv
    <3> QED
      BY <2>1, <3>1, QuietStepKeepsIndexes
  <2>4. CASE Write(s)
    <3>1. ops' = ops /\ Writing(s) /\ tx'[s] = tx[s]
      BY <2>4 DEF Write, Writing
    <3> QED
      BY <2>1, <3>1, QuietStepKeepsIndexes
  <2> QED
    BY <1>2, <2>2, <2>3, <2>4, SaveKeepsIndexes, CommitKeepsIndexes DEF Settling
<1>3. CASE UNCHANGED vars
  BY <1>3 DEF vars, IndexInv, Writing, Clashes, SameIdentity, SameReversal
<1> QED
  BY <1>1, <1>2, <1>3 DEF Next, Sessions

\* In every reachable state, what sessions wrote and did not commit clashes with
\* nothing (the unique indexes of wager_transactions).
THEOREM IndexesHold == Spec => [](TypeInv /\ SessionInv /\ IndexInv)
<1>1. ASSUME Init PROVE SessionInv /\ IndexInv
  <2>1. ops = {} /\ \A s \in Sessions : tx[s] = {} /\ pc[s] = "idle"
    BY <1>1 DEF Init
  <2> QED
    BY <2>1, SessionsAssumption DEF SessionInv, IndexInv, Writing, Sessions
<1>2. TypeInv /\ TypeInv' /\ SessionInv /\ IndexInv /\ [Next]_vars => SessionInv' /\ IndexInv'
  BY SessionInvHolds, IndexInvHolds
<1> QED
  BY <1>1, <1>2, TypeInvariant, PTL DEF Spec

\* An identifier or an idempotency key of a provider, however many sessions
\* bring it to however many wallets at once, names one recorded operation.
THEOREM RecordedOnce == Spec => []OneOperationPerKey
<1>1. IndexInv => OneOperationPerKey
  BY DEF IndexInv, Clashes, OneOperationPerKey
<1> QED
  BY <1>1, IndexesHold, PTL

\* No operation is reversed twice, whichever of REFUND and ROLLBACK come, at
\* once, in whichever order, or after waiting.
THEOREM ReversedOnce == Spec => []OneReversalPerReference
<1>1. ASSUME SessionInv, IndexInv PROVE OneReversalPerReference
  <2> SUFFICES ASSUME NEW u \in ops, NEW v \in ops,
                      IsReversal(u.request.kind), u.state = "PROCESSED",
                      IsReversal(v.request.kind), v.state = "PROCESSED",
                      ReferenceName(u.request) = ReferenceName(v.request)
               PROVE  u = v
    BY DEF OneReversalPerReference
  <2>1. u.resolved /\ v.resolved
    BY <1>1 DEF SessionInv, ReversesResolved
  <2>2. SameReversal(u, v)
    BY <2>1 DEF SameReversal, ReversesProcessed, IsReversal, IndexedReversals
  <2> QED
    BY <1>1, <2>2 DEF IndexInv, Clashes
<1> QED
  BY <1>1, IndexesHold, PTL

-----------------------------------------------------------------------------
(* The wallet under the lock *)

\* Two sessions under a lock have different wallets, and the wallet of each is
\* open and as it read it.
LockInv ==
  /\ \A s, z \in Sessions : s # z /\ pc[s] \in Holding /\ pc[z] \in Holding =>
       \A t \in tx[s], u \in tx[z] : t.request.wallet # u.request.wallet
  /\ \A s \in Sessions : pc[s] \in Holding =>
       \A t \in tx[s] : wallets[t.request.wallet].open
  /\ LoadedWalletIsCurrent

\* A step at the end of which the session holds no lock, or the one it had.
LEMMA LockedStepKeepsLocks ==
  ASSUME LockInv, NEW s \in Sessions, wallets' = wallets,
         \A z \in Sessions \ {s} :
           pc'[z] = pc[z] /\ tx'[z] = tx[z] /\ loaded'[z] = loaded[z],
         \/ pc'[s] \notin Holding
         \/ /\ pc[s] \in Holding
            /\ loaded'[s] = loaded[s]
            /\ \A u \in tx'[s] : \E t \in tx[s] : u.request.wallet = t.request.wallet
  PROVE  LockInv'
<1>1. \A z \in Sessions : pc'[z] \in Holding =>
        /\ pc[z] \in Holding
        /\ loaded'[z] = loaded[z]
        /\ \A u \in tx'[z] : \E t \in tx[z] : u.request.wallet = t.request.wallet
  OBVIOUS
<1> QED
  BY <1>1 DEF LockInv, LoadedWalletIsCurrent

\* The lock is granted while no other session holds it.
LEMMA LockIsGranted ==
  ASSUME TypeInv, SessionInv, LockInv, NEW s \in Sessions, GetForUpdate(s)
  PROVE  LockInv'
<1>1. PICK t \in tx[s] :
        /\ CanLock(s, t.request.wallet)
        /\ loaded' = [loaded EXCEPT ![s] = wallets[t.request.wallet]]
  BY DEF GetForUpdate
<1>2. \A u \in tx[s] : u = t
  BY DEF SessionInv
<1>3. loaded'[s] = wallets[t.request.wallet] /\ wallets[t.request.wallet].open
  BY <1>1 DEF TypeInv, CanLock
<1>4. \A z \in Sessions \ {s} : pc'[z] = pc[z] /\ loaded'[z] = loaded[z]
  BY OthersStay
<1>5. UNCHANGED <<wallets, tx>>
  BY DEF GetForUpdate, tables
<1>6. ASSUME NEW z \in Sessions \ {s}, pc[z] \in Holding, NEW u \in tx[z]
      PROVE  u.request.wallet # t.request.wallet
  BY <1>1, <1>6 DEF CanLock, LockIsFree, HoldsLock
<1>7. \A y, z \in Sessions : y # z /\ pc'[y] \in Holding /\ pc'[z] \in Holding =>
        \A v \in tx[y], u \in tx[z] : v.request.wallet # u.request.wallet
  BY <1>2, <1>4, <1>6 DEF LockInv
<1>8. \A z \in Sessions : pc'[z] \in Holding => \A u \in tx[z] :
        /\ wallets[u.request.wallet].open
        /\ loaded'[z] = wallets[u.request.wallet]
  BY <1>2, <1>3, <1>4 DEF LockInv, LoadedWalletIsCurrent
<1> QED
  BY <1>5, <1>7, <1>8 DEF LockInv, LoadedWalletIsCurrent

\* A commit changes at most the wallet whose lock it holds, and gives that up.
LEMMA CommitKeepsLocks ==
  ASSUME TypeInv, SessionInv, LockInv, NEW s \in Sessions, Commit(s)
  PROVE  LockInv'
<1>1. PICK t \in tx[s] :
        \/ wallets' = wallets
        \/ \E e \in entry[s] :
             wallets' = [wallets EXCEPT ![t.request.wallet] = Moved(loaded[s], e)]
  BY DEF Commit
<1>2. pc[s] \in Holding /\ pc'[s] \notin Holding
  BY DEF Commit, EndSession, Holding, TypeInv
<1>3. \A z \in Sessions \ {s} :
        pc'[z] = pc[z] /\ tx'[z] = tx[z] /\ loaded'[z] = loaded[z]
  BY OthersStay DEF Settling
<1>4. ASSUME NEW z \in Sessions \ {s}, pc[z] \in Holding, NEW u \in tx[z]
      PROVE  wallets'[u.request.wallet] = wallets[u.request.wallet]
  <2>1. u.request.wallet # t.request.wallet
    BY <1>2, <1>4 DEF LockInv
  <2>2. wallets \in [Wallets -> WalletRow] /\ u.request.wallet \in Wallets
    BY RequestsAssumption DEF TypeInv, Counted, Row
  <2> QED
    BY <1>1, <2>1, <2>2
<1>5. \A z \in Sessions : pc'[z] \in Holding =>
        /\ z # s
        /\ pc[z] \in Holding /\ tx'[z] = tx[z] /\ loaded'[z] = loaded[z]
  BY <1>2, <1>3
<1> QED
  BY <1>4, <1>5 DEF LockInv, LoadedWalletIsCurrent

\* The row a worker reads again is that of the wallet it locked.
LEMMA ReloadKeepsLocks ==
  ASSUME TypeInv, SessionInv, IndexInv, LockInv, NEW s \in Sessions, Reload(s)
  PROVE  LockInv'
<1>1. PICK t \in tx[s] : \E u \in RowsNamed(NameOf(t.request)) :
        \/ pc'[s] = "idle"
        \/ tx'[s] = {u} /\ loaded' = loaded
  BY DEF Reload, EndSession, Goto, TypeInv
<1>2. PICK v \in ops : v.request = t.request
  BY DEF Reload, SessionInv
<1>3. \A u \in RowsNamed(NameOf(t.request)) : u = v
  BY <1>2 DEF RowsNamed, Clashes, IndexInv
<1>4. \A z \in Sessions \ {s} :
        pc'[z] = pc[z] /\ tx'[z] = tx[z] /\ loaded'[z] = loaded[z]
  BY OthersStay DEF Settling
<1>5. wallets' = wallets /\ pc[s] \in Holding /\ "idle" \notin Holding
  BY DEF Reload, tables, Holding
<1> QED
  BY <1>1, <1>2, <1>3, <1>4, <1>5, LockedStepKeepsLocks

LEMMA LockInvHolds ==
  ASSUME TypeInv, SessionInv, IndexInv, LockInv, [Next]_vars
  PROVE  LockInv'
<1>1. ASSUME NEW w \in Wallets, NEW b \in OpeningBalances, OpenWallet(w, b)
      PROVE  LockInv'
  <2>1. ~wallets[w].open
    BY <1>1 DEF OpenWallet
  <2>2. UNCHANGED <<pc, tx, loaded>>
    BY <1>1 DEF OpenWallet, session
  <2>3. \A v \in Wallets : v # w => wallets'[v] = wallets[v]
    BY <1>1 DEF OpenWallet, TypeInv
  <2>4. \A s \in Sessions : \A t \in tx[s] : t.request.wallet \in Wallets
    BY RequestsAssumption DEF TypeInv, Counted, Row
  <2>5. \A s \in Sessions : pc[s] \in Holding =>
          \A t \in tx[s] : wallets'[t.request.wallet] = wallets[t.request.wallet]
    BY <2>1, <2>3, <2>4 DEF LockInv
  <2> QED
    BY <2>2, <2>5 DEF LockInv, LoadedWalletIsCurrent
<1>2. ASSUME NEW s \in Sessions,
             \/ \E r \in Requests : Receive(s, r)
             \/ \E t \in ops : Lease(s, t)
             \/ GetForUpdate(s) \/ WalletNotFound(s)
             \/ Settling(s) \/ Rollback(s) \/ Return(s)
      PROVE  LockInv'
  <2>1. \A z \in Sessions \ {s} :
          pc'[z] = pc[z] /\ tx'[z] = tx[z] /\ loaded'[z] = loaded[z]
    BY <1>2, OthersStay
  <2>2. CASE \/ \E r \in Requests : Receive(s, r)
             \/ \E t \in ops : Lease(s, t)
             \/ WalletNotFound(s) \/ Rollback(s) \/ Return(s)
    <3>1. wallets' = wallets /\ pc'[s] \notin Holding
      BY <2>2 DEF Receive, Lease, WalletNotFound, Rollback, Return,
                  EndSession, Goto, tables, Holding, TypeInv
    <3> QED
      BY <2>1, <3>1, LockedStepKeepsLocks
  <2>3. CASE FindReplay(s) \/ FindReference(s) \/ Save(s) \/ Write(s)
    <3>1. /\ wallets' = wallets
          /\ \/ pc'[s] \notin Holding
             \/ pc[s] \in Holding /\ loaded' = loaded /\ tx' = tx
      BY <2>3 DEF FindReplay, FindReference, Save, Create, UpdatePendingReference, Write,
                  EndSession, Goto, tables, Holding, TypeInv
    <3> QED
      BY <2>1, <3>1, LockedStepKeepsLocks
  <2>4. CASE Conclude(s)
    <3>1. wallets' = wallets /\ pc[s] \in Holding /\ loaded' = loaded
      BY <2>4 DEF Conclude, tables, Holding
    <3>2. \A u \in tx'[s] : \E t \in tx[s] : u.request.wallet = t.request.wallet
      BY <2>4, ConcludeKeepsRequest DEF TypeInv
    <3> QED
      BY <2>1, <3>1, <3>2, LockedStepKeepsLocks
  <2> QED
    BY <1>2, <2>2, <2>3, <2>4, LockIsGranted, ReloadKeepsLocks, CommitKeepsLocks DEF Settling
<1>3. CASE UNCHANGED vars
  BY <1>3 DEF vars, LockInv, LoadedWalletIsCurrent
<1> QED
  BY <1>1, <1>2, <1>3 DEF Next, Sessions

\* In every reachable state, sessions under a row lock have different wallets.
THEOREM LocksHold == Spec => []LockInv
<1>1. ASSUME Init PROVE LockInv
  <2>1. \A s \in Sessions : tx[s] = {}
    BY <1>1 DEF Init
  <2> QED
    BY <2>1 DEF LockInv, LoadedWalletIsCurrent
<1>2. TypeInv /\ SessionInv /\ IndexInv /\ LockInv /\ [Next]_vars => LockInv'
  BY LockInvHolds
<1> QED
  BY <1>1, <1>2, IndexesHold, PTL DEF Spec

\* A session that holds the lock of a wallet works on the wallet as committed,
\* from its SELECT FOR UPDATE to its end, whatever other sessions commit.
THEOREM CurrentWallet == Spec => []LoadedWalletIsCurrent
<1>1. LockInv => LoadedWalletIsCurrent
  BY DEF LockInv
<1> QED
  BY <1>1, LocksHold, PTL

-----------------------------------------------------------------------------
(* What the row lock is for: the ledger explains the balance, and events are
   numbered in the order they commit. *)

SessionStep(s) ==
  \/ s \in Callers /\ \E r \in Requests : Receive(s, r)
  \/ s \in Workers /\ \E t \in ops : Lease(s, t)
  \/ GetForUpdate(s) \/ WalletNotFound(s)
  \/ Settling(s) \/ Rollback(s) \/ Return(s)

\* A step is a session's, opens a wallet, or changes nothing.
LEMMA StepsAre ==
  ASSUME [Next]_vars
  PROVE  \/ \E s \in Sessions : SessionStep(s)
         \/ \E w \in Wallets, b \in OpeningBalances : OpenWallet(w, b)
         \/ UNCHANGED vars
BY DEF Next, SessionStep, Sessions

\* A step of one session leaves the entry and the events of the others alone.
LEMMA OthersKeep ==
  ASSUME TypeInv, NEW s \in Sessions, SessionStep(s)
  PROVE  \A z \in Sessions \ {s} :
           /\ pc'[z] = pc[z] /\ tx'[z] = tx[z] /\ loaded'[z] = loaded[z]
           /\ entry'[z] = entry[z] /\ events'[z] = events[z]
<1>1. \A z \in Sessions \ {s} :
        pc'[z] = pc[z] /\ tx'[z] = tx[z] /\ loaded'[z] = loaded[z]
  BY OthersStay DEF SessionStep
<1>2. \A z \in Sessions \ {s} : entry'[z] = entry[z] /\ events'[z] = events[z]
  <2> USE DEF EndSession, Goto, TypeInv
  <2>1. CASE \/ \E r \in Requests : Receive(s, r)
             \/ \E t \in ops : Lease(s, t)
    BY <2>1 DEF Receive, Lease
  <2>2. CASE GetForUpdate(s) \/ WalletNotFound(s) \/ Rollback(s) \/ Return(s)
    BY <2>2 DEF GetForUpdate, WalletNotFound, Rollback, Return
  <2>3. CASE FindReplay(s) \/ Reload(s) \/ FindReference(s)
    BY <2>3 DEF FindReplay, Reload, FindReference
  <2>4. CASE Conclude(s)
    <3>1. events' = events
      BY <2>4 DEF Conclude
    <3>2. (\E t, refusal, direction : Settle(s, t, refusal, direction)) \/ entry' = entry
      BY <2>4 DEF Conclude
    <3>3. ASSUME NEW t, NEW refusal, NEW direction, Settle(s, t, refusal, direction)
          PROVE  entry' = entry \/ \E changed : entry' = [entry EXCEPT ![s] = changed]
      BY <3>3 DEF Settle
    <3> QED
      BY <3>1, <3>2, <3>3
  <2>5. CASE Save(s) \/ Write(s)
    BY <2>5 DEF Save, Create, UpdatePendingReference, Write
  <2>6. CASE Commit(s)
    BY <2>6 DEF Commit
  <2> QED
    BY <2>1, <2>2, <2>3, <2>4, <2>5, <2>6 DEF SessionStep, Settling
<1> QED
  BY <1>1, <1>2

-----------------------------------------------------------------------------
(* Events are numbered in the order they commit *)

\* Events exist between Write and the end of the transaction, and belong to the
\* wallet the session locked.
EventInv ==
  /\ \A s \in Sessions : events[s] # {} => pc[s] = "Commit"
  /\ \A s \in Sessions : \A e \in events[s] :
       \E t \in tx[s] : e.wallet = t.request.wallet
  /\ OutboxFollowsCommitOrder

\* The events of two sessions are of different wallets: each holds the lock of its
\* own.
LEMMA EventsOfOthers ==
  ASSUME SessionInv, LockInv, EventInv,
         NEW s \in Sessions, NEW t \in tx[s], pc[s] = "Commit" \/ pc[s] = "Write",
         NEW z \in Sessions \ {s}, NEW f \in events[z]
  PROVE  f.wallet # t.request.wallet
<1>1. PICK u \in tx[z] : f.wallet = u.request.wallet
  BY DEF EventInv
<1>2. pc[s] \in Holding /\ pc[z] \in Holding
  BY DEF EventInv, Holding
<1> QED
  BY <1>1, <1>2 DEF LockInv

\* A number drawn at insert is beyond those of all events of the wallet.
LEMMA NumbersGrow ==
  ASSUME TypeInv, NEW w \in Wallets, NEW last \in LastSequence(w),
         NEW op, NEW type, NEW moved, NEW version,
         NEW e \in NewEvents(last, w, op, type, moved, version)
  PROVE  /\ e.wallet = w
         /\ \A f \in outbox : f.wallet = w => f.seq < e.seq
<1>1. last \in Nat
  BY LastSequenceIsNat
<1>2. e.wallet = w /\ (e.seq = last + 1 \/ e.seq = last + 2)
  BY DEF NewEvents, NewEvent
<1>3. ASSUME NEW f \in outbox, f.wallet = w
      PROVE  f.seq < e.seq
  <2>1. f.seq \in Drawn(w)
    BY <1>3 DEF Drawn
  <2>2. f.seq <= last
    BY <2>1 DEF LastSequence
  <2>3. f.seq \in Nat
    BY DEF TypeInv, Event
  <2> QED
    BY <1>1, <1>2, <2>2, <2>3
<1> QED
  BY <1>2, <1>3

\* A step of a session that ends with its events gone, or has none.
LEMMA EventsUndone ==
  ASSUME EventInv, NEW s \in Sessions, outbox' = outbox, events'[s] = {},
         \A z \in Sessions \ {s} :
           pc'[z] = pc[z] /\ tx'[z] = tx[z] /\ events'[z] = events[z]
  PROVE  EventInv'
BY DEF EventInv, OutboxFollowsCommitOrder

\* Events drawn under the lock come after all of the wallet.
LEMMA WriteNumbersEvents ==
  ASSUME TypeInv, SessionInv, LockInv, EventInv, NEW s \in Sessions, Write(s)
  PROVE  EventInv'
<1>1. PICK t \in tx[s] : \E last \in LastSequence(t.request.wallet) :
        events' = [events EXCEPT ![s] =
                     NewEvents(last, t.request.wallet, NameOf(t.request),
                               OutcomeEvent(t), entry[s], loaded[s].version + 1)]
  BY DEF Write
<1>2. PICK last \in LastSequence(t.request.wallet) :
        events' = [events EXCEPT ![s] =
                     NewEvents(last, t.request.wallet, NameOf(t.request),
                               OutcomeEvent(t), entry[s], loaded[s].version + 1)]
  BY <1>1
<1>3. t.request.wallet \in Wallets
  BY RequestsAssumption DEF TypeInv, Counted, Row
<1>4. pc[s] = "Write" /\ pc'[s] = "Commit" /\ outbox' = outbox /\ tx' = tx
  BY DEF Write, Goto, TypeInv
<1>5. \A z \in Sessions \ {s} : pc'[z] = pc[z] /\ events'[z] = events[z]
  BY OthersKeep DEF SessionStep, Settling
<1>6. ASSUME NEW e \in events'[s]
      PROVE  e.wallet = t.request.wallet
             /\ \A f \in outbox : f.wallet = e.wallet => f.seq < e.seq
  <2>1. e \in NewEvents(last, t.request.wallet, NameOf(t.request),
                        OutcomeEvent(t), entry[s], loaded[s].version + 1)
    BY <1>2, <1>6 DEF TypeInv
  <2> QED
    BY <1>2, <1>3, <2>1, NumbersGrow
<1>7. ASSUME NEW z \in Sessions \ {s}, NEW f \in events[z]
      PROVE  f.wallet # t.request.wallet
  BY <1>4, <1>7, EventsOfOthers
<1>8. OutboxFollowsCommitOrder'
  <2> SUFFICES ASSUME NEW y \in Sessions, NEW e \in events'[y]
               PROVE  /\ \A f \in outbox : f.wallet = e.wallet => f.seq < e.seq
                      /\ \A z \in Sessions \ {y} : \A f \in events'[z] :
                           f.wallet # e.wallet
    BY <1>4 DEF OutboxFollowsCommitOrder
  <2>1. CASE y = s
    BY <1>5, <1>6, <1>7, <2>1
  <2>2. CASE y # s
    <3>1. e \in events[y]
      BY <1>5, <2>2
    <3>2. ASSUME NEW z \in Sessions \ {y}, NEW f \in events'[z]
          PROVE  f.wallet # e.wallet
      <4>1. CASE z = s
        BY <1>6, <1>7, <2>2, <3>1, <3>2, <4>1
      <4>2. CASE z # s
        BY <1>5, <3>1, <3>2, <4>2 DEF EventInv, OutboxFollowsCommitOrder
      <4> QED
        BY <4>1, <4>2
    <3> QED
      BY <3>1, <3>2 DEF EventInv, OutboxFollowsCommitOrder
  <2> QED
    BY <2>1, <2>2
<1>9. \A z \in Sessions : \A e \in events'[z] : \E u \in tx[z] : e.wallet = u.request.wallet
  BY <1>5, <1>6 DEF EventInv
<1>10. \A z \in Sessions : events'[z] # {} => pc'[z] = "Commit"
  BY <1>4, <1>5 DEF EventInv
<1> QED
  BY <1>4, <1>8, <1>9, <1>10 DEF EventInv

\* Committed events are of a wallet in which no other session has any.
LEMMA CommitPublishesInOrder ==
  ASSUME TypeInv, EventInv, NEW s \in Sessions, Commit(s)
  PROVE  EventInv'
<1>1. outbox' = outbox \cup events[s] /\ events'[s] = {}
  BY DEF Commit, EndSession, TypeInv
<1>2. \A z \in Sessions \ {s} :
        pc'[z] = pc[z] /\ tx'[z] = tx[z] /\ events'[z] = events[z]
  BY OthersKeep DEF SessionStep, Settling
<1>3. ASSUME NEW z \in Sessions \ {s}, NEW e \in events[z], NEW f \in outbox',
             f.wallet = e.wallet
      PROVE  f.seq < e.seq
  BY <1>1, <1>3 DEF EventInv, OutboxFollowsCommitOrder
<1>4. OutboxFollowsCommitOrder'
  <2> SUFFICES ASSUME NEW y \in Sessions, NEW e \in events'[y]
               PROVE  /\ \A f \in outbox' : f.wallet = e.wallet => f.seq < e.seq
                      /\ \A z \in Sessions \ {y} : \A f \in events'[z] :
                           f.wallet # e.wallet
    BY DEF OutboxFollowsCommitOrder
  <2>1. y # s /\ e \in events[y]
    BY <1>1, <1>2
  <2>2. \A z \in Sessions : \A f \in events'[z] : f \in events[z]
    BY <1>1, <1>2
  <2> QED
    BY <1>3, <2>1, <2>2 DEF EventInv, OutboxFollowsCommitOrder
<1> QED
  BY <1>1, <1>2, <1>4 DEF EventInv

\* The numbers stay in order in every step.
LEMMA EventInvHolds ==
  ASSUME TypeInv, SessionInv, LockInv, EventInv, [Next]_vars
  PROVE  EventInv'
<1>1. ASSUME NEW w \in Wallets, NEW b \in OpeningBalances, OpenWallet(w, b)
      PROVE  EventInv'
  <2>1. ~wallets[w].open /\ UNCHANGED <<pc, tx, events>>
    BY <1>1 DEF OpenWallet, session
  <2>2. ASSUME NEW f \in outbox', f \notin outbox
        PROVE  f.wallet = w
    <3>1. PICK last, credit :
            outbox' = outbox \cup NewEvents(last, w, OpeningName(w),
                                            "WagerTransactionProcessed", {credit}, 1)
      BY <1>1, <2>2 DEF OpenWallet
    <3>2. f \in NewEvents(last, w, OpeningName(w), "WagerTransactionProcessed", {credit}, 1)
      BY <2>2, <3>1
    <3> QED
      BY <3>2 DEF NewEvents, NewEvent
  <2>3. ASSUME NEW s \in Sessions, NEW e \in events[s]
        PROVE  e.wallet # w
    <3>1. PICK t \in tx[s] : e.wallet = t.request.wallet
      BY <2>3 DEF EventInv
    <3>2. pc[s] \in Holding
      BY <2>3 DEF EventInv, Holding
    <3> QED
      BY <2>1, <3>1, <3>2 DEF LockInv
  <2>4. OutboxFollowsCommitOrder'
    BY <2>1, <2>2, <2>3 DEF EventInv, OutboxFollowsCommitOrder
  <2> QED
    BY <2>1, <2>4 DEF EventInv
<1>2. ASSUME NEW s \in Sessions, SessionStep(s)
      PROVE  EventInv'
  <2>1. \A z \in Sessions \ {s} :
          pc'[z] = pc[z] /\ tx'[z] = tx[z] /\ events'[z] = events[z]
    BY <1>2, OthersKeep
  <2>2. CASE Write(s)
    BY <2>2, WriteNumbersEvents
  <2>3. CASE Commit(s)
    BY <2>3, CommitPublishesInOrder
  <2>4. CASE ~Write(s) /\ ~Commit(s)
    <3>1. outbox' = outbox /\ (events'[s] = {} \/ (events'[s] = events[s] /\ pc[s] # "Commit"))
      <4> USE DEF EndSession, Goto, tables, TypeInv
      <4>1. CASE \/ \E r \in Requests : Receive(s, r)
                 \/ \E t \in ops : Lease(s, t)
                 \/ GetForUpdate(s) \/ Return(s)
        BY <4>1 DEF Receive, Lease, GetForUpdate, Return
      <4>2. CASE WalletNotFound(s) \/ Rollback(s)
        BY <4>2 DEF WalletNotFound, Rollback
      <4>3. CASE FindReplay(s) \/ Reload(s) \/ FindReference(s) \/ Conclude(s)
        BY <4>3 DEF FindReplay, Reload, FindReference, Conclude
      <4>4. CASE Save(s)
        BY <4>4 DEF Save, Create, UpdatePendingReference
      <4> QED
        BY <1>2, <2>4, <4>1, <4>2, <4>3, <4>4 DEF SessionStep, Settling
    <3>2. events'[s] = {}
      BY <3>1 DEF EventInv
    <3> QED
      BY <2>1, <3>1, <3>2, EventsUndone
  <2> QED
    BY <2>2, <2>3, <2>4
<1>3. CASE UNCHANGED vars
  BY <1>3 DEF vars, EventInv, OutboxFollowsCommitOrder
<1> QED
  BY <1>1, <1>2, <1>3, StepsAre

\* No event of a wallet ever appears behind one already committed, whatever
\* sessions overlap: a publisher that takes the oldest event skips none
\* (outbox_events.sequence under the row lock of the wallet).
THEOREM CommitsInSequence == Spec => []OutboxFollowsCommitOrder
<1>1. ASSUME Init PROVE EventInv
  <2>1. \A s \in Sessions : events[s] = {}
    BY <1>1 DEF Init
  <2> QED
    BY <2>1 DEF EventInv, OutboxFollowsCommitOrder
<1>2. TypeInv /\ SessionInv /\ LockInv /\ EventInv /\ [Next]_vars => EventInv'
  BY EventInvHolds
<1>3. EventInv => OutboxFollowsCommitOrder
  BY DEF EventInv
<1> QED
  BY <1>1, <1>2, <1>3, IndexesHold, LocksHold, PTL DEF Spec

-----------------------------------------------------------------------------
(* The ledger explains the balance *)

\* LedgerExplainsBalance of one wallet, its entries l and its row.
Explains(w, l, row) ==
  /\ \A i \in 1..Len(l) :
       /\ l[i].before = (IF i = 1 THEN 0 ELSE l[i - 1].after)
       /\ l[i].after = BalanceAfter(l[i].direction, l[i].before, l[i].amount)
  /\ row.balance = (IF l = << >> THEN 0 ELSE l[Len(l)].after)
  /\ row.open => row.version =
       Len(l) + (IF l # << >> /\ l[1].op = OpeningName(w) THEN 0 ELSE 1)
  /\ ~row.open => l = << >>

\* LedgerExplainsBalance, wallet by wallet.
LEMMA ExplainsEachWallet ==
  LedgerExplainsBalance <=> \A w \in Wallets : Explains(w, ledger[w], wallets[w])
BY DEF LedgerExplainsBalance, ChainedUpTo, HasOpening, Explains

\* The same of the next state.
LEMMA EachWalletExplains ==
  ASSUME \A w \in Wallets : Explains(w, ledger'[w], wallets'[w])
  PROVE  LedgerExplainsBalance'
<1> SUFFICES ASSUME NEW w \in Wallets
             PROVE  /\ \A i \in 1..Len(ledger'[w]) : ChainedUpTo(w, i)'
                    /\ wallets'[w].balance =
                         (IF ledger'[w] = << >> THEN 0 ELSE ledger'[w][Len(ledger'[w])].after)
                    /\ wallets'[w].open => wallets'[w].version =
                         Len(ledger'[w]) + (IF HasOpening(w)' THEN 0 ELSE 1)
                    /\ ~wallets'[w].open => ledger'[w] = << >>
  BY DEF LedgerExplainsBalance
<1>1. Explains(w, ledger'[w], wallets'[w])
  OBVIOUS
<1> QED
  BY <1>1 DEF Explains, ChainedUpTo, HasOpening

\* Steps that touch neither change nothing.
LEMMA SameLedgerExplains ==
  ASSUME LedgerExplainsBalance, UNCHANGED <<wallets, ledger>>
  PROVE  LedgerExplainsBalance'
<1>1. \A w \in Wallets : Explains(w, ledger'[w], wallets'[w])
  BY ExplainsEachWallet
<1> QED
  BY <1>1, EachWalletExplains

\* Wallet.move and the entry it returns keep the account straight.
LEMMA EntryExtendsLedger ==
  ASSUME NEW w, NEW l \in Seq(Entry), NEW row \in WalletRow, NEW e \in Entry,
         Explains(w, l, row), row.open,
         e.op # OpeningName(w),
         e.before = row.balance,
         e.after = BalanceAfter(e.direction, e.before, e.amount)
  PROVE  Explains(w, Append(l, e), Moved(row, e))
<1> DEFINE m == Append(l, e)
           n == Len(l)
           r == Moved(row, e)
<1>1. /\ n \in Nat
      /\ m \in Seq(Entry)
      /\ Len(m) = n + 1
      /\ m[n + 1] = e
      /\ \A i \in 1..n : m[i] = l[i]
      /\ m # << >>
      /\ l = << >> <=> n = 0
  OBVIOUS
<1>2. r.balance = e.after /\ r.version = row.version + 1 /\ r.open
  BY DEF Moved, WalletRow
<1>3. ASSUME NEW i \in 1..n + 1
      PROVE  /\ m[i].before = (IF i = 1 THEN 0 ELSE m[i - 1].after)
             /\ m[i].after = BalanceAfter(m[i].direction, m[i].before, m[i].amount)
  <2>1. CASE i \in 1..n
    <3>1. m[i] = l[i] /\ (i # 1 => m[i - 1] = l[i - 1])
      BY <1>1, <2>1
    <3> HIDE DEF m, n
    <3> QED
      BY <2>1, <3>1 DEF Explains, n
  <2>2. CASE i = n + 1
    <3>1. row.balance = (IF l = << >> THEN 0 ELSE l[n].after)
      BY DEF Explains
    <3>2. n # 0 => m[n] = l[n]
      BY <1>1
    <3>3. m[i] = e /\ (i = 1 <=> n = 0) /\ i - 1 = n
      BY <1>1, <2>2
    <3> HIDE DEF m, n
    <3> QED
      BY <1>1, <3>1, <3>2, <3>3
  <2> QED
    BY <1>1, <1>3, <2>1, <2>2
<1>4. r.version = Len(m) + (IF m[1].op = OpeningName(w) THEN 0 ELSE 1)
  <2>1. row.version = n + (IF l # << >> /\ l[1].op = OpeningName(w) THEN 0 ELSE 1)
    BY DEF Explains
  <2>2. n = 0 => m[1] = e
    BY <1>1
  <2>3. n # 0 => m[1] = l[1]
    BY <1>1
  <2> HIDE DEF m, n, r
  <2>4. CASE n = 0
    BY <1>1, <1>2, <2>1, <2>2, <2>4
  <2>5. CASE n # 0
    BY <1>1, <1>2, <2>1, <2>3, <2>5
  <2> QED
    BY <2>4, <2>5
<1> HIDE DEF m, n, r
<1>5. Explains(w, m, r)
  BY <1>1, <1>2, <1>3, <1>4 DEF Explains
<1> QED
  BY <1>5 DEF m, r

\* An entry not yet committed is the session's own, and starts from the balance
\* the session read.
EntryInv ==
  \A s \in Sessions : \A e \in entry[s] :
    /\ pc[s] \in {"Save", "Write", "Commit"}
    /\ \A t \in tx[s] : e.op = NameOf(t.request)
    /\ e.before = loaded[s].balance
    /\ e.after = BalanceAfter(e.direction, e.before, e.amount)

\* A step of a session that leaves it without an entry.
LEMMA EntryUndone ==
  ASSUME EntryInv, NEW s \in Sessions, entry'[s] = {},
         \A z \in Sessions \ {s} :
           /\ pc'[z] = pc[z] /\ tx'[z] = tx[z] /\ loaded'[z] = loaded[z]
           /\ entry'[z] = entry[z]
  PROVE  EntryInv'
BY DEF EntryInv

\* What conclude hands to record.
LEMMA ConcludeMakesEntry ==
  ASSUME TypeInv, SessionInv, EntryInv, NEW s \in Sessions, Conclude(s),
         NEW e \in entry'[s]
  PROVE  /\ \A t \in tx'[s] : e.op = NameOf(t.request)
         /\ e.before = loaded[s].balance
         /\ e.after = BalanceAfter(e.direction, e.before, e.amount)
<1>1. entry[s] = {}
  BY DEF EntryInv, Conclude
<1>2. PICK t \in tx[s] : \E v, refusal, direction :
        /\ v = t \/ \E agrees \in BOOLEAN : v = [t EXCEPT !.resolved = agrees]
        /\ Settle(s, v, refusal, direction)
  <2>1. PICK t \in tx[s] :
          \/ UNCHANGED entry
          \/ \E refusal, direction : Settle(s, t, refusal, direction)
          \/ \E refusal, direction : \E agrees \in BOOLEAN :
               Settle(s, [t EXCEPT !.resolved = agrees], refusal, direction)
    BY DEF Conclude
  <2> QED
    BY <1>1, <2>1
<1>3. PICK v, refusal, direction :
        /\ v = t \/ \E agrees \in BOOLEAN : v = [t EXCEPT !.resolved = agrees]
        /\ Settle(s, v, refusal, direction)
  BY <1>2
<1>4. v.request = t.request
  <2>1. t \in Row
    BY DEF TypeInv, Counted
  <2> QED
    BY <1>3, <2>1 DEF Row
<1>5. entry' = [entry EXCEPT ![s] = {NewEntry(v, direction, loaded[s].balance)}]
  BY <1>1, <1>3 DEF Settle
<1>6. e = NewEntry(v, direction, loaded[s].balance)
  BY <1>5 DEF TypeInv
<1>7. \A u \in tx'[s] : u.request = t.request
  <2>1. PICK x \in tx[s], y \in Counted :
          tx' = [tx EXCEPT ![s] = {y}] /\ y.request = x.request
    BY ConcludeKeepsRequest
  <2>2. tx'[s] = {y}
    BY <2>1 DEF TypeInv
  <2>3. x = t
    BY <1>2, <2>1 DEF SessionInv
  <2> QED
    BY <2>1, <2>2, <2>3
<1> QED
  BY <1>4, <1>6, <1>7 DEF NewEntry

\* An entry stays what conclude made it until the session ends.
LEMMA EntryInvHolds ==
  ASSUME TypeInv, SessionInv, EntryInv, [Next]_vars
  PROVE  EntryInv'
<1>1. ASSUME NEW w \in Wallets, NEW b \in OpeningBalances, OpenWallet(w, b)
      PROVE  EntryInv'
  BY <1>1 DEF OpenWallet, session, EntryInv
<1>2. ASSUME NEW s \in Sessions, SessionStep(s)
      PROVE  EntryInv'
  <2>1. \A z \in Sessions \ {s} :
          /\ pc'[z] = pc[z] /\ tx'[z] = tx[z] /\ loaded'[z] = loaded[z]
          /\ entry'[z] = entry[z]
    BY <1>2, OthersKeep
  <2> USE DEF EndSession, Goto
  <2>2. CASE \/ \E r \in Requests : Receive(s, r)
             \/ \E t \in ops : Lease(s, t)
             \/ GetForUpdate(s) \/ Return(s)
    <3>1. entry'[s] = {}
      BY <2>2 DEF Receive, Lease, GetForUpdate, Return, EntryInv
    <3> QED
      BY <2>1, <3>1, EntryUndone
  <2>3. CASE WalletNotFound(s) \/ Rollback(s) \/ Commit(s)
    <3>1. entry'[s] = {}
      BY <2>3 DEF WalletNotFound, Rollback, Commit, TypeInv
    <3> QED
      BY <2>1, <3>1, EntryUndone
  <2>4. CASE FindReplay(s) \/ Reload(s) \/ FindReference(s)
    <3>1. entry'[s] = {}
      BY <2>4 DEF FindReplay, Reload, FindReference, EntryInv, TypeInv
    <3> QED
      BY <2>1, <3>1, EntryUndone
  <2>5. CASE Conclude(s)
    <3>1. pc'[s] = "Save" /\ loaded' = loaded
      BY <2>5 DEF Conclude, TypeInv
    <3>2. \A e \in entry'[s] :
            /\ \A t \in tx'[s] : e.op = NameOf(t.request)
            /\ e.before = loaded[s].balance
            /\ e.after = BalanceAfter(e.direction, e.before, e.amount)
      BY <2>5, ConcludeMakesEntry
    <3> QED
      BY <2>1, <3>1, <3>2 DEF EntryInv
  <2>6. CASE Save(s)
    <3>1. \/ entry'[s] = {}
          \/ /\ entry'[s] = entry[s] /\ tx' = tx /\ loaded' = loaded
             /\ pc'[s] \in {"Write", "Commit"}
      BY <2>6 DEF Save, Create, UpdatePendingReference, TypeInv
    <3> QED
      BY <2>1, <3>1, EntryUndone DEF EntryInv
  <2>7. CASE Write(s)
    <3>1. /\ entry' = entry /\ tx' = tx /\ loaded' = loaded
          /\ pc'[s] = "Commit"
      BY <2>7 DEF Write, TypeInv
    <3> QED
      BY <2>1, <3>1 DEF EntryInv
  <2> QED
    BY <1>2, <2>2, <2>3, <2>4, <2>5, <2>6, <2>7 DEF SessionStep, Settling
<1>3. CASE UNCHANGED vars
  BY <1>3 DEF vars, EntryInv
<1> QED
  BY <1>1, <1>2, <1>3, StepsAre

\* A commit extends the ledger from the balance as committed.
LEMMA CommitExplains ==
  ASSUME TypeInv, LockInv, EntryInv, LedgerExplainsBalance, NEW s \in Sessions, Commit(s)
  PROVE  LedgerExplainsBalance'
<1>1. PICK t \in tx[s] :
        \/ UNCHANGED <<wallets, ledger>>
        \/ \E e \in entry[s] :
             /\ wallets' = [wallets EXCEPT ![t.request.wallet] = Moved(loaded[s], e)]
             /\ ledger' = [ledger EXCEPT ![t.request.wallet] = Append(@, e)]
  BY DEF Commit
<1> DEFINE w == t.request.wallet
<1>2. w \in Wallets /\ t.request \in Requests
  BY RequestsAssumption DEF TypeInv, Counted, Row
<1>3. pc[s] \in Holding
  BY DEF Commit, Holding
<1>4. loaded[s] = wallets[w] /\ wallets[w].open
  BY <1>3 DEF LockInv, LoadedWalletIsCurrent
<1>5. ASSUME NEW e \in entry[s],
             wallets' = [wallets EXCEPT ![w] = Moved(loaded[s], e)],
             ledger' = [ledger EXCEPT ![w] = Append(@, e)]
      PROVE  LedgerExplainsBalance'
  <2>1. e \in Entry /\ ledger[w] \in Seq(Entry) /\ wallets[w] \in WalletRow
    BY <1>2 DEF TypeInv
  <2>2. e.op # OpeningName(w)
    BY <1>2, NamesAssumption DEF EntryInv
  <2>3. /\ e.before = wallets[w].balance
        /\ e.after = BalanceAfter(e.direction, e.before, e.amount)
    BY <1>4 DEF EntryInv
  <2>4. \A v \in Wallets : Explains(v, ledger[v], wallets[v])
    BY ExplainsEachWallet
  <2>5. Explains(w, Append(ledger[w], e), Moved(wallets[w], e))
    BY <1>2, <1>4, <2>1, <2>2, <2>3, <2>4, EntryExtendsLedger
  <2>6. /\ wallets'[w] = Moved(wallets[w], e)
        /\ ledger'[w] = Append(ledger[w], e)
        /\ \A v \in Wallets \ {w} : wallets'[v] = wallets[v] /\ ledger'[v] = ledger[v]
    BY <1>2, <1>4, <1>5 DEF TypeInv
  <2>7. \A v \in Wallets : Explains(v, ledger'[v], wallets'[v])
    BY <2>4, <2>5, <2>6
  <2> QED
    BY <2>7, EachWalletExplains
<1>6. CASE UNCHANGED <<wallets, ledger>>
  BY <1>6, SameLedgerExplains
<1> QED
  BY <1>1, <1>5, <1>6

\* An opening starts a ledger that was empty.
LEMMA OpenWalletExplains ==
  ASSUME TypeInv, LedgerExplainsBalance,
         NEW w \in Wallets, NEW b \in OpeningBalances, OpenWallet(w, b)
  PROVE  LedgerExplainsBalance'
<1> DEFINE credit == [op |-> OpeningName(w), direction |-> "CREDIT",
                      amount |-> b, before |-> 0, after |-> b]
           row == [open |-> TRUE, balance |-> b, version |-> 1]
<1>1. b \in Nat
  BY OpeningAssumption, BoundsAssumption
<1>2. \A v \in Wallets : Explains(v, ledger[v], wallets[v])
  BY ExplainsEachWallet
<1>3. ledger[w] = << >>
  <2>1. ~wallets[w].open
    BY DEF OpenWallet
  <2> QED
    BY <1>2, <2>1 DEF Explains
<1>4. wallets' = [wallets EXCEPT ![w] = row]
  BY DEF OpenWallet
<1>5. Explains(w, ledger'[w], row) /\ \A v \in Wallets \ {w} : ledger'[v] = ledger[v]
  <2>1. CASE b > 0
    <3>1. ledger' = [ledger EXCEPT ![w] = Append(@, credit)]
      BY <2>1 DEF OpenWallet
    <3>2. ledger'[w] = <<credit>>
      BY <1>3, <3>1 DEF TypeInv
    <3>3. Explains(w, <<credit>>, row)
      <4>1. /\ credit.before = 0 /\ credit.after = b /\ credit.amount = b
            /\ credit.direction = "CREDIT" /\ credit.op = OpeningName(w)
            /\ row.balance = b /\ row.version = 1 /\ row.open
        OBVIOUS
      <4>2. credit.after = BalanceAfter(credit.direction, credit.before, credit.amount)
        BY <1>1, <4>1 DEF BalanceAfter
      <4> HIDE DEF credit, row
      <4>3. Len(<<credit>>) = 1 /\ <<credit>>[1] = credit /\ <<credit>> # << >>
        OBVIOUS
      <4> QED
        BY <1>1, <4>1, <4>2, <4>3 DEF Explains
    <3> HIDE DEF credit, row
    <3> QED
      BY <3>1, <3>2, <3>3 DEF TypeInv
  <2>2. CASE ~(b > 0)
    <3>1. ledger' = ledger /\ b = 0
      BY <1>1, <2>2 DEF OpenWallet
    <3>2. row.balance = 0 /\ row.version = 1 /\ row.open
      BY <3>1
    <3>3. Len(ledger[w]) = 0
      BY <1>3
    <3> HIDE DEF row
    <3>4. Explains(w, ledger[w], row)
      BY <1>3, <3>2, <3>3 DEF Explains
    <3> QED
      BY <3>1, <3>4
  <2> QED
    BY <2>1, <2>2
<1>6. wallets'[w] = row /\ \A v \in Wallets \ {w} : wallets'[v] = wallets[v]
  BY <1>4 DEF TypeInv
<1> HIDE DEF credit, row
<1>7. \A v \in Wallets : Explains(v, ledger'[v], wallets'[v])
  BY <1>2, <1>5, <1>6
<1> QED
  BY <1>7, EachWalletExplains

\* The entries of every wallet chain from zero to its balance, and its version
\* counts its movements, whatever sessions, workers and openings interleave and
\* wherever they are cut off (Wallet.Apply under GetForUpdate, and record).
THEOREM LedgerIsExact == Spec => []LedgerExplainsBalance
<1>1. ASSUME Init PROVE EntryInv /\ LedgerExplainsBalance
  BY <1>1 DEF Init, EntryInv, LedgerExplainsBalance, HasOpening, ClosedWallet
<1>2. ASSUME TypeInv, LockInv, EntryInv, LedgerExplainsBalance, [Next]_vars
      PROVE  LedgerExplainsBalance'
  <2>1. CASE UNCHANGED <<wallets, ledger>>
    BY <1>2, <2>1, SameLedgerExplains
  <2>2. \/ \E s \in Sessions : Commit(s)
        \/ \E w \in Wallets, b \in OpeningBalances : OpenWallet(w, b)
        \/ UNCHANGED <<wallets, ledger>>
    BY <1>2 DEF Next, Settling, Receive, Lease, GetForUpdate, WalletNotFound, FindReplay,
                Reload, FindReference, Conclude, Save, Write, Rollback, Return, tables, vars
  <2> QED
    BY <1>2, <2>1, <2>2, CommitExplains, OpenWalletExplains
<1>3. TypeInv /\ SessionInv /\ EntryInv /\ [Next]_vars => EntryInv'
  BY EntryInvHolds
<1>4. TypeInv /\ LockInv /\ EntryInv /\ LedgerExplainsBalance /\ [Next]_vars
        => LedgerExplainsBalance'
  BY <1>2
<1> QED
  BY <1>1, <1>3, <1>4, IndexesHold, LocksHold, PTL DEF Spec

-----------------------------------------------------------------------------
(* Operations only advance *)

CopyInv ==
  /\ \A s \in Sessions : pc[s] = "FindReplay" => s \in Callers
  /\ \A s \in Workers : pc[s] \in {"FindReference", "Conclude"} =>
       \A t \in tx[s] : t \in ops /\ t.state = "PENDING_REFERENCE"
  /\ \A s \in Workers : pc[s] \in {"Save", "Write", "Commit"} =>
       \A t \in tx[s] : \E u \in ops : Advances(u, t)

\* An attempt counts, and the last one concludes.
LEMMA AttemptAdvances ==
  ASSUME NEW t \in Counted, t.state = "PENDING_REFERENCE"
  PROVE  Advances(t, RecordMissingReference(t))
<1> DEFINE counted == [t EXCEPT !.attempts = t.attempts + 1]
           rejected == [counted EXCEPT !.state = "REJECTED",
                                       !.failureCode = "REFERENCE_NOT_FOUND"]
<1>1. RecordMissingReference(t) = counted \/ RecordMissingReference(t) = rejected
  BY DEF RecordMissingReference, MarkRejected
<1>2. t \in Row
  BY DEF Counted
<1>3. counted.request = t.request /\ counted.attempts = t.attempts + 1
  BY <1>2 DEF Row
<1>4. DOMAIN counted = DOMAIN t /\ {"request", "attempts", "state"} \subseteq DOMAIN t
  BY <1>2 DEF Row
<1>5. /\ rejected.request = t.request
      /\ rejected.attempts = t.attempts + 1
      /\ rejected.state = "REJECTED"
  <2> HIDE DEF counted
  <2> QED
    BY <1>3, <1>4
<1>6. Advances(t, counted)
  BY <1>3 DEF Advances
<1>7. Advances(t, rejected)
  <2> HIDE DEF rejected
  <2> QED
    BY <1>5 DEF Advances, IsTerminal
<1> QED
  BY <1>1, <1>6, <1>7

\* A worker's conclude takes the row it read one step further.
LEMMA ConcludeAdvances ==
  ASSUME TypeInv, CopyInv, NEW s \in Workers, Conclude(s)
  PROVE  \A u \in tx'[s] : \E t \in ops : Advances(t, u)
<1>1. PICK t \in tx[s] :
        \/ Wait(s, t)
        \/ \E refusal, direction : Settle(s, t, refusal, direction)
        \/ \E refusal, direction : \E agrees \in BOOLEAN :
             Settle(s, [t EXCEPT !.resolved = agrees], refusal, direction)
  BY DEF Conclude
<1>2. t \in ops /\ t.state = "PENDING_REFERENCE" /\ t \in Counted /\ t \in Row
  BY DEF Conclude, CopyInv, TypeInv, Counted
<1>3. s \notin Callers /\ s \in Sessions
  BY SessionsAssumption DEF Sessions
<1>4. CASE Wait(s, t)
  <2>1. tx' = [tx EXCEPT ![s] = {RecordMissingReference(t)}]
    BY <1>3, <1>4 DEF Wait
  <2>2. tx'[s] = {RecordMissingReference(t)}
    BY <1>3, <2>1 DEF TypeInv
  <2> QED
    BY <1>2, <2>2, AttemptAdvances
<1>5. ASSUME NEW v \in Row, v.request = t.request, v.attempts = t.attempts,
             NEW refusal, NEW direction, Settle(s, v, refusal, direction)
      PROVE  \A u \in tx'[s] : \E x \in ops : Advances(x, u)
  <2>1. \/ \E code : tx' = [tx EXCEPT ![s] = {MarkRejected(v, code)}]
        \/ \E balance : tx' = [tx EXCEPT ![s] = {MarkProcessed(v, balance)}]
    BY <1>5 DEF Settle
  <2>2. \/ \E code : tx'[s] = {MarkRejected(v, code)}
        \/ \E balance : tx'[s] = {MarkProcessed(v, balance)}
    BY <1>3, <2>1 DEF TypeInv
  <2>3. \A code : /\ MarkRejected(v, code).request = t.request
                  /\ MarkRejected(v, code).attempts = t.attempts
                  /\ MarkRejected(v, code).state = "REJECTED"
    BY <1>5 DEF MarkRejected, Row
  <2>4. \A balance : /\ MarkProcessed(v, balance).request = t.request
                     /\ MarkProcessed(v, balance).attempts = t.attempts
                     /\ MarkProcessed(v, balance).state = "PROCESSED"
    BY <1>5 DEF MarkProcessed, Row
  <2>5. \A u : /\ u.request = t.request /\ u.attempts = t.attempts
               /\ u.state \in {"REJECTED", "PROCESSED"}
               => Advances(t, u)
    BY <1>2 DEF Advances, IsTerminal
  <2>6. \A code : Advances(t, MarkRejected(v, code))
    BY <2>3, <2>5
  <2>7. \A balance : Advances(t, MarkProcessed(v, balance))
    BY <2>4, <2>5
  <2> QED
    BY <1>2, <2>2, <2>6, <2>7
<1>6. \A agrees \in BOOLEAN :
        LET v == [t EXCEPT !.resolved = agrees]
        IN  v \in Row /\ v.request = t.request /\ v.attempts = t.attempts
  BY <1>2 DEF Row
<1> QED
  BY <1>1, <1>2, <1>4, <1>5, <1>6

\* Only the session that holds the lock of a wallet replaces its rows.
LEMMA RowsOfLockedStay ==
  ASSUME TypeInv, SessionInv, IndexInv, LockInv,
         NEW s \in Sessions, Commit(s),
         NEW z \in Sessions \ {s}, pc[z] \in Holding, NEW t \in tx[z],
         NEW u \in ops, u.request.wallet = t.request.wallet
  PROVE  u \in ops'
<1>1. PICK v \in tx[s] :
        /\ ops' = (ops \ RowsNamed(NameOf(v.request))) \cup {v}
        /\ \A x \in RowsNamed(NameOf(v.request)) : x.request = v.request
  BY CommitReplaces
<1>2. v.request.wallet # t.request.wallet
  BY DEF Commit, Holding, LockInv
<1> QED
  BY <1>1, <1>2

\* What a session's own step does to its copy.
LEMMA CopyOfStep ==
  ASSUME TypeInv, CopyInv, NEW s \in Sessions, SessionStep(s)
  PROVE  /\ pc'[s] = "FindReplay" => s \in Callers
         /\ s \in Workers /\ pc'[s] \in {"FindReference", "Conclude"} =>
              ops' = ops /\ \A t \in tx'[s] : t \in ops /\ t.state = "PENDING_REFERENCE"
         /\ s \in Workers /\ pc'[s] \in {"Save", "Write", "Commit"} =>
              ops' = ops /\ \A t \in tx'[s] : \E u \in ops : Advances(u, t)
<1>1. CASE \/ s \in Callers /\ \E r \in Requests : Receive(s, r)
           \/ s \in Workers /\ \E t \in ops : Lease(s, t)
           \/ GetForUpdate(s) \/ Return(s)
  <2>1. /\ pc'[s] \in {"GetForUpdate", "FindReplay", "Reload", "idle"}
        /\ pc'[s] = "FindReplay" => s \in Callers
    BY <1>1 DEF Receive, Lease, GetForUpdate, Return, Goto, TypeInv
  <2> QED
    BY <2>1
<1>2. CASE WalletNotFound(s) \/ Rollback(s) \/ Commit(s)
  <2>1. pc'[s] \in {"answered", "idle"}
    BY <1>2 DEF WalletNotFound, Rollback, Commit, EndSession, TypeInv
  <2> QED
    BY <2>1
<1>3. CASE FindReplay(s)
  <2>1. s \in Callers /\ s \notin Workers
    BY <1>3, SessionsAssumption DEF FindReplay, CopyInv
  <2> QED
    BY <2>1
<1>4. CASE Reload(s)
  <2>1. PICK u \in ops :
          \/ u.state = "PENDING_REFERENCE" /\ tx'[s] = {u} /\ pc'[s] = "FindReference"
          \/ pc'[s] = "idle"
    BY <1>4 DEF Reload, RowsNamed, EndSession, Goto, TypeInv
  <2>2. ops' = ops
    BY <1>4 DEF Reload, tables
  <2> QED
    BY <2>1, <2>2
<1>5. CASE FindReference(s)
  <2>1. /\ pc[s] = "FindReference" /\ pc'[s] = "Conclude"
        /\ tx' = tx /\ ops' = ops
    BY <1>5 DEF FindReference, Goto, tables, TypeInv
  <2> QED
    BY <2>1 DEF CopyInv
<1>6. CASE Conclude(s)
  <2>1. pc'[s] = "Save" /\ ops' = ops
    BY <1>6 DEF Conclude, Goto, tables, TypeInv
  <2> QED
    BY <1>6, <2>1, ConcludeAdvances
<1>7. CASE Save(s) \/ Write(s)
  <2>1. /\ pc[s] \in {"Save", "Write"} /\ tx' = tx /\ ops' = ops
        /\ pc'[s] \in {"conflict", "Write", "Commit"}
    BY <1>7 DEF Save, Create, UpdatePendingReference, Write, EndSession, Goto, tables, TypeInv
  <2> QED
    BY <2>1 DEF CopyInv
<1> QED
  BY <1>1, <1>2, <1>3, <1>4, <1>5, <1>6, <1>7 DEF SessionStep, Settling

\* The rows that copies of other sessions rest on survive a step.
LEMMA RestingRowsStay ==
  ASSUME TypeInv, SessionInv, IndexInv, LockInv, NEW s \in Sessions, SessionStep(s),
         NEW z \in Sessions \ {s}, pc[z] \in Holding, NEW t \in tx[z],
         NEW u \in ops, u.request = t.request
  PROVE  u \in ops'
<1>1. CASE Commit(s)
  BY <1>1, RowsOfLockedStay
<1>2. Commit(s) \/ ops' = ops
  BY DEF SessionStep, Settling, Receive, Lease, GetForUpdate, WalletNotFound, FindReplay,
         Reload, FindReference, Conclude, Save, Write, Rollback, Return, tables
<1> QED
  BY <1>1, <1>2

\* Copies stay in step with the table.
LEMMA CopyInvHolds ==
  ASSUME TypeInv, SessionInv, IndexInv, LockInv, CopyInv, [Next]_vars
  PROVE  CopyInv'
<1>1. ASSUME NEW w \in Wallets, NEW b \in OpeningBalances, OpenWallet(w, b)
      PROVE  CopyInv'
  BY <1>1 DEF OpenWallet, session, CopyInv
<1>2. ASSUME NEW s \in Sessions, SessionStep(s)
      PROVE  CopyInv'
  <2>1. \A z \in Sessions \ {s} : pc'[z] = pc[z] /\ tx'[z] = tx[z]
    BY <1>2, OthersKeep
  <2>2. ASSUME NEW z \in Workers, z # s,
               pc[z] \in {"FindReference", "Conclude"}, NEW t \in tx[z]
        PROVE  t \in ops' /\ t.state = "PENDING_REFERENCE"
    <3>1. t \in ops /\ t.state = "PENDING_REFERENCE" /\ pc[z] \in Holding
      BY <2>2 DEF CopyInv, Holding
    <3>2. t \in ops'
      BY <1>2, <2>2, <3>1, RestingRowsStay DEF Sessions
    <3> QED
      BY <3>1, <3>2
  <2>3. ASSUME NEW z \in Workers, z # s,
               pc[z] \in {"Save", "Write", "Commit"}, NEW t \in tx[z]
        PROVE  \E u \in ops' : Advances(u, t)
    <3>1. PICK u \in ops : Advances(u, t)
      BY <2>3 DEF CopyInv
    <3>2. u.request = t.request /\ pc[z] \in Holding
      BY <2>3, <3>1 DEF Advances, Holding
    <3>3. u \in ops'
      BY <1>2, <2>3, <3>2, RestingRowsStay DEF Sessions
    <3> QED
      BY <3>1, <3>3
  <2>4. /\ pc'[s] = "FindReplay" => s \in Callers
        /\ s \in Workers /\ pc'[s] \in {"FindReference", "Conclude"} =>
             ops' = ops /\ \A t \in tx'[s] : t \in ops /\ t.state = "PENDING_REFERENCE"
        /\ s \in Workers /\ pc'[s] \in {"Save", "Write", "Commit"} =>
             ops' = ops /\ \A t \in tx'[s] : \E u \in ops : Advances(u, t)
    BY <1>2, CopyOfStep
  <2>5. \A z \in Sessions : pc'[z] = "FindReplay" => z \in Callers
    BY <2>1, <2>4 DEF CopyInv
  <2>6. \A z \in Workers : pc'[z] \in {"FindReference", "Conclude"} =>
          \A t \in tx'[z] : t \in ops' /\ t.state = "PENDING_REFERENCE"
    BY <2>1, <2>2, <2>4 DEF Sessions
  <2>7. \A z \in Workers : pc'[z] \in {"Save", "Write", "Commit"} =>
          \A t \in tx'[z] : \E u \in ops' : Advances(u, t)
    BY <2>1, <2>3, <2>4 DEF Sessions
  <2> QED
    BY <2>5, <2>6, <2>7 DEF CopyInv, Advances
<1>3. CASE UNCHANGED vars
  BY <1>3 DEF vars, CopyInv
<1> QED
  BY <1>1, <1>2, <1>3, StepsAre

\* The invariants so far, taken together.
SettledInv ==
  TypeInv /\ SessionInv /\ IndexInv /\ LockInv /\ EntryInv /\ CopyInv

\* All of them hold together.
LEMMA SettledInvHolds == Spec => []SettledInv
<1>1. Init => EntryInv /\ CopyInv
  BY DEF Init, EntryInv, CopyInv, Sessions
<1>2. /\ TypeInv /\ SessionInv /\ IndexInv /\ LockInv /\ EntryInv /\ CopyInv /\ [Next]_vars
      => EntryInv' /\ CopyInv'
  BY EntryInvHolds, CopyInvHolds
<1> QED
  BY <1>1, <1>2, IndexesHold, LocksHold, PTL DEF Spec, SettledInv

\* A worker replaces the row its copy follows from, a caller none.
LEMMA CommitAdvances ==
  ASSUME SettledInv, NEW s \in Sessions, Commit(s), NEW u \in ops
  PROVE  \E v \in ops' : v = u \/ Advances(u, v)
<1> USE DEF SettledInv
<1>1. PICK t \in tx[s] :
        /\ ops' = (ops \ RowsNamed(NameOf(t.request))) \cup {t}
        /\ s \in Callers => RowsNamed(NameOf(t.request)) = {}
  BY CommitReplaces
<1>2. CASE u \notin RowsNamed(NameOf(t.request))
  BY <1>1, <1>2
<1>3. CASE u \in RowsNamed(NameOf(t.request))
  <2>1. s \in Workers
    BY <1>1, <1>3 DEF Sessions
  <2>2. PICK x \in ops : Advances(x, t)
    BY <2>1 DEF CopyInv, Commit
  <2>3. Clashes(u, x)
    BY <1>3, <2>2 DEF RowsNamed, Clashes, Advances
  <2>4. u = x
    BY <2>3 DEF IndexInv
  <2> QED
    BY <1>1, <2>2, <2>4
<1> QED
  BY <1>2, <1>3

\* No other step touches the table.
LEMMA StepAdvances ==
  ASSUME SettledInv, [Next]_vars
  PROVE  \A u \in ops : \E v \in ops' : v = u \/ Advances(u, v)
<1>1. (\E s \in Sessions : Commit(s)) \/ ops' = ops
  BY DEF Next, Settling, Receive, Lease, GetForUpdate, WalletNotFound, FindReplay,
         Reload, FindReference, Conclude, Save, Write, Rollback, Return, OpenWallet,
         tables, vars
<1> QED
  BY <1>1, CommitAdvances

\* A concluded operation stays as it is for ever, and one that waits is concluded
\* or counts one more attempt, however late the worker that retries it is with its
\* lease (UpdatePendingReference after GetByIDForUpdate).
THEOREM OnlyAdvance == Spec => OperationsOnlyAdvance
<1>1. SettledInv /\ [Next]_vars
        => [\A u \in ops : \E v \in ops' : v = u \/ Advances(u, v)]_vars
  BY StepAdvances
<1> QED
  BY <1>1, SettledInvHolds, PTL DEF Spec, OperationsOnlyAdvance

-----------------------------------------------------------------------------
(* Answers are what is recorded *)

\* A session's own step gives an answer it read from the table or put there.
LEMMA AnswerOfStep ==
  ASSUME TypeInv, NEW s \in Sessions, SessionStep(s),
         pc'[s] = "answered", NEW t \in tx'[s]
  PROVE  t \in ops'
<1>1. CASE FindReplay(s)
  BY <1>1 DEF FindReplay, EndSession, Goto, tables, TypeInv
<1>2. CASE Commit(s)
  BY <1>2, SessionsAssumption DEF Commit, EndSession, Sessions, TypeInv
<1>3. CASE \/ s \in Callers /\ \E r \in Requests : Receive(s, r)
           \/ s \in Workers /\ \E u \in ops : Lease(s, u)
           \/ GetForUpdate(s) \/ WalletNotFound(s) \/ Rollback(s) \/ Return(s)
  <2>1. pc'[s] # "answered"
    BY <1>3 DEF Receive, Lease, GetForUpdate, WalletNotFound, Rollback, Return,
                EndSession, Goto, TypeInv
  <2> QED
    BY <2>1
<1>4. CASE Reload(s) \/ FindReference(s) \/ Conclude(s) \/ Save(s) \/ Write(s)
  <2>1. pc'[s] # "answered"
    BY <1>4 DEF Reload, FindReference, Conclude, Save, Create, UpdatePendingReference,
                Write, EndSession, Goto, TypeInv
  <2> QED
    BY <2>1
<1> QED
  BY <1>1, <1>2, <1>3, <1>4 DEF SessionStep, Settling

\* A definitive answer given to a provider is what the database keeps, although
\* it was read before other sessions committed.
THEOREM AnswersAreRecorded == Spec => []AnswerIsRecorded
<1>1. Init => AnswerIsRecorded
  BY DEF Init, AnswerIsRecorded
<1>2. ASSUME SettledInv, AnswerIsRecorded, [Next]_vars
      PROVE  AnswerIsRecorded'
  <2>1. ASSUME NEW u \in ops, IsTerminal(u.state)
        PROVE  u \in ops'
    <3>1. \E v \in ops' : v = u \/ Advances(u, v)
      BY <1>2, StepAdvances
    <3> QED
      BY <2>1, <3>1 DEF Advances, IsTerminal
  <2>2. ASSUME NEW w \in Wallets, NEW b \in OpeningBalances, OpenWallet(w, b)
        PROVE  AnswerIsRecorded'
    BY <1>2, <2>2 DEF OpenWallet, session, AnswerIsRecorded
  <2>3. ASSUME NEW s \in Sessions, SessionStep(s)
        PROVE  AnswerIsRecorded'
    <3>1. \A z \in Sessions \ {s} : pc'[z] = pc[z] /\ tx'[z] = tx[z]
      BY <1>2, <2>3, OthersKeep DEF SettledInv
    <3>2. pc'[s] = "answered" => \A t \in tx'[s] : t \in ops'
      BY <1>2, <2>3, AnswerOfStep DEF SettledInv
    <3> QED
      BY <1>2, <2>1, <3>1, <3>2 DEF AnswerIsRecorded
  <2>4. CASE UNCHANGED vars
    BY <1>2, <2>4 DEF vars, AnswerIsRecorded
  <2> QED
    BY <1>2, <2>2, <2>3, <2>4, StepsAre
<1>3. SettledInv /\ AnswerIsRecorded /\ [Next]_vars => AnswerIsRecorded'
  BY <1>2
<1> QED
  BY <1>1, <1>3, SettledInvHolds, PTL DEF Spec

-----------------------------------------------------------------------------
(* Money moves once *)

\* Between conclude and commit, the entry is that of the outcome: there is one
\* exactly when the operation is PROCESSED and its kind moves money.
Accounts(t, made) ==
  /\ made # {} <=> t.state = "PROCESSED" /\ t.request.kind # "LOSS"
  /\ \A e \in made : /\ e.op = NameOf(t.request)
                     /\ e.amount = t.request.amount
                     /\ e.after = t.resultBalance

OutcomeInv ==
  \A s \in Sessions : pc[s] \in {"Save", "Write", "Commit"} =>
    \A t \in tx[s] : Accounts(t, entry[s])

\* What conclude hands to record is the outcome with its entry.
LEMMA SettleAccounts ==
  ASSUME TypeInv, NEW s \in Sessions, entry[s] = {}, NEW t \in Row,
         NEW refusal, NEW direction, Settle(s, t, refusal, direction)
  PROVE  \A u \in tx'[s] : Accounts(u, entry'[s])
<1> DEFINE balance == loaded[s].balance
           e == NewEntry(t, direction, balance)
<1>1. CASE tx' = [tx EXCEPT ![s] = {MarkRejected(t, refusal)}] /\ UNCHANGED entry
  <2>1. tx'[s] = {MarkRejected(t, refusal)} /\ entry'[s] = {}
    BY <1>1 DEF TypeInv
  <2>2. MarkRejected(t, refusal).state = "REJECTED"
    BY DEF MarkRejected, Row
  <2> QED
    BY <2>1, <2>2 DEF Accounts
<1>2. CASE /\ Moves(t.request.kind)
           /\ tx' = [tx EXCEPT ![s] = {MarkProcessed(t, e.after)}]
           /\ entry' = [entry EXCEPT ![s] = {e}]
  <2> DEFINE u == MarkProcessed(t, e.after)
  <2>1. tx'[s] = {u} /\ entry'[s] = {e}
    BY <1>2 DEF TypeInv
  <2>2. u.state = "PROCESSED" /\ u.request = t.request /\ u.resultBalance = e.after
    BY DEF MarkProcessed, Row
  <2>3. e.op = NameOf(t.request) /\ e.amount = t.request.amount
    BY DEF NewEntry
  <2>4. t.request.kind # "LOSS"
    BY <1>2 DEF Moves
  <2> HIDE DEF u, e
  <2> QED
    BY <2>1, <2>2, <2>3, <2>4 DEF Accounts
<1>3. CASE /\ ~Moves(t.request.kind)
           /\ tx' = [tx EXCEPT ![s] = {MarkProcessed(t, balance)}]
           /\ UNCHANGED entry
  <2>1. tx'[s] = {MarkProcessed(t, balance)} /\ entry'[s] = {}
    BY <1>3 DEF TypeInv
  <2>2. MarkProcessed(t, balance).request = t.request
    BY DEF MarkProcessed, Row
  <2>3. t.request.kind = "LOSS"
    BY <1>3 DEF Moves
  <2> QED
    BY <2>1, <2>2, <2>3 DEF Accounts
<1> QED
  BY <1>1, <1>2, <1>3 DEF Settle

\* So does a decision to wait or to give up, which has no entry.
LEMMA ConcludeAccounts ==
  ASSUME TypeInv, EntryInv, NEW s \in Sessions, Conclude(s)
  PROVE  \A u \in tx'[s] : Accounts(u, entry'[s])
<1>1. entry[s] = {}
  BY DEF EntryInv, Conclude
<1>2. PICK t \in tx[s] :
        \/ Wait(s, t) /\ UNCHANGED entry
        \/ \E refusal, direction : Settle(s, t, refusal, direction)
        \/ \E refusal, direction : \E agrees \in BOOLEAN :
             Settle(s, [t EXCEPT !.resolved = agrees], refusal, direction)
  BY DEF Conclude
<1>3. t \in Counted /\ t \in Row
  BY DEF TypeInv, Counted
<1>4. CASE Wait(s, t) /\ UNCHANGED entry
  <2>1. ASSUME tx' = [tx EXCEPT ![s] = {MarkPendingReference(t)}]
        PROVE  \A u \in tx'[s] : u.state # "PROCESSED"
    <3>1. MarkPendingReference(t).state = "PENDING_REFERENCE"
      BY <1>3 DEF MarkPendingReference, Row
    <3> QED
      BY <2>1, <3>1 DEF TypeInv
  <2>2. ASSUME t.state = "PENDING_REFERENCE",
               tx' = [tx EXCEPT ![s] = {RecordMissingReference(t)}]
        PROVE  \A u \in tx'[s] : u.state # "PROCESSED"
    <3> DEFINE counted == [t EXCEPT !.attempts = t.attempts + 1]
    <3>1. \/ RecordMissingReference(t) = counted
          \/ RecordMissingReference(t) = MarkRejected(counted, "REFERENCE_NOT_FOUND")
      BY DEF RecordMissingReference
    <3>2. counted.state = "PENDING_REFERENCE" /\ "state" \in DOMAIN counted
      BY <1>3, <2>2 DEF Row
    <3> HIDE DEF counted
    <3>3. MarkRejected(counted, "REFERENCE_NOT_FOUND").state = "REJECTED"
      BY <3>2 DEF MarkRejected
    <3>4. RecordMissingReference(t).state # "PROCESSED"
      BY <3>1, <3>2, <3>3
    <3>5. tx'[s] = {RecordMissingReference(t)}
      BY <2>2 DEF TypeInv
    <3> QED
      BY <3>4, <3>5
  <2>3. \A u \in tx'[s] : u.state # "PROCESSED"
    BY <1>4, <2>1, <2>2 DEF Wait
  <2>4. entry'[s] = {}
    BY <1>1, <1>4
  <2> QED
    BY <2>3, <2>4 DEF Accounts
<1>5. \A agrees \in BOOLEAN : [t EXCEPT !.resolved = agrees] \in Row
  BY <1>3 DEF Row
<1> QED
  BY <1>1, <1>2, <1>3, <1>4, <1>5, SettleAccounts

\* Nothing between conclude and commit separates outcome and entry.
LEMMA OutcomeInvHolds ==
  ASSUME TypeInv, EntryInv, OutcomeInv, [Next]_vars
  PROVE  OutcomeInv'
<1>1. ASSUME NEW w \in Wallets, NEW b \in OpeningBalances, OpenWallet(w, b)
      PROVE  OutcomeInv'
  BY <1>1 DEF OpenWallet, session, OutcomeInv
<1>2. ASSUME NEW s \in Sessions, SessionStep(s)
      PROVE  OutcomeInv'
  <2>1. \A z \in Sessions \ {s} : pc'[z] = pc[z] /\ tx'[z] = tx[z] /\ entry'[z] = entry[z]
    BY <1>2, OthersKeep
  <2>2. pc'[s] \in {"Save", "Write", "Commit"} => \A t \in tx'[s] : Accounts(t, entry'[s])
    <3>1. CASE \/ s \in Callers /\ \E r \in Requests : Receive(s, r)
               \/ s \in Workers /\ \E t \in ops : Lease(s, t)
               \/ GetForUpdate(s) \/ WalletNotFound(s) \/ Rollback(s) \/ Return(s)
      <4>1. pc'[s] \notin {"Save", "Write", "Commit"}
        BY <3>1 DEF Receive, Lease, GetForUpdate, WalletNotFound, Rollback, Return,
                    EndSession, Goto, TypeInv
      <4> QED
        BY <4>1
    <3>2. CASE FindReplay(s) \/ Reload(s) \/ FindReference(s) \/ Commit(s)
      <4>1. pc'[s] \notin {"Save", "Write", "Commit"}
        BY <3>2 DEF FindReplay, Reload, FindReference, Commit, EndSession, Goto, TypeInv
      <4> QED
        BY <4>1
    <3>3. CASE Conclude(s)
      BY <3>3, ConcludeAccounts
    <3>4. CASE Save(s) \/ Write(s)
      <4>1. \/ pc'[s] = "conflict"
            \/ pc[s] \in {"Save", "Write"} /\ tx' = tx /\ entry' = entry
        BY <3>4 DEF Save, Create, UpdatePendingReference, Write, EndSession, Goto, TypeInv
      <4> QED
        BY <4>1 DEF OutcomeInv
    <3> QED
      BY <1>2, <3>1, <3>2, <3>3, <3>4 DEF SessionStep, Settling
  <2> QED
    BY <2>1, <2>2 DEF OutcomeInv, Accounts
<1>3. CASE UNCHANGED vars
  BY <1>3 DEF vars, OutcomeInv, Accounts
<1> QED
  BY <1>1, <1>2, <1>3, StepsAre

\* Beside MoneyMovesOnce: every entry but the opening is of a recorded operation.
MoneyInv ==
  /\ MoneyMovesOnce
  /\ \A w \in Wallets : \A i \in DOMAIN ledger[w] :
       \/ ledger[w][i].op = OpeningName(w)
       \/ \E u \in ops : NameOf(u.request) = ledger[w][i].op

Named(l, name) == {i \in DOMAIN l : l[i].op = name}

\* Appending an entry adds one index, under the name of the entry.
LEMMA AppendNames ==
  ASSUME NEW l \in Seq(Entry), NEW e \in Entry, NEW name
  PROVE  /\ e.op # name => Named(Append(l, e), name) = Named(l, name)
         /\ e.op = name => Named(Append(l, e), name) = Named(l, name) \cup {Len(l) + 1}
         /\ \A i \in DOMAIN l : Append(l, e)[i] = l[i]
         /\ Append(l, e)[Len(l) + 1] = e
         /\ DOMAIN Append(l, e) = DOMAIN l \cup {Len(l) + 1}
<1> DEFINE m == Append(l, e)
           n == Len(l)
<1>1. n \in Nat /\ DOMAIN l = 1..n /\ DOMAIN m = 1..n + 1
  OBVIOUS
<1>2. m[n + 1] = e /\ \A i \in 1..n : m[i] = l[i]
  OBVIOUS
<1>3. 1..n + 1 = 1..n \cup {n + 1}
  BY <1>1
<1> HIDE DEF m, n
<1>4. /\ e.op # name => Named(m, name) = Named(l, name)
      /\ e.op = name => Named(m, name) = Named(l, name) \cup {n + 1}
  BY <1>1, <1>2, <1>3 DEF Named
<1> QED
  BY <1>1, <1>2, <1>3, <1>4 DEF m, n

\* What stands in a ledger after an append stood there, or is new.
LEMMA AppendKeeps ==
  ASSUME NEW l \in Seq(Entry), NEW e \in Entry, NEW i \in DOMAIN Append(l, e)
  PROVE  (i \in DOMAIN l /\ Append(l, e)[i] = l[i]) \/ Append(l, e)[i] = e
OBVIOUS

\* MoneyMovesOnce of one operation and one wallet with entries l.
MovedOnce(u, w, l) ==
  LET moved == Named(l, NameOf(u.request))
  IN  IF w = u.request.wallet /\ u.state = "PROCESSED" /\ u.request.kind # "LOSS"
        THEN \E i \in moved : /\ moved = {i}
                              /\ l[i].amount = u.request.amount
                              /\ l[i].after = u.resultBalance
        ELSE moved = {}

\* MoneyMovesOnce, operation by operation and wallet by wallet.
LEMMA MoneyOfEach ==
  MoneyMovesOnce <=> \A u \in ops : \A w \in Wallets : MovedOnce(u, w, ledger[w])
BY DEF MoneyMovesOnce, EntriesOf, MovedOnce, Named

\* An entry of another operation changes nothing for this one.
LEMMA OtherEntryIsNotMine ==
  ASSUME NEW l \in Seq(Entry), NEW e \in Entry, NEW u, NEW w,
         e.op # NameOf(u.request), MovedOnce(u, w, l)
  PROVE  MovedOnce(u, w, Append(l, e))
<1>1. Named(Append(l, e), NameOf(u.request)) = Named(l, NameOf(u.request))
  BY AppendNames
<1>2. \A i \in Named(l, NameOf(u.request)) : Append(l, e)[i] = l[i]
  BY AppendNames DEF Named
<1> QED
  BY <1>1, <1>2 DEF MovedOnce

\* The first entry of an operation, and its only one, accounts for it.
LEMMA FirstEntryIsMine ==
  ASSUME NEW l \in Seq(Entry), NEW e \in Entry, NEW u,
         Named(l, NameOf(u.request)) = {},
         u.state = "PROCESSED", u.request.kind # "LOSS",
         e.op = NameOf(u.request), e.amount = u.request.amount, e.after = u.resultBalance
  PROVE  MovedOnce(u, u.request.wallet, Append(l, e))
<1> DEFINE last == Len(l) + 1
           name == NameOf(u.request)
<1>1. Append(l, e)[last] = e
  OBVIOUS
<1>2. e.op = name
  OBVIOUS
<1> HIDE DEF name
<1>3. Named(Append(l, e), name) = Named(l, name) \cup {last}
  BY <1>2, AppendNames
<1> HIDE DEF last
<1> QED
  BY <1>1, <1>3 DEF MovedOnce, name

\* The operation being committed has moved nothing yet.
LEMMA NothingMovedYet ==
  ASSUME SettledInv, MoneyInv, NEW s \in Sessions, pc[s] = "Commit", NEW t \in tx[s],
         s \in Callers => RowsNamed(NameOf(t.request)) = {}
  PROVE  \A w \in Wallets : Named(ledger[w], NameOf(t.request)) = {}
<1>1. t.request \in Requests
  BY DEF SettledInv, TypeInv, Counted, Row
<1>2. CASE s \in Callers
  <2>1. \A u \in ops : NameOf(u.request) # NameOf(t.request)
    BY <1>2 DEF RowsNamed
  <2>2. \A w \in Wallets : NameOf(t.request) # OpeningName(w)
    BY <1>1, NamesAssumption
  <2> QED
    BY <2>1, <2>2 DEF MoneyInv, Named
<1>3. CASE s \in Workers
  <2>1. PICK u \in ops : Advances(u, t)
    BY <1>3 DEF SettledInv, CopyInv
  <2>2. u.state = "PENDING_REFERENCE" /\ u.request = t.request
    BY <2>1 DEF Advances
  <2>3. \A w \in Wallets : MovedOnce(u, w, ledger[w])
    BY MoneyOfEach DEF MoneyInv
  <2> QED
    BY <2>2, <2>3 DEF MovedOnce
<1> QED
  BY <1>2, <1>3 DEF Sessions

\* A commit gives its operation the entry of its outcome, and no other operation one.
LEMMA CommitMovesOnce ==
  ASSUME SettledInv, OutcomeInv, MoneyInv, NEW s \in Sessions, Commit(s)
  PROVE  MoneyInv'
<1>1. PICK t \in tx[s] :
        /\ ops' = (ops \ RowsNamed(NameOf(t.request))) \cup {t}
        /\ s \in Callers => RowsNamed(NameOf(t.request)) = {}
  BY CommitReplaces DEF SettledInv
<1>2. t \in Counted /\ t.request.wallet \in Wallets /\ t.request \in Requests
  BY RequestsAssumption DEF SettledInv, TypeInv, Counted, Row
<1>3. Accounts(t, entry[s])
  BY DEF Commit, OutcomeInv
<1>4. \A w \in Wallets : Named(ledger[w], NameOf(t.request)) = {}
  BY <1>1, NothingMovedYet DEF Commit
<1>5. \A u \in ops' : u = t \/ (u \in ops /\ NameOf(u.request) # NameOf(t.request))
  BY <1>1 DEF RowsNamed
<1>6. \A u \in ops : \A w \in Wallets : MovedOnce(u, w, ledger[w])
  BY MoneyOfEach DEF MoneyInv
<1>7. \A u \in ops : \E v \in ops' : NameOf(v.request) = NameOf(u.request)
  BY <1>1 DEF RowsNamed
<1>8. CASE entry[s] = {}
  <2>1. ledger' = ledger
    BY <1>8 DEF Commit
  <2>2. \A w \in Wallets : MovedOnce(t, w, ledger[w])
    BY <1>3, <1>4, <1>8 DEF Accounts, MovedOnce
  <2>3. \A u \in ops' : \A w \in Wallets : MovedOnce(u, w, ledger'[w])
    BY <1>5, <1>6, <2>1, <2>2
  <2>4. MoneyMovesOnce'
    BY <2>3 DEF MoneyMovesOnce, EntriesOf, MovedOnce, Named
  <2> QED
    BY <1>7, <2>1, <2>4 DEF MoneyInv
<1>9. CASE entry[s] # {}
  <2>1. PICK u \in tx[s] : \E e \in entry[s] :
          ledger' = [ledger EXCEPT ![u.request.wallet] = Append(@, e)]
    BY <1>9 DEF Commit
  <2>2. u = t
    BY DEF SettledInv, SessionInv
  <2>3. PICK e \in entry[s] :
          ledger' = [ledger EXCEPT ![t.request.wallet] = Append(@, e)]
    BY <2>1, <2>2
  <2> DEFINE w0 == t.request.wallet
  <2>4. e \in Entry /\ \A w \in Wallets : ledger[w] \in Seq(Entry)
    BY DEF SettledInv, TypeInv
  <2>5. /\ ledger'[w0] = Append(ledger[w0], e)
        /\ \A w \in Wallets \ {w0} : ledger'[w] = ledger[w]
    BY <1>2, <2>3 DEF SettledInv, TypeInv
  <2>6. /\ t.state = "PROCESSED" /\ t.request.kind # "LOSS"
        /\ e.op = NameOf(t.request)
        /\ e.amount = t.request.amount
        /\ e.after = t.resultBalance
    BY <1>3, <1>9 DEF Accounts
  <2>7. ASSUME NEW w \in Wallets
        PROVE  MovedOnce(t, w, ledger'[w])
    <3>1. CASE w = w0
      BY <1>4, <2>4, <2>5, <2>6, <3>1, FirstEntryIsMine
    <3>2. CASE w # w0
      BY <1>4, <2>5, <3>2 DEF MovedOnce
    <3> QED
      BY <3>1, <3>2
  <2>8. ASSUME NEW v \in ops, NameOf(v.request) # NameOf(t.request), NEW w \in Wallets
        PROVE  MovedOnce(v, w, ledger'[w])
    <3>1. MovedOnce(v, w, Append(ledger[w], e))
      BY <1>6, <2>4, <2>6, <2>8, OtherEntryIsNotMine
    <3> QED
      BY <1>6, <2>5, <3>1
  <2>9. \A v \in ops' : \A w \in Wallets : MovedOnce(v, w, ledger'[w])
    BY <1>5, <2>7, <2>8
  <2>10. MoneyMovesOnce'
    BY <2>9 DEF MoneyMovesOnce, EntriesOf, MovedOnce, Named
  <2>11. ASSUME NEW w \in Wallets, NEW i \in DOMAIN ledger'[w]
         PROVE  \/ ledger'[w][i].op = OpeningName(w)
                \/ \E v \in ops' : NameOf(v.request) = ledger'[w][i].op
    <3>1. \/ i \in DOMAIN ledger[w] /\ ledger'[w][i] = ledger[w][i]
          \/ ledger'[w][i] = e
      <4>1. CASE w = w0
        <5>1. ledger[w] \in Seq(Entry) /\ ledger'[w] = Append(ledger[w], e)
          BY <2>4, <2>5, <2>11, <4>1
        <5>2. i \in DOMAIN Append(ledger[w], e)
          BY <2>11, <5>1
        <5>3. \/ i \in DOMAIN ledger[w] /\ Append(ledger[w], e)[i] = ledger[w][i]
              \/ Append(ledger[w], e)[i] = e
          BY <2>4, <5>1, <5>2, AppendKeeps
        <5> QED
          BY <5>1, <5>3
      <4>2. CASE w # w0
        <5>1. ledger'[w] = ledger[w]
          BY <2>5, <2>11, <4>2
        <5> QED
          BY <2>11, <5>1
      <4> QED
        BY <4>1, <4>2
    <3>2. t \in ops'
      BY <1>1
    <3> QED
      BY <1>7, <2>6, <3>1, <3>2 DEF MoneyInv
  <2> QED
    BY <2>10, <2>11 DEF MoneyInv
<1> QED
  BY <1>8, <1>9

\* The entry of an opening belongs to no operation of a provider.
LEMMA OpenWalletMovesNothing ==
  ASSUME TypeInv, MoneyInv, NEW w \in Wallets, NEW b \in OpeningBalances, OpenWallet(w, b)
  PROVE  MoneyInv'
<1> DEFINE credit == [op |-> OpeningName(w), direction |-> "CREDIT",
                      amount |-> b, before |-> 0, after |-> b]
<1>1. ops' = ops
  BY DEF OpenWallet
<1>2. CASE ledger' = ledger
  BY <1>1, <1>2 DEF MoneyInv, MoneyMovesOnce, EntriesOf
<1>3. CASE ledger' = [ledger EXCEPT ![w] = Append(@, credit)]
  <2>1. credit \in Entry /\ credit.op = OpeningName(w)
    <3>1. b \in Nat
      BY OpeningAssumption, BoundsAssumption
    <3> QED
      BY <3>1 DEF Entry
  <2>2. \A v \in Wallets : ledger[v] \in Seq(Entry)
    BY DEF TypeInv
  <2>3. /\ ledger'[w] = Append(ledger[w], credit)
        /\ \A v \in Wallets \ {w} : ledger'[v] = ledger[v]
    BY <1>3 DEF TypeInv
  <2> HIDE DEF credit
  <2>4. ASSUME NEW u \in ops, NEW v \in Wallets
        PROVE  MovedOnce(u, v, ledger'[v])
    <3>1. credit.op # NameOf(u.request)
      <4>1. u.request \in Requests
        BY DEF TypeInv, Counted, Row
      <4> QED
        BY <2>1, <4>1, NamesAssumption
    <3>2. MovedOnce(u, v, ledger[v])
      BY MoneyOfEach DEF MoneyInv
    <3>3. MovedOnce(u, v, Append(ledger[v], credit))
      BY <2>1, <2>2, <3>1, <3>2, OtherEntryIsNotMine
    <3> QED
      BY <2>3, <3>2, <3>3
  <2>5. MoneyMovesOnce'
    BY <1>1, <2>4 DEF MoneyMovesOnce, EntriesOf, MovedOnce, Named
  <2>6. ASSUME NEW v \in Wallets, NEW i \in DOMAIN ledger'[v]
        PROVE  \/ ledger'[v][i].op = OpeningName(v)
               \/ \E u \in ops : NameOf(u.request) = ledger'[v][i].op
    <3>1. \/ i \in DOMAIN ledger[v] /\ ledger'[v][i] = ledger[v][i]
          \/ v = w /\ ledger'[v][i] = credit
      <4>1. CASE v = w
        <5>1. ledger[v] \in Seq(Entry) /\ ledger'[v] = Append(ledger[v], credit)
          BY <2>2, <2>3, <2>6, <4>1
        <5>2. i \in DOMAIN Append(ledger[v], credit)
          BY <2>6, <5>1
        <5>3. \/ i \in DOMAIN ledger[v] /\ Append(ledger[v], credit)[i] = ledger[v][i]
              \/ Append(ledger[v], credit)[i] = credit
          BY <2>1, <5>1, <5>2, AppendKeeps
        <5> QED
          BY <4>1, <5>1, <5>3
      <4>2. CASE v # w
        BY <2>3, <2>6, <4>2
      <4> QED
        BY <4>1, <4>2
    <3> QED
      BY <2>1, <3>1 DEF MoneyInv
  <2> QED
    BY <1>1, <2>5, <2>6 DEF MoneyInv
<1> QED
  BY <1>2, <1>3 DEF OpenWallet

\* Only a commit and an opening add entries.
LEMMA MoneyInvHolds ==
  ASSUME SettledInv, OutcomeInv, MoneyInv, [Next]_vars
  PROVE  MoneyInv'
<1>1. CASE UNCHANGED <<ops, ledger>>
  BY <1>1 DEF MoneyInv, MoneyMovesOnce, EntriesOf
<1>2. \/ \E s \in Sessions : Commit(s)
      \/ \E w \in Wallets, b \in OpeningBalances : OpenWallet(w, b)
      \/ UNCHANGED <<ops, ledger>>
  BY DEF Next, Settling, Receive, Lease, GetForUpdate, WalletNotFound, FindReplay,
         Reload, FindReference, Conclude, Save, Write, Rollback, Return, tables, vars
<1> QED
  BY <1>1, <1>2, CommitMovesOnce, OpenWalletMovesNothing DEF SettledInv

\* An operation moves money exactly when it is PROCESSED and of a kind that moves
\* any, once, in its own wallet, and reports the balance it left, however often it
\* is sent and retried and wherever sessions are cut off (conclude and record).
THEOREM MovesMoneyOnce == Spec => []MoneyMovesOnce
<1>1. Init => OutcomeInv /\ MoneyInv
  BY DEF Init, OutcomeInv, MoneyInv, MoneyMovesOnce
<1>2. SettledInv /\ OutcomeInv /\ [Next]_vars => OutcomeInv'
  BY OutcomeInvHolds DEF SettledInv
<1>3. SettledInv /\ OutcomeInv /\ MoneyInv /\ [Next]_vars => MoneyInv'
  BY MoneyInvHolds
<1>4. MoneyInv => MoneyMovesOnce
  BY DEF MoneyInv
<1> QED
  BY <1>1, <1>2, <1>3, <1>4, SettledInvHolds, PTL DEF Spec

-----------------------------------------------------------------------------
(* Balance events follow the ledger *)

Changes(e) == e.type = "WalletBalanceChanged"

\* The events of a session that is about to commit announce its entry, if it has
\* one, with the version the wallet is going to have, and no other change.
AnnounceInv ==
  \A s \in Sessions : pc[s] = "Commit" => \A t \in tx[s] :
    /\ entry[s] = {} => \A f \in events[s] : ~Changes(f)
    /\ entry[s] # {} => \E e \in events[s] :
         /\ Changes(e)
         /\ e.op = NameOf(t.request)
         /\ e.version = loaded[s].version + 1
         /\ \A f \in events[s] : Changes(f) => f = e

\* NewEvents announces a change of the balance exactly when there is an entry.
LEMMA NewEventsAnnounce ==
  ASSUME NEW from, NEW w, NEW op, NEW type, type # "WalletBalanceChanged",
         NEW moved, NEW version
  PROVE  LET new == NewEvents(from, w, op, type, moved, version)
             change == NewEvent(from + 2, w, op, "WalletBalanceChanged", version)
         IN  /\ moved = {} => \A f \in new : ~Changes(f)
             /\ moved # {} => change \in new /\ \A f \in new : Changes(f) => f = change
             /\ \A f \in new : f.wallet = w
             /\ Changes(change) /\ change.op = op /\ change.version = version
BY DEF NewEvents, NewEvent, Changes

\* A step of a session that is not about to commit after it.
LEMMA AnnounceQuietly ==
  ASSUME AnnounceInv, NEW s \in Sessions, pc'[s] # "Commit",
         \A z \in Sessions \ {s} :
           /\ pc'[z] = pc[z] /\ tx'[z] = tx[z] /\ loaded'[z] = loaded[z]
           /\ entry'[z] = entry[z] /\ events'[z] = events[z]
  PROVE  AnnounceInv'
BY DEF AnnounceInv, Changes

\* Write inserts what the entry calls for.
LEMMA WriteAnnounces ==
  ASSUME TypeInv, SessionInv, AnnounceInv, NEW s \in Sessions, Write(s)
  PROVE  AnnounceInv'
<1>1. PICK t \in tx[s] : \E last \in LastSequence(t.request.wallet) :
        events' = [events EXCEPT ![s] =
                     NewEvents(last, t.request.wallet, NameOf(t.request),
                               OutcomeEvent(t), entry[s], loaded[s].version + 1)]
  BY DEF Write
<1>2. PICK last \in LastSequence(t.request.wallet) :
        events' = [events EXCEPT ![s] =
                     NewEvents(last, t.request.wallet, NameOf(t.request),
                               OutcomeEvent(t), entry[s], loaded[s].version + 1)]
  BY <1>1
<1> DEFINE new == NewEvents(last, t.request.wallet, NameOf(t.request),
                            OutcomeEvent(t), entry[s], loaded[s].version + 1)
           change == NewEvent(last + 2, t.request.wallet, NameOf(t.request),
                              "WalletBalanceChanged", loaded[s].version + 1)
<1>3. events'[s] = new
  BY <1>2 DEF TypeInv
<1>4. OutcomeEvent(t) # "WalletBalanceChanged"
  BY DEF OutcomeEvent
<1>5. /\ entry[s] = {} => \A f \in new : ~Changes(f)
      /\ entry[s] # {} => change \in new /\ \A f \in new : Changes(f) => f = change
      /\ Changes(change) /\ change.op = NameOf(t.request)
      /\ change.version = loaded[s].version + 1
  BY <1>4, NewEventsAnnounce
<1>6. tx' = tx /\ entry' = entry /\ loaded' = loaded /\ \A u \in tx[s] : u = t
  BY DEF Write, SessionInv
<1>7. \A z \in Sessions \ {s} : pc'[z] = pc[z] /\ events'[z] = events[z]
  BY OthersKeep DEF SessionStep, Settling
<1> HIDE DEF new, change
<1> QED
  BY <1>3, <1>5, <1>6, <1>7 DEF AnnounceInv, Changes

\* An attempt that leaves the operation waiting commits without entry or events.
LEMMA SaveAnnounces ==
  ASSUME TypeInv, SessionInv, EventInv, OutcomeInv, AnnounceInv,
         NEW s \in Sessions, Save(s)
  PROVE  AnnounceInv'
<1>1. \A z \in Sessions \ {s} :
        /\ pc'[z] = pc[z] /\ tx'[z] = tx[z] /\ loaded'[z] = loaded[z]
        /\ entry'[z] = entry[z] /\ events'[z] = events[z]
  BY OthersKeep DEF SessionStep, Settling
<1>2. CASE pc'[s] # "Commit"
  BY <1>1, <1>2, AnnounceQuietly
<1>3. CASE pc'[s] = "Commit"
  <2>1. PICK t \in tx[s] :
          /\ t.state = "PENDING_REFERENCE"
          /\ UNCHANGED <<tx, loaded, entry, events>>
    BY <1>3 DEF Save, Create, UpdatePendingReference, EndSession, Goto, TypeInv
  <2>2. Accounts(t, entry[s]) /\ events[s] = {}
    BY DEF Save, OutcomeInv, EventInv
  <2>3. entry[s] = {}
    BY <2>1, <2>2 DEF Accounts
  <2> QED
    BY <1>1, <2>1, <2>2, <2>3 DEF AnnounceInv, Changes
<1> QED
  BY <1>2, <1>3

\* Nothing else prepares a commit.
LEMMA AnnounceInvHolds ==
  ASSUME TypeInv, SessionInv, EventInv, OutcomeInv, AnnounceInv, [Next]_vars
  PROVE  AnnounceInv'
<1>1. ASSUME NEW w \in Wallets, NEW b \in OpeningBalances, OpenWallet(w, b)
      PROVE  AnnounceInv'
  BY <1>1 DEF OpenWallet, session, AnnounceInv, Changes
<1>2. ASSUME NEW s \in Sessions, SessionStep(s)
      PROVE  AnnounceInv'
  <2>1. \A z \in Sessions \ {s} :
          /\ pc'[z] = pc[z] /\ tx'[z] = tx[z] /\ loaded'[z] = loaded[z]
          /\ entry'[z] = entry[z] /\ events'[z] = events[z]
    BY <1>2, OthersKeep
  <2>2. CASE \/ s \in Callers /\ \E r \in Requests : Receive(s, r)
             \/ s \in Workers /\ \E t \in ops : Lease(s, t)
             \/ GetForUpdate(s) \/ WalletNotFound(s) \/ Rollback(s) \/ Return(s)
    <3>1. pc'[s] # "Commit"
      BY <2>2 DEF Receive, Lease, GetForUpdate, WalletNotFound, Rollback, Return,
                  EndSession, Goto, TypeInv
    <3> QED
      BY <2>1, <3>1, AnnounceQuietly
  <2>3. CASE FindReplay(s) \/ Reload(s) \/ FindReference(s) \/ Conclude(s) \/ Commit(s)
    <3>1. pc'[s] # "Commit"
      BY <2>3 DEF FindReplay, Reload, FindReference, Conclude, Commit,
                  EndSession, Goto, TypeInv
    <3> QED
      BY <2>1, <3>1, AnnounceQuietly
  <2> QED
    BY <1>2, <2>2, <2>3, SaveAnnounces, WriteAnnounces DEF SessionStep, Settling
<1>3. CASE UNCHANGED vars
  BY <1>3 DEF vars, AnnounceInv, Changes
<1> QED
  BY <1>1, <1>2, <1>3, StepsAre

\* BalanceEventsFollowLedger of one wallet with entries l and balance events E.
Follows(offset, l, E) ==
  /\ \A i \in DOMAIN l : \E e \in E : e.op = l[i].op /\ e.version = i + offset
  /\ \A e \in E : e.version - offset \in DOMAIN l
  /\ \A e, f \in E : e # f => (e.seq < f.seq <=> e.version < f.version)

Offset(w, l) == IF l # << >> /\ l[1].op = OpeningName(w) THEN 0 ELSE 1

\* BalanceEventsFollowLedger, wallet by wallet.
LEMMA FollowsEachWallet ==
  BalanceEventsFollowLedger <=>
    \A w \in Wallets : Follows(Offset(w, ledger[w]), ledger[w], BalanceEventsOf(w))
BY DEF BalanceEventsFollowLedger, HasOpening, Follows, Offset

\* The same of the next state.
LEMMA EachWalletFollows ==
  ASSUME \A w \in Wallets :
           Follows(Offset(w, ledger'[w]), ledger'[w], BalanceEventsOf(w)')
  PROVE  BalanceEventsFollowLedger'
BY DEF BalanceEventsFollowLedger, HasOpening, Follows, Offset

\* One entry more, announced with the next version beyond all earlier numbers.
LEMMA EventFollowsEntry ==
  ASSUME NEW offset \in Nat, NEW l \in Seq(Entry), NEW x \in Entry,
         NEW E, E \subseteq Event, NEW e \in Event,
         Follows(offset, l, E),
         e.op = x.op, e.version = Len(l) + 1 + offset,
         \A f \in E : f.seq < e.seq
  PROVE  Follows(offset, Append(l, x), E \cup {e})
<1> DEFINE m == Append(l, x)
           n == Len(l)
<1>1. /\ n \in Nat /\ DOMAIN l = 1..n /\ DOMAIN m = 1..n + 1
      /\ m[n + 1] = x /\ \A i \in 1..n : m[i] = l[i]
  OBVIOUS
<1>2. e.version = n + 1 + offset
  OBVIOUS
<1> HIDE DEF m, n
<1>3. ASSUME NEW i \in DOMAIN m
      PROVE  \E f \in E \cup {e} : f.op = m[i].op /\ f.version = i + offset
  <2>1. CASE i \in 1..n
    BY <1>1, <2>1 DEF Follows
  <2>2. CASE i = n + 1
    BY <1>1, <1>2, <2>2
  <2> QED
    BY <1>1, <1>3, <2>1, <2>2
<1>4. ASSUME NEW f \in E
      PROVE  /\ f.version \in Nat /\ f.seq \in Nat
             /\ f.version - offset \in 1..n
             /\ f.version < e.version /\ f.seq < e.seq
  <2>1. f.version \in Nat /\ f.seq \in Nat
    BY <1>4 DEF Event
  <2>2. f.version - offset \in 1..n
    BY <1>1, <1>4 DEF Follows
  <2> QED
    BY <1>1, <1>2, <1>4, <2>1, <2>2
<1>5. \A f \in E \cup {e} : f.version - offset \in DOMAIN m
  <2>1. \A f \in E : f.version - offset \in DOMAIN m
    BY <1>1, <1>4
  <2>2. e.version - offset = n + 1
    BY <1>1, <1>2
  <2> QED
    BY <1>1, <2>1, <2>2
<1>6. \A f, g \in E \cup {e} : f # g => (f.seq < g.seq <=> f.version < g.version)
  <2>1. e.seq \in Nat /\ e.version \in Nat
    BY DEF Event
  <2>2. \A f \in E : /\ f.seq < e.seq /\ f.version < e.version
                     /\ ~(e.seq < f.seq) /\ ~(e.version < f.version)
    BY <1>4, <2>1
  <2>3. \A f, g \in E : f # g => (f.seq < g.seq <=> f.version < g.version)
    BY DEF Follows
  <2> QED
    BY <2>2, <2>3
<1>7. Follows(offset, m, E \cup {e})
  BY <1>3, <1>5, <1>6 DEF Follows
<1> QED
  BY <1>7 DEF m

\* Whether a ledger begins with an opening does not change once it has begun.
LEMMA AppendKeepsOffset ==
  ASSUME NEW w, NEW l \in Seq(Entry), NEW x \in Entry, x.op # OpeningName(w)
  PROVE  Offset(w, Append(l, x)) = Offset(w, l)
<1> DEFINE m == Append(l, x)
           n == Len(l)
<1>1. /\ n \in Nat /\ m # << >> /\ (l = << >> <=> n = 0)
      /\ m[n + 1] = x /\ \A i \in 1..n : m[i] = l[i]
  OBVIOUS
<1> HIDE DEF m, n
<1>2. m[1] = (IF l = << >> THEN x ELSE l[1])
  <2>1. CASE n = 0
    BY <1>1, <2>1
  <2>2. CASE n # 0
    BY <1>1, <2>2
  <2> QED
    BY <2>1, <2>2
<1>3. Offset(w, m) = Offset(w, l)
  BY <1>1, <1>2 DEF Offset
<1> QED
  BY <1>3 DEF m

\* What the proof that follows rests on.
AnnouncedInv ==
  /\ SettledInv /\ EventInv /\ OutcomeInv /\ AnnounceInv
  /\ LedgerExplainsBalance /\ BalanceEventsFollowLedger

\* A commit adds an entry and the event of it, or neither.
LEMMA CommitAnnounces ==
  ASSUME AnnouncedInv, NEW s \in Sessions, Commit(s)
  PROVE  BalanceEventsFollowLedger'
<1> USE DEF AnnouncedInv, SettledInv
<1>1. PICK t \in tx[s] :
        /\ entry[s] = {} => UNCHANGED ledger
        /\ entry[s] # {} => \E x \in entry[s] :
             ledger' = [ledger EXCEPT ![t.request.wallet] = Append(@, x)]
  BY DEF Commit
<1> DEFINE w0 == t.request.wallet
<1>2. w0 \in Wallets /\ t.request \in Requests
  BY RequestsAssumption DEF TypeInv, Counted, Row
<1>3. pc[s] = "Commit" /\ outbox' = outbox \cup events[s]
  BY DEF Commit
<1>4. \A f \in events[s] : f.wallet = w0 /\ f \in Event
  BY DEF EventInv, SessionInv, TypeInv
<1>5. \A w \in Wallets : Follows(Offset(w, ledger[w]), ledger[w], BalanceEventsOf(w))
  BY FollowsEachWallet
<1>6. \A w \in Wallets :
        BalanceEventsOf(w)' = BalanceEventsOf(w) \cup
          {f \in events[s] : f.wallet = w /\ Changes(f)}
  BY <1>3 DEF BalanceEventsOf, Changes
<1>7. CASE entry[s] = {}
  <2>1. \A w \in Wallets : BalanceEventsOf(w)' = BalanceEventsOf(w)
    BY <1>3, <1>6, <1>7 DEF AnnounceInv
  <2>2. ledger' = ledger
    BY <1>1, <1>7
  <2> QED
    BY <1>5, <2>1, <2>2, EachWalletFollows
<1>8. CASE entry[s] # {}
  <2>1. PICK x \in entry[s] : ledger' = [ledger EXCEPT ![w0] = Append(@, x)]
    BY <1>1, <1>8
  <2>2. PICK e \in events[s] :
          /\ Changes(e)
          /\ e.op = NameOf(t.request)
          /\ e.version = loaded[s].version + 1
          /\ \A f \in events[s] : Changes(f) => f = e
    BY <1>3, <1>8 DEF AnnounceInv
  <2>3. x \in Entry /\ x.op = NameOf(t.request) /\ x.op # OpeningName(w0)
    BY <1>2, NamesAssumption DEF TypeInv, EntryInv
  <2>4. ledger[w0] \in Seq(Entry)
    BY <1>2 DEF TypeInv
  <2>5. loaded[s].version = Len(ledger[w0]) + Offset(w0, ledger[w0])
    <3>1. loaded[s] = wallets[w0] /\ wallets[w0].open
      BY <1>3 DEF LockInv, LoadedWalletIsCurrent, Holding
    <3> QED
      BY <1>2, <3>1 DEF LedgerExplainsBalance, HasOpening, Offset
  <2>6. e.version = Len(ledger[w0]) + 1 + Offset(w0, ledger[w0])
    <3>1. Len(ledger[w0]) \in Nat /\ Offset(w0, ledger[w0]) \in Nat
      BY <2>4 DEF Offset
    <3> QED
      BY <2>2, <2>5, <3>1
  <2>7. \A f \in BalanceEventsOf(w0) : f \in Event /\ f.seq < e.seq
    BY <1>4, <2>2 DEF BalanceEventsOf, EventInv, OutboxFollowsCommitOrder, TypeInv
  <2>8. Follows(Offset(w0, ledger[w0]), Append(ledger[w0], x), BalanceEventsOf(w0) \cup {e})
    <3>1. Offset(w0, ledger[w0]) \in Nat
      BY DEF Offset
    <3> QED
      BY <1>2, <1>4, <1>5, <2>2, <2>3, <2>4, <2>6, <2>7, <3>1, EventFollowsEntry
  <2>9. /\ ledger'[w0] = Append(ledger[w0], x)
        /\ \A w \in Wallets \ {w0} : ledger'[w] = ledger[w]
    BY <1>2, <2>1 DEF TypeInv
  <2>10. /\ BalanceEventsOf(w0)' = BalanceEventsOf(w0) \cup {e}
         /\ \A w \in Wallets \ {w0} : BalanceEventsOf(w)' = BalanceEventsOf(w)
    <3>1. {f \in events[s] : f.wallet = w0 /\ Changes(f)} = {e}
      BY <1>4, <2>2
    <3>2. \A w \in Wallets \ {w0} : {f \in events[s] : f.wallet = w /\ Changes(f)} = {}
      BY <1>4
    <3> QED
      BY <1>2, <1>6, <3>1, <3>2
  <2>11. Offset(w0, Append(ledger[w0], x)) = Offset(w0, ledger[w0])
    BY <2>3, <2>4, AppendKeepsOffset
  <2>12. ASSUME NEW w \in Wallets
         PROVE  Follows(Offset(w, ledger'[w]), ledger'[w], BalanceEventsOf(w)')
    <3>1. CASE w = w0
      BY <2>8, <2>9, <2>10, <2>11, <3>1
    <3>2. CASE w # w0
      BY <1>5, <2>9, <2>10, <2>12, <3>2
    <3> QED
      BY <3>1, <3>2
  <2> QED
    BY <2>12, EachWalletFollows
<1> QED
  BY <1>7, <1>8

\* An opening with a balance is the first entry and the first event of its wallet.
LEMMA OpenWalletAnnounces ==
  ASSUME AnnouncedInv, NEW w \in Wallets, NEW b \in OpeningBalances, OpenWallet(w, b)
  PROVE  BalanceEventsFollowLedger'
<1> USE DEF AnnouncedInv, SettledInv
<1> DEFINE credit == [op |-> OpeningName(w), direction |-> "CREDIT",
                      amount |-> b, before |-> 0, after |-> b]
<1>1. ledger[w] = << >>
  BY DEF LedgerExplainsBalance, OpenWallet
<1>2. \A v \in Wallets : Follows(Offset(v, ledger[v]), ledger[v], BalanceEventsOf(v))
  BY FollowsEachWallet
<1>3. BalanceEventsOf(w) = {}
  BY <1>1, <1>2 DEF Follows
<1>4. CASE b > 0
  <2>1. ledger' = [ledger EXCEPT ![w] = Append(@, credit)]
    BY <1>4 DEF OpenWallet
  <2>2. PICK last \in LastSequence(w) :
          outbox' = outbox \cup
            NewEvents(last, w, OpeningName(w), "WagerTransactionProcessed", {credit}, 1)
    BY <1>4 DEF OpenWallet
  <2> DEFINE first == 1
             type == "WagerTransactionProcessed"
             new == NewEvents(last, w, OpeningName(w), type, {credit}, first)
             e == NewEvent(last + 2, w, OpeningName(w), "WalletBalanceChanged", first)
  <2>3. /\ e \in new /\ \A f \in new : Changes(f) => f = e
        /\ \A f \in new : f.wallet = w
        /\ Changes(e) /\ e.op = OpeningName(w) /\ e.version = first
    <3>1. type # "WalletBalanceChanged" /\ {credit} # {}
      OBVIOUS
    <3> HIDE DEF first, type, credit
    <3> QED
      BY <3>1, NewEventsAnnounce
  <2>4. /\ ledger'[w] = <<credit>>
        /\ \A v \in Wallets \ {w} : ledger'[v] = ledger[v]
    BY <1>1, <2>1 DEF TypeInv
  <2>5. credit.op = OpeningName(w)
    OBVIOUS
  <2> HIDE DEF new, e, credit, type
  <2>6. \A v \in Wallets :
          BalanceEventsOf(v)' = BalanceEventsOf(v) \cup {f \in new : f.wallet = v /\ Changes(f)}
    BY <2>2 DEF BalanceEventsOf, Changes, new, type
  <2>7. /\ BalanceEventsOf(w)' = {e}
        /\ \A v \in Wallets \ {w} : BalanceEventsOf(v)' = BalanceEventsOf(v)
    <3>1. {f \in new : f.wallet = w /\ Changes(f)} = {e}
      BY <2>3
    <3>2. \A v \in Wallets \ {w} : {f \in new : f.wallet = v /\ Changes(f)} = {}
      BY <2>3
    <3> QED
      BY <1>3, <2>6, <3>1, <3>2
  <2>8. /\ DOMAIN <<credit>> = {1} /\ <<credit>>[1] = credit /\ <<credit>> # << >>
        /\ Offset(w, <<credit>>) = 0
    <3>1. DOMAIN <<credit>> = {1} /\ <<credit>>[1] = credit /\ <<credit>> # << >>
      OBVIOUS
    <3> QED
      BY <2>5, <3>1 DEF Offset
  <2>9. Follows(0, <<credit>>, {e})
    <3>1. \A i \in DOMAIN <<credit>> : e.op = <<credit>>[i].op /\ e.version = i + 0
      BY <2>3, <2>5, <2>8
    <3>2. e.version - 0 \in DOMAIN <<credit>>
      BY <2>3, <2>8
    <3> QED
      BY <3>1, <3>2 DEF Follows
  <2>10. ASSUME NEW v \in Wallets
         PROVE  Follows(Offset(v, ledger'[v]), ledger'[v], BalanceEventsOf(v)')
    <3>1. CASE v = w
      BY <2>4, <2>7, <2>8, <2>9, <3>1
    <3>2. CASE v # w
      BY <1>2, <2>4, <2>7, <2>10, <3>2
    <3> QED
      BY <3>1, <3>2
  <2> QED
    BY <2>10, EachWalletFollows
<1>5. CASE ~(b > 0)
  <2>1. ledger' = ledger /\ outbox' = outbox
    BY <1>5 DEF OpenWallet
  <2>2. \A v \in Wallets : BalanceEventsOf(v)' = BalanceEventsOf(v)
    BY <2>1 DEF BalanceEventsOf
  <2> QED
    BY <1>2, <2>1, <2>2, EachWalletFollows
<1> QED
  BY <1>4, <1>5

\* Read by sequence, the balance events of a wallet are its ledger, entry by
\* entry, with the versions of the wallet in step: whoever follows the events
\* knows the balance (record and OpenWallet, inserting in one transaction).
THEOREM EventsTellLedger == Spec => []BalanceEventsFollowLedger
<1>1. Init => EventInv /\ OutcomeInv /\ AnnounceInv /\ BalanceEventsFollowLedger
  BY DEF Init, EventInv, OutboxFollowsCommitOrder, OutcomeInv, AnnounceInv,
         BalanceEventsFollowLedger, BalanceEventsOf
<1>2. /\ SettledInv /\ EventInv /\ OutcomeInv /\ AnnounceInv /\ [Next]_vars
      => EventInv' /\ OutcomeInv' /\ AnnounceInv'
  BY EventInvHolds, OutcomeInvHolds, AnnounceInvHolds DEF SettledInv
<1>3. ASSUME AnnouncedInv, [Next]_vars
      PROVE  BalanceEventsFollowLedger'
  <2>1. CASE UNCHANGED <<ledger, outbox>>
    <3>1. \A w \in Wallets : BalanceEventsOf(w)' = BalanceEventsOf(w) /\ ledger'[w] = ledger[w]
      BY <2>1 DEF BalanceEventsOf
    <3>2. \A w \in Wallets : Follows(Offset(w, ledger[w]), ledger[w], BalanceEventsOf(w))
      BY <1>3, FollowsEachWallet DEF AnnouncedInv
    <3> QED
      BY <3>1, <3>2, EachWalletFollows
  <2>2. \/ \E s \in Sessions : Commit(s)
        \/ \E w \in Wallets, b \in OpeningBalances : OpenWallet(w, b)
        \/ UNCHANGED <<ledger, outbox>>
    BY <1>3 DEF Next, Settling, Receive, Lease, GetForUpdate, WalletNotFound, FindReplay,
                Reload, FindReference, Conclude, Save, Write, Rollback, Return, tables, vars
  <2> QED
    BY <1>3, <2>1, <2>2, CommitAnnounces, OpenWalletAnnounces
<1>4. /\ SettledInv /\ EventInv /\ OutcomeInv /\ AnnounceInv /\ LedgerExplainsBalance
      /\ BalanceEventsFollowLedger /\ [Next]_vars
      => BalanceEventsFollowLedger'
  BY <1>3 DEF AnnouncedInv
<1> QED
  BY <1>1, <1>2, <1>4, SettledInvHolds, LedgerIsExact, PTL DEF Spec

-----------------------------------------------------------------------------
(* What became of an operation is announced once *)

\* The outcome events of an operation among the events E.
Outcomes(name, E) == {e \in E : e.op = name /\ ~Changes(e)}

\* E says what became of u, after it said that u waited, if u did; while u waits
\* it has said nothing else.
Tells(u, E) ==
  \E e \in E :
    /\ e.type = OutcomeEvent(u)
    /\ e.wallet = u.request.wallet
    /\ \A f \in E \ {e} : /\ f.type = "WagerTransactionPendingReference"
                          /\ f.seq < e.seq
                          /\ E = {e, f}
    /\ u.state = "PENDING_REFERENCE" => E = {e}

\* What a session is about to commit comes with the one event that tells it, or
\* goes on waiting without any.
ToldBy(s) ==
  /\ s \in Workers /\ pc[s] = "Write" => \A t \in tx[s] : t.state # "PENDING_REFERENCE"
  /\ pc[s] = "Commit" => \A t \in tx[s] :
       \/ events[s] = {} /\ s \in Workers /\ t.state = "PENDING_REFERENCE"
       \/ /\ s \in Workers => t.state # "PENDING_REFERENCE"
          /\ \A f \in events[s] : f.op = NameOf(t.request)
          /\ \E e \in events[s] : /\ e.type = OutcomeEvent(t)
                                 /\ e.wallet = t.request.wallet
                                 /\ \A f \in events[s] : ~Changes(f) => f = e

\* Events are of recorded operations and of openings, and tell of each what it is.
ToldInv ==
  /\ \A u \in ops : Tells(u, Outcomes(NameOf(u.request), outbox))
  /\ \A e \in outbox : \/ \E w \in Wallets : e.op = OpeningName(w)
                       \/ \E u \in ops : NameOf(u.request) = e.op
  /\ \A s \in Sessions : ToldBy(s)

\* Write inserts the one event that tells the outcome.
LEMMA WriteTells ==
  ASSUME TypeInv, SessionInv, ToldInv, NEW s \in Sessions, Write(s)
  PROVE  ToldBy(s)'
<1>1. PICK t \in tx[s] : \E last \in LastSequence(t.request.wallet) :
        events' = [events EXCEPT ![s] =
                     NewEvents(last, t.request.wallet, NameOf(t.request),
                               OutcomeEvent(t), entry[s], loaded[s].version + 1)]
  BY DEF Write
<1>2. PICK last \in LastSequence(t.request.wallet) :
        events' = [events EXCEPT ![s] =
                     NewEvents(last, t.request.wallet, NameOf(t.request),
                               OutcomeEvent(t), entry[s], loaded[s].version + 1)]
  BY <1>1
<1> DEFINE new == NewEvents(last, t.request.wallet, NameOf(t.request),
                            OutcomeEvent(t), entry[s], loaded[s].version + 1)
           told == NewEvent(last + 1, t.request.wallet, NameOf(t.request), OutcomeEvent(t), 0)
<1>3. events'[s] = new
  BY <1>2 DEF TypeInv
<1>4. /\ told \in new
      /\ told.type = OutcomeEvent(t)
      /\ told.wallet = t.request.wallet
      /\ \A f \in new : f.op = NameOf(t.request)
      /\ \A f \in new : ~Changes(f) => f = told
  BY DEF NewEvents, NewEvent, Changes
<1>5. /\ pc[s] = "Write" /\ pc'[s] = "Commit" /\ tx' = tx
      /\ \A u \in tx[s] : u = t
      /\ s \in Workers => t.state # "PENDING_REFERENCE"
  BY DEF Write, Goto, TypeInv, SessionInv, ToldInv, ToldBy
<1> HIDE DEF new, told
<1> QED
  BY <1>3, <1>4, <1>5 DEF ToldBy, Changes

\* A worker's attempt that leaves the operation waiting is not announced.
LEMMA SaveTells ==
  ASSUME TypeInv, SessionInv, EventInv, NEW s \in Sessions, Save(s)
  PROVE  ToldBy(s)'
<1>1. tx' = tx /\ \A t, u \in tx[s] : t = u
  BY DEF Save, SessionInv
<1>2. CASE s \in Callers
  <2>1. pc'[s] \in {"Write", "conflict"}
    BY <1>2 DEF Save, Create, EndSession, Goto, TypeInv
  <2> QED
    BY <1>2, <2>1, SessionsAssumption DEF ToldBy
<1>3. CASE s \notin Callers
  <2>1. PICK t \in tx[s] : UpdatePendingReference(s, t)
    BY <1>3 DEF Save
  <2>2. pc'[s] = (IF t.state = "PENDING_REFERENCE" THEN "Commit" ELSE "Write")
    BY <2>1 DEF UpdatePendingReference, Goto, TypeInv
  <2>3. events'[s] = {} /\ s \in Workers
    BY <1>3, <2>1 DEF UpdatePendingReference, Save, EventInv, Sessions
  <2> QED
    BY <1>1, <2>1, <2>2, <2>3 DEF ToldBy
<1> QED
  BY <1>2, <1>3

\* A session tells what it is about to commit.
LEMMA StepTells ==
  ASSUME TypeInv, SessionInv, EventInv, ToldInv, NEW s \in Sessions, SessionStep(s)
  PROVE  ToldBy(s)'
<1>1. CASE ~(Save(s) \/ Write(s))
  <2>1. pc'[s] \notin {"Write", "Commit"}
    BY <1>1 DEF SessionStep, Settling, Receive, Lease, GetForUpdate, WalletNotFound,
         FindReplay, Reload, FindReference, Conclude, Commit, Rollback, Return,
         EndSession, Goto, TypeInv
  <2> QED
    BY <2>1 DEF ToldBy
<1> QED
  BY <1>1, SaveTells, WriteTells

\* A commit adds the event of its operation to those of it, and to no others.
LEMMA CommitTells ==
  ASSUME SettledInv, EventInv, ToldInv, NEW s \in Sessions, Commit(s)
  PROVE  /\ \A u \in ops' : Tells(u, Outcomes(NameOf(u.request), outbox'))
         /\ \A e \in outbox' : \/ \E w \in Wallets : e.op = OpeningName(w)
                               \/ \E u \in ops' : NameOf(u.request) = e.op
<1> USE DEF SettledInv
<1>1. PICK t \in tx[s] :
        /\ ops' = (ops \ RowsNamed(NameOf(t.request))) \cup {t}
        /\ s \in Callers => RowsNamed(NameOf(t.request)) = {}
        /\ \A u \in RowsNamed(NameOf(t.request)) : u.request = t.request
  BY CommitReplaces
<1> DEFINE name == NameOf(t.request)
<1>2. pc[s] = "Commit" /\ outbox' = outbox \cup events[s]
  BY DEF Commit
<1>3. t.request \in Requests /\ \A w \in Wallets : name # OpeningName(w)
  BY NamesAssumption DEF TypeInv, Counted, Row
<1>4. \A f \in events[s] : f.op = name
  BY <1>2 DEF ToldInv, ToldBy
<1>5. ASSUME NEW u \in ops, NameOf(u.request) # name
      PROVE  Tells(u, Outcomes(NameOf(u.request), outbox'))
  <2>1. Outcomes(NameOf(u.request), outbox') = Outcomes(NameOf(u.request), outbox)
    BY <1>2, <1>4, <1>5 DEF Outcomes
  <2> QED
    BY <2>1 DEF ToldInv
<1>6. Outcomes(name, outbox') = Outcomes(name, outbox) \cup Outcomes(name, events[s])
  BY <1>2 DEF Outcomes
\* The operation waited before, and that is all that was told of it.
<1>7. ASSUME s \in Workers
      PROVE  \E f \in outbox : /\ f.type = "WagerTransactionPendingReference"
                               /\ f.wallet = t.request.wallet
                               /\ Outcomes(name, outbox) = {f}
  <2>1. PICK u \in ops : Advances(u, t)
    BY <1>2, <1>7 DEF CopyInv
  <2>2. Tells(u, Outcomes(name, outbox)) /\ u.state = "PENDING_REFERENCE"
    BY <2>1 DEF ToldInv, Advances
  <2>3. PICK f \in Outcomes(name, outbox) :
          /\ f.type = OutcomeEvent(u)
          /\ f.wallet = u.request.wallet
          /\ Outcomes(name, outbox) = {f}
    BY <2>2 DEF Tells
  <2>4. f \in outbox
    BY <2>3 DEF Outcomes
  <2> QED
    BY <2>1, <2>2, <2>3, <2>4 DEF OutcomeEvent, Advances
<1>8. Tells(t, Outcomes(name, outbox'))
  <2>1. CASE events[s] = {} /\ s \in Workers /\ t.state = "PENDING_REFERENCE"
    <3>1. PICK f \in outbox : /\ f.type = "WagerTransactionPendingReference"
                              /\ f.wallet = t.request.wallet
                              /\ Outcomes(name, outbox) = {f}
      BY <1>7, <2>1
    <3>2. Outcomes(name, outbox') = {f}
      BY <1>6, <2>1, <3>1 DEF Outcomes
    <3>3. f.type = OutcomeEvent(t)
      BY <2>1, <3>1 DEF OutcomeEvent
    <3> QED
      BY <3>1, <3>2, <3>3 DEF Tells
  <2>2. CASE /\ s \in Workers => t.state # "PENDING_REFERENCE"
             /\ \E e \in events[s] : /\ e.type = OutcomeEvent(t)
                                    /\ e.wallet = t.request.wallet
                                    /\ \A f \in events[s] : ~Changes(f) => f = e
    <3>1. PICK e \in events[s] : /\ e.type = OutcomeEvent(t)
                                 /\ e.wallet = t.request.wallet
                                 /\ \A f \in events[s] : ~Changes(f) => f = e
      BY <2>2
    <3>2. ~Changes(e)
      BY <3>1 DEF Changes, OutcomeEvent
    <3>3. Outcomes(name, events[s]) = {e}
      BY <1>4, <3>1, <3>2 DEF Outcomes
    <3>4. CASE s \in Callers
      <4>1. Outcomes(name, outbox) = {}
        BY <1>1, <1>3, <3>4 DEF ToldInv, Outcomes, RowsNamed
      <4>2. Outcomes(name, outbox') = {e}
        BY <1>6, <3>3, <4>1
      <4> QED
        BY <3>1, <4>2 DEF Tells
    <3>5. CASE s \in Workers
      <4>1. PICK f \in outbox : /\ f.type = "WagerTransactionPendingReference"
                                /\ f.wallet = t.request.wallet
                                /\ Outcomes(name, outbox) = {f}
        BY <1>7, <3>5
      <4>2. Outcomes(name, outbox') = {e, f}
        BY <1>6, <3>3, <4>1
      <4>3. f.seq < e.seq
        BY <3>1, <4>1 DEF EventInv, OutboxFollowsCommitOrder
      <4>4. t.state # "PENDING_REFERENCE"
        BY <2>2, <3>5
      <4> QED
        BY <3>1, <4>1, <4>2, <4>3, <4>4 DEF Tells
    <3> QED
      BY <3>4, <3>5 DEF Sessions
  <2> QED
    BY <1>2, <2>1, <2>2 DEF ToldInv, ToldBy
<1>9. ASSUME NEW u \in ops'
      PROVE  Tells(u, Outcomes(NameOf(u.request), outbox'))
  <2>1. u = t \/ (u \in ops /\ NameOf(u.request) # name)
    BY <1>1, <1>9 DEF RowsNamed
  <2> QED
    BY <1>5, <1>8, <2>1
<1>10. \A u \in ops : \E v \in ops' : NameOf(v.request) = NameOf(u.request)
  BY <1>1 DEF RowsNamed
<1>11. ASSUME NEW e \in outbox'
       PROVE  \/ \E w \in Wallets : e.op = OpeningName(w)
              \/ \E u \in ops' : NameOf(u.request) = e.op
  <2>1. CASE e \in outbox
    BY <1>10, <2>1 DEF ToldInv
  <2>2. CASE e \in events[s]
    BY <1>1, <1>4, <2>2
  <2> QED
    BY <1>2, <1>11, <2>1, <2>2
<1> QED
  BY <1>9, <1>11

\* An opening is the outcome of no operation.
LEMMA OpenWalletTellsNothing ==
  ASSUME TypeInv, ToldInv, NEW w \in Wallets, NEW b \in OpeningBalances, OpenWallet(w, b)
  PROVE  /\ \A u \in ops : Outcomes(NameOf(u.request), outbox')
                              = Outcomes(NameOf(u.request), outbox)
         /\ \A e \in outbox' : e \in outbox \/ e.op = OpeningName(w)
<1>1. \A u \in ops : NameOf(u.request) # OpeningName(w)
  BY NamesAssumption DEF TypeInv, Counted, Row
<1>2. \A e \in outbox' : e \in outbox \/ e.op = OpeningName(w)
  BY DEF OpenWallet, NewEvents, NewEvent
<1>3. outbox \subseteq outbox'
  BY DEF OpenWallet
<1> QED
  BY <1>1, <1>2, <1>3 DEF Outcomes

\* Nothing is told twice, or of nobody.
LEMMA ToldInvHolds ==
  ASSUME SettledInv, EventInv, ToldInv, [Next]_vars
  PROVE  ToldInv'
<1> USE DEF SettledInv
<1>1. ASSUME UNCHANGED <<ops, outbox>>, \A s \in Sessions : ToldBy(s)'
      PROVE  ToldInv'
  BY <1>1 DEF ToldInv
<1>2. ASSUME NEW s \in Sessions, SessionStep(s)
      PROVE  ToldInv'
  <2>1. ASSUME NEW z \in Sessions
        PROVE  ToldBy(z)'
    <3>1. CASE z = s
      BY <1>2, <3>1, StepTells
    <3>2. CASE z # s
      <4>1. pc'[z] = pc[z] /\ tx'[z] = tx[z] /\ events'[z] = events[z]
        BY <1>2, <3>2, OthersKeep
      <4> QED
        BY <4>1 DEF ToldInv, ToldBy, Changes
    <3> QED
      BY <3>1, <3>2
  <2>2. CASE Commit(s)
    BY <2>1, <2>2, CommitTells DEF ToldInv
  <2>3. Commit(s) \/ UNCHANGED <<ops, outbox>>
    BY <1>2 DEF SessionStep, Settling, Receive, Lease, GetForUpdate, WalletNotFound,
         FindReplay, Reload, FindReference, Conclude, Save, Write, Rollback, Return, tables
  <2> QED
    BY <1>1, <2>1, <2>2, <2>3
<1>3. ASSUME NEW w \in Wallets, NEW b \in OpeningBalances, OpenWallet(w, b)
      PROVE  ToldInv'
  <2>1. ops' = ops /\ UNCHANGED <<pc, tx, events>>
    BY <1>3 DEF OpenWallet, session
  <2>2. \A s \in Sessions : ToldBy(s)'
    BY <2>1 DEF ToldInv, ToldBy, Changes
  <2>3. /\ \A u \in ops : Outcomes(NameOf(u.request), outbox')
                             = Outcomes(NameOf(u.request), outbox)
        /\ \A e \in outbox' : e \in outbox \/ e.op = OpeningName(w)
    BY <1>3, OpenWalletTellsNothing
  <2>4. \A u \in ops' : Tells(u, Outcomes(NameOf(u.request), outbox'))
    BY <2>1, <2>3 DEF ToldInv
  <2>5. \A e \in outbox' : \/ \E v \in Wallets : e.op = OpeningName(v)
                            \/ \E u \in ops' : NameOf(u.request) = e.op
    BY <2>1, <2>3 DEF ToldInv
  <2> QED
    BY <2>2, <2>4, <2>5 DEF ToldInv
<1>4. CASE UNCHANGED vars
  <2>1. \A s \in Sessions : ToldBy(s)'
    BY <1>4 DEF ToldInv, ToldBy, Changes, vars
  <2> QED
    BY <1>1, <1>4, <2>1 DEF vars
<1> QED
  BY <1>2, <1>3, <1>4, StepsAre

\* record inserts exactly one event of what became of an operation, and a retry
\* that leaves it waiting none: a follower hears once that it waits, if it does,
\* and once, later, how it was concluded.
THEOREM OutcomesAreTold == Spec => []OutcomeIsAnnouncedOnce
<1>1. Init => EventInv /\ ToldInv
  BY DEF Init, EventInv, OutboxFollowsCommitOrder, ToldInv, ToldBy
<1>2. SettledInv /\ EventInv /\ [Next]_vars => EventInv'
  BY EventInvHolds DEF SettledInv
<1>3. SettledInv /\ EventInv /\ ToldInv /\ [Next]_vars => ToldInv'
  BY ToldInvHolds
<1>4. ToldInv => OutcomeIsAnnouncedOnce
  <2> SUFFICES ASSUME ToldInv, NEW u \in ops
               PROVE  \E e \in OutcomeEventsOf(u) :
                        /\ e.type = OutcomeEvent(u)
                        /\ e.wallet = u.request.wallet
                        /\ \A f \in OutcomeEventsOf(u) \ {e} :
                             /\ f.type = "WagerTransactionPendingReference"
                             /\ f.seq < e.seq
                             /\ OutcomeEventsOf(u) = {e, f}
    BY DEF OutcomeIsAnnouncedOnce
  <2>1. OutcomeEventsOf(u) = Outcomes(NameOf(u.request), outbox)
    BY DEF OutcomeEventsOf, Outcomes, Changes
  <2>2. Tells(u, OutcomeEventsOf(u))
    BY <2>1 DEF ToldInv
  <2> QED
    BY <2>2 DEF Tells
<1> QED
  BY <1>1, <1>2, <1>3, <1>4, SettledInvHolds, PTL DEF Spec

-----------------------------------------------------------------------------
(* What an outcome rests on *)

\* A row the request may be settled against.
Resolves(r, v) ==
  v \in RowsNamed(ReferenceName(r)) /\ ResolveReference(r, v) = NoFailure

Fits(r) == r.player = Owner[r.wallet] /\ r.currency = CurrencyOf[r.wallet]

\* What a bet, a win or a refund does to the balance.
Signed(kind, amount) == IF kind = "BET" THEN -amount ELSE amount

\* What the request, applied, does to the balance.
Gives(r, effect) ==
  \/ r.kind \in {"BET", "WIN"} /\ effect = Signed(r.kind, r.amount)
  \/ /\ IsReversal(r.kind)
     /\ \E v \in ops : Resolves(r, v) /\ effect = -Signed(v.request.kind, r.amount)

\* The reference is missing or undecided, as far as its wallet is concerned.
Unresolved(r) ==
  /\ r.ref # NoReference
  /\ \A v \in RowsNamed(ReferenceName(r)) :
       v.request.wallet = r.wallet => ~IsTerminal(v.state)

Contradicts(r, v) ==
  /\ v \in RowsNamed(ReferenceName(r))
  /\ IsTerminal(v.state)
  /\ \/ ResolveReference(r, v) # NoFailure
     \/ IsReversal(r.kind) /\ HasProcessedReversal(ReferenceName(r))

LeavesWaiting(s, t) ==
  /\ t.state = "PENDING_REFERENCE" \/ (s \in Workers /\ t.state = "REJECTED")
  /\ Unresolved(t.request)

Applies(t, made) ==
  /\ t.state = "PROCESSED"
  /\ t.failureCode # "REFERENCE_NOT_FOUND"
  /\ Fits(t.request)
  /\ t.request.ref = NoReference \/ \E v \in ops : Resolves(t.request, v)
  /\ \A e \in made : /\ e.after \in 0..MaxBalance
                     /\ Gives(t.request, e.after - e.before)

Refuses(t, balance) ==
  /\ t.state = "REJECTED"
  /\ t.failureCode # "REFERENCE_NOT_FOUND"
  /\ \/ ~Fits(t.request)
     \/ \E v \in ops : Contradicts(t.request, v)
     \/ \E effect \in Int : Gives(t.request, effect) /\ balance + effect < 0

Verdict(s, t) ==
  \/ LeavesWaiting(s, t)
  \/ Applies(t, entry[s])
  \/ Refuses(t, loaded[s].balance)

\* What findReference read is, where it matters, what is on record.
ReadInv ==
  \A s \in Sessions : pc[s] = "Conclude" => \A t \in tx[s] :
    /\ \A v \in reference[s] : IsTerminal(v.state) =>
         v \in RowsNamed(ReferenceName(t.request))
    /\ t.request.ref # NoReference =>
         \A v \in RowsNamed(ReferenceName(t.request)) :
           v.request.wallet = t.request.wallet => v \in reference[s]

VerdictInv ==
  \A s \in Sessions : pc[s] \in {"Save", "Write", "Commit"} =>
    \A t \in tx[s] : Verdict(s, t)

\* Requests in the tables and in hand passed NewExternal, and balances fit.
ValidInv ==
  /\ \A s \in Sessions : \A t \in tx[s] : IsValidRequest(t.request)
  /\ \A u \in ops : IsValidRequest(u.request)
  /\ \A w \in Wallets : wallets[w].balance <= MaxBalance

-----------------------------------------------------------------------------
(* Conclude has a reason for what it decides *)

\* The state an outcome is in, and the entry it comes with.
LEMMA SettleOutcome ==
  ASSUME TypeInv, NEW s \in Sessions, entry[s] = {}, NEW t \in Row,
         NEW refusal, NEW direction, Settle(s, t, refusal, direction)
  PROVE  \E u : /\ tx'[s] = {u} /\ u.request = t.request
                /\ u.failureCode \in {t.failureCode, refusal}
                /\ \/ /\ refusal # NoFailure
                      /\ u.state = "REJECTED"
                      /\ entry'[s] = {}
                   \/ /\ refusal = NoFailure
                      /\ u.state = "PROCESSED"
                      /\ t.request.kind # "LOSS"
                      /\ ~Overflows(direction, loaded[s].balance, t.request.amount)
                      /\ \A e \in entry'[s] :
                           /\ e.before = loaded[s].balance
                           /\ e.after = BalanceAfter(direction, e.before, t.request.amount)
                   \/ /\ refusal = NoFailure
                      /\ u.state = "PROCESSED"
                      /\ entry'[s] = {}
<1> DEFINE balance == loaded[s].balance
           e == NewEntry(t, direction, balance)
<1>1. CASE /\ refusal # NoFailure
           /\ tx' = [tx EXCEPT ![s] = {MarkRejected(t, refusal)}]
           /\ UNCHANGED entry
  <2>1. tx'[s] = {MarkRejected(t, refusal)} /\ entry'[s] = {}
    BY <1>1 DEF TypeInv
  <2>2. /\ MarkRejected(t, refusal).state = "REJECTED"
        /\ MarkRejected(t, refusal).request = t.request
        /\ MarkRejected(t, refusal).failureCode = refusal
    BY DEF MarkRejected, Row
  <2> QED
    BY <1>1, <2>1, <2>2
<1>2. CASE /\ refusal = NoFailure
           /\ Moves(t.request.kind)
           /\ ~Overflows(direction, balance, t.request.amount)
           /\ tx' = [tx EXCEPT ![s] = {MarkProcessed(t, e.after)}]
           /\ entry' = [entry EXCEPT ![s] = {e}]
  <2> DEFINE u == MarkProcessed(t, e.after)
  <2>1. tx'[s] = {u} /\ entry'[s] = {e}
    BY <1>2 DEF TypeInv
  <2>2. u.state = "PROCESSED" /\ u.request = t.request /\ u.failureCode = t.failureCode
    BY DEF MarkProcessed, Row
  <2>3. e.before = balance /\ e.after = BalanceAfter(direction, balance, t.request.amount)
    BY DEF NewEntry
  <2>4. t.request.kind # "LOSS"
    BY <1>2 DEF Moves
  <2> HIDE DEF u, e
  <2> QED
    BY <1>2, <2>1, <2>2, <2>3, <2>4
<1>3. CASE /\ refusal = NoFailure
           /\ tx' = [tx EXCEPT ![s] = {MarkProcessed(t, balance)}]
           /\ UNCHANGED entry
  <2>1. tx'[s] = {MarkProcessed(t, balance)} /\ entry'[s] = {}
    BY <1>3 DEF TypeInv
  <2>2. /\ MarkProcessed(t, balance).request = t.request
        /\ MarkProcessed(t, balance).state = "PROCESSED"
        /\ MarkProcessed(t, balance).failureCode = t.failureCode
    BY DEF MarkProcessed, Row
  <2> QED
    BY <1>3, <2>1, <2>2
<1> QED
  BY <1>1, <1>2, <1>3 DEF Settle

\* Direction and amount are the effect of the request.
LEMMA DirectionGives ==
  ASSUME NEW kind \in ExternalKinds, NEW referenceKind, NEW amount \in Nat,
         NEW balance \in Nat,
         IsReversal(kind) => referenceKind \in ReferableKinds(kind)
  PROVE  LET direction == DirectionOf(kind, referenceKind)
             change == IF direction = "DEBIT" THEN -amount ELSE amount
         IN  /\ direction \in {"DEBIT", "CREDIT"}
             /\ BalanceAfter(direction, balance, amount) - balance = change
             /\ ~IsReversal(kind) => change = Signed(kind, amount)
             /\ IsReversal(kind) => change = -Signed(referenceKind, amount)
BY DEF DirectionOf, BalanceAfter, Signed, IsReversal, ReferableKinds, ExternalKinds

\* What ResolveReference has agreed with.
LEMMA ResolvedIs ==
  ASSUME NEW r, NEW v, ResolveReference(r, v) = NoFailure
  PROVE  /\ v.request.kind \in ReferableKinds(r.kind)
         /\ v.state = "PROCESSED"
         /\ SharesContext(r, v.request)
         /\ IsReversal(r.kind) => v.request.amount = r.amount
BY DEF ResolveReference, NoFailure

\* What Apply refuses for when there is no reference to blame.
LEMMA RefusalIs ==
  ASSUME NEW r, NEW referenceKind, NEW balance
  PROVE  ApplyRefusal(r, referenceKind, balance) = NoFailure <=>
           /\ Fits(r)
           /\ ~ShortOfFunds(r.kind, DirectionOf(r.kind, referenceKind), balance, r.amount)
BY DEF ApplyRefusal, NoFailure, Fits

\* Concluded rows that stay keep the reasons that rest on them.
LEMMA ReasonsStay ==
  ASSUME \A u \in ops : IsTerminal(u.state) => u \in ops', NEW r, NEW v
  PROVE  /\ Resolves(r, v) => Resolves(r, v)'
         /\ \A effect : Gives(r, effect) => Gives(r, effect)'
         /\ Contradicts(r, v) => Contradicts(r, v)'
<1>1. ASSUME NEW x \in RowsNamed(ReferenceName(r)), IsTerminal(x.state)
      PROVE  x \in RowsNamed(ReferenceName(r))'
  BY <1>1 DEF RowsNamed
<1>2. ASSUME NEW x, Resolves(r, x)
      PROVE  Resolves(r, x)' /\ x \in ops /\ x \in ops'
  <2>1. IsTerminal(x.state) /\ x \in RowsNamed(ReferenceName(r))
    BY <1>2, ResolvedIs DEF Resolves, IsTerminal
  <2>2. x \in RowsNamed(ReferenceName(r))'
    BY <1>1, <2>1
  <2> QED
    BY <1>2, <2>1, <2>2 DEF Resolves, RowsNamed
<1>3. ASSUME NEW effect, Gives(r, effect)
      PROVE  Gives(r, effect)'
  BY <1>2, <1>3 DEF Gives
<1>4. HasProcessedReversal(ReferenceName(r)) => HasProcessedReversal(ReferenceName(r))'
  BY DEF HasProcessedReversal, ReversesProcessed, IsTerminal
<1>5. Contradicts(r, v) => Contradicts(r, v)'
  BY <1>1, <1>4 DEF Contradicts
<1> QED
  BY <1>2, <1>3, <1>5

\* Rows of the wallet that stay undecided leave the request unresolved.
LEMMA UnresolvedStays ==
  ASSUME NEW r, Unresolved(r),
         \A v \in ops' : v.request.wallet = r.wallet => v \in ops
  PROVE  Unresolved(r)'
BY DEF Unresolved, RowsNamed

\* The outcome of Settle is justified when its refusal, or its absence, is.
LEMMA SettleHasVerdict ==
  ASSUME TypeInv, ValidInv, NEW s \in Sessions, entry[s] = {},
         NEW t \in Row, IsValidRequest(t.request),
         t.failureCode # "REFERENCE_NOT_FOUND",
         loaded[s].balance \in 0..MaxBalance,
         NEW refusal, refusal # "REFERENCE_NOT_FOUND", NEW referenceKind,
         Settle(s, t, refusal, DirectionOf(t.request.kind, referenceKind)),
         refusal # NoFailure =>
           \/ ~Fits(t.request)
           \/ \E v \in ops : Contradicts(t.request, v)
           \/ ApplyRefusal(t.request, referenceKind, loaded[s].balance) # NoFailure
                /\ (t.request.ref # NoReference =>
                      \E v \in ops : Resolves(t.request, v) /\ v.request.kind = referenceKind),
         refusal = NoFailure =>
           /\ ApplyRefusal(t.request, referenceKind, loaded[s].balance) = NoFailure
           /\ t.request.ref # NoReference =>
                \E v \in ops : Resolves(t.request, v) /\ v.request.kind = referenceKind
  PROVE  \A u \in tx'[s] : /\ u.request = t.request
                           /\ Applies(u, entry'[s]) \/ Refuses(u, loaded[s].balance)
<1> DEFINE r == t.request
           balance == loaded[s].balance
           direction == DirectionOf(r.kind, referenceKind)
<1>1. r.kind \in ExternalKinds /\ (IsReversal(r.kind) => r.ref # NoReference)
  BY DEF IsValidRequest, ReferenceFits
<1>2. r.amount \in Nat /\ balance \in Nat
  BY RequestsAssumption, BoundsAssumption DEF Row
<1>3. PICK u :
        /\ tx'[s] = {u} /\ u.request = r
        /\ u.failureCode # "REFERENCE_NOT_FOUND"
        /\ \/ refusal # NoFailure /\ u.state = "REJECTED" /\ entry'[s] = {}
           \/ /\ refusal = NoFailure
              /\ u.state = "PROCESSED"
              /\ r.kind # "LOSS"
              /\ ~Overflows(direction, balance, r.amount)
              /\ \A e \in entry'[s] :
                   /\ e.before = balance
                   /\ e.after = BalanceAfter(direction, e.before, r.amount)
           \/ refusal = NoFailure /\ u.state = "PROCESSED" /\ entry'[s] = {}
  BY SettleOutcome
<1> DEFINE Known == r.ref # NoReference =>
                      \E v \in ops : Resolves(r, v) /\ v.request.kind = referenceKind
\* The movement is an effect of the request.
<1>4. ASSUME Known, r.kind # "LOSS"
      PROVE  /\ direction \in {"DEBIT", "CREDIT"}
             /\ BalanceAfter(direction, balance, r.amount) \in Int
             /\ Gives(r, BalanceAfter(direction, balance, r.amount) - balance)
             /\ direction = "DEBIT" =>
                  BalanceAfter(direction, balance, r.amount) = balance - r.amount
  <2>1. IsReversal(r.kind) => \E v \in ops : /\ Resolves(r, v)
                                             /\ v.request.kind = referenceKind
                                             /\ referenceKind \in ReferableKinds(r.kind)
    BY <1>1, <1>4, ResolvedIs DEF Resolves
  <2>2. /\ direction \in {"DEBIT", "CREDIT"}
        /\ ~IsReversal(r.kind) =>
             BalanceAfter(direction, balance, r.amount) - balance = Signed(r.kind, r.amount)
        /\ IsReversal(r.kind) =>
             BalanceAfter(direction, balance, r.amount) - balance = -Signed(referenceKind, r.amount)
    BY <1>1, <1>2, <2>1, DirectionGives
  <2>3. ~IsReversal(r.kind) => r.kind \in {"BET", "WIN"}
    BY <1>1, <1>4 DEF IsReversal, ExternalKinds
  <2>4. /\ BalanceAfter(direction, balance, r.amount) \in Int
        /\ direction = "DEBIT" => BalanceAfter(direction, balance, r.amount) = balance - r.amount
    BY <1>2 DEF BalanceAfter
  <2> QED
    BY <2>1, <2>2, <2>3, <2>4 DEF Gives
<1>5. CASE refusal # NoFailure
  <2>1. u.state = "REJECTED"
    BY <1>3, <1>5
  <2>2. CASE ~Fits(r) \/ \E v \in ops : Contradicts(r, v)
    BY <1>3, <2>1, <2>2 DEF Refuses
  <2>3. CASE Fits(r) /\ ApplyRefusal(r, referenceKind, balance) # NoFailure /\ Known
    <3>1. ShortOfFunds(r.kind, direction, balance, r.amount)
      BY <2>3, RefusalIs
    <3>2. r.kind # "LOSS" /\ direction = "DEBIT" /\ balance < r.amount
      BY <3>1 DEF ShortOfFunds, Moves
    <3> DEFINE effect == BalanceAfter(direction, balance, r.amount) - balance
    <3>3. effect \in Int /\ balance + effect < 0 /\ Gives(r, effect)
      BY <1>2, <1>4, <2>3, <3>2
    <3> HIDE DEF effect
    <3> QED
      BY <1>3, <2>1, <3>3 DEF Refuses
  <2> QED
    BY <1>5, <2>2, <2>3
<1>6. CASE refusal = NoFailure
  <2>1. ApplyRefusal(r, referenceKind, balance) = NoFailure /\ Known
    BY <1>6
  <2>2. Fits(r) /\ ~ShortOfFunds(r.kind, direction, balance, r.amount)
    BY <2>1, RefusalIs
  <2>3. u.state = "PROCESSED"
    BY <1>3, <1>6
  <2>4. ASSUME NEW e \in entry'[s]
        PROVE  e.after \in 0..MaxBalance /\ Gives(r, e.after - e.before)
    <3>1. /\ r.kind # "LOSS" /\ ~Overflows(direction, balance, r.amount)
          /\ e.before = balance /\ e.after = BalanceAfter(direction, balance, r.amount)
      BY <1>3, <1>6, <2>4
    <3>2. direction = "DEBIT" => balance >= r.amount
      BY <1>2, <2>2, <3>1 DEF ShortOfFunds, Moves
    <3>3. /\ direction \in {"DEBIT", "CREDIT"}
          /\ Gives(r, BalanceAfter(direction, balance, r.amount) - balance)
      BY <1>4, <2>1, <3>1
    <3>4. BalanceAfter(direction, balance, r.amount) \in 0..MaxBalance
      <4> HIDE DEF direction, balance, r
      <4> QED
        BY <1>2, <3>1, <3>2, <3>3, BoundsAssumption DEF BalanceAfter, Overflows, balance
    <3> QED
      BY <3>1, <3>3, <3>4
  <2> QED
    BY <1>3, <2>1, <2>2, <2>3, <2>4 DEF Applies
<1> QED
  BY <1>5, <1>6

\* The balance a session decides on is one the wallet may have.
LEMMA LoadedBalanceFits ==
  ASSUME TypeInv, LockInv, ValidInv, NEW s \in Sessions, pc[s] \in Holding, NEW t \in tx[s]
  PROVE  /\ loaded[s].balance \in 0..MaxBalance
         /\ loaded[s] = wallets[t.request.wallet]
         /\ t.request.wallet \in Wallets
<1>1. t.request.wallet \in Wallets
  BY RequestsAssumption DEF TypeInv, Counted, Row
<1>2. loaded[s] = wallets[t.request.wallet]
  BY DEF LockInv, LoadedWalletIsCurrent
<1>3. wallets[t.request.wallet].balance \in Nat
  BY <1>1 DEF TypeInv, WalletRow
<1> QED
  BY <1>1, <1>2, <1>3, BoundsAssumption DEF ValidInv

\* Waiting, or giving up, is justified by what findReference found.
LEMMA WaitHasVerdict ==
  ASSUME TypeInv, ReadInv, NEW s \in Sessions, pc[s] = "Conclude", NEW t \in tx[s],
         MustWait(t, reference[s]), Wait(s, t)
  PROVE  \A u \in tx'[s] : LeavesWaiting(s, u)
<1>1. Unresolved(t.request)
  BY DEF Unresolved, MustWait, ReadInv
<1>2. t \in Row
  BY DEF TypeInv, Counted
<1>3. CASE tx' = [tx EXCEPT ![s] = {MarkPendingReference(t)}]
  <2>1. /\ MarkPendingReference(t).request = t.request
        /\ MarkPendingReference(t).state = "PENDING_REFERENCE"
    BY <1>2 DEF MarkPendingReference, Row
  <2> QED
    BY <1>1, <1>3, <2>1 DEF LeavesWaiting, TypeInv
<1>4. CASE /\ s \in Workers
           /\ t.state = "PENDING_REFERENCE"
           /\ tx' = [tx EXCEPT ![s] = {RecordMissingReference(t)}]
  <2> DEFINE counted == [t EXCEPT !.attempts = t.attempts + 1]
  <2>1. /\ counted.request = t.request /\ counted.state = "PENDING_REFERENCE"
        /\ DOMAIN counted = DOMAIN t /\ {"state", "failureCode", "request"} \subseteq DOMAIN t
    BY <1>2, <1>4 DEF Row
  <2>2. \/ RecordMissingReference(t) = counted
        \/ RecordMissingReference(t) = [counted EXCEPT !.state = "REJECTED",
                                          !.failureCode = "REFERENCE_NOT_FOUND"]
    BY DEF RecordMissingReference, MarkRejected
  <2> HIDE DEF counted
  <2>3. /\ RecordMissingReference(t).request = t.request
        /\ RecordMissingReference(t).state \in {"PENDING_REFERENCE", "REJECTED"}
    BY <2>1, <2>2
  <2> QED
    BY <1>1, <1>4, <2>3 DEF LeavesWaiting, TypeInv
<1> QED
  BY <1>3, <1>4 DEF Wait

\* What conclude settles did not give up waiting.
LEMMA SettledWasUndecided ==
  ASSUME NEW t \in Counted, NEW s, NEW u, u.state = t.state, NEW refusal, NEW direction,
         Settle(s, u, refusal, direction)
  PROVE  t.failureCode # "REFERENCE_NOT_FOUND"
BY DEF Settle, CanTransitionTo, Counted, CountsAttempts, IsTerminal, NoFailure

\* The outcome of an operation settled against the row v.
LEMMA ReferenceHasVerdict ==
  ASSUME TypeInv, LockInv, ValidInv, ReadInv, NEW s \in Sessions, pc[s] = "Conclude",
         entry[s] = {}, NEW t \in tx[s], t.request.ref # NoReference,
         NEW v \in reference[s], IsTerminal(v.state),
         Settle(s, [t EXCEPT !.resolved = (ResolveReference(t.request, v) = NoFailure)],
                RefusalWith(t, v, loaded[s].balance),
                DirectionOf(t.request.kind, v.request.kind))
  PROVE  \A u \in tx'[s] : /\ u.request = t.request
                           /\ Applies(u, entry'[s]) \/ Refuses(u, loaded[s].balance)
<1> DEFINE r == t.request
           agreeing == [t EXCEPT !.resolved = (ResolveReference(r, v) = NoFailure)]
           refusal == RefusalWith(t, v, loaded[s].balance)
<1>1. t \in Row /\ t \in Counted /\ IsValidRequest(r)
  BY DEF TypeInv, Counted, ValidInv
<1>2. /\ agreeing \in Row /\ agreeing.request = r
      /\ agreeing.state = t.state /\ agreeing.failureCode = t.failureCode
  BY <1>1 DEF Row
<1>3. v \in RowsNamed(ReferenceName(r)) /\ v \in ops /\ NameOf(v.request) = ReferenceName(r)
  BY DEF ReadInv, RowsNamed
<1>4. loaded[s].balance \in 0..MaxBalance
  BY LoadedBalanceFits DEF Holding
<1>5. \/ ResolveReference(r, v) # NoFailure /\ refusal = ResolveReference(r, v)
      \/ /\ ResolveReference(r, v) = NoFailure
         /\ IsReversal(r.kind) /\ HasProcessedReversal(ReferenceName(r))
         /\ refusal # NoFailure
      \/ /\ ResolveReference(r, v) = NoFailure
         /\ refusal = ApplyRefusal(r, v.request.kind, loaded[s].balance)
  BY <1>3 DEF RefusalWith, NoFailure
<1>6. refusal # NoFailure =>
        \/ \E x \in ops : Contradicts(r, x)
        \/ ApplyRefusal(r, v.request.kind, loaded[s].balance) # NoFailure
             /\ \E x \in ops : Resolves(r, x) /\ x.request.kind = v.request.kind
  BY <1>3, <1>5 DEF Contradicts, Resolves
<1>7. refusal = NoFailure =>
        /\ ApplyRefusal(r, v.request.kind, loaded[s].balance) = NoFailure
        /\ \E x \in ops : Resolves(r, x) /\ x.request.kind = v.request.kind
  BY <1>3, <1>5 DEF Resolves
<1>8. Settle(s, agreeing, refusal, DirectionOf(agreeing.request.kind, v.request.kind))
  BY <1>2
<1>9. refusal # "REFERENCE_NOT_FOUND"
  BY RefusalIsACode DEF RejectionCodes, NoFailure
<1> HIDE DEF agreeing, refusal
<1>10. agreeing.failureCode # "REFERENCE_NOT_FOUND"
  BY <1>1, <1>2, <1>8, SettledWasUndecided
<1> QED
  BY <1>1, <1>2, <1>4, <1>6, <1>7, <1>8, <1>9, <1>10, SettleHasVerdict

\* conclude decides nothing without a reason.
LEMMA ConcludeHasVerdict ==
  ASSUME SettledInv, ValidInv, ReadInv, NEW s \in Sessions, Conclude(s)
  PROVE  \A u \in tx'[s] : Verdict(s, u)'
<1> USE DEF SettledInv
<1>1. PICK t \in tx[s] :
        \/ MustWait(t, reference[s]) /\ Wait(s, t)
        \/ /\ t.request.ref = NoReference
           /\ Settle(s, t, ApplyRefusal(t.request, "NONE", loaded[s].balance),
                     DirectionOf(t.request.kind, "NONE"))
        \/ /\ t.request.ref # NoReference
           /\ \E v \in reference[s] :
                /\ IsTerminal(v.state)
                /\ Settle(s, [t EXCEPT !.resolved = (ResolveReference(t.request, v) = NoFailure)],
                          RefusalWith(t, v, loaded[s].balance),
                          DirectionOf(t.request.kind, v.request.kind))
  BY DEF Conclude
<1>2. pc[s] = "Conclude" /\ ops' = ops /\ loaded' = loaded /\ entry[s] = {}
  BY DEF Conclude, tables, EntryInv
<1>3. \A u \in tx'[s] : \/ LeavesWaiting(s, u)
                        \/ Applies(u, entry'[s]) \/ Refuses(u, loaded[s].balance)
  <2>1. CASE MustWait(t, reference[s]) /\ Wait(s, t)
    BY <1>2, <2>1, WaitHasVerdict
  <2>2. CASE /\ t.request.ref = NoReference
             /\ Settle(s, t, ApplyRefusal(t.request, "NONE", loaded[s].balance),
                       DirectionOf(t.request.kind, "NONE"))
    <3> DEFINE refusal == ApplyRefusal(t.request, "NONE", loaded[s].balance)
               none == "NONE"
    <3>1. t \in Row /\ IsValidRequest(t.request)
      BY DEF TypeInv, Counted, ValidInv
    <3>2. loaded[s].balance \in 0..MaxBalance
      BY <1>2, LoadedBalanceFits DEF Holding
    <3>3. /\ Settle(s, t, refusal, DirectionOf(t.request.kind, none))
          /\ refusal = ApplyRefusal(t.request, none, loaded[s].balance)
      BY <2>2
    <3>4. refusal # "REFERENCE_NOT_FOUND"
      BY ApplyRefusalIsACode DEF RejectionCodes, NoFailure
    <3>5. t.failureCode # "REFERENCE_NOT_FOUND"
      BY <2>2, SettledWasUndecided DEF TypeInv
    <3> HIDE DEF refusal, none
    <3> QED
      BY <1>2, <2>2, <3>1, <3>2, <3>3, <3>4, <3>5, SettleHasVerdict
  <2>3. CASE /\ t.request.ref # NoReference
             /\ \E v \in reference[s] :
                  /\ IsTerminal(v.state)
                  /\ Settle(s, [t EXCEPT !.resolved = (ResolveReference(t.request, v) = NoFailure)],
                            RefusalWith(t, v, loaded[s].balance),
                            DirectionOf(t.request.kind, v.request.kind))
    BY <1>2, <2>3, ReferenceHasVerdict
  <2> QED
    BY <1>1, <2>1, <2>2, <2>3
<1>4. \A u \in ops : IsTerminal(u.state) => u \in ops'
  BY <1>2
<1>5. ASSUME NEW u, LeavesWaiting(s, u)
      PROVE  LeavesWaiting(s, u)'
  BY <1>2, <1>5 DEF LeavesWaiting, Unresolved, RowsNamed
<1>6. ASSUME NEW u, NEW made, Applies(u, made)
      PROVE  Applies(u, made)'
  BY <1>2, <1>4, <1>6, ReasonsStay DEF Applies
<1>7. ASSUME NEW u, NEW balance, Refuses(u, balance)
      PROVE  Refuses(u, balance)'
  BY <1>2, <1>4, <1>7, ReasonsStay DEF Refuses
<1> QED
  BY <1>2, <1>3, <1>5, <1>6, <1>7 DEF Verdict

-----------------------------------------------------------------------------
(* The reasons stay until the commit *)

\* Requests, reads and verdicts, together.
JustInv == ValidInv /\ ReadInv /\ VerdictInv

\* No step takes a concluded operation away.
LEMMA ConcludedStay ==
  ASSUME SettledInv, [Next]_vars
  PROVE  \A u \in ops : IsTerminal(u.state) => u \in ops'
BY StepAdvances DEF Advances, IsTerminal

\* While a session holds the lock of a wallet, others neither add nor remove a
\* row of it.
LEMMA LockedRowsStay ==
  ASSUME SettledInv, NEW s \in Sessions, SessionStep(s),
         NEW z \in Sessions \ {s}, pc[z] \in Holding, NEW t \in tx[z]
  PROVE  \A v \in ops' : v.request.wallet = t.request.wallet => v \in ops
<1>1. CASE Commit(s)
  <2>1. PICK v \in tx[s] : ops' = (ops \ RowsNamed(NameOf(v.request))) \cup {v}
    BY <1>1 DEF Commit
  <2>2. v.request.wallet # t.request.wallet
    BY <1>1 DEF Commit, Holding, LockInv, SettledInv
  <2> QED
    BY <2>1, <2>2
<1>2. Commit(s) \/ ops' = ops
  BY DEF SessionStep, Settling, Receive, Lease, GetForUpdate, WalletNotFound, FindReplay,
         Reload, FindReference, Conclude, Save, Write, Rollback, Return, tables
<1> QED
  BY <1>1, <1>2

\* A verdict that its reasons outlive stays a verdict.
LEMMA VerdictStays ==
  ASSUME NEW s, NEW t, Verdict(s, t),
         entry'[s] = entry[s], loaded'[s] = loaded[s],
         \A u \in ops : IsTerminal(u.state) => u \in ops',
         \A v \in ops' : v.request.wallet = t.request.wallet => v \in ops
  PROVE  Verdict(s, t)'
<1>1. ASSUME LeavesWaiting(s, t)
      PROVE  LeavesWaiting(s, t)'
  BY <1>1, UnresolvedStays DEF LeavesWaiting
<1>2. ASSUME NEW made, Applies(t, made)
      PROVE  Applies(t, made)'
  <2>1. t.request.ref = NoReference \/ \E v \in ops : Resolves(t.request, v) /\ v \in ops'
    <3>1. \A v \in ops : Resolves(t.request, v) => IsTerminal(v.state)
      BY ResolvedIs DEF Resolves, IsTerminal
    <3> QED
      BY <1>2, <3>1 DEF Applies
  <2> QED
    BY <1>2, <2>1, ReasonsStay DEF Applies
<1>3. ASSUME NEW balance, Refuses(t, balance)
      PROVE  Refuses(t, balance)'
  <2>1. \A v \in ops : Contradicts(t.request, v) => v \in ops'
    BY DEF Contradicts
  <2> QED
    BY <1>3, <2>1, ReasonsStay DEF Refuses
<1> QED
  BY <1>1, <1>2, <1>3 DEF Verdict

\* What a session settles passed NewExternal when it was received.
LEMMA HeldIsValid ==
  ASSUME TypeInv, SessionInv, ValidInv, NEW s \in Sessions, SessionStep(s)
  PROVE  \A t \in tx'[s] : IsValidRequest(t.request)
<1>1. CASE s \in Callers /\ \E r \in Requests : Receive(s, r)
  <2>1. PICK r \in Requests : IsValidRequest(r) /\ tx'[s] = {NewExternal(r)}
    BY <1>1 DEF Receive, TypeInv
  <2>2. NewExternal(r).request = r
    BY DEF NewExternal
  <2> QED
    BY <2>1, <2>2
<1>2. CASE s \in Workers /\ \E t \in ops : Lease(s, t)
  BY <1>2 DEF Lease, TypeInv, ValidInv
<1>3. CASE GetForUpdate(s) \/ WalletNotFound(s) \/ Rollback(s) \/ Return(s)
  BY <1>3 DEF GetForUpdate, WalletNotFound, Rollback, Return, TypeInv, ValidInv
<1>4. CASE FindReplay(s) \/ Reload(s)
  BY <1>4 DEF FindReplay, Reload, RowsNamed, TypeInv, ValidInv
<1>5. CASE Conclude(s)
  <2>1. \A u \in tx'[s] : \E t \in tx[s] : u.request = t.request
    BY <1>5, ConcludeKeepsRequest DEF TypeInv
  <2> QED
    BY <2>1 DEF ValidInv
<1>6. CASE FindReference(s) \/ Save(s) \/ Write(s)
  BY <1>6 DEF FindReference, Save, Write, ValidInv
<1>7. CASE Commit(s)
  <2>1. tx'[s] \subseteq tx[s]
    BY <1>7 DEF Commit, TypeInv
  <2> QED
    BY <2>1 DEF ValidInv
<1> QED
  BY <1>1, <1>2, <1>3, <1>4, <1>5, <1>6, <1>7 DEF SessionStep, Settling

\* An entry about to be committed leaves a balance the wallet may have.
LEMMA EntryApplies ==
  ASSUME OutcomeInv, VerdictInv, NEW s \in Sessions, pc[s] = "Commit", NEW t \in tx[s]
  PROVE  entry[s] # {} => Applies(t, entry[s])
<1>1. Verdict(s, t) /\ Accounts(t, entry[s])
  BY DEF VerdictInv, OutcomeInv
<1> QED
  BY <1>1 DEF Verdict, LeavesWaiting, Refuses, Accounts

\* What an entry leaves is a balance the wallet may have.
LEMMA BalancesFit ==
  ASSUME SettledInv, OutcomeInv, JustInv, [Next]_vars
  PROVE  \A w \in Wallets : wallets'[w].balance <= MaxBalance
<1> USE DEF SettledInv, JustInv
<1>1. ASSUME NEW w \in Wallets, NEW b \in OpeningBalances, OpenWallet(w, b)
      PROVE  \A v \in Wallets : wallets'[v].balance <= MaxBalance
  <2>1. wallets' = [wallets EXCEPT ![w] = [open |-> TRUE, balance |-> b, version |-> 1]]
    BY <1>1 DEF OpenWallet
  <2>2. b \in 0..MaxBalance
    BY OpeningAssumption
  <2> QED
    BY <2>1, <2>2, BoundsAssumption DEF TypeInv, ValidInv
<1>2. ASSUME NEW s \in Sessions, Commit(s)
      PROVE  \A v \in Wallets : wallets'[v].balance <= MaxBalance
  <2>1. PICK t \in tx[s] :
          \/ wallets' = wallets
          \/ \E e \in entry[s] :
               wallets' = [wallets EXCEPT ![t.request.wallet] = Moved(loaded[s], e)]
    BY <1>2 DEF Commit
  <2>2. \A e \in entry[s] : e.after \in 0..MaxBalance
    BY <1>2, EntryApplies DEF Applies, Commit
  <2>3. \A e \in entry[s] : Moved(loaded[s], e).balance = e.after
    <3>1. loaded[s] \in WalletRow
      BY DEF TypeInv
    <3> QED
      BY <3>1 DEF Moved, WalletRow
  <2>4. ASSUME NEW v \in Wallets
        PROVE  wallets'[v] = wallets[v] \/ \E e \in entry[s] : wallets'[v] = Moved(loaded[s], e)
    BY <2>1 DEF TypeInv
  <2> QED
    BY <2>2, <2>3, <2>4, BoundsAssumption DEF ValidInv
<1>3. CASE wallets' = wallets
  BY <1>3 DEF ValidInv
<1>4. \/ \E s \in Sessions : Commit(s)
      \/ \E w \in Wallets, b \in OpeningBalances : OpenWallet(w, b)
      \/ wallets' = wallets
  BY DEF Next, Settling, Receive, Lease, GetForUpdate, WalletNotFound, FindReplay,
         Reload, FindReference, Conclude, Save, Write, Rollback, Return, tables, vars
<1> QED
  BY <1>1, <1>2, <1>3, <1>4

\* No step lets an invalid request or an oversized balance in.
LEMMA ValidInvHolds ==
  ASSUME SettledInv, OutcomeInv, JustInv, [Next]_vars
  PROVE  ValidInv'
<1> USE DEF SettledInv, JustInv
<1>1. \A w \in Wallets : wallets'[w].balance <= MaxBalance
  BY BalancesFit
<1>2. CASE \E s \in Sessions : SessionStep(s)
  <2>1. PICK s \in Sessions : SessionStep(s)
    BY <1>2
  <2>2. \A z \in Sessions : \A t \in tx'[z] : IsValidRequest(t.request)
    BY <2>1, HeldIsValid, OthersKeep DEF ValidInv
  <2>3. \A u \in ops' : u \in ops \/ u \in tx[s]
    BY <2>1 DEF SessionStep, Settling, Receive, Lease, GetForUpdate, WalletNotFound, FindReplay,
         Reload, FindReference, Conclude, Save, Write, Commit, Rollback, Return, tables
  <2> QED
    BY <1>1, <2>2, <2>3 DEF ValidInv
<1>3. CASE \E w \in Wallets, b \in OpeningBalances : OpenWallet(w, b)
  BY <1>1, <1>3 DEF OpenWallet, session, ValidInv
<1>4. CASE UNCHANGED vars
  BY <1>1, <1>4 DEF vars, ValidInv
<1> QED
  BY <1>2, <1>3, <1>4, StepsAre

\* What a session read is still what is on record, where it matters.
LEMMA ReadInvHolds ==
  ASSUME SettledInv, JustInv, NEW s \in Sessions, SessionStep(s), [Next]_vars
  PROVE  ReadInv'
<1> USE DEF SettledInv, JustInv
<1>1. ASSUME NEW z \in Sessions, z # s, pc[z] = "Conclude", NEW t \in tx[z]
      PROVE  /\ \A v \in reference[z] : IsTerminal(v.state) =>
                  v \in RowsNamed(ReferenceName(t.request))'
             /\ t.request.ref # NoReference =>
                  \A v \in RowsNamed(ReferenceName(t.request))' :
                    v.request.wallet = t.request.wallet => v \in reference[z]
  <2>1. \A v \in ops' : v.request.wallet = t.request.wallet => v \in ops
    BY <1>1, LockedRowsStay DEF Holding
  <2> QED
    BY <1>1, <2>1, ConcludedStay DEF ReadInv, RowsNamed
<1>2. reference'[s] = reference[s] \/ pc'[s] # "Conclude" \/ FindReference(s)
  BY DEF SessionStep, Settling, Receive, Lease, GetForUpdate, WalletNotFound, FindReplay,
         Reload, Conclude, Save, Write, Commit, Rollback, Return, Create,
         UpdatePendingReference, EndSession, Goto, TypeInv
<1>3. \A z \in Sessions \ {s} : reference'[z] = reference[z]
  BY DEF SessionStep, Settling, Receive, Lease, GetForUpdate, WalletNotFound, FindReplay,
         Reload, FindReference, Conclude, Save, Write, Commit, Rollback, Return, Create,
         UpdatePendingReference, EndSession, TypeInv
<1>4. CASE FindReference(s)
  <2>1. PICK t \in tx[s] :
          reference' = [reference EXCEPT ![s] =
                          IF t.request.ref = NoReference THEN {}
                          ELSE RowsNamed(ReferenceName(t.request))]
    BY <1>4 DEF FindReference
  <2>2. \A u \in tx[s] : u = t
    BY DEF SessionInv
  <2>3. tx' = tx /\ ops' = ops
    BY <1>4 DEF FindReference, tables
  <2>4. reference'[s] = IF t.request.ref = NoReference THEN {}
                        ELSE RowsNamed(ReferenceName(t.request))
    BY <2>1 DEF TypeInv
  <2>5. \A u \in tx'[s] :
          /\ \A v \in reference'[s] : v \in RowsNamed(ReferenceName(u.request))'
          /\ u.request.ref # NoReference =>
               \A v \in RowsNamed(ReferenceName(u.request))' : v \in reference'[s]
    BY <2>2, <2>3, <2>4 DEF RowsNamed
  <2> QED
    BY <1>1, <1>3, <2>5, OthersKeep DEF ReadInv
<1>5. CASE ~FindReference(s)
  <2>1. pc'[s] # "Conclude"
    BY <1>5 DEF SessionStep, Settling, Receive, Lease, GetForUpdate, WalletNotFound, FindReplay,
           Reload, Conclude, Save, Write, Commit, Rollback, Return, Create,
           UpdatePendingReference, EndSession, Goto, TypeInv
  <2> QED
    BY <1>1, <1>3, <2>1, OthersKeep DEF ReadInv
<1> QED
  BY <1>4, <1>5

\* The reason of an outcome stays until it is committed.
LEMMA VerdictInvHolds ==
  ASSUME SettledInv, JustInv, NEW s \in Sessions, SessionStep(s), [Next]_vars
  PROVE  VerdictInv'
<1> USE DEF SettledInv, JustInv
<1>1. ASSUME NEW z \in Sessions, z # s, pc[z] \in {"Save", "Write", "Commit"}, NEW t \in tx[z]
      PROVE  Verdict(z, t)'
  <2>1. Verdict(z, t) /\ entry'[z] = entry[z] /\ loaded'[z] = loaded[z]
    BY <1>1, OthersKeep DEF VerdictInv
  <2>2. \A v \in ops' : v.request.wallet = t.request.wallet => v \in ops
    BY <1>1, LockedRowsStay DEF Holding
  <2> QED
    BY <2>1, <2>2, ConcludedStay, VerdictStays
<1>2. pc'[s] \in {"Save", "Write", "Commit"} => \A t \in tx'[s] : Verdict(s, t)'
  <2>1. CASE Conclude(s)
    BY <2>1, ConcludeHasVerdict
  <2>2. CASE /\ pc[s] \in {"Save", "Write"}
             /\ tx'[s] = tx[s] /\ entry'[s] = entry[s] /\ loaded'[s] = loaded[s] /\ ops' = ops
    BY <2>2, ConcludedStay, VerdictStays DEF VerdictInv
  <2>3. CASE pc'[s] \notin {"Save", "Write", "Commit"}
    BY <2>3
  <2>4. \/ Conclude(s)
        \/ /\ pc[s] \in {"Save", "Write"}
           /\ tx'[s] = tx[s] /\ entry'[s] = entry[s] /\ loaded'[s] = loaded[s] /\ ops' = ops
        \/ pc'[s] \notin {"Save", "Write", "Commit"}
    BY DEF SessionStep, Settling, Receive, Lease, GetForUpdate, WalletNotFound, FindReplay,
           Reload, FindReference, Save, Write, Commit, Rollback, Return, Create,
           UpdatePendingReference, EndSession, Goto, TypeInv, tables
  <2> QED
    BY <2>1, <2>2, <2>3, <2>4
<1>3. \A z \in Sessions \ {s} : pc'[z] = pc[z] /\ tx'[z] = tx[z]
  BY OthersKeep
<1>4. ASSUME NEW z \in Sessions, pc'[z] \in {"Save", "Write", "Commit"}, NEW t \in tx'[z]
      PROVE  Verdict(z, t)'
  BY <1>1, <1>2, <1>3, <1>4
<1> QED
  BY <1>4 DEF VerdictInv

\* The invariants so far, taken together.
DecidedInv == SettledInv /\ OutcomeInv /\ MoneyInv /\ JustInv

\* All the invariants an outcome rests on hold together.
LEMMA DecidedInvHolds == Spec => []DecidedInv
<1>1. Init => OutcomeInv /\ MoneyInv /\ JustInv
  <2>1. ASSUME Init PROVE JustInv
    BY <2>1, BoundsAssumption DEF Init, JustInv, ValidInv, ReadInv, VerdictInv, ClosedWallet
  <2> QED
    BY <2>1 DEF Init, OutcomeInv, MoneyInv, MoneyMovesOnce
<1>2. ASSUME DecidedInv, [Next]_vars
      PROVE  OutcomeInv' /\ MoneyInv' /\ JustInv'
  <2>1. OutcomeInv' /\ MoneyInv'
    BY <1>2, OutcomeInvHolds, MoneyInvHolds DEF DecidedInv, SettledInv
  <2>2. ValidInv'
    BY <1>2, ValidInvHolds DEF DecidedInv
  <2>3. ReadInv' /\ VerdictInv'
    <3>1. ASSUME NEW s \in Sessions, SessionStep(s)
          PROVE  ReadInv' /\ VerdictInv'
      BY <1>2, <3>1, ReadInvHolds, VerdictInvHolds DEF DecidedInv
    <3>2. ASSUME NEW w \in Wallets, NEW b \in OpeningBalances, OpenWallet(w, b)
          PROVE  ReadInv' /\ VerdictInv'
      <4>1. ops' = ops /\ UNCHANGED session
        BY <3>2 DEF OpenWallet
      <4>2. ReadInv'
        BY <1>2, <4>1 DEF DecidedInv, JustInv, ReadInv, RowsNamed, session
      <4>3. ASSUME NEW s \in Sessions, pc'[s] \in {"Save", "Write", "Commit"}, NEW t \in tx'[s]
            PROVE  Verdict(s, t)'
        BY <1>2, <4>1, <4>3, VerdictStays DEF DecidedInv, JustInv, VerdictInv, session
      <4> QED
        BY <4>2, <4>3 DEF VerdictInv
    <3>3. CASE UNCHANGED vars
      <4>1. ReadInv'
        BY <1>2, <3>3 DEF DecidedInv, JustInv, ReadInv, RowsNamed, vars
      <4>2. ASSUME NEW s \in Sessions, pc'[s] \in {"Save", "Write", "Commit"}, NEW t \in tx'[s]
            PROVE  Verdict(s, t)'
        BY <1>2, <3>3, <4>2, VerdictStays DEF DecidedInv, JustInv, VerdictInv, vars
      <4> QED
        BY <4>1, <4>2 DEF VerdictInv
    <3> QED
      BY <1>2, <3>1, <3>2, <3>3, StepsAre
  <2> QED
    BY <2>1, <2>2, <2>3 DEF JustInv
<1>3. DecidedInv /\ [Next]_vars => OutcomeInv' /\ MoneyInv' /\ JustInv'
  BY <1>2
<1> QED
  BY <1>1, <1>3, SettledInvHolds, PTL DEF Spec, DecidedInv

-----------------------------------------------------------------------------
(* What the ledger says of an operation *)

\* EffectOn for an explicit ledger l.
EffectIn(l, name) ==
  LET changes == {l[i].after - l[i].before : i \in Named(l, name)}
  IN  IF changes = {} THEN 0 ELSE CHOOSE c \in changes : TRUE

\* The effect of an operation, read in the ledger of its wallet.
LEMMA EffectOfEach ==
  \A u : EffectOn(u) = EffectIn(ledger[u.request.wallet], NameOf(u.request))
BY DEF EffectOn, EffectIn, EntriesOf, Named

\* The same of the next state.
LEMMA NextEffectOfEach ==
  ASSUME NEW u
  PROVE  EffectOn(u)' = EffectIn(ledger'[u.request.wallet], NameOf(u.request))
BY DEF EffectOn, EffectIn, EntriesOf, Named

\* An operation without an entry has no effect.
LEMMA NoEntryNoEffect ==
  ASSUME NEW l, NEW name, Named(l, name) = {}
  PROVE  EffectIn(l, name) = 0
BY DEF EffectIn

\* An entry of another operation leaves the effect as it was.
LEMMA OtherEntryNoEffect ==
  ASSUME NEW l \in Seq(Entry), NEW e \in Entry, NEW name, e.op # name
  PROVE  EffectIn(Append(l, e), name) = EffectIn(l, name)
<1>1. Named(Append(l, e), name) = Named(l, name)
  BY AppendNames
<1>2. \A i \in Named(l, name) : Append(l, e)[i] = l[i]
  BY AppendNames DEF Named
<1>3. {Append(l, e)[i].after - Append(l, e)[i].before : i \in Named(l, name)}
        = {l[i].after - l[i].before : i \in Named(l, name)}
  BY <1>2
<1> QED
  BY <1>1, <1>3 DEF EffectIn

\* The first entry of an operation is its effect.
LEMMA FirstEntryIsEffect ==
  ASSUME NEW l \in Seq(Entry), NEW e \in Entry, NEW name, e.op = name, Named(l, name) = {}
  PROVE  EffectIn(Append(l, e), name) = e.after - e.before
<1> DEFINE last == Len(l) + 1
<1>1. Named(Append(l, e), name) = Named(l, name) \cup {last}
  BY AppendNames
<1>2. Append(l, e)[last] = e
  OBVIOUS
<1> HIDE DEF last
<1>3. Named(Append(l, e), name) = {last}
  BY <1>1
<1>4. {Append(l, e)[i].after - Append(l, e)[i].before : i \in {last}} = {e.after - e.before}
  BY <1>2
<1>5. \A c : (CHOOSE x \in {c} : TRUE) = c
  OBVIOUS
<1> QED
  BY <1>3, <1>4, <1>5 DEF EffectIn

\* What a commit does to the effects of operations.
LEMMA CommitEffects ==
  ASSUME DecidedInv, NEW s \in Sessions, Commit(s), NEW t \in tx[s]
  PROVE  /\ ops' = (ops \ RowsNamed(NameOf(t.request))) \cup {t}
         /\ \A u \in ops : NameOf(u.request) # NameOf(t.request) =>
              EffectOn(u)' = EffectOn(u)
         /\ \A u \in RowsNamed(NameOf(t.request)) :
              u.request = t.request /\ EffectOn(u) = 0 /\ u.state = "PENDING_REFERENCE"
         /\ entry[s] = {} => EffectOn(t)' = 0
         /\ \A e \in entry[s] : EffectOn(t)' = e.after - e.before
<1> USE DEF DecidedInv, SettledInv
<1> DEFINE name == NameOf(t.request)
           w == t.request.wallet
<1>1. \A u \in tx[s] : u = t
  BY DEF SessionInv
<1>2. /\ ops' = (ops \ RowsNamed(name)) \cup {t}
      /\ s \in Callers => RowsNamed(name) = {}
      /\ \A u \in RowsNamed(name) : u.request = t.request
  BY <1>1, CommitReplaces
<1>3. \A v \in Wallets : Named(ledger[v], name) = {}
  BY <1>2, NothingMovedYet DEF Commit
<1>4. w \in Wallets /\ \A u \in ops : u.request.wallet \in Wallets
  BY RequestsAssumption DEF TypeInv, Counted, Row
<1>5. ASSUME NEW u \in RowsNamed(name)
      PROVE  EffectOn(u) = 0 /\ u.state = "PENDING_REFERENCE"
  <2>1. EffectOn(u) = 0
    BY <1>2, <1>3, <1>4, NoEntryNoEffect, EffectOfEach
  <2>2. s \in Workers
    BY <1>2, <1>5 DEF Sessions
  <2>3. PICK x \in ops : Advances(x, t)
    BY <2>2 DEF CopyInv, Commit
  <2>4. Clashes(u, x) /\ u \in ops
    BY <1>5, <2>3 DEF RowsNamed, Clashes, Advances
  <2>5. u = x
    BY <2>3, <2>4 DEF IndexInv
  <2> QED
    BY <2>1, <2>3, <2>5 DEF Advances
<1>6. CASE entry[s] = {}
  <2>1. ledger' = ledger
    BY <1>6 DEF Commit
  <2>2. \A u \in ops : EffectOn(u)' = EffectOn(u)
    BY <2>1, EffectOfEach, NextEffectOfEach
  <2>3. EffectOn(t)' = 0
    BY <1>3, <1>4, <2>1, NoEntryNoEffect, NextEffectOfEach
  <2> QED
    BY <1>2, <1>5, <1>6, <2>2, <2>3
<1>7. CASE entry[s] # {}
  <2>1. PICK e \in entry[s] : ledger' = [ledger EXCEPT ![w] = Append(@, e)]
    BY <1>1, <1>7 DEF Commit
  <2>2. e \in Entry /\ \A v \in Wallets : ledger[v] \in Seq(Entry)
    BY DEF TypeInv
  <2>3. /\ ledger'[w] = Append(ledger[w], e)
        /\ \A v \in Wallets \ {w} : ledger'[v] = ledger[v]
    BY <1>4, <2>1 DEF TypeInv
  <2>4. e.op = name
    BY DEF EntryInv
  <2>5. ASSUME NEW u \in ops, NameOf(u.request) # name
        PROVE  EffectOn(u)' = EffectOn(u)
    <3>1. EffectIn(Append(ledger[w], e), NameOf(u.request)) = EffectIn(ledger[w], NameOf(u.request))
      BY <1>4, <2>2, <2>4, <2>5, OtherEntryNoEffect
    <3> QED
      BY <1>4, <2>3, <3>1, EffectOfEach, NextEffectOfEach
  <2>6. EffectOn(t)' = e.after - e.before
    <3>1. EffectIn(Append(ledger[w], e), name) = e.after - e.before
      BY <1>3, <1>4, <2>2, <2>4, FirstEntryIsEffect
    <3> QED
      BY <2>3, <3>1, NextEffectOfEach
  <2>7. \A f \in entry[s] : f.after - f.before = e.after - e.before
    <3>1. \A f \in entry[s] : f.before = loaded[s].balance /\ f.after = t.resultBalance
      BY DEF EntryInv, OutcomeInv, Accounts, Commit
    <3> QED
      BY <3>1
  <2> QED
    BY <1>2, <1>5, <1>7, <2>5, <2>6, <2>7
<1> QED
  BY <1>6, <1>7

\* An opening is the effect of no operation.
LEMMA OpenWalletEffects ==
  ASSUME TypeInv, NEW w \in Wallets, NEW b \in OpeningBalances, OpenWallet(w, b)
  PROVE  \A u \in ops : EffectOn(u)' = EffectOn(u)
<1> DEFINE credit == [op |-> OpeningName(w), direction |-> "CREDIT",
                      amount |-> b, before |-> 0, after |-> b]
<1>1. CASE ledger' = ledger
  BY <1>1, EffectOfEach, NextEffectOfEach
<1>2. CASE ledger' = [ledger EXCEPT ![w] = Append(@, credit)]
  <2>1. credit \in Entry /\ credit.op = OpeningName(w)
    <3>1. b \in Nat
      BY OpeningAssumption, BoundsAssumption
    <3> QED
      BY <3>1 DEF Entry
  <2>2. ledger[w] \in Seq(Entry)
    BY DEF TypeInv
  <2>3. /\ ledger'[w] = Append(ledger[w], credit)
        /\ \A v \in Wallets \ {w} : ledger'[v] = ledger[v]
    BY <1>2 DEF TypeInv
  <2> HIDE DEF credit
  <2>4. ASSUME NEW u \in ops
        PROVE  EffectOn(u)' = EffectOn(u)
    <3>1. u.request.wallet \in Wallets /\ credit.op # NameOf(u.request)
      BY <2>1, NamesAssumption, RequestsAssumption DEF TypeInv, Counted, Row
    <3>2. EffectIn(Append(ledger[w], credit), NameOf(u.request)) = EffectIn(ledger[w], NameOf(u.request))
      BY <2>1, <2>2, <3>1, OtherEntryNoEffect
    <3> QED
      BY <2>3, <3>1, <3>2, EffectOfEach, NextEffectOfEach
  <2> QED
    BY <2>4
<1> QED
  BY <1>1, <1>2 DEF OpenWallet

\* The ledger gives bets, wins and refunds the effect of their kind, and reversals
\* the opposite of what their reference has.
BookedInv ==
  /\ \A u \in ops : u.state = "PROCESSED" /\ u.request.kind \in {"BET", "WIN", "REFUND"} =>
       EffectOn(u) = Signed(u.request.kind, u.request.amount)
  /\ \A u \in ops : u.state = "PROCESSED" /\ IsReversal(u.request.kind) =>
       \E v \in RowsNamed(ReferenceName(u.request)) :
         /\ v.state = "PROCESSED"
         /\ SharesContext(u.request, v.request)
         /\ EffectOn(v) + EffectOn(u) = 0

\* What a request resolves to has the effect of its kind, and keeps it.
LEMMA ReferenceEffect ==
  ASSUME TypeInv, BookedInv, NEW r, NEW v, Resolves(r, v), IsReversal(r.kind)
  PROVE  /\ v.request.kind \in {"BET", "WIN", "REFUND"}
         /\ r.kind = "REFUND" => v.request.kind = "BET"
         /\ v.request.amount = r.amount
         /\ r.amount \in Nat
         /\ EffectOn(v) = Signed(v.request.kind, r.amount)
<1>1. /\ v.request.kind \in ReferableKinds(r.kind)
      /\ v.state = "PROCESSED"
      /\ v.request.amount = r.amount
      /\ v \in ops
  BY ResolvedIs DEF Resolves, RowsNamed
<1>2. /\ v.request.kind \in {"BET", "WIN", "REFUND"}
      /\ r.kind = "REFUND" => v.request.kind = "BET"
  BY <1>1 DEF ReferableKinds, IsReversal
<1>3. v.request.amount \in Nat
  BY <1>1, RequestsAssumption DEF TypeInv, Counted, Row
<1> QED
  BY <1>1, <1>2, <1>3 DEF BookedInv

\* A commit gives the operation the effect of its kind, and leaves the others' alone.
LEMMA CommitBooks ==
  ASSUME DecidedInv, BookedInv, NEW s \in Sessions, Commit(s)
  PROVE  BookedInv'
<1> USE DEF DecidedInv, SettledInv, JustInv
<1>1. PICK t \in tx[s] : TRUE
  BY DEF Commit
<1> DEFINE name == NameOf(t.request)
<1>2. /\ ops' = (ops \ RowsNamed(name)) \cup {t}
      /\ \A u \in ops : NameOf(u.request) # name => EffectOn(u)' = EffectOn(u)
      /\ \A u \in RowsNamed(name) : u.state = "PENDING_REFERENCE"
      /\ \A e \in entry[s] : EffectOn(t)' = e.after - e.before
  BY <1>1, CommitEffects
<1>3. \A u \in ops' : u = t \/ (u \in ops /\ NameOf(u.request) # name)
  BY <1>2 DEF RowsNamed
<1>4. ASSUME NEW v \in ops, v.state = "PROCESSED"
      PROVE  v \in ops' /\ EffectOn(v)' = EffectOn(v)
  BY <1>2, <1>4 DEF RowsNamed
<1>5. \A v, n : v \in RowsNamed(n) /\ v.state = "PROCESSED" =>
        v \in RowsNamed(n)' /\ EffectOn(v)' = EffectOn(v)
  BY <1>4 DEF RowsNamed
\* A processed operation that moves money commits the entry of its effect.
<1>6. ASSUME t.state = "PROCESSED", t.request.kind # "LOSS"
      PROVE  Gives(t.request, EffectOn(t)')
  <2>1. entry[s] # {}
    BY <1>1, <1>6 DEF OutcomeInv, Accounts, Commit
  <2>2. Applies(t, entry[s])
    BY <1>1, <2>1, EntryApplies DEF Commit
  <2> QED
    BY <1>2, <2>1, <2>2 DEF Applies
<1>7. ASSUME t.state = "PROCESSED", t.request.kind \in {"BET", "WIN", "REFUND"}
      PROVE  EffectOn(t)' = Signed(t.request.kind, t.request.amount)
  <2>1. Gives(t.request, EffectOn(t)')
    BY <1>6, <1>7
  <2>2. CASE t.request.kind \in {"BET", "WIN"}
    BY <2>1, <2>2 DEF Gives, IsReversal
  <2>3. CASE t.request.kind = "REFUND"
    <3>1. PICK v \in ops : /\ Resolves(t.request, v)
                           /\ EffectOn(t)' = -Signed(v.request.kind, t.request.amount)
      BY <2>1, <2>3 DEF Gives
    <3>2. v.request.kind = "BET" /\ t.request.amount \in Nat
      BY <2>3, <3>1, ReferenceEffect DEF IsReversal
    <3> QED
      BY <2>3, <3>1, <3>2 DEF Signed
  <2> QED
    BY <1>7, <2>2, <2>3
<1>8. ASSUME t.state = "PROCESSED", IsReversal(t.request.kind)
      PROVE  \E v \in RowsNamed(ReferenceName(t.request))' :
               /\ v.state = "PROCESSED"
               /\ SharesContext(t.request, v.request)
               /\ EffectOn(v)' + EffectOn(t)' = 0
  <2>1. t.request.kind # "LOSS" /\ t.request.kind \notin {"BET", "WIN"}
    BY <1>8 DEF IsReversal
  <2>2. PICK v \in ops : /\ Resolves(t.request, v)
                         /\ EffectOn(t)' = -Signed(v.request.kind, t.request.amount)
    BY <1>6, <1>8, <2>1 DEF Gives
  <2>3. /\ EffectOn(v) = Signed(v.request.kind, t.request.amount)
        /\ Signed(v.request.kind, t.request.amount) \in Int
    BY <1>8, <2>2, ReferenceEffect DEF Signed
  <2>4. /\ v.state = "PROCESSED" /\ SharesContext(t.request, v.request)
        /\ v \in RowsNamed(ReferenceName(t.request))
    BY <2>2, ResolvedIs DEF Resolves
  <2> QED
    BY <1>5, <2>2, <2>3, <2>4
<1>9. ASSUME NEW u \in ops', u.state = "PROCESSED", u.request.kind \in {"BET", "WIN", "REFUND"}
      PROVE  EffectOn(u)' = Signed(u.request.kind, u.request.amount)
  BY <1>3, <1>4, <1>7, <1>9 DEF BookedInv
<1>10. ASSUME NEW u \in ops', u.state = "PROCESSED", IsReversal(u.request.kind)
       PROVE  \E v \in RowsNamed(ReferenceName(u.request))' :
                /\ v.state = "PROCESSED"
                /\ SharesContext(u.request, v.request)
                /\ EffectOn(v)' + EffectOn(u)' = 0
  <2>1. CASE u = t
    BY <1>8, <1>10, <2>1
  <2>2. CASE u \in ops
    <3>1. PICK v \in RowsNamed(ReferenceName(u.request)) :
            /\ v.state = "PROCESSED"
            /\ SharesContext(u.request, v.request)
            /\ EffectOn(v) + EffectOn(u) = 0
      BY <1>10, <2>2 DEF BookedInv
    <3> QED
      BY <1>4, <1>5, <1>10, <2>2, <3>1
  <2> QED
    BY <1>3, <2>1, <2>2
<1> QED
  BY <1>9, <1>10 DEF BookedInv

\* No step makes an effect differ from what its operation stands for.
LEMMA BookedInvHolds ==
  ASSUME DecidedInv, BookedInv, [Next]_vars
  PROVE  BookedInv'
<1>1. ASSUME ops' = ops, \A u \in ops : EffectOn(u)' = EffectOn(u)
      PROVE  BookedInv'
  <2>1. \A n : RowsNamed(n)' = RowsNamed(n) /\ RowsNamed(n) \subseteq ops
    BY <1>1 DEF RowsNamed
  <2>2. ASSUME NEW u \in ops', u.state = "PROCESSED", u.request.kind \in {"BET", "WIN", "REFUND"}
        PROVE  EffectOn(u)' = Signed(u.request.kind, u.request.amount)
    BY <1>1, <2>2 DEF BookedInv
  <2>3. ASSUME NEW u \in ops', u.state = "PROCESSED", IsReversal(u.request.kind)
        PROVE  \E v \in RowsNamed(ReferenceName(u.request))' :
                 /\ v.state = "PROCESSED"
                 /\ SharesContext(u.request, v.request)
                 /\ EffectOn(v)' + EffectOn(u)' = 0
    BY <1>1, <2>1, <2>3 DEF BookedInv
  <2> QED
    BY <2>2, <2>3 DEF BookedInv
<1>2. ASSUME NEW w \in Wallets, NEW b \in OpeningBalances, OpenWallet(w, b)
      PROVE  BookedInv'
  <2>1. ops' = ops
    BY <1>2 DEF OpenWallet
  <2> QED
    BY <1>1, <1>2, <2>1, OpenWalletEffects DEF DecidedInv, SettledInv
<1>3. CASE UNCHANGED <<ops, ledger>>
  BY <1>1, <1>3, EffectOfEach, NextEffectOfEach
<1>4. \/ \E s \in Sessions : Commit(s)
      \/ \E w \in Wallets, b \in OpeningBalances : OpenWallet(w, b)
      \/ UNCHANGED <<ops, ledger>>
  BY DEF Next, Settling, Receive, Lease, GetForUpdate, WalletNotFound, FindReplay,
         Reload, FindReference, Conclude, Save, Write, Rollback, Return, tables, vars
<1> QED
  BY <1>2, <1>3, <1>4, CommitBooks

-----------------------------------------------------------------------------
(* The book *)

\* The state of the book that the tables stand for.
Held == [w \in Wallets |-> IF wallets[w].open THEN {wallets[w].balance} ELSE {}]
Recorded == {Decision(u) : u \in ops}

\* The fields of a decision.
LEMMA DecisionIs ==
  \A u : /\ Decision(u).request = u.request
         /\ Decision(u).status = StatusOf(u)
         /\ Decision(u).effect = EffectOn(u)
BY DEF Decision

\* The book refers to what findReference finds.
LEMMA BookReferred ==
  ASSUME NEW r
  PROVE  Book!Referred(r) = {Decision(v) : v \in RowsNamed(ReferenceName(r))}
<1>1. Book!Referred(r) = {d \in Recorded : /\ d.request.provider = r.provider
                                           /\ d.request.ext = r.ref}
  BY DEF Book!Referred, Recorded
<1>2. \A v : v.request.provider = r.provider /\ v.request.ext = r.ref
              <=> NameOf(v.request) = ReferenceName(r)
  BY DEF NameOf, ReferenceName
<1>3. \A d : d \in Book!Referred(r) =>
               \E v \in RowsNamed(ReferenceName(r)) : d = Decision(v)
  BY <1>1, <1>2, DecisionIs DEF Recorded, RowsNamed
<1>4. \A v \in RowsNamed(ReferenceName(r)) : Decision(v) \in Book!Referred(r)
  BY <1>1, <1>2, DecisionIs DEF Recorded, RowsNamed
<1> QED
  BY <1>3, <1>4

\* What the book calls reversed, HasProcessedReversal finds.
LEMMA BookReversed ==
  ASSUME SessionInv, NEW r, Book!AlreadyReversed(r)
  PROVE  HasProcessedReversal(ReferenceName(r))
<1>1. PICK u \in ops :
        /\ Decision(u).status = "applied"
        /\ Book!IsReversal(Decision(u).request.kind)
        /\ Decision(u).request.provider = r.provider
        /\ Decision(u).request.ref = r.ref
  BY DEF Book!AlreadyReversed
<1>2. u.state = "PROCESSED"
  BY <1>1, DecisionIs DEF StatusOf, IsTerminal
<1>3. IsReversal(u.request.kind) /\ ReferenceName(u.request) = ReferenceName(r)
  BY <1>1, DecisionIs DEF Book!IsReversal, IsReversal, ReferenceName
<1>4. u.resolved
  BY <1>2, <1>3 DEF SessionInv, ReversesResolved
<1> QED
  BY <1>2, <1>3, <1>4
     DEF HasProcessedReversal, ReversesProcessed, IsReversal, IndexedReversals

\* What resolveReference agrees with, the book agrees with.
LEMMA BookAgrees ==
  ASSUME SessionInv, NEW r, NEW v, Resolves(r, v),
         IsReversal(r.kind) => ~HasProcessedReversal(ReferenceName(r))
  PROVE  Book!Agrees(r, Decision(v))
<1>1. /\ v.request.kind \in ReferableKinds(r.kind)
      /\ v.state = "PROCESSED"
      /\ SharesContext(r, v.request)
      /\ IsReversal(r.kind) => v.request.amount = r.amount
  BY ResolvedIs DEF Resolves
<1>2. Decision(v).status = "applied"
  BY <1>1, DecisionIs DEF StatusOf, IsTerminal
<1>3. Book!ReferableKinds(r.kind) = ReferableKinds(r.kind)
  BY DEF Book!ReferableKinds, ReferableKinds
<1>4. Book!SharesContext(r, v.request) <=> SharesContext(r, v.request)
  BY DEF Book!SharesContext, SharesContext
<1>5. Book!IsReversal(r.kind) <=> IsReversal(r.kind)
  BY DEF Book!IsReversal, IsReversal
<1> QED
  BY <1>1, <1>2, <1>3, <1>4, <1>5, BookReversed, DecisionIs DEF Book!Agrees

\* What the book agrees with, resolveReference agrees with.
LEMMA BookDisagrees ==
  ASSUME NEW r, NEW v, v \in ops, Book!Agrees(r, Decision(v))
  PROVE  ResolveReference(r, v) = NoFailure
<1>1. Book!ReferableKinds(r.kind) = ReferableKinds(r.kind)
  BY DEF Book!ReferableKinds, ReferableKinds
<1>2. Book!SharesContext(r, v.request) <=> SharesContext(r, v.request)
  BY DEF Book!SharesContext, SharesContext
<1>3. Book!IsReversal(r.kind) <=> IsReversal(r.kind)
  BY DEF Book!IsReversal, IsReversal
<1>4. /\ v.request.kind \in ReferableKinds(r.kind)
      /\ StatusOf(v) = "applied"
      /\ SharesContext(r, v.request)
      /\ IsReversal(r.kind) => r.amount = v.request.amount
  BY <1>1, <1>2, <1>3, DecisionIs DEF Book!Agrees
<1>5. v.state = "PROCESSED"
  BY <1>4 DEF StatusOf
<1> QED
  BY <1>4, <1>5 DEF ResolveReference

\* The effects of the two specifications are the same.
LEMMA BookEffect ==
  ASSUME TypeInv, BookedInv, NEW r, r.amount \in Int, NEW effect, Gives(r, effect)
  PROVE  effect \in Book!EffectOf(r)
<1>1. CASE r.kind = "BET"
  BY <1>1 DEF Gives, Signed, IsReversal, Book!EffectOf
<1>2. CASE r.kind = "WIN"
  BY <1>2 DEF Gives, Signed, IsReversal, Book!EffectOf
<1>3. CASE IsReversal(r.kind)
  <2>1. PICK v \in ops : Resolves(r, v) /\ effect = -Signed(v.request.kind, r.amount)
    BY <1>3 DEF Gives, IsReversal
  <2>2. EffectOn(v) = Signed(v.request.kind, r.amount)
    BY <1>3, <2>1, ReferenceEffect
  <2>3. effect = -Decision(v).effect /\ Decision(v) \in Book!Referred(r)
    BY <2>1, <2>2, BookReferred, DecisionIs DEF Resolves
  <2>4. Book!EffectOf(r) = {-d.effect : d \in Book!Referred(r)}
    BY <1>3 DEF Book!EffectOf, IsReversal
  <2> QED
    BY <2>3, <2>4
<1> QED
  BY <1>1, <1>2, <1>3 DEF Gives

\* What contradicts a request is a reason to refuse it in the book.
LEMMA BookContradicts ==
  ASSUME NEW r, NEW v, v \in ops, Contradicts(r, v)
  PROVE  \E d \in Book!Referred(r) : d.status # "waiting" /\ ~Book!Agrees(r, d)
<1>1. Decision(v) \in Book!Referred(r) /\ Decision(v).status # "waiting"
  BY BookReferred, DecisionIs DEF Contradicts, StatusOf
<1>2. CASE ResolveReference(r, v) # NoFailure
  BY <1>1, <1>2, BookDisagrees
<1>3. CASE IsReversal(r.kind) /\ HasProcessedReversal(ReferenceName(r))
  <2>1. PICK u \in ops : ReversesProcessed(u, ReferenceName(r))
    BY <1>3 DEF HasProcessedReversal
  <2>2. /\ Decision(u) \in Recorded /\ Decision(u).status = "applied"
        /\ Decision(u).request.kind \in {"REFUND", "ROLLBACK"}
        /\ Decision(u).request.provider = r.provider
        /\ Decision(u).request.ref = r.ref
    BY <2>1, DecisionIs
       DEF ReversesProcessed, IndexedReversals, ReferenceName, Recorded, StatusOf, IsTerminal
  <2>3. Book!AlreadyReversed(r)
    BY <2>2 DEF Book!AlreadyReversed, Book!IsReversal, Recorded
  <2>4. Book!IsReversal(r.kind)
    BY <1>3 DEF Book!IsReversal, IsReversal
  <2> QED
    BY <1>1, <2>3, <2>4 DEF Book!Agrees
<1> QED
  BY <1>2, <1>3 DEF Contradicts

\* What findReference leaves unresolved is undecided in the book.
LEMMA BookUndecided ==
  ASSUME NEW r, Unresolved(r)
  PROVE  Book!Undecided(r)
<1>1. ASSUME NEW d \in Book!Referred(r), d.request.wallet = r.wallet
      PROVE  d.status = "waiting"
  <2>1. PICK v \in RowsNamed(ReferenceName(r)) : d = Decision(v)
    BY BookReferred
  <2> QED
    BY <1>1, <2>1, DecisionIs DEF Unresolved, StatusOf
<1> QED
  BY <1>1 DEF Book!Undecided

\* The book after a commit: the decision of the committed operation stands in the
\* place of the one that waited, if there was one.
LEMMA CommitRecords ==
  ASSUME DecidedInv, NEW s \in Sessions, Commit(s), NEW t \in tx[s]
  PROVE  LET r == t.request
             waiting == [request |-> r, status |-> "waiting", effect |-> 0]
             decision == [request |-> r, status |-> StatusOf(t), effect |-> EffectOn(t)']
         IN  /\ Recorded' = (Recorded \ {waiting}) \cup {decision}
             /\ s \in Callers => Book!New(r)
             /\ s \in Workers => waiting \in Recorded
<1> USE DEF DecidedInv, SettledInv
<1> DEFINE r == t.request
           name == NameOf(r)
           waiting == [request |-> r, status |-> "waiting", effect |-> 0]
           decision == [request |-> r, status |-> StatusOf(t), effect |-> EffectOn(t)']
<1>1. /\ ops' = (ops \ RowsNamed(name)) \cup {t}
      /\ \A u \in ops : NameOf(u.request) # name => EffectOn(u)' = EffectOn(u)
      /\ \A u \in RowsNamed(name) :
           u.request = r /\ EffectOn(u) = 0 /\ u.state = "PENDING_REFERENCE"
  BY CommitEffects
<1>2. \A u \in RowsNamed(name) : Decision(u) = waiting
  BY <1>1 DEF Decision, StatusOf, IsTerminal
<1>3. \A u \in ops : NameOf(u.request) # name => Decision(u) # waiting
  BY DecisionIs
<1>4. \A u \in ops : NameOf(u.request) # name => Decision(u)' = Decision(u)
  BY <1>1 DEF Decision
<1>5. Decision(t)' = decision
  BY DEF Decision
<1>6. Recorded' = {Decision(u)' : u \in ops'}
  BY DEF Recorded
<1> HIDE DEF waiting, decision
<1>7. ASSUME NEW d \in Recorded'
      PROVE  d \in (Recorded \ {waiting}) \cup {decision}
  <2>1. PICK u \in ops' : d = Decision(u)'
    BY <1>6, <1>7
  <2>2. CASE u = t
    BY <1>5, <2>1, <2>2
  <2>3. CASE u \in ops /\ NameOf(u.request) # name
    BY <1>3, <1>4, <2>1, <2>3 DEF Recorded
  <2> QED
    BY <1>1, <2>2, <2>3 DEF RowsNamed
<1>8. ASSUME NEW d \in (Recorded \ {waiting}) \cup {decision}
      PROVE  d \in Recorded'
  <2>1. CASE d = decision
    BY <1>1, <1>5, <1>6, <2>1
  <2>2. CASE d \in Recorded /\ d # waiting
    <3>1. PICK u \in ops : d = Decision(u)
      BY <2>2 DEF Recorded
    <3>2. NameOf(u.request) # name /\ u \in ops'
      BY <1>1, <1>2, <2>2, <3>1 DEF RowsNamed
    <3> QED
      BY <1>4, <1>6, <3>1, <3>2
  <2> QED
    BY <1>8, <2>1, <2>2
<1>9. ASSUME s \in Callers
      PROVE  Book!New(r)
  <2>1. Writing(s)
    BY DEF Commit, Writing
  <2>2. \A u \in ops : NameOf(u.request) # NameOf(r) /\ ~SameKey(u.request, r)
    BY <1>9, <2>1 DEF IndexInv, SameIdentity, SameKey
  <2>3. ASSUME NEW d \in Recorded
        PROVE  /\ Book!NameOf(d.request) # Book!NameOf(r)
               /\ d.request.provider = r.provider => d.request.key # r.key
    <3>1. PICK u \in ops : d = Decision(u)
      BY <2>3 DEF Recorded
    <3>2. d.request = u.request
      BY <3>1, DecisionIs
    <3> QED
      BY <2>2, <3>1, <3>2 DEF Book!NameOf, NameOf, SameKey
  <2> QED
    BY <2>3 DEF Book!New, Recorded
<1>10. ASSUME s \in Workers
       PROVE  waiting \in Recorded
  <2>1. PICK u \in ops : u.request = r
    BY <1>10 DEF SessionInv
  <2> QED
    BY <1>2, <2>1 DEF RowsNamed, Recorded
<1> QED
  BY <1>7, <1>8, <1>9, <1>10 DEF waiting, decision

\* Every commit is a decision of the book, or leaves an operation waiting.
LEMMA CommitDecides ==
  ASSUME DecidedInv, BookedInv, NEW s \in Sessions, Commit(s)
  PROVE  Book!BookNext \/ (Held' = Held /\ Recorded' = Recorded)
<1> USE DEF DecidedInv, SettledInv, JustInv
<1>1. PICK t \in tx[s] : TRUE
  BY DEF Commit
<1> DEFINE r == t.request
           w == r.wallet
           balance == wallets[w].balance
           waiting == [request |-> r, status |-> "waiting", effect |-> 0]
           decision == [request |-> r, status |-> StatusOf(t), effect |-> EffectOn(t)']
<1>2. /\ Recorded' = (Recorded \ {waiting}) \cup {decision}
      /\ s \in Callers => Book!New(r)
      /\ s \in Workers => waiting \in Recorded
  BY CommitRecords
<1>3. /\ r \in Requests /\ w \in Wallets /\ r.amount \in Nat
      /\ IsValidRequest(r)
  BY RequestsAssumption DEF TypeInv, Counted, Row, ValidInv
<1>4. /\ pc[s] = "Commit" /\ pc[s] \in Holding
      /\ wallets[w].open /\ loaded[s] = wallets[w]
      /\ Held[w] = {balance}
      /\ balance \in 0..MaxBalance
  <2>1. pc[s] = "Commit" /\ pc[s] \in Holding
    BY DEF Commit, Holding
  <2>2. wallets[w].open
    BY <2>1 DEF LockInv
  <2> QED
    BY <1>3, <2>1, <2>2, LoadedBalanceFits DEF Held
<1>5. Book!Waiting(r) = waiting
  BY DEF Book!Waiting
<1>6. ASSUME NEW status, NEW effect, status = StatusOf(t), effect = EffectOn(t)'
      PROVE  Book!Decide(r, status, effect)
  <2>1. Book!New(r) \/ Book!Waiting(r) \in Recorded
    BY <1>2, <1>5 DEF Sessions
  <2> QED
    BY <1>2, <1>5, <1>6, <2>1 DEF Book!Decide, Recorded
<1>7. Verdict(s, t) /\ Accounts(t, entry[s])
  BY <1>4 DEF VerdictInv, OutcomeInv
\* Without an entry the balances and the effect stay.
<1>8. ASSUME entry[s] = {}
      PROVE  Held' = Held /\ EffectOn(t)' = 0
  <2>1. wallets' = wallets
    BY <1>8 DEF Commit
  <2> QED
    BY <1>8, <2>1, CommitEffects DEF Held
\* The operation waits, for the first time or once more.
<1>9. CASE LeavesWaiting(s, t) /\ t.state = "PENDING_REFERENCE"
  <2>1. StatusOf(t) = "waiting" /\ entry[s] = {}
    BY <1>7, <1>9 DEF StatusOf, IsTerminal, Accounts
  <2>2. decision = waiting
    BY <1>8, <2>1
  <2>3. Recorded' = (Recorded \ {waiting}) \cup {waiting} /\ Held' = Held
    BY <1>2, <1>8, <2>1, <2>2
  <2>4. CASE s \in Workers
    BY <1>2, <2>3, <2>4
  <2>5. CASE s \in Callers
    <3>1. r.ref # NoReference /\ Book!Undecided(r) /\ Book!New(r)
      BY <1>2, <1>9, <2>5, BookUndecided DEF LeavesWaiting, Unresolved
    <3>2. Book!Park(r)
      BY <1>3, <1>4, <1>5, <2>3, <3>1 DEF Book!Park, Held, Recorded
    <3> QED
      BY <1>3, <3>2 DEF Book!BookNext
  <2> QED
    BY <2>4, <2>5 DEF Sessions
\* A worker gives it up.
<1>10. CASE LeavesWaiting(s, t) /\ t.state # "PENDING_REFERENCE"
  <2>1. s \in Workers /\ t.state = "REJECTED" /\ Unresolved(r)
    BY <1>10 DEF LeavesWaiting
  <2>2. StatusOf(t) = "refused" /\ entry[s] = {}
    BY <1>7, <2>1 DEF StatusOf, IsTerminal, Accounts
  <2>3. Book!Decide(r, "refused", 0) /\ Held' = Held
    BY <1>6, <1>8, <2>2
  <2>4. Book!GiveUp(r)
    BY <1>2, <1>5, <2>1, <2>3, BookUndecided DEF Book!GiveUp, Held, Recorded
  <2> QED
    BY <1>3, <2>4 DEF Book!BookNext
\* It is refused.
<1>11. CASE Refuses(t, loaded[s].balance)
  <2>1. StatusOf(t) = "refused" /\ entry[s] = {}
    BY <1>7, <1>11 DEF StatusOf, IsTerminal, Accounts, Refuses
  <2>2. Book!Decide(r, "refused", 0) /\ Held' = Held
    BY <1>6, <1>8, <2>1
  <2>3. Book!ReasonToRefuse(r, balance)
    <3>1. CASE ~Fits(r)
      BY <3>1 DEF Fits, Book!ReasonToRefuse, Book!FitsWallet
    <3>2. CASE \E v \in ops : Contradicts(r, v)
      BY <3>2, BookContradicts DEF Book!ReasonToRefuse
    <3>3. CASE \E effect \in Int : Gives(r, effect) /\ balance + effect < 0
      BY <1>3, <3>3, BookEffect DEF Book!ReasonToRefuse
    <3> QED
      BY <1>4, <1>11, <3>1, <3>2, <3>3 DEF Refuses
  <2>4. Book!Refuse(r)
    BY <1>3, <1>4, <2>2, <2>3 DEF Book!Refuse, Held
  <2> QED
    BY <1>3, <2>4 DEF Book!BookNext
\* It is applied.
<1>12. CASE Applies(t, entry[s])
  <2>1. StatusOf(t) = "applied"
    BY <1>12 DEF StatusOf, IsTerminal, Applies
  <2>2. ASSUME IsReversal(r.kind)
        PROVE  ~HasProcessedReversal(ReferenceName(r))
    <3>1. t.resolved
      BY <1>12, <2>2 DEF SessionInv, ReversesResolved, Applies
    <3>2. ReversesProcessed(t, ReferenceName(r))
      BY <1>12, <2>2, <3>1 DEF ReversesProcessed, IsReversal, IndexedReversals, Applies
    <3>3. \A u \in ops : ~SameReversal(t, u)
      BY <1>4 DEF IndexInv, Writing
    <3> QED
      BY <3>2, <3>3 DEF HasProcessedReversal, SameReversal
  <2>3. Book!MayApply(r)
    <3>1. Book!FitsWallet(r)
      BY <1>12 DEF Applies, Fits, Book!FitsWallet
    <3>2. ASSUME r.ref # NoReference
          PROVE  \E d \in Book!Referred(r) : Book!Agrees(r, d)
      <4>1. PICK v \in ops : Resolves(r, v)
        BY <1>12, <3>2 DEF Applies
      <4> QED
        BY <2>2, <4>1, BookAgrees, BookReferred DEF Resolves
    <3> QED
      BY <3>1, <3>2 DEF Book!MayApply
  <2>4. \E effect \in Book!EffectOf(r) :
          /\ effect = EffectOn(t)'
          /\ balance + effect \in 0..MaxBalance
          /\ Held' = [Held EXCEPT ![w] = {balance + effect}]
    <3>1. CASE entry[s] = {}
      <4>1. r.kind = "LOSS"
        BY <1>7, <1>12, <3>1 DEF Accounts, Applies
      <4> DEFINE nothing == 0
      <4>2. nothing \in Book!EffectOf(r)
        BY <4>1 DEF Book!EffectOf
      <4>3. balance + nothing = balance
        BY <1>4, BoundsAssumption
      <4>4. [Held EXCEPT ![w] = Held[w]] = Held
        BY DEF Held
      <4>5. Held' = Held /\ EffectOn(t)' = nothing
        BY <1>8, <3>1
      <4> HIDE DEF nothing, balance
      <4> QED
        BY <1>4, <4>2, <4>3, <4>4, <4>5
    <3>2. CASE entry[s] # {}
      <4>1. PICK e \in entry[s] : wallets' = [wallets EXCEPT ![w] = Moved(loaded[s], e)]
        <5>1. \A u \in tx[s] : u = t
          BY DEF SessionInv
        <5> QED
          BY <3>2, <5>1 DEF Commit
      <4>2. /\ e.after \in 0..MaxBalance
            /\ Gives(r, e.after - e.before)
            /\ e.before = balance
            /\ EffectOn(t)' = e.after - e.before
        BY <1>4, <1>12, CommitEffects DEF Applies, EntryInv
      <4>3. e.after - e.before \in Book!EffectOf(r)
        BY <1>3, <4>2, BookEffect
      <4>4. balance + (e.after - e.before) = e.after
        BY <1>4, <4>2, BoundsAssumption
      <4>5. Moved(loaded[s], e).open /\ Moved(loaded[s], e).balance = e.after
        BY <1>3, <1>4 DEF Moved, TypeInv, WalletRow
      <4>6. Held' = [Held EXCEPT ![w] = {e.after}]
        BY <1>3, <4>1, <4>5 DEF Held, TypeInv
      <4> QED
        BY <4>2, <4>3, <4>4, <4>6
    <3> QED
      BY <3>1, <3>2
  <2>5. Book!Apply(r)
    <3>1. PICK effect \in Book!EffectOf(r) :
            /\ effect = EffectOn(t)'
            /\ balance + effect \in 0..MaxBalance
            /\ Held' = [Held EXCEPT ![w] = {balance + effect}]
      BY <2>4
    <3>2. Book!Decide(r, "applied", effect)
      BY <1>6, <2>1, <3>1
    <3> QED
      BY <1>4, <2>3, <3>1, <3>2 DEF Book!Apply, Held
  <2> QED
    BY <1>3, <2>5 DEF Book!BookNext
<1> QED
  BY <1>7, <1>9, <1>10, <1>11, <1>12 DEF Verdict

\* OpenWallet.Execute opens the account of the book.
LEMMA OpeningOpens ==
  ASSUME TypeInv, NEW w \in Wallets, NEW b \in OpeningBalances, OpenWallet(w, b)
  PROVE  Book!BookNext
<1>1. ~wallets[w].open
  BY DEF OpenWallet
<1>2. Held[w] = {} /\ Held' = [Held EXCEPT ![w] = {b}]
  <2>1. wallets' = [wallets EXCEPT ![w] = [open |-> TRUE, balance |-> b, version |-> 1]]
    BY DEF OpenWallet
  <2>2. ASSUME NEW v \in Wallets
        PROVE  Held'[v] = IF v = w THEN {b} ELSE Held[v]
    BY <2>1, <2>2 DEF Held, TypeInv
  <2> QED
    BY <1>1, <2>2 DEF Held
<1>3. Recorded' = Recorded
  <2>1. ops' = ops
    BY DEF OpenWallet
  <2>2. \A u \in ops : Decision(u)' = Decision(u)
    BY OpenWalletEffects DEF Decision
  <2> QED
    BY <2>1, <2>2 DEF Recorded
<1>4. Book!Open(w, b)
  BY <1>2, <1>3 DEF Book!Open, Held, Recorded
<1> QED
  BY <1>4 DEF Book!BookNext

\* What commits nothing decides nothing.
LEMMA OthersDecideNothing ==
  ASSUME UNCHANGED <<wallets, ops, ledger>>
  PROVE  Held' = Held /\ Recorded' = Recorded
<1>1. \A u \in ops : Decision(u)' = Decision(u)
  BY EffectOfEach, NextEffectOfEach DEF Decision
<1> QED
  BY <1>1 DEF Held, Recorded

\* The invariants of the tables and of the ledger, together.
LEMMA BookedInvAlways == Spec => [](DecidedInv /\ BookedInv)
<1>1. Init => BookedInv
  BY DEF Init, BookedInv
<1>2. DecidedInv /\ BookedInv /\ [Next]_vars => BookedInv'
  BY BookedInvHolds
<1> QED
  BY <1>1, <1>2, DecidedInvHolds, PTL DEF Spec

\* Settlement is serialisable: with statements of many transactions interleaved,
\* rolled back and retried, the committed rows of ProcessWager and of
\* ResolvePendingReferences are those of a book that decides one operation at a
\* time, each for a reason that holds when it commits.
THEOREM OneDecisionAtATime == Spec => ImplementsBook
<1>1. Init => Book!BookInit
  BY DEF Init, Book!BookInit, ClosedWallet
<1>2. ASSUME DecidedInv, BookedInv, [Next]_vars
      PROVE  Book!BookNext \/ (Held' = Held /\ Recorded' = Recorded)
  <2>1. CASE \E s \in Sessions : Commit(s)
    BY <1>2, <2>1, CommitDecides
  <2>2. CASE \E w \in Wallets, b \in OpeningBalances : OpenWallet(w, b)
    BY <1>2, <2>2, OpeningOpens DEF DecidedInv, SettledInv
  <2>3. CASE UNCHANGED <<wallets, ops, ledger>>
    BY <2>3, OthersDecideNothing
  <2>4. \/ \E s \in Sessions : Commit(s)
        \/ \E w \in Wallets, b \in OpeningBalances : OpenWallet(w, b)
        \/ UNCHANGED <<wallets, ops, ledger>>
    BY <1>2 DEF Next, Settling, Receive, Lease, GetForUpdate, WalletNotFound, FindReplay,
         Reload, FindReference, Conclude, Save, Write, Rollback, Return, tables, vars
  <2> QED
    BY <2>1, <2>2, <2>3, <2>4
<1>3. DecidedInv /\ BookedInv /\ [Next]_vars => [Book!BookNext]_(Book!bookVars)
  BY <1>2 DEF Book!bookVars, Held, Recorded
<1> QED
  BY <1>1, <1>3, BookedInvAlways, PTL DEF Spec, ImplementsBook, Book!BookSpec

\* A committed refund or rollback of any wallet has the opposite effect of the
\* operation findReference found for it, and is the only one that reversed it,
\* whatever the order and however often the pair was sent.
THEOREM ReversalsUndo == Spec => []ReversalsCancel
<1>1. ASSUME DecidedInv, BookedInv
      PROVE  ReversalsCancel
  <2> USE <1>1 DEF DecidedInv, SettledInv
  <2>1. ASSUME NEW d \in Recorded, d.status = "applied", Book!IsReversal(d.request.kind)
        PROVE  \E u \in ops : /\ d = Decision(u)
                              /\ u.state = "PROCESSED"
                              /\ IsReversal(u.request.kind)
    <3>1. PICK u \in ops : d = Decision(u)
      BY <2>1 DEF Recorded
    <3>2. u.state = "PROCESSED"
      BY <2>1, <3>1, DecisionIs DEF StatusOf, IsTerminal
    <3>3. IsReversal(u.request.kind)
      BY <2>1, <3>1, DecisionIs DEF Book!IsReversal, IsReversal
    <3> QED
      BY <3>1, <3>2, <3>3
  <2>2. ASSUME NEW d \in Recorded, d.status = "applied", Book!IsReversal(d.request.kind)
        PROVE  /\ \E c \in Book!Referred(d.request) : c.effect + d.effect = 0 /\ c.status = "applied"
               /\ \A e \in Recorded : /\ e.status = "applied"
                                      /\ Book!IsReversal(e.request.kind)
                                      /\ Book!Referred(e.request) = Book!Referred(d.request)
                                      => e = d
    <3>1. PICK u \in ops : d = Decision(u) /\ u.state = "PROCESSED" /\ IsReversal(u.request.kind)
      BY <2>1, <2>2
    <3>2. PICK v \in RowsNamed(ReferenceName(u.request)) :
            v.state = "PROCESSED" /\ EffectOn(v) + EffectOn(u) = 0
      BY <3>1 DEF BookedInv
    <3>3. d.request = u.request /\ d.effect = EffectOn(u)
      BY <3>1, DecisionIs
    <3>4. /\ Decision(v) \in Book!Referred(d.request)
          /\ Decision(v).effect + d.effect = 0
          /\ Decision(v).status = "applied"
      BY <3>2, <3>3, BookReferred, DecisionIs DEF StatusOf, IsTerminal
    <3>5. ASSUME NEW e \in Recorded, e.status = "applied", Book!IsReversal(e.request.kind),
                 Book!Referred(e.request) = Book!Referred(d.request)
          PROVE  e = d
      <4>1. PICK x \in ops : e = Decision(x) /\ x.state = "PROCESSED" /\ IsReversal(x.request.kind)
        BY <2>1, <3>5
      <4>2. Decision(v) \in Book!Referred(x.request)
        BY <3>4, <3>5, <4>1, DecisionIs
      <4>3. PICK y \in RowsNamed(ReferenceName(x.request)) : Decision(v) = Decision(y)
        BY <4>2, BookReferred
      <4>4. NameOf(v.request) = NameOf(y.request)
        BY <4>3, DecisionIs
      <4>5. ReferenceName(x.request) = ReferenceName(u.request)
        BY <3>2, <4>3, <4>4 DEF RowsNamed
      <4>6. SameReversal(u, x)
        BY <3>1, <4>1, <4>5
           DEF SessionInv, ReversesResolved, SameReversal, ReversesProcessed,
               IsReversal, IndexedReversals
      <4>7. u = x
        BY <4>6 DEF IndexInv, Clashes
      <4> QED
        BY <3>1, <4>1, <4>7
    <3> QED
      BY <3>4, <3>5
  <2> QED
    BY <2>2 DEF ReversalsCancel, Book!ReversalsCancel, Recorded
<1> QED
  BY <1>1, BookedInvAlways, PTL

\* An operation committed as waiting, or as given up by a retry, refers to an
\* operation its wallet does not have, or has undecided, at that very instant,
\* although findReference looked it up some statements earlier.
THEOREM WaitingIsWarranted == Spec => WaitsOnlyForMissing
<1> DEFINE Warranted(t) ==
      t.state = "PENDING_REFERENCE" \/ t.failureCode = "REFERENCE_NOT_FOUND" =>
        \A v \in RowsNamed(ReferenceName(t.request)) :
          v.request.wallet = t.request.wallet => ~IsTerminal(v.state)
<1>1. ASSUME DecidedInv, [Next]_vars, NEW t \in ops' \ ops
      PROVE  Warranted(t)
  <2> USE <1>1 DEF DecidedInv, SettledInv
  <2>1. PICK s \in Sessions : Commit(s)
    <3>1. \/ \E s \in Sessions : Commit(s)
          \/ ops' = ops
      BY DEF Next, OpenWallet, Settling, Receive, Lease, GetForUpdate, WalletNotFound,
             FindReplay, Reload, FindReference, Conclude, Save, Write, Rollback, Return,
             tables, vars
    <3> QED
      BY <3>1
  <2>2. PICK u \in tx[s] : ops' = (ops \ RowsNamed(NameOf(u.request))) \cup {u}
    BY <2>1 DEF Commit
  <2>3. t = u /\ t \in tx[s]
    BY <2>2
  <2>4. Verdict(s, t)
    BY <2>1, <2>3 DEF JustInv, VerdictInv, Commit
  <2>5. CASE LeavesWaiting(s, t)
    BY <2>5 DEF LeavesWaiting, Unresolved
  <2>6. CASE Applies(t, entry[s]) \/ Refuses(t, loaded[s].balance)
    BY <2>6 DEF Applies, Refuses
  <2> QED
    BY <2>4, <2>5, <2>6 DEF Verdict
<1>2. DecidedInv /\ [Next]_vars => [\A t \in ops' \ ops : Warranted(t)]_vars
  BY <1>1
<1> QED
  BY <1>2, DecidedInvHolds, PTL DEF Spec, WaitsOnlyForMissing

-----------------------------------------------------------------------------
(* Conflicts come from other operations *)

\* A caller past FindReplay settles an operation that is not on record, and one
\* past Conclude no reversal of what is reversed: nobody else adds to its wallet.
FreshInv ==
  /\ \A s \in Callers : pc[s] \in {"FindReference", "Conclude", "Save"} =>
       \A t \in tx[s], u \in ops : u.request # t.request
  /\ \A s \in Callers : pc[s] = "Save" =>
       \A t \in tx[s], u \in ops : ~SameReversal(t, u)
  /\ NoSpuriousConflict

\* Two reversals that resolved to the same operation are of one wallet.
LEMMA ReversalsShareWallet ==
  ASSUME IndexInv, NEW s, NEW t, Verdict(s, t), NEW z, NEW u, Verdict(z, u),
         IsValidRequest(t.request), IsValidRequest(u.request), SameReversal(t, u)
  PROVE  t.request.wallet = u.request.wallet
<1>1. /\ t.state = "PROCESSED" /\ t.request.kind \in IndexedReversals
      /\ u.state = "PROCESSED" /\ u.request.kind \in IndexedReversals
      /\ ReferenceName(u.request) = ReferenceName(t.request)
  BY DEF SameReversal, ReversesProcessed
<1>2. t.request.ref # NoReference /\ u.request.ref # NoReference
  BY <1>1 DEF IsValidRequest, ReferenceFits, IsReversal, IndexedReversals
<1>3. Applies(t, entry[s]) /\ Applies(u, entry[z])
  BY <1>1 DEF Verdict, LeavesWaiting, Refuses
<1>4. PICK v \in ops : Resolves(t.request, v)
  BY <1>2, <1>3 DEF Applies
<1>5. PICK x \in ops : Resolves(u.request, x)
  BY <1>2, <1>3 DEF Applies
<1>6. NameOf(v.request) = ReferenceName(t.request) /\ NameOf(x.request) = ReferenceName(u.request)
  BY <1>4, <1>5 DEF Resolves, RowsNamed
<1>7. v = x
  BY <1>1, <1>6 DEF IndexInv, Clashes
<1>8. SharesContext(t.request, v.request) /\ SharesContext(u.request, x.request)
  BY <1>4, <1>5, ResolvedIs DEF Resolves
<1> QED
  BY <1>7, <1>8 DEF SharesContext

\* conclude applies no reversal of what is reversed already.
LEMMA ConcludeSeesReversals ==
  ASSUME SettledInv, ValidInv, ReadInv, NEW s \in Sessions, Conclude(s)
  PROVE  \A t \in tx'[s], u \in ops : ~SameReversal(t, u)
<1> USE DEF SettledInv
<1>1. PICK t \in tx[s] :
        \/ MustWait(t, reference[s]) /\ Wait(s, t)
        \/ /\ t.request.ref = NoReference
           /\ Settle(s, t, ApplyRefusal(t.request, "NONE", loaded[s].balance),
                     DirectionOf(t.request.kind, "NONE"))
        \/ \E v \in reference[s] :
             /\ IsTerminal(v.state)
             /\ Settle(s, [t EXCEPT !.resolved = (ResolveReference(t.request, v) = NoFailure)],
                       RefusalWith(t, v, loaded[s].balance),
                       DirectionOf(t.request.kind, v.request.kind))
  BY DEF Conclude
<1>2. pc[s] = "Conclude" /\ entry[s] = {} /\ t \in Row /\ IsValidRequest(t.request)
  BY DEF Conclude, EntryInv, TypeInv, Counted, ValidInv
<1>3. CASE MustWait(t, reference[s]) /\ Wait(s, t)
  <2>1. \A u \in tx'[s] : LeavesWaiting(s, u)
    BY <1>2, <1>3, WaitHasVerdict
  <2> QED
    BY <2>1 DEF LeavesWaiting, SameReversal, ReversesProcessed
<1>4. ASSUME NEW row \in Row, row.request = t.request, NEW refusal, NEW direction,
             Settle(s, row, refusal, direction),
             refusal = NoFailure /\ IsReversal(t.request.kind) =>
               ~HasProcessedReversal(ReferenceName(t.request))
      PROVE  \A u \in tx'[s], x \in ops : ~SameReversal(u, x)
  <2>1. PICK u : /\ tx'[s] = {u} /\ u.request = t.request
                 /\ \/ refusal = NoFailure
                    \/ u.state = "REJECTED"
    BY <1>2, <1>4, SettleOutcome
  <2> QED
    BY <1>4, <2>1 DEF SameReversal, ReversesProcessed, HasProcessedReversal,
                      IsReversal, IndexedReversals
<1>5. CASE /\ t.request.ref = NoReference
           /\ Settle(s, t, ApplyRefusal(t.request, "NONE", loaded[s].balance),
                     DirectionOf(t.request.kind, "NONE"))
  <2>1. ~IsReversal(t.request.kind)
    BY <1>2, <1>5 DEF IsValidRequest, ReferenceFits
  <2> QED
    BY <1>2, <1>4, <1>5, <2>1
<1>6. ASSUME NEW v \in reference[s], IsTerminal(v.state),
             Settle(s, [t EXCEPT !.resolved = (ResolveReference(t.request, v) = NoFailure)],
                    RefusalWith(t, v, loaded[s].balance),
                    DirectionOf(t.request.kind, v.request.kind))
      PROVE  \A u \in tx'[s], x \in ops : ~SameReversal(u, x)
  <2> DEFINE row == [t EXCEPT !.resolved = (ResolveReference(t.request, v) = NoFailure)]
  <2>1. row \in Row /\ row.request = t.request
    BY <1>2 DEF Row
  <2>2. NameOf(v.request) = ReferenceName(t.request)
    BY <1>2, <1>6 DEF ReadInv, RowsNamed
  <2>3. RefusalWith(t, v, loaded[s].balance) = NoFailure /\ IsReversal(t.request.kind) =>
          ~HasProcessedReversal(ReferenceName(t.request))
    BY <2>2 DEF RefusalWith, NoFailure
  <2> HIDE DEF row
  <2> QED
    BY <1>4, <1>6, <2>1, <2>3 DEF row
<1> QED
  BY <1>1, <1>3, <1>5, <1>6

\* What a caller found missing stays missing while it holds the lock.
LEMMA MissingStays ==
  ASSUME DecidedInv, FreshInv, NEW s \in Sessions, SessionStep(s),
         NEW z \in Callers, z # s, NEW t \in tx[z]
  PROVE  /\ pc[z] \in {"FindReference", "Conclude", "Save"} =>
              \A u \in ops' : u.request # t.request
         /\ pc[z] = "Save" => \A u \in ops' : ~SameReversal(t, u)
<1> USE DEF DecidedInv, SettledInv, JustInv
<1>1. z \in Sessions
  BY DEF Sessions
<1>2. ASSUME pc[z] \in {"FindReference", "Conclude", "Save"}
      PROVE  \A v \in ops' : v.request.wallet = t.request.wallet => v \in ops
  BY <1>1, <1>2, LockedRowsStay DEF Holding
<1>3. ASSUME pc[z] = "Save", NEW u \in ops', SameReversal(t, u)
      PROVE  FALSE
  <2>1. u \notin ops
    BY <1>3 DEF FreshInv
  <2>2. Commit(s)
    BY <1>3, <2>1 DEF SessionStep, Settling, Receive, Lease, GetForUpdate, WalletNotFound,
         FindReplay, Reload, FindReference, Conclude, Save, Write, Rollback, Return, tables
  <2>3. u \in tx[s] /\ pc[s] = "Commit"
    BY <1>3, <2>1, <2>2 DEF Commit
  <2>4. Verdict(z, t) /\ Verdict(s, u) /\ IsValidRequest(t.request) /\ IsValidRequest(u.request)
    BY <1>1, <1>3, <2>3 DEF VerdictInv, ValidInv
  <2>5. t.request.wallet = u.request.wallet
    BY <1>3, <2>4, ReversalsShareWallet
  <2> QED
    BY <1>1, <1>3, <2>3, <2>5 DEF LockInv, Holding
<1> QED
  BY <1>2, <1>3 DEF FreshInv

\* No step makes a caller overlook an operation it should have found.
LEMMA FreshInvHolds ==
  ASSUME DecidedInv, FreshInv, [Next]_vars
  PROVE  FreshInv'
<1> USE DEF DecidedInv, SettledInv, JustInv
<1>1. \A u \in ops : \E v \in ops' : v.request = u.request
  BY RequestsStay
\* What conflicts with r is still there.
<1> DEFINE Met(r) == \E u \in ops : /\ u.request # r
                                    /\ SameKey(u.request, r) \/ NameOf(u.request) = NameOf(r)
<1>2. ASSUME UNCHANGED <<ops, pc, tx>>
      PROVE  FreshInv'
  BY <1>2 DEF FreshInv, NoSpuriousConflict
<1>3. ASSUME NEW s \in Sessions, SessionStep(s)
      PROVE  FreshInv'
  <2>1. \A z \in Sessions \ {s} : pc'[z] = pc[z] /\ tx'[z] = tx[z]
    BY <1>3, OthersKeep
  <2>2. \A t, u \in tx[s] : t = u
    BY DEF SessionInv
  <2>3. s \in Callers /\ pc'[s] \in {"FindReference", "Conclude", "Save"} =>
          \A t \in tx'[s], u \in ops' : u.request # t.request
    <3>1. CASE FindReplay(s)
      BY <2>2, <3>1 DEF FindReplay, IsReplayOf, SameKey, EndSession, Goto, TypeInv, tables
    <3>2. CASE FindReference(s)
      BY <3>2 DEF FindReference, FreshInv, tables
    <3>3. CASE Conclude(s)
      <4>1. PICK t \in tx[s], u \in Counted : tx' = [tx EXCEPT ![s] = {u}] /\ u.request = t.request
        BY <3>3, ConcludeKeepsRequest
      <4>2. tx'[s] = {u} /\ pc[s] = "Conclude" /\ ops' = ops
        BY <3>3, <4>1 DEF TypeInv, Conclude, tables
      <4> QED
        BY <4>1, <4>2 DEF FreshInv
    <3>4. CASE Reload(s)
      BY <3>4, SessionsAssumption DEF Reload, SessionInv
    <3>5. CASE ~(FindReplay(s) \/ FindReference(s) \/ Conclude(s) \/ Reload(s))
      BY <1>3, <3>5 DEF SessionStep, Settling, Receive, Lease, GetForUpdate, WalletNotFound,
           Save, Create, UpdatePendingReference, Write, Commit, Rollback, Return,
           EndSession, Goto, TypeInv
    <3> QED
      BY <3>1, <3>2, <3>3, <3>4, <3>5
  <2>4. pc'[s] = "Save" => \A t \in tx'[s], u \in ops' : ~SameReversal(t, u)
    <3>1. CASE Conclude(s)
      <4>1. ops' = ops
        BY <3>1 DEF Conclude, tables
      <4> QED
        BY <3>1, <4>1, ConcludeSeesReversals
    <3>2. CASE ~Conclude(s)
      BY <1>3, <3>2 DEF SessionStep, Settling, Receive, Lease, GetForUpdate, WalletNotFound,
           FindReplay, Reload, FindReference, Save, Create, UpdatePendingReference, Write,
           Commit, Rollback, Return, EndSession, Goto, TypeInv
    <3> QED
      BY <3>1, <3>2
  <2>5. ASSUME pc'[s] = "conflict", NEW t \in tx'[s]
        PROVE  Met(t.request)
    <3>1. CASE FindReplay(s)
      <4>1. tx' = tx /\ \E x \in tx[s] : \E u \in ops : IsConflictWith(u, x.request)
        BY <2>5, <3>1 DEF FindReplay, EndSession, Goto, TypeInv
      <4>2. PICK u \in ops : IsConflictWith(u, t.request)
        BY <2>2, <2>5, <4>1
      <4> QED
        BY <4>2 DEF IsConflictWith, SameKey
    <3>2. CASE Save(s)
      <4>1. /\ s \in Callers /\ pc[s] = "Save" /\ tx' = tx
            /\ \E x \in tx[s] : \E u \in ops : Clashes(x, u)
        BY <2>5, <3>2 DEF Save, Create, UpdatePendingReference, EndSession, Goto, TypeInv
      <4>2. PICK u \in ops : Clashes(t, u)
        BY <2>2, <2>5, <4>1
      <4>3. u.request # t.request /\ ~SameReversal(t, u)
        BY <2>5, <4>1 DEF FreshInv
      <4> QED
        BY <4>2, <4>3 DEF Clashes, SameKey
    <3> QED
      BY <1>3, <2>5, <3>1, <3>2
         DEF SessionStep, Settling, Receive, Lease, GetForUpdate, WalletNotFound,
             Reload, FindReference, Conclude, Write, Commit, Rollback, Return,
             EndSession, Goto, TypeInv
  <2>6. ASSUME NEW z \in Sessions, pc'[z] = "conflict", NEW t \in tx'[z]
        PROVE  Met(t.request)
    <3>1. CASE z = s
      BY <2>5, <2>6, <3>1
    <3>2. CASE z # s
      BY <2>1, <2>6, <3>2 DEF FreshInv, NoSpuriousConflict
    <3> QED
      BY <3>1, <3>2
  <2>7. NoSpuriousConflict'
    <3>1. ASSUME NEW z \in Sessions, pc'[z] = "conflict", NEW t \in tx'[z]
          PROVE  \E u \in ops' :
                   /\ u.request # t.request
                   /\ SameKey(u.request, t.request) \/ NameOf(u.request) = NameOf(t.request)
      <4>1. PICK u \in ops : /\ u.request # t.request
                             /\ \/ SameKey(u.request, t.request)
                                \/ NameOf(u.request) = NameOf(t.request)
        BY <2>6, <3>1
      <4>2. PICK v \in ops' : v.request = u.request
        BY <1>1
      <4> QED
        BY <4>1, <4>2
    <3> QED
      BY <3>1 DEF NoSpuriousConflict
  <2>8. ASSUME NEW z \in Callers, NEW t \in tx'[z]
        PROVE  /\ pc'[z] \in {"FindReference", "Conclude", "Save"} =>
                    \A u \in ops' : u.request # t.request
               /\ pc'[z] = "Save" => \A u \in ops' : ~SameReversal(t, u)
    <3>1. CASE z = s
      BY <2>3, <2>4, <2>8, <3>1
    <3>2. CASE z # s
      <4>1. pc'[z] = pc[z] /\ t \in tx[z]
        BY <2>1, <2>8, <3>2 DEF Sessions
      <4> QED
        BY <1>3, <3>2, <4>1, MissingStays
    <3> QED
      BY <3>1, <3>2
  <2> QED
    BY <2>7, <2>8 DEF FreshInv
<1>4. ASSUME NEW w \in Wallets, NEW b \in OpeningBalances, OpenWallet(w, b)
      PROVE  FreshInv'
  BY <1>2, <1>4 DEF OpenWallet, session
<1> QED
  BY <1>2, <1>3, <1>4, StepsAre DEF vars

\* Whoever sends an operation again, even while it is still being settled, never
\* hears of a conflict with itself: FindReplay and the failed INSERT report one
\* only when the key or the identifier is that of a different operation.
THEOREM ConflictsAreReal == Spec => []NoSpuriousConflict
<1>1. Init => FreshInv
  BY DEF Init, FreshInv, NoSpuriousConflict, Sessions
<1>2. DecidedInv /\ FreshInv /\ [Next]_vars => FreshInv'
  BY FreshInvHolds
<1>3. FreshInv => NoSpuriousConflict
  BY DEF FreshInv
<1> QED
  BY <1>1, <1>2, <1>3, DecidedInvHolds, PTL DEF Spec
===============================================================================
