----------------------------- MODULE WagerRules -----------------------------
(***************************************************************************)
(* The domain rules of a wagering operation: which operations are valid,   *)
(* which state changes they may go through, what an operation may refer to *)
(* and how it moves its wallet.  Everything here is a pure function of its *)
(* arguments (internal/domain/wager and internal/domain/wallet), so the    *)
(* modules that add the database and its concurrency only say when each    *)
(* rule is evaluated, and on which data.                                   *)
(*                                                                         *)
(* Text fields (provider, key, player, ...) are atoms that are only ever   *)
(* compared.  Amounts and balances are minor units.  gameId is left out:   *)
(* it is one more field of the payload hash, and roundId stands for both.  *)
(***************************************************************************)
EXTENDS Integers, Sequences, FiniteSets

CONSTANTS
  Wallets,         \* wallet identifiers
  Owner,           \* Owner[w]: the player the wallet is opened for
  CurrencyOf,      \* CurrencyOf[w]: the currency of its balance
  NoReference,     \* the empty referenceExternalTransactionId
  MaxBalance,      \* the largest int64 number of minor units
  MaxAttempts      \* ReferenceRetryPolicy.MaxAttempts

ASSUME WalletsAssumption ==
  /\ DOMAIN Owner = Wallets
  /\ DOMAIN CurrencyOf = Wallets
ASSUME BoundsAssumption ==
  /\ MaxBalance \in Nat \ {0}
  /\ MaxAttempts \in Nat \ {0}

-----------------------------------------------------------------------------
(* Kinds and states *)

ExternalKinds == {"BET", "WIN", "LOSS", "REFUND", "ROLLBACK"}

IsReversal(kind) == kind \in {"REFUND", "ROLLBACK"}

AllowsReference(kind) == IsReversal(kind) \/ kind = "WIN"

ReferableKinds(kind) ==
  CASE kind = "WIN"      -> {"BET"}
    [] kind = "REFUND"   -> {"BET"}
    [] kind = "ROLLBACK" -> {"BET", "WIN", "REFUND"}
    [] OTHER             -> {}

States == {"PENDING", "PENDING_REFERENCE", "PROCESSED", "REJECTED", "FAILED"}

IsTerminal(state) == state \in {"PROCESSED", "REJECTED", "FAILED"}

CanTransitionTo(from, to) ==
  \/ /\ from = "PENDING"
     /\ to \in {"PENDING_REFERENCE", "PROCESSED", "REJECTED", "FAILED"}
  \/ /\ from = "PENDING_REFERENCE"
     /\ to \in {"PROCESSED", "REJECTED", "FAILED"}

-----------------------------------------------------------------------------
(* Operations as the provider sends them *)

FieldNames == {"provider", "ext", "key", "wallet", "player", "currency",
               "round", "kind", "amount", "ref"}

\* The name an operation keeps for ever: no two recorded operations share it.
NameOf(request) == <<request.provider, request.ext>>

\* What NewExternal accepts; a request it refuses leaves no trace.
AmountFits(kind, amount) ==
  IF kind = "LOSS" THEN amount = 0 ELSE amount > 0

ReferenceFits(kind, ref) ==
  /\ IsReversal(kind) => ref # NoReference
  /\ ~AllowsReference(kind) => ref = NoReference

IsValidRequest(request) ==
  /\ request.kind \in ExternalKinds
  /\ AmountFits(request.kind, request.amount)
  /\ ReferenceFits(request.kind, request.ref)
  /\ request.ref # request.ext

\* Every business field but the idempotency key.
PayloadHash(request) ==
  <<request.provider, request.ext, request.wallet, request.player,
    request.currency, request.round, request.kind, request.amount, request.ref>>

-----------------------------------------------------------------------------
(* The transaction record and its state machine *)

NoFailure == "NONE"
NoBalance == -1

RejectionCodes ==
  {"WALLET_PLAYER_MISMATCH", "CURRENCY_MISMATCH", "INSUFFICIENT_FUNDS",
   "INSUFFICIENT_FUNDS_FOR_REVERSAL", "REFERENCE_MISMATCH",
   "REFERENCE_NOT_PROCESSED", "REFERENCE_AMOUNT_MISMATCH",
   "REFERENCE_ALREADY_REVERSED", "REFERENCE_NOT_FOUND"}

NewExternal(request) ==
  [request       |-> request,
   state         |-> "PENDING",
   resolved      |-> FALSE,      \* referenceTransactionID was attached
   attempts      |-> 0,
   failureCode   |-> NoFailure,
   resultBalance |-> NoBalance]

MarkPendingReference(t) == [t EXCEPT !.state = "PENDING_REFERENCE"]

MarkProcessed(t, balance) ==
  [t EXCEPT !.state = "PROCESSED", !.resultBalance = balance]

MarkRejected(t, code) == [t EXCEPT !.state = "REJECTED", !.failureCode = code]

RejectOnePastTheLast(t) ==
  LET counted == [t EXCEPT !.attempts = @ + 1]
  IN  IF counted.attempts <= MaxAttempts
        THEN counted
        ELSE MarkRejected(counted, "REFERENCE_NOT_FOUND")
RejectAtTheFirst(t) ==
  MarkRejected([t EXCEPT !.attempts = @ + 1], "REFERENCE_NOT_FOUND")
RecordMissingReference(t) ==
  LET counted == [t EXCEPT !.attempts = @ + 1]
  IN  IF counted.attempts < MaxAttempts
        THEN counted
        ELSE MarkRejected(counted, "REFERENCE_NOT_FOUND")

-----------------------------------------------------------------------------
(* The reference of an operation *)

SharesContext(request, reference) ==
  /\ reference.wallet = request.wallet
  /\ reference.player = request.player
  /\ reference.currency = request.currency
  /\ reference.round = request.round

\* The refusal of ResolveReference, NoFailure when the two agree.  `reference`
\* is the transaction found under the operation's reference, never nil here.
ResolveReference(request, reference) ==
  IF reference.request.kind \notin ReferableKinds(request.kind)
    THEN "REFERENCE_MISMATCH"
  ELSE IF reference.state # "PROCESSED"
    THEN "REFERENCE_NOT_PROCESSED"
  ELSE IF ~SharesContext(request, reference.request)
    THEN "REFERENCE_MISMATCH"
  ELSE IF IsReversal(request.kind) /\ reference.request.amount # request.amount
    THEN "REFERENCE_AMOUNT_MISMATCH"
  ELSE NoFailure

-----------------------------------------------------------------------------
(* The wallet: how an operation moves it *)

RefundsMoveNothing(kind) == kind \notin {"LOSS", "REFUND"}
Moves(kind) == kind # "LOSS"

\* The kind of the operation referred to is "NONE" when there is none.
RollbackAlwaysCredits(kind, referenceKind) ==
  IF kind = "BET" THEN "DEBIT" ELSE "CREDIT"
DirectionOf(kind, referenceKind) ==
  IF kind = "BET" \/ (kind = "ROLLBACK" /\ referenceKind # "BET")
    THEN "DEBIT" ELSE "CREDIT"

\* Wallet.move: the balance after the movement.
BalanceAfter(direction, balance, amount) ==
  IF direction = "DEBIT" THEN balance - amount ELSE balance + amount

\* A credit past int64 is an error of the arithmetic, not a refusal: it aborts
\* the database transaction and records nothing.
Overflows(direction, balance, amount) ==
  direction = "CREDIT" /\ balance + amount > MaxBalance

ShortOfFunds(kind, direction, balance, amount) ==
  /\ Moves(kind)
  /\ direction = "DEBIT"
  /\ balance < amount

\* The refusal of Wallet.Apply, NoFailure when the operation is applied.
ApplyRefusal(request, referenceKind, balance) ==
  LET direction == DirectionOf(request.kind, referenceKind)
  IN  IF request.player # Owner[request.wallet]
        THEN "WALLET_PLAYER_MISMATCH"
      ELSE IF request.currency # CurrencyOf[request.wallet]
        THEN "CURRENCY_MISMATCH"
      ELSE IF ShortOfFunds(request.kind, direction, balance, request.amount)
        THEN IF request.kind = "BET" THEN "INSUFFICIENT_FUNDS"
             ELSE "INSUFFICIENT_FUNDS_FOR_REVERSAL"
      ELSE NoFailure
=============================================================================
