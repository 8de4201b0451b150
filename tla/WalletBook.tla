------------------------------ MODULE WalletBook ------------------------------
(***************************************************************************)
(* What the settlement of operations promises, without transactions, locks *)
(* or retries: a book in which each operation is decided in one instant,   *)
(* on the balance and the operations as they stand at that instant.        *)
(*                                                                         *)
(* An operation waits while the one it refers to is undecided, is applied  *)
(* with its effect on the balance, or is refused, and only with a reason.  *)
(* Settlement implements this specification (module SettlementBook).       *)
(***************************************************************************)
EXTENDS WagerRules

CONSTANTS Requests, OpeningBalances

VARIABLES
  accounts,   \* accounts[w]: the balance of wallet w, {} before it opens
  book        \* the operations on record, [request, status, effect]

bookVars == <<accounts, book>>

Status == {"waiting", "applied", "refused"}

BookTypeOK ==
  /\ \A w \in Wallets : \/ accounts[w] = {}
                        \/ \E b \in 0..MaxBalance : accounts[w] = {b}
  /\ \A d \in book : /\ d.request \in Requests
                     /\ d.status \in Status
                     /\ d.effect \in -MaxBalance..MaxBalance

-----------------------------------------------------------------------------

\* What is on record under the name the operation refers to.
Referred(r) ==
  {d \in book : /\ d.request.provider = r.provider
                /\ d.request.ext = r.ref}

AlreadyReversed(r) ==
  \E d \in book : /\ d.status = "applied"
                  /\ IsReversal(d.request.kind)
                  /\ d.request.provider = r.provider
                  /\ d.request.ref = r.ref

\* d is something r may be settled against.
Agrees(r, d) ==
  /\ d.request.kind \in ReferableKinds(r.kind)
  /\ d.status = "applied"
  /\ SharesContext(r, d.request)
  /\ IsReversal(r.kind) => d.request.amount = r.amount /\ ~AlreadyReversed(r)

FitsWallet(r) == r.player = Owner[r.wallet] /\ r.currency = CurrencyOf[r.wallet]

\* A bet takes, a win gives; a reversal undoes what its reference did.
EffectOf(r) ==
  IF r.kind = "BET" THEN {-r.amount}
  ELSE IF r.kind = "WIN" THEN {r.amount}
  ELSE IF r.kind = "LOSS" THEN {0}
  ELSE {-d.effect : d \in Referred(r)}

MayApply(r) ==
  /\ FitsWallet(r)
  /\ r.ref = NoReference \/ \E d \in Referred(r) : Agrees(r, d)

\* Why an operation may be refused now, whether it waited or not.
ReasonToRefuse(r, balance) ==
  \/ ~FitsWallet(r)
  \/ \E d \in Referred(r) : d.status # "waiting" /\ ~Agrees(r, d)
  \/ \E effect \in EffectOf(r) : balance + effect < 0

\* A new operation, or one that waited; its name and its key are its own.
New(r) ==
  \A d \in book : /\ NameOf(d.request) # NameOf(r)
                  /\ d.request.provider = r.provider => d.request.key # r.key

Waiting(r) == [request |-> r, status |-> "waiting", effect |-> 0]

Decide(r, status, effect) ==
  /\ New(r) \/ Waiting(r) \in book
  /\ book' = (book \ {Waiting(r)})
               \cup {[request |-> r, status |-> status, effect |-> effect]}

\* Only an operation of the same wallet is certain to have been looked up in
\* the same instant.
Undecided(r) ==
  \A d \in Referred(r) : d.request.wallet = r.wallet => d.status = "waiting"

-----------------------------------------------------------------------------

BookInit ==
  /\ accounts = [w \in Wallets |-> {}]
  /\ book = {}

Open(w, balance) ==
  /\ accounts[w] = {}
  /\ accounts' = [accounts EXCEPT ![w] = {balance}]
  /\ UNCHANGED book

Park(r) ==
  /\ accounts[r.wallet] # {}
  /\ r.ref # NoReference
  /\ Undecided(r)
  /\ New(r)
  /\ book' = book \cup {Waiting(r)}
  /\ UNCHANGED accounts

Apply(r) ==
  /\ MayApply(r)
  /\ \E balance \in accounts[r.wallet], effect \in EffectOf(r) :
       /\ balance + effect \in 0..MaxBalance
       /\ accounts' = [accounts EXCEPT ![r.wallet] = {balance + effect}]
       /\ Decide(r, "applied", effect)

Refuse(r) ==
  /\ \E balance \in accounts[r.wallet] : ReasonToRefuse(r, balance)
  /\ Decide(r, "refused", 0)
  /\ UNCHANGED accounts

GiveUp(r) ==
  /\ Waiting(r) \in book
  /\ Undecided(r)
  /\ Decide(r, "refused", 0)
  /\ UNCHANGED accounts

BookNext ==
  \/ \E w \in Wallets, b \in OpeningBalances : Open(w, b)
  \/ \E r \in Requests : Park(r) \/ Apply(r) \/ Refuse(r) \/ GiveUp(r)

BookSpec == BookInit /\ [][BookNext]_bookVars

-----------------------------------------------------------------------------
(* What follows from the book's rules alone *)

\* Whatever the order of bet, win, refund and rollbacks, an applied reversal and
\* the one operation it reverses leave the balance as if neither had happened.
ReversalsCancel ==
  \A d \in book : d.status = "applied" /\ IsReversal(d.request.kind) =>
    /\ \E c \in Referred(d.request) : c.effect + d.effect = 0 /\ c.status = "applied"
    /\ \A e \in book : /\ e.status = "applied"
                       /\ IsReversal(e.request.kind)
                       /\ Referred(e.request) = Referred(d.request)
                       => e = d
=============================================================================
