---------------------------- MODULE SettlementBook ----------------------------
(***************************************************************************)
(* Settlement implements WalletBook: every database transaction that       *)
(* commits is one decision of the book, justified by the balance and the   *)
(* operations as they stand when it commits, although it read them earlier *)
(* and other sessions ran in between.                                      *)
(***************************************************************************)
EXTENDS Settlement

StatusOf(u) ==
  IF ~IsTerminal(u.state) THEN "waiting"
  ELSE IF u.state = "PROCESSED" THEN "applied" ELSE "refused"

\* What the ledger says an operation did to its wallet: nothing without entry.
EffectOn(u) ==
  LET w == u.request.wallet
      changes == {ledger[w][i].after - ledger[w][i].before :
                    i \in EntriesOf(w, NameOf(u.request))}
  IN  IF changes = {} THEN 0 ELSE CHOOSE c \in changes : TRUE

Decision(u) ==
  [request |-> u.request, status |-> StatusOf(u), effect |-> EffectOn(u)]

Book == INSTANCE WalletBook WITH
  accounts <- [w \in Wallets |-> IF wallets[w].open THEN {wallets[w].balance} ELSE {}],
  book     <- {Decision(u) : u \in ops}

\* Serialisability: the committed operations are those of a book that decides
\* one operation at a time.
ImplementsBook == Book!BookSpec

\* In the committed operations, whatever their order, a reversal and the one
\* operation it reverses leave the balance as if neither had happened.
ReversalsCancel == Book!ReversalsCancel
=============================================================================
