------------------------------ MODULE MCWallets ------------------------------
(***************************************************************************)
(* Wallets whose operations share identifiers and idempotency keys, so     *)
(* that no row lock orders them: the unique indexes decide.  Also an       *)
(* operation on somebody else's wallet, one in another currency, a loss, a *)
(* reference in another wallet, a bet without funds, a credit past the     *)
(* largest balance, wallets not opened yet and a second wallet of a player.*)
(***************************************************************************)
EXTENDS Settlement, TLC

CONSTANTS w1, w2, w3, ana, bia, c1, c2

Bet == [provider |-> "p", ext |-> "bet", key |-> "k1", wallet |-> w1,
        player |-> ana, currency |-> "BRL", round |-> 1, kind |-> "BET",
        amount |-> 2, ref |-> "none"]

MCRequests ==
  {Bet,
   \* the key of the bet with another payload, in the other wallet
   [Bet EXCEPT !.ext = "win", !.wallet = w2, !.player = bia, !.kind = "WIN"],
   \* the identifier of the bet under another key, in the other wallet
   [Bet EXCEPT !.key = "k2", !.wallet = w2, !.player = bia, !.kind = "WIN",
               !.amount = 1],
   \* somebody else's wallet
   [Bet EXCEPT !.ext = "loss", !.key = "k3", !.wallet = w2, !.kind = "LOSS",
               !.amount = 0],
   \* another currency
   [Bet EXCEPT !.ext = "usd", !.key = "k4", !.currency = "USD", !.kind = "LOSS",
               !.amount = 0],
   \* nothing moves
   [Bet EXCEPT !.ext = "lost", !.key = "k6", !.kind = "LOSS", !.amount = 0],
   \* a reference in another wallet
   [Bet EXCEPT !.ext = "refund", !.key = "k5", !.wallet = w2, !.player = bia,
               !.kind = "REFUND", !.ref = "bet"]}

MCWallets == {w1, w2, w3}
MCOwner == (w1 :> ana) @@ (w2 :> bia) @@ (w3 :> ana)
MCCurrencyOf == [w \in MCWallets |-> "BRL"]

CallersAreAlike == Permutations(Callers)
=============================================================================
