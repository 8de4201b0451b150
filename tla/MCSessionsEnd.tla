---------------------------- MODULE MCSessionsEnd ----------------------------
(***************************************************************************)
(* Two callers that settle operations with the same idempotency key in two *)
(* wallets, so that one waits in the middle of its transaction for the     *)
(* other to end its own; a worker that retries a win whose bet may never   *)
(* come; and a third wallet that is not opened.                            *)
(***************************************************************************)
EXTENDS Settlement, TLC

CONSTANTS w1, w2, w3, ana, bia, c1, c2, k

Bet(ext, key, w, player) ==
  [provider |-> "p", ext |-> ext, key |-> key, wallet |-> w, player |-> player,
   currency |-> "BRL", round |-> 1, kind |-> "BET", amount |-> 1, ref |-> "none"]

MCRequests ==
  {Bet("a", "k1", w1, ana), Bet("b", "k1", w2, bia), Bet("c", "k2", w3, ana),
   [Bet("d", "k3", w1, ana) EXCEPT !.kind = "WIN", !.ref = "a"]}

MCWallets == {w1, w2, w3}
MCOwner == (w1 :> ana) @@ (w2 :> bia) @@ (w3 :> ana)
MCCurrencyOf == [w \in MCWallets |-> "BRL"]
=============================================================================
