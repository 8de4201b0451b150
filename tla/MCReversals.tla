----------------------------- MODULE MCReversals -----------------------------
(***************************************************************************)
(* One wallet, a bet, both ways to reverse it and the reversal of one of   *)
(* them, sent in any order, any number of times, by two callers while a    *)
(* worker retries whatever waits.                                          *)
(***************************************************************************)
EXTENDS SettlementBook, TLC

CONSTANTS w1, ana, c1, c2, k1

Request(ext, kind, amount, ref) ==
  [provider |-> "p", ext |-> ext, key |-> ext, wallet |-> w1, player |-> ana,
   currency |-> "BRL", round |-> 1, kind |-> kind, amount |-> amount, ref |-> ref]

MCRequests ==
  {Request("bet", "BET", 2, "none"),
   Request("refund", "REFUND", 2, "bet"),
   Request("rollback", "ROLLBACK", 2, "bet"),
   Request("undo", "ROLLBACK", 2, "refund")}

MCWallets == {w1}
MCOwner == [w \in MCWallets |-> ana]
MCCurrencyOf == [w \in MCWallets |-> "BRL"]

CallersAreAlike == Permutations(Callers)
=============================================================================
