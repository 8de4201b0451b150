------------------------------ MODULE MCRetries ------------------------------
(***************************************************************************)
(* Two workers whose leases overlap retry what waits in one wallet: the    *)
(* reversal of a bet that may come late, never, or be refused, and two     *)
(* rollbacks that refer to each other and can only give up.                *)
(***************************************************************************)
EXTENDS Settlement, TLC

CONSTANTS w1, ana, c1, k1, k2

Request(ext, kind, amount, ref) ==
  [provider |-> "p", ext |-> ext, key |-> ext, wallet |-> w1, player |-> ana,
   currency |-> "BRL", round |-> 1, kind |-> kind, amount |-> amount, ref |-> ref]

MCRequests ==
  {Request("bet", "BET", 2, "none"),
   Request("refund", "REFUND", 2, "bet"),
   Request("loop1", "ROLLBACK", 1, "loop2"),
   Request("loop2", "ROLLBACK", 1, "loop1")}

MCWallets == {w1}
MCOwner == [w \in MCWallets |-> ana]
MCCurrencyOf == [w \in MCWallets |-> "BRL"]

WorkersAreAlike == Permutations(Workers)
=============================================================================
