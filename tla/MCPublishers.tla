------------------------------ MODULE MCPublishers ------------------------------
(***************************************************************************)
(* Two publishers and the events of one wallet, or of two.                 *)
(***************************************************************************)
EXTENDS OutboxPublisher, TLC

CONSTANTS w1, w2, p1, p2

AllAreAlike == Permutations(Publishers) \cup Permutations(Wallets)
=============================================================================
