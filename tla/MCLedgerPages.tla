---------------------------- MODULE MCLedgerPages ----------------------------
(***************************************************************************)
(* Two goroutines move a wallet while its ledger is read one entry a page. *)
(***************************************************************************)
EXTENDS LedgerPages, TLC

CONSTANTS s1, s2

WritersAreAlike == Permutations(Writers)
=============================================================================
