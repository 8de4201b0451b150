CONSTANTS
  w1 = w1
  ana = ana
  c1 = c1
  c2 = c2
  k1 = k1
  Callers = {c1, c2}
  Workers = {k1}
  Wallets <- MCWallets
  Owner <- MCOwner
  CurrencyOf <- MCCurrencyOf
  Requests <- MCRequests
  NoReference = "none"
  MaxBalance = 4
  MaxAttempts = 1
  OpeningBalances = {2}
SPECIFICATION Spec
SYMMETRY CallersAreAlike
INVARIANT LedgerExplainsBalance
INVARIANT MoneyMovesOnce
INVARIANT OneReversalPerReference
INVARIANT ReversalsCancel
PROPERTY ImplementsBook
