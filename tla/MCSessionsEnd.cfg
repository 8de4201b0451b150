CONSTANTS
  w1 = w1
  w2 = w2
  w3 = w3
  ana = ana
  bia = bia
  c1 = c1
  c2 = c2
  k = k
  Callers = {c1, c2}
  Workers = {k}
  Wallets <- MCWallets
  Owner <- MCOwner
  CurrencyOf <- MCCurrencyOf
  Requests <- MCRequests
  NoReference = "none"
  MaxBalance = 3
  MaxAttempts = 2
  OpeningBalances = {1}
SPECIFICATION FairSpec
PROPERTY EverySessionEnds
