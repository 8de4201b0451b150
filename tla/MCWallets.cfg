CONSTANTS
  w1 = w1
  w2 = w2
  w3 = w3
  ana = ana
  bia = bia
  c1 = c1
  c2 = c2
  Callers = {c1, c2}
  Workers = {}
  Wallets <- MCWallets
  Owner <- MCOwner
  CurrencyOf <- MCCurrencyOf
  Requests <- MCRequests
  NoReference = "none"
  MaxBalance = 3
  MaxAttempts = 1
  OpeningBalances = {0, 2}
SPECIFICATION Spec
SYMMETRY CallersAreAlike
INVARIANT LoadedWalletIsCurrent
INVARIANT OneOperationPerKey
INVARIANT NoSpuriousConflict
INVARIANT AnswerIsRecorded
INVARIANT OutboxFollowsCommitOrder
INVARIANT BalanceEventsFollowLedger
