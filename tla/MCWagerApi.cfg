SPECIFICATION Spec
CONSTANTS
  Calls = {c1, c2}
  Requests <- MCRequests
  Messages <- MCMessages
  NoKey = NoKey
SYMMETRY Symmetry
INVARIANT AnswersTellOneStory
INVARIANT WalletAnswersFollow
INVARIANT CreatedOnce
INVARIANT ProvidersAreApart
