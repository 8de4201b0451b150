CONSTANTS
  w1 = w1
  w2 = w2
  c1 = c1
  c2 = c2
  Consumers = {c1, c2}
  Messages = {1, 2, 3, 4, 5, 6, 7}
  Queues <- MCQueues
  Envelope <- MCEnvelope
  OpenWallets = {w1}
  BatchSize = 2
  MaxReceives = 2
SPECIFICATION Spec
INVARIANT NothingIsLost
CHECK_DEADLOCK FALSE
