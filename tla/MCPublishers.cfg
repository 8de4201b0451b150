CONSTANTS
  w1 = w1
  w2 = w2
  p1 = p1
  p2 = p2
  Wallets = {w1}
  Publishers = {p1, p2}
  BatchSize = 2
  MaxEvents = 2
  MaxFailures = 2
SPECIFICATION FairSpec
INVARIANT FirstDeliveriesInOrder
INVARIANT PublishedWasDelivered
INVARIANT NoPublisherOvertakes
PROPERTY EveryEventIsPublished
CHECK_DEADLOCK FALSE
