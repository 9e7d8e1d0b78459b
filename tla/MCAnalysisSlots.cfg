\* Every request has been answered, or waits for a slot that is never freed.
CHECK_DEADLOCK FALSE
SPECIFICATION FairSpec
CONSTANTS
  Requests = {r1, r2, r3}
  ImageSlots = 2
  DxfSlots = 1
INVARIANTS SlotsConserved NeverBehindAbandoned
PROPERTY EveryoneAnswered
