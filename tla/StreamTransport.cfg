SPECIFICATION FairSpec
CONSTANTS
  Fds = {0, 1, 2}
  Transports = {"t1", "t2"}
  Listeners = {"l1", "l2"}
  Paths = {"p"}
  Pairs = 2
  Addresses = 2
  MaxBytes = 3
  SendRoom = 2
  SpanLists <- MCSpanLists
  Plans <- MCPlans
INVARIANTS
  DescriptorsKept
  ReportsAreTrue
  PathsAreOwned
PROPERTIES
  EndIsFinal
  ImplementsPipe
  ConnectReturns
