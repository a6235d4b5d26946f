SPECIFICATION FairSpec
CONSTANTS
  MaxConnects = 3
  MaxRequests = 2
PROPERTY ShownSettles
PROPERTY ControlsComeBack
PROPERTY RequestsAreReported
PROPERTY QuitReturns
CHECK_DEADLOCK FALSE
