SPECIFICATION FairSpec
CONSTANTS
  w1 = w1
  w2 = w2
  Reader = reader
  Writers <- TwoWriters
  MaxQueued = 2
  Unwritable <- ThirdUnwritable
  Malformed <- SecondMalformed
  MaxSends = 3
  MaxStarts = 1
  MaxStops = 1
  MaxFrames = 2
INVARIANT SingleWriter
INVARIANT NoStrandedMessage
INVARIANT ClosedIsDrained
INVARIANT WireIsFramed
PROPERTY ClosedIsFinal
PROPERTY ClosedLoopsEnd
PROPERTY PeerCloseIsNoticed
PROPERTY PipeSpec
CHECK_DEADLOCK FALSE
