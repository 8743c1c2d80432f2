SPECIFICATION Spec
CONSTANTS
  BufferSize = 4
  Gaps = {1, 2}
  MaxSamples = 4
  MaxFrames = 4
  MaxReplies = 1
  MaxFailures = 1
  States = {1024}
INVARIANTS TypeOK Understood OneSeries
PROPERTIES DiscardedAreStored AllReleased
