SPECIFICATION Spec
CONSTANTS
    MaxOutputBytes = 3
    ChunkSizes = {1, 2}
    MaxChunks = 3
    Frames = 1
    PageEvents = 2
    PageBytes = 4
    SampleRequests <- NearlyGood
    GoodRequest <- Good
INVARIANTS CallerSeesTheRun OutputIsAccounted RefusalIsHonest
PROPERTIES AbandonedRunEnds RunReturns
CHECK_DEADLOCK FALSE
