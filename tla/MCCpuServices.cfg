SPECIFICATION FairSpec
CONSTANTS
  Packets <- MCPackets
  Blocks = {0, 2}
  Identify <- MCIdentify
  ListAllBlocks <- MCListAllBlocks
  Faults = {"refuse", "garble", "empty"}
  maxUserdataFollowUps = 2
  maxUploadChunks = 3
  maxUploadRetries = 2
  MaxCalls = 2
  MaxRefs = 16
INVARIANTS TypeOK ResultIsWhole UploadJobsEnded
PROPERTY CallReturns
CHECK_DEADLOCK FALSE
