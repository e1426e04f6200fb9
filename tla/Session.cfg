CONSTANTS
  MaxFrames = 3
  MaxElements = 12
  Request <- MCRequest
  Stream <- MCStream
  max_message_size = 3
SPECIFICATION Spec
CHECK_DEADLOCK FALSE
INVARIANTS TypeOK RepliesFollowRequests ArgsInRange
PROPERTIES EveryFrameAnswered
