SPECIFICATION Spec
CHECK_DEADLOCK FALSE
CONSTANTS
  Sub = {1, 2}
  Topic = {"evmEvents"}
  TopicOf <- MCLogs
  MaxEvents = 2
  RPCFilterCap = 2
  Free = Free
  Poll = Poll
INVARIANTS
  PollNeverBlocks
  ClosedOnce
  NoEventTwice
