SPECIFICATION Spec
CHECK_DEADLOCK FALSE
CONSTANTS
  Sub = {1, 2}
  Topic = {"headerEvents"}
  TopicOf <- MCHeaders
  MaxEvents = 1
  RPCFilterCap = 1
  Free = Free
  Poll = Poll
PROPERTIES
  MutexReleased
  ReaderStops
