SPECIFICATION ServerSpec
CHECK_DEADLOCK FALSE
CONSTANTS
  Sub = {1, 2}
  Topic = {"evmEvents"}
  TopicOf <- MCLogs
  MaxEvents = 2
  Conn = {c1, c2}
  NoConn = NoConn
  MaxNotifications = 1
INVARIANTS
  PushedInOrder
  NoOrphanSubscription
  NothingAfterUnsubscribe

  
