\* The coroutine and the synchronous servers, sessions of two messages, two in all,
\* and connections that only a server closes.
SPECIFICATION FairSystemSpec
CONSTANTS
  Kinds = {"session", "op_session", "zc_session", "sync_session", "sync_zc_session"}
  Client = c1
  SessionMessages = 2
  TotalMessages = 2
  MaxMessages = 9
  Messages = {"good", "bad", "bodyless"}
  MaxBreaks = 0
  MaxSessions = 3
INVARIANTS InStep DeadlockOnlyBodyless WatchdogReleased
PROPERTIES RepliesOrCloses
CHECK_DEADLOCK FALSE
