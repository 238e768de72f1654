\* Three threads, a queue of at most two tasks and six messages.
SPECIFICATION FairSpec
CONSTANTS
  NumThreads = 3
  MaxSize = 1
  NumTasks = 6
INVARIANTS PillsLast NoTaskLost ResultsComplete QueueBounded
PROPERTIES PoolCloses ImplementsWorkQueue
