------------------------------- MODULE TaskPool -------------------------------
(***************************************************************************)
(* basic_thread_pool (src/client/thread_pool.h) as mbox/index.h uses it:   *)
(* the thread that opens a message archive posts a task for each message,  *)
(* closes the pool and then reads what the tasks have produced.  The pool  *)
(* is destroyed, which closes it again, when open returns.                 *)
(*                                                                         *)
(* A critical section of mux_ is one action.  A wait on a condition        *)
(* variable is a state of the thread: Notify chooses whom notify_one       *)
(* wakes, a woken thread checks its predicate again, and a thread may wake *)
(* up without being notified.  The tasks, which fix one message each and   *)
(* do not throw, are numbers; an empty std::function is a Pill.            *)
(* No caller passes force to close or posts from a second thread.          *)
(***************************************************************************)
EXTENDS Integers, Sequences, FiniteSets

CONSTANTS
  NumThreads,  (* 24 in index::open                      *)
  MaxSize,     (* max_size_, 100 in index::open          *)
  NumTasks     (* bound: messages in the archive         *)

ASSUME PoolAssumption ==
  /\ NumThreads \in Nat \ {0} /\ MaxSize \in Nat /\ NumTasks \in Nat

VARIABLES
  q,        (* q_: the queue of tasks                                        *)
  running,  (* running_                                                      *)
  group,    (* the size of thread_group_: threads not joined yet             *)
  main,     (* where the posting thread is                                   *)
  posted,   (* number of tasks posted                                        *)
  worker,   (* where each thread of the pool is                              *)
  job,      (* the task a thread has popped                                  *)
  begun,    (* ghost: number of tasks popped                                 *)
  done      (* the tasks that were run                                       *)

vars == <<q, running, group, main, posted, worker, job, begun, done>>

Workers == 1 .. NumThreads

Tasks == 1 .. NumTasks

\* Not a task: no task has this number.
Pill == 0

\* post: before the lock or woken; full: waits for read_cond_; close, notify
\* and join are the three parts of close; read: close has returned and the
\* results are read; the destructor closes again until the pool is gone.
MainStates == {"post", "full", "close", "notify", "join", "read",
               "destroy", "notify_again", "join_again", "gone"}

\* pop: before the lock or woken; idle: waits for write_cond_.
WorkerStates == {"pop", "idle", "run", "exit", "crash"}
-----------------------------------------------------------------------------
(* Faulty... is the operator defined after it with a plausible mistake.    *)

Init ==
  /\ q = <<>> /\ running = TRUE /\ group = NumThreads
  /\ main = "post" /\ posted = 0
  /\ worker = [w \in Workers |-> "pop"]
  /\ job = [w \in Workers |-> Pill]
  /\ begun = 0 /\ done = {}

FaultyNotifyOne(threads) == {threads}

\* notify_one of write_cond_ wakes one of the threads that wait for it, if any.
NotifyOne(threads) ==
  LET idle == {w \in Workers : threads[w] = "idle"}
  IN  IF idle = {} THEN {threads}
      ELSE {[threads EXCEPT ![w] = "pop"] : w \in idle}

NotifyAll(threads) ==
  [w \in Workers |-> IF threads[w] = "idle" THEN "pop" ELSE threads[w]]

More == posted < NumTasks

FaultyHasRoom(queue) == TRUE

HasRoom(queue) == Len(queue) <= MaxSize

\* post, with the loop of index::open around it.
Post ==
  /\ main = "post" /\ More
  /\ HasRoom(q)
  /\ posted' = posted + 1
  /\ q' = Append(q, posted')
  /\ worker' \in NotifyOne(worker)
  /\ UNCHANGED <<running, group, main, job, begun, done>>

PostWaits ==
  /\ main = "post" /\ More
  /\ ~HasRoom(q)
  /\ main' = "full"
  /\ UNCHANGED <<q, running, group, posted, worker, job, begun, done>>

AllPosted ==
  /\ main = "post" /\ ~More
  /\ main' = "close"
  /\ UNCHANGED <<q, running, group, posted, worker, job, begun, done>>

FaultyPills(queue, n) ==   \* as if close were called with force
  [i \in 1 .. n |-> Pill]

FaultyPillsFirst(queue, n) == [i \in 1 .. n |-> Pill] \o queue

Pills(queue, n) == queue \o [i \in 1 .. n |-> Pill]

\* The critical section of close: an empty task for each thread.
Close(from, to) ==
  /\ main = from
  /\ running' = FALSE
  /\ q' = Pills(q, group)
  /\ main' = to
  /\ UNCHANGED <<group, posted, worker, job, begun, done>>

\* notify_all, after the lock is released.
WakeAll(from, to) ==
  /\ main = from
  /\ worker' = NotifyAll(worker)
  /\ main' = to
  /\ UNCHANGED <<q, running, group, posted, job, begun, done>>

FaultyJoined(n) == TRUE

Joined(n) == worker[n] = "exit"

\* The threads are joined from the last to the first.
Join(from, to) ==
  /\ main = from
  /\ IF group = 0 THEN main' = to /\ UNCHANGED group
     ELSE Joined(group) /\ group' = group - 1 /\ UNCHANGED main
  /\ UNCHANGED <<q, running, posted, worker, job, begun, done>>

\* index::open reads the buffers that the tasks have filled.
ReadResults ==
  /\ main = "read"
  /\ main' = "destroy"
  /\ UNCHANGED <<q, running, group, posted, worker, job, begun, done>>

PopWaits(w) ==
  /\ worker[w] = "pop" /\ q = <<>>
  /\ worker' = [worker EXCEPT ![w] = "idle"]
  /\ UNCHANGED <<q, running, group, main, posted, job, begun, done>>

FaultyAfterPop(task) ==   \* the empty task only makes the thread check
  IF ~running THEN "exit" ELSE IF task = Pill THEN "crash" ELSE "run"

\* What becomes of a thread that has popped a task: run_once ends the loop
\* when pop throws, and to call an empty function would end the process.
AfterPop(task) ==
  IF task # Pill THEN "run" ELSE IF running THEN "crash" ELSE "exit"

\* pop, up to the call of the task; notify_one wakes the posting thread.
Pop(w) ==
  /\ worker[w] = "pop" /\ q # <<>>
  /\ q' = Tail(q)
  /\ worker' = [worker EXCEPT ![w] = AfterPop(Head(q))]
  /\ job' = [job EXCEPT ![w] = Head(q)]
  /\ begun' = IF Head(q) = Pill THEN begun ELSE begun + 1
  /\ main' = IF main = "full" THEN "post" ELSE main
  /\ UNCHANGED <<running, group, posted, done>>

Run(w) ==
  /\ worker[w] = "run"
  /\ done' = done \cup {job[w]}
  /\ worker' = [worker EXCEPT ![w] = "pop"]
  /\ job' = [job EXCEPT ![w] = Pill]
  /\ UNCHANGED <<q, running, group, main, posted, begun>>

\* A condition variable may wake a thread for no reason.
SpuriousWakeup ==
  /\ \/ main = "full" /\ main' = "post" /\ UNCHANGED worker
     \/ \E w \in Workers : /\ worker[w] = "idle"
                           /\ worker' = [worker EXCEPT ![w] = "pop"]
                           /\ UNCHANGED main
  /\ UNCHANGED <<q, running, group, posted, job, begun, done>>

MainStep ==
  \/ Post \/ PostWaits \/ AllPosted
  \/ Close("close", "notify") \/ WakeAll("notify", "join") \/ Join("join", "read")
  \/ ReadResults
  \/ Close("destroy", "notify_again") \/ WakeAll("notify_again", "join_again")
  \/ Join("join_again", "gone")

WorkerStep(w) == PopWaits(w) \/ Pop(w) \/ Run(w)

Finished == main = "gone" /\ UNCHANGED vars

Next == MainStep \/ (\E w \in Workers : WorkerStep(w)) \/ SpuriousWakeup \/ Finished

Spec == Init /\ [][Next]_vars

\* Every thread runs, and gets the lock, again and again.
FairSpec == Spec /\ WF_vars(MainStep) /\ \A w \in Workers : WF_vars(WorkerStep(w))
-----------------------------------------------------------------------------
(* Properties. *)

TypeOK ==
  /\ q \in Seq(Tasks \cup {Pill}) /\ running \in BOOLEAN
  /\ group \in 0 .. NumThreads /\ main \in MainStates /\ posted \in 0 .. NumTasks
  /\ worker \in [Workers -> WorkerStates] /\ job \in [Workers -> Tasks \cup {Pill}]
  /\ begun \in Nat /\ done \subseteq Tasks

\* No task is called when it is empty, and a thread that ends leaves no task
\* behind it in the queue: the empty tasks of close come after all the others.
PillsLast ==
  /\ \A w \in Workers : worker[w] # "crash"
  /\ (\E w \in Workers : worker[w] = "exit") =>
        ~running /\ \A i \in 1 .. Len(q) : q[i] = Pill

Queued(t) == \E i \in 1 .. Len(q) : q[i] = t

Held(t) == \E w \in Workers : worker[w] = "run" /\ job[w] = t

\* A task posted is in the queue, held by a thread that will run it, or done,
\* also when the pool is being closed.
NoTaskLost == \A t \in 1 .. posted : t \in done \/ Queued(t) \/ Held(t)

\* close has returned.
Closed == main \in {"read", "destroy", "notify_again", "join_again", "gone"}

\* index::open reads the results when all of them are there.
ResultsComplete == Closed => done = Tasks

\* post waits while the queue is longer than max_size_, so the queue holds one
\* task more than max_size_, before the empty tasks of close are added.
QueueBounded == running => Len(q) <= MaxSize + 1

\* close and the destructor return: no thread waits for ever.
PoolCloses == <>(main = "gone")

\* The pool is a work queue.
Queue == INSTANCE WorkQueue WITH finished <- done, closed <- Closed
ImplementsWorkQueue == Queue!Spec
===============================================================================
