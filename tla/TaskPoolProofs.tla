---------------------------- MODULE TaskPoolProofs ----------------------------
(***************************************************************************)
(* The safety of TaskPool for any number of threads, tasks and places in   *)
(* the queue.  The results are complete when close returns because of the  *)
(* order of the queue: a thread ends only by popping an empty task, all    *)
(* the empty tasks are behind all the others, so when the first thread     *)
(* has ended no task is left in the queue; and close returns when all of   *)
(* them have ended, so that none holds a task either.  That the pool is a  *)
(* WorkQueue needs QueueInv besides: which tasks the queue holds, in which *)
(* order, and that two threads never hold the same task.                   *)
(***************************************************************************)
EXTENDS TaskPool, FiniteSetTheorems, TLAPS

\* Close has not yet come, is going on, is over.
Open == main \in {"post", "full", "close"}

\* Where the posting thread is agrees with running_, the tasks it has posted
\* and the threads it has joined.
MainInv ==
  /\ running <=> Open
  /\ main \notin {"post", "full"} => posted = NumTasks
  /\ Closed => group = 0
  /\ \A w \in Workers : w > group => worker[w] = "exit"

\* An empty task is in the queue only after close, behind all the tasks.
PillsInv ==
  /\ running => \A i \in 1 .. Len(q) : q[i] # Pill
  /\ \A i, k \in 1 .. Len(q) : i < k /\ q[i] = Pill => q[k] = Pill
  /\ PillsLast

JobInv == \A w \in Workers : worker[w] = "run" => job[w] \in Tasks

IInv == TypeOK /\ MainInv /\ PillsInv /\ JobInv /\ NoTaskLost

\* What post does to the queue: the new task is last.
LEMMA AppendFacts ==
  ASSUME NEW S, NEW s \in Seq(S), NEW e \in S
  PROVE  /\ Append(s, e) \in Seq(S) /\ Len(Append(s, e)) = Len(s) + 1
         /\ \A i \in 1 .. Len(s) : Append(s, e)[i] = s[i]
         /\ Append(s, e)[Len(s) + 1] = e
  OBVIOUS

\* What pop does: the rest of the queue moves up by one place.
LEMMA TailFacts ==
  ASSUME NEW S, NEW s \in Seq(S), s # <<>>
  PROVE  /\ Tail(s) \in Seq(S) /\ Len(Tail(s)) = Len(s) - 1 /\ Len(s) \in Nat \ {0}
         /\ \A i \in 1 .. Len(Tail(s)) : Tail(s)[i] = s[i + 1]
         /\ Head(s) = s[1] /\ Head(s) \in S
  OBVIOUS

\* What close does: the queue keeps its tasks and gets n empty ones at the end.
LEMMA PillsFacts ==
  ASSUME NEW s \in Seq(Tasks \cup {Pill}), NEW n \in Nat
  PROVE  /\ Pills(s, n) \in Seq(Tasks \cup {Pill})
         /\ Len(Pills(s, n)) = Len(s) + n
         /\ \A i \in 1 .. Len(s) : Pills(s, n)[i] = s[i]
         /\ \A i \in Len(s) + 1 .. Len(s) + n : Pills(s, n)[i] = Pill
  BY DEF Pills

\* A notification makes threads that wait ready to pop and changes no other.
LEMMA NotifyFacts ==
  ASSUME NEW threads \in [Workers -> WorkerStates],
         NEW t, t \in NotifyOne(threads) \cup {NotifyAll(threads)}
  PROVE  /\ t \in [Workers -> WorkerStates]
         /\ \A w \in Workers : \/ t[w] = threads[w]
                               \/ threads[w] = "idle" /\ t[w] = "pop"
<1>1. CASE t = NotifyAll(threads)
  BY <1>1 DEF NotifyAll, WorkerStates
<1>2. CASE t \in NotifyOne(threads)
  BY <1>2 DEF NotifyOne, WorkerStates
<1>3. QED
  BY <1>1, <1>2

\* A pool that has just been made satisfies the invariant.
LEMMA InitInv == Init => IInv
<1> SUFFICES ASSUME Init PROVE IInv
  OBVIOUS
<1> USE PoolAssumption DEF Init
<1>1. TypeOK
  BY DEF TypeOK, MainStates, WorkerStates, Workers, Tasks
<1>2. MainInv
  BY DEF MainInv, Open, Closed, Workers
<1>3. PillsInv
  BY DEF PillsInv, PillsLast
<1>4. JobInv /\ NoTaskLost
  BY DEF JobInv, NoTaskLost
<1>5. QED
  BY <1>1, <1>2, <1>3, <1>4 DEF IInv

\* The posting thread posts one more task.
LEMMA PostInv == IInv /\ Post => IInv'
<1> SUFFICES ASSUME IInv, Post PROVE IInv'
  OBVIOUS
<1>0. /\ q \in Seq(Tasks \cup {Pill}) /\ posted \in 0 .. NumTasks /\ posted < NumTasks
      /\ worker \in [Workers -> WorkerStates] /\ main = "post" /\ running
      /\ posted' = posted + 1 /\ q' = Append(q, posted') /\ posted' \in Tasks
      /\ worker' \in NotifyOne(worker)
      /\ UNCHANGED <<running, group, main, job, begun, done>>
  BY PoolAssumption DEF IInv, TypeOK, MainInv, Open, Post, More, Tasks
<1>1. /\ q' \in Seq(Tasks \cup {Pill}) /\ Len(q') = Len(q) + 1 /\ Len(q) \in Nat
      /\ \A i \in 1 .. Len(q) : q'[i] = q[i]
      /\ q'[Len(q) + 1] = posted'
  BY <1>0, AppendFacts
<1>2. /\ worker' \in [Workers -> WorkerStates]
      /\ \A w \in Workers : \/ worker'[w] = worker[w]
                            \/ worker[w] = "idle" /\ worker'[w] = "pop"
  BY <1>0, NotifyFacts
<1>3. posted' # Pill /\ posted' \in 0 .. NumTasks
  BY <1>0, PoolAssumption DEF Tasks, Pill
<1>4. TypeOK'
  BY <1>0, <1>1, <1>2, <1>3 DEF IInv, TypeOK
<1>5. MainInv'
  BY <1>0, <1>2 DEF IInv, MainInv, Open, Closed
<1>6. PillsInv'
  <2>1. \A i \in 1 .. Len(q') : q'[i] # Pill
    BY <1>0, <1>1, <1>3 DEF IInv, PillsInv
  <2>2. PillsLast'
    BY <1>0, <1>2 DEF IInv, PillsInv, PillsLast
  <2>3. QED
    BY <2>1, <2>2 DEF PillsInv
<1>7. JobInv'
  BY <1>0, <1>2 DEF IInv, JobInv
<1>8. NoTaskLost'
  <2> SUFFICES ASSUME NEW t \in 1 .. posted' PROVE t \in done' \/ Queued(t)' \/ Held(t)'
    BY DEF NoTaskLost
  <2>1. CASE t = posted'
    BY <1>1, <2>1 DEF Queued
  <2>2. CASE t # posted'
    <3>1. t \in done \/ Queued(t) \/ Held(t)
      BY <1>0, <2>2 DEF IInv, NoTaskLost
    <3>2. Queued(t) => Queued(t)'
      BY <1>1 DEF Queued
    <3>3. Held(t) => Held(t)'
      BY <1>0, <1>2 DEF Held
    <3>4. QED
      BY <1>0, <3>1, <3>2, <3>3
  <2>3. QED
    BY <2>1, <2>2
<1>9. QED
  BY <1>4, <1>5, <1>6, <1>7, <1>8 DEF IInv

\* Only the place of the posting thread changes.
LEMMA MainMovesInv == IInv /\ (PostWaits \/ AllPosted \/ ReadResults) => IInv'
<1> SUFFICES ASSUME IInv, PostWaits \/ AllPosted \/ ReadResults PROVE IInv'
  OBVIOUS
<1>0. UNCHANGED <<q, running, group, posted, worker, job, begun, done>>
  BY DEF PostWaits, AllPosted, ReadResults
<1>a. posted \in Int /\ NumTasks \in Int /\ posted <= NumTasks
  BY PoolAssumption DEF IInv, TypeOK
<1>b. \/ main = "post" /\ main' = "full"
      \/ main = "post" /\ main' = "close" /\ posted = NumTasks
      \/ main = "read" /\ main' = "destroy"
  BY <1>a DEF PostWaits, AllPosted, More, ReadResults
<1>c. TypeOK'
  BY <1>0, <1>b DEF IInv, TypeOK, MainStates
<1>d. MainInv'
  BY <1>0, <1>b DEF IInv, MainInv, Open, Closed
<1>1. TypeOK' /\ MainInv'
  BY <1>c, <1>d
<1>2. PillsInv' /\ JobInv' /\ NoTaskLost'
  BY <1>0 DEF IInv, PillsInv, PillsLast, JobInv, NoTaskLost, Queued, Held
<1>3. QED
  BY <1>1, <1>2 DEF IInv

\* The critical section of close, the first time and in the destructor.
LEMMA CloseInv ==
  IInv /\ (Close("close", "notify") \/ Close("destroy", "notify_again")) => IInv'
<1> SUFFICES ASSUME IInv, Close("close", "notify") \/ Close("destroy", "notify_again")
             PROVE  IInv'
  OBVIOUS
<1>t. /\ q \in Seq(Tasks \cup {Pill}) /\ group \in 0 .. NumThreads /\ NumThreads \in Nat
  BY PoolAssumption DEF IInv, TypeOK
<1>l. group \in Nat /\ Len(q) \in Nat
  BY <1>t
<1>0. /\ running' = FALSE /\ q' = Pills(q, group)
      /\ UNCHANGED <<group, posted, worker, job, begun, done>>
      /\ \/ main = "close" /\ main' = "notify"
         \/ main = "destroy" /\ main' = "notify_again"
  BY DEF Close
<1>1. /\ q' \in Seq(Tasks \cup {Pill}) /\ Len(q') = Len(q) + group
      /\ \A i \in 1 .. Len(q) : q'[i] = q[i]
      /\ \A i \in Len(q) + 1 .. Len(q) + group : q'[i] = Pill
  BY <1>t, <1>l, <1>0, PillsFacts
<1>2. TypeOK'
  BY <1>0, <1>1 DEF IInv, TypeOK, MainStates
<1>i. \A i \in 1 .. Len(q') : i \in 1 .. Len(q) \/ q'[i] = Pill
  BY <1>l, <1>1
<1>j. \A i \in 1 .. Len(q) : i \in 1 .. Len(q') /\ q'[i] = q[i]
  BY <1>l, <1>1
<1>3. MainInv'
  BY <1>0 DEF IInv, MainInv, Open, Closed
<1>4. PillsInv'
  <2>1. ASSUME NEW i \in 1 .. Len(q'), NEW k \in 1 .. Len(q'), i < k, q'[i] = Pill
        PROVE  q'[k] = Pill
    <3>1. CASE k \in 1 .. Len(q)
      <4>1. i \in 1 .. Len(q)
        BY <1>l, <2>1, <3>1
      <4>2. q[i] = Pill
        BY <1>j, <2>1, <4>1
      <4>3. q[k] = Pill
        BY <2>1, <3>1, <4>1, <4>2 DEF IInv, PillsInv
      <4>4. QED
        BY <1>j, <3>1, <4>3
    <3>2. CASE k \notin 1 .. Len(q)
      BY <1>i, <3>2
    <3>3. QED
      BY <3>1, <3>2
  <2>2. ASSUME NEW w \in Workers, worker[w] = "exit", NEW i \in 1 .. Len(q')
        PROVE  q'[i] = Pill
    <3>1. CASE i \in 1 .. Len(q)
      BY <1>j, <2>2, <3>1 DEF IInv, PillsInv, PillsLast
    <3>2. CASE i \notin 1 .. Len(q)
      BY <1>i, <2>2, <3>2
    <3>3. QED
      BY <3>1, <3>2
  <2>3. PillsLast'
    BY <1>0, <2>2 DEF IInv, PillsInv, PillsLast
  <2>4. QED
    BY <1>0, <2>1, <2>3 DEF PillsInv
<1>5. JobInv'
  BY <1>0 DEF IInv, JobInv
<1>6. NoTaskLost'
  <2>1. \A t : Queued(t) => Queued(t)'
    BY <1>j DEF Queued
  <2>2. \A t : Held(t) => Held(t)'
    BY <1>0 DEF Held
  <2>3. QED
    BY <1>0, <2>1, <2>2 DEF IInv, NoTaskLost
<1>7. QED
  BY <1>2, <1>3, <1>4, <1>5, <1>6 DEF IInv

\* Threads that wait are woken, by notify_all or for no reason.
LEMMA WakeInv ==
  IInv /\ (WakeAll("notify", "join") \/ WakeAll("notify_again", "join_again")
           \/ SpuriousWakeup) => IInv'
<1> SUFFICES ASSUME IInv, \/ WakeAll("notify", "join")
                          \/ WakeAll("notify_again", "join_again")
                          \/ SpuriousWakeup
             PROVE  IInv'
  OBVIOUS
<1>0. /\ worker \in [Workers -> WorkerStates] /\ main \in MainStates
      /\ UNCHANGED <<q, running, group, posted, job, begun, done>>
      /\ \/ main = "notify" /\ main' = "join"
         \/ main = "notify_again" /\ main' = "join_again"
         \/ main = "full" /\ main' = "post"
         \/ main' = main
  BY DEF IInv, TypeOK, WakeAll, SpuriousWakeup
<1>1. /\ worker' \in [Workers -> WorkerStates]
      /\ \A w \in Workers : \/ worker'[w] = worker[w]
                            \/ worker[w] = "idle" /\ worker'[w] = "pop"
  <2>1. CASE worker' = NotifyAll(worker)
    BY <1>0, <2>1, NotifyFacts
  <2>2. CASE UNCHANGED worker
    BY <1>0, <2>2
  <2>3. CASE \E w \in Workers : worker[w] = "idle" /\ worker' = [worker EXCEPT ![w] = "pop"]
    BY <1>0, <2>3 DEF WorkerStates
  <2>4. QED
    BY <2>1, <2>2, <2>3 DEF WakeAll, SpuriousWakeup
<1>2. TypeOK'
  BY <1>0, <1>1 DEF IInv, TypeOK, MainStates
<1>3. MainInv'
  BY <1>0, <1>1 DEF IInv, MainInv, Open, Closed
<1>4. PillsInv' /\ JobInv'
  BY <1>0, <1>1 DEF IInv, PillsInv, PillsLast, JobInv
<1>5. NoTaskLost'
  <2>1. \A t : Queued(t) => Queued(t)'
    BY <1>0 DEF Queued
  <2>2. \A t : Held(t) => Held(t)'
    BY <1>0, <1>1 DEF Held
  <2>3. QED
    BY <1>0, <2>1, <2>2 DEF IInv, NoTaskLost
<1>6. QED
  BY <1>2, <1>3, <1>4, <1>5 DEF IInv

\* A thread that has ended is joined, or all of them have been.
LEMMA JoinInv ==
  IInv /\ (Join("join", "read") \/ Join("join_again", "gone")) => IInv'
<1> SUFFICES ASSUME IInv, Join("join", "read") \/ Join("join_again", "gone") PROVE IInv'
  OBVIOUS
<1>t. group \in 0 .. NumThreads /\ NumThreads \in Nat
  BY PoolAssumption DEF IInv, TypeOK
<1>0. /\ UNCHANGED <<q, running, posted, worker, job, begun, done>>
      /\ \/ main = "join" /\ main' \in {"join", "read"}
         \/ main = "join_again" /\ main' \in {"join_again", "gone"}
      /\ \/ group = 0 /\ group' = group
         \/ group > 0 /\ group' = group - 1 /\ worker[group] = "exit" /\ main' = main
  <2>1. CASE Join("join", "read")
    BY <1>t, <2>1 DEF Join, Joined
  <2>2. CASE Join("join_again", "gone")
    BY <1>t, <2>2 DEF Join, Joined
  <2>3. QED
    BY <2>1, <2>2
<1>1. group' \in 0 .. NumThreads /\ group' <= group
  BY <1>t, <1>0
<1>2. TypeOK'
  BY <1>0, <1>1 DEF IInv, TypeOK, MainStates
<1>3. MainInv'
  <2>1. ASSUME NEW w \in Workers, w > group' PROVE worker'[w] = "exit"
    <3>1. w > group \/ w = group
      <4>1. w \in Int /\ group \in Int
        BY <1>t DEF Workers
      <4>2. QED
        BY <1>0, <2>1, <4>1
    <3>2. CASE w > group
      BY <1>0, <3>2 DEF IInv, MainInv
    <3>3. CASE w = group /\ ~(w > group)
      BY <1>0, <2>1, <3>3
    <3>4. QED
      BY <3>1, <3>2, <3>3
  <2>2. Closed' => group' = 0
    <3>1. CASE main = "join"
      BY <1>0, <3>1 DEF Closed
    <3>2. CASE main = "join_again"
      <4>1. group = 0
        BY <3>2 DEF IInv, MainInv, Closed
      <4>2. QED
        BY <1>0, <4>1
    <3>3. QED
      BY <1>0, <3>1, <3>2
  <2>3. QED
    BY <1>0, <2>1, <2>2 DEF IInv, MainInv, Open
<1>4. PillsInv' /\ JobInv' /\ NoTaskLost'
  BY <1>0 DEF IInv, PillsInv, PillsLast, JobInv, NoTaskLost, Queued, Held
<1>5. QED
  BY <1>2, <1>3, <1>4 DEF IInv

\* A thread finds the queue empty.
LEMMA PopWaitsInv == ASSUME NEW w \in Workers PROVE IInv /\ PopWaits(w) => IInv'
<1> SUFFICES ASSUME IInv, PopWaits(w) PROVE IInv'
  OBVIOUS
<1>0. /\ worker \in [Workers -> WorkerStates] /\ worker[w] = "pop"
      /\ worker' = [worker EXCEPT ![w] = "idle"]
      /\ UNCHANGED <<q, running, group, main, posted, job, begun, done>>
  BY DEF IInv, TypeOK, PopWaits
<1>1. /\ worker' \in [Workers -> WorkerStates]
      /\ \A v \in Workers : \/ worker'[v] = worker[v]
                            \/ worker[v] = "pop" /\ worker'[v] = "idle"
  BY <1>0 DEF WorkerStates
<1>2. TypeOK' /\ MainInv' /\ PillsInv' /\ JobInv'
  BY <1>0, <1>1 DEF IInv, TypeOK, MainInv, Open, Closed, PillsInv, PillsLast, JobInv
<1>3. NoTaskLost'
  <2>1. \A t : Queued(t) => Queued(t)'
    BY <1>0 DEF Queued
  <2>2. \A t : Held(t) => Held(t)'
    BY <1>0, <1>1 DEF Held
  <2>3. QED
    BY <1>0, <2>1, <2>2 DEF IInv, NoTaskLost
<1>4. QED
  BY <1>2, <1>3 DEF IInv

\* A thread takes the first task: it ends only when that is empty, and then
\* the rest of the queue is empty tasks too.
LEMMA PopInv == ASSUME NEW w \in Workers PROVE IInv /\ Pop(w) => IInv'
<1> SUFFICES ASSUME IInv, Pop(w) PROVE IInv'
  OBVIOUS
<1> DEFINE e == q[1]
<1>0. /\ q \in Seq(Tasks \cup {Pill}) /\ q # <<>> /\ q' = Tail(q)
      /\ worker \in [Workers -> WorkerStates] /\ job \in [Workers -> Tasks \cup {Pill}]
      /\ worker[w] = "pop" /\ main \in MainStates
      /\ main' = IF main = "full" THEN "post" ELSE main
      /\ UNCHANGED <<running, group, posted, done>>
  BY DEF IInv, TypeOK, Pop
<1>1. /\ q' \in Seq(Tasks \cup {Pill}) /\ Len(q') = Len(q) - 1 /\ Len(q) \in Nat \ {0}
      /\ \A i \in 1 .. Len(q') : q'[i] = q[i + 1]
      /\ Head(q) = e /\ e \in Tasks \cup {Pill}
  BY <1>0, TailFacts
<1>2. /\ e # Pill => worker' = [worker EXCEPT ![w] = "run"] /\ e \in Tasks
      /\ e = Pill => ~running /\ worker' = [worker EXCEPT ![w] = "exit"]
      /\ job' = [job EXCEPT ![w] = e]
      /\ begun' \in Nat
  <2>1. running => e # Pill
    BY <1>1 DEF IInv, PillsInv
  <2>2. running \in BOOLEAN /\ begun \in Nat
    BY DEF IInv, TypeOK
  <2>3. /\ worker' = [worker EXCEPT ![w] = AfterPop(e)]
        /\ job' = [job EXCEPT ![w] = e]
        /\ begun' = begun \/ begun' = begun + 1
    BY <1>1 DEF Pop
  <2>4. CASE e # Pill
    <3>1. e \in Tasks
      BY <1>1, <2>4
    <3>2. QED
      BY <2>2, <2>3, <2>4, <3>1 DEF AfterPop
  <2>5. CASE e = Pill
    <3>1. ~running
      BY <2>1, <2>5
    <3>2. AfterPop(e) = "exit"
      BY <2>5, <3>1 DEF AfterPop
    <3>3. begun' \in Nat
      BY <2>2, <2>3
    <3>4. QED
      BY <2>3, <2>5, <3>1, <3>2, <3>3
  <2>6. QED
    BY <2>4, <2>5
<1> HIDE DEF e
<1>3. /\ worker' \in [Workers -> WorkerStates] /\ job' \in [Workers -> Tasks \cup {Pill}]
      /\ worker'[w] = IF e = Pill THEN "exit" ELSE "run"
      /\ job'[w] = e
      /\ \A v \in Workers : v # w => worker'[v] = worker[v] /\ job'[v] = job[v]
  BY <1>0, <1>1, <1>2 DEF WorkerStates
<1>4. TypeOK'
  BY <1>0, <1>1, <1>2, <1>3 DEF IInv, TypeOK, MainStates
<1>5. MainInv'
  <2>1. ASSUME NEW v \in Workers, v > group' PROVE worker'[v] = "exit"
    BY <1>0, <1>3, <2>1 DEF IInv, MainInv
  <2>2. QED
    BY <1>0, <2>1 DEF IInv, MainInv, Open, Closed
<1>6. PillsInv'
  <2>1. \A i \in 1 .. Len(q') : i + 1 \in 1 .. Len(q) /\ q'[i] = q[i + 1]
    BY <1>1
  <2>2. running' => \A i \in 1 .. Len(q') : q'[i] # Pill
    BY <1>0, <2>1 DEF IInv, PillsInv
  <2>3. \A i, k \in 1 .. Len(q') : i < k /\ q'[i] = Pill => q'[k] = Pill
    <3>1. ASSUME NEW i \in 1 .. Len(q'), NEW k \in 1 .. Len(q'), i < k, q'[i] = Pill
          PROVE  q'[k] = Pill
      <4>1. i + 1 \in 1 .. Len(q) /\ k + 1 \in 1 .. Len(q) /\ i + 1 < k + 1 /\ q[i + 1] = Pill
        BY <2>1, <3>1
      <4>2. q[k + 1] = Pill
        BY <4>1 DEF IInv, PillsInv
      <4>3. QED
        BY <2>1, <4>2
    <3>2. QED
      BY <3>1
  <2>4. e = Pill => \A i \in 1 .. Len(q') : q'[i] = Pill
    <3>1. ASSUME e = Pill, NEW i \in 1 .. Len(q') PROVE q'[i] = Pill
      <4>1. 1 \in 1 .. Len(q) /\ i + 1 \in 1 .. Len(q) /\ 1 < i + 1 /\ q[1] = Pill
        BY <1>1, <2>1, <3>1 DEF e
      <4>2. q[i + 1] = Pill
        BY <4>1 DEF IInv, PillsInv
      <4>3. QED
        BY <2>1, <4>2
    <3>2. QED
      BY <3>1
  <2>5. ASSUME NEW v \in Workers, worker'[v] = "exit"
        PROVE  ~running' /\ \A i \in 1 .. Len(q') : q'[i] = Pill
    <3>1. CASE v = w
      BY <1>0, <1>2, <1>3, <2>4, <2>5, <3>1
    <3>2. CASE v # w
      <4>1. worker[v] = "exit"
        BY <1>3, <2>5, <3>2
      <4>2. ~running /\ \A i \in 1 .. Len(q) : q[i] = Pill
        BY <4>1 DEF IInv, PillsInv, PillsLast
      <4>3. QED
        BY <1>0, <2>1, <4>2
    <3>3. QED
      BY <3>1, <3>2
  <2>6. \A v \in Workers : worker'[v] # "crash"
    BY <1>3 DEF IInv, PillsInv, PillsLast
  <2>7. QED
    BY <2>2, <2>3, <2>5, <2>6 DEF PillsInv, PillsLast
<1>7. JobInv'
  BY <1>2, <1>3 DEF IInv, JobInv
<1>8. NoTaskLost'
  <2> SUFFICES ASSUME NEW t \in 1 .. posted' PROVE t \in done' \/ Queued(t)' \/ Held(t)'
    BY DEF NoTaskLost
  <2>0. t # Pill
    BY <1>0 DEF Pill
  <2>1. t \in done \/ Queued(t) \/ Held(t)
    BY <1>0 DEF IInv, NoTaskLost
  <2>2. CASE t \in done
    BY <1>0, <2>2
  <2>3. CASE Queued(t)
    <3>1. PICK i \in 1 .. Len(q) : q[i] = t
      BY <2>3 DEF Queued
    <3>2. CASE i = 1
      <4>1. e = t
        BY <3>1, <3>2 DEF e
      <4>2. worker'[w] = "run" /\ job'[w] = t
        BY <1>3, <2>0, <4>1
      <4>3. QED
        BY <4>2 DEF Held
    <3>3. CASE i # 1
      <4>1. i - 1 \in 1 .. Len(q') /\ (i - 1) + 1 = i
        BY <1>1, <3>3
      <4>2. q'[i - 1] = t
        BY <1>1, <3>1, <4>1
      <4>3. QED
        BY <4>1, <4>2 DEF Queued
    <3>4. QED
      BY <3>2, <3>3
  <2>4. CASE Held(t)
    <3>1. PICK v \in Workers : worker[v] = "run" /\ job[v] = t
      BY <2>4 DEF Held
    <3>2. v # w
      BY <1>0, <3>1
    <3>3. QED
      BY <1>3, <3>1, <3>2 DEF Held
  <2>5. QED
    BY <2>1, <2>2, <2>3, <2>4
<1>9. QED
  BY <1>4, <1>5, <1>6, <1>7, <1>8 DEF IInv

\* A thread has run its task.
LEMMA RunInv == ASSUME NEW w \in Workers PROVE IInv /\ Run(w) => IInv'
<1> SUFFICES ASSUME IInv, Run(w) PROVE IInv'
  OBVIOUS
<1>0. /\ worker \in [Workers -> WorkerStates] /\ job \in [Workers -> Tasks \cup {Pill}]
      /\ worker[w] = "run" /\ job[w] \in Tasks /\ done' = done \cup {job[w]}
      /\ worker' = [worker EXCEPT ![w] = "pop"] /\ job' = [job EXCEPT ![w] = Pill]
      /\ UNCHANGED <<q, running, group, main, posted, begun>>
  BY DEF IInv, TypeOK, JobInv, Run
<1>1. /\ worker' \in [Workers -> WorkerStates] /\ job' \in [Workers -> Tasks \cup {Pill}]
      /\ worker'[w] = "pop"
      /\ \A v \in Workers : v # w => worker'[v] = worker[v] /\ job'[v] = job[v]
  BY <1>0 DEF WorkerStates
<1>2. TypeOK'
  BY <1>0, <1>1 DEF IInv, TypeOK
<1>3. MainInv' /\ PillsInv'
  BY <1>0, <1>1 DEF IInv, MainInv, Open, Closed, PillsInv, PillsLast
<1>4. JobInv'
  BY <1>1 DEF IInv, JobInv
<1>5. NoTaskLost'
  <2>1. \A t : Queued(t) => Queued(t)'
    BY <1>0 DEF Queued
  <2>2. \A t : Held(t) => Held(t)' \/ t \in done'
    BY <1>0, <1>1 DEF Held
  <2>3. QED
    BY <1>0, <2>1, <2>2 DEF IInv, NoTaskLost
<1>6. QED
  BY <1>2, <1>3, <1>4, <1>5 DEF IInv

\* IInv is an invariant.
THEOREM Invariance == Spec => []IInv
<1>1. IInv /\ [Next]_vars => IInv'
  <2> SUFFICES ASSUME IInv, [Next]_vars PROVE IInv'
    OBVIOUS
  <2>1. CASE MainStep
    BY <2>1, PostInv, MainMovesInv, CloseInv, WakeInv, JoinInv, Zenon DEF MainStep
  <2>2. ASSUME NEW w \in Workers, WorkerStep(w) PROVE IInv'
    BY <2>2, PopWaitsInv, PopInv, RunInv, Zenon DEF WorkerStep
  <2>3. CASE SpuriousWakeup
    BY <2>3, WakeInv, Zenon
  <2>4. CASE UNCHANGED vars
    BY <2>4 DEF vars, IInv, TypeOK, MainInv, Open, Closed, PillsInv, PillsLast, JobInv,
                NoTaskLost, Queued, Held
  <2>5. QED
    BY <2>1, <2>2, <2>3, <2>4, Zenon DEF Next, Finished
<1>2. QED
  BY <1>1, InitInv, PTL DEF Spec

\* The variables of the pool keep their types.
THEOREM TypeCorrect == Spec => []TypeOK
<1>1. IInv => TypeOK
  BY DEF IInv
<1>2. QED
  BY <1>1, Invariance, PTL

\* No thread calls an empty task, and one that ends leaves no task behind.
THEOREM PillsComeLast == Spec => []PillsLast
<1>1. IInv => PillsLast
  BY DEF IInv, PillsInv
<1>2. QED
  BY <1>1, Invariance, PTL

\* Every task posted is queued, held or done.
THEOREM NoTaskIsLost == Spec => []NoTaskLost
<1>1. IInv => NoTaskLost
  BY DEF IInv
<1>2. QED
  BY <1>1, Invariance, PTL

\* When the pool is closed every task has been run.
LEMMA InvResults == IInv => ResultsComplete
<1> SUFFICES ASSUME IInv, Closed PROVE done = Tasks
  BY DEF ResultsComplete
<1>1. \A w \in Workers : worker[w] = "exit"
  BY PoolAssumption DEF IInv, MainInv, Workers
<1>2. \A i \in 1 .. Len(q) : q[i] = Pill
  <2>1. 1 \in Workers
    BY PoolAssumption DEF Workers
  <2>2. QED
    BY <1>1, <2>1 DEF IInv, PillsInv, PillsLast
<1>3. posted = NumTasks
  BY DEF IInv, MainInv, Closed
<1>4. \A t \in Tasks : t # Pill
  BY DEF Tasks, Pill
<1>5. Tasks \subseteq done
  BY <1>1, <1>2, <1>3, <1>4 DEF IInv, NoTaskLost, Queued, Held, Tasks
<1>6. QED
  BY <1>5 DEF IInv, TypeOK

\* When close has returned every task has been run: index::open reads results
\* that no thread is still writing.
THEOREM ResultsAreComplete == Spec => []ResultsComplete
<1>1. QED
  BY InvResults, Invariance, PTL

\* The archive is not read further ahead of the threads than the queue allows.
THEOREM QueueStaysBounded == Spec => []QueueBounded
<1>1. Init => QueueBounded
  BY PoolAssumption DEF Init, QueueBounded
<1>2. IInv /\ QueueBounded /\ [Next]_vars => QueueBounded'
  <2> SUFFICES ASSUME IInv, QueueBounded, [Next]_vars, running' PROVE Len(q') <= MaxSize + 1
    BY DEF QueueBounded
  <2>0. q \in Seq(Tasks \cup {Pill}) /\ MaxSize \in Nat /\ Len(q) \in Nat
    BY PoolAssumption DEF IInv, TypeOK
  <2>1. CASE Post
    <3>1. /\ Len(q) <= MaxSize /\ q' = Append(q, posted') /\ posted' \in Tasks
      BY <2>1, PoolAssumption DEF Post, HasRoom, More, IInv, TypeOK, Tasks
    <3>2. Len(q') = Len(q) + 1
      BY <2>0, <3>1
    <3>3. QED
      BY <2>0, <3>1, <3>2
  <2>2. ASSUME NEW w \in Workers, Pop(w) PROVE Len(q') <= MaxSize + 1
    <3>1. q # <<>> /\ q' = Tail(q) /\ running
      BY <2>2 DEF Pop
    <3>2. Len(q') = Len(q) - 1
      BY <2>0, <3>1, TailFacts
    <3>3. QED
      BY <2>0, <3>1, <3>2 DEF QueueBounded
  <2>3. ASSUME UNCHANGED <<q, running>> PROVE Len(q') <= MaxSize + 1
    BY <2>3 DEF QueueBounded
  <2>4. QED
    BY <2>1, <2>2, <2>3 DEF Next, MainStep, WorkerStep, PostWaits, AllPosted, Close,
       WakeAll, Join, ReadResults, PopWaits, Run, SpuriousWakeup, Finished, vars
<1>3. QED
  BY <1>1, <1>2, Invariance, PTL DEF Spec
-----------------------------------------------------------------------------
\* The queue holds the tasks posted and not yet begun, in the order in which
\* they were posted, and then empty tasks.
OrderInv ==
  /\ begun <= posted
  /\ posted - begun <= Len(q)
  /\ \A i \in 1 .. Len(q) : q[i] = IF i <= posted - begun THEN begun + i ELSE Pill

\* A task begun is done, or held by one thread.
HeldInv ==
  /\ done \subseteq 1 .. begun
  /\ \A w \in Workers : worker[w] = "run" => job[w] \in 1 .. begun /\ job[w] \notin done
  /\ \A v, w \in Workers :
        worker[v] = "run" /\ worker[w] = "run" /\ job[v] = job[w] => v = w
  /\ \A t \in 1 .. begun : t \in done \/ Held(t)

QueueInv == OrderInv /\ HeldInv

\* The variables of an empty pool.
LEMMA QueueInvInit == Init => QueueInv
<1> SUFFICES ASSUME Init PROVE QueueInv
  OBVIOUS
<1> USE PoolAssumption DEF Init
<1>1. OrderInv
  BY DEF OrderInv
<1>2. HeldInv
  BY DEF HeldInv
<1>3. QED
  BY <1>1, <1>2 DEF QueueInv

\* The new task is the last one of the queue, which holds no empty task yet.
LEMMA QueueInvPost == IInv /\ QueueInv /\ Post => QueueInv'
<1> SUFFICES ASSUME IInv, QueueInv, Post PROVE QueueInv'
  OBVIOUS
<1>0. /\ q \in Seq(Tasks \cup {Pill}) /\ posted \in Nat /\ begun \in Nat /\ Len(q) \in Nat
      /\ worker \in [Workers -> WorkerStates] /\ main = "post" /\ running
      /\ posted' = posted + 1 /\ q' = Append(q, posted') /\ posted' \in Tasks
      /\ worker' \in NotifyOne(worker)
      /\ UNCHANGED <<running, group, main, job, begun, done>>
  BY PoolAssumption DEF IInv, TypeOK, MainInv, Open, Post, More, Tasks
<1>1. /\ Len(q') = Len(q) + 1
      /\ \A i \in 1 .. Len(q) : q'[i] = q[i]
      /\ q'[Len(q) + 1] = posted'
  BY <1>0, AppendFacts
<1>2. \A w \in Workers : \/ worker'[w] = worker[w]
                         \/ worker[w] = "idle" /\ worker'[w] = "pop"
  BY <1>0, NotifyFacts
<1>3. Len(q) = posted - begun
  <2>1. \A i \in 1 .. Len(q) : q[i] # Pill
    BY <1>0 DEF IInv, PillsInv
  <2>2. ASSUME Len(q) # posted - begun PROVE FALSE
    <3>1. Len(q) \in 1 .. Len(q) /\ ~(Len(q) <= posted - begun)
      BY <1>0, <2>2 DEF QueueInv, OrderInv
    <3>2. QED
      BY <2>1, <3>1, Zenon DEF QueueInv, OrderInv
  <2>3. QED
    BY <2>2
<1>4. OrderInv'
  <2>1. ASSUME NEW i \in 1 .. Len(q')
        PROVE  q'[i] = IF i <= posted' - begun THEN begun + i ELSE Pill
    <3>1. CASE i \in 1 .. Len(q)
      <4>1. q[i] = begun + i /\ i <= posted' - begun
        BY <1>0, <1>3, <3>1 DEF QueueInv, OrderInv
      <4>2. QED
        BY <1>1, <3>1, <4>1
    <3>2. CASE i = Len(q) + 1
      <4>1. posted' = begun + i /\ i <= posted' - begun
        BY <1>0, <1>3, <3>2
      <4>2. QED
        BY <1>1, <3>2, <4>1
    <3>3. QED
      BY <1>0, <1>1, <3>1, <3>2
  <2>2. begun <= posted' /\ posted' - begun <= Len(q')
    BY <1>0, <1>1, <1>3 DEF QueueInv, OrderInv
  <2>3. QED
    BY <1>0, <2>1, <2>2 DEF OrderInv
<1>5. HeldInv'
  <2>1. \A t : Held(t) => Held(t)'
    BY <1>0, <1>2 DEF Held
  <2>2. QED
    BY <1>0, <1>2, <2>1 DEF QueueInv, HeldInv
<1>6. QED
  BY <1>4, <1>5 DEF QueueInv

\* The empty tasks of close come last.
LEMMA QueueInvClose ==
  IInv /\ QueueInv /\ (Close("close", "notify") \/ Close("destroy", "notify_again"))
  => QueueInv'
<1> SUFFICES ASSUME IInv, QueueInv,
                    Close("close", "notify") \/ Close("destroy", "notify_again")
             PROVE  QueueInv'
  OBVIOUS
<1>0. /\ q \in Seq(Tasks \cup {Pill}) /\ posted \in Nat /\ begun \in Nat
      /\ group \in Nat /\ Len(q) \in Nat
      /\ q' = Pills(q, group)
      /\ UNCHANGED <<group, posted, worker, job, begun, done>>
  BY PoolAssumption DEF IInv, TypeOK, Close
<1>1. /\ Len(q') = Len(q) + group
      /\ \A i \in 1 .. Len(q) : q'[i] = q[i]
      /\ \A i \in Len(q) + 1 .. Len(q) + group : q'[i] = Pill
  BY <1>0, PillsFacts
<1>2. OrderInv'
  <2>1. posted - begun <= Len(q) /\ begun <= posted
    BY DEF QueueInv, OrderInv
  <2>2. ASSUME NEW i \in 1 .. Len(q')
        PROVE  q'[i] = IF i <= posted - begun THEN begun + i ELSE Pill
    <3>1. CASE i \in 1 .. Len(q)
      BY <1>1, <3>1 DEF QueueInv, OrderInv
    <3>2. CASE i \in Len(q) + 1 .. Len(q) + group
      <4>1. ~(i <= posted - begun)
        BY <1>0, <2>1, <3>2
      <4>2. QED
        BY <1>1, <3>2, <4>1
    <3>3. QED
      BY <1>0, <1>1, <3>1, <3>2
  <2>3. posted - begun <= Len(q')
    BY <1>0, <1>1, <2>1
  <2>4. QED
    BY <1>0, <2>1, <2>2, <2>3 DEF OrderInv
<1>3. HeldInv'
  BY <1>0 DEF QueueInv, HeldInv, Held
<1>4. QED
  BY <1>2, <1>3 DEF QueueInv

\* A thread takes the first task posted and not begun, or an empty one when
\* there is none.
LEMMA QueueInvPop ==
  ASSUME NEW w \in Workers
  PROVE  IInv /\ QueueInv /\ Pop(w)
         => /\ QueueInv'
            /\ \/ begun' = begun
               \/ begun' = begun + 1 /\ begun < posted
<1> SUFFICES ASSUME IInv, QueueInv, Pop(w)
             PROVE  /\ QueueInv'
                    /\ \/ begun' = begun
                       \/ begun' = begun + 1 /\ begun < posted
  OBVIOUS
<1> DEFINE e == q[1]
<1>0. /\ q \in Seq(Tasks \cup {Pill}) /\ q # <<>> /\ q' = Tail(q)
      /\ posted \in Nat /\ begun \in Nat
      /\ worker \in [Workers -> WorkerStates] /\ job \in [Workers -> Tasks \cup {Pill}]
      /\ worker[w] = "pop"
      /\ UNCHANGED <<running, group, posted, done>>
  BY PoolAssumption DEF IInv, TypeOK, Pop
<1>1. /\ Len(q') = Len(q) - 1 /\ Len(q) \in Nat \ {0}
      /\ \A i \in 1 .. Len(q') : q'[i] = q[i + 1]
      /\ Head(q) = e
  BY <1>0, TailFacts
<1>2. /\ begun <= posted /\ posted - begun <= Len(q)
      /\ \A i \in 1 .. Len(q) : q[i] = IF i <= posted - begun THEN begun + i ELSE Pill
  BY DEF QueueInv, OrderInv
<1>3. /\ worker' = [worker EXCEPT ![w] = AfterPop(e)]
      /\ job' = [job EXCEPT ![w] = e]
      /\ begun' = IF e = Pill THEN begun ELSE begun + 1
  BY <1>1 DEF Pop
<1>4. /\ worker'[w] = AfterPop(e) /\ job'[w] = e
      /\ \A v \in Workers : v # w => worker'[v] = worker[v] /\ job'[v] = job[v]
  BY <1>0, <1>3
<1>5. \A i \in 1 .. Len(q') : i + 1 \in 1 .. Len(q) /\ i \in Nat
  BY <1>1
<1>6. CASE begun < posted
  <2>1. e = begun + 1 /\ e # Pill
    BY <1>0, <1>1, <1>2, <1>6 DEF Pill
  <2> HIDE DEF e
  <2>2. begun' = begun + 1 /\ AfterPop(e) = "run"
    BY <1>3, <2>1 DEF AfterPop
  <2>3. OrderInv'
    <3>1. ASSUME NEW i \in 1 .. Len(q')
          PROVE  q'[i] = IF i <= posted - (begun + 1) THEN (begun + 1) + i ELSE Pill
      <4>1. q'[i] = IF i + 1 <= posted - begun THEN begun + (i + 1) ELSE Pill
        BY <1>1, <1>2, <1>5
      <4>2. /\ i + 1 <= posted - begun <=> i <= posted - (begun + 1)
            /\ begun + (i + 1) = (begun + 1) + i
        BY <1>0, <1>5
      <4>3. QED
        BY <4>1, <4>2
    <3>2. begun + 1 <= posted /\ posted - (begun + 1) <= Len(q')
      BY <1>0, <1>1, <1>2, <1>6
    <3>3. QED
      BY <1>0, <2>2, <3>1, <3>2 DEF OrderInv
  <2>4. HeldInv'
    <3>1. e \notin 1 .. begun /\ e \in 1 .. begun' /\ \A t \in 1 .. begun' : t \in 1 .. begun \/ t = e
      BY <1>0, <2>1, <2>2
    <3>2. done' \subseteq 1 .. begun' /\ e \notin done'
      BY <1>0, <2>2, <3>1 DEF QueueInv, HeldInv
    <3>3. ASSUME NEW v \in Workers, worker'[v] = "run"
          PROVE  job'[v] \in 1 .. begun' /\ job'[v] \notin done'
      <4>1. CASE v = w
        BY <1>4, <3>1, <3>2, <4>1
      <4>2. CASE v # w
        <5>1. job[v] \in 1 .. begun /\ job[v] \notin done
          BY <1>4, <3>3, <4>2 DEF QueueInv, HeldInv
        <5>2. QED
          BY <1>0, <1>4, <2>2, <4>2, <5>1
      <4>3. QED
        BY <4>1, <4>2
    <3>4. ASSUME NEW u \in Workers, NEW v \in Workers,
                 worker'[u] = "run", worker'[v] = "run", job'[u] = job'[v]
          PROVE  u = v
      <4>1. \A x \in Workers : x # w /\ worker'[x] = "run" => job'[x] # e
        BY <1>4, <3>1 DEF QueueInv, HeldInv
      <4>2. CASE u = w \/ v = w
        BY <1>4, <3>4, <4>1, <4>2
      <4>3. CASE u # w /\ v # w
        BY <1>4, <3>4, <4>3 DEF QueueInv, HeldInv
      <4>4. QED
        BY <4>2, <4>3
    <3>5. ASSUME NEW t \in 1 .. begun' PROVE t \in done' \/ Held(t)'
      <4>1. CASE t = e
        BY <1>4, <2>2, <4>1 DEF Held
      <4>2. CASE t # e
        <5>1. t \in done \/ Held(t)
          BY <3>1, <4>2 DEF QueueInv, HeldInv
        <5>2. Held(t) => Held(t)'
          BY <1>0, <1>4 DEF Held
        <5>3. QED
          BY <1>0, <5>1, <5>2
      <4>3. QED
        BY <4>1, <4>2
    <3>6. QED
      BY <3>2, <3>3, <3>4, <3>5 DEF HeldInv
  <2>5. QED
    BY <1>6, <2>2, <2>3, <2>4 DEF QueueInv
<1>7. CASE ~(begun < posted)
  <2>1. e = Pill
    BY <1>0, <1>1, <1>2, <1>7
  <2> HIDE DEF e
  <2>2. begun' = begun /\ AfterPop(e) # "run"
    BY <1>3, <2>1 DEF AfterPop
  <2>3. OrderInv'
    <3>1. ASSUME NEW i \in 1 .. Len(q')
          PROVE  q'[i] = IF i <= posted - begun THEN begun + i ELSE Pill
      <4>1. q'[i] = IF i + 1 <= posted - begun THEN begun + (i + 1) ELSE Pill
        BY <1>1, <1>2, <1>5
      <4>2. ~(i <= posted - begun) /\ ~(i + 1 <= posted - begun)
        BY <1>0, <1>2, <1>5, <1>7
      <4>3. QED
        BY <4>1, <4>2
    <3>2. posted - begun <= Len(q')
      BY <1>0, <1>1, <1>2, <1>7
    <3>3. QED
      BY <1>0, <1>2, <2>2, <3>1, <3>2 DEF OrderInv
  <2>4. HeldInv'
    <3>1. \A v \in Workers : worker'[v] = "run" =>
             v # w /\ worker[v] = "run" /\ job'[v] = job[v]
      BY <1>4, <2>2
    <3>2. \A t : Held(t) => Held(t)'
      BY <1>0, <1>4 DEF Held
    <3>3. QED
      BY <1>0, <2>2, <3>1, <3>2 DEF QueueInv, HeldInv
  <2>5. QED
    BY <2>2, <2>3, <2>4 DEF QueueInv
<1>8. QED
  BY <1>6, <1>7

\* A task that has run is done and held no more.
LEMMA QueueInvRun ==
  ASSUME NEW w \in Workers
  PROVE  IInv /\ QueueInv /\ Run(w)
         => QueueInv' /\ job[w] \in (1 .. begun) \ done
<1> SUFFICES ASSUME IInv, QueueInv, Run(w)
             PROVE  QueueInv' /\ job[w] \in (1 .. begun) \ done
  OBVIOUS
<1>0. /\ worker \in [Workers -> WorkerStates] /\ job \in [Workers -> Tasks \cup {Pill}]
      /\ worker[w] = "run" /\ done' = done \cup {job[w]}
      /\ worker' = [worker EXCEPT ![w] = "pop"] /\ job' = [job EXCEPT ![w] = Pill]
      /\ UNCHANGED <<q, running, group, main, posted, begun>>
  BY DEF IInv, TypeOK, Run
<1>1. /\ worker'[w] = "pop"
      /\ \A v \in Workers : v # w => worker'[v] = worker[v] /\ job'[v] = job[v]
  BY <1>0
<1>2. job[w] \in 1 .. begun /\ job[w] \notin done
  BY <1>0 DEF QueueInv, HeldInv
<1>3. OrderInv'
  BY <1>0 DEF QueueInv, OrderInv
<1>4. HeldInv'
  <2>1. \A v \in Workers : worker'[v] = "run" =>
           /\ v # w /\ worker[v] = "run" /\ job'[v] = job[v] /\ job[v] # job[w]
    BY <1>0, <1>1 DEF QueueInv, HeldInv
  <2>2. \A t : Held(t) => Held(t)' \/ t \in done'
    BY <1>0, <1>1 DEF Held
  <2>3. QED
    BY <1>0, <1>2, <2>1, <2>2 DEF QueueInv, HeldInv
<1>5. QED
  BY <1>2, <1>3, <1>4 DEF QueueInv

\* The steps that move no task.
LEMMA QueueInvOther ==
  IInv /\ QueueInv /\ UNCHANGED <<q, posted, job, begun, done>>
  /\ (\A w \in Workers : worker'[w] = "run" <=> worker[w] = "run")
  => QueueInv'
  BY DEF QueueInv, OrderInv, HeldInv, Held

\* The steps of the posting thread other than post and close, and the waits,
\* wake a thread or put it to sleep but change no thread that runs a task.
LEMMA QueueInvWait ==
  IInv /\ QueueInv
  /\ \/ PostWaits \/ AllPosted \/ ReadResults \/ SpuriousWakeup
     \/ WakeAll("notify", "join") \/ WakeAll("notify_again", "join_again")
     \/ Join("join", "read") \/ Join("join_again", "gone")
     \/ \E w \in Workers : PopWaits(w)
  => QueueInv' /\ UNCHANGED <<posted, begun, done>>
<1> SUFFICES ASSUME IInv, QueueInv,
                    \/ PostWaits \/ AllPosted \/ ReadResults \/ SpuriousWakeup
                    \/ WakeAll("notify", "join") \/ WakeAll("notify_again", "join_again")
                    \/ Join("join", "read") \/ Join("join_again", "gone")
                    \/ \E w \in Workers : PopWaits(w)
             PROVE  QueueInv' /\ UNCHANGED <<posted, begun, done>>
  OBVIOUS
<1>1. UNCHANGED <<q, posted, job, begun, done>>
  BY DEF PostWaits, AllPosted, ReadResults, SpuriousWakeup, WakeAll, Join, PopWaits
<1>2. worker \in [Workers -> WorkerStates]
  BY DEF IInv, TypeOK
<1>3. \A w \in Workers : worker'[w] = "run" <=> worker[w] = "run"
  <2>1. CASE UNCHANGED worker
    BY <2>1
  <2>2. CASE worker' = NotifyAll(worker)
    <3>1. \A w \in Workers : \/ worker'[w] = worker[w]
                             \/ worker[w] = "idle" /\ worker'[w] = "pop"
      BY <1>2, <2>2, NotifyFacts
    <3>2. QED
      BY <3>1
  <2>3. CASE \E w \in Workers : \/ worker[w] = "idle" /\ worker' = [worker EXCEPT ![w] = "pop"]
                                \/ worker[w] = "pop" /\ worker' = [worker EXCEPT ![w] = "idle"]
    BY <1>2, <2>3
  <2>4. QED
    BY <2>1, <2>2, <2>3 DEF PostWaits, AllPosted, ReadResults, SpuriousWakeup, WakeAll,
                            Join, PopWaits
<1>4. QED
  BY <1>1, <1>3, QueueInvOther

\* Nor does a stuttering step.
LEMMA QueueInvStutter == QueueInv /\ UNCHANGED vars => QueueInv'
  BY DEF vars, QueueInv, OrderInv, HeldInv, Held

\* The tasks begun and not done are held by different threads.
LEMMA RunningFits ==
  ASSUME TypeOK, HeldInv
  PROVE  Cardinality((1 .. begun) \ done) <= NumThreads
<1> DEFINE busy == {w \in Workers : worker[w] = "run"}
           tasks == (1 .. begun) \ done
           f == [w \in busy |-> job[w]]
<1>1. IsFiniteSet(Workers) /\ Cardinality(Workers) = NumThreads
  <2>1. 1 \in Int /\ NumThreads \in Int /\ ~(1 > NumThreads) /\ NumThreads - 1 + 1 = NumThreads
    BY PoolAssumption
  <2>2. QED
    BY <2>1, FS_Interval DEF Workers
<1>2. IsFiniteSet(busy) /\ Cardinality(busy) <= NumThreads
  BY <1>1, FS_Subset
<1>3. f \in Surjection(busy, tasks)
  <2>1. f \in [busy -> tasks]
    BY DEF HeldInv
  <2>2. ASSUME NEW t \in tasks PROVE \E w \in busy : f[w] = t
    BY <2>2 DEF HeldInv, Held
  <2>3. QED
    BY <2>1, <2>2 DEF Surjection
<1> HIDE DEF f
<1>4. Cardinality(tasks) <= Cardinality(busy) /\ IsFiniteSet(tasks)
  BY <1>2, <1>3, FS_Surjection, Zenon
<1>5. Cardinality(tasks) \in Nat /\ Cardinality(busy) \in Nat /\ NumThreads \in Nat
  BY <1>2, <1>4, FS_CardinalityType, PoolAssumption
<1> HIDE DEF tasks, busy
<1>6. Cardinality(tasks) <= NumThreads
  BY <1>2, <1>4, <1>5
<1>7. QED
  BY <1>6 DEF tasks

\* Only the end of the first join changes whether close has returned.
LEMMA ClosedChanges ==
  Next => (Closed' <=> Closed) \/ (Join("join", "read") /\ ~Closed)
<1> SUFFICES ASSUME Next PROVE (Closed' <=> Closed) \/ (Join("join", "read") /\ ~Closed)
  OBVIOUS
<1>1. CASE Join("join", "read")
  BY <1>1 DEF Join, Closed
<1>2. CASE UNCHANGED main
  BY <1>2 DEF Closed
<1>3. CASE \/ main \in {"post", "full", "close", "notify"}
              /\ main' \in {"post", "full", "close", "notify", "join"}
           \/ main \in {"read", "destroy", "notify_again", "join_again"}
              /\ main' \in {"destroy", "notify_again", "join_again", "gone"}
  BY <1>3 DEF Closed
<1>4. CASE MainStep
  BY <1>1, <1>2, <1>3, <1>4 DEF MainStep, Post, PostWaits, AllPosted, Close, WakeAll,
    ReadResults, Join
<1>5. CASE \E w \in Workers : WorkerStep(w)
  BY <1>2, <1>3, <1>5 DEF WorkerStep, PopWaits, Pop, Run
<1>6. CASE SpuriousWakeup \/ Finished
  BY <1>2, <1>3, <1>6 DEF SpuriousWakeup, Finished, vars
<1>7. QED
  BY <1>4, <1>5, <1>6 DEF Next

\* A step that moves no task is a stutter of the queue, or closes it.
LEMMA MovesNoTask ==
  ASSUME IInv', Next, UNCHANGED <<posted, begun, done>>
  PROVE  [Queue!Next]_(Queue!vars)
<1>1. CASE Closed' <=> Closed
  <2>1. Closed' = Closed
    BY <1>1 DEF Closed
  <2>2. QED
    BY <2>1 DEF Queue!vars
<1>2. CASE Join("join", "read") /\ ~Closed /\ ~(Closed' <=> Closed)
  <2>1. Closed' = TRUE /\ Closed = FALSE
    BY <1>2 DEF Closed
  <2>2. done' = Tasks /\ posted' = NumTasks
    <3>1. (IInv => ResultsComplete)'
      BY InvResults, PTL
    <3>2. done' = Tasks
      BY <2>1, <3>1 DEF ResultsComplete
    <3>3. posted' = NumTasks
      BY <2>1 DEF IInv, MainInv, Closed
    <3>4. QED
      BY <3>2, <3>3
  <2>3. done = 1 .. posted
    BY <2>2 DEF Tasks
  <2>4. QED
    BY <2>1, <2>3 DEF Queue!Next, Queue!Close
<1>3. QED
  BY <1>1, <1>2, ClosedChanges

\* Every step of the pool is a step of the queue, and keeps QueueInv.
LEMMA StepIsQueueStep ==
  IInv /\ IInv' /\ QueueInv /\ [Next]_vars
  => QueueInv' /\ [Queue!Next]_(Queue!vars)
<1> SUFFICES ASSUME IInv, IInv', QueueInv, [Next]_vars
             PROVE  QueueInv' /\ [Queue!Next]_(Queue!vars)
  OBVIOUS
<1>1. CASE Post
  <2>1. QueueInv'
    BY <1>1, QueueInvPost
  <2>2. Closed = FALSE /\ Closed' = FALSE
    BY <1>1 DEF Post, Closed
  <2>3. Queue!Post
    BY <1>1, <2>2 DEF Post, More, Queue!Post
  <2>4. QED
    BY <2>1, <2>3 DEF Queue!Next
<1>2. CASE Close("close", "notify") \/ Close("destroy", "notify_again")
  <2>1. QueueInv'
    BY <1>2, QueueInvClose
  <2>2. Next /\ UNCHANGED <<posted, begun, done>>
    BY <1>2 DEF Next, MainStep, Close
  <2>3. QED
    BY <2>1, <2>2, MovesNoTask
<1>3. ASSUME NEW w \in Workers, Pop(w) PROVE QueueInv' /\ [Queue!Next]_(Queue!vars)
  <2>1. QueueInv'
    BY <1>3, QueueInvPop
  <2>2. UNCHANGED <<posted, done>> /\ Next
    BY <1>3 DEF Pop, Next, WorkerStep
  <2>3. CASE begun' = begun
    BY <2>1, <2>2, <2>3, MovesNoTask
  <2>4. CASE begun' = begun + 1 /\ begun < posted
    <3>1. Cardinality((1 .. begun') \ done') <= NumThreads
      <4>1. TypeOK' /\ HeldInv'
        BY <2>1 DEF IInv, QueueInv
      <4>2. (TypeOK /\ HeldInv => Cardinality((1 .. begun) \ done) <= NumThreads)'
        BY RunningFits, PTL
      <4>3. QED
        BY <4>1, <4>2
    <3>2. Closed' = Closed
      BY <1>3 DEF Pop, Closed
    <3>3. Queue!Running' = (1 .. begun') \ done'
      BY DEF Queue!Running
    <3>4. Queue!Cardinality(Queue!Running') <= NumThreads
      BY <3>1, <3>3, Zenon DEF Queue!Cardinality, Cardinality, Queue!IsFiniteSet, IsFiniteSet
    <3>5. begun < posted /\ begun' = begun + 1 /\ UNCHANGED <<posted, done, Closed>>
      BY <2>2, <2>4, <3>2
    <3>6. Queue!Begin
      BY <3>4, <3>5, Zenon DEF Queue!Begin
    <3>7. QED
      BY <2>1, <3>6 DEF Queue!Next
  <2>5. QED
    BY <1>3, <2>3, <2>4, QueueInvPop
<1>4. ASSUME NEW w \in Workers, Run(w) PROVE QueueInv' /\ [Queue!Next]_(Queue!vars)
  <2>1. QueueInv' /\ job[w] \in (1 .. begun) \ done
    BY <1>4, QueueInvRun
  <2>2. Closed' = Closed
    BY <1>4 DEF Run, Closed
  <2>3. Queue!Finish
    BY <1>4, <2>1, <2>2 DEF Run, Queue!Finish, Queue!Running
  <2>4. QED
    BY <2>1, <2>3 DEF Queue!Next
<1>5. ASSUME \/ PostWaits \/ AllPosted \/ ReadResults \/ SpuriousWakeup
             \/ WakeAll("notify", "join") \/ WakeAll("notify_again", "join_again")
             \/ Join("join", "read") \/ Join("join_again", "gone")
             \/ \E w \in Workers : PopWaits(w)
      PROVE  QueueInv' /\ [Queue!Next]_(Queue!vars)
  <2>1. QueueInv' /\ UNCHANGED <<posted, begun, done>>
    BY <1>5, QueueInvWait, Zenon
  <2>2. Next
    BY <1>5, Zenon DEF Next, MainStep, WorkerStep
  <2>3. QED
    BY <2>1, <2>2, MovesNoTask
<1>6. CASE UNCHANGED vars
  <2>1. QueueInv'
    BY <1>6, QueueInvStutter
  <2>2. UNCHANGED <<posted, begun, done>> /\ Closed' = Closed
    BY <1>6 DEF vars, Closed
  <2>3. QED
    BY <2>1, <2>2 DEF Queue!vars
<1>7. QED
  BY <1>1, <1>2, <1>3, <1>4, <1>5, <1>6, Zenon DEF Next, MainStep, WorkerStep, Finished

\* The pool is a work queue: the tasks are begun in the order in which they
\* were posted, each once and by at most NumThreads threads at a time, and
\* close returns when all of them are finished.
THEOREM PoolIsAWorkQueue == Spec => ImplementsWorkQueue
<1>1. Init => Queue!Init
  BY DEF Init, Queue!Init, Closed
<1>2. QED
  BY <1>1, Invariance, QueueInvInit, StepIsQueueStep, PTL
     DEF Spec, ImplementsWorkQueue, Queue!Spec
===============================================================================
