--------------------------- MODULE ReactorPoolProofs ---------------------------
(***************************************************************************)
(* EvenSpread for any number of reactors, threads, clients and failures.   *)
(* As long as no connection comes while threads are started, only one      *)
(* thread at a time is in get_io_service: main until the last thread is    *)
(* started, the handler of accept from then on.  So the threads and then   *)
(* the connections get consecutive turns, and what has been shared out so  *)
(* far is some full rounds and a part of one.  IInv says this of every     *)
(* state, also of those in the middle of get_io_service.                   *)
(***************************************************************************)
EXTENDS ReactorPool, TLAPS

Places == {"idle", "called", "fetched", "loaded", "stored", "tested", "returned"}

Types ==
  /\ next \in Nat /\ started \in Nat /\ errors \in Nat
  /\ call \in [Callers -> [at : Places, io : Reactor, seen : Nat]]
  /\ running \in [Reactor -> Nat] /\ opened \in [Reactor -> Nat]
  /\ accepting \in Reactor /\ handler \in {"none", "runs"}
  /\ early \in BOOLEAN /\ wild \in BOOLEAN

\* How many turns after reactor o it is the turn of r, and whose turn it is k
\* turns after o.
Dist(r, o) == IF r >= o THEN r - o ELSE (r + Reactors) - o
Turn(o, k) == IF o + k < Reactors THEN o + k ELSE (o + k) - Reactors

\* The first connection and the first thread go to these reactors.
AcceptFirst == After(AcceptorOn)
ThreadFirst == After(AcceptFirst)

\* What reactor r has got after so many full rounds, that began with reactor o,
\* and part of another.
Share(r, o, full, part) == full + (IF Dist(r, o) < part THEN 1 ELSE 0)

\* Caller c, who alone is in get_io_service, gets reactor n.
Asking(c, n) ==
  /\ call[c].at \in {"idle", "called"} => next = n
  /\ At(c, "fetched") => call[c].io = n /\ next = n
  /\ At(c, "loaded") => call[c].io = n /\ next = n /\ call[c].seen = n
  /\ At(c, "stored") => call[c].io = n /\ next = n + 1
  /\ At(c, "tested") => call[c].io = n /\ n + 1 = Reactors
  /\ At(c, "returned") => call[c].io = n /\ next = After(n)

\* Main has given out full rounds of threads and part of another one.
Starting(full, part) ==
  /\ started = full * Reactors + part
  /\ signal # "stopped" =>
       \A r \in Reactor : running[r] = Share(r, ThreadFirst, full, part)
  /\ Asking("main", Turn(ThreadFirst, part))

MainPhase ==
  /\ started < Threads * Reactors
  /\ call["acceptor"] = Idle /\ handler = "none" /\ accepting = AcceptFirst
  /\ errors = 0 /\ \A r \in Reactor : opened[r] = 0
  /\ \E full \in Nat, part \in Reactor : Starting(full, part)

\* Of full rounds of connections and part of another one, the accepts that
\* failed are missing; one connection is waited for or about to be.
Accepting(full, part) ==
  /\ \A r \in Reactor : /\ opened[r] <= Share(r, AcceptFirst, full, part)
                        /\ Share(r, AcceptFirst, full, part) <= opened[r] + errors
  /\ handler = "none" => /\ accepting = Turn(AcceptFirst, part)
                         /\ call["acceptor"] = Idle
                         /\ next = After(accepting)
  /\ handler = "runs" => Asking("acceptor", Turn(AcceptFirst, part))

AcceptPhase ==
  /\ started = Threads * Reactors
  /\ call["main"] = Idle
  /\ signal # "stopped" => \A r \in Reactor : running[r] = Threads
  /\ \E full \in Nat, part \in Reactor : Accepting(full, part)

InTurn == ~early => ~wild /\ (MainPhase \/ AcceptPhase)

IInv == Types /\ InTurn
-----------------------------------------------------------------------------
(* The turns. *)

\* A round is started before the last one is over, or it is the last.
LEMMA Rounds ==
  ASSUME NEW m \in Nat \ {0}, NEW full \in Nat, NEW total \in Nat, NEW part \in 0 .. m - 1,
         full * m + part < total * m
  PROVE  /\ part + 1 < m => full * m + (part + 1) < total * m
         /\ part + 1 = m => full * m + (part + 1) = (full + 1) * m
         /\ (full + 1) * m < total * m \/ full + 1 = total
<1>1. ASSUME NEW i \in Nat, NEW j \in Nat, i < j PROVE i * m + m <= j * m
  <2>1. PICK d \in Nat : j = i + 1 + d
    <3>1. j - i - 1 \in Nat /\ j = i + 1 + (j - i - 1)  BY <1>1, SMT
    <3> QED  BY <3>1
  <2>2. j * m = i * m + m + d * m  BY <2>1, SMT
  <2>3. d * m \in Nat /\ i * m \in Nat  BY <2>1, SMT
  <2> QED  BY <2>2, <2>3, SMT
<1>2. full < total
  <2>1. CASE total < full
    <3>1. total * m + m <= full * m  BY <1>1, <2>1
    <3>2. full * m \in Nat /\ total * m \in Nat  BY SMT
    <3> QED  BY <3>1, <3>2, SMT
  <2>2. CASE total = full
    <3>1. full * m \in Nat  BY SMT
    <3> QED  BY <2>2, <3>1, SMT
  <2> QED  BY <2>1, <2>2, SMT
<1>3. full * m + m <= total * m  BY <1>1, <1>2
<1>4. (full + 1) * m = full * m + m /\ full * m \in Nat /\ total * m \in Nat  BY SMT
<1>5. full + 1 < total => (full + 1) * m + m <= total * m  BY <1>1
<1> HIDE DEF After
<1> QED  BY <1>2, <1>3, <1>4, <1>5, SMT

\* Counting turns from o: the k-th is that of one reactor, the next one follows
\* it, and the round is over when all have had theirs.
LEMMA Turns ==
  ASSUME NEW o \in Reactor, NEW k \in Reactor
  PROVE  /\ Turn(o, k) \in Reactor /\ After(o) \in Reactor
         /\ \A r \in Reactor : Dist(r, o) \in Reactor /\ (Dist(r, o) = k <=> r = Turn(o, k))
         /\ k + 1 < Reactors => After(Turn(o, k)) = Turn(o, k + 1)
         /\ k + 1 = Reactors => After(Turn(o, k)) = o
         /\ Turn(o, 0) = o
  BY PoolAssumption DEF Reactor, Turn, Dist, After

\* A distance is less than a round.
LEMMA Distances ==
  ASSUME NEW o \in Reactor, NEW r \in Reactor
  PROVE  Dist(r, o) \in Nat /\ Dist(r, o) < Reactors
  BY PoolAssumption DEF Reactor, Dist

\* The first turns are reactors', and follow each other.
LEMMA First == /\ 0 \in Reactor /\ AcceptFirst \in Reactor /\ ThreadFirst \in Reactor
               /\ After(AcceptFirst) = ThreadFirst
  BY PoolAssumption DEF Reactor, After, AcceptFirst, ThreadFirst, AcceptorOn

\* One more turn: the share of the reactor whose turn it is grows by one, that of
\* the others does not change.
LEMMA NextShare ==
  ASSUME NEW o \in Reactor, NEW full \in Nat, NEW part \in Reactor
  PROVE  \E f \in Nat, p \in Reactor :
           /\ \/ f = full /\ p = part + 1
              \/ f = full + 1 /\ p = 0 /\ part + 1 = Reactors
           /\ Turn(o, p) = After(Turn(o, part))
           /\ \A r \in Reactor :
                /\ Share(r, o, full, part) \in Nat
                /\ Share(r, o, f, p) =
                     Share(r, o, full, part) + (IF r = Turn(o, part) THEN 1 ELSE 0)
<1> DEFINE over == part + 1 = Reactors
           f == IF over THEN full + 1 ELSE full
           p == IF over THEN 0 ELSE part + 1
<1>1. /\ f \in Nat /\ p \in Reactor
      /\ \/ f = full /\ p = part + 1
         \/ f = full + 1 /\ p = 0 /\ part + 1 = Reactors
  BY PoolAssumption DEF Reactor
<1>2. Turn(o, p) = After(Turn(o, part))
  <2>1. \/ part + 1 < Reactors /\ ~over /\ p = part + 1
        \/ over /\ p = 0
    BY PoolAssumption DEF Reactor
  <2> HIDE DEF f, p
  <2> QED  BY <2>1, Turns
<1>3. ASSUME NEW r \in Reactor
      PROVE  /\ Share(r, o, full, part) \in Nat
             /\ Share(r, o, f, p) =
                  Share(r, o, full, part) + (IF r = Turn(o, part) THEN 1 ELSE 0)
  <2>1. Dist(r, o) \in Reactor /\ (Dist(r, o) = part <=> r = Turn(o, part))
    BY Turns
  <2>2. Reactors \in Nat  BY PoolAssumption
  <2> HIDE DEF Dist, Turn
  <2> QED  BY <2>1, <2>2 DEF Share, Reactor
<1> HIDE DEF f, p, over
<1> QED  BY <1>1, <1>2, <1>3
-----------------------------------------------------------------------------
(* get_io_service. *)

GetsOn(c) == Fetch(c) \/ Load(c) \/ Store(c) \/ Test(c) \/ Reset(c)

\* Whoever is alone in get_io_service gets on with it without leaving the range.
LEMMA AskingStep ==
  ASSUME Types, NEW c \in Callers, NEW n \in Reactor, Asking(c, n), GetsOn(c)
  PROVE  /\ Asking(c, n)' /\ wild' = wild
         /\ \A d \in Callers \ {c} : call'[d] = call[d]
         /\ call[c].at # "idle"
<1>0. n \in Nat /\ n < Reactors /\ Reactors \in Nat  BY PoolAssumption DEF Reactor
<1>1. call[c] \in [at : Places, io : Reactor, seen : Nat]  BY DEF Types
<1> USE <1>0, <1>1 DEF Types, Asking, At, Goes
<1>2. CASE Fetch(c)  BY <1>2 DEF Fetch, Reactor
<1>3. CASE Load(c)   BY <1>3 DEF Load
<1>4. CASE Store(c)  BY <1>4 DEF Store
<1>5. CASE Test(c)   BY <1>5 DEF Test, AtEnd, After
<1>6. CASE Reset(c)  BY <1>6 DEF Reset, After
<1> QED  BY <1>2, <1>3, <1>4, <1>5, <1>6 DEF GetsOn
-----------------------------------------------------------------------------
\* Whatever the threads do, the variables keep their types: get_io_service
\* answers with a reactor or ends the model.
LEMMA TypesInit == Init => Types
<1> SUFFICES ASSUME Init PROVE Types  OBVIOUS
<1>1. accepting = AcceptFirst /\ next = ThreadFirst
  BY DEF Init, AcceptFirst, ThreadFirst
<1>2. accepting \in Reactor /\ next \in Nat
  BY <1>1, First, PoolAssumption DEF Reactor
<1>3. Idle \in [at : Places, io : Reactor, seen : Nat]
  BY First DEF Idle, Places
<1> QED  BY <1>2, <1>3 DEF Init, Types

LEMMA TypesStep == Types /\ [Next]_vars => Types'
<1> SUFFICES ASSUME Types, [Next]_vars PROVE Types'  OBVIOUS
<1>0. /\ Reactors \in Nat /\ 0 \in Reactor /\ Reactor \subseteq Nat
      /\ "main" \in Callers /\ "acceptor" \in Callers
      /\ \A c \in Callers : call[c] \in [at : Places, io : Reactor, seen : Nat]
      /\ Idle \in [at : Places, io : Reactor, seen : Nat]
  BY First, PoolAssumption DEF Reactor, Callers, Types, Idle, Places
<1>1. CASE GetIoService
  <2>1. PICK c \in Callers : GetsOn(c)  BY <1>1 DEF GetIoService, GetsOn
  <2>2. next' \in Nat /\ wild' \in BOOLEAN
    <3>1. call[c].seen \in Nat  BY <1>0
    <3>2. next' \in Nat
      BY <3>1, <2>1 DEF GetsOn, Fetch, Load, Store, Test, Reset, Types
    <3>3. wild' = TRUE \/ wild' = wild
      BY <2>1 DEF GetsOn, Fetch, Load, Store, Test, Reset
    <3> QED  BY <3>2, <3>3, Zenon DEF Types
  <2>3. call' \in [Callers -> [at : Places, io : Reactor, seen : Nat]]
    BY <1>0, <2>1 DEF GetsOn, Fetch, Load, Store, Test, Reset, Goes, Types, Places
  <2> QED  BY <1>1, <2>2, <2>3 DEF GetIoService, acceptVars, Types
<1>2. CASE NextThread
  BY <1>0, <1>2 DEF NextThread, Goes, Types, Places, acceptVars
<1>3. CASE StartThread
  <2>1. running' \in [Reactor -> Nat]
    <3>0. call["main"].io \in Reactor  BY <1>0
    <3>1. running[call["main"].io] + 1 \in Nat  BY <3>0 DEF Types
    <3> QED  BY <1>3, <3>1, Zenon DEF StartThread, Types
  <2> QED  BY <1>0, <1>3, <2>1 DEF StartThread, Types, acceptVars
<1>4. ASSUME NEW r \in Reactor, ThreadEnds(r) PROVE Types'
  <2>1. running[r] \in Nat /\ running[r] > 0  BY <1>4 DEF ThreadEnds, Free, Types
  <2>2. running[r] - 1 \in Nat  BY <2>1
  <2> QED  BY <1>4, <2>2 DEF ThreadEnds, Types, acceptVars
<1>5. ASSUME NEW fails \in BOOLEAN, HandleAccept(fails) PROVE Types'
  BY <1>5 DEF HandleAccept, AfterAccept, Types, poolVars
<1>6. CASE StartAccept
  BY <1>0, <1>6 DEF StartAccept, Goes, Types, Places, acceptVars
<1>7. CASE AsyncAccept
  BY <1>0, <1>7 DEF AsyncAccept, Types
<1>8. CASE UNCHANGED <<poolVars, accepting, handler, errors, opened, early, wild>>
  BY <1>8 DEF Types, poolVars
<1> QED
  BY <1>1, <1>2, <1>3, <1>4, <1>5, <1>6, <1>7, <1>8
  DEF Next, MainStep, AcceptStep, Handlers, ClientConnects, Serve, SendSignal, HandleStop,
      vars, poolVars, acceptVars
-----------------------------------------------------------------------------
\* Main begins with the first turn of threads.
LEMMA InTurnInit == Init => InTurn
<1> SUFFICES ASSUME Init PROVE MainPhase /\ ~wild  BY DEF InTurn
<1>1. accepting = AcceptFirst /\ next = ThreadFirst
  BY DEF Init, AcceptFirst, ThreadFirst
<1>2. Turn(ThreadFirst, 0) = ThreadFirst  BY First, Turns
<1>3. \A r \in Reactor : Share(r, ThreadFirst, 0, 0) = 0
  <2> SUFFICES ASSUME NEW r \in Reactor PROVE Share(r, ThreadFirst, 0, 0) = 0
    OBVIOUS
  <2>1. Dist(r, ThreadFirst) \in Nat  BY First, Distances
  <2> QED  BY <2>1 DEF Share
<1>4. Asking("main", Turn(ThreadFirst, 0))
  BY <1>1, <1>2 DEF Asking, At, Init, Idle, Callers
<1>5. started = 0 * Reactors + 0 /\ started < Threads * Reactors
  BY PoolAssumption, SMT DEF Init
<1>6. Starting(0, 0)
  BY <1>3, <1>4, <1>5, Zenon DEF Starting, Init
<1> QED
  BY <1>1, <1>5, <1>6, First DEF MainPhase, Init, Callers

\* While main starts threads, the others leave it alone.
LEMMA MainPhaseStep ==
  ASSUME Types, Types', Next, ~early', MainPhase
  PROVE  ~wild' /\ (MainPhase' \/ AcceptPhase')
<1> USE DEF Types
<1>0. PICK full \in Nat, part \in Reactor : Starting(full, part)  BY DEF MainPhase
<1> DEFINE n == Turn(ThreadFirst, part)
<1>n. n \in Reactor /\ ~wild  BY First, Turns DEF Next
<1>1. CASE GetIoService
  <2>1. PICK c \in Callers : GetsOn(c)  BY <1>1 DEF GetIoService, GetsOn
  <2>2. c = "main"
    BY <2>1 DEF MainPhase, Idle, GetsOn, Fetch, Load, Store, Test, Reset, At, Callers
  <2>3. Asking("main", n)' /\ wild' = wild /\ call'["acceptor"] = call["acceptor"]
    BY <1>0, <1>n, <2>1, <2>2, AskingStep DEF Starting, Callers
  <2>4. Starting(full, part)'
    BY <1>0, <1>1, <2>3 DEF Starting, GetIoService, Asking, At, acceptVars
  <2>5. MainPhase'
    BY <1>0, <1>1, <2>3, <2>4 DEF MainPhase, GetIoService, acceptVars
  <2> QED  BY <1>n, <2>3, <2>5
<1>2. CASE NextThread
  <2>1. Asking("main", n)'
    BY <1>0, <1>2 DEF Starting, NextThread, Asking, At, Goes, Callers
  <2>2. Starting(full, part)' /\ wild' = wild
    BY <1>0, <1>2, <2>1 DEF Starting, NextThread
  <2>3. MainPhase'
    BY <1>0, <1>2, <2>2 DEF MainPhase, NextThread, Goes, acceptVars, Callers
  <2> QED  BY <1>n, <2>2, <2>3
<1>3. CASE StartThread
  <2>1. call["main"].io = n /\ next = After(n)
    BY <1>0, <1>3 DEF Starting, Asking, StartThread, At
  <2>2. PICK f \in Nat, p \in Reactor :
          /\ \/ f = full /\ p = part + 1
             \/ f = full + 1 /\ p = 0 /\ part + 1 = Reactors
          /\ Turn(ThreadFirst, p) = After(n)
          /\ \A r \in Reactor :
               /\ Share(r, ThreadFirst, full, part) \in Nat
               /\ Share(r, ThreadFirst, f, p) =
                    Share(r, ThreadFirst, full, part) + (IF r = n THEN 1 ELSE 0)
    <3>1. ThreadFirst \in Reactor  BY First
    <3> HIDE DEF Types
    <3> QED  BY <3>1, NextShare, ZenonT(30)
  <2>3. /\ started' = f * Reactors + p
        /\ (started' < Threads * Reactors) \/ (f = Threads /\ p = 0)
    <3>1. /\ Reactors \in Nat \ {0} /\ Threads \in Nat /\ part \in 0 .. Reactors - 1
          /\ full * Reactors + part < Threads * Reactors
          /\ started' = (full * Reactors + part) + 1 /\ full * Reactors \in Nat
      BY <1>0, <1>3, PoolAssumption DEF Starting, StartThread, MainPhase, Reactor
    <3>2. /\ part + 1 < Reactors => full * Reactors + (part + 1) < Threads * Reactors
          /\ part + 1 = Reactors => full * Reactors + (part + 1) = (full + 1) * Reactors
          /\ (full + 1) * Reactors < Threads * Reactors \/ full + 1 = Threads
      BY <3>1, Rounds
    <3>3. started' = full * Reactors + (part + 1)  BY <3>1
    <3>4. CASE f = full /\ p = part + 1
      <4>1. part + 1 < Reactors  BY <3>4, <3>1 DEF Reactor
      <4>2. f * Reactors + p = full * Reactors + (part + 1)  BY <3>4
      <4>3. started' = f * Reactors + p  BY <3>3, <4>2
      <4>4. full * Reactors + (part + 1) < Threads * Reactors  BY <3>2, <4>1
      <4> QED  BY <3>3, <4>3, <4>4, Zenon
    <3>5. CASE f = full + 1 /\ p = 0 /\ part + 1 = Reactors
      <4>1. started' = (full + 1) * Reactors  BY <3>2, <3>3, <3>5
      <4>2. (full + 1) * Reactors \in Nat  BY <3>1
      <4>3. started' = f * Reactors + p  BY <4>1, <4>2, <3>5
      <4> QED  BY <3>2, <3>5, <4>1, <4>3
    <3> QED  BY <2>2, <3>4, <3>5
  <2>4. signal' # "stopped" =>
          \A r \in Reactor : running'[r] = Share(r, ThreadFirst, f, p)
    <3> SUFFICES ASSUME signal' # "stopped", NEW r \in Reactor
                 PROVE  running'[r] = Share(r, ThreadFirst, f, p)
      OBVIOUS
    <3>1. running[r] = Share(r, ThreadFirst, full, part)
      BY <1>0, <1>3 DEF Starting, StartThread
    <3>2. running' = [running EXCEPT ![n] = @ + 1]
      BY <1>3, <2>1 DEF StartThread
    <3> HIDE DEF n
    <3>3. running'[r] = running[r] + (IF r = n THEN 1 ELSE 0)
      BY <3>2
    <3> QED  BY <2>2, <3>1, <3>3
  <2>5. call'["main"] = Idle /\ call'["acceptor"] = Idle /\ next' = Turn(ThreadFirst, p)
    BY <1>3, <2>1, <2>2 DEF StartThread, MainPhase, Callers
  <2>6. CASE started' < Threads * Reactors
    <3>1. Asking("main", Turn(ThreadFirst, p))'
      BY <2>5 DEF Asking, At, Idle
    <3>2. Starting(f, p)'  BY <2>3, <2>4, <3>1 DEF Starting
    <3>3. MainPhase'  BY <1>3, <2>5, <2>6, <3>2 DEF MainPhase, StartThread, acceptVars
    <3> QED  BY <1>n, <1>3, <3>3 DEF StartThread
  <2>7. CASE f = Threads /\ p = 0
    <3>1. ASSUME NEW r \in Reactor
          PROVE  /\ Share(r, ThreadFirst, f, 0) = f
                 /\ Share(r, AcceptFirst, 0, 0) = 0
      <4>1. Dist(r, ThreadFirst) \in Nat /\ Dist(r, AcceptFirst) \in Nat
        BY First, Distances
      <4> QED  BY <4>1 DEF Share
    <3>2. Turn(AcceptFirst, 0) = AcceptFirst /\ Turn(ThreadFirst, 0) = ThreadFirst
      BY First, Turns
    <3>3. next' = After(AcceptFirst)  BY <2>5, <2>7, <3>2, First
    <3>4. Accepting(0, 0)'
      BY <1>3, <2>5, <3>1, <3>2, <3>3
      DEF Accepting, MainPhase, StartThread, acceptVars
    <3>5. started' = Threads * Reactors
      BY <2>3, <2>7, PoolAssumption
    <3>6. signal' # "stopped" => \A r \in Reactor : running'[r] = Threads
      BY <2>4, <2>7, <3>1
    <3>7. AcceptPhase'  BY <2>5, <3>4, <3>5, <3>6, First DEF AcceptPhase
    <3> QED  BY <1>n, <1>3, <3>7 DEF StartThread
  <2> QED  BY <2>3, <2>6, <2>7
<1>4. ASSUME NEW r \in Reactor, ThreadEnds(r) PROVE ~wild' /\ MainPhase'
  BY <1>0, <1>n, <1>4
  DEF ThreadEnds, Stopped, MainPhase, Starting, Asking, At, acceptVars
<1>5. CASE HandleAccept(TRUE) \/ HandleAccept(FALSE)
  BY <1>5 DEF HandleAccept, MainPhase
<1>6. CASE StartAccept \/ AsyncAccept
  BY <1>6 DEF StartAccept, AsyncAccept, MainPhase, At, Idle
<1>7. CASE /\ UNCHANGED <<poolVars, accepting, handler, errors, opened, early, wild>>
           /\ signal' # "stopped" => signal # "stopped"
  BY <1>0, <1>n, <1>7 DEF MainPhase, Starting, Asking, At, poolVars
<1> QED
  BY <1>1, <1>2, <1>3, <1>4, <1>5, <1>6, <1>7
  DEF Next, MainStep, AcceptStep, Handlers, ClientConnects, Serve, SendSignal, HandleStop,
      poolVars, acceptVars

\* When main has started its threads, the handler of accept is alone.
LEMMA AcceptPhaseStep ==
  ASSUME Types, Types', Next, ~early', AcceptPhase
  PROVE  ~wild' /\ AcceptPhase'
<1> USE DEF Types
<1>0. PICK full \in Nat, part \in Reactor : Accepting(full, part)  BY DEF AcceptPhase
<1> DEFINE n == Turn(AcceptFirst, part)
<1>n. n \in Reactor /\ ~wild  BY First, Turns DEF Next
<1>1. CASE GetIoService
  <2>1. PICK c \in Callers : GetsOn(c)  BY <1>1 DEF GetIoService, GetsOn
  <2>2. c = "acceptor" /\ handler = "runs"
    BY <1>0, <2>1
    DEF AcceptPhase, Accepting, Idle, GetsOn, Fetch, Load, Store, Test, Reset, At, Callers
  <2>3. Asking("acceptor", n)' /\ wild' = wild /\ call'["main"] = call["main"]
    BY <1>0, <1>n, <2>1, <2>2, AskingStep DEF Accepting, Callers
  <2>4. Accepting(full, part)'
    BY <1>0, <1>1, <2>2, <2>3 DEF Accepting, GetIoService, acceptVars
  <2>5. AcceptPhase'
    BY <1>0, <1>1, <2>3, <2>4 DEF AcceptPhase, GetIoService
  <2> QED  BY <1>n, <2>3, <2>5
<1>2. CASE MainStep
  BY <1>2 DEF MainStep, NextThread, StartThread, AcceptPhase, At, Idle
<1>3. ASSUME NEW fails \in BOOLEAN, HandleAccept(fails) PROVE ~wild' /\ AcceptPhase'
  <2>1. PICK f \in Nat, p \in Reactor :
          /\ \/ f = full /\ p = part + 1
             \/ f = full + 1 /\ p = 0 /\ part + 1 = Reactors
          /\ Turn(AcceptFirst, p) = After(n)
          /\ \A r \in Reactor :
               /\ Share(r, AcceptFirst, full, part) \in Nat
               /\ Share(r, AcceptFirst, f, p) =
                    Share(r, AcceptFirst, full, part) + (IF r = n THEN 1 ELSE 0)
    <3>1. AcceptFirst \in Reactor  BY First
    <3> HIDE DEF Types
    <3> QED  BY <3>1, NextShare, ZenonT(30)
  <2>2. accepting = n /\ call["acceptor"] = Idle /\ next = After(n)
    BY <1>0, <1>3 DEF HandleAccept, Accepting
  <2>3. Asking("acceptor", Turn(AcceptFirst, p))'
    BY <1>3, <2>1, <2>2 DEF HandleAccept, Asking, At, Idle, poolVars
  <2>4. ASSUME NEW r \in Reactor
        PROVE  /\ opened'[r] <= Share(r, AcceptFirst, f, p)
               /\ Share(r, AcceptFirst, f, p) <= opened'[r] + errors'
    <3>1. /\ opened[r] <= Share(r, AcceptFirst, full, part)
          /\ Share(r, AcceptFirst, full, part) <= opened[r] + errors
          /\ Share(r, AcceptFirst, full, part) \in Nat
          /\ Share(r, AcceptFirst, f, p) =
               Share(r, AcceptFirst, full, part) + (IF r = n THEN 1 ELSE 0)
      BY <1>0, <2>1 DEF Accepting
    <3>2. \/ errors' = errors + 1 /\ opened'[r] = opened[r]
          \/ errors' = errors /\ opened'[r] = opened[r] + (IF r = n THEN 1 ELSE 0)
      BY <1>3, <2>2 DEF HandleAccept
    <3>3. opened[r] \in Nat /\ errors \in Nat  OBVIOUS
    <3> HIDE DEF n, Types
    <3> QED  BY <3>1, <3>2, <3>3
  <2>5. Accepting(f, p)'
    BY <1>3, <2>3, <2>4 DEF Accepting, HandleAccept, AfterAccept
  <2> QED  BY <1>n, <1>3, <2>5 DEF AcceptPhase, HandleAccept, poolVars
<1>4. CASE StartAccept
  <2>1. Asking("acceptor", n)' /\ call'["main"] = call["main"]
    BY <1>0, <1>4 DEF Accepting, StartAccept, Asking, At, Goes, Callers
  <2>2. Accepting(full, part)'
    BY <1>0, <1>4, <2>1 DEF Accepting, StartAccept, acceptVars
  <2> QED  BY <1>n, <1>4, <2>1, <2>2 DEF AcceptPhase, StartAccept
<1>5. CASE AsyncAccept
  <2>1. handler = "runs"
    BY <1>0, <1>5 DEF Accepting, AsyncAccept, At, Idle
  <2>2. call["acceptor"].io = n /\ next = After(n)
    BY <1>0, <1>5, <2>1 DEF Accepting, Asking, AsyncAccept
  <2>3. call'["main"] = call["main"] /\ call'["acceptor"] = Idle
    BY <1>5 DEF AsyncAccept, Callers
  <2>4. Accepting(full, part)'
    BY <1>0, <1>5, <2>2, <2>3 DEF Accepting, AsyncAccept
  <2> QED  BY <1>n, <1>5, <2>3, <2>4 DEF AcceptPhase, AsyncAccept
<1>6. ASSUME NEW r \in Reactor, ThreadEnds(r) PROVE ~wild' /\ AcceptPhase'
  BY <1>0, <1>n, <1>6
  DEF ThreadEnds, Stopped, AcceptPhase, Accepting, Asking, At, acceptVars
<1>7. CASE /\ UNCHANGED <<poolVars, accepting, handler, errors, opened, early, wild>>
           /\ signal' # "stopped" => signal # "stopped"
  BY <1>0, <1>n, <1>7 DEF AcceptPhase, Accepting, Asking, At, poolVars
<1> QED
  BY <1>1, <1>2, <1>3, <1>4, <1>5, <1>6, <1>7
  DEF Next, AcceptStep, Handlers, ClientConnects, Serve, SendSignal, HandleStop,
      poolVars, acceptVars
-----------------------------------------------------------------------------
\* IInv is inductive.
LEMMA InTurnStep == IInv /\ [Next]_vars => IInv'
<1> SUFFICES ASSUME IInv, [Next]_vars PROVE IInv'  OBVIOUS
<1>1. Types'  BY TypesStep DEF IInv
<1>2. ASSUME Next, ~early' PROVE ~wild' /\ (MainPhase' \/ AcceptPhase')
  <2>1. ~early
    BY <1>2
    DEF Next, GetIoService, MainStep, NextThread, StartThread, ClientConnects, AcceptStep,
        HandleAccept, StartAccept, AsyncAccept, Handlers, Serve, ThreadEnds, SendSignal,
        HandleStop
  <2> QED  BY <1>1, <1>2, <2>1, MainPhaseStep, AcceptPhaseStep DEF IInv, InTurn
<1>3. ASSUME UNCHANGED vars PROVE InTurn'
  BY <1>3
  DEF IInv, InTurn, MainPhase, AcceptPhase, Starting, Accepting, Asking, At, vars, poolVars,
      acceptVars
<1> QED  BY <1>1, <1>2, <1>3 DEF IInv, InTurn

\* It implies that what there is is shared out evenly.
LEMMA EvenInTurn == IInv => EvenSpread
<1> SUFFICES ASSUME IInv, ~early
             PROVE  /\ ~wild /\ ThreadsPerReactor
                    /\ \A r, s \in Reactor : opened[r] <= opened[s] + 1 + errors
  BY DEF EvenSpread
<1>1. ~wild /\ (MainPhase \/ AcceptPhase)  BY DEF IInv, InTurn
<1>2. started \in Nat /\ errors \in Nat /\ opened \in [Reactor -> Nat]
  BY DEF IInv, Types
<1>3. ThreadsPerReactor
  <2>1. MainPhase => started # Threads * Reactors
    <3>1. Threads * Reactors \in Nat  BY PoolAssumption
    <3> QED  BY <1>2, <3>1 DEF MainPhase
  <2> QED  BY <1>1, <2>1 DEF ThreadsPerReactor, AllStarted, AcceptPhase
<1>4. ASSUME NEW r \in Reactor, NEW s \in Reactor
      PROVE  opened[r] <= opened[s] + 1 + errors
  <2>1. CASE MainPhase  BY <1>2, <2>1 DEF MainPhase
  <2>2. CASE AcceptPhase
    <3>1. PICK full \in Nat, part \in Reactor : Accepting(full, part)
      BY <2>2 DEF AcceptPhase
    <3>2. /\ opened[r] <= Share(r, AcceptFirst, full, part)
          /\ Share(s, AcceptFirst, full, part) <= opened[s] + errors
      BY <3>1 DEF Accepting
    <3>3. /\ Share(r, AcceptFirst, full, part) \in {full, full + 1}
          /\ Share(s, AcceptFirst, full, part) \in {full, full + 1}
      BY DEF Share
    <3> QED  BY <1>2, <3>2, <3>3
  <2> QED  BY <1>1, <2>1, <2>2
<1> QED  BY <1>1, <1>3, <1>4

\* However many reactors, threads and clients there are: if no connection comes
\* while threads are started, the index of get_io_service stays in range, every
\* reactor gets its threads, and the connections are shared out evenly
\* (thread_pool.h:87-95, server.h:44-73).
THEOREM ReactorsTakeTurns == Spec => []EvenSpread
<1>1. Init => IInv  BY TypesInit, InTurnInit DEF IInv
<1>2. IInv /\ [Next]_vars => IInv'  BY InTurnStep
<1>3. IInv => EvenSpread  BY EvenInTurn
<1> QED  BY <1>1, <1>2, <1>3, PTL DEF Spec
=============================================================================
