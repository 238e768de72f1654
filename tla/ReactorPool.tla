------------------------------ MODULE ReactorPool ------------------------------
(***************************************************************************)
(* One Server of server/async/server.h with its thread_pool                *)
(* (client/concurrency/thread_pool.h): reactors, each with its threads,    *)
(* which are handed out in turn to whoever asks get_io_service.  The main  *)
(* thread asks for each thread that it starts; the handler of accept asks  *)
(* for each connection, in a thread of the acceptor's reactor, while main  *)
(* may still be starting threads.  next_io_service_ has no lock: each load *)
(* and store of it is a step, and a load that finds it past the last       *)
(* reactor ends the model (wild), for then the program may do anything.    *)
(*                                                                         *)
(* The constructor and the first startAccept run before there are threads. *)
(* A connection is served when a thread of its reactor runs a handler of   *)
(* it; what it does then is in SmtpServer.                                 *)
(***************************************************************************)
EXTENDS Naturals, FiniteSets

CONSTANTS
  Reactors,     (* how many                                                    *)
  Threads,      (* threads_                                                    *)
  MaxClients,   (* bound: clients that connect                                 *)
  MaxErrors     (* bound: accepts that fail, for want of descriptors           *)

\* The constructor throws if either is zero.
ASSUME PoolAssumption == Reactors \in Nat \ {0} /\ Threads \in Nat \ {0}
ASSUME BoundsAssumption == MaxClients \in Nat /\ MaxErrors \in Nat

VARIABLES
  next,        (* next_io_service_                                              *)
  call,        (* where main and the acceptor are in get_io_service             *)
  started,     (* threads started by main                                       *)
  running,     (* how many threads of each reactor are in io_service::run       *)
  accepting,   (* the reactor of newConnection                                  *)
  handler,     (* the handler of accept: "none" or "runs"                       *)
  backlog,     (* clients that have connected and are not accepted              *)
  clients,     (* clients that have connected so far                            *)
  errors,      (* accepts that have failed                                      *)
  waiting,     (* connections of each reactor that are not served yet           *)
  opened,      (* connections of each reactor                                   *)
  signal,      (* "none", "sent", or "stopped": all reactors are                *)
  early,       (* ghost: a connection was handled while threads were started    *)
  wild         (* the index was found past the end                              *)

poolVars == <<next, call, started, running>>
acceptVars == <<accepting, handler, backlog, clients, errors, waiting, opened>>
vars == <<poolVars, acceptVars, signal, early, wild>>

Reactor == 0 .. Reactors - 1
Callers == {"main", "acceptor"}

\* get_io_service, alone: the next index.
After(n) == IF n + 1 = Reactors THEN 0 ELSE n + 1

SignalsOn  == 0
AcceptorOn == After(0)

Idle == [at |-> "idle", io |-> 0, seen |-> 0]

Init ==
  /\ accepting = After(AcceptorOn)
  /\ next = After(accepting)
  /\ call = [c \in Callers |-> Idle]
  /\ started = 0
  /\ running = [r \in Reactor |-> 0]
  /\ handler = "none"
  /\ backlog = 0 /\ clients = 0 /\ errors = 0
  /\ waiting = [r \in Reactor |-> 0]
  /\ opened = [r \in Reactor |-> 0]
  /\ signal = "none" /\ early = FALSE /\ wild = FALSE
-----------------------------------------------------------------------------
(* get_io_service, by caller c: fetch, load, store, test and reset. *)

At(c, place) == call[c].at = place

Goes(c, place) == call' = [call EXCEPT ![c].at = place]

Fetch(c) ==
  /\ At(c, "called")
  /\ IF next \in Reactor
     THEN call' = [call EXCEPT ![c].at = "fetched", ![c].io = next] /\ UNCHANGED wild
     ELSE wild' = TRUE /\ UNCHANGED call
  /\ UNCHANGED next

Load(c) ==
  /\ At(c, "fetched")
  /\ call' = [call EXCEPT ![c].at = "loaded", ![c].seen = next]
  /\ UNCHANGED <<next, wild>>

Store(c) ==
  /\ At(c, "loaded")
  /\ next' = call[c].seen + 1
  /\ call' = [call EXCEPT ![c].at = "stored", ![c].seen = 0]
  /\ UNCHANGED wild

FaultyAtEnd == next > Reactors   \* one too far

AtEnd == next = Reactors

Test(c) ==
  /\ At(c, "stored")
  /\ Goes(c, IF AtEnd THEN "tested" ELSE "returned")
  /\ UNCHANGED <<next, wild>>

Reset(c) ==
  /\ At(c, "tested")
  /\ next' = 0
  /\ Goes(c, "returned")
  /\ UNCHANGED wild

GetIoService ==
  /\ \E c \in Callers : Fetch(c) \/ Load(c) \/ Store(c) \/ Test(c) \/ Reset(c)
  /\ UNCHANGED <<started, running, acceptVars, signal, early>>
-----------------------------------------------------------------------------
(* run: main starts threads_ threads for each reactor and joins them. *)

NextThread ==
  /\ At("main", "idle") /\ started < Threads * Reactors
  /\ Goes("main", "called")
  /\ UNCHANGED <<next, started, running, acceptVars, signal, early, wild>>

\* The thread runs its reactor, unless that is stopped.
StartThread ==
  /\ At("main", "returned")
  /\ call' = [call EXCEPT !["main"] = Idle]
  /\ started' = started + 1
  /\ running' = IF signal = "stopped" THEN running
                ELSE [running EXCEPT ![call["main"].io] = @ + 1]
  /\ UNCHANGED <<next, acceptVars, signal, early, wild>>

\* How many threads of a reactor can run a handler.
Free(r) == running[r] - (IF r = AcceptorOn /\ handler = "runs" THEN 1 ELSE 0)

FaultyStopped(r) == signal = "stopped" /\ r = SignalsOn   \* the others go on

\* stop has stopped them all.
Stopped(r) == signal = "stopped"

ThreadEnds(r) ==
  /\ Stopped(r) /\ Free(r) > 0
  /\ running' = [running EXCEPT ![r] = @ - 1]
  /\ UNCHANGED <<next, call, started, acceptVars, signal, early, wild>>
-----------------------------------------------------------------------------
(* The server. *)

ClientConnects ==
  /\ clients < MaxClients
  /\ clients' = clients + 1 /\ backlog' = backlog + 1
  /\ UNCHANGED <<poolVars, accepting, handler, errors, waiting, opened, signal, early, wild>>

FaultyAfterAccept(fails) == IF fails THEN "over" ELSE "runs"   \* an error ends it

\* startAccept is called whatever the outcome was.
AfterAccept(fails) == "runs"

\* handleAccept begins: the connection is started, if there is one.
HandleAccept(fails) ==
  /\ handler = "none" /\ At("acceptor", "idle")
  /\ signal # "stopped" /\ Free(AcceptorOn) > 0
  /\ backlog > 0
  /\ handler' = AfterAccept(fails)
  /\ IF fails
     THEN /\ errors < MaxErrors /\ errors' = errors + 1
          /\ UNCHANGED <<backlog, waiting, opened>>
     ELSE /\ backlog' = backlog - 1
          /\ waiting' = [waiting EXCEPT ![accepting] = @ + 1]
          /\ opened' = [opened EXCEPT ![accepting] = @ + 1]
          /\ UNCHANGED errors
  /\ early' = (early \/ started < Threads * Reactors)
  /\ UNCHANGED <<poolVars, accepting, clients, signal, wild>>

\* startAccept asks for the reactor of the next connection ...
StartAccept ==
  /\ handler = "runs" /\ At("acceptor", "idle")
  /\ Goes("acceptor", "called")
  /\ UNCHANGED <<next, started, running, acceptVars, signal, early, wild>>

\* ... makes it and waits for it.
AsyncAccept ==
  /\ At("acceptor", "returned")
  /\ call' = [call EXCEPT !["acceptor"] = Idle]
  /\ accepting' = call["acceptor"].io
  /\ handler' = "none"
  /\ UNCHANGED <<next, started, running, backlog, clients, errors, waiting, opened,
                 signal, early, wild>>

Serve(r) ==
  /\ waiting[r] > 0 /\ signal # "stopped" /\ Free(r) > 0
  /\ waiting' = [waiting EXCEPT ![r] = @ - 1]
  /\ UNCHANGED <<poolVars, accepting, handler, backlog, clients, errors, opened, signal,
                 early, wild>>

\* SIGINT or SIGTERM, and handleStop.
SendSignal ==
  /\ signal = "none" /\ signal' = "sent"
  /\ UNCHANGED <<poolVars, acceptVars, early, wild>>

\* The handler of the signal stops the io_services one after the other; as a
\* handler that runs is let finish in any case, that is one step.
HandleStop ==
  /\ signal = "sent" /\ Free(SignalsOn) > 0
  /\ signal' = "stopped"
  /\ UNCHANGED <<poolVars, acceptVars, early, wild>>

MainStep == NextThread \/ StartThread

Handlers(r) == Serve(r) \/ ThreadEnds(r)

AcceptStep == HandleAccept(FALSE) \/ StartAccept \/ AsyncAccept

Next ==
  /\ ~wild
  /\ \/ GetIoService \/ MainStep
     \/ ClientConnects \/ AcceptStep \/ HandleAccept(TRUE)
     \/ \E r \in Reactor : Handlers(r)
     \/ SendSignal \/ HandleStop

Spec == Init /\ [][Next]_vars

\* Threads run, and so do the handlers of a reactor that has a free one.
Fairness ==
  /\ WF_vars(~wild /\ GetIoService) /\ WF_vars(~wild /\ MainStep)
  /\ WF_vars(~wild /\ AcceptStep)
  /\ \A r \in Reactor : WF_vars(~wild /\ Handlers(r))
  /\ WF_vars(~wild /\ HandleStop)

FairSpec == Spec /\ Fairness
-----------------------------------------------------------------------------
(* Properties. *)

AllStarted == started = Threads * Reactors

\* When all threads are started every reactor has its share of them, as
\* threads.h:94 says: "reactors:threads numbers (threads per reactor)".  That fails
\* if a connection takes a turn while threads are started (thread_pool.h:45, :87).
ThreadsPerReactor ==
  (AllStarted /\ signal # "stopped") => \A r \in Reactor : running[r] = Threads

\* If no connection came while threads were started, every reactor has its
\* threads, connections are shared out evenly (an accept that failed has taken a
\* turn), and the index stays in range: the
\* turns that signals, acceptor and threads have taken do not upset the turns of
\* the connections (thread_pool.h:87-95, server.h:44-73).
EvenSpread ==
  ~early =>
    /\ ~wild
    /\ ThreadsPerReactor
    /\ \A r, s \in Reactor : opened[r] <= opened[s] + 1 + errors

\* A client that has connected is accepted and served, also after an accept has
\* failed, unless its reactor or that of the acceptor has no thread: a reactor
\* with a thread forgets nobody (server.h:66-81).
ClientsServed ==
  <>[](\/ wild \/ signal = "stopped"
       \/ /\ (backlog = 0 \/ running[AcceptorOn] = 0)
          /\ \A r \in Reactor : waiting[r] = 0 \/ running[r] = 0)

\* After a signal every thread ends and run returns, whatever the threads were
\* at and however many had been started, if the signal can be handled at all.
StopEnds ==
  (signal = "sent") ~>
    (\/ wild
     \/ AllStarted /\ signal = "sent" /\ running[SignalsOn] = 0
     \/ AllStarted /\ signal = "stopped" /\ \A r \in Reactor : running[r] = 0)
=============================================================================
