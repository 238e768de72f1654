------------------------------ MODULE SmtpClient ------------------------------
(***************************************************************************)
(* The clients of the load generator (src/client): client.h does the       *)
(* asynchronous I/O of one SMTP session after the other and smtp_msm.h is  *)
(* the state machine that decides what comes next.                         *)
(*                                                                         *)
(* Each client runs in a strand, so an action is one completion handler,   *)
(* from the end of an asynchronous operation to the start of the next one: *)
(* the event it gives the state machine, the guards, exit, action and      *)
(* entry of the transition, and the events that entry actions raise, which *)
(* the machine runs after the transition (do_close raises one).  States of *)
(* the submachine MessageSend stand for themselves.  What the network and  *)
(* the server answer is the outcome of the operation, chosen by Next.      *)
(***************************************************************************)
EXTENDS Integers, Sequences, FiniteSets

CONSTANTS
  Clients,          (* one client for each of the --sessions                 *)
  SessionMessages,  (* --messages-per-session, 0 means no limit              *)
  TotalMessages,    (* --messages-per-thread, 0 means no limit               *)
  MaxTries,         (* retries of a connect that found no address: 100       *)
  MaxFailures,      (* bound: outcomes other than a full success, together   *)
  MaxMessages       (* bound: messages one client begins                     *)

ASSUME ClientAssumption ==
  /\ SessionMessages \in Nat /\ TotalMessages \in Nat /\ MaxTries \in Nat
  /\ MaxFailures \in Nat /\ MaxMessages \in Nat

VARIABLES
  client,    (* the state of each client: machine, socket, pending operation *)
  count,     (* ghost: what each client has done so far                      *)
  failures,  (* ghost: outcomes other than a full success                    *)
  aborted    (* the process has ended in abort, in the destructor of client  *)

vars == <<client, count, failures, aborted>>
-----------------------------------------------------------------------------
\* What the entry action of a state sends; the entry of MessageSend is that
\* of its initial state MailFrom.
Command == [Handshake |-> "helo", MailFrom |-> "mail", RcptTo |-> "rcpt",
            Data |-> "data", Quit |-> "quit"]

\* The transitions on ev_ready that only go from one command to the next.
Following == [WaitHelo |-> "Handshake", Handshake |-> "MailFrom",
              MailFrom |-> "RcptTo", RcptTo |-> "Data"]

MessageSend == {"MailFrom", "RcptTo", "Data", "DataSend"}

States == {"Initial", "Resolve", "Connect", "WaitHelo", "Handshake", "Quit", "Destroy"}
          \cup MessageSend

\* The operations a handler may leave pending; "start" is the posted task
\* that creates the client, "message" writes the message, not the request_.
Operations == {"start", "resolve", "connect", "write", "message", "read"}

(* Entry actions.  A client x is a record, the value of client[c].         *)
(* Faulty... is the operator defined after it with a plausible mistake.    *)

Begin(x, op) == [x EXCEPT !.pending = @ \cup {op}]

EnterResolve(x) == Begin([x EXCEPT !.state = "Resolve"], "resolve")

EnterConnect(x) ==
  Begin([x EXCEPT !.state = "Connect", !.tries = 0], "connect")

Ask(x, s) ==
  Begin([x EXCEPT !.state = s, !.request = Append(@, Command[s])], "write")

EnterDataSend(x) ==
  Begin([x EXCEPT !.state = "DataSend", !.sample = TRUE], "message")

\* handle_server_response: the parser is reset and the first read started.
AwaitReply(x) == Begin(x, "read")

FaultyLeave(x) ==   \* the sample survives a transition to Quit
  x

\* Leaving MessageSend leaves DataSend, whose exit logs the sample.
Leave(x) == [x EXCEPT !.sample = FALSE]

CanOpenNextSession(x) == TotalMessages = 0 \/ x.sent_total < TotalMessages

FaultyCanSendMoreMessages(x) ==
  /\ CanOpenNextSession(x)
  /\ SessionMessages = 0 \/ x.sent_in_session <= SessionMessages

CanSendMoreMessages(x) ==
  /\ CanOpenNextSession(x)
  /\ SessionMessages = 0 \/ x.sent_in_session < SessionMessages

FaultyEnterClose(x) ==   \* the socket is not closed
  IF CanOpenNextSession(x) THEN EnterConnect(x) ELSE [x EXCEPT !.state = "Destroy"]

\* Close is left at once: do_close closes the socket and raises ev_closed or
\* ev_error, and both are taken by the same two rows.
EnterClose(x) ==
  LET closed == [x EXCEPT !.socket = "closed"]
  IN  IF CanOpenNextSession(closed) THEN EnterConnect(closed)
                                    ELSE [closed EXCEPT !.state = "Destroy"]

AdjustSent(x) == [x EXCEPT !.sent_in_session = @ + 1, !.sent_total = @ + 1]
-----------------------------------------------------------------------------
(* Events: what the state machine does with them. *)

Ready(x) ==
  CASE x.state \in DOMAIN Following -> Ask(x, Following[x.state])
    [] x.state = "Data"             -> EnterDataSend(x)
    [] x.state = "DataSend"         ->
         IF CanSendMoreMessages(x) THEN Ask(AdjustSent(Leave(x)), "MailFrom")
                                   ELSE Ask(Leave(x), "Quit")
    [] x.state = "Quit"             -> EnterClose(x)

Error(x) ==
  CASE x.state \in {"Resolve", "Connect", "WaitHelo"} -> [x EXCEPT !.state = "Destroy"]
    [] x.state \in {"Handshake"} \cup MessageSend      -> Ask(Leave(x), "Quit")
    [] x.state = "Quit"                                -> EnterClose(x)

Connected(x) ==
  AwaitReply([x EXCEPT !.state = "WaitHelo", !.socket = "open", !.sent_in_session = 1])
-----------------------------------------------------------------------------
(* Outcomes: what the handlers of client.h do with them. *)

ConnectOutcomes == {"ok", "not_available", "timed_out", "failed"}

\* A connect that found no local address is tried again without an event.
Again(x, r) == r = "not_available" /\ x.tries < MaxTries

\* A connect that timed out re-enters Connect.
Connect(x, r) ==
  CASE r = "ok"        -> Connected(x)
    [] Again(x, r)     -> Begin([x EXCEPT !.tries = @ + 1], "connect")
    [] r = "timed_out" -> EnterConnect(x)
    [] OTHER           -> Error(x)

FaultyWrite(x) ==   \* what was written stays in the buffer
  AwaitReply(x)

\* async_write has consumed all of request_.
Write(x) == AwaitReply([x EXCEPT !.request = <<>>])

\* A reply complete with a code 200 .. 499 is "ready" and any other "refused";
\* "partial" is an incomplete one, "bad" one the parser does not accept.
ReadOutcomes == {"ready", "refused", "partial", "bad", "failed"}

FaultyRead(x, r) ==   \* an incomplete reply is not read to its end
  CASE r = "ready"   -> Ready(x)
    [] r = "partial" -> x
    [] OTHER         -> Error(x)

Read(x, r) ==
  CASE r = "ready"   -> Ready(x)
    [] r = "partial" -> Begin(x, "read")
    [] OTHER         -> Error(x)
-----------------------------------------------------------------------------
\* What a failed write may leave in request_: the commands not yet written,
\* the first of them whole or cut ("rest").  At least one byte is left.
Remains(r) ==
  UNION {LET s == SubSeq(r, i, Len(r))
         IN  {s, <<"rest">> \o Tail(s)} : i \in 1 .. Len(r)}

Init ==
  /\ client = [c \in Clients |->
       [state |-> "Initial", pending |-> {"start"}, tries |-> 0, socket |-> "closed",
        request |-> <<>>, sample |-> FALSE, sent_in_session |-> 1, sent_total |-> 1]]
  /\ count = [c \in Clients |->
       [sessions |-> 0, begun |-> 0, in_session |-> 0, logged |-> 0, cut |-> FALSE]]
  /\ failures = 0
  /\ aborted = FALSE

\* A handler of client c leaves it in the state y; `cut' tells whether its
\* operation was a write of request_ that failed.  A client in Destroy has no
\* operation pending, so its last reference goes with the handler and its
\* destructor aborts the process.
Handle(c, y, cut) ==
  LET x == client[c]
      n == count[c]
      opened == x.socket = "closed" /\ y.socket = "open"
      begins == y.sample /\ ~x.sample
  IN  /\ ~aborted
      /\ client' = [client EXCEPT ![c] = y]
      /\ count' = [count EXCEPT ![c] =
           [sessions   |-> IF opened THEN n.sessions + 1 ELSE n.sessions,
            begun      |-> IF begins THEN n.begun + 1 ELSE n.begun,
            in_session |-> IF opened THEN 0
                           ELSE IF begins THEN n.in_session + 1 ELSE n.in_session,
            logged     |-> IF x.sample /\ ~y.sample THEN n.logged + 1 ELSE n.logged,
            cut        |-> n.cut \/ cut]]
      /\ count'[c].begun <= MaxMessages
      /\ aborted' = (y.state = "Destroy")

\* The bound on what the network and the server may do to the clients.
Outcome(ok) ==
  /\ failures' = IF ok THEN failures ELSE failures + 1
  /\ failures' <= MaxFailures

\* Client c when its operation op has just ended.
Ended(c, op) == [client[c] EXCEPT !.pending = @ \ {op}]

Start(c) ==
  /\ "start" \in client[c].pending
  /\ Handle(c, EnterResolve(Ended(c, "start")), FALSE)
  /\ Outcome(TRUE)

ResolveDone(c, ok) ==
  LET x == Ended(c, "resolve")
  IN  /\ "resolve" \in client[c].pending
      /\ Handle(c, IF ok THEN EnterConnect(x) ELSE Error(x), FALSE)
      /\ Outcome(ok)

ConnectDone(c, r) ==
  /\ "connect" \in client[c].pending
  /\ Handle(c, Connect(Ended(c, "connect"), r), FALSE)
  /\ Outcome(r = "ok")

WriteDone(c) ==
  /\ "write" \in client[c].pending
  /\ Handle(c, Write(Ended(c, "write")), FALSE)
  /\ Outcome(TRUE)

WriteFails(c) ==
  LET x == Ended(c, "write")
  IN  /\ "write" \in client[c].pending
      /\ \E r \in Remains(x.request) : Handle(c, Error([x EXCEPT !.request = r]), TRUE)
      /\ Outcome(FALSE)

MessageDone(c, ok) ==
  LET x == Ended(c, "message")
  IN  /\ "message" \in client[c].pending
      /\ Handle(c, IF ok THEN AwaitReply(x) ELSE Error(x), FALSE)
      /\ Outcome(ok)

ReadDone(c, r) ==
  /\ "read" \in client[c].pending
  /\ Handle(c, Read(Ended(c, "read"), r), FALSE)
  /\ Outcome(r = "ready")

Step(c) ==
  \/ Start(c)
  \/ \E ok \in BOOLEAN : ResolveDone(c, ok) \/ MessageDone(c, ok)
  \/ \E r \in ConnectOutcomes : ConnectDone(c, r)
  \/ WriteDone(c)
  \/ WriteFails(c)
  \/ \E r \in ReadOutcomes : ReadDone(c, r)

Next == \E c \in Clients : Step(c)

Spec == Init /\ [][Next]_vars

\* io_service::run delivers the completion of every operation.
FairSpec == Spec /\ \A c \in Clients : WF_vars(Step(c))
-----------------------------------------------------------------------------
(* Properties. *)

TypeOK ==
  /\ client \in [Clients ->
       [state : States, pending : SUBSET Operations, tries : 0 .. MaxTries,
        socket : {"open", "closed"}, request : Seq({"helo", "mail", "rcpt",
        "data", "quit", "rest"}), sample : BOOLEAN,
        sent_in_session : Nat, sent_total : Nat]]
  /\ count \in [Clients ->
       [sessions : Nat, begun : Nat, in_session : Nat, logged : Nat, cut : BOOLEAN]]
  /\ failures \in 0 .. MaxFailures
  /\ aborted \in BOOLEAN

\* A client always waits for exactly one operation, until it is destroyed,
\* and it reads and writes only while the socket is connected, connects only
\* when the socket of the session before was closed: a handler neither
\* forgets to go on (the session would hang, its last reference gone) nor
\* goes on twice.
OneOperation ==
  \A c \in Clients :
    LET x == client[c] IN
    IF x.state = "Destroy" THEN x.pending = {}
    ELSE /\ Cardinality(x.pending) = 1
         /\ x.pending \subseteq {"read", "write", "message"} <=> x.socket = "open"
         /\ "message" \in x.pending => x.state = "DataSend"
         /\ "write" \in x.pending => x.state \in DOMAIN Command

\* A write of request_ that failed leaves commands behind, and the next ones,
\* those of the next session too, are sent after them.  Otherwise what is
\* written is the command of the current state alone.
OneCommand ==
  \A c \in Clients :
    LET x == client[c] IN
    ~count[c].cut =>
      x.request = IF "write" \in x.pending THEN <<Command[x.state]>> ELSE <<>>

\* --messages-per-session is a limit of the messages begun in one session.
\* --messages-per-thread is not quite: sent_total does not count the message a
\* session ends with, so a client may go beyond it, but by one message for each
\* session before its last.
LimitsKept ==
  \A c \in Clients :
    /\ SessionMessages > 0 => count[c].in_session <= SessionMessages
    /\ TotalMessages > 0 =>
         count[c].begun <= TotalMessages + (IF count[c].sessions = 0 THEN 0
                                            ELSE count[c].sessions - 1)

\* Every message begun is in the statistics once, when the server has answered
\* it or the session has failed, and not before.
SamplesCounted ==
  \A c \in Clients :
    /\ client[c].sample <=> client[c].state = "DataSend"
    /\ count[c].begun = count[c].logged + (IF client[c].sample THEN 1 ELSE 0)

\* With a limit, and unless every session has one message only, some client
\* comes to its end when finitely many operations fail: no operation is left
\* without a handler and no error makes a client reconnect for ever.  The
\* first client destroyed aborts the process.
Terminates == <>aborted

\* "messages per thread" (common/args/client.h:46-47).
TotalLimit ==
  TotalMessages > 0 => \A c \in Clients : count[c].begun <= TotalMessages
===============================================================================
