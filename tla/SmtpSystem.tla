------------------------------ MODULE SmtpSystem ------------------------------
(***************************************************************************)
(* One client of the load generator (SmtpClient) and the server it sends   *)
(* its messages to (SmtpServer), over a connection that may break.  What   *)
(* each module leaves to its environment is decided here by the other: the *)
(* outcome of a client's write or read by the link and the server's        *)
(* replies, the server's input by the client's requests and messages.      *)
(*                                                                         *)
(* A request goes into the connection when its write ends: the client does *)
(* not look at a reply before.  A message goes in piece by piece, because  *)
(* a server may answer before its end.  A reply is read whole: reading a   *)
(* part of one only starts the next read.  A new connection replaces the   *)
(* session of the one before, whose socket the client has closed.          *)
(***************************************************************************)
EXTENDS SmtpServer

CONSTANTS
  Client,           (* the client                                            *)
  SessionMessages, TotalMessages, MaxMessages,   (* as in SmtpClient         *)
  Messages,         (* the texts of the messages it sends                    *)
  MaxBreaks,        (* bound: connections that break                         *)
  MaxSessions       (* bound: connections                                    *)

ASSUME SystemAssumption ==
  /\ Messages \subseteq {"good", "bad", "bodyless"}
  /\ MaxBreaks \in Nat /\ MaxSessions \in Nat

VARIABLES
  client, count, aborted,   (* as in SmtpClient                              *)
  unsent,                   (* what is left to send of the message           *)
  breaks                    (* ghost: connections that broke                 *)

clientVars == <<client, count, aborted, unsent>>
systemVars == <<serverVars, clientVars, breaks>>

C == INSTANCE SmtpClient WITH Clients <- {Client}, MaxTries <- 0, MaxFailures <- 0,
                              failures <- 0

x == client[Client]
-----------------------------------------------------------------------------
SystemInit ==
  /\ Init
  /\ C!Init
  /\ unsent = <<>>
  /\ breaks = 0

\* A handler leaves the client in the state y: it may begin to send a message,
\* taken from the mail archive.
Handles(y, cut) ==
  /\ C!Handle(Client, y, cut)
  /\ IF y.sample /\ ~x.sample
     THEN \E m \in Messages : unsent' = <<m, "end">>
     ELSE unsent' = IF y.state = "DataSend" THEN unsent ELSE <<>>
  /\ UNCHANGED breaks

\* The same, for an operation on the connection: the handler may close it.
Keeps(y) == link' = IF y.socket = "closed" \/ aborted' THEN "gone" ELSE link

ServerSide == UNCHANGED <<kind, server, watchdog>>

ClientStarts ==
  /\ "start" \in x.pending
  /\ Handles(C!EnterResolve(C!Ended(Client, "start")), FALSE)
  /\ UNCHANGED serverVars

ClientResolves ==
  /\ "resolve" \in x.pending
  /\ Handles(C!EnterConnect(C!Ended(Client, "resolve")), FALSE)
  /\ UNCHANGED serverVars

ClientConnects ==
  /\ "connect" \in x.pending
  /\ count[Client].sessions < MaxSessions
  /\ Handles(C!Connect(C!Ended(Client, "connect"), "ok"), FALSE)
  /\ Accept

ClientWrites ==
  LET y == C!Write(C!Ended(Client, "write"))
  IN  /\ "write" \in x.pending /\ link = "up"
      /\ Handles(y, FALSE)
      /\ up' = up \o x.request
      /\ ServerSide /\ UNCHANGED <<down, link>>

\* The connection no longer takes data: it broke or the server has closed it.
Refuses == link = "cut" \/ ~server.open

ClientWriteFails ==
  /\ "write" \in x.pending /\ Refuses
  /\ \E r \in C!Remains(x.request) :
       LET y == C!Error([C!Ended(Client, "write") EXCEPT !.request = r])
       IN  Handles(y, TRUE) /\ Keeps(y)
  /\ ServerSide /\ UNCHANGED <<up, down>>

MessageFlows ==
  /\ unsent # <<>> /\ link = "up"
  /\ up' = Append(up, Head(unsent))
  /\ unsent' = Tail(unsent)
  /\ UNCHANGED <<kind, server, watchdog, down, link, client, count, aborted, breaks>>

ClientSendsMessage ==
  /\ "message" \in x.pending /\ unsent = <<>>
  /\ Handles(C!AwaitReply(C!Ended(Client, "message")), FALSE)
  /\ UNCHANGED serverVars

ClientMessageFails ==
  LET y == C!Error(C!Ended(Client, "message"))
  IN  /\ "message" \in x.pending /\ Refuses
      /\ Handles(y, FALSE) /\ Keeps(y)
      /\ ServerSide /\ UNCHANGED <<up, down>>

\* Every code the servers send is below 500; an empty line is not a reply.
ReplyOutcome(reply) == IF reply = "crlf" THEN "bad" ELSE "ready"

\* A read takes replies that have arrived, and the parser looks at the first.
ClientReads ==
  /\ "read" \in x.pending /\ link = "up"
  /\ \E n \in 1 .. Len(down) :
       LET y == C!Read(C!Ended(Client, "read"), ReplyOutcome(Head(down)))
       IN  Handles(y, FALSE) /\ Keeps(y) /\ down' = SubSeq(down, n + 1, Len(down))
  /\ ServerSide /\ UNCHANGED up

\* The connection broke, or it ended: at once when the server closed it with
\* input unread, after the last reply otherwise.
ClientReadFails ==
  LET y == C!Read(C!Ended(Client, "read"), "failed")
  IN  /\ "read" \in x.pending
      /\ link = "cut" \/ (~server.open /\ (down = <<>> \/ up # <<>>))
      /\ Handles(y, FALSE) /\ Keeps(y)
      /\ ServerSide /\ UNCHANGED <<up, down>>

Break ==
  /\ link = "up" /\ breaks < MaxBreaks
  /\ link' = "cut"
  /\ breaks' = breaks + 1
  /\ UNCHANGED <<kind, server, watchdog, up, down, clientVars>>

ClientStep ==
  \/ ClientStarts \/ ClientResolves \/ ClientConnects
  \/ ClientWrites \/ ClientWriteFails
  \/ MessageFlows \/ ClientSendsMessage \/ ClientMessageFails
  \/ ClientReads \/ ClientReadFails

ServerStep(A) == A /\ UNCHANGED <<clientVars, breaks>>

SystemNext ==
  ClientStep \/ ServerStep(Session) \/ ServerStep(Watch) \/ ServerStep(Expire) \/ Break

SystemSpec == SystemInit /\ [][SystemNext]_systemVars

\* The reactors deliver what has ended, the kernel what was sent, and time
\* passes.  Connections need not break.
FairSystemSpec ==
  /\ SystemSpec
  /\ WF_systemVars(ClientStep)
  /\ WF_systemVars(ServerStep(Session))
  /\ WF_systemVars(ServerStep(Watch))
  /\ WF_systemVars(ServerStep(Expire))
-----------------------------------------------------------------------------
(* Properties. *)

\* The command or message a client in a state sends, and the reply it awaits.
Sends(s, tokens) ==
  IF s \in DOMAIN C!Command THEN tokens = <<C!Command[s]>>
  ELSE s = "DataSend" /\ \E m \in Messages : IsPrefix(tokens, <<m, "end">>)

Awaits(s) ==
  CASE s \in DOMAIN C!Command -> C!Command[s]
    [] s = "DataSend"         -> "message"
    [] OTHER                  -> "greeting"

\* A session whose client has no commands left over from a failed write, and
\* in which no message was refused by a server that leaves something behind.
Undisturbed ==
  /\ ~count[Client].cut
  /\ server.refused => kind = "async"

\* Client and server stay in step: what the server has not yet answered is a
\* part of the command or message the client is at, what the client has not
\* yet read is the reply to it, and there is never both.  No reply is taken
\* for that to another command, and no text of a message for a command.  The
\* servers that find the end of a message before they parse it never take a
\* part of it for a command, refused or not: there a bad command comes only
\* from a client that repeats what it could not write.
InStep ==
  /\ (link = "up" /\ server.open /\ Undisturbed) =>
       LET input == server.buf \o up
       IN  /\ input # <<>> => Sends(x.state, input) /\ down = <<>>
           /\ down # <<>> => down = <<Awaits(x.state)>>
  /\ (server.bad_command /\ kind \in {"async", "session"}) => count[Client].cut

\* Client and server wait for each other, and nothing is on its way.
Deadlocked ==
  /\ "read" \in x.pending /\ down = <<>>
  /\ server.pc = "reading" /\ up = <<>> /\ Works

\* They do so, unless commands were repeated, only when the body of a message
\* is empty and the server parses it while reading.
DeadlockOnlyBodyless ==
  (Deadlocked /\ ~count[Client].cut) =>
    /\ kind \notin {"async", "session"}
    /\ server.next = "data" /\ Contains(server.buf, "bodyless")

\* A session that has ended does not leave its watchdog waiting for the timer,
\* which would keep the session and its socket for as long as the timer runs.
WatchdogReleased == server.pc = "ended" => watchdog.wait # "waiting"

\* No client of a coroutine server waits for ever for a reply, whatever it
\* sent and whatever broke: the watchdog closes the connection at last.
RepliesOrCloses ==
  kind \in Coroutines => []<>("read" \notin x.pending)

\* The asynchronous server keeps a client going to its last message, whatever
\* the messages are, unless a write of a command failed.
ClientFinishes == kind = "async" => <>(aborted \/ count[Client].cut)
===============================================================================
