------------------------------ MODULE SmtpServer ------------------------------
(***************************************************************************)
(* One session of the SMTP servers (src/server).                           *)
(*   async            Connection of async/connection.cc, and ZcConnection, *)
(*                    which has the same handlers                          *)
(*   session, op_session, zc_session      the coroutines of coro/          *)
(*   sync_session, sync_zc_session        the functions of sync/           *)
(* All of them greet, read commands line by line and answer each.  They    *)
(* differ in how the end of a message is found, in what a message that is  *)
(* refused leaves in the input, and in whether anyone watches the time.    *)
(*                                                                         *)
(* An action goes from the end of one operation on the socket to the start *)
(* of the next: a handler of Connection, a stretch of a coroutine between  *)
(* two of its yields, a stretch of a thread between two blocking calls.    *)
(*                                                                         *)
(* Input is a sequence of tokens, each ending in CRLF: a command, "rest"   *)
(* (the tail of a cut command), the text of a message up to the CRLF.CRLF  *)
(* that ends it ("good", "bad" or "bodyless"), and that "end".  A reply is *)
(* named by the token it answers, that to a message "message", and "crlf"  *)
(* is the empty line some servers send after the reply to a refused one.   *)
(***************************************************************************)
EXTENDS Naturals, Sequences, SequencesExt

CONSTANT Kinds     (* the servers *)

Coroutines == {"session", "op_session", "zc_session"}

ASSUME KindsAssumption ==
  Kinds \subseteq Coroutines \cup {"async", "sync_session", "sync_zc_session"}

VARIABLES
  kind,      (* the server, one of Kinds                                        *)
  server,    (* the session: what it does, its buffer and its socket            *)
  watchdog,  (* the coroutine that closes the socket, and timer_                *)
  up,        (* tokens sent to the server and not yet read by it                *)
  down,      (* replies sent by the server and not yet read by the client       *)
  link       (* "up", "gone": the client has closed its socket, "cut": broken   *)

serverVars == <<kind, server, watchdog, up, down, link>>
-----------------------------------------------------------------------------
(* The message: what a server makes of the buffer b after DATA, a set of   *)
(* outcomes, empty when it has to read on.  `rest' is what stays to be     *)
(* read as commands.                                                       *)
(* Faulty... is the operator defined after it with a plausible mistake.    *)

\* The grammar asks for headers, CRLF CRLF and any text, even none.
Parsed(b) == Head(b) \in {"good", "bodyless"}

FaultyAsyncData(b) ==   \* the message is not consumed
  IF Contains(b, "end") THEN {[ok |-> Parsed(b), rest |-> b]} ELSE {}

\* handleData parses, answers, and consumes whatever is in inBuf.
AsyncData(b) ==
  IF Contains(b, "end") THEN {[ok |-> Parsed(b), rest |-> <<>>]} ELSE {}

FaultyScanData(b) ==   \* the terminator is left
  IF ~Contains(b, "end") THEN {}
  ELSE LET i == SelectInSeq(b, LAMBDA t : t = "end")
       IN  {[ok |-> Head(b) = "good", rest |-> SubSeq(b, i, Len(b))]}

\* The loop takes characters up to the first CRLF.CRLF, then parses those in
\* front of it.  Without a body it is the second CRLF of the headers' end that
\* is missing then, and the message is refused.
ScanData(b) ==
  IF ~Contains(b, "end") THEN {}
  ELSE LET i == SelectInSeq(b, LAMBDA t : t = "end")
       IN  {[ok |-> Head(b) = "good", rest |-> SubSeq(b, i + 1, Len(b))]}

\* The parser takes characters as they come.  It refuses a message without
\* waiting for its end, and smtp_body looks for a CRLF.CRLF after the CRLF CRLF
\* that ends the headers: it does not see one that shares the last CRLF with
\* them, and asks for more.  `accepted' are the outcomes for a message that it
\* accepts, `refused' what may be left of one that it does not.
Streaming(b, accepted, refused) ==
  IF b = <<>> THEN {}
  ELSE CASE Head(b) = "bodyless" -> {}
         [] Head(b) = "good"     -> accepted
         [] OTHER                -> {[ok |-> FALSE, rest |-> r] : r \in refused}

\* The stream has taken what the parser has looked at: some or all of the
\* text of a refused message, whose CRLF.CRLF at least is left.
StreamData(b) == Streaming(b, ScanData(b), {b, Tail(b)})

\* Only detach takes characters out of the zero copy buffer.  It is called for an
\* accepted message, up to last.get (), which is the end of all that has been
\* read: what came behind the message is lost with it, as in the async server.
ZcData(b) == Streaming(b, AsyncData(b), {b})

Data(b) ==
  CASE kind = "async"                              -> AsyncData(b)
    [] kind = "session"                            -> ScanData(b)
    [] kind \in {"op_session", "sync_session"}     -> StreamData(b)
    [] kind \in {"zc_session", "sync_zc_session"}  -> ZcData(b)
-----------------------------------------------------------------------------
(* What a session does until its next operation.  It ends in a record with *)
(* the session and the reply sent.                                         *)

Writing(s, replies, next) ==
  [session |-> [s EXCEPT !.pc = "writing", !.next = next, !.out = Tail(replies)],
   sent    |-> <<Head(replies)>>]

Reading(s) == [session |-> [s EXCEPT !.pc = "reading"], sent |-> <<>>]

Ended(s) == [session |-> [s EXCEPT !.pc = "ended", !.open = FALSE], sent |-> <<>>]

\* The reply to a line, read where a command is expected, and what follows it.
Answer(s, line) ==
  CASE line \in {"helo", "mail", "rcpt"} -> Writing(s, <<line>>, "line")
    [] line = "data"                     -> Writing(s, <<line>>, "data")
    [] line = "quit"                     -> Writing(s, <<line>>, "close")
    [] OTHER -> Writing([s EXCEPT !.bad_command = TRUE], <<line>>, "close")

\* command_reply ends every reply with a CRLF, those that have one too, and
\* the reply to a refused message has: it is written in two parts.
Refusal == IF kind = "async" THEN <<"message">> ELSE <<"message", "crlf">>

\* sync_session returns after a message it refused.
AfterRefusal == IF kind = "sync_session" THEN "close" ELSE "line"

FaultyVerdict(s, o) ==   \* a session that refused a message reads another one
  LET t == [s EXCEPT !.buf = o.rest, !.refused = @ \/ ~o.ok]
  IN  IF o.ok THEN Writing(t, <<"message">>, "line") ELSE Writing(t, Refusal, "data")

Verdict(s, o) ==
  LET t == [s EXCEPT !.buf = o.rest, !.refused = @ \/ ~o.ok]
  IN  IF o.ok THEN Writing(t, <<"message">>, "line")
              ELSE Writing(t, Refusal, AfterRefusal)

Continued(s) ==
  IF s.out # <<>> THEN {Writing(s, s.out, s.next)}
  ELSE CASE s.next = "close" -> {Ended(s)}
         [] s.next = "line"  ->
              IF s.buf = <<>> THEN {Reading(s)}
              ELSE {Answer([s EXCEPT !.buf = Tail(@)], Head(s.buf))}
         [] s.next = "data"  ->
              IF Data(s.buf) = {} THEN {Reading(s)}
              ELSE {Verdict(s, o) : o \in Data(s.buf)}

\* timer_.expires_from_now cancels the wait of the watchdog, unless the timer
\* has expired already.
Cancelled(w) == [w EXCEPT !.wait = IF @ = "waiting" THEN "cancelled" ELSE @]

FaultyEndWatch(w) == w   \* the timer is not cancelled

\* timer_.cancel, at the end of the coroutine.
EndWatch(w) == Cancelled(w)

\* The read of a coroutine gives the session ten more seconds.
Armed(w) == [Cancelled(w) EXCEPT !.due = FALSE]

Goes(r) ==
  /\ server' = r.session
  /\ down' = down \o r.sent
  /\ watchdog' = IF kind \notin Coroutines        THEN watchdog
                 ELSE IF r.session.pc = "reading" THEN Armed(watchdog)
                 ELSE IF r.session.pc = "ended"   THEN EndWatch(watchdog)
                 ELSE watchdog
  /\ UNCHANGED <<kind, link>>

Works == server.open /\ link = "up"
-----------------------------------------------------------------------------
(* A connection has been accepted and the greeting is being written. *)
Greeted == [pc |-> "writing", next |-> "line", out |-> <<>>, buf |-> <<>>,
            open |-> TRUE, refused |-> FALSE, bad_command |-> FALSE]

Watching == [wait |-> IF kind \in Coroutines THEN "start" ELSE "ended", due |-> FALSE]

Accept ==
  /\ server' = Greeted
  /\ watchdog' = Watching
  /\ up' = <<>>
  /\ down' = <<"greeting">>
  /\ link' = "up"
  /\ UNCHANGED kind

Init ==
  /\ kind \in Kinds
  /\ server = Ended(Greeted).session
  /\ watchdog = [wait |-> "ended", due |-> FALSE]
  /\ up = <<>>
  /\ down = <<>>
  /\ link = "gone"

\* The write of a reply, or of a part of it, has ended.
Written ==
  /\ server.pc = "writing" /\ Works
  /\ \E r \in Continued(server) : Goes(r)
  /\ UNCHANGED up

\* A read returns some of what has arrived.
ReadSome ==
  /\ server.pc = "reading" /\ Works
  /\ \E n \in 1 .. Len(up) :
       /\ \E r \in Continued([server EXCEPT !.buf = @ \o SubSeq(up, 1, n)]) : Goes(r)
       /\ up' = SubSeq(up, n + 1, Len(up))

\* An operation failed: the client has left, the connection is broken or the
\* watchdog has closed the socket.  The session ends without a reply that
\* could arrive.
Hangup ==
  /\ server.pc # "ended" /\ ~Works
  /\ Goes(Ended(server))
  /\ UNCHANGED up

FaultyClosed(s) == s   \* the watchdog never closes the socket

Closed(s) == [s EXCEPT !.open = FALSE]

\* The watchdog runs: at its start, because the wait was cancelled or because
\* the timer has expired.  It waits again while the socket is open.
Watch ==
  /\ watchdog.wait \in {"start", "cancelled", "expired"}
  /\ server' = IF watchdog.wait = "expired" THEN Closed(server) ELSE server
  /\ watchdog' = [watchdog EXCEPT !.wait =
       IF ~server'.open THEN "ended" ELSE IF watchdog.due THEN "expired" ELSE "waiting"]
  /\ UNCHANGED <<kind, up, down, link>>

\* Time goes on past the expiry of timer_.
Expire ==
  /\ ~watchdog.due /\ watchdog.wait # "ended"
  /\ watchdog' = [due  |-> TRUE,
                  wait |-> IF watchdog.wait = "waiting" THEN "expired" ELSE watchdog.wait]
  /\ UNCHANGED <<kind, server, up, down, link>>

Session == Written \/ ReadSome \/ Hangup

Next == Session \/ Watch \/ Expire
=============================================================================
