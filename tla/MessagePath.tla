------------------------------ MODULE MessagePath ------------------------------
(***************************************************************************)
(* The path of one message: the client waits for the greeting, sends DATA, *)
(* waits for the answer, sends a message as mbox/fix.h has made it, and    *)
(* waits for the verdict.  Characters, which the other modules abstract    *)
(* from, are what this one is about: on one way the fixer, the searches    *)
(* for the end and the grammar, on the other the buffer in front of the    *)
(* socket and the parser of replies, with input in pieces of any size.     *)
(*                                                                         *)
(* The session is one of those that write through an outbuf.  Each piece   *)
(* of input is given to all the searches: read_until of the async server,  *)
(* the loop of `session' and the grammar of those that parse as they read. *)
(* HELO, MAIL and RCPT are left out: they and their replies are as DATA.   *)
(***************************************************************************)
EXTENDS Naturals, Sequences, MessageFixer, Rfc822Grammar, SocketBuffers

CONSTANTS
  Pieces,      (* sequences of characters, of which messages are made           *)
  MaxPieces    (* how many pieces make a message at most                       *)

Replies == INSTANCE ReplyParser

Chars == Text \cup {CR, LF}

\* No piece is empty, as no message may be: index.h:67-68 asserts it.
ASSUME PiecesAssumption == Pieces \subseteq Seq(Chars) \ {<<>>}
ASSUME MaxPiecesAssumption == MaxPieces \in Nat

VARIABLES
  stage,     (* what the client is at *)
  message,   (* the pieces of the message in the archive                       *)
  wire,      (* what is sent after DATA                                        *)
  got,       (* how much of it the session has read                            *)
  op,        (* read_until_delim_string_op                                     *)
  scan,      (* the loop of `session'                                          *)
  session,   (* "reads", "writes" or "ended"                                   *)
  todo,      (* what it has to give to its ostream; <<>> stands for flush      *)
  out,       (* its outbuf                                                     *)
  seen,      (* how many characters of the replies the client has read         *)
  parser,    (* response_parser_                                               *)
  inserted   (* all that the session has given to its ostream                  *)

inputVars  == <<message, wire, got, op, scan>>
outputVars == <<session, todo, out, inserted>>
clientVars == <<stage, seen, parser>>
vars == <<inputVars, outputVars, clientVars>>

Line(n) == <<"d", "d", "d", " ">> \o [i \in 1 .. n |-> "x"]
Eol     == <<CR, LF>>
Flush   == <<>>

FaultyGreeting == <<Line(9) \o Eol>>   \* fits into the buffer

\* "220 localhost STMP\r\n": it is not flushed.
Greeting == <<Line(14) \o Eol>>

\* command_reply (os, msg).
CommandReply(msg) == <<msg, Eol, Flush>>

\* What another server might greet with: two lines, one without CR, together
\* too long for the buffer.
ForeignGreeting ==
  <<<<"d", "d", "d", "-">> \o [i \in 1 .. 7 |-> "x"] \o <<LF>>, Line(6) \o Eol, Flush>>

Go      == CommandReply(Line(44))          \* 354 Enter mail, end with ...
Ok      == CommandReply(Line(2))           \* 250 Ok
Refusal == CommandReply(Line(17) \o Eol)   \* 451 rfc2822 violation\r\n

Init ==
  /\ stage = "greeting"
  /\ message = <<>> /\ wire = <<>> /\ got = 0
  /\ op = NotSearched /\ scan = NotScanned
  /\ session = "writes" /\ todo \in {Greeting, ForeignGreeting}
  /\ out = NewOutbuf /\ inserted = <<>>
  /\ seen = 0 /\ parser = Replies!NoReply
-----------------------------------------------------------------------------
(* The session writes. *)

\* os << Head (todo), or a flush; nothing goes in once badbit is set.
Stream(ok1, ok2) ==
  /\ session = "writes" /\ todo # <<>>
  /\ (ok1 \/ ok2) => out.alive
  /\ todo' = Tail(todo)
  /\ IF Head(todo) = Flush
     THEN out' = Sync(out, ok1) /\ UNCHANGED inserted
     ELSE IF out.bad THEN UNCHANGED <<out, inserted>>
     ELSE /\ out' = Xsputn(out, Head(todo), ok1, ok2)
          /\ inserted' = inserted \o Head(todo)
  /\ UNCHANGED <<session, inputVars, clientVars>>

\* if (! is.good () || ! os.good ()) break
GoesOn(bad) == IF bad THEN "ended" ELSE "reads"

\* All is written: the session reads on.  Or it ends, and ~outbuf calls sync.
TurnsToRead(ok) ==
  /\ session = "writes" /\ todo = <<>>
  /\ ok => out.alive
  /\ session' = GoesOn(out.bad)
  /\ out' = IF session' = "ended" THEN Sync(out, ok) ELSE out
  /\ UNCHANGED <<todo, inserted, inputVars, clientVars>>
-----------------------------------------------------------------------------
(* The client reads replies. *)

ReadReply(n) ==
  /\ parser.result = "more"
  /\ n \in 1 .. Len(out.sent) - seen
  /\ seen' = seen + n
  /\ parser' = Replies!Parse(parser, SubSeq(out.sent, seen + 1, seen + n))
  /\ UNCHANGED <<stage, inputVars, outputVars>>

\* What is past is forgotten, and response_parser_ is reset.
Forgotten ==
  /\ seen' = 0 /\ parser' = Replies!NoReply
  /\ out' = [out EXCEPT !.sent = <<>>] /\ inserted' = out.buf

\* The reply is complete: send the next thing, and await the answer.  The
\* session reads DATA when it gets there.
SendData ==
  /\ stage = "greeting" /\ parser.result = "true"
  /\ session = "reads"
  /\ stage' = "data"
  /\ session' = "writes" /\ todo' = Go
  /\ Forgotten
  /\ UNCHANGED inputVars

\* The message that is sent now has been read from the archive ...
Compose(piece) ==
  /\ stage = "data" /\ parser.result = "true"
  /\ session = "reads"
  /\ Len(message) < MaxPieces
  /\ message' = Append(message, piece)
  /\ UNCHANGED <<wire, got, op, scan, outputVars, clientVars>>

\* parse and parse_end: the loop of parse looks at each character once.
Fixed(text) ==
  LET after[k \in 0 .. Len(text)] == IF k = 0 THEN Fresh ELSE Parsed(after[k - 1], text)
  IN  Ended(after[Len(text)], text)

\* ... and has been fixed by a task of the pool.
FixMessage ==
  /\ stage = "data" /\ parser.result = "true"
  /\ message # <<>>
  /\ wire' = Fixed(FlattenSeq(message))
  /\ stage' = "message"
  /\ Forgotten
  /\ UNCHANGED <<message, got, op, scan, session, todo>>
-----------------------------------------------------------------------------
(* The session reads the message. *)

Received == SubSeq(wire, 1, got)

Found == op.found \/ scan.state = "lf2"

ReadMessage(n) ==
  /\ stage = "message" /\ session = "reads"
  /\ ~Found
  /\ n \in 1 .. Len(wire) - got
  /\ got' = got + n
  /\ op' = Searched(op, SubSeq(wire, 1, got + n))
  /\ scan' = ScannedAll(scan, SubSeq(wire, got + 1, got + n))
  /\ UNCHANGED <<message, wire, outputVars, clientVars>>

\* What the grammar says of what is in front of the mark, of all that was
\* read, and of the characters as they come.
ByScan    == Message(SubSeq(wire, 1, scan.last), FALSE)
BySearch  == Message(Received, FALSE)
ByReading == Message(Received, TRUE)

\* `session' answers.
Answer ==
  /\ stage = "message" /\ session = "reads"
  /\ scan.state = "lf2"
  /\ todo' = IF ByScan = Fail THEN Refusal ELSE Ok
  /\ session' = "writes"
  /\ stage' = "verdict"
  /\ message' = <<>> /\ wire' = <<>> /\ got' = 0
  /\ op' = NotSearched /\ scan' = NotScanned
  /\ UNCHANGED <<out, inserted, seen, parser>>

Next ==
  \/ \E ok1, ok2 \in BOOLEAN : Stream(ok1, ok2)
  \/ \E ok \in BOOLEAN : TurnsToRead(ok)
  \/ \E n \in 1 .. Len(out.sent) : ReadReply(n)
  \/ SendData
  \/ \E piece \in Pieces : Compose(piece)
  \/ FixMessage
  \/ \E n \in 1 .. Len(wire) : ReadMessage(n)
  \/ Answer

Spec == Init /\ [][Next]_vars
-----------------------------------------------------------------------------
(* Properties. *)

\* However the input is cut into pieces, both searches find the end of the
\* message when its last character has arrived and not before: no text of a
\* message looks like its end (fix.h:110-144, read_until.h:81-128,
\* session.h:88-126), and the scan knows where the mark begins.
EndFoundExactly ==
  stage = "message" =>
    LET whole == got = Len(wire)
    IN  /\ op.found = whole
        /\ (scan.state = "lf2") = whole
        /\ whole => /\ op.position = Len(wire)
                    /\ scan.taken = Len(wire)
                    /\ scan.last = Len(wire) - Len(EndMark)

\* What a receiver takes away: CRs, and a dot that begins a line.
Kept(s, places) ==
  LET upTo[k \in 0 .. Len(s)] == IF k = 0 THEN <<>>
        ELSE IF k \in places THEN Append(upTo[k - 1], s[k]) ELSE upTo[k - 1]
  IN  upTo[Len(s)]

WithoutCR(s) == Kept(s, {i \in 1 .. Len(s) : s[i] # CR})

Unstuffed(s) == Kept(s, {i \in 1 .. Len(s) : ~(s[i] = DOT /\ (i = 1 \/ s[i - 1] = LF))})

\* What SMTP asks of the receiver (drop a dot that begins a line) gives the
\* message back, up to CRs and the end of the last line, and every line ends in
\* CRLF: what fix.h inserts is enough and not too much.
Recoverable ==
  (stage = "message" /\ got = 0) =>
    LET text == FlattenSeq(message)
        body == SubSeq(wire, 1, Len(wire) - 3)
    IN  /\ \A i \in 1 .. Len(wire) : wire[i] = LF => i > 1 /\ wire[i - 1] = CR
        /\ WithoutCR(Unstuffed(body)) =
             WithoutCR(IF Last(text) = LF THEN text ELSE Append(text, LF))

\* The grammar sorts messages into three classes, and the classes of
\* SmtpServer are these: accepted by all servers, refused by all, and accepted
\* by the async server, refused by `session' and never seen complete by those
\* that parse as they read.  The latter accept no message before its end, and
\* do not need to look behind it.
ThreeClasses ==
  stage = "message" =>
    IF got < Len(wire) THEN ByReading \in {Fail, Wait}
    ELSE \/ ByScan = Fail /\ BySearch = Fail /\ ByReading = Fail
         \/ ByScan = scan.last /\ BySearch = Len(wire) /\ ByReading = Len(wire)
         \/ ByScan = Fail /\ BySearch = Len(wire) /\ ByReading = Wait

\* A session that reads has sent all that it has written: nothing that the
\* other side waits for is held back, although the greeting is not flushed
\* (it is longer than the buffer, session.h:65, outbuf.h:12).
NothingHeldBack == (session = "reads") => out.buf = <<>> /\ out.sent = inserted

\* What arrives is what was written, in order, up to a failure; and no write
\* reads behind the end of buffer_, although a failed one moves the put pointer
\* behind what was put (outbuf.h:68-84).
OutputInOrder ==
  /\ IsPrefix(out.sent, inserted)
  /\ ~out.bad => inserted = out.sent \o out.buf
  /\ ~out.overrun

\* Every reply is taken for a good one, and for complete when all of it has been
\* read and not before, however it is cut (response_parser.h:18-31): only the
\* line end after the reply to a refused message may be left (reply.h:10).
RepliesUnderstood ==
  /\ parser.result # "false"
  /\ parser.result = "true" =>
       LET rest == SubSeq(inserted, seen + 1, Len(inserted)) \o FlattenSeq(todo)
       IN  out.bad \/ rest = <<>> \/ (stage = "verdict" /\ IsSuffix(rest, Eol))

=============================================================================
