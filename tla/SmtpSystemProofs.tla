----------------------------- MODULE SmtpSystemProofs -----------------------------
(***************************************************************************)
(* The safety of SmtpSystem for every server, any messages, limits and     *)
(* connections that break.  While the connection is up and no command has  *)
(* been cut, IInv says where everything is that client and server still    *)
(* have to take from each other: at most one command and its reply, or one *)
(* message.  Only a message that is refused upsets this.  Then `session'   *)
(* owes an empty line, and the client may come to be one reply behind; the *)
(* servers that parse a message as it comes find what is left of it where  *)
(* they expect a command, and end the session.                             *)
(***************************************************************************)
EXTENDS SmtpSystem, SequenceTheorems, WellFoundedInduction, TLAPS

Words == {"helo", "mail", "rcpt", "data", "quit", "rest", "good", "bad", "bodyless", "end",
          "message", "crlf", "greeting"}

\* The other servers look at a message before all of it has come.
Streams == {"op_session", "zc_session", "sync_session", "sync_zc_session"}

Places == {"writing", "reading", "ended"}
Waits == {"start", "waiting", "cancelled", "expired", "ended"}

SessionRecord ==
  [pc : Places, next : {"line", "data", "close"}, out : Seq(Words), buf : Seq(Words),
   open : BOOLEAN, refused : BOOLEAN, bad_command : BOOLEAN]

ServerTypes ==
  /\ kind \in Coroutines \cup {"async", "sync_session", "sync_zc_session"}
  /\ server \in SessionRecord
  /\ watchdog \in [wait : Waits, due : BOOLEAN]
  /\ up \in Seq(Words) /\ down \in Seq(Words) /\ link \in {"up", "gone", "cut"}

\* What a session knows of itself: it reads when it has nothing more to say and
\* cannot go on with what it has got.
SessionInv ==
  /\ server.pc = "reading" =>
       /\ server.out = <<>> /\ server.next # "close"
       /\ server.next = "line" => server.buf = <<>>
       /\ server.next = "data" => Data(server.buf) = {}
  /\ server.pc = "ended" => ~server.open /\ watchdog.wait # "waiting"
  /\ kind \notin Coroutines => watchdog.wait = "ended"

Asks == {"Handshake", "MailFrom", "RcptTo", "Data", "Quit"}
Waiting(op) == x.pending = {op}

ClientRecord ==
  [state : C!States, pending : SUBSET C!Operations, tries : Nat,
   socket : {"open", "closed"}, request : Seq(Words), sample : BOOLEAN,
   sent_in_session : Nat, sent_total : Nat]

CountRecord ==
  [sessions : Nat, begun : Nat, in_session : Nat, logged : Nat, cut : BOOLEAN]

ClientTypes ==
  /\ client \in [{Client} -> ClientRecord] /\ count \in [{Client} -> CountRecord]
  /\ aborted \in BOOLEAN /\ unsent \in Seq(Words) /\ breaks \in Nat

\* What a client waits for in which state.
ClientInv ==
  /\ \/ Waiting("start") /\ x.state = "Initial"
     \/ Waiting("resolve") /\ x.state = "Resolve"
     \/ Waiting("connect") /\ x.state = "Connect"
     \/ Waiting("write") /\ x.state \in Asks
     \/ Waiting("message") /\ x.state = "DataSend"
     \/ Waiting("read") /\ x.state \in Asks \cup {"WaitHelo", "DataSend"}
     \/ x.pending = {} /\ x.state = "Destroy"
  /\ x.state \in {"Initial", "Resolve", "Connect", "Destroy"} <=> link = "gone"
  /\ x.state \in {"Initial", "Resolve", "Connect"} => x.socket = "closed"
  /\ x.state \in Asks \cup {"WaitHelo", "DataSend"} => x.socket = "open"
  /\ x.sample <=> x.state = "DataSend"
  /\ unsent # <<>> => Waiting("message")
  /\ ~count[Client].cut =>
       x.request = IF Waiting("write") THEN <<C!Command[x.state]>> ELSE <<>>

\* Where the input of the server is, in its buffer, on its way and not yet sent;
\* and the replies, still to be sent and on their way.
Input(b, u, r) == server.buf = b /\ up = u /\ unsent = r
Output(o, d) == server.out = o /\ down = d

Follows(s) == CASE s = "Data" -> "data" [] s = "Quit" -> "close" [] OTHER -> "line"

\* The client is about to send a command, has sent it, or has been answered;
\* or it is sending a message.
Quiet ==
  /\ Waiting("write") /\ x.state \in Asks
  /\ Input(<<>>, <<>>, <<>>) /\ Output(<<>>, <<>>) /\ server.next = "line"

Asked ==
  /\ Waiting("read") /\ x.state \in Asks
  /\ Input(<<>>, <<C!Command[x.state]>>, <<>>) /\ Output(<<>>, <<>>)
  /\ server.next = "line"

Answered ==
  /\ \/ Waiting("read") /\ x.state \in Asks \cup {"WaitHelo", "DataSend"}
     \/ Waiting("message") /\ x.state = "DataSend"
  /\ Input(<<>>, <<>>, <<>>) /\ Output(<<>>, <<Awaits(x.state)>>)
  /\ server.next = Follows(x.state)

\* Where the parts of a message are.
Parts(m, b, u, r) ==
  \/ b = <<>> /\ u = <<>> /\ r = <<m, "end">>
  \/ b = <<>> /\ u = <<m>> /\ r = <<"end">>
  \/ b = <<>> /\ u = <<m, "end">> /\ r = <<>>
  \/ b = <<m>> /\ u = <<>> /\ r = <<"end">>
  \/ b = <<m>> /\ u = <<"end">> /\ r = <<>>
  \/ b = <<m, "end">> /\ u = <<>> /\ r = <<>>

Sending ==
  /\ Waiting("message") \/ (Waiting("read") /\ unsent = <<>>)
  /\ x.state = "DataSend"
  /\ \E m \in Messages : Parts(m, server.buf, up, unsent)
  /\ Output(<<>>, <<>>) /\ server.next = "data"

Aligned == Quiet \/ Asked \/ Answered \/ Sending

\* After a message that `session' refused: the empty line that follows the reply
\* is still to be read, the client has taken the message's reply or not, or has
\* taken the empty line for the reply to MAIL and is one reply behind.

JustRefused ==
  /\ Waiting("message") \/ Waiting("read")
  /\ x.state = "DataSend"
  /\ Input(<<>>, <<>>, <<>>) /\ server.next = "line"
  /\ \/ Output(<<"crlf">>, <<"message">>) /\ server.pc = "writing"
     \/ Output(<<>>, <<"message", "crlf">>)

Trails ==
  /\ x.state \in {"MailFrom", "Quit"}
  /\ \/ Waiting("write") /\ Input(<<>>, <<>>, <<>>)
     \/ Waiting("read") /\ Input(<<>>, <<C!Command[x.state]>>, <<>>)
  /\ server.next = "line"
  /\ \/ Output(<<"crlf">>, <<>>) /\ server.pc = "writing"
     \/ Output(<<>>, <<"crlf">>)

Trailed ==
  /\ x.state \in {"MailFrom", "Quit"} /\ Waiting("read")
  /\ Input(<<>>, <<>>, <<>>) /\ Output(<<>>, <<"crlf", C!Command[x.state]>>)
  /\ server.next = Follows(x.state)

Behind ==
  /\ x.state = "Quit"
  /\ \/ /\ Waiting("write") /\ server.next = "line"
        /\ \/ Input(<<>>, <<"mail">>, <<>>) /\ Output(<<>>, <<>>)
           \/ Input(<<>>, <<>>, <<>>) /\ Output(<<>>, <<"mail">>)
     \/ /\ Waiting("read") /\ server.next = "line"
        /\ \/ Input(<<>>, <<"mail", "quit">>, <<>>) /\ Output(<<>>, <<>>)
           \/ Input(<<>>, <<"quit">>, <<>>) /\ Output(<<>>, <<"mail">>)
           \/ /\ Input(<<"quit">>, <<>>, <<>>) /\ Output(<<>>, <<"mail">>)
              /\ server.pc = "writing"
     \/ /\ Waiting("read") /\ server.next = "close"
        /\ Input(<<>>, <<>>, <<>>) /\ Output(<<>>, <<"mail", "quit">>)

\* After a message that another server refused: what is left of the message is
\* the next line, which ends the session.
Spoiled(next, b, u, r) ==
  \/ next = "close"
  \/ next = "line" /\ b \o u \o r # <<>> /\ Head(b \o u \o r) \in {"bad", "end"}

Doomed == Spoiled(server.next, server.buf, up, unsent)

Live == link = "up" /\ server.open /\ ~count[Client].cut

Together ==
  \/ Aligned
  \/ /\ kind = "session" /\ server.refused
     /\ JustRefused \/ Trails \/ Trailed \/ Behind
  \/ kind \in Streams /\ server.refused /\ Doomed

StepInv == Live => Together

NoBadCommand == server.bad_command /\ kind \in {"async", "session"} => count[Client].cut

IInv == ServerTypes /\ ClientTypes /\ SessionInv /\ ClientInv /\ StepInv /\ NoBadCommand
-----------------------------------------------------------------------------
(* Sequences. *)

\* A set of natural numbers has a least element, which Min is.
LEMMA Least ==
  ASSUME NEW T \in SUBSET Nat, T # {}
  PROVE  Min(T) \in T /\ \A i \in T : Min(T) <= i
<1>1. \E m \in T : \A i \in T : ~(<<i, m>> \in OpToRel(<, Nat))
  BY NatLessThanWellFounded, WFMin
<1>2. \E m \in T : \A i \in T : m <= i
  <2>1. PICK m \in T : \A i \in T : ~(<<i, m>> \in OpToRel(<, Nat))  BY <1>1
  <2>2. ASSUME NEW i \in T PROVE m <= i
    <3>1. i \in Nat /\ m \in Nat  OBVIOUS
    <3>2. ~(i < m)  BY <2>1, <3>1 DEF OpToRel
    <3> QED  BY <3>1, <3>2
  <2> QED  BY <2>2
<1> QED  BY <1>2, Zenon DEF Min

\* Short sequences.
LEMMA Short ==
  ASSUME NEW S, NEW a \in S, NEW b \in S
  PROVE  /\ <<>> \in Seq(S) /\ <<a>> \in Seq(S) /\ <<a, b>> \in Seq(S)
         /\ Len(<<>>) = 0 /\ Len(<<a>>) = 1 /\ Len(<<a, b>>) = 2
         /\ <<a>> # <<>> /\ <<a, b>> # <<>>
         /\ Head(<<a>>) = a /\ Tail(<<a>>) = <<>>
         /\ Head(<<a, b>>) = a /\ Tail(<<a, b>>) = <<b>>
         /\ <<a>>[1] = a /\ <<a, b>>[1] = a /\ <<a, b>>[2] = b
  OBVIOUS

\* A sequence is known by its length and elements.
LEMMA Known ==
  ASSUME NEW S, NEW s \in Seq(S)
  PROVE  /\ Len(s) = 0 => s = <<>>
         /\ Len(s) = 1 => s = <<s[1]>>
         /\ Len(s) = 2 => s = <<s[1], s[2]>>
<1>1. CASE Len(s) = 0  BY <1>1
<1>2. CASE Len(s) = 1
  <2>1. s[1] \in S  BY <1>2
  <2>2. <<s[1]>> \in Seq(S) /\ Len(<<s[1]>>) = 1 /\ <<s[1]>>[1] = s[1]  BY <2>1, Short
  <2> DEFINE t == <<s[1]>>
  <2>3. \A i \in 1 .. Len(s) : s[i] = t[i]  BY <1>2, <2>2
  <2>4. s = t  BY <1>2, <2>2, <2>3, SeqEqual
  <2> QED  BY <1>2, <2>4
<1>3. CASE Len(s) = 2
  <2>1. s[1] \in S /\ s[2] \in S
    <3>1. 1 \in 1 .. Len(s) /\ 2 \in 1 .. Len(s)  BY <1>3
    <3> QED  BY <3>1, ElementOfSeq
  <2> DEFINE t == <<s[1], s[2]>>
  <2>2. t \in Seq(S) /\ Len(t) = 2 /\ t[1] = s[1] /\ t[2] = s[2]  BY <2>1, Short
  <2> HIDE DEF t
  <2>3. \A i \in 1 .. Len(s) : s[i] = t[i]  BY <1>3, <2>2
  <2>4. s = t  BY <1>3, <2>2, <2>3, SeqEqual
  <2> QED  BY <1>3, <2>4 DEF t
<1> QED  BY <1>1, <1>2, <1>3

\* Short sequences put together.
LEMMA Joining ==
  ASSUME NEW S, NEW a \in S, NEW b \in S
  PROVE  /\ <<>> \o <<>> = <<>> /\ <<>> \o <<a>> = <<a>> /\ <<a>> \o <<>> = <<a>>
         /\ <<>> \o <<a, b>> = <<a, b>> /\ <<a, b>> \o <<>> = <<a, b>>
         /\ <<a>> \o <<b>> = <<a, b>>
         /\ Append(<<>>, a) = <<a>> /\ Append(<<a>>, b) = <<a, b>>
<1>1. /\ <<>> \in Seq(S) /\ <<a>> \in Seq(S) /\ <<a, b>> \in Seq(S) /\ <<b>> \in Seq(S)
      /\ Len(<<>>) = 0 /\ Len(<<a>>) = 1 /\ Len(<<b>>) = 1
      /\ <<a>>[1] = a /\ <<b>>[1] = b
  BY Short
<1>2. /\ <<>> \o <<>> = <<>> /\ <<>> \o <<a>> = <<a>> /\ <<a>> \o <<>> = <<a>>
      /\ <<>> \o <<a, b>> = <<a, b>> /\ <<a, b>> \o <<>> = <<a, b>>
  BY <1>1, ConcatEmptySeq
<1> DEFINE s == <<a>>
           t == <<b>>
<1>3. s \o t = <<a, b>>
  <2>0. s \in Seq(S) /\ t \in Seq(S) /\ Len(s) = 1 /\ Len(t) = 1 /\ s[1] = a /\ t[1] = b
    BY <1>1
  <2> HIDE DEF s, t
  <2>1. /\ s \o t \in Seq(S) /\ Len(s \o t) = 2
        /\ (s \o t)[1] = a /\ (s \o t)[2] = b
    <3>1. /\ s \o t \in Seq(S) /\ Len(s \o t) = Len(s) + Len(t)
          /\ \A i \in 1 .. Len(s) + Len(t) :
               (s \o t)[i] = IF i <= Len(s) THEN s[i] ELSE t[i - Len(s)]
      BY <2>0, ConcatProperties
    <3> QED  BY <2>0, <3>1
  <2> QED  BY <2>1, Known
<1>4. Append(<<>>, a) = <<a>> /\ Append(s, b) = s \o t
  BY <1>1, <1>2, AppendIsConcat
<1> QED  BY <1>2, <1>3, <1>4

\* What can be taken from one or two tokens.
LEMMA Pieces ==
  ASSUME NEW q \in Seq(Words)
  PROVE  /\ Len(q) = 1 => SubSeq(q, 1, 1) = q /\ SubSeq(q, 2, 1) = <<>>
         /\ Len(q) = 2 => /\ SubSeq(q, 1, 2) = q /\ SubSeq(q, 3, 2) = <<>>
                          /\ SubSeq(q, 1, 1) = <<q[1]>> /\ SubSeq(q, 2, 2) = <<q[2]>>
<1>1. Len(q) = 1 => SubSeq(q, 1, 1) = q /\ SubSeq(q, 2, 1) = <<>>  BY SubSeqFull
<1>2. Len(q) = 2 => SubSeq(q, 1, 2) = q /\ SubSeq(q, 3, 2) = <<>>  BY SubSeqFull
<1>3. ASSUME Len(q) = 2 PROVE SubSeq(q, 1, 1) = <<q[1]>>
  <2>1. /\ SubSeq(q, 1, 1) \in Seq(Words) /\ Len(SubSeq(q, 1, 1)) = 1
        /\ SubSeq(q, 1, 1)[1] = q[1]
    BY <1>3
  <2> QED  BY <2>1, Known
<1>4. ASSUME Len(q) = 2 PROVE SubSeq(q, 2, 2) = <<q[2]>>
  <2>1. /\ SubSeq(q, 2, 2) \in Seq(Words) /\ Len(SubSeq(q, 2, 2)) = 1
        /\ SubSeq(q, 2, 2)[1] = q[2]
    BY <1>4
  <2> QED  BY <2>1, Known
<1> QED  BY <1>1, <1>2, <1>3, <1>4

\* What a read may take from one or two tokens, and what it leaves.
LEMMA TakingOne ==
  ASSUME NEW a \in Words, NEW q, q = <<a>>, NEW n \in 1 .. Len(q)
  PROVE  SubSeq(q, 1, n) = <<a>> /\ SubSeq(q, n + 1, Len(q)) = <<>>
<1>1. q \in Seq(Words) /\ Len(q) = 1  BY Short
<1>2. q = <<a>>  OBVIOUS
<1>3. n = 1 /\ n + 1 = 2  BY <1>1
<1>4. SubSeq(q, 1, 1) = q /\ SubSeq(q, 2, 1) = <<>>  BY <1>1, Pieces
<1> QED  BY <1>1, <1>2, <1>3, <1>4, Zenon

\* Of two tokens a read takes the first or both.
LEMMA TakingTwo ==
  ASSUME NEW a \in Words, NEW b \in Words, NEW q, q = <<a, b>>, NEW n \in 1 .. Len(q)
  PROVE  \/ SubSeq(q, 1, n) = <<a>> /\ SubSeq(q, n + 1, Len(q)) = <<b>>
         \/ SubSeq(q, 1, n) = <<a, b>> /\ SubSeq(q, n + 1, Len(q)) = <<>>
<1>1. q \in Seq(Words) /\ Len(q) = 2 /\ q[1] = a /\ q[2] = b  BY Short
<1>2. q = <<a, b>>  OBVIOUS
<1>3. (n = 1 /\ n + 1 = 2) \/ (n = 2 /\ n + 1 = 3)  BY <1>1
<1>4. /\ SubSeq(q, 1, 2) = q /\ SubSeq(q, 3, 2) = <<>>
      /\ SubSeq(q, 1, 1) = <<a>> /\ SubSeq(q, 2, 2) = <<b>>
  BY <1>1, Pieces
<1> QED  BY <1>1, <1>2, <1>3, <1>4, Zenon
-----------------------------------------------------------------------------
(* The message. *)

\* What a server makes of the input after DATA is an outcome.
LEMMA DataTyped ==
  ASSUME ServerTypes, NEW b \in Seq(Words), NEW o \in Data(b)
  PROVE  o.ok \in BOOLEAN /\ o.rest \in Seq(Words)
<1>1. ASSUME NEW p \in ScanData(b) PROVE p.ok \in BOOLEAN /\ p.rest \in Seq(Words)
  <2> DEFINE I == {i \in 1 .. Len(b) : b[i] = "end"}
  <2>1. I \in SUBSET Nat /\ I # {}
    BY <1>1 DEF ScanData, Contains
  <2>2. Min(I) \in 1 .. Len(b)
    BY <2>1, Least
  <2>3. SelectInSeq(b, LAMBDA t : t = "end") = Min(I)
    BY <2>1 DEF SelectInSeq
  <2>4. p = [ok |-> Head(b) = "good", rest |-> SubSeq(b, Min(I) + 1, Len(b))]
    BY <1>1, <2>3 DEF ScanData
  <2> HIDE DEF I
  <2> DEFINE i == Min(I)
  <2>5. i \in Nat  BY <2>2
  <2> HIDE DEF i
  <2>6. SubSeq(b, i + 1, Len(b)) \in Seq(Words)  BY <2>5
  <2> QED  BY <2>4, <2>6 DEF i
<1>2. o \in AsyncData(b) => o.ok \in BOOLEAN /\ o.rest \in Seq(Words)
  <2>1. /\ [ok |-> Parsed(b), rest |-> <<>>].ok \in BOOLEAN
        /\ [ok |-> Parsed(b), rest |-> <<>>].rest \in Seq(Words)
    BY DEF Parsed
  <2>2. o \in AsyncData(b) => o = [ok |-> Parsed(b), rest |-> <<>>]
    BY DEF AsyncData
  <2> QED  BY <2>1, <2>2
<1>3. ASSUME NEW A, o \in A => o.ok \in BOOLEAN /\ o.rest \in Seq(Words),
             NEW R \in SUBSET Seq(Words), o \in Streaming(b, A, R)
      PROVE  o.ok \in BOOLEAN /\ o.rest \in Seq(Words)
  <2>1. CASE Head(b) = "good" /\ b # <<>>
    <3>1. o \in A  BY <1>3, <2>1 DEF Streaming
    <3> QED  BY <1>3, <3>1
  <2>2. CASE b = <<>> \/ Head(b) = "bodyless"
    BY <1>3, <2>2 DEF Streaming
  <2>3. CASE b # <<>> /\ Head(b) \notin {"good", "bodyless"}
    <3>1. o \in {[ok |-> FALSE, rest |-> r] : r \in R}  BY <1>3, <2>3 DEF Streaming
    <3>2. PICK q \in R : o = [ok |-> FALSE, rest |-> q]  BY <3>1
    <3> QED  BY <3>2
  <2> QED  BY <2>1, <2>2, <2>3
<1>4. b # <<>> => Tail(b) \in Seq(Words)  OBVIOUS
<1>5. b = <<>> => StreamData(b) = {}
  BY DEF StreamData, Streaming
<1>6. o \in StreamData(b) => o.ok \in BOOLEAN /\ o.rest \in Seq(Words)
  <2>1. b # <<>> => {b, Tail(b)} \in SUBSET Seq(Words)
    BY <1>4
  <2>2. o \in ScanData(b) => o.ok \in BOOLEAN /\ o.rest \in Seq(Words)
    BY <1>1
  <2> QED  BY <1>3, <1>5, <2>1, <2>2 DEF StreamData
<1>7. o \in ZcData(b) => o.ok \in BOOLEAN /\ o.rest \in Seq(Words)
  BY <1>2, <1>3 DEF ZcData
<1> QED
  BY <1>1, <1>2, <1>6, <1>7 DEF Data, ServerTypes, Coroutines

\* Without input the server reads on.
LEMMA NothingYet == ServerTypes => Data(<<>>) = {}
  BY DEF Data, AsyncData, ScanData, StreamData, ZcData, Streaming, Contains, ServerTypes,
         Coroutines

\* With the text of the message alone it does, too, or refuses it at once.
LEMMA TextAlone ==
  ASSUME ServerTypes, NEW m \in Messages, NEW o \in Data(<<m>>)
  PROVE  kind \in Streams /\ m = "bad" /\ ~o.ok /\ o.rest \in {<<m>>, <<>>}
<1>1. m \in {"good", "bad", "bodyless"}  BY SystemAssumption
<1>2. ~Contains(<<m>>, "end")  BY <1>1 DEF Contains
<1>3. Head(<<m>>) = m /\ Tail(<<m>>) = <<>> /\ <<m>> # <<>>  OBVIOUS
<1> QED
  BY <1>1, <1>2, <1>3
  DEF Data, AsyncData, ScanData, StreamData, ZcData, Streaming, ServerTypes, Coroutines,
      Streams

\* With all of it, it takes all of it; but a server that parses the message as it
\* comes leaves some of one it refuses, and reads on after one without a body.
LEMMA WholeMessage ==
  ASSUME ServerTypes, NEW m \in Messages
  PROVE  /\ \A o \in Data(<<m, "end">>) :
              \/ o.rest = <<>> /\ (o.ok \/ kind \in {"async", "session"})
              \/ /\ kind \in Streams /\ m = "bad" /\ ~o.ok
                 /\ o.rest \in {<<m, "end">>, <<"end">>}
         /\ Data(<<m, "end">>) = {} => kind \in Streams /\ m = "bodyless"
<1>1. m \in {"good", "bad", "bodyless"} /\ m \in Words  BY SystemAssumption DEF Words
<1> DEFINE b == <<m, "end">>
<1>e. "end" \in Words  BY DEF Words
<1>2. b \in Seq(Words) /\ Len(b) = 2 /\ b[1] = m /\ b[2] = "end"  BY <1>1, <1>e, Short
<1>3. Contains(b, "end")  BY <1>2 DEF Contains
<1>4. SelectInSeq(b, LAMBDA t : t = "end") = 2
  <2>1. {i \in 1 .. Len(b) : b[i] = "end"} = {2}  BY <1>1, <1>2
  <2>2. Min({2}) = 2  BY Least
  <2> QED  BY <2>1, <2>2 DEF SelectInSeq
<1>5. Head(b) = m /\ Tail(b) = <<"end">> /\ b # <<>>
  BY <1>1, <1>e, Short
<1>s. SubSeq(b, 2 + 1, Len(b)) = <<>>
  BY <1>2
<1> HIDE DEF b
<1>6. ScanData(b) = {[ok |-> m = "good", rest |-> <<>>]}
  BY <1>3, <1>4, <1>5, <1>s, Zenon DEF ScanData
<1>a. ASSUME NEW v PROVE /\ {[ok |-> v, rest |-> <<>>]} # {}
                       /\ \A o \in {[ok |-> v, rest |-> <<>>]} : o.rest = <<>> /\ o.ok = v
  OBVIOUS
<1>7. AsyncData(b) = {[ok |-> Parsed(b), rest |-> <<>>]}
  BY <1>3 DEF AsyncData
<1>8. CASE kind \in {"async", "session"}
  <2>1. Data(b) = ScanData(b) \/ Data(b) = AsyncData(b)
    BY <1>8 DEF Data, Coroutines
  <2>2. Data(b) # {} /\ \A o \in Data(b) : o.rest = <<>>
    <3> DEFINE u == m = "good"
               w == Parsed(b)
    <3>1. ScanData(b) = {[ok |-> u, rest |-> <<>>]} /\ AsyncData(b) = {[ok |-> w, rest |-> <<>>]}
      BY <1>6, <1>7
    <3> HIDE DEF u, w
    <3>2. ASSUME NEW v, Data(b) = {[ok |-> v, rest |-> <<>>]}
          PROVE  Data(b) # {} /\ \A o \in Data(b) : o.rest = <<>>
      BY <1>a, <3>2
    <3>3. Data(b) = {[ok |-> u, rest |-> <<>>]} \/ Data(b) = {[ok |-> w, rest |-> <<>>]}
      BY <2>1, <3>1
    <3> QED  BY <3>2, <3>3, Zenon
  <2> QED  BY <1>8, <2>2 DEF b
<1>9. CASE kind \in Streams
  <2>1. Data(b) = StreamData(b) \/ Data(b) = ZcData(b)
    BY <1>9 DEF Data, Streams
  <2>2. PICK A, R : /\ Data(b) = Streaming(b, A, R)
                    /\ A \in {ScanData(b), AsyncData(b)}
                    /\ R \subseteq {b, <<"end">>} /\ R # {}
    BY <1>5, <2>1 DEF StreamData, ZcData
  <2>3. m = "good" => Data(b) = {[ok |-> TRUE, rest |-> <<>>]}
    <3> SUFFICES ASSUME m = "good" PROVE Data(b) = {[ok |-> TRUE, rest |-> <<>>]}
      OBVIOUS
    <3>1. Parsed(b) = TRUE /\ (m = "good") = TRUE  BY <1>5 DEF Parsed
    <3>2. ScanData(b) = {[ok |-> TRUE, rest |-> <<>>]}  BY <1>6, <3>1
    <3>3. AsyncData(b) = {[ok |-> TRUE, rest |-> <<>>]}  BY <1>7, <3>1
    <3>4. Data(b) = A  BY <1>5, <2>2 DEF Streaming
    <3> QED  BY <2>2, <3>2, <3>3, <3>4
  <2>4. m = "bodyless" => Data(b) = {}
    BY <1>5, <2>2 DEF Streaming
  <2>5. m = "bad" => Data(b) = {[ok |-> FALSE, rest |-> r] : r \in R}
    BY <1>5, <2>2 DEF Streaming
  <2>6. CASE m = "good"
    <3>1. Data(b) # {} /\ \A o \in Data(b) : o.rest = <<>> /\ o.ok = TRUE
      BY <1>a, <2>3, <2>6, Zenon
    <3> QED  BY <2>6, <3>1, Zenon DEF b
  <2>7. CASE m = "bodyless"  BY <1>9, <2>4, <2>7 DEF b
  <2>8. CASE m = "bad"
    <3>1. \A o \in Data(b) : ~o.ok /\ o.rest \in {b, <<"end">>}
      <4> SUFFICES ASSUME NEW o \in Data(b) PROVE ~o.ok /\ o.rest \in {b, <<"end">>}
        OBVIOUS
      <4>1. PICK q \in R : o = [ok |-> FALSE, rest |-> q]  BY <2>5, <2>8
      <4> QED  BY <2>2, <4>1
    <3>2. Data(b) # {}  BY <2>2, <2>5, <2>8
    <3> QED  BY <1>9, <2>8, <3>1, <3>2 DEF b
  <2> QED  BY <1>1, <2>6, <2>7, <2>8
<1> QED  BY <1>8, <1>9 DEF ServerTypes, Coroutines, Streams, b
-----------------------------------------------------------------------------
(* The session. *)

\* The reply, or the rest of it, is sent: those in `out', then `next'.
Replies(s, reply, out, next) ==
  /\ server'.pc = "writing" /\ server'.out = out /\ server'.next = next
  /\ down' = Append(down, reply)
  /\ server'.open = s.open

SaysMore(s) ==
  /\ s.out # <<>>
  /\ Replies(s, Head(s.out), Tail(s.out), s.next)
  /\ server'.buf = s.buf /\ server'.refused = s.refused
  /\ server'.bad_command = s.bad_command

Ends(s) ==
  /\ s.out = <<>> /\ s.next = "close"
  /\ server'.pc = "ended" /\ ~server'.open /\ server'.bad_command = s.bad_command

ReadsOn(s) ==
  /\ s.out = <<>>
  /\ \/ s.next = "line" /\ s.buf = <<>>
     \/ s.next = "data" /\ Data(s.buf) = {}
  /\ server' = [s EXCEPT !.pc = "reading"] /\ down' = down

Answers(s) ==
  /\ s.out = <<>> /\ s.next = "line" /\ s.buf # <<>>
  /\ Replies(s, Head(s.buf), <<>>,
            CASE Head(s.buf) \in {"helo", "mail", "rcpt"} -> "line"
              [] Head(s.buf) = "data" -> "data"
              [] OTHER -> "close")
  /\ server'.buf = Tail(s.buf) /\ server'.refused = s.refused
  /\ server'.bad_command
       <=> s.bad_command \/ Head(s.buf) \notin {"helo", "mail", "rcpt", "data", "quit"}

Judges(s) ==
  /\ s.out = <<>> /\ s.next = "data"
  /\ \E o \in Data(s.buf) :
       /\ server'.buf = o.rest
       /\ server'.refused <=> s.refused \/ ~o.ok
       /\ IF o.ok \/ kind = "async" THEN Replies(s, "message", <<>>, "line")
          ELSE Replies(s, "message", <<"crlf">>, AfterRefusal)
  /\ server'.bad_command = s.bad_command

GoesOn(s) ==
  /\ SaysMore(s) \/ Ends(s) \/ ReadsOn(s) \/ Answers(s) \/ Judges(s)
  /\ UNCHANGED <<kind, link>>

\* That is what a session does.
LEMMA Continues ==
  ASSUME ServerTypes, NEW s \in SessionRecord, NEW r \in Continued(s), Goes(r)
  PROVE  /\ GoesOn(s)
         /\ server' \in SessionRecord /\ down' \in Seq(Words)
<1> USE DEF ServerTypes
<1>w. "message" \in Words /\ "crlf" \in Words  BY DEF Words
<1>1. /\ UNCHANGED <<kind, link>> /\ server' = r.session /\ down' = down \o r.sent
  BY DEF Goes
<1>2. /\ s.out \in Seq(Words) /\ s.buf \in Seq(Words) /\ s.next \in {"line", "data", "close"}
  BY DEF SessionRecord
<1>3. ASSUME NEW t \in SessionRecord, NEW q \in Seq(Words), q # <<>>,
             NEW n \in {"line", "data", "close"}, r = Writing(t, q, n)
      PROVE  /\ server' \in SessionRecord /\ down' \in Seq(Words)
             /\ server'.pc = "writing" /\ server'.out = Tail(q) /\ server'.next = n
             /\ down' = Append(down, Head(q)) /\ server'.open = t.open
             /\ server'.buf = t.buf /\ server'.refused = t.refused
             /\ server'.bad_command = t.bad_command
  <2>1. Tail(q) \in Seq(Words) /\ Head(q) \in Words  BY <1>3, HeadTailProperties
  <2>2. server' = [t EXCEPT !.pc = "writing", !.next = n, !.out = Tail(q)]
    BY <1>1, <1>3 DEF Writing
  <2>3. down' = down \o <<Head(q)>>  BY <1>1, <1>3 DEF Writing
  <2>4. down' = Append(down, Head(q)) /\ down' \in Seq(Words)
    BY <2>1, <2>3, AppendIsConcat, AppendProperties
  <2> QED  BY <2>1, <2>2, <2>4 DEF SessionRecord, Places
<1>4. ASSUME r = Reading(s)
      PROVE  server' = [s EXCEPT !.pc = "reading"] /\ down' = down
  <2>1. down' = down \o <<>>  BY <1>1, <1>4 DEF Reading
  <2> QED  BY <1>1, <1>4, <2>1, ConcatEmptySeq DEF Reading
<1>5. CASE s.out # <<>>
  <2>1. r = Writing(s, s.out, s.next)  BY <1>5 DEF Continued
  <2>2. SaysMore(s) /\ server' \in SessionRecord /\ down' \in Seq(Words)
    BY <1>2, <1>3, <1>5, <2>1 DEF SaysMore, Replies
  <2> QED  BY <1>1, <2>2 DEF GoesOn
<1>6. CASE s.out = <<>> /\ s.next = "close"
  <2>1. r = Ended(s)  BY <1>6 DEF Continued
  <2>2. server' = [s EXCEPT !.pc = "ended", !.open = FALSE] /\ down' = down \o <<>>
    BY <1>1, <2>1 DEF Ended
  <2>3. Ends(s) /\ server' \in SessionRecord
    BY <1>6, <2>2 DEF Ends, SessionRecord, Places
  <2> QED  BY <1>1, <2>2, <2>3, ConcatEmptySeq DEF GoesOn
<1>7. CASE s.out = <<>> /\ s.next = "line" /\ s.buf = <<>>
  <2>1. r = Reading(s)  BY <1>7 DEF Continued
  <2>2. ReadsOn(s) /\ server' \in SessionRecord
    BY <1>4, <1>7, <2>1 DEF ReadsOn, SessionRecord, Places
  <2> QED  BY <1>1, <1>4, <2>1, <2>2 DEF GoesOn
<1>8. CASE s.out = <<>> /\ s.next = "line" /\ s.buf # <<>>
  <2> DEFINE t == [s EXCEPT !.buf = Tail(@)]
             line == Head(s.buf)
  <2>1. r = Answer(t, line)  BY <1>8 DEF Continued
  <2>2. Tail(s.buf) \in Seq(Words) /\ line \in Words  BY <1>2, <1>8, HeadTailProperties
  <2>3. /\ t \in SessionRecord /\ t.buf = Tail(s.buf) /\ t.open = s.open
        /\ t.refused = s.refused /\ t.bad_command = s.bad_command
    BY <2>2 DEF SessionRecord
  <2>4. /\ <<line>> \in Seq(Words) /\ <<line>> # <<>> /\ Head(<<line>>) = line
        /\ Tail(<<line>>) = <<>>
    BY <2>2, Short
  <2> DEFINE u == [t EXCEPT !.bad_command = TRUE]
  <2>5. /\ u \in SessionRecord /\ u.buf = t.buf /\ u.open = t.open /\ u.refused = t.refused
        /\ u.bad_command = TRUE
    BY <2>3 DEF SessionRecord
  <2> HIDE DEF t, u, line
  <2>6. CASE line \in {"helo", "mail", "rcpt"}
    <3>1. r = Writing(t, <<line>>, "line")  BY <2>1, <2>6 DEF Answer
    <3>2. Answers(s) /\ server' \in SessionRecord /\ down' \in Seq(Words)
      BY <1>3, <1>8, <2>3, <2>4, <2>6, <3>1 DEF Answers, Replies, line
    <3> QED  BY <1>1, <3>2 DEF GoesOn
  <2>7. CASE line = "data"
    <3>1. r = Writing(t, <<line>>, "data")  BY <2>1, <2>7 DEF Answer
    <3>2. Answers(s) /\ server' \in SessionRecord /\ down' \in Seq(Words)
      BY <1>3, <1>8, <2>3, <2>4, <2>7, <3>1 DEF Answers, Replies, line
    <3> QED  BY <1>1, <3>2 DEF GoesOn
  <2>8. CASE line = "quit"
    <3>1. r = Writing(t, <<line>>, "close")  BY <2>1, <2>8 DEF Answer
    <3>2. Answers(s) /\ server' \in SessionRecord /\ down' \in Seq(Words)
      BY <1>3, <1>8, <2>3, <2>4, <2>8, <3>1 DEF Answers, Replies, line
    <3> QED  BY <1>1, <3>2 DEF GoesOn
  <2>9. CASE line \notin {"helo", "mail", "rcpt", "data", "quit"}
    <3>1. r = Writing(u, <<line>>, "close")  BY <2>1, <2>9 DEF Answer, u
    <3>2. Answers(s) /\ server' \in SessionRecord /\ down' \in Seq(Words)
      BY <1>3, <1>8, <2>3, <2>4, <2>5, <2>9, <3>1, ZenonT(60) DEF Answers, Replies, line
    <3> QED  BY <1>1, <3>2 DEF GoesOn
  <2> QED  BY <2>6, <2>7, <2>8, <2>9
<1>9. CASE s.out = <<>> /\ s.next = "data" /\ Data(s.buf) = {}
  <2>1. r = Reading(s)  BY <1>9 DEF Continued
  <2>2. ReadsOn(s) /\ server' \in SessionRecord
    BY <1>4, <1>9, <2>1 DEF ReadsOn, SessionRecord, Places
  <2> QED  BY <1>1, <1>4, <2>1, <2>2 DEF GoesOn
<1>10. CASE s.out = <<>> /\ s.next = "data" /\ Data(s.buf) # {}
  <2>1. PICK o \in Data(s.buf) : r = Verdict(s, o)  BY <1>10 DEF Continued
  <2>2. o.ok \in BOOLEAN /\ o.rest \in Seq(Words)  BY <1>2, DataTyped
  <2> DEFINE t == [s EXCEPT !.buf = o.rest, !.refused = @ \/ ~o.ok]
  <2>3. /\ t \in SessionRecord /\ t.buf = o.rest /\ t.open = s.open
        /\ t.refused = (s.refused \/ ~o.ok) /\ t.bad_command = s.bad_command
    BY <2>2 DEF SessionRecord
  <2>4. r = IF o.ok THEN Writing(t, <<"message">>, "line")
            ELSE Writing(t, Refusal, AfterRefusal)
    BY <2>1 DEF Verdict
  <2> HIDE DEF t
  <2>5. /\ <<"message">> \in Seq(Words) /\ <<"message">> # <<>>
        /\ Head(<<"message">>) = "message" /\ Tail(<<"message">>) = <<>>
        /\ <<"message", "crlf">> \in Seq(Words) /\ <<"message", "crlf">> # <<>>
        /\ Head(<<"message", "crlf">>) = "message"
        /\ Tail(<<"message", "crlf">>) = <<"crlf">>
    BY <1>w, Short
  <2>6. CASE o.ok
    <3>1. r = Writing(t, <<"message">>, "line")  BY <2>4, <2>6
    <3>2. Judges(s) /\ server' \in SessionRecord /\ down' \in Seq(Words)
      BY <1>3, <1>10, <2>3, <2>5, <2>6, <3>1, ZenonT(60) DEF Judges, Replies
    <3> QED  BY <1>1, <3>2 DEF GoesOn
  <2>7. CASE ~o.ok /\ kind = "async"
    <3>1. r = Writing(t, <<"message">>, "line")
      BY <2>4, <2>7 DEF Refusal, AfterRefusal
    <3>2. Judges(s) /\ server' \in SessionRecord /\ down' \in Seq(Words)
      BY <1>3, <1>10, <2>3, <2>5, <2>7, <3>1, ZenonT(60) DEF Judges, Replies
    <3> QED  BY <1>1, <3>2 DEF GoesOn
  <2>8. CASE ~o.ok /\ kind # "async"
    <3>1. r = Writing(t, <<"message", "crlf">>, AfterRefusal)
      BY <2>4, <2>8 DEF Refusal
    <3>2. Judges(s) /\ server' \in SessionRecord /\ down' \in Seq(Words)
      BY <1>3, <1>10, <2>3, <2>5, <2>8, <3>1, ZenonT(60) DEF Judges, Replies, AfterRefusal
    <3> QED  BY <1>1, <3>2 DEF GoesOn
  <2> QED  BY <2>2, <2>6, <2>7, <2>8
<1> QED  BY <1>2, <1>5, <1>6, <1>7, <1>8, <1>9, <1>10

\* It leaves the session as it must be left while it waits, and a watchdog that
\* need not watch any more without the timer.
LEMMA SessionGoesOn ==
  ASSUME ServerTypes, SessionInv, NEW s \in SessionRecord, NEW r \in Continued(s), Goes(r)
  PROVE  SessionInv' /\ watchdog' \in [wait : Waits, due : BOOLEAN]
<1>1. GoesOn(s) /\ server' \in SessionRecord  BY Continues
<1>2. /\ kind' = kind
      /\ watchdog' = IF kind \notin Coroutines         THEN watchdog
                     ELSE IF server'.pc = "reading" THEN Armed(watchdog)
                     ELSE IF server'.pc = "ended"   THEN EndWatch(watchdog)
                     ELSE watchdog
  BY DEF Goes
<1>3. server'.pc = "reading" =>
        /\ server'.out = <<>> /\ server'.next # "close"
        /\ server'.next = "line" => server'.buf = <<>>
        /\ server'.next = "data" => Data(server'.buf) = {}
  <2>1. ~ReadsOn(s) => server'.pc # "reading"
    BY <1>1 DEF GoesOn, SaysMore, Ends, Answers, Judges, Replies
  <2>2. ReadsOn(s) => /\ server'.out = <<>> /\ server'.next # "close"
                      /\ server'.next = "line" => server'.buf = <<>>
                      /\ server'.next = "data" => Data(server'.buf) = {}
    BY DEF ReadsOn, SessionRecord
  <2> QED  BY <2>1, <2>2
<1>4. server'.pc = "ended" => ~server'.open
  BY <1>1 DEF GoesOn, SaysMore, Ends, ReadsOn, Answers, Judges, Replies, SessionRecord, Places
<1>5. /\ watchdog' \in [wait : Waits, due : BOOLEAN]
      /\ server'.pc = "ended" => watchdog'.wait # "waiting"
      /\ kind' \notin Coroutines => watchdog'.wait = "ended"
  <2>1. watchdog \in [wait : Waits, due : BOOLEAN]  BY DEF ServerTypes
  <2>2. /\ Armed(watchdog) \in [wait : Waits, due : BOOLEAN]
        /\ EndWatch(watchdog) \in [wait : Waits, due : BOOLEAN]
        /\ EndWatch(watchdog).wait # "waiting"
    BY <2>1 DEF Armed, EndWatch, Cancelled, Waits
  <2>3. kind \notin Coroutines => watchdog.wait = "ended"  BY DEF SessionInv
  <2> QED  BY <1>2, <2>1, <2>2, <2>3
<1>6. Data(server.buf)' = Data(server'.buf)  BY <1>2 DEF Data, StreamData, ZcData
<1> QED  BY <1>3, <1>4, <1>5, <1>6 DEF SessionInv

\* A session that takes the first n tokens on their way has them in its buffer.
Took(n) == [server EXCEPT !.buf = @ \o SubSeq(up, 1, n)]

\* Nothing else of it changes, and the rest stays on its way.
LEMMA TookFacts ==
  ASSUME ServerTypes, NEW n \in 1 .. Len(up)
  PROVE  /\ Took(n) \in SessionRecord
         /\ Took(n).buf = server.buf \o SubSeq(up, 1, n)
         /\ Took(n).pc = server.pc /\ Took(n).next = server.next /\ Took(n).out = server.out
         /\ Took(n).open = server.open /\ Took(n).refused = server.refused
         /\ Took(n).bad_command = server.bad_command
         /\ SubSeq(up, n + 1, Len(up)) \in Seq(Words)
<1>1. up \in Seq(Words) /\ server \in SessionRecord  BY DEF ServerTypes
<1>2. SubSeq(up, 1, n) \in Seq(Words) /\ SubSeq(up, n + 1, Len(up)) \in Seq(Words)  BY <1>1
<1>3. server.buf \in Seq(Words)  BY <1>1 DEF SessionRecord
<1>4. server.buf \o SubSeq(up, 1, n) \in Seq(Words)  BY <1>2, <1>3, ConcatProperties
<1> QED  BY <1>1, <1>2, <1>4 DEF Took, SessionRecord

\* The steps of the session and of its watchdog.
LEMMA SessionStep ==
  ASSUME ServerTypes, SessionInv, Session \/ Watch \/ Expire
  PROVE  ServerTypes' /\ SessionInv'
<1>1. CASE Written
  <2>1. PICK r \in Continued(server) : Goes(r)  BY <1>1 DEF Written
  <2>2. server \in SessionRecord  BY DEF ServerTypes
  <2>3. SessionInv' /\ watchdog' \in [wait : Waits, due : BOOLEAN]
    BY <2>1, <2>2, SessionGoesOn
  <2>4. /\ GoesOn(server) /\ server' \in SessionRecord /\ down' \in Seq(Words)
    BY <2>1, <2>2, Continues
  <2> QED  BY <1>1, <2>3, <2>4 DEF ServerTypes, GoesOn, Written
<1>2. CASE ReadSome
  <2>1. PICK n \in 1 .. Len(up) :
          /\ \E r \in Continued(Took(n)) : Goes(r)
          /\ up' = SubSeq(up, n + 1, Len(up))
    BY <1>2 DEF ReadSome, Took
  <2>2. PICK r \in Continued(Took(n)) : Goes(r)  BY <2>1
  <2>3. Took(n) \in SessionRecord /\ up' \in Seq(Words)  BY <2>1, TookFacts
  <2>4. SessionInv' /\ watchdog' \in [wait : Waits, due : BOOLEAN]
    BY <2>2, <2>3, SessionGoesOn
  <2>5. /\ GoesOn(Took(n)) /\ server' \in SessionRecord /\ down' \in Seq(Words)
    BY <2>2, <2>3, Continues
  <2> QED  BY <2>3, <2>4, <2>5 DEF ServerTypes, GoesOn
<1>3. CASE Hangup
  <2>1. /\ server' = [server EXCEPT !.pc = "ended", !.open = FALSE]
        /\ down' = down \o <<>>
        /\ watchdog' = IF kind \notin Coroutines THEN watchdog ELSE EndWatch(watchdog)
        /\ UNCHANGED <<kind, link, up>>
    <3>1. Goes(Ended(server)) /\ up' = up  BY <1>3 DEF Hangup
    <3>2. Ended(server).session = [server EXCEPT !.pc = "ended", !.open = FALSE]
      BY DEF Ended
    <3>3. Ended(server).session.pc = "ended"  BY <3>2 DEF ServerTypes, SessionRecord
    <3> QED  BY <3>1, <3>2, <3>3 DEF Goes, Ended
  <2>2. /\ server' \in SessionRecord /\ server'.pc = "ended" /\ ~server'.open
    BY <2>1 DEF ServerTypes, SessionRecord, Places
  <2>3. /\ watchdog' \in [wait : Waits, due : BOOLEAN]
        /\ watchdog'.wait # "waiting"
        /\ kind' \notin Coroutines => watchdog'.wait = "ended"
    BY <2>1 DEF ServerTypes, SessionInv, EndWatch, Cancelled, Waits
  <2>4. down' \in Seq(Words)  BY <2>1, ConcatEmptySeq DEF ServerTypes
  <2> QED  BY <2>1, <2>2, <2>3, <2>4 DEF ServerTypes, SessionInv
<1>4. CASE Watch
  <2>1. /\ server' = server \/ server' = [server EXCEPT !.open = FALSE]
        /\ UNCHANGED <<kind, up, down, link>>
        /\ watchdog.wait # "ended"
        /\ watchdog' \in [wait : Waits, due : BOOLEAN]
        /\ ~server'.open => watchdog'.wait = "ended"
    BY <1>4 DEF Watch, Closed, ServerTypes, Waits
  <2>2. /\ server' \in SessionRecord /\ server'.pc = server.pc /\ server'.next = server.next
        /\ server'.out = server.out /\ server'.buf = server.buf
        /\ server'.open => server.open
    BY <2>1 DEF ServerTypes, SessionRecord
  <2>3. Data(server.buf)' = Data(server.buf)
    BY <2>1, <2>2 DEF Data, StreamData, ZcData
  <2> QED  BY <2>1, <2>2, <2>3 DEF ServerTypes, SessionInv
<1>5. CASE Expire
  <2>1. /\ UNCHANGED <<kind, server, up, down, link>>
        /\ watchdog.wait # "ended"
        /\ watchdog' \in [wait : Waits, due : BOOLEAN]
        /\ watchdog'.wait # "waiting"
    BY <1>5 DEF Expire, ServerTypes, Waits
  <2>2. Data(server.buf)' = Data(server.buf)
    BY <2>1 DEF Data, StreamData, ZcData
  <2> QED  BY <2>1, <2>2 DEF ServerTypes, SessionInv
<1> QED  BY <1>1, <1>2, <1>3, <1>4, <1>5 DEF Session
-----------------------------------------------------------------------------
(* The client. *)

\* The commands, and the states that send them.
LEMMA Commands ==
  /\ DOMAIN C!Command = Asks
  /\ C!Command["Handshake"] = "helo" /\ C!Command["MailFrom"] = "mail"
  /\ C!Command["RcptTo"] = "rcpt" /\ C!Command["Data"] = "data"
  /\ C!Command["Quit"] = "quit"
  /\ \A s \in Asks : C!Command[s] \in {"helo", "mail", "rcpt", "data", "quit"}
  BY DEF C!Command, Asks

\* What a client that has ended its operation may go on to, from w to y: it asks
\* with the command of state s, begins a message, or closes its socket.
NowAsks(w, y, s) ==
  /\ y.state = s /\ s \in Asks /\ y.pending = {"write"} /\ ~y.sample
  /\ y.socket = w.socket /\ y.request = Append(w.request, C!Command[s])

NowSends(w, y) ==
  /\ y.state = "DataSend" /\ y.pending = {"message"} /\ y.sample
  /\ y.socket = w.socket /\ y.request = w.request

NowCloses(w, y) ==
  /\ \/ y.state = "Connect" /\ y.pending = {"connect"}
     \/ y.state = "Destroy" /\ y.pending = {}
  /\ y.socket = "closed" /\ y.request = w.request /\ ~y.sample

After(s) == CASE s = "WaitHelo"  -> {"Handshake"}
              [] s = "Handshake" -> {"MailFrom"}
              [] s = "MailFrom"  -> {"RcptTo"}
              [] s = "RcptTo"    -> {"Data"}
              [] s = "DataSend"  -> {"MailFrom", "Quit"}
              [] OTHER           -> {}

\* A client that has no operation pending goes on to ask, or closes its socket.
LEMMA AskFacts ==
  ASSUME NEW w \in ClientRecord, w.pending = {}, ~w.sample, NEW s \in Asks
  PROVE  C!Ask(w, s) \in ClientRecord /\ NowAsks(w, C!Ask(w, s), s)
<1>1. C!Command[s] \in Words  BY Commands DEF Words
<1>2. Append(w.request, C!Command[s]) \in Seq(Words)
  BY <1>1, AppendProperties DEF ClientRecord
<1>3. s \in C!States /\ {"write"} \in SUBSET C!Operations
  BY DEF Asks, C!States, C!MessageSend, C!Operations
<1>4. C!Ask(w, s) = [w EXCEPT !.state = s, !.request = Append(w.request, C!Command[s]),
                              !.pending = {"write"}]
  BY DEF C!Ask, C!Begin, ClientRecord
<1> QED  BY <1>2, <1>3, <1>4 DEF ClientRecord, NowAsks

\* Close is left for the next connection or for the end of the client.
LEMMA CloseFacts ==
  ASSUME NEW w \in ClientRecord, w.pending = {}, ~w.sample
  PROVE  C!EnterClose(w) \in ClientRecord /\ NowCloses(w, C!EnterClose(w))
<1> DEFINE v == [w EXCEPT !.socket = "closed"]
<1>1. \/ C!EnterClose(w) = C!EnterConnect(v)
      \/ C!EnterClose(w) = [v EXCEPT !.state = "Destroy"]
  BY DEF C!EnterClose
<1>2. /\ v \in ClientRecord /\ v.socket = "closed" /\ v.request = w.request
      /\ v.pending = {} /\ ~v.sample
  BY DEF ClientRecord
<1> HIDE DEF v
<1>3. C!EnterConnect(v) = [v EXCEPT !.state = "Connect", !.tries = 0, !.pending = {"connect"}]
  BY <1>2 DEF C!EnterConnect, C!Begin, ClientRecord
<1>4. "Connect" \in C!States /\ "Destroy" \in C!States /\ {"connect"} \in SUBSET C!Operations
  BY DEF C!States, C!Operations
<1>5. CASE C!EnterClose(w) = C!EnterConnect(v)
  <2> DEFINE u == C!EnterClose(w)
  <2>1. u = [v EXCEPT !.state = "Connect", !.tries = 0, !.pending = {"connect"}]
    BY <1>3, <1>5
  <2> HIDE DEF u
  <2>2. u \in ClientRecord  BY <1>2, <1>4, <2>1 DEF ClientRecord
  <2>3. NowCloses(w, u)  BY <1>2, <2>1 DEF ClientRecord, NowCloses
  <2> QED  BY <2>2, <2>3 DEF u
<1>6. CASE C!EnterClose(w) = [v EXCEPT !.state = "Destroy"]
  BY <1>2, <1>4, <1>6 DEF ClientRecord, NowCloses
<1> QED  BY <1>1, <1>5, <1>6

\* A reply that is ready.
LEMMA ReadyFacts ==
  ASSUME NEW w \in ClientRecord, w.pending = {}, w.sample <=> w.state = "DataSend",
         w.state \in Asks \cup {"WaitHelo", "DataSend"}
  PROVE  /\ C!Ready(w) \in ClientRecord
         /\ CASE w.state = "Data" -> NowSends(w, C!Ready(w))
              [] w.state = "Quit" -> NowCloses(w, C!Ready(w))
              [] OTHER -> \E s \in After(w.state) : NowAsks(w, C!Ready(w), s)
<1>1. CASE w.state \in {"WaitHelo", "Handshake", "MailFrom", "RcptTo"}
  <2>1. PICK s \in Asks : C!Ready(w) = C!Ask(w, s) /\ s \in After(w.state)
    BY <1>1 DEF C!Ready, C!Following, After, Asks
  <2> QED  BY <1>1, <2>1, AskFacts
<1>2. CASE w.state = "Data"
  <2>1. C!Ready(w) = [w EXCEPT !.state = "DataSend", !.sample = TRUE, !.pending = {"message"}]
    BY <1>2 DEF C!Ready, C!Following, C!EnterDataSend, C!Begin, ClientRecord
  <2>2. "DataSend" \in C!States /\ {"message"} \in SUBSET C!Operations
    BY DEF C!States, C!MessageSend, C!Operations
  <2> QED  BY <1>2, <2>1, <2>2 DEF ClientRecord, NowSends
<1>3. CASE w.state = "DataSend"
  <2> DEFINE v == C!Leave(w)
             u == C!AdjustSent(v)
  <2>1. /\ v \in ClientRecord /\ ~v.sample /\ v.pending = {} /\ v.request = w.request
        /\ v.socket = w.socket
    BY DEF C!Leave, ClientRecord
  <2>2. /\ u \in ClientRecord /\ ~u.sample /\ u.pending = {} /\ u.request = w.request
        /\ u.socket = w.socket
    <3>1. u = [v EXCEPT !.sent_in_session = @ + 1, !.sent_total = @ + 1]
      BY DEF C!AdjustSent
    <3> HIDE DEF u, v
    <3>2. v.sent_in_session + 1 \in Nat /\ v.sent_total + 1 \in Nat
      BY <2>1 DEF ClientRecord
    <3> QED  BY <2>1, <3>1, <3>2 DEF ClientRecord
  <2>3. C!Ready(w) = C!Ask(u, "MailFrom") \/ C!Ready(w) = C!Ask(v, "Quit")
    BY <1>3 DEF C!Ready, C!Following
  <2> HIDE DEF u, v
  <2>4. "MailFrom" \in Asks /\ "Quit" \in Asks /\ After(w.state) = {"MailFrom", "Quit"}
    BY <1>3 DEF Asks, After
  <2>5. /\ C!Ready(w) \in ClientRecord
        /\ NowAsks(u, C!Ready(w), "MailFrom") \/ NowAsks(v, C!Ready(w), "Quit")
    BY <2>1, <2>2, <2>3, <2>4, AskFacts
  <2> QED  BY <1>3, <2>1, <2>2, <2>4, <2>5 DEF NowAsks
<1>4. CASE w.state = "Quit"
  <2>1. C!Ready(w) = C!EnterClose(w)  BY <1>4 DEF C!Ready, C!Following
  <2> QED  BY <1>4, <2>1, CloseFacts
<1> QED  BY <1>1, <1>2, <1>3, <1>4 DEF Asks

\* An error in a session, or before its greeting.
LEMMA ErrorFacts ==
  ASSUME NEW w \in ClientRecord, w.pending = {}, w.sample <=> w.state = "DataSend",
         w.state \in Asks \cup {"WaitHelo", "DataSend"}
  PROVE  /\ C!Error(w) \in ClientRecord
         /\ CASE w.state = "WaitHelo" -> C!Error(w) = [w EXCEPT !.state = "Destroy"]
              [] w.state = "Quit"     -> NowCloses(w, C!Error(w))
              [] OTHER                -> NowAsks(w, C!Error(w), "Quit")
<1>1. CASE w.state = "WaitHelo"
  <2>1. "Destroy" \in C!States  BY DEF C!States
  <2> QED  BY <1>1, <2>1 DEF C!Error, C!MessageSend, ClientRecord
<1>2. CASE w.state = "Quit"
  <2>1. C!Error(w) = C!EnterClose(w)  BY <1>2 DEF C!Error, C!MessageSend
  <2> QED  BY <1>2, <2>1, CloseFacts
<1>3. CASE w.state \notin {"WaitHelo", "Quit"}
  <2> DEFINE v == C!Leave(w)
  <2>1. /\ v \in ClientRecord /\ ~v.sample /\ v.pending = {} /\ v.request = w.request
        /\ v.socket = w.socket
    BY DEF C!Leave, ClientRecord
  <2>2. C!Error(w) = C!Ask(v, "Quit")
    BY <1>3 DEF C!Error, C!MessageSend, Asks
  <2>3. "Quit" \in Asks  BY DEF Asks
  <2> HIDE DEF v
  <2>4. C!Error(w) \in ClientRecord /\ NowAsks(v, C!Error(w), "Quit")
    BY <2>1, <2>2, <2>3, AskFacts
  <2> QED  BY <1>3, <2>1, <2>4 DEF NowAsks
<1> QED  BY <1>1, <1>2, <1>3

\* What a failed write leaves is a sequence of commands and of rests of them.
LEMMA RemainsTyped ==
  ASSUME NEW s \in Seq(Words), NEW r \in C!Remains(s)
  PROVE  r \in Seq(Words)
<1>1. PICK i \in 1 .. Len(s) :
        r = SubSeq(s, i, Len(s)) \/ r = <<"rest">> \o Tail(SubSeq(s, i, Len(s)))
  BY DEF C!Remains
<1> DEFINE t == SubSeq(s, i, Len(s))
<1>2. t \in Seq(Words) /\ t # <<>>
  <2>1. t \in Seq(Words) /\ Len(t) = Len(s) - i + 1  OBVIOUS
  <2>2. Len(<<>>) = 0  OBVIOUS
  <2> HIDE DEF t
  <2> QED  BY <2>1, <2>2
<1> HIDE DEF t
<1>3. Tail(t) \in Seq(Words)  BY <1>2, HeadTailProperties
<1>4. <<"rest">> \in Seq(Words)
  <2>1. "rest" \in Words  BY DEF Words
  <2> QED  BY <2>1, Short
<1> QED  BY <1>1, <1>2, <1>3, <1>4, ConcatProperties DEF t

\* The client whose operation has just ended had no other.
LEMMA EndedFacts ==
  ASSUME ClientTypes, ClientInv, NEW op \in x.pending
  PROVE  LET w == C!Ended(Client, op)
         IN  /\ x \in ClientRecord /\ Waiting(op)
             /\ w \in ClientRecord /\ w.pending = {}
             /\ w.state = x.state /\ w.socket = x.socket /\ w.request = x.request
             /\ w.sample = x.sample /\ (w.sample <=> w.state = "DataSend")
             /\ ~count[Client].cut =>
                  w.request = IF op = "write" THEN <<C!Command[x.state]>> ELSE <<>>
<1> DEFINE w == C!Ended(Client, op)
<1>1. x \in ClientRecord  BY DEF ClientTypes, x
<1>2. Waiting(op)  BY DEF ClientInv, Waiting
<1>3. w = [x EXCEPT !.pending = {}]
  BY <1>2 DEF C!Ended, Waiting, x
<1>4. /\ w \in ClientRecord /\ w.pending = {} /\ w.state = x.state /\ w.socket = x.socket
      /\ w.request = x.request /\ w.sample = x.sample
  <2> HIDE DEF w
  <2> QED  BY <1>1, <1>3 DEF ClientRecord
<1>5. w.sample <=> w.state = "DataSend"  BY <1>4 DEF ClientInv
<1>6. ~count[Client].cut =>
        w.request = IF op = "write" THEN <<C!Command[x.state]>> ELSE <<>>
  <2>1. Waiting("write") <=> op = "write"  BY <1>2 DEF Waiting
  <2> QED  BY <1>4, <2>1 DEF ClientInv
<1> QED  BY <1>1, <1>2, <1>4, <1>5, <1>6

\* What a handler changes.
LEMMA HandleFacts ==
  ASSUME ClientTypes, NEW y \in ClientRecord, NEW cut \in BOOLEAN, Handles(y, cut)
  PROVE  /\ ClientTypes' /\ x' = y
         /\ count'[Client].cut <=> count[Client].cut \/ cut
         /\ aborted' <=> y.state = "Destroy"
         /\ IF y.sample /\ ~x.sample
            THEN \E m \in Messages : unsent' = <<m, "end">>
            ELSE unsent' = IF y.state = "DataSend" THEN unsent ELSE <<>>
<1>1. C!Handle(Client, y, cut)  BY DEF Handles
<1>2. client' = [client EXCEPT ![Client] = y]  BY <1>1 DEF C!Handle
<1>3. client' \in [{Client} -> ClientRecord] /\ x' = y
  BY <1>2 DEF ClientTypes, x
<1>4. count' \in [{Client} -> CountRecord] /\ (count'[Client].cut <=> count[Client].cut \/ cut)
  <2> DEFINE n == count[Client]
             o == client[Client]
             m == [sessions   |-> IF o.socket = "closed" /\ y.socket = "open"
                                  THEN n.sessions + 1 ELSE n.sessions,
                   begun      |-> IF y.sample /\ ~o.sample THEN n.begun + 1 ELSE n.begun,
                   in_session |-> IF o.socket = "closed" /\ y.socket = "open" THEN 0
                                  ELSE IF y.sample /\ ~o.sample THEN n.in_session + 1
                                  ELSE n.in_session,
                   logged     |-> IF o.sample /\ ~y.sample THEN n.logged + 1 ELSE n.logged,
                   cut        |-> n.cut \/ cut]
  <2>1. count' = [count EXCEPT ![Client] = m]  BY <1>1 DEF C!Handle
  <2>2. n \in CountRecord  BY DEF ClientTypes
  <2> HIDE DEF n, o
  <2>3. m \in CountRecord /\ (m.cut <=> n.cut \/ cut)  BY <2>2 DEF CountRecord
  <2> HIDE DEF m
  <2> QED  BY <2>1, <2>3 DEF ClientTypes, n
<1>5. aborted' = (y.state = "Destroy")  BY <1>1 DEF C!Handle
<1>6. IF y.sample /\ ~x.sample
      THEN \E m \in Messages : unsent' = <<m, "end">>
      ELSE unsent' = IF y.state = "DataSend" THEN unsent ELSE <<>>
  BY DEF Handles
<1>7. unsent' \in Seq(Words)
  <2>1. \A m \in Messages : m \in Words  BY SystemAssumption DEF Words
  <2>2. "end" \in Words  BY DEF Words
  <2>3. \A m \in Messages : <<m, "end">> \in Seq(Words)  BY <2>1, <2>2, Short
  <2>4. <<>> \in Seq(Words) /\ unsent \in Seq(Words)  BY DEF ClientTypes
  <2> QED  BY <1>6, <2>3, <2>4
<1>8. breaks' \in Nat  BY DEF Handles, ClientTypes
<1>9. aborted' \in BOOLEAN  BY <1>5, Zenon
<1> QED  BY <1>3, <1>4, <1>5, <1>6, <1>7, <1>8, <1>9 DEF ClientTypes

\* A handler that goes on with the session, or ends it, keeps the invariant.
LEMMA GoesOnInv ==
  ASSUME ClientTypes, ClientInv, NEW w \in ClientRecord, NEW y \in ClientRecord,
         NEW cut \in BOOLEAN, Handles(y, cut), Keeps(y),
         x.state \in Asks \cup {"WaitHelo", "DataSend"}, w.socket = x.socket,
         ~(count[Client].cut \/ cut) => w.request = <<>>,
         \/ \E s \in Asks : NowAsks(w, y, s)
         \/ NowSends(w, y) \/ NowCloses(w, y)
         \/ x.state = "WaitHelo" /\ y = [w EXCEPT !.state = "Destroy"] /\ w.pending = {}
              /\ ~w.sample
  PROVE  ClientTypes' /\ ClientInv'
<1>1. /\ ClientTypes' /\ x' = y
      /\ count'[Client].cut <=> count[Client].cut \/ cut
      /\ aborted' <=> y.state = "Destroy"
      /\ IF y.sample /\ ~x.sample THEN TRUE
         ELSE unsent' = IF y.state = "DataSend" THEN unsent ELSE <<>>
  BY HandleFacts
<1>2. x.socket = "open" /\ link # "gone" /\ link' = IF y.socket = "closed" \/ aborted' THEN "gone" ELSE link
  BY DEF ClientInv, Asks, Keeps
<1>3. CASE \E s \in Asks : NowAsks(w, y, s)
  <2>1. PICK s \in Asks : NowAsks(w, y, s)  BY <1>3
  <2>2. /\ y.state = s /\ y.pending = {"write"} /\ ~y.sample /\ y.socket = "open"
        /\ unsent' = <<>> /\ link' # "gone"
    BY <1>1, <1>2, <2>1 DEF NowAsks, Asks
  <2>3. ~count'[Client].cut => y.request = <<C!Command[s]>>
    <3>1. C!Command[s] \in Words  BY Commands DEF Words
    <3>2. Append(<<>>, C!Command[s]) = <<C!Command[s]>>  BY <3>1, Joining
    <3> QED  BY <1>1, <2>1, <3>2 DEF NowAsks
  <2> QED  BY <1>1, <2>1, <2>2, <2>3 DEF ClientInv, Waiting, Asks
<1>4. CASE NowSends(w, y)
  <2>1. link' # "gone"  BY <1>1, <1>2, <1>4 DEF NowSends
  <2> QED  BY <1>1, <1>2, <1>4, <2>1 DEF NowSends, ClientInv, Waiting, Asks
<1>5. CASE NowCloses(w, y)
  BY <1>1, <1>2, <1>5 DEF NowCloses, ClientInv, Waiting, Asks
<1>6. CASE /\ x.state = "WaitHelo" /\ y = [w EXCEPT !.state = "Destroy"] /\ w.pending = {}
           /\ ~w.sample
  <2>1. /\ y.state = "Destroy" /\ y.pending = {} /\ ~y.sample /\ y.request = w.request
    BY <1>6 DEF ClientRecord
  <2> QED  BY <1>1, <1>2, <1>6, <2>1 DEF ClientInv, Waiting, Asks
<1> QED  BY <1>3, <1>4, <1>5, <1>6

InSession == x.state \in Asks \cup {"WaitHelo", "DataSend"}

Types == ServerTypes /\ ClientTypes

\* The server sees nothing of these steps, and the connection does not come up.
Unseen ==
  /\ UNCHANGED <<kind, server, watchdog>>
  /\ link' = "up" => link = "up"
  /\ count[Client].cut => count'[Client].cut

\* The write of a request ends.
LEMMA WriteEffect ==
  ASSUME Types, ClientInv, ClientWrites
  PROVE  /\ ServerTypes' /\ ClientTypes' /\ ClientInv' /\ Unseen
         /\ Waiting("write") /\ Waiting("read")' /\ x'.state = x.state /\ x.state \in Asks
         /\ up' = up \o x.request /\ UNCHANGED <<down, unsent>>
<1> USE DEF Types
<1> DEFINE w == C!Ended(Client, "write")
           y == C!Write(w)
<1>1. /\ "write" \in x.pending /\ link = "up" /\ Handles(y, FALSE)
      /\ up' = up \o x.request /\ UNCHANGED <<kind, server, watchdog, down, link>>
  BY DEF ClientWrites, ServerSide
<1>2. /\ x \in ClientRecord /\ Waiting("write") /\ w \in ClientRecord /\ w.pending = {}
      /\ w.state = x.state /\ w.socket = x.socket /\ w.sample = x.sample
  BY <1>1, EndedFacts
<1> HIDE DEF w
<1>3. y = [w EXCEPT !.request = <<>>, !.pending = {"read"}]
  BY <1>2 DEF C!Write, C!AwaitReply, C!Begin, ClientRecord
<1> HIDE DEF y
<1>4. /\ y \in ClientRecord /\ y.state = x.state /\ y.socket = x.socket
      /\ y.sample = x.sample /\ y.pending = {"read"} /\ y.request = <<>>
  <2>1. {"read"} \in SUBSET C!Operations /\ <<>> \in Seq(Words)  BY DEF C!Operations
  <2> QED  BY <1>2, <1>3, <2>1 DEF ClientRecord
<1>5. /\ ClientTypes' /\ x' = y
      /\ count'[Client].cut <=> count[Client].cut \/ FALSE
      /\ aborted' <=> y.state = "Destroy"
      /\ unsent' = IF y.state = "DataSend" THEN unsent ELSE <<>>
  BY <1>1, <1>4, HandleFacts
<1>6. x.state \in Asks /\ unsent = <<>>
  BY <1>2 DEF ClientInv, Waiting, Asks
<1>7. up' \in Seq(Words)
  BY <1>1, <1>2, ConcatProperties DEF ServerTypes, ClientRecord
<1>8. ClientInv' /\ unsent' = unsent
  BY <1>1, <1>2, <1>4, <1>5, <1>6 DEF ClientInv, Waiting, Asks
<1> QED  BY <1>1, <1>2, <1>4, <1>5, <1>6, <1>7, <1>8 DEF ServerTypes, Waiting, Unseen

\* All of a message is sent.
LEMMA SentEffect ==
  ASSUME Types, ClientInv, ClientSendsMessage
  PROVE  /\ ServerTypes' /\ ClientTypes' /\ ClientInv' /\ Unseen
         /\ Waiting("message") /\ Waiting("read")' /\ x'.state = x.state
         /\ unsent = <<>> /\ unsent' = <<>> /\ UNCHANGED <<up, down>>
<1> USE DEF Types
<1> DEFINE w == C!Ended(Client, "message")
           y == C!AwaitReply(w)
<1>1. /\ "message" \in x.pending /\ unsent = <<>> /\ Handles(y, FALSE)
      /\ UNCHANGED <<kind, server, watchdog, up, down, link>>
  BY DEF ClientSendsMessage, serverVars
<1>2. /\ x \in ClientRecord /\ Waiting("message") /\ w \in ClientRecord /\ w.pending = {}
      /\ w.state = x.state /\ w.socket = x.socket /\ w.sample = x.sample
      /\ ~count[Client].cut => w.request = <<>>
  BY <1>1, EndedFacts
<1> HIDE DEF w
<1>3. y = [w EXCEPT !.pending = {"read"}]
  BY <1>2 DEF C!AwaitReply, C!Begin, ClientRecord
<1> HIDE DEF y
<1>4. /\ y \in ClientRecord /\ y.state = x.state /\ y.socket = x.socket
      /\ y.sample = x.sample /\ y.pending = {"read"} /\ y.request = w.request
  <2>1. {"read"} \in SUBSET C!Operations  BY DEF C!Operations
  <2> QED  BY <1>2, <1>3, <2>1 DEF ClientRecord
<1>5. x.state = "DataSend"  BY <1>2 DEF ClientInv, Waiting
<1>6. /\ ClientTypes' /\ x' = y
      /\ count'[Client].cut <=> count[Client].cut \/ FALSE
      /\ aborted' <=> y.state = "Destroy"
      /\ unsent' = IF y.state = "DataSend" THEN unsent ELSE <<>>
  BY <1>1, <1>4, HandleFacts
<1>7. ClientInv' /\ unsent' = <<>>
  BY <1>1, <1>2, <1>4, <1>5, <1>6 DEF ClientInv, Waiting, Asks
<1> QED  BY <1>1, <1>2, <1>4, <1>6, <1>7 DEF ServerTypes, Waiting, Unseen

\* A reply is read: the first of those that have arrived decides.
LEMMA ReadEffect ==
  ASSUME Types, ClientInv, ClientReads
  PROVE  /\ ServerTypes' /\ ClientTypes' /\ ClientInv' /\ Unseen
         /\ Waiting("read") /\ InSession /\ unsent = <<>> /\ up' = up
         /\ \E n \in 1 .. Len(down) : down' = SubSeq(down, n + 1, Len(down))
         /\ \/ link' = "gone"
            \/ /\ Head(down) = "crlf" /\ x.state \notin {"WaitHelo", "Quit"}
               /\ x'.state = "Quit" /\ Waiting("write")' /\ unsent' = <<>>
            \/ /\ Head(down) # "crlf" /\ x.state = "Data" /\ x'.state = "DataSend"
               /\ Waiting("message")' /\ \E m \in Messages : unsent' = <<m, "end">>
            \/ /\ Head(down) # "crlf" /\ x.state \notin {"Data", "Quit"}
               /\ x'.state \in After(x.state) /\ x'.state \in Asks
               /\ Waiting("write")' /\ unsent' = <<>>
<1> USE DEF Types
<1> DEFINE w == C!Ended(Client, "read")
           y == C!Read(w, ReplyOutcome(Head(down)))
<1>1. /\ "read" \in x.pending /\ link = "up"
      /\ \E n \in 1 .. Len(down) : down' = SubSeq(down, n + 1, Len(down))
      /\ Handles(y, FALSE) /\ Keeps(y) /\ UNCHANGED <<kind, server, watchdog, up>>
  BY DEF ClientReads, ServerSide
<1>2. /\ x \in ClientRecord /\ Waiting("read") /\ w \in ClientRecord /\ w.pending = {}
      /\ w.state = x.state /\ w.socket = x.socket /\ w.sample = x.sample
      /\ w.sample <=> w.state = "DataSend"
      /\ ~count[Client].cut => w.request = <<>>
  BY <1>1, EndedFacts
<1>3. w.state \in Asks \cup {"WaitHelo", "DataSend"} /\ unsent = <<>>
  BY <1>2 DEF ClientInv, Waiting, Asks
<1>4. \/ Head(down) = "crlf" /\ y = C!Error(w)
      \/ Head(down) # "crlf" /\ y = C!Ready(w)
  BY DEF ReplyOutcome, C!Read
<1>5. y \in ClientRecord
  <2> HIDE DEF w, y
  <2> QED  BY <1>2, <1>3, <1>4, ReadyFacts, ErrorFacts
<1>6. \/ /\ Head(down) = "crlf"
         /\ \/ x.state = "WaitHelo" /\ y = [w EXCEPT !.state = "Destroy"]
            \/ x.state = "Quit" /\ NowCloses(w, y)
            \/ x.state \notin {"WaitHelo", "Quit"} /\ NowAsks(w, y, "Quit")
      \/ /\ Head(down) # "crlf"
         /\ \/ x.state = "Data" /\ NowSends(w, y)
            \/ x.state = "Quit" /\ NowCloses(w, y)
            \/ /\ x.state \notin {"Data", "Quit"}
               /\ \E s \in After(x.state) : NowAsks(w, y, s)
  <2> HIDE DEF w, y
  <2>1. CASE Head(down) = "crlf" /\ y = C!Error(w)
    BY <1>2, <1>3, <2>1, ErrorFacts DEF Asks
  <2>2. CASE Head(down) # "crlf" /\ y = C!Ready(w)
    BY <1>2, <1>3, <2>2, ReadyFacts DEF Asks
  <2> QED  BY <1>4, <2>1, <2>2
<1> HIDE DEF w, y
<1>7. ClientTypes' /\ ClientInv'
  <2>1. \/ \E s \in Asks : NowAsks(w, y, s)
        \/ NowSends(w, y) \/ NowCloses(w, y)
        \/ x.state = "WaitHelo" /\ y = [w EXCEPT !.state = "Destroy"] /\ w.pending = {}
             /\ ~w.sample
    BY <1>2, <1>6 DEF NowAsks
  <2> QED  BY <1>1, <1>2, <1>3, <1>5, <2>1, GoesOnInv
<1>8. /\ x' = y /\ (count'[Client].cut <=> count[Client].cut \/ FALSE)
      /\ aborted' <=> y.state = "Destroy"
      /\ IF y.sample /\ ~x.sample
         THEN \E m \in Messages : unsent' = <<m, "end">>
         ELSE unsent' = IF y.state = "DataSend" THEN unsent ELSE <<>>
  BY <1>1, <1>5, HandleFacts
<1>9. link' = IF y.socket = "closed" \/ aborted' THEN "gone" ELSE link
  BY <1>1 DEF Keeps
<1>10. down' \in Seq(Words) /\ link' \in {"up", "gone", "cut"}
  <2>1. ASSUME NEW n \in 1 .. Len(down) PROVE SubSeq(down, n + 1, Len(down)) \in Seq(Words)
    <3>1. down \in Seq(Words)  BY DEF ServerTypes
    <3> QED  BY <3>1
  <2> QED  BY <1>1, <1>9, <2>1 DEF ServerTypes
<1>11. \/ link' = "gone"
       \/ /\ Head(down) = "crlf" /\ x.state \notin {"WaitHelo", "Quit"}
          /\ x'.state = "Quit" /\ Waiting("write")' /\ unsent' = <<>>
       \/ /\ Head(down) # "crlf" /\ x.state = "Data" /\ x'.state = "DataSend"
          /\ Waiting("message")' /\ \E m \in Messages : unsent' = <<m, "end">>
       \/ /\ Head(down) # "crlf" /\ x.state \notin {"Data", "Quit"}
          /\ x'.state \in After(x.state) /\ x'.state \in Asks
          /\ Waiting("write")' /\ unsent' = <<>>
  <2>1. NowCloses(w, y) => link' = "gone"  BY <1>9 DEF NowCloses
  <2>2. y = [w EXCEPT !.state = "Destroy"] => link' = "gone"
    BY <1>2, <1>8, <1>9 DEF ClientRecord
  <2>3. ASSUME NEW s, NowAsks(w, y, s)
        PROVE  x'.state = s /\ s \in Asks /\ Waiting("write")' /\ unsent' = <<>>
    BY <1>8, <2>3 DEF NowAsks, Waiting, Asks
  <2>4. NowSends(w, y) /\ x.state = "Data" =>
          /\ x'.state = "DataSend" /\ Waiting("message")'
          /\ \E m \in Messages : unsent' = <<m, "end">>
    BY <1>2, <1>8 DEF NowSends, Waiting
  <2> QED  BY <1>6, <2>1, <2>2, <2>3, <2>4
<1> QED
  BY <1>1, <1>2, <1>3, <1>7, <1>8, <1>9, <1>10, <1>11 DEF ServerTypes, Unseen, InSession

\* The handler of an operation that failed gets the client w.
Fails(w, cut) ==
  /\ w.pending = {} /\ w.state = x.state /\ w.socket = x.socket
  /\ w.sample <=> w.state = "DataSend"
  /\ ~(count[Client].cut \/ cut) => w.request = <<>>
  /\ Handles(C!Error(w), cut) /\ Keeps(C!Error(w))

\* An operation on a connection that is broken, or that the server has closed, fails.
LEMMA FailEffect ==
  ASSUME Types, ClientInv, ClientWriteFails \/ ClientMessageFails \/ ClientReadFails
  PROVE  ServerTypes' /\ ClientTypes' /\ ClientInv' /\ Unseen /\ ~Live'
<1> USE DEF Types
<1>1. ASSUME NEW op \in {"message", "read"}, op \in x.pending,
             LET y == C!Error(C!Ended(Client, op)) IN Handles(y, FALSE) /\ Keeps(y)
      PROVE  \E w \in ClientRecord, cut \in BOOLEAN : Fails(w, cut)
  <2> DEFINE w == C!Ended(Client, op)
  <2>1. /\ w \in ClientRecord /\ w.pending = {} /\ w.state = x.state /\ w.socket = x.socket
        /\ w.sample <=> w.state = "DataSend"
        /\ ~count[Client].cut => w.request = <<>>
    BY <1>1, EndedFacts
  <2>2. Handles(C!Error(w), FALSE) /\ Keeps(C!Error(w))  BY <1>1
  <2> HIDE DEF w
  <2>3. Fails(w, FALSE)  BY <2>1, <2>2 DEF Fails
  <2> QED  BY <2>1, <2>3
<1>2. ASSUME ClientWriteFails
      PROVE  \E w \in ClientRecord, cut \in BOOLEAN : Fails(w, cut)
  <2>1. PICK r \in C!Remains(x.request) :
          LET y == C!Error([C!Ended(Client, "write") EXCEPT !.request = r])
          IN  Handles(y, TRUE) /\ Keeps(y)
    BY <1>2 DEF ClientWriteFails
  <2> DEFINE v == C!Ended(Client, "write")
             w == [v EXCEPT !.request = r]
  <2>2. "write" \in x.pending  BY <1>2 DEF ClientWriteFails
  <2>3. /\ x \in ClientRecord /\ v \in ClientRecord /\ v.pending = {} /\ v.state = x.state
        /\ v.socket = x.socket /\ (v.sample <=> v.state = "DataSend")
    BY <2>2, EndedFacts
  <2>4. Handles(C!Error(w), TRUE) /\ Keeps(C!Error(w))  BY <2>1
  <2> HIDE DEF v
  <2>5. r \in Seq(Words)
    <3>1. x.request \in Seq(Words)  BY <2>3 DEF ClientRecord
    <3> QED  BY <3>1, RemainsTyped
  <2>6. /\ w \in ClientRecord /\ w.pending = {} /\ w.state = x.state /\ w.socket = x.socket
        /\ w.sample <=> w.state = "DataSend"
    BY <2>3, <2>5 DEF ClientRecord
  <2> HIDE DEF w
  <2>7. Fails(w, TRUE)  BY <2>4, <2>6 DEF Fails
  <2> QED  BY <2>6, <2>7
<1>3. PICK w \in ClientRecord, cut \in BOOLEAN : Fails(w, cut)
  <2>1. CASE ClientWriteFails  BY <1>2, <2>1
  <2>2. CASE ClientMessageFails  BY <1>1, <2>2 DEF ClientMessageFails
  <2>3. CASE ClientReadFails
    <3>1. C!Read(C!Ended(Client, "read"), "failed") = C!Error(C!Ended(Client, "read"))
      BY DEF C!Read
    <3> QED  BY <1>1, <2>3, <3>1 DEF ClientReadFails
  <2> QED  BY <2>1, <2>2, <2>3
<1> DEFINE y == C!Error(w)
<1>4. /\ UNCHANGED <<kind, server, watchdog, up>> /\ Refuses
      /\ down' = down
  BY DEF ClientWriteFails, ClientMessageFails, ClientReadFails, ServerSide, Refuses
<1>5. x.state \in Asks \cup {"WaitHelo", "DataSend"}
  <2>1. "write" \in x.pending \/ "message" \in x.pending \/ "read" \in x.pending
    BY DEF ClientWriteFails, ClientMessageFails, ClientReadFails
  <2> QED  BY <2>1 DEF ClientInv, Waiting
<1>6. /\ y \in ClientRecord
      /\ \/ x.state = "WaitHelo" /\ y = [w EXCEPT !.state = "Destroy"] /\ ~w.sample
         \/ NowCloses(w, y)
         \/ NowAsks(w, y, "Quit") /\ "Quit" \in Asks
  <2>1. "Quit" \in Asks  BY DEF Asks
  <2> QED  BY <1>3, <1>5, <2>1, ErrorFacts DEF Fails
<1> HIDE DEF y
<1>7. Handles(y, cut) /\ Keeps(y)  BY <1>3 DEF y, Fails
<1>8. ClientTypes' /\ ClientInv'
  BY <1>3, <1>5, <1>6, <1>7, GoesOnInv DEF Fails
<1>9. count'[Client].cut <=> count[Client].cut \/ cut  BY <1>6, <1>7, HandleFacts
<1>10. link' = "gone" \/ link' = link  BY <1>7 DEF Keeps
<1> QED  BY <1>4, <1>8, <1>9, <1>10 DEF ServerTypes, Unseen, Live, Refuses

\* Before a connection.
LEMMA StartEffect ==
  ASSUME Types, ClientInv, ClientStarts \/ ClientResolves
  PROVE  ServerTypes' /\ ClientTypes' /\ ClientInv' /\ Unseen /\ ~Live'
<1> USE DEF Types
<1>1. PICK op \in {"start", "resolve"} :
        /\ op \in x.pending /\ UNCHANGED serverVars
        /\ IF op = "start" THEN Handles(C!EnterResolve(C!Ended(Client, op)), FALSE)
           ELSE Handles(C!EnterConnect(C!Ended(Client, op)), FALSE)
  BY DEF ClientStarts, ClientResolves
<1> DEFINE w == C!Ended(Client, op)
           y == IF op = "start" THEN C!EnterResolve(w) ELSE C!EnterConnect(w)
<1>2. Handles(y, FALSE)  BY <1>1
<1>3. /\ Waiting(op) /\ w \in ClientRecord /\ w.pending = {} /\ w.state = x.state
      /\ w.socket = x.socket /\ (w.sample <=> w.state = "DataSend")
      /\ ~count[Client].cut => w.request = <<>>
  BY <1>1, EndedFacts
<1>4. x.state \in {"Initial", "Resolve"} /\ x.socket = "closed" /\ link = "gone"
  BY <1>3 DEF ClientInv, Waiting
<1> HIDE DEF w
<1>5. \/ y = [w EXCEPT !.state = "Resolve", !.pending = {"resolve"}]
      \/ y = [w EXCEPT !.state = "Connect", !.tries = 0, !.pending = {"connect"}]
  BY <1>3 DEF C!EnterResolve, C!EnterConnect, C!Begin, ClientRecord
<1> HIDE DEF y
<1>6. /\ y \in ClientRecord /\ y.socket = "closed" /\ y.request = w.request /\ ~y.sample
      /\ \/ y.state = "Resolve" /\ y.pending = {"resolve"}
         \/ y.state = "Connect" /\ y.pending = {"connect"}
  <2>1. /\ "Resolve" \in C!States /\ "Connect" \in C!States
        /\ {"resolve"} \in SUBSET C!Operations /\ {"connect"} \in SUBSET C!Operations
    BY DEF C!States, C!Operations
  <2>2. CASE y = [w EXCEPT !.state = "Resolve", !.pending = {"resolve"}]
    BY <1>3, <1>4, <2>1, <2>2 DEF ClientRecord
  <2>3. CASE y = [w EXCEPT !.state = "Connect", !.tries = 0, !.pending = {"connect"}]
    BY <1>3, <1>4, <2>1, <2>3 DEF ClientRecord
  <2> QED  BY <1>5, <2>2, <2>3
<1>7. /\ ClientTypes' /\ x' = y
      /\ count'[Client].cut <=> count[Client].cut
      /\ unsent' = <<>>
  BY <1>2, <1>6, HandleFacts
<1>8. link' = "gone" /\ UNCHANGED <<kind, server, watchdog, up, down>>
  BY <1>1, <1>4 DEF serverVars
<1>9. ClientInv'
  BY <1>3, <1>6, <1>7, <1>8 DEF ClientInv, Waiting, Asks
<1> QED  BY <1>7, <1>8, <1>9 DEF ServerTypes, Unseen, Live

\* A connection.
LEMMA ConnectEffect ==
  ASSUME Types, ClientInv, ClientConnects
  PROVE  /\ ServerTypes' /\ ClientTypes' /\ ClientInv' /\ SessionInv' /\ Answered'
         /\ ~server'.bad_command
<1> USE DEF Types
<1> DEFINE w == C!Ended(Client, "connect")
           y == C!Connect(w, "ok")
<1>1. "connect" \in x.pending /\ Handles(y, FALSE) /\ Accept  BY DEF ClientConnects
<1>2. /\ Waiting("connect") /\ w \in ClientRecord /\ w.pending = {} /\ w.state = x.state
      /\ (w.sample <=> w.state = "DataSend")
      /\ ~count[Client].cut => w.request = <<>>
  BY <1>1, EndedFacts
<1>3. x.state = "Connect"
  BY <1>2 DEF ClientInv, Waiting
<1> HIDE DEF w
<1>4. y = [w EXCEPT !.state = "WaitHelo", !.socket = "open", !.sent_in_session = 1,
                    !.pending = {"read"}]
  <2>1. C!Connect(w, "ok") = C!Connected(w)  BY DEF C!Connect, C!Again
  <2> DEFINE v == [w EXCEPT !.state = "WaitHelo", !.socket = "open", !.sent_in_session = 1]
  <2>2. v.pending = {}  BY <1>2 DEF ClientRecord
  <2>3. C!Connected(w) = [v EXCEPT !.pending = v.pending \cup {"read"}]
    BY DEF C!Connected, C!AwaitReply, C!Begin
  <2>4. [v EXCEPT !.pending = v.pending \cup {"read"}]
          = [w EXCEPT !.state = "WaitHelo", !.socket = "open", !.sent_in_session = 1,
                      !.pending = {"read"}]
    BY <1>2, <2>2 DEF ClientRecord
  <2> QED  BY <2>1, <2>3, <2>4
<1> HIDE DEF y
<1>5. /\ y \in ClientRecord /\ y.socket = "open" /\ y.request = w.request /\ ~y.sample
      /\ y.state = "WaitHelo" /\ y.pending = {"read"}
  <2>1. "WaitHelo" \in C!States /\ {"read"} \in SUBSET C!Operations
    BY DEF C!States, C!Operations
  <2> QED  BY <1>2, <1>3, <1>4, <2>1 DEF ClientRecord
<1>6. /\ ClientTypes' /\ x' = y
      /\ count'[Client].cut <=> count[Client].cut
      /\ unsent' = <<>>
  BY <1>1, <1>5, HandleFacts
<1>7. /\ server' = Greeted /\ watchdog' = Watching /\ up' = <<>> /\ down' = <<"greeting">>
      /\ link' = "up" /\ kind' = kind
  BY <1>1 DEF Accept
<1>8. ClientInv'
  BY <1>2, <1>5, <1>6, <1>7 DEF ClientInv, Waiting, Asks
<1>9. /\ server' \in SessionRecord /\ server'.pc = "writing" /\ server'.next = "line"
      /\ server'.out = <<>> /\ server'.buf = <<>> /\ ~server'.bad_command
  <2>1. <<>> \in Seq(Words)  OBVIOUS
  <2> QED  BY <1>7, <2>1 DEF Greeted, SessionRecord, Places
<1>10. /\ watchdog' \in [wait : Waits, due : BOOLEAN]
       /\ kind \notin Coroutines => watchdog'.wait = "ended"
  BY <1>7 DEF Watching, Waits
<1>11. ServerTypes' /\ SessionInv'
  <2>1. <<>> \in Seq(Words) /\ <<"greeting">> \in Seq(Words)
    <3>1. "greeting" \in Words  BY DEF Words
    <3> QED  BY <3>1, Short
  <2> QED  BY <1>7, <1>9, <1>10, <2>1 DEF ServerTypes, SessionInv
<1>12. Answered'
  <2>1. Awaits("WaitHelo") = "greeting" /\ Follows("WaitHelo") = "line"
    BY Commands DEF Awaits, Follows, Asks
  <2> QED  BY <1>5, <1>6, <1>7, <1>9, <2>1 DEF Answered, Waiting, Input, Output
<1> QED  BY <1>6, <1>8, <1>9, <1>11, <1>12

\* A token of a message is sent.
LEMMA FlowEffect ==
  ASSUME Types, ClientInv, MessageFlows
  PROVE  /\ ServerTypes' /\ ClientTypes' /\ ClientInv' /\ Unseen
         /\ Waiting("message") /\ x.state = "DataSend" /\ x' = x
         /\ unsent # <<>> /\ up' = Append(up, Head(unsent)) /\ unsent' = Tail(unsent)
         /\ UNCHANGED <<down, count>>
<1> USE DEF Types
<1>1. /\ unsent # <<>> /\ up' = Append(up, Head(unsent)) /\ unsent' = Tail(unsent)
      /\ UNCHANGED <<kind, server, watchdog, down, link, client, count, aborted, breaks>>
  BY DEF MessageFlows
<1>2. Waiting("message") /\ x.state = "DataSend"
  BY <1>1 DEF ClientInv, Waiting
<1>3. unsent \in Seq(Words) /\ up \in Seq(Words)  BY DEF ClientTypes, ServerTypes
<1>4. up' \in Seq(Words) /\ unsent' \in Seq(Words)
  BY <1>1, <1>3, HeadTailProperties, AppendProperties
<1>5. x' = x  BY <1>1 DEF x
<1>6. ClientInv'
  BY <1>1, <1>2, <1>5 DEF ClientInv, Waiting
<1> QED  BY <1>1, <1>2, <1>4, <1>5, <1>6 DEF ServerTypes, ClientTypes, Unseen

\* What is not a step of the client leaves it as it is.
LEMMA ServerEffect ==
  ASSUME Types, ClientInv, UNCHANGED clientVars, breaks' \in Nat,
         link' = "gone" <=> link = "gone"
  PROVE  ClientTypes' /\ ClientInv' /\ UNCHANGED <<x, count, unsent>>
<1>1. UNCHANGED <<client, count, aborted, unsent>> /\ x' = x  BY DEF clientVars, x
<1> QED  BY <1>1 DEF Types, ClientTypes, ClientInv, Waiting
-----------------------------------------------------------------------------
(* What the session's steps do to what is on its way. *)

\* The first of three sequences that is not empty has the first element.
LEMMA FirstOf ==
  ASSUME NEW S, NEW a \in Seq(S), NEW b \in Seq(S), NEW c \in Seq(S)
  PROVE  /\ a \o b \o c \in Seq(S)
         /\ a # <<>> => a \o b \o c # <<>> /\ Head(a \o b \o c) = Head(a)
         /\ a = <<>> /\ b # <<>> => a \o b \o c # <<>> /\ Head(a \o b \o c) = Head(b)
         /\ a = <<>> /\ b = <<>> => a \o b \o c = c
<1>1. ASSUME NEW u \in Seq(S), NEW v \in Seq(S)
      PROVE  /\ u \o v \in Seq(S)
             /\ u # <<>> => u \o v # <<>> /\ Head(u \o v) = Head(u)
             /\ u = <<>> => u \o v = v
  <2>1. u \o v \in Seq(S) /\ Len(u \o v) = Len(u) + Len(v)
    BY ConcatProperties
  <2>2. ASSUME u # <<>> PROVE u \o v # <<>> /\ Head(u \o v) = Head(u)
    <3>1. Len(u) \in Nat /\ Len(u) # 0  BY <2>2, EmptySeq, LenProperties
    <3>2. (u \o v)[1] = u[1]  BY <3>1, ConcatProperties
    <3>3. Len(<<>>) = 0  OBVIOUS
    <3>4. u \o v # <<>>  BY <2>1, <3>1, <3>3, LenProperties
    <3> QED  BY <2>1, <2>2, <3>2, <3>4, HeadTailProperties
  <2>3. u = <<>> => u \o v = v  BY ConcatEmptySeq
  <2> QED  BY <2>1, <2>2, <2>3
<1>2. a \o b \in Seq(S)  BY <1>1
<1> QED
  <2> DEFINE u == a \o b
             l == u \o c
  <2>1. /\ u \in Seq(S) /\ (a # <<>> => u # <<>> /\ Head(u) = Head(a))
        /\ (a = <<>> => u = b)
    BY <1>1
  <2>2. /\ l \in Seq(S) /\ (u # <<>> => l # <<>> /\ Head(l) = Head(u))
        /\ (u = <<>> => l = c)
    BY <1>1, <2>1
  <2>3. a \o b \o c = l  OBVIOUS
  <2> HIDE DEF u, l
  <2> QED  BY <2>1, <2>2, <2>3

\* What a client waits for, and what the server does after its command.
LEMMA Waited ==
  /\ \A s \in Asks :
       /\ C!Command[s] \in Words \ {"crlf"} /\ Awaits(s) = C!Command[s]
       /\ C!Command[s] \in {"helo", "mail", "rcpt", "data", "quit"}
       /\ C!Command[s] \in {"helo", "mail", "rcpt"} => Follows(s) = "line"
       /\ C!Command[s] = "data" => Follows(s) = "data"
       /\ C!Command[s] \notin {"helo", "mail", "rcpt", "data"} => Follows(s) = "close"
  /\ Awaits("DataSend") = "message" /\ Follows("DataSend") = "line"
  /\ Awaits("WaitHelo") = "greeting"
  /\ \A s : Follows(s) \in {"line", "data", "close"}
<1>1. ASSUME NEW s \in Asks
      PROVE  /\ C!Command[s] \in Words \ {"crlf"} /\ Awaits(s) = C!Command[s]
             /\ C!Command[s] \in {"helo", "mail", "rcpt", "data", "quit"}
             /\ C!Command[s] \in {"helo", "mail", "rcpt"} => Follows(s) = "line"
             /\ C!Command[s] = "data" => Follows(s) = "data"
             /\ C!Command[s] \notin {"helo", "mail", "rcpt", "data"} => Follows(s) = "close"
  BY Commands DEF Awaits, Follows, Asks, Words
<1>2. /\ Awaits("DataSend") = "message" /\ Follows("DataSend") = "line"
      /\ Awaits("WaitHelo") = "greeting"
  BY Commands DEF Awaits, Follows, Asks
<1>3. \A s : Follows(s) \in {"line", "data", "close"}  BY DEF Follows
<1> QED  BY <1>1, <1>2, <1>3, Zenon

\* A session with nothing in its buffer reads, or ends after `quit'; one that still
\* has to send the empty line does so.
LEMMA Idles ==
  ASSUME ServerTypes, GoesOn(server), server.buf = <<>>
  PROVE  /\ server.out = <<>> /\ server.next = "close" => ~server'.open
         /\ server.out = <<>> /\ server.next # "close" =>
              /\ server'.buf = <<>> /\ server'.out = <<>> /\ server'.next = server.next
              /\ server'.refused = server.refused /\ down' = down
         /\ server.out = <<"crlf">> =>
              /\ server'.buf = <<>> /\ server'.out = <<>> /\ server'.next = server.next
              /\ server'.refused = server.refused /\ down' = Append(down, "crlf")
         /\ server'.bad_command = server.bad_command
<1>0. server \in SessionRecord  BY DEF ServerTypes
<1>1. ~Answers(server) /\ ~Judges(server)
  BY NothingYet DEF Answers, Judges
<1>2. /\ <<"crlf">> # <<>> /\ Head(<<"crlf">>) = "crlf" /\ Tail(<<"crlf">>) = <<>>
  BY Short
<1>3. CASE SaysMore(server)
  BY <1>2, <1>3 DEF SaysMore, Replies
<1>4. CASE Ends(server)
  BY <1>2, <1>4 DEF Ends
<1>5. CASE ReadsOn(server)
  <2>1. /\ server' = [server EXCEPT !.pc = "reading"] /\ down' = down
        /\ server.out = <<>> /\ server.next # "close"
    BY <1>0, <1>5 DEF ReadsOn, SessionRecord
  <2> QED  BY <1>0, <1>2, <2>1 DEF SessionRecord
<1> QED  BY <1>1, <1>3, <1>4, <1>5 DEF GoesOn

\* A session that has a command alone in its buffer answers it.
LEMMA AnswersCommand ==
  ASSUME ServerTypes, NEW s \in SessionRecord, GoesOn(s), NEW q \in Asks,
         s.buf = <<C!Command[q]>>, s.out = <<>>, s.next = "line"
  PROVE  /\ server'.buf = <<>> /\ server'.out = <<>> /\ server'.next = Follows(q)
         /\ server'.refused = s.refused /\ down' = Append(down, C!Command[q])
         /\ server'.bad_command <=> s.bad_command
<1> DEFINE c == C!Command[q]
<1>1. /\ c \in Words /\ c \in {"helo", "mail", "rcpt", "data", "quit"}
      /\ c \in {"helo", "mail", "rcpt"} => Follows(q) = "line"
      /\ c = "data" => Follows(q) = "data"
      /\ c \notin {"helo", "mail", "rcpt", "data"} => Follows(q) = "close"
  BY Waited
<1>2. s.buf = <<c>>  OBVIOUS
<1>g. GoesOn(s)  OBVIOUS
<1>c. c = C!Command[q]  OBVIOUS
<1> HIDE DEF c
<1>3. <<c>> # <<>> /\ Head(<<c>>) = c /\ Tail(<<c>>) = <<>>  BY <1>1, Short
<1>4. Answers(s)
  BY <1>2, <1>3, <1>g DEF GoesOn, SaysMore, Ends, ReadsOn, Judges
<1>5. /\ server'.buf = <<>> /\ server'.out = <<>> /\ server'.next = Follows(q)
      /\ server'.refused = s.refused /\ down' = Append(down, c)
  BY <1>1, <1>2, <1>3, <1>4 DEF Answers, Replies
<1>6. server'.bad_command <=> s.bad_command
  BY <1>1, <1>2, <1>3, <1>4 DEF Answers
<1> QED  BY <1>5, <1>6, <1>c

\* A session that has a message, or some of it, in its buffer reads on or judges it.
LEMMA JudgesMessage ==
  ASSUME ServerTypes, NEW s \in SessionRecord, GoesOn(s), server' \in SessionRecord,
         NEW m \in Messages, Parts(m, s.buf, up', unsent'),
         s.out = <<>>, s.next = "data", down = <<>>,
         x'.state = "DataSend", Waiting("message")' \/ (Waiting("read")' /\ unsent' = <<>>)
  PROVE  Together' /\ (server'.bad_command <=> s.bad_command)
<1>1. kind' = kind /\ (ReadsOn(s) \/ Judges(s))
  BY DEF GoesOn, SaysMore, Ends, Answers
<1>2. CASE ReadsOn(s)
  <2>1. server' = [s EXCEPT !.pc = "reading"] /\ down' = <<>>  BY <1>2 DEF ReadsOn
  <2>2. /\ server'.buf = s.buf /\ server'.out = <<>> /\ server'.next = "data"
        /\ server'.bad_command = s.bad_command
    BY <2>1 DEF SessionRecord
  <2>3. Sending'
    BY <2>1, <2>2 DEF Sending, Input, Output, Waiting, Parts
  <2> QED  BY <2>2, <2>3 DEF Together, Aligned
<1>3. CASE Judges(s)
  <2>1. PICK o \in Data(s.buf) :
          /\ server'.buf = o.rest
          /\ server'.refused <=> s.refused \/ ~o.ok
          /\ IF o.ok \/ kind = "async" THEN Replies(s, "message", <<>>, "line")
             ELSE Replies(s, "message", <<"crlf">>, AfterRefusal)
    BY <1>3 DEF Judges
  <2>2. server'.bad_command = s.bad_command  BY <1>3 DEF Judges
  <2>m. m \in Words /\ "end" \in Words /\ "message" \in Words
    BY SystemAssumption DEF Words
  <2>s. /\ <<>> \in Seq(Words) /\ <<m>> \in Seq(Words) /\ <<m, "end">> \in Seq(Words)
        /\ <<"end">> \in Seq(Words) /\ <<m>> # <<>> /\ <<m, "end">> # <<>>
        /\ <<"end">> # <<>> /\ Head(<<m>>) = m /\ Head(<<m, "end">>) = m
        /\ Head(<<"end">>) = "end"
    BY <2>m, Short
  <2>a. Append(<<>>, "message") = <<"message">>  BY <2>m, Joining
  \* The message is taken whole and answered.
  <2>3. ASSUME o.rest = <<>>, up' = <<>>, unsent' = <<>>, o.ok \/ kind \in {"async", "session"}
        PROVE  Together'
    <3>1. CASE o.ok \/ kind = "async"
      <4>1. server'.buf = <<>> /\ server'.out = <<>> /\ server'.next = "line"
            /\ down' = <<"message">>
        BY <2>1, <2>3, <2>a, <3>1 DEF Replies
      <4>2. Answered'
        BY <2>3, <4>1, Waited DEF Answered, Input, Output, Waiting
      <4> QED  BY <4>2 DEF Together, Aligned
    <3>2. CASE ~o.ok /\ kind = "session"
      <4>1. /\ server'.buf = <<>> /\ server'.out = <<"crlf">> /\ server'.next = "line"
            /\ down' = <<"message">> /\ server'.pc = "writing" /\ server'.refused
        BY <2>1, <2>3, <2>a, <3>2 DEF Replies, AfterRefusal
      <4>2. JustRefused'
        BY <2>3, <4>1 DEF JustRefused, Input, Output, Waiting
      <4> QED  BY <1>1, <3>2, <4>1, <4>2 DEF Together
    <3> QED  BY <2>3, <3>1, <3>2
  \* Some of a message that was refused is left, and is the next line.
  <2>4. ASSUME kind \in Streams, m = "bad", ~o.ok, o.rest \in {<<m>>, <<>>, <<m, "end">>, <<"end">>},
               o.rest # <<>> \/ (up' = <<"end">> /\ unsent' = <<>>)
                 \/ (up' = <<>> /\ unsent' = <<"end">>),
               up' \in {<<>>, <<"end">>}, unsent' \in {<<>>, <<"end">>}
        PROVE  Together'
    <3>1. /\ server'.buf = o.rest /\ server'.refused
          /\ server'.next = "line" \/ server'.next = "close"
      BY <2>1, <2>4 DEF Replies, AfterRefusal, Streams
    <3> DEFINE b == o.rest
               u == up'
               r == unsent'
               l == b \o u \o r
    <3>2. b \in Seq(Words) /\ u \in Seq(Words) /\ r \in Seq(Words)  BY <2>4, <2>s
    <3>f. /\ b # <<>> => l # <<>> /\ Head(l) = Head(b)
          /\ b = <<>> /\ u # <<>> => l # <<>> /\ Head(l) = Head(u)
          /\ b = <<>> /\ u = <<>> => l = r
      <4> HIDE DEF b, u, r
      <4> QED  BY <3>2, FirstOf
    <3>3. l # <<>> /\ Head(l) \in {"bad", "end"}
      <4>1. CASE b # <<>>
        <5>1. Head(b) \in {"bad", "end"}
          <6> HIDE DEF l
          <6> QED  BY <2>4, <2>s, <4>1
        <5> HIDE DEF b, u, r, l
        <5> QED  BY <3>f, <4>1, <5>1
      <4>2. CASE b = <<>> /\ u = <<"end">>
        <5> HIDE DEF b, u, r, l
        <5> QED  BY <2>s, <3>f, <4>2
      <4>3. CASE b = <<>> /\ u = <<>> /\ r = <<"end">>
        <5> HIDE DEF b, u, r, l
        <5> QED  BY <2>s, <3>f, <4>3
      <4> QED  BY <2>4, <4>1, <4>2, <4>3
    <3>4. l = (server.buf \o up \o unsent)'  BY <3>1
    <3> HIDE DEF l
    <3>5. Doomed'  BY <3>1, <3>3, <3>4 DEF Doomed, Spoiled
    <3> QED  BY <1>1, <2>4, <3>1, <3>5 DEF Together
  <2>5. CASE s.buf = <<>>
    BY <2>1, <2>5, NothingYet
  <2>6. CASE s.buf = <<m>> /\ ((up' = <<>> /\ unsent' = <<"end">>) \/ (up' = <<"end">> /\ unsent' = <<>>))
    <3>1. kind \in Streams /\ m = "bad" /\ ~o.ok /\ o.rest \in {<<m>>, <<>>}
      BY <2>1, <2>6, TextAlone
    <3> QED  BY <2>2, <2>4, <2>6, <3>1
  <2>7. CASE s.buf = <<m, "end">> /\ up' = <<>> /\ unsent' = <<>>
    <3>1. \/ o.rest = <<>> /\ (o.ok \/ kind \in {"async", "session"})
          \/ /\ kind \in Streams /\ m = "bad" /\ ~o.ok
             /\ o.rest \in {<<m, "end">>, <<"end">>}
      BY <2>1, <2>7, WholeMessage
    <3> QED  BY <2>2, <2>3, <2>4, <2>7, <2>s, <3>1
  <2> QED  BY <2>5, <2>6, <2>7 DEF Parts
<1> QED  BY <1>1, <1>2, <1>3

\* A write ends.
LEMMA WrittenStep ==
  ASSUME Types, SessionInv, Together, Written, UNCHANGED <<x, count, unsent>>
  PROVE  /\ server'.open => Together'
         /\ server'.bad_command => server.bad_command \/ kind \in Streams
<1> USE DEF Types
<1>1. PICK r \in Continued(server) : Goes(r)  BY DEF Written
<1>2. server \in SessionRecord /\ up' = up  BY DEF ServerTypes, Written
<1>3. GoesOn(server) /\ server' \in SessionRecord  BY <1>1, <1>2, Continues
<1>4. kind' = kind  BY <1>3 DEF GoesOn
<1>c. /\ <<"crlf">> # <<>> /\ Append(<<>>, "crlf") = <<"crlf">>
      /\ Append(<<"message">>, "crlf") = <<"message", "crlf">>
  <2>1. "crlf" \in Words /\ "message" \in Words  BY DEF Words
  <2>2. <<"crlf">> # <<>>  BY <2>1, Short
  <2>3. Append(<<>>, "crlf") = <<"crlf">>  BY <2>1, Joining
  <2>4. Append(<<"message">>, "crlf") = <<"message", "crlf">>  BY <2>1, Joining
  <2> QED  BY <2>2, <2>3, <2>4
<1>5. CASE server.buf = <<>> /\ ~Sending /\ ~(kind \in Streams /\ server.refused /\ Doomed)
  <2>1. server'.bad_command = server.bad_command  BY <1>3, <1>5, Idles
  <2>2. ASSUME server.out = <<>>, server.next # "close"
        PROVE  /\ server'.buf = <<>> /\ server'.out = <<>> /\ server'.next = server.next
               /\ server'.refused = server.refused /\ down' = down
    BY <1>3, <1>5, <2>2, Idles
  <2>3. ASSUME server.out = <<"crlf">>
        PROVE  /\ server'.buf = <<>> /\ server'.out = <<>> /\ server'.next = server.next
               /\ server'.refused = server.refused /\ down' = Append(down, "crlf")
    BY <1>3, <1>5, <2>3, Idles
  <2>4. CASE server.out = <<>> /\ server.next = "close"
    BY <1>3, <1>5, <2>1, <2>4, Idles
  <2>5. CASE server.out = <<>> /\ server.next # "close"
    <3>1. Aligned => Aligned'
      BY <1>2, <1>5, <2>2, <2>5 DEF Aligned, Quiet, Asked, Answered, Input, Output, Waiting
    <3>2. JustRefused => JustRefused'
      BY <1>2, <1>c, <2>2, <2>5 DEF JustRefused, Input, Output, Waiting
    <3>3. Trails => Trails'
      BY <1>2, <1>c, <2>2, <2>5 DEF Trails, Input, Output, Waiting
    <3>4. Trailed => Trailed'
      BY <1>2, <2>2, <2>5 DEF Trailed, Input, Output, Waiting
    <3>5. Behind => Behind'
      <4>1. C!Command["Quit"] = "quit" /\ <<"quit">> # <<>>
        BY Commands, Short
      <4> QED  BY <1>2, <1>5, <2>2, <2>5, <4>1 DEF Behind, Input, Output, Waiting
    <3> QED  BY <1>4, <1>5, <2>1, <2>2, <2>5, <3>1, <3>2, <3>3, <3>4, <3>5 DEF Together
  <2>6. CASE server.out # <<>>
    <3>1. ~Aligned /\ ~Trailed /\ ~Behind
      BY <1>5, <2>6 DEF Aligned, Quiet, Asked, Answered, Trailed, Behind, Output
    <3>2. JustRefused => server.out = <<"crlf">> /\ JustRefused'
      BY <1>2, <1>c, <2>3, <2>6 DEF JustRefused, Input, Output, Waiting
    <3>3. Trails => server.out = <<"crlf">> /\ Trails'
      BY <1>2, <1>c, <2>3, <2>6 DEF Trails, Input, Output, Waiting
    <3> QED  BY <1>4, <1>5, <2>1, <2>3, <3>1, <3>2, <3>3 DEF Together
  <2> QED  BY <2>4, <2>5, <2>6
<1>6. CASE Sending
  <2>1. PICK m \in Messages : Parts(m, server.buf, up, unsent)  BY <1>6 DEF Sending
  <2>2. Parts(m, server.buf, up', unsent')  BY <1>2, <2>1
  <2>3. /\ server.out = <<>> /\ server.next = "data" /\ down = <<>>
        /\ x'.state = "DataSend"
        /\ Waiting("message")' \/ (Waiting("read")' /\ unsent' = <<>>)
    BY <1>6 DEF Sending, Output, Waiting
  <2> QED  BY <1>2, <1>3, <2>2, <2>3, JudgesMessage
<1>7. CASE kind \in Streams /\ server.refused /\ Doomed
  <2> DEFINE line == server.buf \o up \o unsent
  <2>1. server.next = "close" \/ (server.next = "line" /\ line # <<>> /\ Head(line) \in {"bad", "end"})
    BY <1>7 DEF Doomed, Spoiled
  <2>2. SaysMore(server) => Together'
    BY <1>2, <1>4, <1>7 DEF SaysMore, Replies, Together, Doomed, Spoiled
  <2>3. Ends(server) => ~server'.open
    BY DEF Ends
  <2>4. ReadsOn(server) => Together'
    <3>1. ASSUME ReadsOn(server) PROVE Together'
      <4>1. server' = [server EXCEPT !.pc = "reading"]  BY <3>1 DEF ReadsOn
      <4>2. /\ server'.buf = server.buf /\ server'.next = server.next
            /\ server'.refused = server.refused
        BY <1>2, <4>1 DEF SessionRecord
      <4> QED  BY <1>2, <1>4, <1>7, <4>2 DEF Together, Doomed, Spoiled
    <3> QED  BY <3>1
  <2>5. Answers(server) => Together'
    <3>1. ASSUME Answers(server) PROVE Together'
      <4>1. /\ server.next = "line" /\ server.buf # <<>> /\ server'.refused = server.refused
            /\ server'.next = CASE Head(server.buf) \in {"helo", "mail", "rcpt"} -> "line"
                                [] Head(server.buf) = "data" -> "data"
                                [] OTHER -> "close"
        BY <3>1 DEF Answers, Replies
      <4>2. Head(server.buf) = Head(line)
        <5>1. server.buf \in Seq(Words) /\ up \in Seq(Words) /\ unsent \in Seq(Words)
          BY <1>2 DEF SessionRecord, ServerTypes, ClientTypes
        <5> QED  BY <4>1, <5>1, FirstOf
      <4>3. server'.next = "close"
        <5> HIDE DEF line
        <5> QED  BY <2>1, <4>1, <4>2
      <4> QED  BY <1>4, <1>7, <4>1, <4>3 DEF Together, Doomed, Spoiled
    <3> QED  BY <3>1
  <2>6. ~Judges(server)  BY <2>1 DEF Judges
  <2> QED  BY <1>3, <1>7, <2>2, <2>3, <2>4, <2>5, <2>6 DEF GoesOn
\* The last command of a client that is one reply behind.
<1>8. CASE server.buf # <<>> /\ ~Sending /\ ~(kind \in Streams /\ server.refused /\ Doomed)
  <2>1. /\ kind = "session" /\ server.refused /\ Behind
    BY <1>8 DEF Together, Aligned, Quiet, Asked, Answered, JustRefused, Trails, Trailed, Input
  <2>2. /\ x.state = "Quit" /\ Waiting("read") /\ server.next = "line"
        /\ Input(<<"quit">>, <<>>, <<>>) /\ Output(<<>>, <<"mail">>)
    BY <1>8, <2>1 DEF Behind, Input
  <2>3. "Quit" \in Asks /\ C!Command["Quit"] = "quit" /\ Follows("Quit") = "close"
    BY Commands DEF Asks, Follows
  <2>4. /\ server'.buf = <<>> /\ server'.out = <<>> /\ server'.next = "close"
        /\ server'.refused = server.refused /\ down' = Append(<<"mail">>, "quit")
        /\ server'.bad_command <=> server.bad_command
    BY <1>2, <1>3, <2>2, <2>3, AnswersCommand DEF Input, Output
  <2>5. Append(<<"mail">>, "quit") = <<"mail", "quit">>
    <3>1. "mail" \in Words /\ "quit" \in Words  BY DEF Words
    <3> QED  BY <3>1, Joining
  <2>6. Behind'
    BY <1>2, <2>2, <2>4, <2>5 DEF Behind, Input, Output, Waiting
  <2> QED  BY <1>4, <2>1, <2>4, <2>6 DEF Together
<1> QED  BY <1>5, <1>6, <1>7, <1>8

\* A read returns some of what has arrived.
LEMMA ReadStep ==
  ASSUME Types, SessionInv, Together, ReadSome, UNCHANGED <<x, count, unsent>>
  PROVE  /\ server'.open => Together'
         /\ server'.bad_command => server.bad_command \/ kind \in Streams
<1> USE DEF Types
<1>1. PICK n \in 1 .. Len(up) :
        /\ \E r \in Continued(Took(n)) : Goes(r)
        /\ up' = SubSeq(up, n + 1, Len(up))
  BY DEF ReadSome, Took
<1>2. PICK r \in Continued(Took(n)) : Goes(r)  BY <1>1
<1> DEFINE s == Took(n)
<1>3. /\ s \in SessionRecord /\ s.buf = server.buf \o SubSeq(up, 1, n)
      /\ s.next = server.next /\ s.out = server.out /\ s.refused = server.refused
      /\ s.bad_command = server.bad_command
  BY TookFacts
<1>4. GoesOn(s) /\ server' \in SessionRecord  BY <1>2, <1>3, Continues
<1>5. kind' = kind  BY <1>4 DEF GoesOn
<1>6. server.out = <<>> /\ server.next # "close" /\ (server.next = "line" => server.buf = <<>>)
  BY DEF SessionInv, ReadSome
<1> HIDE DEF s
<1>7. up # <<>>  BY <1>1
<1>w. "mail" \in Words /\ "quit" \in Words /\ "crlf" \in Words  BY DEF Words
<1>t. ASSUME NEW c \in Words, up = <<c>>
      PROVE  SubSeq(up, 1, n) = <<c>> /\ up' = <<>>
  BY <1>1, <1>t, TakingOne
<1>u. ASSUME NEW a \in Words, NEW b \in Words, up = <<a, b>>
      PROVE  \/ SubSeq(up, 1, n) = <<a>> /\ up' = <<b>>
             \/ SubSeq(up, 1, n) = <<a, b>> /\ up' = <<>>
  BY <1>1, <1>u, TakingTwo, ZenonT(60)
<1>j. \A c \in Words : <<>> \o <<c>> = <<c>> /\ Append(<<>>, c) = <<c>> /\ <<c>> # <<>>
  BY Joining, Short
<1>8. CASE Asked
  <2> DEFINE q == x.state
             c == C!Command[q]
  <2>1. q \in Asks /\ c \in Words /\ Awaits(q) = c  BY <1>8, Waited DEF Asked
  <2>2. s.buf = <<c>> /\ s.next = "line" /\ up' = <<>> /\ down = <<>> /\ unsent = <<>>
    BY <1>3, <1>8, <1>t, <1>j, <2>1 DEF Asked, Input, Output
  <2>3. /\ server'.buf = <<>> /\ server'.out = <<>> /\ server'.next = Follows(q)
        /\ down' = Append(down, c) /\ (server'.bad_command <=> s.bad_command)
    BY <1>3, <1>4, <1>6, <2>1, <2>2, AnswersCommand
  <2>4. down' = <<c>>  BY <1>j, <2>1, <2>2, <2>3
  <2>5. Answered'
    BY <1>8, <2>1, <2>2, <2>3, <2>4 DEF Asked, Answered, Input, Output, Waiting
  <2> QED  BY <1>3, <2>3, <2>5 DEF Together, Aligned
<1>9. CASE Sending
  <2>1. PICK m \in Messages : Parts(m, server.buf, up, unsent)  BY <1>9 DEF Sending
  <2>2. /\ server.next = "data" /\ down = <<>> /\ x'.state = "DataSend"
        /\ Waiting("message")' \/ (Waiting("read")' /\ unsent' = <<>>)
    BY <1>9 DEF Sending, Output, Waiting
  <2>m. m \in Words /\ "end" \in Words  BY SystemAssumption DEF Words
  <2>3. Parts(m, s.buf, up', unsent')
    <3>1. up = <<m, "end">> =>
            \/ SubSeq(up, 1, n) = <<m>> /\ up' = <<"end">>
            \/ SubSeq(up, 1, n) = <<m, "end">> /\ up' = <<>>
      BY <1>u, <2>m
    <3>2. /\ <<>> \o <<m, "end">> = <<m, "end">> /\ <<m>> \o <<"end">> = <<m, "end">>
      BY <2>m, Joining
    <3> QED  BY <1>3, <1>7, <1>t, <1>j, <2>1, <2>m, <3>1, <3>2 DEF Parts
  <2> QED  BY <1>3, <1>4, <1>6, <2>2, <2>3, JudgesMessage
<1>10. CASE kind \in Streams /\ server.refused /\ Doomed
  <2> DEFINE line == <<>> \o up \o unsent
  <2>1. server.next = "line" /\ server.buf = <<>> /\ line # <<>> /\ Head(line) \in {"bad", "end"}
    BY <1>6, <1>10 DEF Doomed, Spoiled
  <2>2. up \in Seq(Words) /\ unsent \in Seq(Words) /\ <<>> \in Seq(Words)
    BY DEF ServerTypes, ClientTypes
  <2>3. Head(line) = Head(up)  BY <1>7, <2>2, FirstOf
  <2> HIDE DEF line
  <2>4. s.buf # <<>> /\ Head(s.buf) = Head(up)
    <3>1. /\ SubSeq(up, 1, n) \in Seq(Words) /\ Len(SubSeq(up, 1, n)) = n
          /\ SubSeq(up, 1, n)[1] = up[1]
      BY <2>2
    <3>2. s.buf = SubSeq(up, 1, n)
      BY <1>3, <2>1, <3>1, ConcatEmptySeq
    <3>3. Len(<<>>) = 0 /\ n # 0  OBVIOUS
    <3>4. s.buf # <<>>  BY <3>1, <3>2, <3>3
    <3>5. Head(s.buf) = s.buf[1] /\ Head(up) = up[1]
      BY <1>7, <2>2, <3>1, <3>2, <3>4, HeadTailProperties
    <3> QED  BY <3>1, <3>2, <3>4, <3>5
  <2>5. Answers(s)
    BY <1>3, <1>4, <1>6, <2>1, <2>4 DEF GoesOn, SaysMore, Ends, ReadsOn, Judges
  <2>6. server'.next = "close" /\ server'.refused
    BY <1>3, <1>10, <2>1, <2>3, <2>4, <2>5 DEF Answers, Replies
  <2> QED  BY <1>5, <1>10, <2>6 DEF Together, Doomed, Spoiled
<1>11. CASE kind = "session" /\ server.refused /\ Trails
  <2> DEFINE q == x.state
             c == C!Command[q]
  <2>1. q \in Asks /\ c \in Words /\ q \in {"MailFrom", "Quit"}
    BY <1>11, Waited DEF Trails, Asks
  <2>2. /\ Waiting("read") /\ server.buf = <<>> /\ up = <<c>> /\ unsent = <<>>
        /\ server.next = "line" /\ down = <<"crlf">>
    BY <1>6, <1>7, <1>11 DEF Trails, Input, Output
  <2>3. s.buf = <<c>> /\ up' = <<>>  BY <1>3, <1>t, <1>j, <2>1, <2>2
  <2>4. /\ server'.buf = <<>> /\ server'.out = <<>> /\ server'.next = Follows(q)
        /\ server'.refused = s.refused
        /\ down' = Append(down, c) /\ (server'.bad_command <=> s.bad_command)
    BY <1>3, <1>4, <1>6, <2>1, <2>2, <2>3, AnswersCommand
  <2>5. down' = <<"crlf", c>>  BY <1>w, <2>1, <2>2, <2>4, Joining
  <2>6. Trailed'
    BY <2>1, <2>2, <2>3, <2>4, <2>5 DEF Trailed, Input, Output, Waiting
  <2> QED  BY <1>3, <1>5, <1>11, <2>4, <2>6 DEF Together
<1>12. CASE kind = "session" /\ server.refused /\ Behind
  <2>1. /\ server.next = "line" /\ server.buf = <<>> /\ unsent = <<>> /\ x.state = "Quit"
        /\ \/ Waiting("write") /\ up = <<"mail">> /\ down = <<>>
           \/ Waiting("read") /\ up = <<"mail", "quit">> /\ down = <<>>
           \/ Waiting("read") /\ up = <<"quit">> /\ down = <<"mail">>
    BY <1>6, <1>7, <1>12 DEF Behind, Input, Output
  <2>2. /\ "Quit" \in Asks /\ C!Command["Quit"] = "quit" /\ Follows("Quit") = "close"
        /\ "MailFrom" \in Asks /\ C!Command["MailFrom"] = "mail" /\ Follows("MailFrom") = "line"
    BY Commands DEF Asks, Follows
  <2>3. s.next = "line" /\ s.out = <<>>  BY <1>3, <1>6, <2>1
  <2>4. ASSUME s.buf = <<"mail">>, down = <<>>
        PROVE  /\ server'.buf = <<>> /\ server'.out = <<>> /\ server'.next = "line"
               /\ server'.refused = s.refused /\ down' = <<"mail">>
               /\ server'.bad_command <=> s.bad_command
    BY <1>3, <1>4, <1>w, <1>j, <2>2, <2>3, <2>4, AnswersCommand
  <2>5. CASE up = <<"mail">> /\ Waiting("write") /\ down = <<>>
    <3>1. s.buf = <<"mail">> /\ up' = <<>>  BY <1>3, <1>t, <1>j, <1>w, <2>1, <2>5
    <3>2. Behind'
      BY <2>1, <2>4, <2>5, <3>1 DEF Behind, Input, Output, Waiting
    <3> QED  BY <1>3, <1>5, <1>12, <2>4, <2>5, <3>1, <3>2 DEF Together
  <2>6. CASE up = <<"mail", "quit">> /\ Waiting("read") /\ down = <<>>
    <3>1. \/ SubSeq(up, 1, n) = <<"mail">> /\ up' = <<"quit">>
          \/ SubSeq(up, 1, n) = <<"mail", "quit">> /\ up' = <<>>
      BY <1>u, <1>w, <2>6
    <3>2. <<>> \o <<"mail", "quit">> = <<"mail", "quit">>  BY <1>w, Joining
    <3>3. CASE s.buf = <<"mail">> /\ up' = <<"quit">>
      <4>1. Behind'
        BY <2>1, <2>4, <2>6, <3>3 DEF Behind, Input, Output, Waiting
      <4> QED  BY <1>3, <1>5, <1>12, <2>4, <2>6, <3>3, <4>1 DEF Together
    <3>4. CASE s.buf = <<"mail", "quit">> /\ up' = <<>>
      <4>1. /\ <<"mail", "quit">> # <<>> /\ Head(<<"mail", "quit">>) = "mail"
            /\ Tail(<<"mail", "quit">>) = <<"quit">>
        BY <1>w, Short
      <4>2. Answers(s)
        BY <1>4, <2>3, <3>4, <4>1 DEF GoesOn, SaysMore, Ends, ReadsOn, Judges
      <4>3. /\ server'.buf = <<"quit">> /\ server'.out = <<>> /\ server'.next = "line"
            /\ server'.pc = "writing" /\ server'.refused = s.refused /\ down' = <<"mail">>
            /\ server'.bad_command <=> s.bad_command
        BY <1>w, <1>j, <2>6, <3>4, <4>1, <4>2 DEF Answers, Replies
      <4>4. Behind'
        BY <2>1, <2>6, <3>4, <4>3 DEF Behind, Input, Output, Waiting
      <4> QED  BY <1>3, <1>5, <1>12, <4>3, <4>4 DEF Together
    <3> QED  BY <1>3, <1>j, <1>w, <2>1, <3>1, <3>2, <3>3, <3>4
  <2>7. CASE up = <<"quit">> /\ Waiting("read") /\ down = <<"mail">>
    <3>1. s.buf = <<"quit">> /\ up' = <<>>  BY <1>3, <1>t, <1>j, <1>w, <2>1, <2>7
    <3>2. /\ server'.buf = <<>> /\ server'.out = <<>> /\ server'.next = "close"
          /\ server'.refused = s.refused /\ down' = Append(<<"mail">>, "quit")
          /\ server'.bad_command <=> s.bad_command
      BY <1>3, <1>4, <2>2, <2>3, <2>7, <3>1, AnswersCommand
    <3>3. Append(<<"mail">>, "quit") = <<"mail", "quit">>  BY <1>w, Joining
    <3>4. Behind'
      BY <2>1, <2>7, <3>1, <3>2, <3>3 DEF Behind, Input, Output, Waiting
    <3> QED  BY <1>3, <1>5, <1>12, <3>2, <3>4 DEF Together
  <2> QED  BY <2>1, <2>5, <2>6, <2>7
<1>13. ~Quiet /\ ~Answered /\ ~JustRefused /\ ~Trailed
  BY <1>7 DEF Quiet, Answered, JustRefused, Trailed, Input
<1> QED
  BY <1>8, <1>9, <1>10, <1>11, <1>12, <1>13 DEF Together, Aligned
-----------------------------------------------------------------------------
(* What the client's steps do to what is on its way. *)

\* What follows the first of them does not change it.
SameFirst(b, c, d, e) ==
  \/ b # <<>> /\ d # <<>> /\ Head(d) = Head(b)
  \/ b = <<>> /\ c # <<>> /\ d # <<>> /\ Head(d) = Head(c)
  \/ d = b /\ (e = c \/ c = <<>>)
  \/ b = <<>> /\ c = <<>>

\* A line that ends the session still comes first.
LEMMA StaysSpoiled ==
  ASSUME NEW n, NEW a \in Seq(Words), NEW b \in Seq(Words), NEW c \in Seq(Words),
         NEW d \in Seq(Words), NEW e \in Seq(Words)
  PROVE  Spoiled(n, a, b, c) /\ SameFirst(b, c, d, e) => Spoiled(n, a, d, e)
<1>1. /\ a # <<>> => a \o b \o c # <<>> /\ Head(a \o b \o c) = Head(a)
      /\ a = <<>> /\ b # <<>> => a \o b \o c # <<>> /\ Head(a \o b \o c) = Head(b)
      /\ a = <<>> /\ b = <<>> => a \o b \o c = c
  BY FirstOf, SMTT(40)
<1>2. /\ a # <<>> => a \o d \o e # <<>> /\ Head(a \o d \o e) = Head(a)
      /\ a = <<>> /\ d # <<>> => a \o d \o e # <<>> /\ Head(a \o d \o e) = Head(d)
      /\ a = <<>> /\ d = <<>> => a \o d \o e = e
  BY FirstOf, SMTT(40)
<1> SUFFICES ASSUME Spoiled(n, a, b, c), SameFirst(b, c, d, e)
             PROVE  Spoiled(n, a, d, e)
  OBVIOUS
<1>a. CASE n = "close"  BY <1>a DEF Spoiled
<1>b. ASSUME a \o b \o c # <<>>
      PROVE  a \o d \o e # <<>> /\ Head(a \o d \o e) = Head(a \o b \o c)
  <2>0. \/ b # <<>> /\ d # <<>> /\ Head(d) = Head(b)
        \/ b = <<>> /\ c # <<>> /\ d # <<>> /\ Head(d) = Head(c)
        \/ d = b /\ (e = c \/ c = <<>>)
        \/ b = <<>> /\ c = <<>>
    BY DEF SameFirst
  <2>3. CASE a # <<>>  BY <1>1, <1>2, <2>3, Zenon
  <2>4. CASE a = <<>> /\ b # <<>> /\ d # <<>> /\ Head(d) = Head(b)  BY <1>1, <1>2, <2>4, Zenon
  <2>5. CASE a = <<>> /\ b = <<>> /\ d # <<>> /\ Head(d) = Head(c)  BY <1>1, <1>2, <2>5, Zenon
  <2>6. CASE d = b /\ e = c  BY <1>b, <2>6, Zenon
  <2>7. CASE a = <<>> /\ b = <<>> /\ c = <<>>  BY <1>1, <1>b, <2>7, Zenon
  <2> QED  BY <2>0, <2>3, <2>4, <2>5, <2>6, <2>7
<1> QED  BY <1>a, <1>b, Zenon DEF Spoiled

\* What comes after what is left of a refused message does not matter.
LEMMA StaysDoomed ==
  ASSUME Types, Doomed, UNCHANGED server, up' \in Seq(Words), unsent' \in Seq(Words),
         SameFirst(up, unsent, up', unsent')
  PROVE  Doomed'
<1>1. server.buf \in Seq(Words) /\ up \in Seq(Words) /\ unsent \in Seq(Words)
  BY DEF Types, ServerTypes, ClientTypes, SessionRecord
<1>2. Spoiled(server.next, server.buf, up, unsent)  BY DEF Doomed
<1>3. Spoiled(server.next, server.buf, up', unsent')  BY <1>1, <1>2, StaysSpoiled
<1> QED  BY <1>3 DEF Doomed

\* A request is written.
LEMMA WriteStep ==
  ASSUME Types, ClientInv, Together, ClientWrites, ~count[Client].cut
  PROVE  Together'
<1> DEFINE c == C!Command[x.state]
<1>1. /\ Unseen /\ Waiting("write") /\ Waiting("read")' /\ x'.state = x.state
      /\ x.state \in Asks /\ up' = up \o x.request /\ UNCHANGED <<down, unsent>>
      /\ ServerTypes' /\ ClientTypes'
  BY WriteEffect
<1>2. UNCHANGED <<server, kind>>  BY <1>1 DEF Unseen
<1>3. unsent = <<>> /\ x.request = <<c>>
  BY <1>1 DEF ClientInv, Waiting
<1>4. c \in Words  BY <1>1, Waited
<1>5. <<>> \o <<c>> = <<c>>  BY <1>4, Joining
<1>w. ~Waiting("read") /\ ~Waiting("message")  BY <1>1 DEF Waiting
<1>6. CASE Quiet
  <2>1. Asked'
    BY <1>1, <1>2, <1>3, <1>5, <1>6 DEF Quiet, Asked, Input, Output
  <2> QED  BY <2>1 DEF Together, Aligned
<1>7. CASE Trails /\ kind = "session" /\ server.refused
  <2>1. Trails'
    BY <1>1, <1>2, <1>3, <1>5, <1>7, <1>w DEF Trails, Input, Output
  <2> QED  BY <1>2, <1>7, <2>1 DEF Together
<1>8. CASE Behind /\ kind = "session" /\ server.refused
  <2>1. c = "quit"  BY <1>8, Commands DEF Behind
  <2>2. <<"mail">> \o <<"quit">> = <<"mail", "quit">>
    <3>1. "mail" \in Words /\ "quit" \in Words  BY DEF Words
    <3> QED  BY <3>1, Joining
  <2>3. Behind'
    BY <1>1, <1>2, <1>3, <1>5, <1>8, <1>w, <2>1, <2>2 DEF Behind, Input, Output
  <2> QED  BY <1>2, <1>8, <2>3 DEF Together
<1>9. CASE kind \in Streams /\ server.refused /\ Doomed
  <2>1. up \in Seq(Words) /\ <<c>> \in Seq(Words) /\ up' = up \o <<c>>
    BY <1>1, <1>3, <1>4, Short DEF Types, ServerTypes
  <2>2. up # <<>> => up' # <<>> /\ Head(up') = Head(up)
    <3>1. up \o <<c>> \o <<>> = up \o <<c>>
      BY <2>1, ConcatProperties, ConcatEmptySeq
    <3>2. <<>> \in Seq(Words)  OBVIOUS
    <3> HIDE DEF c
    <3> QED  BY <2>1, <3>1, <3>2, FirstOf
  <2>3. up' \in Seq(Words) /\ unsent' \in Seq(Words)
    BY <1>1 DEF ServerTypes, ClientTypes
  <2>4. Doomed'
    BY <1>2, <1>3, <1>9, <2>2, <2>3, StaysDoomed DEF SameFirst
  <2> QED  BY <1>2, <1>9, <2>4 DEF Together
<1> QED
  BY <1>6, <1>7, <1>8, <1>9, <1>w
  DEF Together, Aligned, Asked, Answered, Sending, JustRefused, Trailed

\* A token of a message is sent.
LEMMA FlowStep ==
  ASSUME Types, ClientInv, Together, MessageFlows
  PROVE  Together'
<1>1. /\ Unseen /\ Waiting("message") /\ x.state = "DataSend" /\ x' = x /\ unsent # <<>>
      /\ up' = Append(up, Head(unsent)) /\ unsent' = Tail(unsent) /\ down' = down
      /\ ServerTypes' /\ ClientTypes'
  BY FlowEffect
<1>2. UNCHANGED <<server, kind>>  BY <1>1 DEF Unseen
<1>w. ~Waiting("read") /\ ~Waiting("write")  BY <1>1 DEF Waiting
<1>3. CASE Sending
  <2>1. PICK m \in Messages : Parts(m, server.buf, up, unsent)  BY <1>3 DEF Sending
  <2>m. m \in Words /\ "end" \in Words  BY SystemAssumption DEF Words
  <2>2. /\ Head(<<m, "end">>) = m /\ Tail(<<m, "end">>) = <<"end">>
        /\ Head(<<"end">>) = "end" /\ Tail(<<"end">>) = <<>>
    BY <2>m, Short
  <2>3. /\ Append(<<>>, m) = <<m>> /\ Append(<<m>>, "end") = <<m, "end">>
        /\ Append(<<>>, "end") = <<"end">>
    BY <2>m, Joining
  <2>4. Parts(m, server.buf, up', unsent')
    BY <1>1, <2>1, <2>2, <2>3 DEF Parts
  <2>5. Sending'
    BY <1>1, <1>2, <1>3, <2>4 DEF Sending, Output, Waiting
  <2> QED  BY <2>5 DEF Together, Aligned
<1>4. CASE kind \in Streams /\ server.refused /\ Doomed
  <2>1. up \in Seq(Words) /\ Head(unsent) \in Words
    BY <1>1, HeadTailProperties DEF Types, ServerTypes, ClientTypes
  <2> DEFINE e == Head(unsent)
  <2>2. /\ up # <<>> => up' # <<>> /\ Head(up') = Head(up)
        /\ up = <<>> => up' # <<>> /\ Head(up') = e
    <3>1. up' = up \o <<e>> /\ <<e>> \in Seq(Words) /\ <<e>> # <<>> /\ Head(<<e>>) = e
      BY <1>1, <2>1, AppendIsConcat, Short
    <3>2. up \o <<e>> \o <<>> = up \o <<e>> /\ <<>> \in Seq(Words)
      BY <2>1, <3>1, ConcatProperties, ConcatEmptySeq
    <3> HIDE DEF e
    <3> QED  BY <2>1, <3>1, <3>2, FirstOf
  <2>3. up' \in Seq(Words) /\ unsent' \in Seq(Words)
    BY <1>1 DEF ServerTypes, ClientTypes
  <2>4. Doomed'
    BY <1>1, <1>2, <1>4, <2>2, <2>3, StaysDoomed DEF SameFirst
  <2> QED  BY <1>2, <1>4, <2>4 DEF Together
<1> QED
  BY <1>1, <1>3, <1>4, <1>w
  DEF Together, Aligned, Quiet, Asked, Answered, JustRefused, Trails, Trailed, Behind, Input

\* All of a message is sent.
LEMMA SentStep ==
  ASSUME Types, ClientInv, Together, ClientSendsMessage
  PROVE  Together'
<1>1. /\ Unseen /\ Waiting("message") /\ Waiting("read")' /\ x'.state = x.state
      /\ unsent = <<>> /\ unsent' = <<>> /\ UNCHANGED <<up, down>>
      /\ ServerTypes' /\ ClientTypes'
  BY SentEffect
<1>2. UNCHANGED <<server, kind>>  BY <1>1 DEF Unseen
<1>w. ~Waiting("read") /\ ~Waiting("write")  BY <1>1 DEF Waiting
<1>s. x.state = "DataSend"  BY <1>1 DEF ClientInv, Waiting
<1>3. Answered => Answered'
  BY <1>1, <1>2, <1>s DEF Answered, Input, Output
<1>4. Sending => Sending'
  BY <1>1, <1>2, <1>s DEF Sending, Output
<1>5. JustRefused => JustRefused'
  BY <1>1, <1>2, <1>s DEF JustRefused, Input, Output
<1>6. Doomed => Doomed'
  <2>1. up' \in Seq(Words) /\ unsent' \in Seq(Words)
    BY <1>1 DEF ServerTypes, ClientTypes
  <2> QED  BY <1>1, <1>2, <2>1, StaysDoomed DEF SameFirst
<1> QED
  BY <1>2, <1>3, <1>4, <1>5, <1>6, <1>w
  DEF Together, Aligned, Quiet, Asked, Trails, Trailed, Behind

\* A reply is read.
LEMMA ReplyStep ==
  ASSUME Types, ClientInv, Together, ClientReads, link' # "gone"
  PROVE  Together'
<1>1. /\ Unseen /\ Waiting("read") /\ InSession /\ unsent = <<>> /\ up' = up
      /\ ServerTypes' /\ ClientTypes'
      /\ \/ /\ Head(down) = "crlf" /\ x.state \notin {"WaitHelo", "Quit"}
            /\ x'.state = "Quit" /\ Waiting("write")' /\ unsent' = <<>>
         \/ /\ Head(down) # "crlf" /\ x.state = "Data" /\ x'.state = "DataSend"
            /\ Waiting("message")' /\ \E m \in Messages : unsent' = <<m, "end">>
         \/ /\ Head(down) # "crlf" /\ x.state \notin {"Data", "Quit"}
            /\ x'.state \in After(x.state) /\ x'.state \in Asks
            /\ Waiting("write")' /\ unsent' = <<>>
  BY ReadEffect
<1>2. UNCHANGED <<server, kind>>  BY <1>1 DEF Unseen
<1>3. PICK n \in 1 .. Len(down) : down' = SubSeq(down, n + 1, Len(down))  BY ReadEffect
<1>4. down # <<>>  BY <1>3
<1>w. ~Waiting("message") /\ ~Waiting("write")  BY <1>1 DEF Waiting
<1>t. ASSUME NEW c \in Words, down = <<c>>
      PROVE  down' = <<>> /\ Head(down) = c
  BY <1>3, <1>t, TakingOne, Short
<1>u. ASSUME NEW a \in Words, NEW b \in Words, down = <<a, b>>
      PROVE  (down' = <<b>> \/ down' = <<>>) /\ Head(down) = a
  BY <1>3, <1>u, TakingTwo, Short
<1>v. "message" \in Words /\ "crlf" \in Words /\ "greeting" \in Words /\ "mail" \in Words
  BY DEF Words
<1>5. CASE Answered
  <2> DEFINE a == Awaits(x.state)
  <2>1. a \in Words /\ a # "crlf"
    BY <1>1, <1>v, Waited DEF InSession
  <2>2. /\ Input(<<>>, <<>>, <<>>) /\ Output(<<>>, <<a>>) /\ server.next = Follows(x.state)
    BY <1>5 DEF Answered
  <2>3. down' = <<>> /\ Head(down) # "crlf"  BY <1>t, <2>1, <2>2 DEF Output
  <2>4. CASE x.state = "Data"
    <3>1. server.next = "data"  BY <2>2, <2>4 DEF Follows
    <3>2. PICK m \in Messages : unsent' = <<m, "end">>  BY <1>1, <2>3, <2>4
    <3>3. Parts(m, server'.buf, up', unsent')
      BY <1>1, <1>2, <2>2, <3>2 DEF Parts, Input
    <3>4. Sending'
      BY <1>1, <1>2, <2>2, <2>3, <2>4, <3>1, <3>3 DEF Sending, Output
    <3> QED  BY <3>4 DEF Together, Aligned
  <2>5. CASE x.state # "Data"
    <3>1. x.state # "Quit" /\ x'.state \in Asks /\ Waiting("write")' /\ unsent' = <<>>
      BY <1>1, <2>3, <2>5
    <3>2. server.next = "line"  BY <2>2, <2>5, <3>1 DEF Follows
    <3>3. Quiet'
      BY <1>1, <1>2, <2>2, <2>3, <3>1, <3>2 DEF Quiet, Input, Output
    <3> QED  BY <3>3 DEF Together, Aligned
  <2> QED  BY <2>4, <2>5
<1>6. CASE JustRefused /\ kind = "session" /\ server.refused
  <2>1. /\ x.state = "DataSend" /\ Input(<<>>, <<>>, <<>>) /\ server.next = "line"
        /\ \/ Output(<<"crlf">>, <<"message">>) /\ server.pc = "writing"
           \/ Output(<<>>, <<"message", "crlf">>)
    BY <1>6 DEF JustRefused
  <2>2. Head(down) = "message" /\ down' \in {<<>>, <<"crlf">>}
    BY <1>t, <1>u, <1>v, <2>1 DEF Output
  <2>3. /\ x'.state \in {"MailFrom", "Quit"} /\ x'.state \in Asks /\ Waiting("write")'
        /\ unsent' = <<>>
    BY <1>1, <2>1, <2>2 DEF After
  <2>4. CASE Output(<<"crlf">>, <<"message">>) /\ server.pc = "writing"
    <3>1. down' = <<>>  BY <1>t, <1>v, <2>4 DEF Output
    <3>2. Trails'
      BY <1>1, <1>2, <2>1, <2>3, <2>4, <3>1 DEF Trails, Input, Output
    <3> QED  BY <1>2, <1>6, <3>2 DEF Together
  <2>5. CASE Output(<<>>, <<"message", "crlf">>) /\ down' = <<"crlf">>
    <3>1. Trails'
      BY <1>1, <1>2, <2>1, <2>3, <2>5 DEF Trails, Input, Output
    <3> QED  BY <1>2, <1>6, <3>1 DEF Together
  <2>6. CASE Output(<<>>, <<"message", "crlf">>) /\ down' = <<>>
    <3>1. Quiet'
      BY <1>1, <1>2, <2>1, <2>3, <2>6 DEF Quiet, Input, Output
    <3> QED  BY <3>1 DEF Together, Aligned
  <2> QED  BY <2>1, <2>2, <2>4, <2>5, <2>6
<1>7. CASE Trails /\ kind = "session" /\ server.refused
  <2>1. /\ x.state \in {"MailFrom", "Quit"} /\ Input(<<>>, <<C!Command[x.state]>>, <<>>)
        /\ Output(<<>>, <<"crlf">>) /\ server.next = "line"
    BY <1>4, <1>7, <1>w DEF Trails, Output
  <2>2. down' = <<>> /\ Head(down) = "crlf"  BY <1>t, <1>v, <2>1 DEF Output
  <2>3. x.state = "MailFrom" /\ x'.state = "Quit" /\ Waiting("write")' /\ unsent' = <<>>
    BY <1>1, <2>1, <2>2
  <2>4. C!Command["MailFrom"] = "mail"  BY Commands
  <2>5. Behind'
    BY <1>1, <1>2, <2>1, <2>2, <2>3, <2>4 DEF Behind, Input, Output
  <2> QED  BY <1>2, <1>7, <2>5 DEF Together
<1>8. CASE Trailed /\ kind = "session" /\ server.refused
  <2> DEFINE c == C!Command[x.state]
  <2>1. /\ x.state \in {"MailFrom", "Quit"} /\ Input(<<>>, <<>>, <<>>)
        /\ Output(<<>>, <<"crlf", c>>) /\ server.next = Follows(x.state)
    BY <1>8 DEF Trailed
  <2>2. c \in Words  BY <2>1, Waited DEF Asks
  <2>3. (down' = <<c>> \/ down' = <<>>) /\ Head(down) = "crlf"
    BY <1>u, <1>v, <2>1, <2>2 DEF Output
  <2>4. x.state = "MailFrom" /\ x'.state = "Quit" /\ Waiting("write")' /\ unsent' = <<>>
    BY <1>1, <2>1, <2>3
  <2>5. c = "mail" /\ server.next = "line" /\ "Quit" \in Asks
    BY <2>1, <2>4, Commands DEF Follows, Asks
  <2>6. CASE down' = <<c>>
    <3>1. Behind'
      BY <1>1, <1>2, <2>1, <2>4, <2>5, <2>6 DEF Behind, Input, Output
    <3> QED  BY <1>2, <1>8, <3>1 DEF Together
  <2>7. CASE down' = <<>>
    <3>1. Quiet'
      BY <1>1, <1>2, <2>1, <2>4, <2>5, <2>7 DEF Quiet, Input, Output
    <3> QED  BY <3>1 DEF Together, Aligned
  <2> QED  BY <2>3, <2>6, <2>7
<1>9. ~Behind  BY <1>1, <1>w DEF Behind
<1>10. CASE kind \in Streams /\ server.refused /\ Doomed
  <2>1. up' \in Seq(Words) /\ unsent' \in Seq(Words)
    BY <1>1 DEF ServerTypes, ClientTypes
  <2>2. Doomed'  BY <1>1, <1>2, <1>10, <2>1, StaysDoomed DEF SameFirst
  <2> QED  BY <1>2, <1>10, <2>2 DEF Together
<1> QED
  BY <1>4, <1>5, <1>6, <1>7, <1>8, <1>9, <1>10
  DEF Together, Aligned, Quiet, Asked, Sending, Output
-----------------------------------------------------------------------------
(* The invariant. *)

\* No message is under way at first.
LEMMA InitInv == SystemInit => IInv
<1> SUFFICES ASSUME SystemInit PROVE IInv
  OBVIOUS
<1> DEFINE y == [state |-> "Initial", pending |-> {"start"}, tries |-> 0, socket |-> "closed",
                 request |-> <<>>, sample |-> FALSE, sent_in_session |-> 1, sent_total |-> 1]
           n == [sessions |-> 0, begun |-> 0, in_session |-> 0, logged |-> 0, cut |-> FALSE]
<1>1. /\ client = [c \in {Client} |-> y] /\ count = [c \in {Client} |-> n]
      /\ aborted = FALSE /\ unsent = <<>> /\ breaks = 0
  BY DEF SystemInit, C!Init
<1>2. /\ kind \in Kinds /\ server = Ended(Greeted).session
      /\ watchdog = [wait |-> "ended", due |-> FALSE]
      /\ up = <<>> /\ down = <<>> /\ link = "gone"
  BY DEF SystemInit, Init
<1>e. <<>> \in Seq(Words)  OBVIOUS
<1>3. y \in ClientRecord
  <2>1. "Initial" \in C!States /\ {"start"} \in SUBSET C!Operations
    BY DEF C!States, C!Operations
  <2> QED  BY <1>e, <2>1 DEF ClientRecord
<1>4. n \in CountRecord  BY DEF CountRecord
<1>5. x = y /\ count[Client] = n  BY <1>1 DEF x
<1>6. /\ y.state = "Initial" /\ y.pending = {"start"} /\ y.socket = "closed" /\ ~y.sample
      /\ y.request = <<>>
  OBVIOUS
<1> HIDE DEF y, n
<1>7. ClientTypes  BY <1>1, <1>3, <1>4, <1>e DEF ClientTypes
<1>8. ClientInv  BY <1>1, <1>2, <1>5, <1>6 DEF ClientInv, Waiting, Asks
<1>9. /\ server \in SessionRecord /\ server.pc = "ended" /\ ~server.open
      /\ ~server.bad_command
  BY <1>2, <1>e DEF Ended, Greeted, SessionRecord, Places
<1>10. ServerTypes /\ SessionInv
  BY <1>2, <1>9, <1>e, KindsAssumption DEF ServerTypes, SessionInv, Waits
<1>11. StepInv /\ NoBadCommand  BY <1>9 DEF StepInv, NoBadCommand, Live
<1> QED  BY <1>7, <1>8, <1>10, <1>11 DEF IInv

\* The session's steps.
LEMMA SessionInvariant ==
  ASSUME IInv, ServerStep(Session)
  PROVE  IInv'
<1>1. Session /\ UNCHANGED clientVars /\ breaks' = breaks  BY DEF ServerStep
<1>2. ServerTypes /\ ClientTypes /\ SessionInv /\ ClientInv /\ Types  BY DEF IInv, Types
<1>3. ServerTypes' /\ SessionInv'  BY <1>1, <1>2, SessionStep
<1>4. kind' = kind /\ link' = link
  <2>1. (\E r : Goes(r)) => kind' = kind /\ link' = link  BY DEF Goes
  <2> QED  BY <1>1, <2>1 DEF Session, Written, ReadSome, Hangup
<1>5. ClientTypes' /\ ClientInv' /\ UNCHANGED <<x, count, unsent>>
  <2>1. breaks' \in Nat  BY <1>1, <1>2 DEF ClientTypes
  <2> QED  BY <1>1, <1>2, <1>4, <2>1, ServerEffect
<1>6. CASE Written \/ ReadSome
  <2>1. Works  BY <1>6 DEF Written, ReadSome
  <2>2. CASE ~count[Client].cut
    <3>1. Together  BY <2>1, <2>2 DEF IInv, StepInv, Live, Works
    <3>2. /\ server'.open => Together'
          /\ server'.bad_command => server.bad_command \/ kind \in Streams
      BY <1>2, <1>5, <1>6, <3>1, WrittenStep, ReadStep
    <3>3. StepInv'  BY <3>2 DEF StepInv, Live
    <3>4. NoBadCommand'
      BY <1>4, <1>5, <2>2, <3>2 DEF IInv, NoBadCommand, Streams
    <3> QED  BY <1>3, <1>5, <3>3, <3>4 DEF IInv
  <2>3. CASE count[Client].cut
    <3>1. StepInv' /\ NoBadCommand'
      BY <1>5, <2>3 DEF StepInv, Live, NoBadCommand
    <3> QED  BY <1>3, <1>5, <3>1 DEF IInv
  <2> QED  BY <2>2, <2>3
<1>7. CASE Hangup
  <2>1. server' = [server EXCEPT !.pc = "ended", !.open = FALSE]
    BY <1>7 DEF Hangup, Goes, Ended
  <2>2. ~server'.open /\ server'.bad_command = server.bad_command
    BY <1>2, <2>1 DEF ServerTypes, SessionRecord
  <2>3. StepInv' /\ NoBadCommand'
    BY <1>4, <1>5, <2>2 DEF IInv, StepInv, Live, NoBadCommand
  <2> QED  BY <1>3, <1>5, <2>3 DEF IInv
<1> QED  BY <1>1, <1>6, <1>7 DEF Session

\* The watchdog and the time.
LEMMA WatchInvariant ==
  ASSUME IInv, ServerStep(Watch) \/ ServerStep(Expire)
  PROVE  IInv'
<1>1. (Watch \/ Expire) /\ UNCHANGED clientVars /\ breaks' = breaks  BY DEF ServerStep
<1>2. ServerTypes /\ ClientTypes /\ SessionInv /\ ClientInv /\ Types  BY DEF IInv, Types
<1>3. ServerTypes' /\ SessionInv'  BY <1>1, <1>2, SessionStep
<1>4. /\ server' = server \/ server' = [server EXCEPT !.open = FALSE]
      /\ UNCHANGED <<kind, up, down, link>>
  BY <1>1 DEF Watch, Expire, Closed
<1>5. ClientTypes' /\ ClientInv' /\ UNCHANGED <<x, count, unsent>>
  <2>1. breaks' \in Nat  BY <1>1, <1>2 DEF ClientTypes
  <2> QED  BY <1>1, <1>2, <1>4, <2>1, ServerEffect
<1>6. server'.bad_command = server.bad_command /\ (server'.open => server' = server)
  BY <1>2, <1>4 DEF ServerTypes, SessionRecord
<1>7. server' = server => (Together <=> Together')
  BY <1>4, <1>5
  DEF Together, Aligned, Quiet, Asked, Answered, Sending, JustRefused, Trails, Trailed,
      Behind, Doomed, Waiting, Input, Output
<1>8. StepInv' /\ NoBadCommand'
  BY <1>4, <1>5, <1>6, <1>7 DEF IInv, StepInv, Live, NoBadCommand
<1> QED  BY <1>3, <1>5, <1>8 DEF IInv

\* The client's steps, and a connection that breaks.
LEMMA ClientInvariant ==
  ASSUME IInv, ClientStep
  PROVE  IInv'
<1>2. ServerTypes /\ ClientTypes /\ SessionInv /\ ClientInv /\ Types  BY DEF IInv, Types
<1>3. ASSUME ServerTypes', ClientTypes', ClientInv', Unseen, Live' => Together'
      PROVE  IInv'
  <2>1. UNCHANGED <<kind, server, watchdog>>  BY <1>3 DEF Unseen
  <2>2. SessionInv'
    <3>1. Data(server.buf)' = Data(server.buf)
      BY <2>1 DEF Data, StreamData, ZcData
    <3> QED  BY <1>2, <2>1, <3>1 DEF SessionInv
  <2>3. NoBadCommand'
    BY <1>3, <2>1 DEF IInv, NoBadCommand, Unseen
  <2>4. StepInv'  BY <1>3 DEF StepInv
  <2> QED  BY <1>3, <2>2, <2>3, <2>4 DEF IInv
<1>4. ASSUME Unseen, Live' PROVE Live /\ Together /\ ~count[Client].cut
  <2>1. Live  BY <1>4 DEF Unseen, Live
  <2> QED  BY <2>1 DEF IInv, StepInv, Live
<1>5. CASE ClientStarts \/ ClientResolves
  BY <1>2, <1>3, <1>5, StartEffect
<1>6. CASE ClientWriteFails \/ ClientMessageFails \/ ClientReadFails
  BY <1>2, <1>3, <1>6, FailEffect
<1>7. CASE ClientConnects
  <2>1. /\ ServerTypes' /\ ClientTypes' /\ ClientInv' /\ SessionInv' /\ Answered'
        /\ ~server'.bad_command
    BY <1>2, <1>7, ConnectEffect
  <2>2. StepInv' /\ NoBadCommand'
    BY <2>1 DEF StepInv, Together, Aligned, NoBadCommand
  <2> QED  BY <2>1, <2>2 DEF IInv
<1>8. CASE ClientWrites
  <2>1. ServerTypes' /\ ClientTypes' /\ ClientInv' /\ Unseen  BY <1>2, <1>8, WriteEffect
  <2>2. Live' => Together'  BY <1>2, <1>4, <1>8, <2>1, WriteStep
  <2> QED  BY <1>3, <2>1, <2>2
<1>9. CASE MessageFlows
  <2>1. ServerTypes' /\ ClientTypes' /\ ClientInv' /\ Unseen  BY <1>2, <1>9, FlowEffect
  <2>2. Live' => Together'  BY <1>2, <1>4, <1>9, <2>1, FlowStep
  <2> QED  BY <1>3, <2>1, <2>2
<1>10. CASE ClientSendsMessage
  <2>1. ServerTypes' /\ ClientTypes' /\ ClientInv' /\ Unseen  BY <1>2, <1>10, SentEffect
  <2>2. Live' => Together'  BY <1>2, <1>4, <1>10, <2>1, SentStep
  <2> QED  BY <1>3, <2>1, <2>2
<1>11. CASE ClientReads
  <2>1. ServerTypes' /\ ClientTypes' /\ ClientInv' /\ Unseen  BY <1>2, <1>11, ReadEffect
  <2>2. Live' => link' # "gone"  BY DEF Live
  <2>3. Live' => Together'  BY <1>2, <1>4, <1>11, <2>1, <2>2, ReplyStep
  <2> QED  BY <1>3, <2>1, <2>3
<1> QED
  BY <1>5, <1>6, <1>7, <1>8, <1>9, <1>10, <1>11 DEF ClientStep

\* A connection that breaks is not live any more.
LEMMA BreakInvariant ==
  ASSUME IInv, Break
  PROVE  IInv'
<1>1. /\ link = "up" /\ link' = "cut" /\ breaks' = breaks + 1
      /\ UNCHANGED <<kind, server, watchdog, up, down, clientVars>>
  BY DEF Break
<1>2. ServerTypes /\ ClientTypes /\ SessionInv /\ ClientInv /\ Types  BY DEF IInv, Types
<1>3. ClientTypes' /\ ClientInv' /\ UNCHANGED <<x, count, unsent>>
  <2>1. breaks' \in Nat  BY <1>1, <1>2 DEF ClientTypes
  <2> QED  BY <1>1, <1>2, <2>1, ServerEffect
<1>4. ServerTypes' /\ SessionInv'
  <2>1. Data(server.buf)' = Data(server.buf)
    BY <1>1 DEF Data, StreamData, ZcData
  <2> QED  BY <1>1, <1>2, <2>1 DEF ServerTypes, SessionInv
<1>5. StepInv' /\ NoBadCommand'
  BY <1>1, <1>3 DEF IInv, StepInv, Live, NoBadCommand
<1> QED  BY <1>3, <1>4, <1>5 DEF IInv

\* The invariant is about these variables only.
LEMMA StutterInvariant ==
  ASSUME IInv, UNCHANGED systemVars
  PROVE  IInv'
<1>1. UNCHANGED <<kind, server, watchdog, up, down, link, client, count, aborted, unsent,
                  breaks>>
  BY DEF systemVars, serverVars, clientVars
<1>2. x' = x  BY <1>1 DEF x
<1>3. Data(server.buf)' = Data(server.buf)  BY <1>1 DEF Data, StreamData, ZcData
<1>4. ServerTypes' /\ ClientTypes' /\ SessionInv' /\ ClientInv'
  BY <1>1, <1>2, <1>3 DEF IInv, ServerTypes, ClientTypes, SessionInv, ClientInv, Waiting
<1>5. Together <=> Together'
  BY <1>1, <1>2
  DEF Together, Aligned, Quiet, Asked, Answered, Sending, JustRefused, Trails, Trailed,
      Behind, Doomed, Waiting, Input, Output
<1>6. StepInv' /\ NoBadCommand'
  BY <1>1, <1>5 DEF IInv, StepInv, Live, NoBadCommand
<1> QED  BY <1>4, <1>6 DEF IInv

\* The inductive invariant holds.
LEMMA Inductive == SystemSpec => []IInv
<1>1. SystemInit => IInv  BY InitInv
<1>2. IInv /\ [SystemNext]_systemVars => IInv'
  BY SessionInvariant, WatchInvariant, ClientInvariant, BreakInvariant, StutterInvariant
  DEF SystemNext
<1> QED  BY <1>1, <1>2, PTL DEF SystemSpec
-----------------------------------------------------------------------------
(* What it implies. *)

\* Client and server stay in step, for every server, whatever messages are sent and
\* limits set, and whenever connections break (InStep).
THEOREM ClientAndServerStayInStep == SystemSpec => []InStep
<1>1. IInv => InStep
  <2> SUFFICES ASSUME IInv PROVE InStep
    OBVIOUS
  <2>1. server.bad_command /\ kind \in {"async", "session"} => count[Client].cut
    BY DEF IInv, NoBadCommand
  <2>2. ASSUME link = "up", server.open, Undisturbed
        PROVE  LET input == server.buf \o up
               IN  /\ input # <<>> => Sends(x.state, input) /\ down = <<>>
                   /\ down # <<>> => down = <<Awaits(x.state)>>
    <3> DEFINE input == server.buf \o up
    <3>1. Together  BY <2>2 DEF IInv, StepInv, Live, Undisturbed
    <3>2. Aligned  BY <2>2, <3>1 DEF Together, Undisturbed, Streams
    <3>e. <<>> \o <<>> = <<>>  BY ConcatEmptySeq, EmptySeq
    <3>3. CASE Quiet
      <4>1. input = <<>> /\ down = <<>>  BY <3>3, <3>e DEF Quiet, Input, Output
      <4> HIDE DEF input
      <4> QED  BY <4>1 DEF input
    <3>4. CASE Asked
      <4> DEFINE c == C!Command[x.state]
      <4>1. x.state \in Asks /\ c \in Words  BY <3>4, Waited DEF Asked
      <4>2. input = <<c>> /\ down = <<>>
        <5>1. <<>> \o <<c>> = <<c>>  BY <4>1, Joining
        <5> QED  BY <3>4, <5>1 DEF Asked, Input, Output
      <4>3. Sends(x.state, <<c>>)  BY <4>1, Commands DEF Sends
      <4> QED  BY <4>2, <4>3
    <3>5. CASE Answered
      <4>1. input = <<>> /\ down = <<Awaits(x.state)>>
        BY <3>5, <3>e DEF Answered, Input, Output
      <4> QED  BY <4>1
    <3>6. CASE Sending
      <4>1. PICK m \in Messages : Parts(m, server.buf, up, unsent)  BY <3>6 DEF Sending
      <4>m. m \in Words /\ "end" \in Words  BY SystemAssumption DEF Words
      <4>2. input \in {<<>>, <<m>>, <<m, "end">>}
        <5>1. /\ <<>> \o <<>> = <<>> /\ <<>> \o <<m>> = <<m>> /\ <<m>> \o <<>> = <<m>>
              /\ <<>> \o <<m, "end">> = <<m, "end">> /\ <<m, "end">> \o <<>> = <<m, "end">>
              /\ <<m>> \o <<"end">> = <<m, "end">>
          BY <4>m, Joining
        <5> QED  BY <4>1, <5>1 DEF Parts
      <4>3. IsPrefix(<<>>, <<m, "end">>) /\ IsPrefix(<<m>>, <<m, "end">>)
              /\ IsPrefix(<<m, "end">>, <<m, "end">>)
        BY <4>m DEF IsPrefix
      <4>4. x.state = "DataSend" /\ x.state \notin Asks /\ down = <<>>
        BY <3>6 DEF Sending, Output, Asks
      <4> HIDE DEF input
      <4>5. Sends(x.state, input)
        BY <4>2, <4>3, <4>4, Commands DEF Sends
      <4> QED  BY <4>4, <4>5 DEF input
    <3> QED  BY <3>2, <3>3, <3>4, <3>5, <3>6 DEF Aligned
  <2> QED  BY <2>1, <2>2 DEF InStep
<1> QED  BY <1>1, Inductive, PTL

\* Client and server wait for each other only over a message with an empty body, at a
\* server that parses it while reading, or after a command was repeated
\* (DeadlockOnlyBodyless).
THEOREM NoOtherDeadlock == SystemSpec => []DeadlockOnlyBodyless
<1>1. IInv => DeadlockOnlyBodyless
  <2> SUFFICES ASSUME IInv, Deadlocked, ~count[Client].cut
               PROVE  /\ kind \notin {"async", "session"}
                      /\ server.next = "data" /\ Contains(server.buf, "bodyless")
    BY DEF DeadlockOnlyBodyless
  <2>1. /\ "read" \in x.pending /\ down = <<>> /\ server.pc = "reading" /\ up = <<>>
        /\ server.open /\ link = "up"
    BY DEF Deadlocked, Works
  <2>2. Together  BY <2>1 DEF IInv, StepInv, Live
  <2>3. Waiting("read") /\ ~Waiting("write") /\ ~Waiting("message") /\ unsent = <<>>
    BY <2>1 DEF IInv, ClientInv, Waiting
  <2>4. /\ server.out = <<>> /\ server.next # "close"
        /\ server.next = "line" => server.buf = <<>>
        /\ server.next = "data" => Data(server.buf) = {}
    BY <2>1 DEF IInv, SessionInv
  <2>m. \A m \in Messages : m \in Words /\ m \in {"good", "bad", "bodyless"}
    BY SystemAssumption DEF Words
  <2>n. \A c \in Words : <<c>> # <<>> /\ \A d \in Words : <<c, d>> # <<>>
    BY Short
  <2>w. "end" \in Words /\ "message" \in Words /\ "crlf" \in Words /\ "mail" \in Words
          /\ "quit" \in Words /\ "greeting" \in Words
    BY DEF Words
  <2>5. CASE Aligned
    <3>1. ~Quiet  BY <2>3 DEF Quiet
    <3>2. ~Asked  BY <2>1, <2>n, Waited DEF Asked, Input
    <3>3. ~Answered  BY <2>1, <2>n, <2>w, Waited DEF Answered, Output
    <3>4. Sending  BY <2>5, <3>1, <3>2, <3>3 DEF Aligned
    <3>5. PICK m \in Messages : Parts(m, server.buf, up, unsent)  BY <3>4 DEF Sending
    <3>6. server.buf = <<m, "end">>
      BY <2>1, <2>3, <2>m, <2>n, <2>w, <3>5 DEF Parts
    <3>7. server.next = "data"  BY <3>4 DEF Sending
    <3>8. kind \in Streams /\ m = "bodyless"
      BY <2>4, <3>6, <3>7, WholeMessage DEF IInv
    <3>9. Contains(<<m, "end">>, m)
      BY <2>m, <2>w, Short DEF Contains
    <3> QED  BY <3>6, <3>7, <3>8, <3>9 DEF Streams
  <2>6. ~JustRefused  BY <2>1, <2>n, <2>w DEF JustRefused, Output
  <2>7. ~Trails
    <3>1. \A s \in {"MailFrom", "Quit"} : C!Command[s] \in Words  BY Waited DEF Asks
    <3> QED  BY <2>1, <2>3, <2>n, <3>1 DEF Trails, Input
  <2>8. ~Trailed
    <3>1. \A s \in {"MailFrom", "Quit"} : C!Command[s] \in Words  BY Waited DEF Asks
    <3> QED  BY <2>1, <2>n, <2>w, <3>1 DEF Trailed, Output
  <2>9. ~Behind  BY <2>1, <2>3, <2>n, <2>w DEF Behind, Input, Output
  <2>10. ~Doomed
    <3>1. <<>> \o <<>> \o <<>> = <<>>  BY ConcatEmptySeq, EmptySeq
    <3> QED  BY <2>1, <2>3, <2>4, <3>1 DEF Doomed, Spoiled
  <2> QED  BY <2>2, <2>5, <2>6, <2>7, <2>8, <2>9, <2>10 DEF Together
<1> QED  BY <1>1, Inductive, PTL

\* No session that has ended leaves its watchdog waiting for the timer
\* (WatchdogReleased).
THEOREM WatchdogsAreReleased == SystemSpec => []WatchdogReleased
<1>1. IInv => WatchdogReleased  BY DEF IInv, SessionInv, WatchdogReleased
<1> QED  BY <1>1, Inductive, PTL
=============================================================================
