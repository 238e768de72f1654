--------------------------- MODULE SmtpClientProofs ---------------------------
(***************************************************************************)
(* The safety of SmtpClient for any number of clients, any limits and any  *)
(* failures.  A handler of one client changes that client alone, so the    *)
(* invariant says of each client by itself what it waits for in each state *)
(* of the machine, whether its socket is open, what is in request_, and    *)
(* how the two counters of the machine relate to what was really sent:     *)
(* both lag behind by the message that a session ends with.                *)
(***************************************************************************)
EXTENDS SmtpClient, FiniteSetTheorems, TLAPS

Tokens == {"helo", "mail", "rcpt", "data", "quit", "rest"}

Client ==
  [state : States, pending : SUBSET Operations, tries : 0 .. MaxTries,
   socket : {"open", "closed"}, request : Seq(Tokens), sample : BOOLEAN,
   sent_in_session : Nat, sent_total : Nat]

Count ==
  [sessions : Nat, begun : Nat, in_session : Nat, logged : Nat, cut : BOOLEAN]

\* The states whose entry action sends a command.
Asking == {"Handshake", "MailFrom", "RcptTo", "Data", "Quit"}

\* What a client waits for in each state.
Waits(x) ==
  \/ x.state = "Destroy" /\ x.pending = {}
  \/ x.state = "Initial" /\ x.pending = {"start"}
  \/ x.state = "Resolve" /\ x.pending = {"resolve"}
  \/ x.state = "Connect" /\ x.pending = {"connect"}
  \/ x.state = "WaitHelo" /\ x.pending = {"read"}
  \/ x.state = "DataSend" /\ x.pending \in {{"message"}, {"read"}}
  \/ x.state \in Asking /\ x.pending \in {{"write"}, {"read"}}

\* The socket is open in a session, but may still be at the end.
Socket(x) ==
  /\ x.state \in {"Initial", "Resolve", "Connect"} => x.socket = "closed"
  /\ x.state \in Asking \cup {"WaitHelo", "DataSend"} => x.socket = "open"

\* request_ holds the command that is being written and nothing else.
Request(x, n) ==
  ~n.cut => x.request = IF "write" \in x.pending THEN <<Command[x.state]>> ELSE <<>>

\* The states of a session in which its next message has not begun.
Before == {"WaitHelo", "Handshake", "MailFrom", "RcptTo", "Data"}

\* The counters of the state machine.  A message of a session that has begun is
\* counted when the next one is asked for, and the last of a session never.
Bounds(x, n) ==
  /\ x.sent_in_session > 0 /\ x.sent_total > 0
  /\ SessionMessages > 0 => x.sent_in_session <= SessionMessages
  /\ TotalMessages > 0 => x.sent_total <= TotalMessages
  /\ n.in_session <= x.sent_in_session
  /\ n.begun <= x.sent_total + n.sessions - 1
  /\ n.sessions = 0 => n.begun = 0 /\ x.socket = "closed"
  /\ x.state \in Before => /\ n.in_session < x.sent_in_session
                           /\ n.begun <= x.sent_total + n.sessions - 2

\* A sample is taken while a message is sent, and every other is logged.
Counts(x, n) ==
  /\ x.sample <=> x.state = "DataSend"
  /\ n.begun = n.logged + (IF x.sample THEN 1 ELSE 0)
  /\ Bounds(x, n)

ClientInv(x, n) ==
  /\ x \in Client /\ n \in Count
  /\ Waits(x) /\ Socket(x) /\ Request(x, n) /\ Counts(x, n)

IInv ==
  /\ TypeOK
  /\ \A c \in Clients : ClientInv(client[c], count[c])

\* What Handle makes of the counts.
Counted(x, n, y, cut) ==
  LET opened == x.socket = "closed" /\ y.socket = "open"
      begins == y.sample /\ ~x.sample
  IN  [sessions   |-> IF opened THEN n.sessions + 1 ELSE n.sessions,
       begun      |-> IF begins THEN n.begun + 1 ELSE n.begun,
       in_session |-> IF opened THEN 0
                      ELSE IF begins THEN n.in_session + 1 ELSE n.in_session,
       logged     |-> IF x.sample /\ ~y.sample THEN n.logged + 1 ELSE n.logged,
       cut        |-> n.cut \/ cut]

\* A step that opens no session and neither begins nor ends a message.
Same(m, n, cut) ==
  /\ m \in Count /\ m.cut = (n.cut \/ cut)
  /\ m.sessions = n.sessions /\ m.begun = n.begun
  /\ m.in_session = n.in_session /\ m.logged = n.logged

Alike(y, x) == y.sent_in_session = x.sent_in_session /\ y.sent_total = x.sent_total

\* A step that ends a message, if there is one.
Logged(m, n, x) ==
  /\ m \in Count /\ m.sessions = n.sessions /\ m.begun = n.begun
  /\ m.in_session = n.in_session
  /\ m.logged = n.logged + (IF x.sample THEN 1 ELSE 0)

Destroyed(x) == [x EXCEPT !.state = "Destroy"]

\* The states that send a command are those that Asking names.
LEMMA CommandFacts ==
  /\ DOMAIN Command = Asking
  /\ \A s \in Asking : Command[s] \in Tokens
BY DEF Command, Asking, Tokens

\* Which command follows which.
LEMMA FollowingFacts ==
  /\ DOMAIN Following = {"WaitHelo", "Handshake", "MailFrom", "RcptTo"}
  /\ Following["WaitHelo"] = "Handshake" /\ Following["Handshake"] = "MailFrom"
  /\ Following["MailFrom"] = "RcptTo" /\ Following["RcptTo"] = "Data"
BY DEF Following

\* Entering a state that sends a command.
LEMMA AskFacts ==
  ASSUME NEW x \in Client, NEW s \in Asking, x.pending = {}
  PROVE  /\ Ask(x, s) \in Client
         /\ Ask(x, s).state = s /\ Ask(x, s).pending = {"write"}
         /\ Ask(x, s).request = Append(x.request, Command[s])
         /\ Ask(x, s).tries = x.tries /\ Ask(x, s).socket = x.socket
         /\ Ask(x, s).sample = x.sample
         /\ Ask(x, s).sent_in_session = x.sent_in_session
         /\ Ask(x, s).sent_total = x.sent_total
<1>1. Command[s] \in Tokens
  BY CommandFacts
<1>2. Append(x.request, Command[s]) \in Seq(Tokens)
  BY <1>1 DEF Client
<1>3. s \in States /\ {"write"} \in SUBSET Operations
  BY DEF Asking, States, MessageSend, Operations
<1>4. QED
  BY <1>2, <1>3 DEF Client, Ask, Begin

\* A client that asks: from x, whose counters are those of z or adjusted, in a
\* session that is open, to the state s.
LEMMA AskInv ==
  ASSUME NEW x \in Client, NEW n \in Count, NEW cut \in BOOLEAN, NEW z \in Client,
         NEW s \in Asking,
         x.pending = {}, x.socket = "open", z.socket = "open", ~x.sample,
         ~(n.cut \/ cut) => x.request = <<>>,
         Counts([x EXCEPT !.state = s], Counted(z, n, [x EXCEPT !.state = s], cut))
  PROVE  ClientInv(Ask(x, s), Counted(z, n, Ask(x, s), cut))
<1> DEFINE y == Ask(x, s)
           m == Counted(z, n, y, cut)
<1>1. /\ y \in Client /\ y.state = s /\ y.pending = {"write"}
      /\ y.request = Append(x.request, Command[s])
      /\ y.socket = x.socket /\ y.sample = x.sample
      /\ y.sent_in_session = x.sent_in_session /\ y.sent_total = x.sent_total
  BY AskFacts
<1>2. m = Counted(z, n, [x EXCEPT !.state = s], cut)
  BY <1>1 DEF Counted, Client
<1>3. m \in Count /\ m.cut = (n.cut \/ cut)
  BY <1>1 DEF Counted, Client, Count
<1>4. Waits(y) /\ Socket(y)
  BY <1>1 DEF Waits, Socket, Asking
<1>5. Request(y, m)
  <2>1. ~m.cut => x.request = <<>>
    BY <1>3
  <2>2. Append(<<>>, Command[s]) = <<Command[s]>>
    OBVIOUS
  <2>3. ~m.cut => y.request = <<Command[s]>>
    BY <1>1, <2>1, <2>2
  <2>4. QED
    BY <1>1, <2>3 DEF Request
<1>6. Counts(y, m)
  BY <1>1, <1>2 DEF Counts, Bounds, Client, Asking
<1>7. QED
  BY <1>1, <1>3, <1>4, <1>5, <1>6 DEF ClientInv

\* A client that leaves its session, if it has one, for the next or for the end.
LEMMA ConnectInv ==
  ASSUME NEW x \in Client, NEW n \in Count, NEW cut \in BOOLEAN, NEW z \in Client,
         x.pending = {}, x.socket = "closed", ~x.sample, ~z.sample,
         ~(n.cut \/ cut) => x.request = <<>>, Counts(z, n),
         x.sent_in_session = z.sent_in_session, x.sent_total = z.sent_total
  PROVE  ClientInv(EnterConnect(x), Counted(z, n, EnterConnect(x), cut))
<1> DEFINE y == EnterConnect(x)
           m == Counted(z, n, y, cut)
<1>1. /\ y \in Client /\ y.state = "Connect" /\ y.pending = {"connect"}
      /\ y.request = x.request /\ y.socket = "closed" /\ y.sample = FALSE
      /\ y.sent_in_session = z.sent_in_session /\ y.sent_total = z.sent_total
  <2>1. 0 \in 0 .. MaxTries /\ "Connect" \in States /\ {"connect"} \in SUBSET Operations
    BY ClientAssumption DEF States, Operations
  <2>2. y = [x EXCEPT !.state = "Connect", !.tries = 0, !.pending = {"connect"}]
    BY DEF EnterConnect, Begin, Client
  <2>3. QED
    BY <2>1, <2>2 DEF Client
<1>2. Same(m, n, cut)
  BY <1>1 DEF Same, Counted, Client, Count
<1>3. Waits(y) /\ Socket(y)
  BY <1>1 DEF Waits, Socket, Asking
<1>4. Request(y, m)
  BY <1>1, <1>2 DEF Request, Same
<1>5. Counts(y, m)
  BY <1>1, <1>2 DEF Counts, Bounds, Client, Count, Before, Same
<1>6. QED
  BY <1>1, <1>2, <1>3, <1>4, <1>5 DEF ClientInv, Same

\* A client that comes to its end, with its socket open or closed.
LEMMA DestroyInv ==
  ASSUME NEW x \in Client, NEW n \in Count, NEW cut \in BOOLEAN, NEW z \in Client,
         x.pending = {}, ~x.sample, ~z.sample, x.socket = "open" => z.socket = "open",
         ~(n.cut \/ cut) => x.request = <<>>, Counts(z, n),
         x.sent_in_session = z.sent_in_session, x.sent_total = z.sent_total
  PROVE  ClientInv(Destroyed(x), Counted(z, n, Destroyed(x), cut))
<1> DEFINE y == Destroyed(x)
           m == Counted(z, n, y, cut)
<1>1. /\ y \in Client /\ y.state = "Destroy" /\ y.pending = {}
      /\ y.request = x.request /\ y.socket = x.socket /\ y.sample = FALSE
      /\ y.sent_in_session = z.sent_in_session /\ y.sent_total = z.sent_total
  BY DEF Destroyed, Client, States
<1>2. Same(m, n, cut)
  BY <1>1 DEF Same, Counted, Client, Count
<1>3. Waits(y) /\ Socket(y)
  BY <1>1 DEF Waits, Socket, Asking
<1>4. Request(y, m)
  BY <1>1, <1>2 DEF Request, Same
<1>5. Counts(y, m)
  BY <1>1, <1>2 DEF Counts, Bounds, Client, Count, Before, Same
<1>6. QED
  BY <1>1, <1>2, <1>3, <1>4, <1>5 DEF ClientInv, Same

\* Close, from Quit: the socket is closed before the next session or the end.
LEMMA CloseInv ==
  ASSUME NEW x \in Client, NEW n \in Count, NEW cut \in BOOLEAN, NEW z \in Client,
         x.pending = {}, ~x.sample, ~z.sample,
         ~(n.cut \/ cut) => x.request = <<>>, Counts(z, n),
         x.sent_in_session = z.sent_in_session, x.sent_total = z.sent_total
  PROVE  ClientInv(EnterClose(x), Counted(z, n, EnterClose(x), cut))
<1> DEFINE w == [x EXCEPT !.socket = "closed"]
<1>1. /\ w \in Client /\ w.pending = {} /\ w.socket = "closed" /\ ~w.sample
      /\ w.request = x.request
      /\ w.sent_in_session = z.sent_in_session /\ w.sent_total = z.sent_total
  BY DEF Client
<1>2. CASE CanOpenNextSession(w)
  <2>1. EnterClose(x) = EnterConnect(w)
    BY <1>2 DEF EnterClose
  <2>2. QED
    BY <1>1, <2>1, ConnectInv
<1>3. CASE ~CanOpenNextSession(w)
  <2>1. EnterClose(x) = Destroyed(w)
    BY <1>3 DEF EnterClose, Destroyed
  <2>2. QED
    BY <1>1, <2>1, DestroyInv
<1>4. QED
  BY <1>2, <1>3

\* Leaving a message in a session that is open.
LEMMA LoggedOnce ==
  ASSUME NEW z \in Client, NEW q \in Client, NEW n \in Count, NEW cut \in BOOLEAN,
         z.socket = "open", ~q.sample
  PROVE  Logged(Counted(z, n, q, cut), n, z)
BY DEF Logged, Counted, Client, Count

\* A client that leaves its session keeps within what the counters allow.
LEMMA SampleEnds ==
  ASSUME NEW z \in Client, NEW q \in Client, NEW n \in Count, NEW cut \in BOOLEAN,
         z.socket = "open", q.state = "Quit", ~q.sample, Alike(q, z), Counts(z, n)
  PROVE  Counts(q, Counted(z, n, q, cut))
<1> DEFINE m == Counted(z, n, q, cut)
<1>1. Logged(m, n, z)
  BY LoggedOnce
<1>2. /\ n.begun = n.logged + (IF z.sample THEN 1 ELSE 0)
      /\ z.sent_in_session > 0 /\ z.sent_total > 0
      /\ SessionMessages > 0 => z.sent_in_session <= SessionMessages
      /\ TotalMessages > 0 => z.sent_total <= TotalMessages
      /\ n.in_session <= z.sent_in_session
      /\ n.begun <= z.sent_total + n.sessions - 1
      /\ n.sessions # 0
  BY DEF Counts, Bounds
<1>3. /\ m.begun = m.logged /\ m.begun = n.begun
      /\ m.sessions = n.sessions /\ m.in_session = n.in_session
  <2> HIDE DEF m
  <2>1. QED
    BY <1>1, <1>2 DEF Logged
<1>4. q.state \notin Before /\ (q.sample <=> q.state = "DataSend")
  BY DEF Before
<1>5. Counts(q, m)
  <2> HIDE DEF m
  <2>1. m.begun = m.logged + (IF q.sample THEN 1 ELSE 0)
    BY <1>1, <1>3 DEF Logged, Count
  <2>2. Bounds(q, m)
    BY <1>2, <1>3, <1>4 DEF Bounds, Alike
  <2>3. QED
    BY <1>4, <2>1, <2>2 DEF Counts
<1>6. QED
  BY <1>5

\* What an error does: to Destroy before the session, to Quit in it, and to the
\* next session in Quit.
LEMMA ErrorInv ==
  ASSUME NEW x \in Client, NEW n \in Count, NEW cut \in BOOLEAN, NEW z \in Client,
         z = [x EXCEPT !.pending = z.pending, !.request = z.request],
         x.pending = {}, Socket(z), Counts(z, n),
         ~(n.cut \/ cut) => x.request = <<>>,
         x.state \notin {"Initial", "Destroy"}
  PROVE  ClientInv(Error(x), Counted(z, n, Error(x), cut))
<1>1. /\ x.state = z.state /\ x.socket = z.socket /\ x.sample = z.sample
      /\ x.sent_in_session = z.sent_in_session /\ x.sent_total = z.sent_total
  BY DEF Client
<1>2. CASE x.state \in {"Resolve", "Connect", "WaitHelo"}
  <2>1. Error(x) = Destroyed(x)
    BY <1>2 DEF Error, Destroyed, MessageSend
  <2>2. ~x.sample
    BY <1>1, <1>2 DEF Counts, Bounds
  <2>3. QED
    BY <1>1, <2>1, <2>2, DestroyInv
<1>3. CASE x.state \in {"Handshake"} \cup MessageSend
  <2> DEFINE w == Leave(x)
             q == [w EXCEPT !.state = "Quit"]
  <2>1. Error(x) = Ask(w, "Quit")
    BY <1>3 DEF Error, MessageSend
  <2>2. /\ w \in Client /\ w.pending = {} /\ w.socket = "open" /\ z.socket = "open"
        /\ ~w.sample /\ w.request = x.request
    BY <1>1, <1>3 DEF Leave, Client, Socket, MessageSend, Asking
  <2>3. q \in Client /\ q.state = "Quit" /\ Alike(q, z) /\ ~q.sample
    BY <1>1, <2>2 DEF Leave, Client, States, Alike
  <2>4. Counts(q, Counted(z, n, q, cut))
    BY <1>1, <2>2, <2>3, SampleEnds
  <2>5. "Quit" \in Asking
    BY DEF Asking
  <2>6. QED
    BY <2>1, <2>2, <2>4, <2>5, AskInv
<1>4. CASE x.state = "Quit"
  <2>1. Error(x) = EnterClose(x)
    BY <1>4 DEF Error, MessageSend
  <2>2. ~x.sample
    BY <1>1, <1>4 DEF Counts, Bounds
  <2>3. QED
    BY <1>1, <2>1, <2>2, CloseInv
<1>5. QED
  BY <1>2, <1>3, <1>4 DEF Client, States

\* What a reply that is ready does.
LEMMA ReadyInv ==
  ASSUME NEW x \in Client, NEW n \in Count, NEW z \in Client,
         z = [x EXCEPT !.pending = z.pending],
         x.pending = {}, Socket(z), Counts(z, n),
         ~n.cut => x.request = <<>>,
         x.state \in Asking \cup {"WaitHelo", "DataSend"}
  PROVE  ClientInv(Ready(x), Counted(z, n, Ready(x), FALSE))
<1>1. /\ x.state = z.state /\ x.socket = z.socket /\ x.sample = z.sample
      /\ x.sent_in_session = z.sent_in_session /\ x.sent_total = z.sent_total
      /\ x.socket = "open" /\ z.socket = "open"
  BY DEF Client, Socket
<1>2. CASE x.state \in DOMAIN Following
  <2> DEFINE s == Following[x.state]
             q == [x EXCEPT !.state = s]
  <2>1. Ready(x) = Ask(x, s)
    BY <1>2, FollowingFacts DEF Ready
  <2>2. s \in Asking /\ s \in Before /\ s # "DataSend" /\ x.state \in Before
    BY <1>2, FollowingFacts DEF Asking, Before
  <2>3. ~x.sample
    BY <1>1, <1>2, FollowingFacts DEF Counts, Bounds
  <2>4. Counts(q, Counted(z, n, q, FALSE))
    BY <1>1, <2>2, <2>3 DEF Counts, Bounds, Counted, Client, Count
  <2> HIDE DEF s
  <2>5. QED
    BY <1>1, <2>1, <2>2, <2>3, <2>4, AskInv, ZenonT(60)
<1>3. CASE x.state = "Data"
  <2> DEFINE y == EnterDataSend(x)
             m == Counted(z, n, y, FALSE)
  <2>1. Ready(x) = y
    BY <1>3, FollowingFacts DEF Ready
  <2>2. /\ y \in Client /\ y.state = "DataSend" /\ y.pending = {"message"}
        /\ y.socket = "open" /\ y.sample = TRUE /\ y.request = x.request
        /\ y.sent_in_session = x.sent_in_session /\ y.sent_total = x.sent_total
    <3>1. "DataSend" \in States /\ {"message"} \in SUBSET Operations
      BY DEF States, MessageSend, Operations
    <3>2. y = [x EXCEPT !.state = "DataSend", !.sample = TRUE, !.pending = {"message"}]
      BY DEF EnterDataSend, Begin, Client
    <3>3. QED
      BY <1>1, <3>1, <3>2 DEF Client
  <2>3. ~x.sample /\ ~z.sample
    BY <1>1, <1>3 DEF Counts, Bounds
  <2>4. /\ m \in Count /\ m.cut = n.cut /\ m.sessions = n.sessions /\ m.logged = n.logged
        /\ m.begun = n.begun + 1 /\ m.in_session = n.in_session + 1
    BY <1>1, <2>2, <2>3 DEF Counted, Client, Count
  <2>5. Waits(y) /\ Socket(y) /\ Request(y, m)
    BY <2>2, <2>4 DEF Waits, Socket, Request, Asking
  <2>6. /\ n.begun = n.logged /\ x.sent_in_session > 0 /\ x.sent_total > 0
        /\ SessionMessages > 0 => x.sent_in_session <= SessionMessages
        /\ TotalMessages > 0 => x.sent_total <= TotalMessages
        /\ n.in_session < x.sent_in_session
        /\ n.begun <= x.sent_total + n.sessions - 2
        /\ n.sessions > 0
        /\ x.sent_in_session \in Nat /\ x.sent_total \in Nat /\ n.in_session \in Nat
        /\ n.begun \in Nat /\ n.logged \in Nat /\ n.sessions \in Nat
    BY <1>1, <1>3, <2>3 DEF Counts, Bounds, Client, Count, Before
  <2> HIDE DEF y
  <2>7. Counts(y, m)
    <3>1. y.state \notin Before
      BY <2>2 DEF Before
    <3> HIDE DEF m
    <3>2. QED
      BY <2>2, <2>4, <2>6, <3>1, SMTT(30) DEF Counts, Bounds
  <2>8. QED
    BY <2>1, <2>2, <2>4, <2>5, <2>7 DEF ClientInv
<1>4. CASE x.state = "DataSend" /\ CanSendMoreMessages(x)
  <2> DEFINE w == AdjustSent(Leave(x))
             q == [w EXCEPT !.state = "MailFrom"]
  <2>1. Ready(x) = Ask(w, "MailFrom")
    BY <1>4, FollowingFacts DEF Ready
  <2>2. /\ w \in Client /\ w.pending = {} /\ w.socket = "open" /\ ~w.sample
        /\ w.request = x.request /\ w.state = "DataSend"
        /\ w.sent_in_session = x.sent_in_session + 1 /\ w.sent_total = x.sent_total + 1
    <3> DEFINE v == Leave(x)
    <3>1. /\ v \in Client /\ v.pending = {} /\ v.socket = "open" /\ ~v.sample
          /\ v.request = x.request /\ v.state = "DataSend" /\ Alike(v, x)
      BY <1>1, <1>4 DEF Leave, Client, Alike
    <3>2. w = [v EXCEPT !.sent_in_session = v.sent_in_session + 1,
                        !.sent_total = v.sent_total + 1]
      BY DEF AdjustSent
    <3> HIDE DEF v, w
    <3>3. v.sent_in_session + 1 \in Nat /\ v.sent_total + 1 \in Nat
      BY <3>1 DEF Client
    <3>4. QED
      BY <3>1, <3>2, <3>3 DEF Client, Alike
  <2>3. /\ SessionMessages > 0 => x.sent_in_session < SessionMessages
        /\ TotalMessages > 0 => x.sent_total < TotalMessages
    BY <1>4, ClientAssumption DEF CanSendMoreMessages, CanOpenNextSession
  <2>4. /\ q \in Client /\ q.state = "MailFrom" /\ q.socket = "open" /\ ~q.sample
        /\ q.sent_in_session = z.sent_in_session + 1 /\ q.sent_total = z.sent_total + 1
    BY <1>1, <2>2 DEF Client, States, MessageSend
  <2> DEFINE m == Counted(z, n, q, FALSE)
  <2>5. z.sample /\ z \in Client /\ z.state = "DataSend"
    BY <1>1, <1>4 DEF Counts, Bounds
  <2>6. Logged(m, n, z)
    BY <1>1, <2>4, <2>5, LoggedOnce
  <2>7. Counts(q, m)
    <3>1. /\ n.begun = n.logged + 1
          /\ n.in_session <= z.sent_in_session
          /\ n.begun <= z.sent_total + n.sessions - 1
          /\ n.sessions # 0
          /\ z.sent_in_session \in Nat /\ z.sent_total \in Nat
      BY <1>1, <2>5 DEF Counts, Bounds, Client
    <3>2. /\ m.begun = m.logged /\ m.begun = n.begun /\ m.logged \in Nat
          /\ m.sessions = n.sessions /\ m.in_session = n.in_session
          /\ m.in_session \in Nat /\ m.sessions \in Nat
      BY <2>5, <2>6, <3>1 DEF Logged, Count
    <3> HIDE DEF q, m, w
    <3>3. m.begun = m.logged + (IF q.sample THEN 1 ELSE 0)
      BY <2>4, <3>2
    <3>4. /\ q.sent_in_session > 0 /\ q.sent_total > 0
          /\ m.in_session < q.sent_in_session
          /\ m.begun <= q.sent_total + m.sessions - 2
      BY <2>4, <3>1, <3>2
    <3>5. /\ SessionMessages > 0 => q.sent_in_session <= SessionMessages
          /\ TotalMessages > 0 => q.sent_total <= TotalMessages
      BY <1>1, <2>3, <2>4, <3>1, ClientAssumption
    <3>6. /\ m.in_session <= q.sent_in_session
          /\ m.begun <= q.sent_total + m.sessions - 1
          /\ m.sessions # 0
      BY <2>4, <3>1, <3>2
    <3>7. Bounds(q, m) /\ (q.sample <=> q.state = "DataSend")
      BY <2>4, <3>4, <3>5, <3>6 DEF Bounds
    <3>8. QED
      BY <3>3, <3>7 DEF Counts
  <2>8. "MailFrom" \in Asking
    BY DEF Asking
  <2>9. QED
    BY <1>1, <2>1, <2>2, <2>7, <2>8, AskInv, ZenonT(60)
<1>5. CASE x.state = "DataSend" /\ ~CanSendMoreMessages(x)
  <2> DEFINE w == Leave(x)
             q == [w EXCEPT !.state = "Quit"]
  <2>1. Ready(x) = Ask(w, "Quit")
    BY <1>5, FollowingFacts DEF Ready
  <2>2. /\ w \in Client /\ w.pending = {} /\ w.socket = "open" /\ ~w.sample
        /\ w.request = x.request
    BY <1>1 DEF Leave, Client
  <2>3. q \in Client /\ q.state = "Quit" /\ Alike(q, z) /\ ~q.sample
    BY <1>1, <2>2 DEF Leave, Client, States, Alike
  <2>4. Counts(q, Counted(z, n, q, FALSE))
    BY <1>1, <2>2, <2>3, SampleEnds
  <2>5. "Quit" \in Asking
    BY DEF Asking
  <2>6. QED
    BY <1>1, <2>1, <2>2, <2>4, <2>5, AskInv, ZenonT(60)
<1>6. CASE x.state = "Quit"
  <2>1. Ready(x) = EnterClose(x)
    BY <1>6, FollowingFacts DEF Ready
  <2>2. ~x.sample
    BY <1>1, <1>6 DEF Counts, Bounds
  <2>3. QED
    BY <1>1, <2>1, <2>2, CloseInv
<1>7. QED
  BY <1>2, <1>3, <1>4, <1>5, <1>6, FollowingFacts DEF Asking

\* A step after which the client waits on in the same state, or resolves.
LEMMA StayInv ==
  ASSUME NEW y \in Client, NEW z \in Client, NEW n \in Count,
         \/ y.state = z.state
         \/ z.state = "Initial" /\ y.state = "Resolve",
         y.socket = z.socket, y.sample = z.sample, Alike(y, z),
         Socket(z), Counts(z, n), Waits(y), Request(y, n)
  PROVE  ClientInv(y, Counted(z, n, y, FALSE))
<1> DEFINE m == Counted(z, n, y, FALSE)
<1>1. Same(m, n, FALSE)
  BY DEF Same, Counted, Client, Count
<1>2. Socket(y)
  BY DEF Socket, Asking
<1>3. ClientInv(y, m)
  <2> HIDE DEF m
  <2>1. Request(y, m)
    BY <1>1 DEF Request, Same
  <2>2. y.sample <=> y.state = "DataSend"
    BY DEF Counts
  <2>3. m.begun = m.logged + (IF y.sample THEN 1 ELSE 0)
    BY <1>1 DEF Counts, Same
  <2>4. Bounds(y, m)
    BY <1>1 DEF Counts, Bounds, Same, Alike, Before
  <2>5. QED
    BY <1>1, <1>2, <2>1, <2>2, <2>3, <2>4 DEF ClientInv, Counts, Same
<1>4. QED
  BY <1>3

\* A connection opens a session.
LEMMA ConnectedInv ==
  ASSUME NEW x \in Client, NEW n \in Count, NEW z \in Client,
         z = [x EXCEPT !.pending = z.pending], x.pending = {}, x.state = "Connect",
         Socket(z), Counts(z, n), ~n.cut => x.request = <<>>
  PROVE  ClientInv(Connected(x), Counted(z, n, Connected(x), FALSE))
<1> DEFINE y == Connected(x)
           m == Counted(z, n, y, FALSE)
<1>1. z.state = "Connect" /\ z.socket = "closed" /\ ~z.sample /\ ~x.sample
  BY DEF Client, Socket, Counts
<1>2. /\ y \in Client /\ y.state = "WaitHelo" /\ y.pending = {"read"}
      /\ y.socket = "open" /\ ~y.sample /\ y.request = x.request
      /\ y.sent_in_session = 1 /\ y.sent_total = z.sent_total
  <2>1. "WaitHelo" \in States /\ {"read"} \in SUBSET Operations
    BY DEF States, Operations
  <2>2. y = [x EXCEPT !.state = "WaitHelo", !.socket = "open", !.sent_in_session = 1,
                      !.pending = {"read"}]
    BY DEF Connected, AwaitReply, Begin, Client
  <2>3. /\ x.tries \in 0 .. MaxTries /\ x.request \in Seq(Tokens) /\ x.sample = FALSE
        /\ x.sent_total \in Nat /\ x.sent_total = z.sent_total
    BY <1>1 DEF Client
  <2> HIDE DEF y
  <2>4. /\ y.state = "WaitHelo" /\ y.pending = {"read"} /\ y.tries = x.tries
        /\ y.socket = "open" /\ y.sample = FALSE /\ y.request = x.request
        /\ y.sent_in_session = 1 /\ y.sent_total = x.sent_total
    BY <2>2, <2>3 DEF Client
  <2>5. y \in Client
    BY <2>1, <2>2, <2>3 DEF Client
  <2>6. QED
    BY <2>3, <2>4, <2>5
<1>3. /\ m \in Count /\ m.cut = n.cut /\ m.sessions = n.sessions + 1 /\ m.in_session = 0
      /\ m.begun = n.begun /\ m.logged = n.logged
  BY <1>1, <1>2 DEF Counted, Count
<1>4. /\ n.begun = n.logged /\ n.begun <= z.sent_total + n.sessions - 1
      /\ z.sent_total > 0 /\ n.begun \in Nat /\ n.sessions \in Nat /\ z.sent_total \in Nat
      /\ TotalMessages > 0 => z.sent_total <= TotalMessages
  BY <1>1 DEF Counts, Bounds, Count, Client
<1>5. ClientInv(y, m)
  <2> HIDE DEF y, m
  <2>1. Waits(y) /\ Socket(y) /\ Request(y, m)
    BY <1>2, <1>3 DEF Waits, Socket, Request, Asking
  <2>2. Bounds(y, m)
    BY <1>2, <1>3, <1>4, ClientAssumption, SMTT(30) DEF Bounds
  <2>3. m.begun = m.logged + (IF y.sample THEN 1 ELSE 0)
    BY <1>2, <1>3, <1>4
  <2>4. QED
    BY <1>2, <1>3, <2>1, <2>2, <2>3 DEF ClientInv, Counts
<1>6. QED
  BY <1>5

\* What a failed write leaves is a sequence of commands and of rests of them.
LEMMA RemainsFacts ==
  ASSUME NEW s \in Seq(Tokens), NEW r \in Remains(s)
  PROVE  r \in Seq(Tokens)
<1>1. PICK i \in 1 .. Len(s) :
        r = SubSeq(s, i, Len(s)) \/ r = <<"rest">> \o Tail(SubSeq(s, i, Len(s)))
  BY DEF Remains
<1> DEFINE t == SubSeq(s, i, Len(s))
<1>2. t \in Seq(Tokens) /\ Len(t) = Len(s) - i + 1 /\ Len(t) > 0
  BY <1>1
<1>3. Tail(t) \in Seq(Tokens)
  <2> HIDE DEF t
  <2>1. QED
    BY <1>2
<1>4. <<"rest">> \in Seq(Tokens)
  BY DEF Tokens
<1>5. <<"rest">> \o Tail(t) \in Seq(Tokens)
  <2> HIDE DEF t
  <2>1. QED
    BY <1>3, <1>4
<1>6. QED
  BY <1>1, <1>2, <1>5

\* The machines start before their first session.
LEMMA InitInv == Init => IInv
<1> SUFFICES ASSUME Init PROVE IInv
  OBVIOUS
<1> USE ClientAssumption DEF Init
<1>1. ASSUME NEW c \in Clients PROVE ClientInv(client[c], count[c])
  <2>1. client[c] \in Client /\ count[c] \in Count
    BY DEF Client, Count, States, Operations
  <2>2. Waits(client[c]) /\ Socket(client[c]) /\ Request(client[c], count[c])
    BY DEF Waits, Socket, Request, Asking
  <2>3. Counts(client[c], count[c])
    BY DEF Counts, Bounds, Before
  <2>4. QED
    BY <2>1, <2>2, <2>3 DEF ClientInv
<1>2. TypeOK
  <2>1. client \in [Clients -> Client] /\ count \in [Clients -> Count]
    BY DEF Client, Count, States, Operations
  <2>2. failures \in 0 .. MaxFailures
    BY SMT
  <2>3. aborted \in BOOLEAN
    BY Zenon
  <2>4. QED
    BY <2>1, <2>2, <2>3 DEF TypeOK, Client, Count, Tokens
<1>3. QED
  BY <1>1, <1>2 DEF IInv

\* A handler that leaves its client well leaves all of them well.
LEMMA HandleInv ==
  ASSUME IInv, NEW c \in Clients, NEW y, NEW cut \in BOOLEAN, NEW ok \in BOOLEAN,
         Handle(c, y, cut), Outcome(ok),
         ClientInv(y, Counted(client[c], count[c], y, cut))
  PROVE  IInv'
<1> DEFINE m == Counted(client[c], count[c], y, cut)
<1>1. /\ client \in [Clients -> Client] /\ count \in [Clients -> Count]
      /\ failures \in 0 .. MaxFailures
  BY DEF IInv, TypeOK, Client, Count, Tokens
<1>2. client' = [client EXCEPT ![c] = y] /\ count' = [count EXCEPT ![c] = m]
  BY DEF Handle, Counted
<1>3. y \in Client /\ m \in Count
  BY DEF ClientInv
<1>4. TypeOK'
  <2>1. client' \in [Clients -> Client] /\ count' \in [Clients -> Count]
    BY <1>1, <1>2, <1>3
  <2>2. failures' \in 0 .. MaxFailures
    BY <1>1, ClientAssumption DEF Outcome
  <2>3. aborted' \in BOOLEAN
    BY DEF Handle
  <2>4. QED
    BY <2>1, <2>2, <2>3 DEF TypeOK, Client, Count, Tokens
<1>5. ASSUME NEW d \in Clients PROVE ClientInv(client[d], count[d])'
  <2> HIDE DEF m
  <2>1. CASE d = c
    <3>1. client'[d] = y /\ count'[d] = m
      BY <1>1, <1>2, <2>1
    <3>2. ClientInv(y, m)
      BY DEF m
    <3>3. QED
      BY <3>1, <3>2
  <2>2. CASE d # c
    <3>1. client'[d] = client[d] /\ count'[d] = count[d]
      BY <1>1, <1>2, <2>2
    <3>2. QED
      BY <3>1 DEF IInv
  <2>3. QED
    BY <2>1, <2>2
<1>6. QED
  BY <1>4, <1>5 DEF IInv

\* A client whose operation op has just ended: nothing else was pending.
LEMMA EndedFacts ==
  ASSUME IInv, NEW c \in Clients, NEW op \in client[c].pending
  PROVE  LET z == client[c]
             x == Ended(c, op)
         IN  /\ z \in Client /\ count[c] \in Count /\ x \in Client
             /\ z.pending = {op} /\ x.pending = {}
             /\ x = [z EXCEPT !.pending = {}] /\ z = [x EXCEPT !.pending = z.pending]
             /\ x.state = z.state /\ x.socket = z.socket /\ x.sample = z.sample
             /\ x.request = z.request /\ x.tries = z.tries /\ Alike(x, z)
             /\ Waits(z) /\ Socket(z) /\ Request(z, count[c]) /\ Counts(z, count[c])
             /\ op # "write" /\ ~count[c].cut => x.request = <<>>
<1> DEFINE z == client[c]
           x == Ended(c, op)
<1>1. /\ z \in Client /\ count[c] \in Count
      /\ Waits(z) /\ Socket(z) /\ Request(z, count[c]) /\ Counts(z, count[c])
  BY DEF IInv, ClientInv
<1>2. z.pending = {op}
  <2> HIDE DEF z
  <2>1. op \in z.pending
    BY DEF z
  <2>2. QED
    BY <1>1, <2>1 DEF Waits
<1>3. x = [z EXCEPT !.pending = {}]
  BY <1>2 DEF Ended
<1>4. /\ x \in Client /\ x.pending = {} /\ z = [x EXCEPT !.pending = z.pending]
      /\ x.state = z.state /\ x.socket = z.socket /\ x.sample = z.sample
      /\ x.request = z.request /\ x.tries = z.tries /\ Alike(x, z)
  <2> HIDE DEF x, z
  <2>1. QED
    BY <1>1, <1>3 DEF Client, Alike
<1>5. op # "write" /\ ~count[c].cut => x.request = <<>>
  BY <1>1, <1>2, <1>4 DEF Request
<1>6. QED
  BY <1>1, <1>2, <1>3, <1>4, <1>5

\* The posted task creates the client, which resolves the name of the server.
LEMMA StartInv ==
  ASSUME IInv, NEW c \in Clients, Start(c)
  PROVE  IInv'
<1> DEFINE z == client[c]
           x == Ended(c, "start")
           y == EnterResolve(x)
<1>1. "start" \in z.pending /\ Handle(c, y, FALSE) /\ Outcome(TRUE)
  BY DEF Start
<1>2. /\ z \in Client /\ count[c] \in Count /\ x \in Client
      /\ z.pending = {"start"} /\ x.pending = {}
      /\ x.state = z.state /\ x.socket = z.socket /\ x.sample = z.sample /\ Alike(x, z)
      /\ Waits(z) /\ Socket(z) /\ Counts(z, count[c])
      /\ ~count[c].cut => x.request = <<>>
  BY <1>1, EndedFacts
<1>3. z.state = "Initial"
  BY <1>2 DEF Waits
<1> HIDE DEF z
<1>4. /\ y \in Client /\ y.state = "Resolve" /\ y.pending = {"resolve"}
      /\ y.request = x.request /\ y.socket = z.socket /\ y.sample = z.sample /\ Alike(y, z)
  <2>1. "Resolve" \in States /\ {"resolve"} \in SUBSET Operations
    BY DEF States, Operations
  <2> HIDE DEF x
  <2>2. y = [x EXCEPT !.state = "Resolve", !.pending = {"resolve"}]
    BY <1>2 DEF EnterResolve, Begin, Client
  <2>3. QED
    BY <1>2, <2>1, <2>2 DEF Client, Alike
<1>5. ClientInv(y, Counted(z, count[c], y, FALSE))
  <2> HIDE DEF x, y
  <2>1. Waits(y) /\ Request(y, count[c])
    BY <1>2, <1>4 DEF Waits, Request
  <2>2. QED
    BY <1>2, <1>3, <1>4, <2>1, StayInv
<1>6. QED
  BY <1>1, <1>5, HandleInv DEF z

\* The name is resolved and the client connects, or it ends.
LEMMA ResolveInv ==
  ASSUME IInv, NEW c \in Clients, NEW ok \in BOOLEAN, ResolveDone(c, ok)
  PROVE  IInv'
<1> DEFINE z == client[c]
           x == Ended(c, "resolve")
           y == IF ok THEN EnterConnect(x) ELSE Error(x)
<1>1. "resolve" \in z.pending /\ Handle(c, y, FALSE) /\ Outcome(ok)
  BY DEF ResolveDone
<1>2. /\ z \in Client /\ count[c] \in Count /\ x \in Client
      /\ z.pending = {"resolve"} /\ x.pending = {} /\ z = [x EXCEPT !.pending = z.pending]
      /\ x.state = z.state /\ x.socket = z.socket /\ x.sample = z.sample /\ Alike(x, z)
      /\ x.request = z.request
      /\ Waits(z) /\ Socket(z) /\ Counts(z, count[c])
      /\ ~count[c].cut => x.request = <<>>
  BY <1>1, EndedFacts
<1>3. z.state = "Resolve" /\ z.socket = "closed" /\ ~z.sample
  BY <1>2 DEF Waits, Socket, Counts
<1> HIDE DEF z, x
<1>4. CASE ok
  BY <1>1, <1>2, <1>3, <1>4, ConnectInv, HandleInv DEF z, Alike
<1>5. CASE ~ok
  <2>1. ClientInv(Error(x), Counted(z, count[c], Error(x), FALSE))
    <3>1. z = [x EXCEPT !.pending = z.pending, !.request = z.request]
      BY <1>2 DEF Client
    <3>2. QED
      BY <1>2, <1>3, <3>1, ErrorInv
  <2>2. QED
    BY <1>1, <1>5, <2>1, HandleInv DEF z
<1>6. QED
  BY <1>4, <1>5

\* A connect opens a session, is tried again in one of two ways, or fails.
LEMMA ConnectDoneInv ==
  ASSUME IInv, NEW c \in Clients, NEW r \in ConnectOutcomes, ConnectDone(c, r)
  PROVE  IInv'
<1> DEFINE z == client[c]
           x == Ended(c, "connect")
           y == Connect(x, r)
<1>1. "connect" \in z.pending /\ Handle(c, y, FALSE) /\ Outcome(r = "ok")
  BY DEF ConnectDone
<1>2. /\ z \in Client /\ count[c] \in Count /\ x \in Client
      /\ z.pending = {"connect"} /\ x.pending = {} /\ z = [x EXCEPT !.pending = z.pending]
      /\ x.state = z.state /\ x.socket = z.socket /\ x.sample = z.sample /\ Alike(x, z)
      /\ x.request = z.request
      /\ Waits(z) /\ Socket(z) /\ Counts(z, count[c])
      /\ ~count[c].cut => x.request = <<>>
  BY <1>1, EndedFacts
<1>3. z.state = "Connect" /\ z.socket = "closed" /\ ~z.sample
  BY <1>2 DEF Waits, Socket, Counts
<1> HIDE DEF z, x
<1>4. ClientInv(y, Counted(z, count[c], y, FALSE))
  <2>1. CASE r = "ok"
    <3>1. y = Connected(x)
      BY <2>1 DEF Connect, Again
    <3>2. QED
      BY <1>2, <1>3, <3>1, ConnectedInv, ZenonT(60)
  <2>2. CASE Again(x, r)
    <3>1. y = Begin([x EXCEPT !.tries = @ + 1], "connect")
      BY <2>2 DEF Connect, Again
    <3>2. x.tries + 1 \in 0 .. MaxTries
      BY <1>2, <2>2, ClientAssumption DEF Again, Client
    <3>3. {"connect"} \in SUBSET Operations
      BY DEF Operations
    <3>4. y = [x EXCEPT !.tries = x.tries + 1, !.pending = {"connect"}]
      BY <1>2, <3>1 DEF Begin, Client
    <3> HIDE DEF y
    <3>5. /\ y \in Client /\ y.state = z.state /\ y.pending = {"connect"}
          /\ y.request = x.request /\ y.socket = z.socket /\ y.sample = z.sample
          /\ Alike(y, z)
      BY <1>2, <3>2, <3>3, <3>4 DEF Client, Alike
    <3>6. Waits(y) /\ Request(y, count[c])
      BY <1>2, <1>3, <3>5 DEF Waits, Request
    <3>7. QED
      BY <1>2, <3>5, <3>6, StayInv
  <2>3. CASE r = "timed_out"
    <3>1. y = EnterConnect(x)
      BY <2>3 DEF Connect, Again
    <3>2. QED
      BY <1>2, <1>3, <3>1, ConnectInv, ZenonT(60) DEF Alike
  <2>4. CASE r # "ok" /\ ~Again(x, r) /\ r # "timed_out"
    <3>1. y = Error(x)
      BY <2>4 DEF Connect
    <3>2. z = [x EXCEPT !.pending = z.pending, !.request = z.request]
      BY <1>2 DEF Client
    <3>3. ClientInv(Error(x), Counted(z, count[c], Error(x), FALSE))
      BY <1>2, <1>3, <3>2, ErrorInv
    <3>4. QED
      BY <3>1, <3>3
  <2>5. QED
    BY <2>1, <2>2, <2>3, <2>4
<1>5. QED
  BY <1>1, <1>4, HandleInv DEF z

\* A command is written and its reply awaited.
LEMMA WriteDoneInv ==
  ASSUME IInv, NEW c \in Clients, WriteDone(c)
  PROVE  IInv'
<1> DEFINE z == client[c]
           x == Ended(c, "write")
           y == Write(x)
<1>1. "write" \in z.pending /\ Handle(c, y, FALSE) /\ Outcome(TRUE)
  BY DEF WriteDone
<1>2. /\ z \in Client /\ count[c] \in Count /\ x \in Client
      /\ z.pending = {"write"} /\ x.pending = {}
      /\ x.state = z.state /\ x.socket = z.socket /\ x.sample = z.sample /\ Alike(x, z)
      /\ Waits(z) /\ Socket(z) /\ Counts(z, count[c])
  BY <1>1, EndedFacts
<1> HIDE DEF z, x
<1>3. y = [x EXCEPT !.request = <<>>, !.pending = {"read"}]
  BY <1>2 DEF Write, AwaitReply, Begin, Client
<1>4. /\ y \in Client /\ y.state = z.state /\ y.pending = {"read"}
      /\ y.request = <<>> /\ y.socket = z.socket /\ y.sample = z.sample /\ Alike(y, z)
  <2>1. {"read"} \in SUBSET Operations /\ <<>> \in Seq(Tokens)
    BY DEF Operations
  <2>2. QED
    BY <1>2, <1>3, <2>1 DEF Client, Alike
<1>5. ClientInv(y, Counted(z, count[c], y, FALSE))
  <2> HIDE DEF y
  <2>1. z.state \in Asking
    BY <1>2 DEF Waits
  <2>2. Waits(y) /\ Request(y, count[c])
    BY <1>4, <2>1 DEF Waits, Request
  <2>3. QED
    BY <1>2, <1>4, <2>2, StayInv
<1>6. QED
  BY <1>1, <1>5, HandleInv DEF z

\* What a failed write leaves is not in request_ unless `cut' tells so.
LEMMA WriteFailsInv ==
  ASSUME IInv, NEW c \in Clients, WriteFails(c)
  PROVE  IInv'
<1> DEFINE z == client[c]
           x == Ended(c, "write")
<1>1. "write" \in z.pending /\ Outcome(FALSE)
  BY DEF WriteFails
<1>2. PICK r \in Remains(x.request) : Handle(c, Error([x EXCEPT !.request = r]), TRUE)
  BY DEF WriteFails
<1>3. /\ z \in Client /\ count[c] \in Count /\ x \in Client
      /\ z.pending = {"write"} /\ x.pending = {} /\ z = [x EXCEPT !.pending = z.pending]
      /\ x.state = z.state
      /\ Waits(z) /\ Socket(z) /\ Counts(z, count[c])
  BY <1>1, EndedFacts
<1>4. r \in Seq(Tokens)
  BY <1>2, <1>3, RemainsFacts DEF Client
<1> DEFINE w == [x EXCEPT !.request = r]
<1>5. /\ w \in Client /\ w.pending = {} /\ w.state = z.state
      /\ z = [w EXCEPT !.pending = z.pending, !.request = z.request]
  <2> HIDE DEF x, z
  <2>1. QED
    BY <1>3, <1>4 DEF Client
<1>6. w.state \in Asking
  <2> HIDE DEF x, z, w
  <2>1. QED
    BY <1>3, <1>5 DEF Waits
<1>7. Handle(c, Error(w), TRUE)
  BY <1>2
<1> HIDE DEF z, x, w
<1>8. ClientInv(Error(w), Counted(z, count[c], Error(w), TRUE))
  BY <1>3, <1>5, <1>6, ErrorInv DEF Asking
<1>9. QED
  BY <1>1, <1>7, <1>8, HandleInv DEF z

\* The message is written, or not.
LEMMA MessageDoneInv ==
  ASSUME IInv, NEW c \in Clients, NEW ok \in BOOLEAN, MessageDone(c, ok)
  PROVE  IInv'
<1> DEFINE z == client[c]
           x == Ended(c, "message")
           y == IF ok THEN AwaitReply(x) ELSE Error(x)
<1>1. "message" \in z.pending /\ Handle(c, y, FALSE) /\ Outcome(ok)
  BY DEF MessageDone
<1>2. /\ z \in Client /\ count[c] \in Count /\ x \in Client
      /\ z.pending = {"message"} /\ x.pending = {} /\ z = [x EXCEPT !.pending = z.pending]
      /\ x.state = z.state /\ x.socket = z.socket /\ x.sample = z.sample /\ Alike(x, z)
      /\ Waits(z) /\ Socket(z) /\ Counts(z, count[c])
      /\ ~count[c].cut => x.request = <<>>
  BY <1>1, EndedFacts
<1>3. z.state = "DataSend"
  BY <1>2 DEF Waits
<1> HIDE DEF z, x
<1>4. CASE ok
  <2>1. y = [x EXCEPT !.pending = {"read"}]
    BY <1>2, <1>4 DEF AwaitReply, Begin, Client
  <2>2. {"read"} \in SUBSET Operations
    BY DEF Operations
  <2>3. /\ y \in Client /\ y.state = z.state /\ y.pending = {"read"}
        /\ y.request = x.request /\ y.socket = z.socket /\ y.sample = z.sample /\ Alike(y, z)
    BY <1>2, <2>1, <2>2 DEF Client, Alike
  <2>4. ClientInv(y, Counted(z, count[c], y, FALSE))
    <3> HIDE DEF y
    <3>1. Waits(y) /\ Request(y, count[c])
      BY <1>2, <1>3, <2>3 DEF Waits, Request
    <3>2. QED
      BY <1>2, <2>3, <3>1, StayInv
  <2>5. QED
    BY <1>1, <2>4, HandleInv DEF z
<1>5. CASE ~ok
  <2>1. ClientInv(Error(x), Counted(z, count[c], Error(x), FALSE))
    <3>1. z = [x EXCEPT !.pending = z.pending, !.request = z.request]
      BY <1>2 DEF Client
    <3>2. QED
      BY <1>2, <1>3, <3>1, ErrorInv
  <2>2. QED
    BY <1>1, <1>5, <2>1, HandleInv DEF z
<1>6. QED
  BY <1>4, <1>5

\* A read brings a reply, a part of one, or an error.
LEMMA ReadDoneInv ==
  ASSUME IInv, NEW c \in Clients, NEW r \in ReadOutcomes, ReadDone(c, r)
  PROVE  IInv'
<1> DEFINE z == client[c]
           x == Ended(c, "read")
           y == Read(x, r)
<1>1. "read" \in z.pending /\ Handle(c, y, FALSE) /\ Outcome(r = "ready")
  BY DEF ReadDone
<1>2. /\ z \in Client /\ count[c] \in Count /\ x \in Client
      /\ z.pending = {"read"} /\ x.pending = {} /\ z = [x EXCEPT !.pending = z.pending]
      /\ x.state = z.state /\ x.socket = z.socket /\ x.sample = z.sample /\ Alike(x, z)
      /\ Waits(z) /\ Socket(z) /\ Counts(z, count[c])
      /\ ~count[c].cut => x.request = <<>>
  BY <1>1, EndedFacts
<1>3. z.state \in Asking \cup {"WaitHelo", "DataSend"}
  BY <1>2 DEF Waits
<1> HIDE DEF z, x
<1>4. ClientInv(y, Counted(z, count[c], y, FALSE))
  <2>1. CASE r = "ready"
    <3>1. y = Ready(x)
      BY <2>1 DEF Read
    <3>2. x.state \in Asking \cup {"WaitHelo", "DataSend"}
      BY <1>2, <1>3
    <3>3. ClientInv(Ready(x), Counted(z, count[c], Ready(x), FALSE))
      BY <1>2, <3>2, ReadyInv
    <3>4. QED
      BY <3>1, <3>3
  <2>2. CASE r = "partial"
    <3>1. y = Begin(x, "read")
      BY <2>2 DEF Read
    <3>2. y = [x EXCEPT !.pending = {"read"}]
      BY <1>2, <3>1 DEF Begin, Client
    <3>3. {"read"} \in SUBSET Operations
      BY DEF Operations
    <3> HIDE DEF y
    <3>4. /\ y \in Client /\ y.state = z.state /\ y.pending = {"read"}
          /\ y.request = x.request /\ y.socket = z.socket /\ y.sample = z.sample
          /\ Alike(y, z)
      BY <1>2, <3>2, <3>3 DEF Client, Alike
    <3>5. Waits(y) /\ Request(y, count[c])
      BY <1>2, <1>3, <3>4 DEF Waits, Request
    <3>6. QED
      BY <1>2, <3>4, <3>5, StayInv
  <2>3. CASE r \notin {"ready", "partial"}
    <3>1. y = Error(x)
      BY <2>3 DEF Read
    <3>2. z = [x EXCEPT !.pending = z.pending, !.request = z.request]
      BY <1>2 DEF Client
    <3>3. x.state \notin {"Initial", "Destroy"}
      BY <1>2, <1>3 DEF Asking
    <3>4. ClientInv(Error(x), Counted(z, count[c], Error(x), FALSE))
      BY <1>2, <3>2, <3>3, ErrorInv
    <3>5. QED
      BY <3>1, <3>4
  <2>4. QED
    BY <2>1, <2>2, <2>3
<1>5. QED
  BY <1>1, <1>4, HandleInv DEF z
-------------------------------------------------------------------------------
\* The inductive invariant of the clients: what each waits for in each state.
THEOREM Invariance == Spec => []IInv
<1>1. IInv /\ [Next]_vars => IInv'
  <2> SUFFICES ASSUME IInv, [Next]_vars PROVE IInv'
    OBVIOUS
  <2>1. CASE UNCHANGED vars
    BY <2>1 DEF vars, IInv, TypeOK
  <2>2. ASSUME NEW c \in Clients, Step(c) PROVE IInv'
    BY <2>2, StartInv, ResolveInv, ConnectDoneInv, WriteDoneInv, WriteFailsInv,
       MessageDoneInv, ReadDoneInv DEF Step
  <2>3. QED
    BY <2>1, <2>2 DEF Next
<1>2. QED
  BY <1>1, InitInv, PTL DEF Spec

\* The variables of the clients keep their types: no machine is in a state, and
\* no operation pending, that the code does not have.
THEOREM TypeCorrect == Spec => []TypeOK
<1>1. IInv => TypeOK
  BY DEF IInv
<1>2. QED
  BY <1>1, Invariance, PTL

\* Every client waits for exactly one operation until it is destroyed, and its
\* socket is open when and only when it reads or writes (client.h:159).
THEOREM OneOperationPending == Spec => []OneOperation
<1>1. IInv => OneOperation
  <2> SUFFICES ASSUME IInv, NEW c \in Clients
               PROVE  LET x == client[c] IN
                      IF x.state = "Destroy" THEN x.pending = {}
                      ELSE /\ Cardinality(x.pending) = 1
                           /\ x.pending \subseteq {"read", "write", "message"}
                                <=> x.socket = "open"
                           /\ "message" \in x.pending => x.state = "DataSend"
                           /\ "write" \in x.pending => x.state \in DOMAIN Command
    BY DEF OneOperation
  <2> DEFINE x == client[c]
  <2>1. x \in Client /\ Waits(x) /\ Socket(x)
    BY DEF IInv, ClientInv
  <2> HIDE DEF x
  <2>2. CASE x.state = "Destroy"
    BY <2>1, <2>2 DEF Waits, Asking, x
  <2>3. CASE x.state # "Destroy"
    <3>1. PICK op : x.pending = {op}
      BY <2>1, <2>3 DEF Waits
    <3>2. Cardinality(x.pending) = 1
      BY <3>1, FS_Singleton
    <3>3. x.pending \subseteq {"read", "write", "message"} <=> x.socket = "open"
      BY <2>1, <2>3 DEF Waits, Socket, Asking
    <3>4. /\ "message" \in x.pending => x.state = "DataSend"
          /\ "write" \in x.pending => x.state \in DOMAIN Command
      BY <2>1, CommandFacts DEF Waits
    <3>5. QED
      BY <2>3, <3>2, <3>3, <3>4 DEF x
  <2>4. QED
    BY <2>2, <2>3
<1>2. QED
  BY <1>1, Invariance, PTL

\* What a client writes is the command of its state alone, unless a write of it
\* has failed before (client.h:156).
THEOREM OneCommandWritten == Spec => []OneCommand
<1>1. IInv => OneCommand
  BY DEF IInv, ClientInv, Request, OneCommand
<1>2. QED
  BY <1>1, Invariance, PTL

\* The limit of a session is kept, and that of a thread but for one message for
\* each session before the last (smtp_msm.h:43).
THEOREM LimitsAreKept == Spec => []LimitsKept
<1>1. IInv => LimitsKept
  <2> SUFFICES ASSUME IInv, NEW c \in Clients
               PROVE  /\ SessionMessages > 0 => count[c].in_session <= SessionMessages
                      /\ TotalMessages > 0 =>
                           count[c].begun <= TotalMessages
                             + (IF count[c].sessions = 0 THEN 0 ELSE count[c].sessions - 1)
    BY DEF LimitsKept
  <2> DEFINE n == count[c]
             x == client[c]
  <2>1. x \in Client /\ n \in Count /\ Bounds(x, n)
    BY DEF IInv, ClientInv, Counts
  <2> HIDE DEF n, x
  <2>2. /\ SessionMessages > 0 => n.in_session <= SessionMessages
        /\ TotalMessages > 0 =>
             n.begun <= TotalMessages + (IF n.sessions = 0 THEN 0 ELSE n.sessions - 1)
    BY <2>1, ClientAssumption DEF Bounds, Client, Count
  <2>3. QED
    BY <2>2 DEF n
<1>2. QED
  BY <1>1, Invariance, PTL

\* Every message begun is logged once, when it has been answered or given up
\* (smtp_msm.h:352).
THEOREM SamplesAreCounted == Spec => []SamplesCounted
<1>1. IInv => SamplesCounted
  BY DEF IInv, ClientInv, Counts, SamplesCounted
<1>2. QED
  BY <1>1, Invariance, PTL
===============================================================================
