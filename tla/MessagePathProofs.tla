----------------------------- MODULE MessagePathProofs -----------------------------
(***************************************************************************)
(* MessagePath for any messages, however they are put together and cut.    *)
(*                                                                         *)
(* Output.  What the client gets is what was written, in order, and all of *)
(* it by the time the session reads.  The buffer does not see to that by   *)
(* itself.  xsputn leaves what fits behind, so each group of writes has to *)
(* end in a flush or in a string that is longer than the buffer; and a     *)
(* failed sync makes what seems to be in the buffer one character longer,  *)
(* so there must be few enough syncs after a failure.  OutInv says what is *)
(* left to write for both to be true.                                      *)
(*                                                                         *)
(* Input.  The fixed message ends in the mark and has it nowhere else,     *)
(* whatever its text is, so that each search finds it when the last        *)
(* character is there and not before.  InputInv says what the searches     *)
(* know of what they have been given.                                      *)
(*                                                                         *)
(* Replies.  The parser takes each reply for complete at its end.          *)
(* ReplyInv says which reply it is in and what it makes of it.             *)
(*                                                                         *)
(* What a fold makes of a sequence is shown by induction on the length:    *)
(* the set of lengths at which it is right has 0 and is closed under the   *)
(* successor, and the least length outside of it would have neither        *)
(* reason to be.                                                           *)
(***************************************************************************)
EXTENDS MessagePath, SequenceTheorems, WellFoundedInduction, TLAPS

Letters == {"d", " ", "-", "x", CR, LF, Stale}

Outbufs == [buf : Seq(Letters), sent : Seq(Letters), alive : BOOLEAN, overrun : BOOLEAN,
            bad : BOOLEAN]

OutTypes ==
  /\ session \in {"reads", "writes", "ended"}
  /\ todo \in Seq(Seq(Letters)) /\ inserted \in Seq(Letters)
  /\ out \in Outbufs

\* Two strings that are no longer than this are sent one after the other if
\* they do not both fit into the buffer.
Short(t) == t # Flush /\ Len(t) <= 12
Long(t)  == Len(t) > bf_size

\* What is left to write while all is well, and what is in the buffer then.
LeftToWrite(rest, buf) ==
  \/ rest = <<>> /\ buf = <<>>
  \/ rest = <<Flush>>
  \/ \E t \in Seq(Letters) : rest = <<t>> /\ Long(t) /\ buf = <<>>
  \/ \E t \in Seq(Letters) : rest = <<t, Flush>> /\ Short(t) /\ Len(buf) <= 12
  \/ \E t, u \in Seq(Letters) :
       rest = <<t, u, Flush>> /\ (Short(t) \/ Long(t)) /\ Short(u) /\ buf = <<>>

OutInv ==
  /\ out.alive <=> ~out.bad
  /\ ~out.overrun
  /\ IsPrefix(out.sent, inserted)
  /\ ~out.bad => inserted = out.sent \o out.buf /\ Len(out.buf) <= bf_size
  /\ session = "reads" => ~out.bad /\ out.buf = <<>>
  /\ session = "writes" =>
       IF out.bad THEN Len(out.buf) + Len(todo) <= bf_size + 1 ELSE LeftToWrite(todo, out.buf)

\* A message is sent to a session that reads.
MessageInv ==
  /\ stage = "greeting" => message = <<>>
  /\ stage = "data" /\ message # <<>> => session = "reads"

IInv == OutTypes /\ OutInv /\ MessageInv
-----------------------------------------------------------------------------
(* Sequences. *)

LEMMA Singletons ==
  ASSUME NEW S, NEW a \in S, NEW b \in S, NEW c \in S
  PROVE  /\ <<>> \in Seq(S) /\ <<a>> \in Seq(S) /\ <<a, b>> \in Seq(S)
         /\ <<a, b, c>> \in Seq(S)
         /\ Len(<<>>) = 0 /\ Len(<<a>>) = 1 /\ Len(<<a, b>>) = 2 /\ Len(<<a, b, c>>) = 3
         /\ Head(<<a>>) = a /\ Tail(<<a>>) = <<>>
         /\ Head(<<a, b>>) = a /\ Tail(<<a, b>>) = <<b>>
         /\ Head(<<a, b, c>>) = a /\ Tail(<<a, b, c>>) = <<b, c>>
OBVIOUS

LEMMA PrefixOfJoined ==
  ASSUME NEW S, NEW s \in Seq(S), NEW t \in Seq(S)
  PROVE  IsPrefix(s, s \o t)
<1>1. s \o t \in Seq(S) /\ Len(s \o t) = Len(s) + Len(t)  BY ConcatProperties
<1>2. Len(s) \in Nat /\ Len(t) \in Nat  BY LenProperties
<1>3. Len(s) <= Len(s \o t)  BY <1>1, <1>2
<1>4. SubSeq(s, 1, Len(s)) = SubSeq(s \o t, 1, Len(s))
  <2>1. CASE Len(s) = 0
    BY <2>1, SubSeqEmpty
  <2>2. CASE Len(s) # 0
    <3>1. 1 \in 1 .. Len(s) /\ Len(s) \in 1 .. Len(s)  BY <2>2, <1>2
    <3> QED  BY <3>1, SubSeqOfConcat1
  <2> QED  BY <2>1, <2>2
<1> QED  BY <1>3, <1>4 DEF IsPrefix

LEMMA PrefixExtended ==
  ASSUME NEW S, NEW s \in Seq(S), NEW t \in Seq(S), NEW u \in Seq(S), IsPrefix(s, t)
  PROVE  IsPrefix(s, t \o u)
<1>1. t \o u \in Seq(S) /\ Len(t \o u) = Len(t) + Len(u)  BY ConcatProperties
<1>2. Len(s) \in Nat /\ Len(t) \in Nat /\ Len(u) \in Nat  BY LenProperties
<1>3. Len(s) <= Len(t) /\ SubSeq(s, 1, Len(s)) = SubSeq(t, 1, Len(s))  BY DEF IsPrefix
<1>4. SubSeq(t, 1, Len(s)) = SubSeq(t \o u, 1, Len(s))
  <2>1. CASE Len(s) = 0
    BY <2>1, SubSeqEmpty
  <2>2. CASE Len(s) # 0
    <3>1. 1 \in 1 .. Len(t) /\ Len(s) \in 1 .. Len(t)  BY <2>2, <1>2, <1>3
    <3> QED  BY <3>1, SubSeqOfConcat1
  <2> QED  BY <2>1, <2>2
<1> QED  BY <1>1, <1>2, <1>3, <1>4 DEF IsPrefix

LEMMA JoinsAssociate ==
  ASSUME NEW S
  PROVE  \A s, t, u \in Seq(S) : (s \o t) \o u = s \o (t \o u)
BY ConcatAssociative

LEMMA JoinedElements ==
  ASSUME NEW S
  PROVE  \A s, t \in Seq(S) :
           /\ s \o t \in Seq(S) /\ Len(s \o t) = Len(s) + Len(t)
           /\ \A i \in 1 .. Len(s) + Len(t) :
                (s \o t)[i] = IF i <= Len(s) THEN s[i] ELSE t[i - Len(s)]
BY ConcatProperties

LEMMA Joined ==
  ASSUME NEW S
  PROVE  \A s, t \in Seq(S) :
           /\ s \o t \in Seq(S) /\ Len(s \o t) = Len(s) + Len(t)
           /\ Len(s) \in Nat /\ Len(t) \in Nat
BY ConcatProperties, LenProperties

LEMMA Associates ==
  \A s, t, u \in Seq(Letters) : (s \o t) \o u = s \o (t \o u)
BY ConcatAssociative

LEMMA PrefixOfItself ==
  ASSUME NEW S, NEW s \in Seq(S)
  PROVE  IsPrefix(s, s)
BY LenProperties DEF IsPrefix
-----------------------------------------------------------------------------
(* The strings. *)

LEMMA EolLength == Eol \in Seq(Letters) /\ Len(Eol) = 2
<1>1. CR \in Letters /\ LF \in Letters  BY DEF Letters
<1> QED  BY <1>1, Singletons DEF Eol

LEMMA Xs ==
  ASSUME NEW n \in Nat
  PROVE  [i \in 1 .. n |-> "x"] \in Seq(Letters) /\ Len([i \in 1 .. n |-> "x"]) = n
<1>1. "x" \in Letters  BY DEF Letters
<1> QED  BY <1>1

LEMMA FourLetters ==
  ASSUME NEW S, NEW a \in S, NEW b \in S, NEW c \in S, NEW d \in S
  PROVE  <<a, b, c, d>> \in Seq(S) /\ Len(<<a, b, c, d>>) = 4
OBVIOUS

LEMMA LengthMatters ==
  /\ \A t \in Seq(Letters) : 0 < Len(t) /\ Len(t) <= 12 => Short(t)
  /\ \A t \in Seq(Letters) : 16 < Len(t) => Long(t) /\ t # Flush
<1> SUFFICES ASSUME NEW t \in Seq(Letters)
             PROVE  /\ 0 < Len(t) /\ Len(t) <= 12 => Short(t)
                    /\ 16 < Len(t) => Long(t) /\ t # Flush
  OBVIOUS
<1>1. Flush \in Seq(Letters) /\ Len(Flush) = 0  BY EmptySeq DEF Flush
<1>2. Len(t) \in Nat  BY LenProperties
<1> QED  BY <1>1, <1>2 DEF Short, Long, bf_size

LEMMA LineLength ==
  ASSUME NEW n \in Nat
  PROVE  Line(n) \in Seq(Letters) /\ Len(Line(n)) = n + 4
<1> DEFINE code == <<"d", "d", "d", " ">>
           text == [i \in 1 .. n |-> "x"]
<1>1. "d" \in Letters /\ " " \in Letters  BY DEF Letters
<1>2. code \in Seq(Letters) /\ Len(code) = 4  BY <1>1, FourLetters
<1>3. text \in Seq(Letters) /\ Len(text) = n  BY Xs
<1>4. Line(n) = code \o text  BY DEF Line
<1> HIDE DEF code, text
<1>5. code \o text \in Seq(Letters) /\ Len(code \o text) = 4 + n
  BY <1>2, <1>3, Joined
<1> QED  BY <1>4, <1>5

LEMMA LineEnded ==
  ASSUME NEW n \in Nat
  PROVE  Line(n) \o Eol \in Seq(Letters) /\ Len(Line(n) \o Eol) = n + 6
<1>1. Line(n) \in Seq(Letters) /\ Len(Line(n)) = n + 4  BY LineLength
<1>2. Eol \in Seq(Letters) /\ Len(Eol) = 2  BY EolLength
<1>3. /\ Line(n) \o Eol \in Seq(Letters)
      /\ Len(Line(n) \o Eol) = Len(Line(n)) + Len(Eol)
  BY <1>1, <1>2, Joined
<1> QED  BY <1>1, <1>2, <1>3

LEMMA Lines ==
  /\ \A n \in Nat : n <= 8 => Line(n) \in Seq(Letters) /\ Short(Line(n))
  /\ \A n \in Nat : n > 12 => Line(n) \in Seq(Letters) /\ Long(Line(n))
  /\ \A n \in Nat : n <= 6 => Line(n) \o Eol \in Seq(Letters) /\ Short(Line(n) \o Eol)
  /\ \A n \in Nat : n > 10 => Line(n) \o Eol \in Seq(Letters) /\ Long(Line(n) \o Eol)
<1> SUFFICES ASSUME NEW n \in Nat
             PROVE  /\ n <= 8 => Line(n) \in Seq(Letters) /\ Short(Line(n))
                    /\ n > 12 => Line(n) \in Seq(Letters) /\ Long(Line(n))
                    /\ n <= 6 => Line(n) \o Eol \in Seq(Letters) /\ Short(Line(n) \o Eol)
                    /\ n > 10 => Line(n) \o Eol \in Seq(Letters) /\ Long(Line(n) \o Eol)
  OBVIOUS
<1> DEFINE l == Line(n)
           e == Line(n) \o Eol
<1>1. l \in Seq(Letters) /\ Len(l) = n + 4  BY LineLength
<1>2. e \in Seq(Letters) /\ Len(e) = n + 6  BY LineEnded
<1> HIDE DEF l, e
<1>3. (n <= 8 => Short(l)) /\ (n > 12 => Long(l))
  <2>1. n <= 8 => 0 < Len(l) /\ Len(l) <= 12  BY <1>1
  <2>2. n > 12 => 16 < Len(l)  BY <1>1
  <2> QED  BY <2>1, <2>2, <1>1, LengthMatters, Zenon
<1>4. (n <= 6 => Short(e)) /\ (n > 10 => Long(e))
  <2>1. n <= 6 => 0 < Len(e) /\ Len(e) <= 12  BY <1>2
  <2>2. n > 10 => 16 < Len(e)  BY <1>2
  <2> QED  BY <2>1, <2>2, <1>2, LengthMatters, Zenon
<1> QED  BY <1>1, <1>2, <1>3, <1>4 DEF l, e

LEMMA LongerThanNothing ==
  ASSUME NEW t \in Seq(Letters), Long(t)
  PROVE  t # Flush
<1>1. Len(Flush) = 0  BY EmptySeq DEF Flush
<1> QED  BY <1>1 DEF Long, bf_size

\* command_reply flushes what it puts.
LEMMA ReplyLeft ==
  ASSUME NEW msg \in Seq(Letters), Short(msg) \/ Long(msg)
  PROVE  /\ CommandReply(msg) \in Seq(Seq(Letters))
         /\ LeftToWrite(CommandReply(msg), <<>>)
<1>1. Eol \in Seq(Letters) /\ Short(Eol)
  <2>1. Eol \in Seq(Letters) /\ 0 < Len(Eol) /\ Len(Eol) <= 12  BY EolLength
  <2> QED  BY <2>1, LengthMatters
<1>2. Flush \in Seq(Letters)  BY EmptySeq DEF Flush
<1>3. CommandReply(msg) = <<msg, Eol, Flush>>  BY DEF CommandReply
<1>4. <<msg, Eol, Flush>> \in Seq(Seq(Letters))  BY <1>1, <1>2, Singletons
<1>5. LeftToWrite(<<msg, Eol, Flush>>, <<>>)  BY <1>1 DEF LeftToWrite
<1> QED  BY <1>3, <1>4, <1>5

LEMMA RepliesLeft ==
  /\ Go \in Seq(Seq(Letters)) /\ LeftToWrite(Go, <<>>)
  /\ Ok \in Seq(Seq(Letters)) /\ LeftToWrite(Ok, <<>>)
  /\ Refusal \in Seq(Seq(Letters)) /\ LeftToWrite(Refusal, <<>>)
<1>1. Line(44) \in Seq(Letters) /\ Long(Line(44))
  <2>1. 44 \in Nat /\ 44 > 12  OBVIOUS
  <2> QED  BY <2>1, Lines, Zenon
<1>2. Line(2) \in Seq(Letters) /\ Short(Line(2))
  <2>1. 2 \in Nat /\ 2 <= 8  OBVIOUS
  <2> QED  BY <2>1, Lines, Zenon
<1>3. Line(17) \o Eol \in Seq(Letters) /\ Long(Line(17) \o Eol)
  <2>1. 17 \in Nat /\ 17 > 10  OBVIOUS
  <2> QED  BY <2>1, Lines, Zenon
<1>4. Go \in Seq(Seq(Letters)) /\ LeftToWrite(Go, <<>>)  BY <1>1, ReplyLeft DEF Go
<1>5. Ok \in Seq(Seq(Letters)) /\ LeftToWrite(Ok, <<>>)  BY <1>2, ReplyLeft DEF Ok
<1>6. Refusal \in Seq(Seq(Letters)) /\ LeftToWrite(Refusal, <<>>)
  BY <1>3, ReplyLeft DEF Refusal
<1> QED  BY <1>4, <1>5, <1>6

LEMMA GreetingLeft ==
  Greeting \in Seq(Seq(Letters)) /\ LeftToWrite(Greeting, <<>>)
<1> DEFINE g == Line(14) \o Eol
<1>1. g \in Seq(Letters) /\ Long(g)
  <2>1. 14 \in Nat /\ 14 > 10  OBVIOUS
  <2> QED  BY <2>1, Lines, Zenon
<1>2. Greeting = <<g>>  BY DEF Greeting
<1> HIDE DEF g
<1>3. <<g>> \in Seq(Seq(Letters))  BY <1>1, Singletons
<1>4. LeftToWrite(<<g>>, <<>>)  BY <1>1 DEF LeftToWrite
<1> QED  BY <1>2, <1>3, <1>4

LEMMA ForeignGreetingLeft ==
  ForeignGreeting \in Seq(Seq(Letters)) /\ LeftToWrite(ForeignGreeting, <<>>)
<1> DEFINE code == <<"d", "d", "d", "-">>
           text == [i \in 1 .. 7 |-> "x"]
           t == code \o text \o <<LF>>
           u == Line(6) \o Eol
<1>1. "d" \in Letters /\ "-" \in Letters /\ LF \in Letters  BY DEF Letters
<1>2. code \in Seq(Letters) /\ Len(code) = 4  BY <1>1, FourLetters
<1>3. text \in Seq(Letters) /\ Len(text) = 7  BY Xs
<1>4. <<LF>> \in Seq(Letters) /\ Len(<<LF>>) = 1  BY <1>1, Singletons
<1>5. ForeignGreeting = <<t, u, Flush>>  BY DEF ForeignGreeting
<1>6. u \in Seq(Letters) /\ Short(u)
  <2>1. 6 \in Nat /\ 6 <= 6  OBVIOUS
  <2> QED  BY <2>1, Lines, Zenon
<1>7. t \in Seq(Letters) /\ Short(t)
  <2> HIDE DEF code, text
  <2>1. code \o text \in Seq(Letters) /\ Len(code \o text) = 11
    <3>1. /\ code \o text \in Seq(Letters)
          /\ Len(code \o text) = Len(code) + Len(text)
      BY <1>2, <1>3, Joined, Zenon
    <3> QED  BY <3>1, <1>2, <1>3
  <2>2. t \in Seq(Letters) /\ Len(t) = Len(code \o text) + Len(<<LF>>)
    BY <2>1, <1>4, Joined, Zenon
  <2>3. 0 < Len(t) /\ Len(t) <= 12  BY <2>1, <2>2, <1>4
  <2> QED  BY <2>2, <2>3, LengthMatters, Zenon
<1> HIDE DEF t, u
<1>8. Flush \in Seq(Letters)  BY EmptySeq DEF Flush
<1>9. <<t, u, Flush>> \in Seq(Seq(Letters))  BY <1>6, <1>7, <1>8, Singletons
<1>10. LeftToWrite(<<t, u, Flush>>, <<>>)  BY <1>6, <1>7 DEF LeftToWrite
<1> QED  BY <1>5, <1>9, <1>10
-----------------------------------------------------------------------------
(* The buffer. *)

LEMMA WrittenFields ==
  ASSUME NEW o \in Outbufs, NEW text \in Seq(Letters), NEW ok \in BOOLEAN
  PROVE  LET w == Written(o, text, ok) IN
         /\ w \in Outbufs
         /\ w.buf = o.buf /\ (w.bad <=> o.bad) /\ (w.overrun <=> o.overrun)
         /\ (w.alive <=> ok)
         /\ ok => w.sent = o.sent \o text
         /\ ~ok => w.sent = o.sent
<1>1. o.sent \in Seq(Letters) /\ o.buf \in Seq(Letters)  BY DEF Outbufs
<1>2. o.sent \o text \in Seq(Letters)  BY <1>1, ConcatProperties
<1> QED  BY <1>1, <1>2 DEF Written, Outbufs

LEMMA SyncFields ==
  ASSUME NEW o \in Outbufs, NEW ok \in BOOLEAN
  PROVE  LET p == Sync(o, ok) IN
         /\ p \in Outbufs
         /\ o.buf = <<>> => p = o
         /\ o.buf # <<>> => /\ p.alive <=> ok
                            /\ p.overrun <=> (o.overrun \/ Len(o.buf) > bf_size + 1)
         /\ o.buf # <<>> /\ ok =>
              p.buf = <<>> /\ p.sent = o.sent \o o.buf /\ (p.bad <=> o.bad)
         /\ o.buf # <<>> /\ ~ok =>
              /\ p.buf \in Seq(Letters) /\ Len(p.buf) = Len(o.buf) + 1
              /\ p.sent = o.sent /\ p.bad
<1> DEFINE w == Written(o, o.buf, ok)
           f == FromBuffer(o, ok)
<1>1. o.buf \in Seq(Letters) /\ Stale \in Letters  BY DEF Outbufs, Letters
<1>2. /\ w \in Outbufs
      /\ w.buf = o.buf /\ (w.bad <=> o.bad) /\ (w.overrun <=> o.overrun)
      /\ (w.alive <=> ok)
      /\ ok => w.sent = o.sent \o o.buf
      /\ ~ok => w.sent = o.sent
  BY <1>1, WrittenFields
<1>3. f = [w EXCEPT !.overrun = @ \/ Len(o.buf) > bf_size + 1]  BY DEF FromBuffer
<1>4. Len(o.buf) \in Nat /\ bf_size \in Nat  BY <1>1, LenProperties DEF bf_size
<1> HIDE DEF w
<1>5. (w.overrun \/ Len(o.buf) > bf_size + 1) \in BOOLEAN  OBVIOUS
<1>6. /\ f \in Outbufs
      /\ f.buf = o.buf /\ (f.bad <=> o.bad)
      /\ f.overrun <=> (o.overrun \/ Len(o.buf) > bf_size + 1)
      /\ (f.alive <=> ok) /\ f.sent = w.sent
  BY <1>2, <1>3, <1>5, Zenon DEF Outbufs
<1>7. Sync(o, ok) =
        IF o.buf = <<>> THEN o
        ELSE [f EXCEPT !.buf = IF ok THEN <<>> ELSE Append(@, Stale), !.bad = @ \/ ~ok]
  BY DEF Sync
<1> HIDE DEF f
<1>8. /\ Append(f.buf, Stale) \in Seq(Letters) /\ Len(Append(f.buf, Stale)) = Len(o.buf) + 1
      /\ <<>> \in Seq(Letters)
  BY <1>1, <1>6, AppendProperties, EmptySeq
<1>9. CASE o.buf = <<>>
  BY <1>7, <1>9
<1>10. CASE o.buf # <<>> /\ ok
  <2>1. Sync(o, ok) = [f EXCEPT !.buf = <<>>, !.bad = f.bad \/ ~ok]  BY <1>7, <1>10
  <2>2. (f.bad \/ ~ok) \in BOOLEAN /\ ((f.bad \/ ~ok) <=> o.bad)  BY <1>6, <1>10
  <2> QED  BY <2>1, <2>2, <1>2, <1>6, <1>8, <1>10 DEF Outbufs
<1>11. CASE o.buf # <<>> /\ ~ok
  <2>1. Sync(o, ok) = [f EXCEPT !.buf = Append(f.buf, Stale), !.bad = f.bad \/ ~ok]
    BY <1>7, <1>11
  <2>2. (f.bad \/ ~ok) \in BOOLEAN /\ (f.bad \/ ~ok)  BY <1>11
  <2> QED  BY <2>1, <2>2, <1>2, <1>6, <1>8, <1>11 DEF Outbufs
<1> QED  BY <1>9, <1>10, <1>11

\* What xsputn makes of a good buffer: it is still in order, or bad.
InOrder(o, all) == all = o.sent \o o.buf

AfterPut(p, o, text, all) ==
  /\ p \in Outbufs /\ (p.alive <=> ~p.bad) /\ ~p.overrun
  /\ IsPrefix(p.sent, all \o text)
  /\ ~p.bad => InOrder(p, all \o text) /\ Len(p.buf) <= bf_size
  /\ ~p.bad /\ Long(text) => p.buf = <<>>
  /\ ~p.bad /\ ~Long(text) /\ o.buf = <<>> => p.buf = text
  /\ p.bad => Len(p.buf) <= Len(o.buf) + 1
  /\ p.bad /\ Len(o.buf) = 0 => p.buf = <<>>

LEMMA XsputnKeepsOrder ==
  ASSUME NEW o \in Outbufs, NEW text \in Seq(Letters), NEW all \in Seq(Letters),
         NEW ok1 \in BOOLEAN, NEW ok2 \in BOOLEAN,
         ~o.bad, o.alive, ~o.overrun, InOrder(o, all), Len(o.buf) <= bf_size
  PROVE  AfterPut(Xsputn(o, text, ok1, ok2), o, text, all)
<1> DEFINE p == Sync(o, ok1)
           w == Written(p, text, ok2)
<1>1. o.buf \in Seq(Letters) /\ o.sent \in Seq(Letters)  BY DEF Outbufs
<1>2. Len(o.buf) \in Nat /\ Len(text) \in Nat /\ bf_size = 16
  BY <1>1, LenProperties DEF bf_size
<1>3. /\ p \in Outbufs
      /\ o.buf = <<>> => p = o
      /\ o.buf # <<>> => /\ p.alive <=> ok1
                         /\ p.overrun <=> (o.overrun \/ Len(o.buf) > bf_size + 1)
      /\ o.buf # <<>> /\ ok1 =>
           p.buf = <<>> /\ p.sent = o.sent \o o.buf /\ (p.bad <=> o.bad)
      /\ o.buf # <<>> /\ ~ok1 =>
           /\ p.buf \in Seq(Letters) /\ Len(p.buf) = Len(o.buf) + 1
           /\ p.sent = o.sent /\ p.bad
  BY SyncFields
<1>4. all = o.sent \o o.buf  BY DEF InOrder
<1>5. /\ all \o text \in Seq(Letters)
      /\ IsPrefix(all, all \o text)
      /\ IsPrefix(o.sent, all)
  BY <1>1, <1>4, ConcatProperties, PrefixOfJoined
<1>6. IsPrefix(o.sent, all \o text)  BY <1>1, <1>5, PrefixExtended
<1>7. Xsputn(o, text, ok1, ok2) =
        CASE Fits(o, text)           -> Copied(o, text)
          [] ~Fits(o, text) /\ p.bad -> p
          [] OTHER -> IF Fits(p, text) THEN Copied(p, text)
                      ELSE [w EXCEPT !.bad = ~ok2]
  BY DEF Xsputn
<1> HIDE DEF p, w
<1>8. CASE Fits(o, text)
  <2> DEFINE q == Copied(o, text)
  <2>1. Xsputn(o, text, ok1, ok2) = q  BY <1>7, <1>8
  <2>2. o.buf \o text \in Seq(Letters) /\ Len(o.buf \o text) = Len(o.buf) + Len(text)
    BY <1>1, ConcatProperties
  <2>3. /\ q \in Outbufs /\ q.buf = o.buf \o text /\ q.sent = o.sent
        /\ ~q.bad /\ q.alive /\ ~q.overrun
    BY <2>2 DEF Copied, Outbufs
  <2>4. Len(o.buf) + Len(text) <= bf_size  BY <1>8 DEF Fits
  <2>5. all \o text = o.sent \o (o.buf \o text)
    <3>1. (o.sent \o o.buf) \o text = o.sent \o (o.buf \o text)
      BY <1>1, Associates, Zenon
    <3> QED  BY <3>1, <1>4
  <2>6. ~Long(text)  BY <2>4, <1>2 DEF Long
  <2>7. o.buf = <<>> => o.buf \o text = text  BY ConcatEmptySeq
  <2>8. InOrder(q, all \o text)  BY <2>3, <2>5 DEF InOrder
  <2>9. Len(q.buf) <= bf_size  BY <2>2, <2>3, <2>4
  <2> HIDE DEF q
  <2> QED  BY <2>1, <2>3, <2>6, <2>7, <2>8, <2>9, <1>6 DEF AfterPut
<1>9. CASE ~Fits(o, text) /\ p.bad
  <2>1. Xsputn(o, text, ok1, ok2) = p  BY <1>7, <1>9
  <2>2. o.buf # <<>> /\ ~ok1  BY <1>3, <1>9
  <2>3. p.sent = o.sent /\ Len(p.buf) = Len(o.buf) + 1 /\ ~p.alive /\ p.bad
    BY <2>2, <1>3
  <2>4. ~p.overrun  BY <2>2, <1>2, <1>3
  <2>5. Len(o.buf) # 0  BY <2>2, <1>1, EmptySeq
  <2>6. Len(p.buf) <= Len(o.buf) + 1  BY <2>3, <1>2
  <2> QED  BY <2>1, <2>3, <2>4, <2>5, <2>6, <1>3, <1>6 DEF AfterPut
<1>10. CASE ~Fits(o, text) /\ ~p.bad
  <2>1. p.buf = <<>> /\ p.alive /\ ~p.overrun /\ p.sent = all
    <3>1. CASE o.buf = <<>>
      BY <3>1, <1>1, <1>3, <1>4, ConcatEmptySeq
    <3>2. CASE o.buf # <<>>
      <4>1. ok1  BY <3>2, <1>3, <1>10
      <4>2. p.buf = <<>> /\ p.sent = o.sent \o o.buf /\ p.alive  BY <3>2, <4>1, <1>3
      <4>3. ~p.overrun  BY <3>2, <1>2, <1>3
      <4> QED  BY <4>2, <4>3, <1>4
    <3> QED  BY <3>1, <3>2
  <2>2. Len(p.buf) = 0  BY <2>1, EmptySeq
  <2>3. CASE Fits(p, text)
    <3> DEFINE q == Copied(p, text)
    <3>1. Xsputn(o, text, ok1, ok2) = q  BY <1>7, <1>10, <2>3
    <3>2. p.buf \o text = text  BY <2>1, ConcatEmptySeq
    <3>3. /\ q \in Outbufs /\ q.buf = text /\ q.sent = all
          /\ ~q.bad /\ q.alive /\ ~q.overrun
      BY <3>2, <2>1, <1>3, <1>10 DEF Copied, Outbufs
    <3>4. Len(text) <= bf_size  BY <2>2, <2>3, <1>2 DEF Fits
    <3>5. InOrder(q, all \o text)  BY <3>3 DEF InOrder
    <3>6. ~Long(text)  BY <3>4, <1>2 DEF Long
    <3> HIDE DEF q
    <3> QED  BY <3>1, <3>3, <3>4, <3>5, <3>6, <1>5 DEF AfterPut
  <2>4. CASE ~Fits(p, text)
    <3>1. p \in Outbufs  BY <1>3
    <3>2. /\ w \in Outbufs
          /\ w.buf = p.buf /\ (w.bad <=> p.bad) /\ (w.overrun <=> p.overrun)
          /\ (w.alive <=> ok2)
          /\ ok2 => w.sent = p.sent \o text
          /\ ~ok2 => w.sent = p.sent
      <4>1. Written(p, text, ok2) \in Outbufs  BY <3>1, WrittenFields
      <4>2. /\ Written(p, text, ok2).buf = p.buf
            /\ Written(p, text, ok2).bad <=> p.bad
            /\ Written(p, text, ok2).overrun <=> p.overrun
            /\ Written(p, text, ok2).alive <=> ok2
        BY <3>1, WrittenFields
      <4>3. /\ ok2 => Written(p, text, ok2).sent = p.sent \o text
            /\ ~ok2 => Written(p, text, ok2).sent = p.sent
        <5>1. CASE ok2
          BY <5>1, <3>1 DEF Written, Outbufs
        <5>2. CASE ~ok2
          BY <5>2, <3>1, WrittenFields
        <5> QED  BY <5>1, <5>2
      <4> QED  BY <4>1, <4>2, <4>3 DEF w
    <3> DEFINE q == [w EXCEPT !.bad = ~ok2]
    <3>3. Xsputn(o, text, ok1, ok2) = q  BY <1>7, <1>10, <2>4
    <3>4. /\ q \in Outbufs /\ q.buf = <<>> /\ q.sent = w.sent
          /\ (q.bad <=> ~ok2) /\ (q.alive <=> ok2) /\ ~q.overrun
      BY <3>2, <2>1 DEF Outbufs
    <3>5. Long(text)  BY <2>2, <2>4, <1>2 DEF Fits, Long
    <3>6. IsPrefix(q.sent, all \o text)
      <4>1. CASE ok2
        BY <4>1, <3>2, <3>4, <2>1, <1>5, PrefixOfItself
      <4>2. CASE ~ok2
        BY <4>2, <3>2, <3>4, <2>1, <1>5
      <4> QED  BY <4>1, <4>2
    <3>7. ~q.bad => InOrder(q, all \o text)
      <4>1. (all \o text) \o <<>> = all \o text  BY <1>5, ConcatEmptySeq
      <4> QED  BY <4>1, <3>2, <3>4, <2>1 DEF InOrder
    <3>8. Len(q.buf) <= bf_size /\ Len(q.buf) <= Len(o.buf) + 1
      BY <3>4, <2>1, <2>2, <1>2
    <3> HIDE DEF q
    <3> QED  BY <3>3, <3>4, <3>5, <3>6, <3>7, <3>8 DEF AfterPut
  <2> QED  BY <2>3, <2>4
<1> QED  BY <1>8, <1>9, <1>10
-----------------------------------------------------------------------------
(* The steps. *)

\* What is left, string by string.
LEMMA NextToWrite ==
  ASSUME NEW rest \in Seq(Seq(Letters)), NEW buf \in Seq(Letters), LeftToWrite(rest, buf)
  PROVE  /\ rest = <<>> => buf = <<>>
         /\ rest # <<>> /\ Head(rest) = Flush => Tail(rest) = <<>>
         /\ rest # <<>> /\ Head(rest) # Flush =>
              \/ Tail(rest) = <<>> /\ Long(Head(rest)) /\ buf = <<>>
              \/ Tail(rest) = <<Flush>> /\ Short(Head(rest)) /\ Len(buf) <= 12
              \/ /\ \E u \in Seq(Letters) : Tail(rest) = <<u, Flush>> /\ Short(u)
                 /\ Short(Head(rest)) \/ Long(Head(rest))
                 /\ buf = <<>>
<1> Flush \in Seq(Letters)  BY EmptySeq DEF Flush
<1>1. CASE rest = <<>> /\ buf = <<>>
  BY <1>1
<1>2. CASE rest = <<Flush>>
  <2>1. rest # <<>> /\ Head(rest) = Flush /\ Tail(rest) = <<>>
    BY <1>2, Singletons
  <2> QED  BY <2>1
<1>3. ASSUME NEW t \in Seq(Letters), rest = <<t>> /\ Long(t) /\ buf = <<>>
      PROVE  rest # <<>> /\ Head(rest) # Flush /\ Tail(rest) = <<>> /\ Long(Head(rest))
  <2>1. <<t>> # <<>> /\ Head(<<t>>) = t /\ Tail(<<t>>) = <<>>  BY Singletons
  <2>2. t # Flush  BY <1>3, LongerThanNothing
  <2> QED  BY <1>3, <2>1, <2>2
<1>4. ASSUME NEW t \in Seq(Letters), rest = <<t, Flush>> /\ Short(t) /\ Len(buf) <= 12
      PROVE  rest # <<>> /\ Head(rest) # Flush /\ Tail(rest) = <<Flush>> /\ Short(Head(rest))
  <2>1. <<t, Flush>> # <<>> /\ Head(<<t, Flush>>) = t /\ Tail(<<t, Flush>>) = <<Flush>>
    BY Singletons
  <2>2. t # Flush  BY <1>4 DEF Short
  <2> QED  BY <1>4, <2>1, <2>2
<1>5. ASSUME NEW t \in Seq(Letters), NEW u \in Seq(Letters),
             rest = <<t, u, Flush>> /\ (Short(t) \/ Long(t)) /\ Short(u) /\ buf = <<>>
      PROVE  /\ rest # <<>> /\ Head(rest) # Flush /\ Tail(rest) = <<u, Flush>>
             /\ Short(Head(rest)) \/ Long(Head(rest))
  <2>1. /\ <<t, u, Flush>> # <<>> /\ Head(<<t, u, Flush>>) = t
        /\ Tail(<<t, u, Flush>>) = <<u, Flush>>
    BY Singletons
  <2>2. t # Flush  BY <1>5, LongerThanNothing DEF Short
  <2> QED  BY <1>5, <2>1, <2>2
<1>6. CASE \E t \in Seq(Letters) : rest = <<t>> /\ Long(t) /\ buf = <<>>
  BY <1>6, <1>3
<1>7. CASE \E t \in Seq(Letters) : rest = <<t, Flush>> /\ Short(t) /\ Len(buf) <= 12
  BY <1>7, <1>4
<1>8. CASE \E t, u \in Seq(Letters) :
             rest = <<t, u, Flush>> /\ (Short(t) \/ Long(t)) /\ Short(u) /\ buf = <<>>
  BY <1>8, <1>5
<1> QED  BY <1>1, <1>2, <1>6, <1>7, <1>8 DEF LeftToWrite

LEMMA InitInv == Init => IInv
<1> SUFFICES ASSUME Init PROVE IInv
  OBVIOUS
<1>1. /\ session = "writes" /\ inserted = <<>> /\ out = NewOutbuf
      /\ todo = Greeting \/ todo = ForeignGreeting
  BY DEF Init
<1>2. todo \in Seq(Seq(Letters)) /\ LeftToWrite(todo, <<>>)
  BY <1>1, GreetingLeft, ForeignGreetingLeft
<1>3. <<>> \in Seq(Letters) /\ Len(<<>>) = 0  BY EmptySeq
<1>4. /\ out \in Outbufs /\ out.buf = <<>> /\ out.sent = <<>>
      /\ out.alive /\ ~out.bad /\ ~out.overrun
  BY <1>1, <1>3 DEF NewOutbuf, Outbufs
<1>5. inserted = out.sent \o out.buf /\ IsPrefix(out.sent, inserted)
  BY <1>1, <1>3, <1>4, ConcatEmptySeq, PrefixOfItself
<1> QED  BY <1>1, <1>2, <1>3, <1>4, <1>5 DEF Init, IInv, OutTypes, OutInv, MessageInv, bf_size

LEMMA FlushStep ==
  ASSUME IInv, NEW ok1 \in BOOLEAN, NEW ok2 \in BOOLEAN, Stream(ok1, ok2), Head(todo) = Flush
  PROVE  IInv'
<1>1. MessageInv'
  BY DEF Stream, IInv, MessageInv, inputVars, clientVars
<1>2. /\ session = "writes" /\ todo # <<>> /\ (ok1 => out.alive)
      /\ todo' = Tail(todo) /\ session' = session
      /\ out' = Sync(out, ok1) /\ inserted' = inserted
  BY DEF Stream
<1>3. /\ todo \in Seq(Seq(Letters)) /\ inserted \in Seq(Letters) /\ out \in Outbufs
      /\ session \in {"reads", "writes", "ended"}
  BY DEF IInv, OutTypes
<1>4. out.buf \in Seq(Letters) /\ out.sent \in Seq(Letters)  BY <1>3 DEF Outbufs
<1>5. /\ Tail(todo) \in Seq(Seq(Letters)) /\ Len(Tail(todo)) = Len(todo) - 1
      /\ Len(todo) \in Nat /\ Len(todo) # 0 /\ Len(out.buf) \in Nat /\ bf_size = 16
  BY <1>2, <1>3, <1>4, HeadTailProperties, EmptySeq, LenProperties DEF bf_size
<1>6. /\ (out.alive <=> ~out.bad) /\ ~out.overrun /\ IsPrefix(out.sent, inserted)
      /\ ~out.bad => inserted = out.sent \o out.buf /\ Len(out.buf) <= bf_size
      /\ out.bad => Len(out.buf) + Len(todo) <= bf_size + 1
      /\ ~out.bad => LeftToWrite(todo, out.buf)
  BY <1>2 DEF IInv, OutInv
<1>7. ~out.bad => Tail(todo) = <<>>  BY <1>2, <1>3, <1>4, <1>6, NextToWrite
<1>8. LeftToWrite(<<>>, <<>>) /\ Len(<<>>) = 0  BY EmptySeq DEF LeftToWrite
<1> DEFINE l == Len(todo)
           b == Len(out.buf)
<1>9. /\ l \in Nat /\ l # 0 /\ b \in Nat /\ bf_size = 16
      /\ out.bad => b + l <= bf_size + 1
      /\ ~out.bad => b <= bf_size
  BY <1>5, <1>6
<1>10. b <= bf_size
  <2> HIDE DEF l, b
  <2>1. CASE out.bad
    BY <2>1, <1>9
  <2>2. CASE ~out.bad
    BY <2>2, <1>9
  <2> QED  BY <2>1, <2>2
<1>11. ~(Len(out.buf) > bf_size + 1)
  <2> HIDE DEF l, b
  <2>1. ~(b > bf_size + 1)  BY <1>9, <1>10
  <2> QED  BY <2>1 DEF b
<1>12. CASE out.buf = <<>>
  <2>1. out' = out  BY <1>2, <1>3, <1>12, SyncFields
  <2>2. out.bad => Len(out.buf) + Len(Tail(todo)) <= bf_size + 1  BY <1>5, <1>6
  <2>3. ~out.bad => LeftToWrite(Tail(todo), out.buf)  BY <1>7, <1>8, <1>12
  <2> QED  BY <2>1, <2>2, <2>3, <1>2, <1>3, <1>5, <1>6, <1>1 DEF IInv, OutTypes, OutInv
<1>13. CASE out.buf # <<>> /\ ok1
  <2>1. ~out.bad  BY <1>2, <1>6, <1>13
  <2>2. /\ out' \in Outbufs /\ out'.alive
        /\ (out'.overrun <=> (out.overrun \/ Len(out.buf) > bf_size + 1))
        /\ out'.buf = <<>> /\ out'.sent = out.sent \o out.buf /\ (out'.bad <=> out.bad)
    BY <1>2, <1>3, <1>13, SyncFields
  <2>3. ~out'.overrun /\ ~out'.bad  BY <2>1, <2>2, <1>6, <1>11
  <2>4. inserted = out'.sent /\ IsPrefix(out'.sent, inserted)
    BY <2>1, <2>2, <1>3, <1>6, PrefixOfItself
  <2>5. inserted = out'.sent \o out'.buf  BY <2>2, <2>4, <1>3, ConcatEmptySeq
  <2>6. LeftToWrite(todo', out'.buf) /\ Len(out'.buf) <= bf_size
    <3>1. todo' = <<>> /\ out'.buf = <<>>  BY <2>1, <2>2, <1>2, <1>7
    <3>2. Len(<<>>) <= bf_size  BY <1>8, <1>9
    <3> QED  BY <3>1, <3>2, <1>8
  <2> QED  BY <2>2, <2>3, <2>4, <2>5, <2>6, <1>2, <1>3, <1>5, <1>1 DEF IInv, OutTypes, OutInv
<1>14. CASE out.buf # <<>> /\ ~ok1
  <2>1. /\ out' \in Outbufs /\ ~out'.alive
        /\ (out'.overrun <=> (out.overrun \/ Len(out.buf) > bf_size + 1))
        /\ Len(out'.buf) = Len(out.buf) + 1 /\ out'.sent = out.sent /\ out'.bad
    BY <1>2, <1>3, <1>14, SyncFields
  <2>2. ~out'.overrun  BY <2>1, <1>6, <1>11
  <2>3. Len(out'.buf) = b + 1  BY <2>1
  <2>4. Len(out'.buf) + Len(todo') <= bf_size + 1
    <3>1. CASE out.bad
      <4>1. Len(todo') = l - 1  BY <1>2, <1>5
      <4> HIDE DEF l, b
      <4> QED  BY <3>1, <4>1, <2>3, <1>9
    <3>2. CASE ~out.bad
      <4>1. Len(todo') = 0  BY <3>2, <1>2, <1>7, <1>8
      <4> HIDE DEF l, b
      <4> QED  BY <4>1, <2>3, <1>9, <1>10
    <3> QED  BY <3>1, <3>2
  <2> QED  BY <2>1, <2>2, <2>4, <1>2, <1>3, <1>5, <1>6, <1>1 DEF IInv, OutTypes, OutInv
<1> QED  BY <1>12, <1>13, <1>14

LEMMA PutStep ==
  ASSUME IInv, NEW ok1 \in BOOLEAN, NEW ok2 \in BOOLEAN, Stream(ok1, ok2), Head(todo) # Flush
  PROVE  IInv'
<1>1. MessageInv'
  BY DEF Stream, IInv, MessageInv, inputVars, clientVars
<1> DEFINE h == Head(todo)
<1>2. /\ session = "writes" /\ todo # <<>>
      /\ todo' = Tail(todo) /\ session' = session
      /\ out.bad => out' = out /\ inserted' = inserted
      /\ ~out.bad => out' = Xsputn(out, h, ok1, ok2) /\ inserted' = inserted \o h
  BY DEF Stream
<1>3. /\ todo \in Seq(Seq(Letters)) /\ inserted \in Seq(Letters) /\ out \in Outbufs
      /\ session \in {"reads", "writes", "ended"}
  BY DEF IInv, OutTypes
<1>4. out.buf \in Seq(Letters) /\ out.sent \in Seq(Letters)  BY <1>3 DEF Outbufs
<1>5. /\ Tail(todo) \in Seq(Seq(Letters)) /\ Len(Tail(todo)) = Len(todo) - 1
      /\ h \in Seq(Letters)
      /\ Len(todo) \in Nat /\ Len(out.buf) \in Nat /\ bf_size = 16
  BY <1>2, <1>3, <1>4, HeadTailProperties, LenProperties DEF bf_size
<1>6. /\ (out.alive <=> ~out.bad) /\ ~out.overrun /\ IsPrefix(out.sent, inserted)
      /\ ~out.bad => inserted = out.sent \o out.buf /\ Len(out.buf) <= bf_size
      /\ out.bad => Len(out.buf) + Len(todo) <= bf_size + 1
      /\ ~out.bad => LeftToWrite(todo, out.buf)
  BY <1>2 DEF IInv, OutInv
<1> HIDE DEF h
<1>7. CASE out.bad
  <2>1. Len(out.buf) + Len(Tail(todo)) <= bf_size + 1  BY <1>5, <1>6, <1>7
  <2> QED  BY <2>1, <1>2, <1>3, <1>5, <1>6, <1>7, <1>1 DEF IInv, OutTypes, OutInv
<1>8. CASE ~out.bad
  <2>1. out' = Xsputn(out, h, ok1, ok2) /\ inserted' = inserted \o h  BY <1>2, <1>8
  <2>2. InOrder(out, inserted)  BY <1>6, <1>8 DEF InOrder
  <2>3. /\ out' \in Outbufs /\ (out'.alive <=> ~out'.bad) /\ ~out'.overrun
        /\ IsPrefix(out'.sent, inserted')
        /\ ~out'.bad => InOrder(out', inserted') /\ Len(out'.buf) <= bf_size
        /\ ~out'.bad /\ Long(h) => out'.buf = <<>>
        /\ ~out'.bad /\ ~Long(h) /\ out.buf = <<>> => out'.buf = h
        /\ out'.bad => Len(out'.buf) <= Len(out.buf) + 1
        /\ out'.bad /\ Len(out.buf) = 0 => out'.buf = <<>>
    <3>1. out.alive /\ Len(out.buf) <= bf_size  BY <1>6, <1>8
    <3>2. AfterPut(Xsputn(out, h, ok1, ok2), out, h, inserted)
      BY <3>1, <2>2, <1>3, <1>5, <1>6, <1>8, XsputnKeepsOrder, Zenon
    <3> QED  BY <3>2, <2>1, Zenon DEF AfterPut
  <2>4. inserted' \in Seq(Letters)  BY <2>1, <1>3, <1>5, ConcatProperties
  <2>5. /\ out'.buf \in Seq(Letters) /\ Len(out'.buf) \in Nat /\ Len(h) \in Nat
        /\ Len(<<>>) = 0 /\ Flush \in Seq(Letters)
    BY <2>3, <1>5, LenProperties, EmptySeq DEF Outbufs, Flush
  <2>6. \/ Tail(todo) = <<>> /\ Long(h) /\ out.buf = <<>>
        \/ Tail(todo) = <<Flush>> /\ Short(h) /\ Len(out.buf) <= 12
        \/ /\ \E u \in Seq(Letters) : Tail(todo) = <<u, Flush>> /\ Short(u)
           /\ Short(h) \/ Long(h)
           /\ out.buf = <<>>
    BY <1>2, <1>3, <1>4, <1>6, <1>8, NextToWrite DEF h
  <2>7. bf_size + 1 = 17  BY DEF bf_size
  <2>8. /\ ~out'.bad => LeftToWrite(todo', out'.buf)
        /\ out'.bad => Len(out'.buf) + Len(todo') <= bf_size + 1
    <3>1. CASE Tail(todo) = <<>> /\ Long(h) /\ out.buf = <<>>
      <4>1. ~out'.bad => LeftToWrite(<<>>, out'.buf)  BY <3>1, <2>3 DEF LeftToWrite
      <4>2. out'.bad => Len(out'.buf) = 0  BY <3>1, <2>3, <2>5
      <4>3. out'.bad => Len(out'.buf) + 0 <= 17  BY <4>2
      <4>4. Len(todo') = 0  BY <3>1, <1>2, <2>5, Zenon
      <4>5. ~out'.bad => LeftToWrite(todo', out'.buf)  BY <3>1, <4>1, <1>2
      <4> QED  BY <4>3, <4>4, <4>5, <2>7, Zenon
    <3>2. CASE Tail(todo) = <<Flush>> /\ Short(h) /\ Len(out.buf) <= 12
      <4>1. LeftToWrite(<<Flush>>, out'.buf)  BY DEF LeftToWrite
      <4>2. Len(<<Flush>>) = 1  BY <2>5, Singletons
      <4>3. out'.bad => Len(out'.buf) <= 13  BY <3>2, <2>3, <2>5, <1>5
      <4>4. out'.bad => Len(out'.buf) + 1 <= 17  BY <4>3, <2>5
      <4>5. Len(todo') = 1 /\ LeftToWrite(todo', out'.buf)
        BY <3>2, <4>1, <4>2, <1>2, Zenon
      <4> QED  BY <4>4, <4>5, <2>7, Zenon
    <3>3. ASSUME NEW u \in Seq(Letters), Tail(todo) = <<u, Flush>> /\ Short(u),
                 Short(h) \/ Long(h), out.buf = <<>>
          PROVE  /\ ~out'.bad => LeftToWrite(todo', out'.buf)
                 /\ out'.bad => Len(out'.buf) + Len(todo') <= bf_size + 1
      <4>1. ~out'.bad => Len(out'.buf) <= 12
        <5>1. CASE Long(h)
          BY <5>1, <2>3, <2>5
        <5>2. CASE ~Long(h)
          <6>1. Len(h) <= 12  BY <5>2, <3>3 DEF Short
          <6>2. ~out'.bad => out'.buf = h  BY <5>2, <3>3, <2>3
          <6> QED  BY <6>1, <6>2
        <5> QED  BY <5>1, <5>2
      <4>2. Len(out'.buf) <= 12 => LeftToWrite(<<u, Flush>>, out'.buf)
        BY <3>3 DEF LeftToWrite
      <4>3. Len(<<u, Flush>>) = 2  BY <2>5, Singletons
      <4>4. out'.bad => Len(out'.buf) = 0  BY <3>3, <2>3, <2>5
      <4>5. out'.bad => Len(out'.buf) + 2 <= 17  BY <4>4
      <4>6. Len(todo') = 2  BY <3>3, <4>3, <1>2, Zenon
      <4>7. ~out'.bad => LeftToWrite(todo', out'.buf)  BY <3>3, <4>1, <4>2, <1>2
      <4> QED  BY <4>5, <4>6, <4>7, <2>7, Zenon
    <3> QED  BY <2>6, <3>1, <3>2, <3>3
  <2>9. ~out'.bad => inserted' = out'.sent \o out'.buf  BY <2>3 DEF InOrder
  <2> QED  BY <2>3, <2>4, <2>8, <2>9, <1>2, <1>3, <1>5, <1>1 DEF IInv, OutTypes, OutInv
<1> QED  BY <1>7, <1>8

LEMMA TurnStep ==
  ASSUME IInv, NEW ok \in BOOLEAN, TurnsToRead(ok)
  PROVE  IInv'
<1>1. MessageInv'
  BY DEF TurnsToRead, IInv, MessageInv, inputVars, clientVars
<1>2. /\ session = "writes" /\ todo = <<>> /\ (ok => out.alive)
      /\ session' = (IF out.bad THEN "ended" ELSE "reads")
      /\ out' = IF session' = "ended" THEN Sync(out, ok) ELSE out
      /\ todo' = todo /\ inserted' = inserted
  BY DEF TurnsToRead, GoesOn
<1>3. /\ todo \in Seq(Seq(Letters)) /\ inserted \in Seq(Letters) /\ out \in Outbufs
  BY DEF IInv, OutTypes
<1>4. out.buf \in Seq(Letters) /\ out.sent \in Seq(Letters)  BY <1>3 DEF Outbufs
<1>5. Len(<<>>) = 0 /\ Len(out.buf) \in Nat /\ bf_size = 16
  BY <1>4, EmptySeq, LenProperties DEF bf_size
<1>6. /\ (out.alive <=> ~out.bad) /\ ~out.overrun /\ IsPrefix(out.sent, inserted)
      /\ ~out.bad => inserted = out.sent \o out.buf /\ Len(out.buf) <= bf_size
      /\ out.bad => Len(out.buf) + Len(todo) <= bf_size + 1
      /\ ~out.bad => LeftToWrite(todo, out.buf)
  BY <1>2 DEF IInv, OutInv
<1>7. CASE ~out.bad
  <2>1. session' = "reads" /\ out' = out  BY <1>2, <1>7
  <2>2. out.buf = <<>>  BY <1>2, <1>3, <1>4, <1>6, <1>7, NextToWrite
  <2> QED  BY <2>1, <2>2, <1>2, <1>3, <1>6, <1>7, <1>1 DEF IInv, OutTypes, OutInv
<1>8. CASE out.bad
  <2>1. session' = "ended" /\ out' = Sync(out, ok) /\ ~ok  BY <1>2, <1>6, <1>8
  <2>2. /\ out' \in Outbufs
        /\ out.buf = <<>> => out' = out
        /\ out.buf # <<>> => /\ ~out'.alive
                             /\ out'.overrun <=> (out.overrun \/ Len(out.buf) > bf_size + 1)
                             /\ out'.sent = out.sent /\ out'.bad
    BY <2>1, <1>3, SyncFields
  <2>3. Len(out.buf) <= bf_size + 1  BY <1>2, <1>5, <1>6, <1>8
  <2>4. /\ (out'.alive <=> ~out'.bad) /\ ~out'.overrun /\ out'.bad
        /\ IsPrefix(out'.sent, inserted)
    <3>1. CASE out.buf = <<>>
      BY <3>1, <2>2, <1>6, <1>8
    <3>2. CASE out.buf # <<>>
      <4>1. ~out'.overrun  BY <3>2, <2>2, <2>3, <1>5, <1>6
      <4> QED  BY <3>2, <4>1, <2>2, <1>6
    <3> QED  BY <3>1, <3>2
  <2> QED  BY <2>1, <2>2, <2>4, <1>2, <1>3, <1>1 DEF IInv, OutTypes, OutInv
<1> QED  BY <1>7, <1>8

\* What is past is forgotten while the session reads.
LEMMA ForgottenFields ==
  ASSUME IInv, session = "reads", Forgotten
  PROVE  /\ out' \in Outbufs /\ out'.buf = <<>> /\ out'.sent = <<>>
         /\ out'.alive /\ ~out'.bad /\ ~out'.overrun
         /\ inserted' = <<>> /\ inserted' \in Seq(Letters)
         /\ inserted' = out'.sent \o out'.buf /\ IsPrefix(out'.sent, inserted')
         /\ Len(out'.buf) <= bf_size
<1>1. /\ out \in Outbufs /\ out.buf = <<>> /\ ~out.bad /\ out.alive /\ ~out.overrun
  BY DEF IInv, OutTypes, OutInv
<1>2. <<>> \in Seq(Letters) /\ Len(<<>>) = 0 /\ bf_size = 16  BY EmptySeq DEF bf_size
<1>3. out' = [out EXCEPT !.sent = <<>>] /\ inserted' = <<>>  BY <1>1 DEF Forgotten
<1>4. /\ out' \in Outbufs /\ out'.buf = <<>> /\ out'.sent = <<>>
      /\ out'.alive /\ ~out'.bad /\ ~out'.overrun
  BY <1>1, <1>2, <1>3 DEF Outbufs
<1>5. <<>> = <<>> \o <<>>  BY <1>2, ConcatEmptySeq
<1>6. IsPrefix(<<>>, <<>>)  BY <1>2, PrefixOfItself
<1>7. inserted' = out'.sent \o out'.buf /\ IsPrefix(out'.sent, inserted')
  BY <1>3, <1>4, <1>5, <1>6
<1> QED  BY <1>2, <1>3, <1>4, <1>7

LEMMA NextInv == IInv /\ [Next]_vars => IInv'
<1> SUFFICES ASSUME IInv, [Next]_vars PROVE IInv'
  OBVIOUS
<1>1. ASSUME UNCHANGED outputVars, MessageInv' PROVE IInv'
  BY <1>1 DEF IInv, OutTypes, OutInv, outputVars
<1>2. ASSUME NEW ok1 \in BOOLEAN, NEW ok2 \in BOOLEAN, Stream(ok1, ok2) PROVE IInv'
  BY <1>2, FlushStep, PutStep
<1>3. ASSUME NEW ok \in BOOLEAN, TurnsToRead(ok) PROVE IInv'
  BY <1>3, TurnStep
<1>4. ASSUME NEW n \in 1 .. Len(out.sent), ReadReply(n) PROVE IInv'
  BY <1>4, <1>1 DEF ReadReply, IInv, MessageInv, inputVars, outputVars
<1>5. CASE SendData
  <2>1. session = "reads" /\ session' = "writes" /\ todo' = Go /\ Forgotten
    BY <1>5 DEF SendData
  <2>2. /\ out' \in Outbufs /\ out'.buf = <<>> /\ out'.sent = <<>>
        /\ out'.alive /\ ~out'.bad /\ ~out'.overrun
        /\ inserted' \in Seq(Letters)
        /\ inserted' = out'.sent \o out'.buf /\ IsPrefix(out'.sent, inserted')
        /\ Len(out'.buf) <= bf_size
    BY <2>1, ForgottenFields
  <2>3. todo' \in Seq(Seq(Letters)) /\ LeftToWrite(todo', out'.buf)
    BY <2>1, <2>2, RepliesLeft
  <2>4. MessageInv'
    <3>1. message' = <<>>  BY <1>5 DEF SendData, inputVars, IInv, MessageInv
    <3> QED  BY <3>1 DEF MessageInv
  <2> QED  BY <2>1, <2>2, <2>3, <2>4 DEF IInv, OutTypes, OutInv
<1>6. ASSUME NEW piece \in Pieces, Compose(piece) PROVE IInv'
  <2>1. session = "reads" /\ session' = "reads" /\ stage' = "data" /\ UNCHANGED outputVars
    BY <1>6 DEF Compose, outputVars, clientVars
  <2>2. MessageInv'  BY <2>1 DEF MessageInv
  <2> QED  BY <2>1, <2>2, <1>1
<1>7. CASE FixMessage
  <2>1. session = "reads" /\ session' = "reads" /\ todo' = todo /\ Forgotten
    BY <1>7 DEF FixMessage, IInv, MessageInv
  <2>2. /\ out' \in Outbufs /\ out'.buf = <<>> /\ out'.sent = <<>>
        /\ out'.alive /\ ~out'.bad /\ ~out'.overrun
        /\ inserted' \in Seq(Letters)
        /\ inserted' = out'.sent \o out'.buf /\ IsPrefix(out'.sent, inserted')
        /\ Len(out'.buf) <= bf_size
    BY <2>1, ForgottenFields
  <2>3. todo' \in Seq(Seq(Letters))  BY <2>1 DEF IInv, OutTypes
  <2>4. MessageInv'  BY <1>7 DEF FixMessage, MessageInv
  <2> QED  BY <2>1, <2>2, <2>3, <2>4 DEF IInv, OutTypes, OutInv
<1>8. ASSUME NEW n \in 1 .. Len(wire), ReadMessage(n) PROVE IInv'
  <2>1. UNCHANGED <<stage, message, session>> /\ UNCHANGED outputVars
    BY <1>8 DEF ReadMessage, outputVars, clientVars
  <2>2. MessageInv'  BY <2>1 DEF IInv, MessageInv
  <2> QED  BY <2>1, <2>2, <1>1
<1>9. CASE Answer
  <2>1. /\ session = "reads" /\ session' = "writes" /\ out' = out /\ inserted' = inserted
        /\ todo' = Refusal \/ todo' = Ok
    BY <1>9 DEF Answer
  <2>2. /\ out \in Outbufs /\ inserted \in Seq(Letters)
        /\ (out.alive <=> ~out.bad) /\ ~out.overrun /\ IsPrefix(out.sent, inserted)
        /\ ~out.bad /\ out.buf = <<>>
        /\ inserted = out.sent \o out.buf /\ Len(out.buf) <= bf_size
    BY <2>1 DEF IInv, OutTypes, OutInv
  <2>3. todo' \in Seq(Seq(Letters)) /\ LeftToWrite(todo', <<>>)
    BY <2>1, RepliesLeft
  <2>4. MessageInv'  BY <1>9 DEF Answer, MessageInv
  <2> QED  BY <2>1, <2>2, <2>3, <2>4 DEF IInv, OutTypes, OutInv
<1>10. CASE UNCHANGED vars
  BY <1>10, <1>1 DEF vars, inputVars, outputVars, clientVars, IInv, MessageInv
<1> QED  BY <1>2, <1>3, <1>4, <1>5, <1>6, <1>7, <1>8, <1>9, <1>10 DEF Next

LEMMA Invariant == Spec => []IInv
BY InitInv, NextInv, PTL DEF Spec
-----------------------------------------------------------------------------
(* The theorems. *)

\* What arrives is what the session wrote, in order and up to a failure, and no
\* write reads behind the end of the buffer, also after one has failed
\* (outbuf.h:37-84).
THEOREM WhatArrivesIsInOrder == Spec => []OutputInOrder
<1>1. IInv => OutputInOrder  BY DEF IInv, OutInv, OutputInOrder
<1> QED  BY <1>1, Invariant, PTL

\* Nothing that the client waits for is left in the buffer of a session that
\* reads, although the greeting is not flushed (session.h:65, outbuf.h:12).
THEOREM NothingIsLeftBehind == Spec => []NothingHeldBack
<1>1. IInv => NothingHeldBack
  <2> SUFFICES ASSUME IInv, session = "reads"
               PROVE  out.buf = <<>> /\ out.sent = inserted
    BY DEF NothingHeldBack
  <2>1. /\ out \in Outbufs /\ ~out.bad /\ out.buf = <<>>
        /\ inserted = out.sent \o out.buf
    BY DEF IInv, OutTypes, OutInv
  <2>2. out.sent \in Seq(Letters)  BY <2>1 DEF Outbufs
  <2> QED  BY <2>1, <2>2, ConcatEmptySeq
<1> QED  BY <1>1, Invariant, PTL

-----------------------------------------------------------------------------
(* Induction on the natural numbers, and folds. *)

\* A set of naturals that is not empty has a least element.
LEMMA LeastElement ==
  ASSUME NEW T \in SUBSET Nat, T # {}
  PROVE  \E m \in T : \A i \in T : m <= i
<1>1. PICK m \in T : \A i \in T : ~(<<i, m>> \in OpToRel(<, Nat))
  BY NatLessThanWellFounded, WFMin
<1>2. ASSUME NEW i \in T PROVE m <= i
  <2>1. i \in Nat /\ m \in Nat  OBVIOUS
  <2>2. ~(i < m)  BY <1>1, <2>1 DEF OpToRel
  <2> QED  BY <2>1, <2>2
<1> QED  BY <1>2

\* Induction: a set that has 0 and every successor has all numbers.
LEMMA Induction ==
  ASSUME NEW T \in SUBSET Nat, 0 \in T, \A n \in T : n + 1 \in T
  PROVE  \A n \in Nat : n \in T
<1> SUFFICES ASSUME Nat \ T # {} PROVE FALSE
  OBVIOUS
<1>1. PICK m \in Nat \ T : \A i \in Nat \ T : m <= i  BY LeastElement
<1>2. m # 0 /\ m - 1 \in Nat  OBVIOUS
<1>3. m - 1 \in T  BY <1>1, <1>2
<1> QED  BY <1>2, <1>3

\* The folds of s: what a recursive function over its places computes.
Folds(S, step, a, s) ==
  {f \in [0 .. Len(s) -> S] :
     f[0] = a /\ \A k \in 1 .. Len(s) : f[k] = step[<<f[k - 1], s[k]>>]}

\* There is a function for what the fold makes of each beginning of s.
LEMMA FoldExists ==
  ASSUME NEW S, NEW C, NEW step \in [S \X C -> S], NEW a \in S, NEW s \in Seq(C)
  PROVE  Folds(S, step, a, s) # {}
<1> DEFINE IsFold(f, n) ==
             f \in [0 .. n -> S] /\ f[0] = a /\ \A k \in 1 .. n : f[k] = step[<<f[k - 1], s[k]>>]
           T == {n \in Nat : n <= Len(s) => \E f : IsFold(f, n)}
<1>1. Len(s) \in Nat  BY LenProperties
<1>2. 0 \in T
  <2>1. IsFold([k \in 0 .. 0 |-> a], 0)  OBVIOUS
  <2> QED  BY <2>1
<1>3. ASSUME NEW n \in T PROVE n + 1 \in T
  <2> SUFFICES ASSUME n + 1 <= Len(s) PROVE \E f : IsFold(f, n + 1)
    OBVIOUS
  <2>1. n \in Nat /\ n <= Len(s)  BY <1>1
  <2>2. PICK f : IsFold(f, n)  BY <2>1
  <2>3. s[n + 1] \in C  BY <2>1, <1>1
  <2> DEFINE g == [k \in 0 .. n + 1 |-> IF k = n + 1 THEN step[<<f[n], s[n + 1]>>] ELSE f[k]]
  <2>4. step[<<f[n], s[n + 1]>>] \in S
    <3>1. <<f[n], s[n + 1]>> \in S \X C  BY <2>1, <2>2, <2>3
    <3> QED  BY <3>1
  <2>5. g \in [0 .. n + 1 -> S] /\ g[0] = a  BY <2>1, <2>2, <2>4
  <2>6. ASSUME NEW k \in 1 .. n + 1 PROVE g[k] = step[<<g[k - 1], s[k]>>]
    <3>1. CASE k = n + 1
      <4>1. g[k] = step[<<f[n], s[n + 1]>>] /\ g[k - 1] = f[n]  BY <2>1, <3>1
      <4> QED  BY <4>1, <3>1
    <3>2. CASE k # n + 1
      <4>1. k \in 1 .. n  BY <2>1, <3>2
      <4>2. g[k] = f[k] /\ g[k - 1] = f[k - 1]  BY <2>1, <4>1
      <4>3. f[k] = step[<<f[k - 1], s[k]>>]  BY <2>2, <4>1
      <4> QED  BY <4>2, <4>3
    <3> QED  BY <3>1, <3>2
  <2> HIDE DEF g
  <2> QED  BY <2>5, <2>6
<1> HIDE DEF T
<1>4. Len(s) \in T  BY <1>1, <1>2, <1>3, Induction DEF T
<1>5. PICK f : IsFold(f, Len(s))  BY <1>1, <1>4 DEF T
<1> QED  BY <1>5 DEF Folds

-----------------------------------------------------------------------------
(* The searches for the end of the data. *)

Scans == [state : {"dflt", "cr1", "lf1", "dot", "cr2", "lf2"}, taken : Nat, last : Nat]

LEMMA ScannedType ==
  ASSUME NEW a \in Scans, NEW c
  PROVE  Scanned(a, c) \in Scans
BY DEF Scanned, Scans, Moved

\* The automaton goes over s character by character.
LEMMA ScannedAllSteps ==
  ASSUME NEW a \in Scans, NEW C, NEW s \in Seq(C)
  PROVE  \E f :
           /\ f[0] = a
           /\ \A k \in 1 .. Len(s) : f[k] = Scanned(f[k - 1], s[k])
           /\ ScannedAll(a, s) = f[Len(s)]
<1> DEFINE step == [p \in Scans \X C |-> Scanned(p[1], p[2])]
<1>1. step \in [Scans \X C -> Scans]  BY ScannedType
<1>2. PICK f \in [0 .. Len(s) -> Scans] :
        f[0] = a /\ \A k \in 1 .. Len(s) : f[k] = step[<<f[k - 1], s[k]>>]
  <2> HIDE DEF step
  <2>1. Folds(Scans, step, a, s) # {}  BY <1>1, FoldExists, Zenon
  <2> QED  BY <2>1 DEF Folds
<1>3. Len(s) \in Nat  BY LenProperties
<1>4. ASSUME NEW k \in 1 .. Len(s) PROVE f[k] = Scanned(f[k - 1], s[k])
  <2>1. f[k - 1] \in Scans /\ s[k] \in C  BY <1>3
  <2>2. <<f[k - 1], s[k]>> \in Scans \X C  BY <2>1
  <2> QED  BY <1>2, <2>2
<1>5. f = [k \in 0 .. Len(s) |-> IF k = 0 THEN a ELSE Scanned(f[k - 1], s[k])]
  BY <1>2, <1>3, <1>4
<1> DEFINE g == CHOOSE g : g = [k \in 0 .. Len(s) |-> IF k = 0 THEN a ELSE Scanned(g[k - 1], s[k])]
<1>6. g = [k \in 0 .. Len(s) |-> IF k = 0 THEN a ELSE Scanned(g[k - 1], s[k])]
  BY <1>5
<1>7. ScannedAll(a, s) = g[Len(s)]  BY DEF ScannedAll
<1>8. g[0] = a /\ \A k \in 1 .. Len(s) : g[k] = Scanned(g[k - 1], s[k])
  BY <1>3, <1>6
<1> QED  BY <1>7, <1>8

\* The j characters in front of place k + 1 are the first j of the mark.
Matches(w, k, j) == k >= j /\ \A i \in 1 .. j : w[k - j + i] = EndMark[i]

\* The mark is at the end of w and nowhere else.
EndsOnce(w) ==
  /\ w \in Seq(Chars) /\ Len(w) >= 5
  /\ \A k \in 1 .. Len(w) : Matches(w, k, 5) <=> k = Len(w)

\* How much of the mark agrees, one character on.
LEMMA MatchesMore ==
  ASSUME NEW w, NEW k \in Nat
  PROVE  /\ Matches(w, k, 0)
         /\ \A j \in 0 .. 4 :
              Matches(w, k + 1, j + 1) <=> Matches(w, k, j) /\ w[k + 1] = EndMark[j + 1]
<1>1. Matches(w, k, 0)  BY DEF Matches
<1>2. ASSUME NEW j \in 0 .. 4
      PROVE  Matches(w, k + 1, j + 1) <=> Matches(w, k, j) /\ w[k + 1] = EndMark[j + 1]
  <2>1. \A i \in 1 .. j : k + 1 - (j + 1) + i = k - j + i  OBVIOUS
  <2>2. k + 1 - (j + 1) + (j + 1) = k + 1  OBVIOUS
  <2>3. ASSUME Matches(w, k + 1, j + 1)
        PROVE  Matches(w, k, j) /\ w[k + 1] = EndMark[j + 1]
    <3>1. /\ k + 1 >= j + 1
          /\ \A i \in 1 .. j + 1 : w[k + 1 - (j + 1) + i] = EndMark[i]
      BY <2>3 DEF Matches
    <3>2. j + 1 \in 1 .. j + 1 /\ \A i \in 1 .. j : i \in 1 .. j + 1  OBVIOUS
    <3> QED  BY <2>1, <2>2, <3>1, <3>2 DEF Matches
  <2>4. ASSUME Matches(w, k, j), w[k + 1] = EndMark[j + 1]
        PROVE  Matches(w, k + 1, j + 1)
    <3>1. k >= j /\ \A i \in 1 .. j : w[k - j + i] = EndMark[i]  BY <2>4 DEF Matches
    <3>2. \A i \in 1 .. j + 1 : i \in 1 .. j \/ i = j + 1  OBVIOUS
    <3>3. \A i \in 1 .. j + 1 : w[k + 1 - (j + 1) + i] = EndMark[i]
      BY <2>1, <2>2, <2>4, <3>1, <3>2
    <3>4. k + 1 >= j + 1  BY <3>1
    <3> QED  BY <3>3, <3>4 DEF Matches
  <2> QED  BY <2>3, <2>4
<1> QED  BY <1>1, <1>2

\* What the automaton knows of the k characters it has taken.
Follows(a, w, k) ==
  /\ a \in Scans /\ a.taken = k
  /\ Matches(w, k, 1) <=> a.state \in {"cr1", "cr2"}
  /\ Matches(w, k, 2) <=> a.state \in {"lf1", "lf2"}
  /\ Matches(w, k, 3) <=> a.state = "dot"
  /\ Matches(w, k, 4) <=> a.state = "cr2"
  /\ Matches(w, k, 5) <=> a.state = "lf2"
  /\ a.state = "cr1" => a.last = k - 1
  /\ a.state = "lf1" => a.last = k - 2
  /\ a.state = "dot" => a.last = k - 3
  /\ a.state = "cr2" => a.last = k - 4
  /\ a.state = "lf2" => a.last = k - 5

\* One character more, as long as the mark has not been found.
LEMMA ScanFollows ==
  ASSUME NEW w, NEW k \in Nat, NEW a, Follows(a, w, k), ~Matches(w, k, 5)
  PROVE  Follows(Scanned(a, w[k + 1]), w, k + 1)
<1> DEFINE c == w[k + 1]
           b == Scanned(a, c)
           t == Moved(a.state, c)
<1>1. a \in Scans /\ a.taken = k /\ a.state # "lf2" /\ b \in Scans
  BY ScannedType DEF Follows
<1>2. /\ b.state = t /\ b.taken = k + 1
      /\ b.last = IF t = "cr1" THEN k ELSE a.last
  BY <1>1 DEF Scanned
<1>3. /\ Matches(w, k + 1, 1) <=> c = "CR"
      /\ Matches(w, k + 1, 2) <=> Matches(w, k, 1) /\ c = "LF"
      /\ Matches(w, k + 1, 3) <=> Matches(w, k, 2) /\ c = "."
      /\ Matches(w, k + 1, 4) <=> Matches(w, k, 3) /\ c = "CR"
      /\ Matches(w, k + 1, 5) <=> Matches(w, k, 4) /\ c = "LF"
  <2>1. /\ EndMark[1] = "CR" /\ EndMark[2] = "LF" /\ EndMark[3] = "."
        /\ EndMark[4] = "CR" /\ EndMark[5] = "LF"
    BY DEF EndMark
  <2>2. /\ Matches(w, k, 0)
        /\ \A j \in 0 .. 4 :
             Matches(w, k + 1, j + 1) <=> Matches(w, k, j) /\ w[k + 1] = EndMark[j + 1]
    BY MatchesMore
  <2>3. /\ Matches(w, k + 1, 0 + 1) <=> Matches(w, k, 0) /\ w[k + 1] = EndMark[0 + 1]
        /\ Matches(w, k + 1, 1 + 1) <=> Matches(w, k, 1) /\ w[k + 1] = EndMark[1 + 1]
        /\ Matches(w, k + 1, 2 + 1) <=> Matches(w, k, 2) /\ w[k + 1] = EndMark[2 + 1]
        /\ Matches(w, k + 1, 3 + 1) <=> Matches(w, k, 3) /\ w[k + 1] = EndMark[3 + 1]
        /\ Matches(w, k + 1, 4 + 1) <=> Matches(w, k, 4) /\ w[k + 1] = EndMark[4 + 1]
    BY <2>2
  <2> QED  BY <2>1, <2>2, <2>3
<1>4. t \in {"dflt", "cr1", "lf1", "dot", "cr2", "lf2"}  BY DEF Moved
<1>5. /\ t \in {"cr1", "cr2"} <=> c = "CR"
      /\ t \in {"lf1", "lf2"} <=> a.state \in {"cr1", "cr2"} /\ c = "LF"
      /\ t = "dot" <=> a.state = "lf1" /\ c = "."
      /\ t = "cr2" <=> a.state = "dot" /\ c = "CR"
      /\ t = "lf1" <=> a.state = "cr1" /\ c = "LF"
      /\ t = "lf2" <=> a.state = "cr2" /\ c = "LF"
  BY <1>1 DEF Moved, Scans
<1> HIDE DEF b, c, t
<1>6. /\ Matches(w, k + 1, 1) <=> t \in {"cr1", "cr2"}
      /\ Matches(w, k + 1, 2) <=> t \in {"lf1", "lf2"}
      /\ Matches(w, k + 1, 3) <=> t = "dot"
      /\ Matches(w, k + 1, 4) <=> t = "cr2"
      /\ Matches(w, k + 1, 5) <=> t = "lf2"
  BY <1>1, <1>3, <1>5 DEF Follows
<1>7. /\ t = "cr1" => b.last = k + 1 - 1
      /\ t = "lf1" => b.last = k + 1 - 2
      /\ t = "dot" => b.last = k + 1 - 3
      /\ t = "cr2" => b.last = k + 1 - 4
      /\ t = "lf2" => b.last = k + 1 - 5
  BY <1>1, <1>2, <1>5 DEF Follows
<1>8. Follows(b, w, k + 1)  BY <1>1, <1>2, <1>6, <1>7 DEF Follows
<1> QED  BY <1>8 DEF b, c

\* A piece is scanned.
LEMMA PieceScanned ==
  ASSUME NEW w, EndsOnce(w), NEW k \in Nat, NEW n \in Nat, k + n <= Len(w),
         NEW a, Follows(a, w, k)
  PROVE  Follows(ScannedAll(a, SubSeq(w, k + 1, k + n)), w, k + n)
<1> DEFINE s == SubSeq(w, k + 1, k + n)
<1>1. w \in Seq(Chars) /\ Len(w) \in Nat  BY LenProperties DEF EndsOnce
<1>2. s \in Seq(Chars) /\ Len(s) = n /\ \A i \in 1 .. n : s[i] = w[k + i]
  <2>1. \A i \in k + 1 .. k + n : w[i] \in Chars  BY <1>1
  <2>2. /\ s \in Seq(Chars)
        /\ Len(s) = IF k + 1 <= k + n THEN k + n - (k + 1) + 1 ELSE 0
        /\ \A i \in 1 .. k + n - (k + 1) + 1 : s[i] = w[k + 1 + i - 1]
    BY <2>1, SubSeqProperties
  <2> QED  BY <2>2
<1> HIDE DEF s
<1>3. a \in Scans  BY DEF Follows
<1>4. PICK f : /\ f[0] = a
               /\ \A i \in 1 .. Len(s) : f[i] = Scanned(f[i - 1], s[i])
               /\ ScannedAll(a, s) = f[Len(s)]
  BY <1>2, <1>3, ScannedAllSteps
<1> DEFINE T == {i \in Nat : i <= n => Follows(f[i], w, k + i)}
<1>5. 0 \in T  BY <1>4
<1>6. ASSUME NEW i \in T PROVE i + 1 \in T
  <2> SUFFICES ASSUME i + 1 <= n PROVE Follows(f[i + 1], w, k + (i + 1))
    OBVIOUS
  <2>1. i \in Nat /\ i <= n /\ Follows(f[i], w, k + i)  OBVIOUS
  <2>2. k + i \in Nat /\ k + i < Len(w)  BY <2>1, <1>1
  <2>3. ~Matches(w, k + i, 5)
    <3>1. CASE k + i = 0
      BY <3>1 DEF Matches
    <3>2. CASE k + i # 0
      <4>1. k + i \in 1 .. Len(w) /\ k + i # Len(w)  BY <2>2, <3>2, <1>1
      <4> QED  BY <4>1 DEF EndsOnce
    <3> QED  BY <3>1, <3>2
  <2>4. f[i + 1] = Scanned(f[i], w[k + i + 1])
    <3>1. i + 1 \in 1 .. n /\ i + 1 - 1 = i /\ k + (i + 1) = k + i + 1  BY <2>1
    <3> QED  BY <3>1, <1>2, <1>4
  <2>5. Follows(Scanned(f[i], w[k + i + 1]), w, k + i + 1)
    BY <2>1, <2>2, <2>3, ScanFollows
  <2>6. k + (i + 1) = k + i + 1  BY <2>1
  <2> QED  BY <2>4, <2>5, <2>6
<1>7. n \in T
  <2> HIDE DEF T
  <2>1. T \in SUBSET Nat  BY DEF T
  <2> QED  BY <2>1, <1>5, <1>6, Induction
<1> QED  BY <1>2, <1>4, <1>7 DEF s

\* Min, which is a choice, is the least.
LEMMA LeastIsMin ==
  ASSUME NEW T \in SUBSET Nat, T # {}
  PROVE  Min(T) \in T /\ \A i \in T : Min(T) <= i
<1>1. \E m \in T : \A i \in T : m <= i  BY LeastElement
<1> QED  BY <1>1, Zenon DEF Min

LEMMA MinOfTwo ==
  ASSUME NEW m \in Nat, NEW n \in Nat, m <= n
  PROVE  Min({m, n}) = m
<1>1. /\ Min({m, n}) \in {m, n}
      /\ \A i \in {m, n} : Min({m, n}) <= i
  <2>1. {m, n} \in SUBSET Nat /\ {m, n} # {}  OBVIOUS
  <2> QED  BY <2>1, LeastIsMin
<1> QED  BY <1>1

EndMarkType ==
  /\ EndMark \in Seq({"CR", "LF", "."}) /\ Len(EndMark) = 5

LEMMA EndMarkLength == EndMarkType
BY DEF EndMark, EndMarkType

\* Where the mark is said to agree with what is in s, a part of w.
LEMMA AgreesWithMark ==
  ASSUME NEW w, EndsOnce(w), NEW m \in 1 .. Len(w), NEW s, s = SubSeq(w, 1, m),
         NEW p \in Nat, p < m
  PROVE  LET agrees == IsPrefix(SubSeq(s, p + 1, Min({Len(s), p + Len(EndMark)})), EndMark)
         IN  /\ agrees /\ p + 5 <= m => Matches(w, p + 5, 5)
             /\ p = Len(w) - 5 => agrees
<1>1. w \in Seq(Chars) /\ Len(w) \in Nat /\ m \in Nat  BY LenProperties DEF EndsOnce
<1>2. s \in Seq(Chars) /\ Len(s) = m /\ \A i \in 1 .. m : s[i] = w[i]
  <2>1. \A i \in 1 .. m : w[i] \in Chars  BY <1>1
  <2>2. /\ SubSeq(w, 1, m) \in Seq(Chars)
        /\ Len(SubSeq(w, 1, m)) = IF 1 <= m THEN m - 1 + 1 ELSE 0
        /\ \A i \in 1 .. m - 1 + 1 : SubSeq(w, 1, m)[i] = w[1 + i - 1]
    BY <2>1, <1>1, SubSeqProperties
  <2> QED  BY <2>2, <1>1
<1>3. Len(EndMark) = 5  BY EndMarkLength DEF EndMarkType
<1> DEFINE e == Min({Len(s), p + Len(EndMark)})
           x == SubSeq(s, p + 1, e)
<1>4. e \in Nat /\ e <= m /\ e > p
  <2>1. {Len(s), p + Len(EndMark)} \in SUBSET Nat /\ {Len(s), p + Len(EndMark)} # {}
    BY <1>1, <1>2, <1>3
  <2>2. e \in {Len(s), p + Len(EndMark)} /\ e <= Len(s)  BY <2>1, LeastIsMin
  <2> QED  BY <2>2, <1>1, <1>2, <1>3
<1> HIDE DEF e
<1>5. x \in Seq(Chars) /\ Len(x) = e - p /\ \A i \in 1 .. e - p : x[i] = w[p + i]
  <2>1. \A i \in p + 1 .. e : s[i] \in Chars  BY <1>1, <1>2, <1>4
  <2>2. /\ x \in Seq(Chars)
        /\ Len(x) = IF p + 1 <= e THEN e - (p + 1) + 1 ELSE 0
        /\ \A i \in 1 .. e - (p + 1) + 1 : x[i] = s[p + 1 + i - 1]
    BY <2>1, <1>4, SubSeqProperties
  <2>3. \A i \in 1 .. e - p : p + i \in 1 .. m  BY <1>1, <1>4
  <2> QED  BY <2>2, <2>3, <1>2, <1>4
<1> HIDE DEF x
<1>6. ASSUME IsPrefix(x, EndMark), p + 5 <= m PROVE Matches(w, p + 5, 5)
  <2>1. e = p + 5
    <3>1. p + 5 \in Nat /\ Min({p + 5, m}) = p + 5  BY <1>6, <1>1, MinOfTwo
    <3>2. {p + 5, m} = {Len(s), p + Len(EndMark)}  BY <1>2, <1>3
    <3> QED  BY <3>1, <3>2 DEF e
  <2>2. Len(x) = 5  BY <1>5, <2>1
  <2>3. SubSeq(x, 1, 5) = SubSeq(EndMark, 1, 5)  BY <1>6, <2>2 DEF IsPrefix
  <2>4. SubSeq(x, 1, 5) = x  BY <1>5, <2>2, SubSeqFull
  <2>5. SubSeq(EndMark, 1, 5) = EndMark  BY EndMarkLength, SubSeqFull DEF EndMarkType
  <2>6. \A i \in 1 .. 5 : w[p + i] = EndMark[i]  BY <1>5, <2>1, <2>3, <2>4, <2>5
  <2>7. p + 5 >= 5 /\ \A i \in 1 .. 5 : p + 5 - 5 + i = p + i  OBVIOUS
  <2> QED  BY <2>6, <2>7 DEF Matches
<1>7. ASSUME p = Len(w) - 5 PROVE IsPrefix(x, EndMark)
  <2>1. e - p <= 5 /\ e - p \in Nat  BY <1>7, <1>1, <1>4
  <2>2. \A i \in 1 .. 5 : w[p + i] = EndMark[i]
    <3>1. Len(w) \in 1 .. Len(w)  BY <1>1 DEF EndsOnce
    <3>2. Matches(w, Len(w), 5)  BY <3>1 DEF EndsOnce
    <3> QED  BY <3>2, <1>7 DEF Matches
  <2>3. Len(x) <= Len(EndMark)  BY <2>1, <1>3, <1>5
  <2>4. SubSeq(x, 1, Len(x)) = x  BY <1>5, SubSeqFull
  <2> DEFINE y == SubSeq(EndMark, 1, Len(x))
  <2>5. /\ y \in Seq({"CR", "LF", "."}) /\ Len(y) = e - p
        /\ \A i \in 1 .. e - p : y[i] = EndMark[i]
    <3>1. \A i \in 1 .. e - p : EndMark[i] \in {"CR", "LF", "."}
      <4>1. \A i \in 1 .. 5 : EndMark[i] \in {"CR", "LF", "."}  BY DEF EndMark
      <4>2. \A i \in 1 .. e - p : i \in 1 .. 5  BY <2>1
      <4> QED  BY <4>1, <4>2
    <3>2. /\ SubSeq(EndMark, 1, e - p) \in Seq({"CR", "LF", "."})
          /\ Len(SubSeq(EndMark, 1, e - p)) = IF 1 <= e - p THEN e - p - 1 + 1 ELSE 0
          /\ \A i \in 1 .. e - p - 1 + 1 : SubSeq(EndMark, 1, e - p)[i] = EndMark[1 + i - 1]
      BY <3>1, <2>1, SubSeqProperties
    <3>3. y = SubSeq(EndMark, 1, e - p)  BY <1>5
    <3> HIDE DEF y
    <3> QED  BY <3>2, <3>3, <2>1
  <2> HIDE DEF y
  <2>6. \A i \in 1 .. e - p : x[i] = y[i]
    <3>1. \A i \in 1 .. e - p : i \in 1 .. 5  BY <2>1
    <3> QED  BY <3>1, <2>2, <2>5, <1>5
  <2>7. \A i \in 1 .. e - p : x[i] \in {"CR", "LF", "."}  BY <2>5, <2>6
  <2>8. x \in Seq({"CR", "LF", "."})
    <3>1. SubSeq(x, 1, e - p) \in Seq({"CR", "LF", "."})
      BY <2>1, <2>7, SubSeqProperties
    <3> QED  BY <3>1, <2>4, <1>5
  <2>9. x = y  BY <2>5, <2>6, <2>8, <1>5, SeqEqual
  <2> QED  BY <2>3, <2>4, <2>9 DEF IsPrefix, y
<1> QED  BY <1>6, <1>7 DEF e, x

\* What the search has found in the first k characters.
Finds(o, w, k) ==
  /\ o.found \in BOOLEAN /\ o.position \in Nat
  /\ IF k = Len(w) THEN o.found /\ o.position = Len(w)
     ELSE ~o.found /\ o.position <= Len(w) - 5

\* A search in what has arrived finds the mark when all has.
LEMMA SearchFinds ==
  ASSUME NEW w, EndsOnce(w), NEW m \in 1 .. Len(w), NEW o,
         o.position \in Nat, o.position <= Len(w) - 5
  PROVE  Finds(Searched(o, SubSeq(w, 1, m)), w, m)
<1> DEFINE s == SubSeq(w, 1, m)
           from == o.position
           Agrees(p) == IsPrefix(SubSeq(s, p + 1, Min({Len(s), p + Len(EndMark)})), EndMark)
           T == {p \in from .. Len(s) - 1 : Agrees(p)} \cup {Len(s)}
           p == PartialSearch(s, from)
<1>1. w \in Seq(Chars) /\ Len(w) \in Nat /\ m \in Nat /\ Len(w) >= 5
  BY LenProperties DEF EndsOnce
<1>2. s = SubSeq(w, 1, m) /\ Len(s) = m
  <2>1. \A i \in 1 .. m : w[i] \in Chars  BY <1>1
  <2>2. Len(SubSeq(w, 1, m)) = IF 1 <= m THEN m - 1 + 1 ELSE 0
    BY <2>1, <1>1, SubSeqProperties
  <2> QED  BY <2>2, <1>1
<1>3. Len(EndMark) = 5  BY EndMarkLength DEF EndMarkType
<1>4. p = Min(T)  BY DEF PartialSearch
<1> HIDE DEF s
<1>5. T \in SUBSET Nat /\ T # {}
  <2>1. from \in Nat /\ Len(s) \in Nat  BY <1>1, <1>2
  <2> HIDE DEF from, Agrees
  <2>2. from .. Len(s) - 1 \subseteq Nat  BY <2>1
  <2> QED  BY <2>1, <2>2
<1>6. p \in T /\ \A i \in T : p <= i
  <2> HIDE DEF T, p
  <2> QED  BY <1>4, <1>5, LeastIsMin
<1>7. \A q \in Nat : q < m =>
        /\ Agrees(q) /\ q + 5 <= m => Matches(w, q + 5, 5)
        /\ q = Len(w) - 5 => Agrees(q)
  BY <1>2, AgreesWithMark
<1>8. Len(w) - 5 < m => Len(w) - 5 \in T
  <2> SUFFICES ASSUME Len(w) - 5 < m PROVE Len(w) - 5 \in T
    OBVIOUS
  <2> DEFINE q == Len(w) - 5
  <2>1. q \in Nat /\ q < m /\ from <= q /\ from \in Nat /\ q = Len(w) - 5  BY <1>1
  <2> HIDE DEF q, from, Agrees
  <2>2. Agrees(q)  BY <2>1, <1>7
  <2>3. q \in from .. Len(s) - 1  BY <2>1, <1>1, <1>2
  <2> QED  BY <2>1, <2>2, <2>3
<1>9. p \in Nat /\ p <= m /\ (p = m \/ (p < m /\ Agrees(p)))
  BY <1>1, <1>2, <1>5, <1>6
<1> HIDE DEF Agrees, T, p
<1>10. p <= Len(w) - 5
  <2>1. CASE Len(w) - 5 < m
    BY <2>1, <1>6, <1>8
  <2>2. CASE ~(Len(w) - 5 < m)
    BY <2>2, <1>1, <1>9
  <2> QED  BY <2>1, <2>2
<1>11. p + 5 <= m => m = Len(w) /\ p = Len(w) - 5
  <2> SUFFICES ASSUME p + 5 <= m PROVE m = Len(w) /\ p = Len(w) - 5
    OBVIOUS
  <2>1. Matches(w, p + 5, 5)  BY <1>1, <1>7, <1>9
  <2>2. p + 5 \in 1 .. Len(w)  BY <1>1, <1>9
  <2>3. p + 5 = Len(w)  BY <2>1, <2>2 DEF EndsOnce
  <2> QED  BY <2>3, <1>1, <1>9
<1>12. Searched(o, s) =
         IF p + 5 <= m THEN [found |-> TRUE, position |-> p + 5]
         ELSE [found |-> FALSE, position |-> p]
  BY <1>2, <1>3 DEF Searched, p
<1>13. CASE p + 5 <= m
  <2>1. Searched(o, s) = [found |-> TRUE, position |-> p + 5]  BY <1>12, <1>13
  <2>2. m = Len(w) /\ p + 5 = Len(w)  BY <1>1, <1>11, <1>13
  <2>3. Finds(Searched(o, s), w, m)  BY <2>1, <2>2, <1>1 DEF Finds
  <2> QED  BY <2>3 DEF s
<1>14. CASE ~(p + 5 <= m)
  <2>1. Searched(o, s) = [found |-> FALSE, position |-> p]  BY <1>12, <1>14
  <2>2. m # Len(w)  BY <1>1, <1>9, <1>10, <1>14
  <2>3. Finds(Searched(o, s), w, m)  BY <2>1, <2>2, <1>9, <1>10 DEF Finds
  <2> QED  BY <2>3 DEF s
<1> QED  BY <1>13, <1>14

-----------------------------------------------------------------------------
(* What is kept of a text. *)

\* A fold whose step looks at the place, not at what is there.
PlaceFolds(S, n, step, a) ==
  {f \in [0 .. n -> S] : f[0] = a /\ \A k \in 1 .. n : f[k] = step[<<f[k - 1], k>>]}

LEMMA PlacesFold ==
  ASSUME NEW S, NEW n \in Nat, NEW step \in [S \X (1 .. n) -> S], NEW a \in S
  PROVE  PlaceFolds(S, n, step, a) # {}
<1> DEFINE s == [k \in 1 .. n |-> k]
<1>1. s \in Seq(1 .. n) /\ Len(s) = n /\ \A k \in 1 .. n : s[k] = k  OBVIOUS
<1> HIDE DEF s
<1>2. Folds(S, step, a, s) # {}  BY <1>1, FoldExists, Zenon
<1> QED  BY <1>1, <1>2 DEF Folds, PlaceFolds

\* f goes over s and keeps what stands in the places.
Keeps(f, s, places) ==
  /\ f[0] = <<>>
  /\ \A k \in 1 .. Len(s) : f[k] = IF k \in places THEN Append(f[k - 1], s[k]) ELSE f[k - 1]
  /\ Kept(s, places) = f[Len(s)]

LEMMA KeptSteps ==
  ASSUME NEW C, NEW s \in Seq(C), NEW places
  PROVE  \E f : Keeps(f, s, places)
<1> DEFINE n == Len(s)
           S == Seq(C)
           step == [p \in S \X (1 .. n) |->
                      IF p[2] \in places THEN Append(p[1], s[p[2]]) ELSE p[1]]
<1>1. n \in Nat /\ \A k \in 1 .. n : s[k] \in C  BY LenProperties
<1>2. step \in [S \X (1 .. n) -> S]
  <2>1. ASSUME NEW p \in S \X (1 .. n)
        PROVE  (IF p[2] \in places THEN Append(p[1], s[p[2]]) ELSE p[1]) \in S
    <3>1. p[1] \in Seq(C) /\ s[p[2]] \in C  BY <1>1
    <3>2. Append(p[1], s[p[2]]) \in Seq(C)  BY <3>1, AppendProperties
    <3> QED  BY <3>1, <3>2
  <2> QED  BY <2>1
<1>3. <<>> \in S  BY EmptySeq
<1>4. PICK f \in [0 .. n -> S] :
        f[0] = <<>> /\ \A k \in 1 .. n : f[k] = step[<<f[k - 1], k>>]
  <2> HIDE DEF step, S, n
  <2>1. PlaceFolds(S, n, step, <<>>) # {}  BY <1>1, <1>2, <1>3, PlacesFold, Zenon
  <2> QED  BY <2>1 DEF PlaceFolds
<1>5. ASSUME NEW k \in 1 .. n
      PROVE  f[k] = IF k \in places THEN Append(f[k - 1], s[k]) ELSE f[k - 1]
  <2>1. f[k - 1] \in S  BY <1>1, <1>4
  <2>2. <<f[k - 1], k>> \in S \X (1 .. n)  BY <2>1
  <2> QED  BY <1>4, <2>2
<1> DEFINE Chosen(g, k) == IF k \in places THEN Append(g[k - 1], s[k]) ELSE g[k - 1]
           IsKept(g) == g = [k \in 0 .. Len(s) |-> IF k = 0 THEN <<>> ELSE Chosen(g, k)]
           g == CHOOSE g : IsKept(g)
<1>6. IsKept(f)
  <2>1. \A k \in 1 .. n : f[k] = Chosen(f, k)  BY <1>5
  <2> HIDE DEF Chosen
  <2>2. \A k \in 0 .. n : f[k] = IF k = 0 THEN <<>> ELSE Chosen(f, k)  BY <2>1, <1>1, <1>4
  <2> QED  BY <2>2, <1>4
<1>7. IsKept(g)
  <2> HIDE DEF IsKept
  <2> QED  BY <1>6
<1>8. Kept(s, places) = g[Len(s)]  BY DEF Kept
<1> HIDE DEF g
<1>9. g[0] = <<>> /\ \A k \in 1 .. n : g[k] = Chosen(g, k)
  <2> HIDE DEF Chosen
  <2>1. \A k \in 0 .. n : g[k] = IF k = 0 THEN <<>> ELSE Chosen(g, k)  BY <1>7
  <2> QED  BY <2>1, <1>1
<1> QED  BY <1>8, <1>9 DEF Keeps

\* P and Q agree on s.
SamePlaces(s, P, Q) == \A k \in 1 .. Len(s) : k \in P <=> k \in Q

KeepsMore(C, s, c, P, Q) ==
  /\ Kept(<<>>, P) = <<>>
  /\ Kept(s, P) \in Seq(C)
  /\ Kept(Append(s, c), Q) = IF Len(s) + 1 \in Q THEN Append(Kept(s, P), c) ELSE Kept(s, P)

\* What is kept of a sequence, and of one that is longer by one.
LEMMA KeptMore ==
  ASSUME NEW C, NEW s \in Seq(C), NEW c \in C, NEW P, NEW Q, SamePlaces(s, P, Q)
  PROVE  KeepsMore(C, s, c, P, Q)
<1> DEFINE n == Len(s)
           t == Append(s, c)
<1>1. n \in Nat /\ \A k \in 1 .. n : s[k] \in C  BY LenProperties
<1>2. t \in Seq(C) /\ Len(t) = n + 1 /\ t[n + 1] = c /\ \A k \in 1 .. n : t[k] = s[k]
  BY AppendProperties
<1> HIDE DEF t
<1>3. PICK f : Keeps(f, s, P)  BY KeptSteps
<1>4. PICK g : Keeps(g, t, Q)  BY <1>2, KeptSteps
<1> DEFINE T == {k \in Nat : k <= n => f[k] = g[k] /\ f[k] \in Seq(C)}
<1>5. 0 \in T  BY <1>3, <1>4, EmptySeq DEF Keeps
<1>6. ASSUME NEW k \in T PROVE k + 1 \in T
  <2> SUFFICES ASSUME k + 1 <= n PROVE f[k + 1] = g[k + 1] /\ f[k + 1] \in Seq(C)
    OBVIOUS
  <2>1. k \in Nat /\ k <= n /\ f[k] = g[k] /\ f[k] \in Seq(C)  BY <1>1
  <2>2. k + 1 \in 1 .. n /\ k + 1 \in 1 .. Len(t) /\ k + 1 - 1 = k  BY <1>1, <1>2, <2>1
  <2>3. f[k + 1] = IF k + 1 \in P THEN Append(f[k], s[k + 1]) ELSE f[k]  BY <1>3, <2>2 DEF Keeps
  <2>4. g[k + 1] = IF k + 1 \in Q THEN Append(g[k], t[k + 1]) ELSE g[k]  BY <1>4, <2>2 DEF Keeps
  <2>5. t[k + 1] = s[k + 1] /\ s[k + 1] \in C /\ (k + 1 \in P <=> k + 1 \in Q)
    BY <1>1, <1>2, <2>2 DEF SamePlaces
  <2>6. Append(f[k], s[k + 1]) \in Seq(C)  BY <2>1, <2>5, AppendProperties
  <2> QED  BY <2>1, <2>3, <2>4, <2>5, <2>6
<1>7. n \in T
  <2> HIDE DEF T
  <2>1. T \in SUBSET Nat  BY DEF T
  <2> QED  BY <2>1, <1>1, <1>5, <1>6, Induction
<1>8. f[n] = g[n] /\ f[n] \in Seq(C)  BY <1>1, <1>7
<1>9. g[n + 1] = IF n + 1 \in Q THEN Append(g[n], c) ELSE g[n]
  <2>1. n + 1 \in 1 .. Len(t) /\ n + 1 - 1 = n  BY <1>1, <1>2
  <2> QED  BY <2>1, <1>2, <1>4 DEF Keeps
<1>10. Kept(<<>>, P) = <<>>
  <2>1. <<>> \in Seq(C) /\ Len(<<>>) = 0  BY EmptySeq
  <2>2. PICK h : Keeps(h, <<>>, P)  BY <2>1, KeptSteps, Zenon
  <2> QED  BY <2>1, <2>2 DEF Keeps
<1> QED  BY <1>2, <1>3, <1>4, <1>8, <1>9, <1>10 DEF t, Keeps, KeepsMore

\* Behind s a line begins.
AtLineStart(s) == s = <<>> \/ s[Len(s)] = LF

\* The two decodings, one character on.
LEMMA WithoutCRMore ==
  ASSUME NEW s \in Seq(Chars), NEW c \in Chars
  PROVE  /\ WithoutCR(<<>>) = <<>>
         /\ WithoutCR(s) \in Seq(Chars)
         /\ WithoutCR(Append(s, c)) =
              IF c = CR THEN WithoutCR(s) ELSE Append(WithoutCR(s), c)
<1> DEFINE t == Append(s, c)
           P == {i \in 1 .. Len(s) : s[i] # CR}
           Q == {i \in 1 .. Len(t) : t[i] # CR}
<1>1. /\ Len(s) \in Nat /\ Len(t) = Len(s) + 1 /\ t[Len(s) + 1] = c
      /\ \A k \in 1 .. Len(s) : t[k] = s[k]
  BY LenProperties, AppendProperties
<1> HIDE DEF t
<1>2. SamePlaces(s, P, Q)  BY <1>1 DEF SamePlaces
<1>3. Len(s) + 1 \in Q <=> c # CR  BY <1>1
<1>4. Len(<<>>) = 0  BY EmptySeq
<1>5. WithoutCR(<<>>) = Kept(<<>>, {i \in 1 .. Len(<<>>) : <<>>[i] # CR})  BY DEF WithoutCR
<1>6. WithoutCR(s) = Kept(s, P) /\ WithoutCR(t) = Kept(t, Q)  BY DEF WithoutCR
<1> HIDE DEF P, Q
<1>7. /\ Kept(s, P) \in Seq(Chars)
      /\ Kept(t, Q) = IF Len(s) + 1 \in Q THEN Append(Kept(s, P), c) ELSE Kept(s, P)
  <2>1. KeepsMore(Chars, s, c, P, Q)  BY <1>2, KeptMore, Zenon
  <2> QED  BY <2>1 DEF KeepsMore, t
<1>8. Kept(<<>>, {i \in 1 .. Len(<<>>) : <<>>[i] # CR}) = <<>>
  <2>1. \A R : Kept(<<>>, R) = <<>>
    <3> TAKE R
    <3>1. SamePlaces(s, R, R)  BY DEF SamePlaces
    <3>2. KeepsMore(Chars, s, c, R, R)  BY <3>1, KeptMore, Zenon
    <3> QED  BY <3>2 DEF KeepsMore
  <2> QED  BY <2>1, Zenon
<1> QED  BY <1>3, <1>5, <1>6, <1>7, <1>8 DEF t

LEMMA UnstuffedMore ==
  ASSUME NEW s \in Seq(Chars), NEW c \in Chars
  PROVE  /\ Unstuffed(<<>>) = <<>>
         /\ Unstuffed(s) \in Seq(Chars)
         /\ Unstuffed(Append(s, c)) =
              IF c = DOT /\ AtLineStart(s) THEN Unstuffed(s) ELSE Append(Unstuffed(s), c)
<1> DEFINE t == Append(s, c)
           Keep(r, i) == ~(r[i] = DOT /\ (i = 1 \/ r[i - 1] = LF))
           P == {i \in 1 .. Len(s) : Keep(s, i)}
           Q == {i \in 1 .. Len(t) : Keep(t, i)}
<1>1. /\ Len(s) \in Nat /\ Len(t) = Len(s) + 1 /\ t[Len(s) + 1] = c
      /\ \A k \in 1 .. Len(s) : t[k] = s[k]
  BY LenProperties, AppendProperties
<1> HIDE DEF t
<1>2. SamePlaces(s, P, Q)
  <2> SUFFICES ASSUME NEW k \in 1 .. Len(s) PROVE k \in P <=> k \in Q
    BY DEF SamePlaces
  <2>1. k \in 1 .. Len(t) /\ t[k] = s[k]  BY <1>1
  <2>2. k # 1 => t[k - 1] = s[k - 1]  BY <1>1
  <2> QED  BY <2>1, <2>2
<1>3. Len(s) + 1 \in Q <=> ~(c = DOT /\ AtLineStart(s))
  <2>1. s = <<>> <=> Len(s) = 0  BY EmptySeq
  <2>2. Len(s) # 0 => t[Len(s) + 1 - 1] = s[Len(s)]  BY <1>1
  <2>3. Len(s) + 1 \in Q <=> Keep(t, Len(s) + 1)  BY <1>1
  <2> QED  BY <1>1, <2>1, <2>2, <2>3 DEF AtLineStart
<1>5. \E R : Unstuffed(<<>>) = Kept(<<>>, R)  BY DEF Unstuffed
<1>6. Unstuffed(s) = Kept(s, P) /\ Unstuffed(t) = Kept(t, Q)  BY DEF Unstuffed
<1> HIDE DEF P, Q
<1>7. /\ Kept(s, P) \in Seq(Chars)
      /\ Kept(t, Q) = IF Len(s) + 1 \in Q THEN Append(Kept(s, P), c) ELSE Kept(s, P)
  <2>1. KeepsMore(Chars, s, c, P, Q)  BY <1>2, KeptMore, Zenon
  <2> QED  BY <2>1 DEF KeepsMore, t
<1>8. \A R : Kept(<<>>, R) = <<>>
  <2> TAKE R
  <2>1. SamePlaces(s, R, R)  BY DEF SamePlaces
  <2>2. KeepsMore(Chars, s, c, R, R)  BY <2>1, KeptMore, Zenon
  <2> QED  BY <2>2 DEF KeepsMore
<1> QED  BY <1>3, <1>5, <1>6, <1>7, <1>8 DEF t

-----------------------------------------------------------------------------
(* The message fixer. *)

\* Each LF ends a line, with a CR in front of it.
LinesEnded(o) == \A i \in 1 .. Len(o) : o[i] = LF => i > 1 /\ o[i - 1] = CR

\* Each dot at the start of a line is doubled.
DotsDoubled(o) ==
  \A i \in 1 .. Len(o) :
    o[i] = DOT /\ (i = 1 \/ o[i - 1] = LF) => i < Len(o) /\ o[i + 1] = DOT

\* Up to the CRs, o is t with dots doubled.
Recovers(o, t) == WithoutCR(Unstuffed(o)) = WithoutCR(t)

\* What has been put out, o, when t has been read.
Fixing(state, o, t) ==
  /\ state \in {"init", "cr", "default"}
  /\ o \in Seq(Chars) /\ t \in Seq(Chars)
  /\ LinesEnded(o) /\ DotsDoubled(o)
  /\ state = "init" <=> AtLineStart(o)
  /\ state = "init" <=> AtLineStart(t)
  /\ o = <<>> <=> t = <<>>
  /\ state = "cr" => o # <<>> /\ o[Len(o)] = CR
  /\ Recovers(o, t)

LEMMA Letter ==
  /\ CR \in Chars /\ LF \in Chars /\ DOT \in Chars
  /\ CR # LF /\ CR # DOT /\ LF # DOT
BY DEF Chars, Text, CR, LF, DOT

LEMMA OneMore ==
  ASSUME NEW o \in Seq(Chars), NEW c \in Chars
  PROVE  LET p == Append(o, c) IN
         /\ p \in Seq(Chars) /\ p # <<>> /\ Len(p) = Len(o) + 1 /\ Len(o) \in Nat
         /\ p[Len(p)] = c
         /\ \A i \in 1 .. Len(o) : p[i] = o[i]
         /\ AtLineStart(p) <=> c = LF
<1> DEFINE p == Append(o, c)
<1>1. /\ p \in Seq(Chars) /\ p # <<>> /\ Len(p) = Len(o) + 1 /\ Len(o) \in Nat
      /\ p[Len(o) + 1] = c
      /\ \A i \in 1 .. Len(o) : p[i] = o[i]
  BY LenProperties, AppendProperties
<1> HIDE DEF p
<1>2. p[Len(p)] = c /\ (AtLineStart(p) <=> c = LF)  BY <1>1 DEF AtLineStart
<1> QED  BY <1>1, <1>2 DEF p

LEMMA LinesMore ==
  ASSUME NEW o \in Seq(Chars), NEW c \in Chars, LinesEnded(o),
         c = LF => o # <<>> /\ o[Len(o)] = CR
  PROVE  LinesEnded(Append(o, c))
<1> DEFINE p == Append(o, c)
<1>1. /\ Len(p) = Len(o) + 1 /\ Len(o) \in Nat /\ p[Len(p)] = c
      /\ \A i \in 1 .. Len(o) : p[i] = o[i]
  BY OneMore
<1> HIDE DEF p
<1>2. o # <<>> => Len(o) # 0  BY EmptySeq
<1>3. ASSUME NEW i \in 1 .. Len(p), p[i] = LF PROVE i > 1 /\ p[i - 1] = CR
  <2>1. CASE i = Len(p)
    <3>1. Len(o) # 0 /\ o[Len(o)] = CR  BY <1>1, <1>2, <1>3, <2>1
    <3> QED  BY <3>1, <1>1, <2>1
  <2>2. CASE i # Len(p)
    <3>1. i \in 1 .. Len(o) /\ o[i] = LF  BY <1>1, <1>3, <2>2
    <3>2. i > 1 /\ o[i - 1] = CR  BY <3>1 DEF LinesEnded
    <3>3. i - 1 \in 1 .. Len(o)  BY <3>1, <3>2
    <3> QED  BY <3>2, <3>3, <1>1
  <2> QED  BY <2>1, <2>2
<1> QED  BY <1>3 DEF LinesEnded, p

LEMMA DotsMore ==
  ASSUME NEW o \in Seq(Chars), NEW c \in Chars, DotsDoubled(o), ~(c = DOT /\ AtLineStart(o))
  PROVE  DotsDoubled(Append(o, c))
<1> DEFINE p == Append(o, c)
<1>1. /\ Len(p) = Len(o) + 1 /\ Len(o) \in Nat /\ p[Len(p)] = c
      /\ \A i \in 1 .. Len(o) : p[i] = o[i]
  BY OneMore
<1> HIDE DEF p
<1>2. o = <<>> <=> Len(o) = 0  BY EmptySeq
<1>3. ASSUME NEW i \in 1 .. Len(p), p[i] = DOT, i = 1 \/ p[i - 1] = LF
      PROVE  i < Len(p) /\ p[i + 1] = DOT
  <2>1. i # Len(p)
    <3> SUFFICES ASSUME i = Len(p) PROVE FALSE
      OBVIOUS
    <3>1. c = DOT  BY <1>1, <1>3
    <3>2. CASE Len(o) = 0
      BY <3>1, <3>2, <1>2 DEF AtLineStart
    <3>3. CASE Len(o) # 0
      <4>1. i - 1 = Len(o) /\ i # 1 /\ Len(o) \in 1 .. Len(o)  BY <3>3, <1>1
      <4>2. o[Len(o)] = LF  BY <4>1, <1>1, <1>3
      <4> QED  BY <4>2, <3>1 DEF AtLineStart
    <3> QED  BY <3>2, <3>3
  <2>2. i \in 1 .. Len(o) /\ o[i] = DOT  BY <2>1, <1>1, <1>3
  <2>3. i = 1 \/ o[i - 1] = LF
    <3>1. i # 1 => i - 1 \in 1 .. Len(o)  BY <2>2
    <3> QED  BY <3>1, <1>1, <1>3
  <2>4. i < Len(o) /\ o[i + 1] = DOT  BY <2>2, <2>3 DEF DotsDoubled
  <2>5. i + 1 \in 1 .. Len(o)  BY <2>2, <2>4
  <2> QED  BY <2>4, <2>5, <1>1
<1> QED  BY <1>3 DEF DotsDoubled, p

LEMMA TwoDots ==
  ASSUME NEW o \in Seq(Chars), DotsDoubled(o)
  PROVE  DotsDoubled(Append(Append(o, DOT), DOT))
<1> DEFINE q == Append(o, DOT)
           p == Append(q, DOT)
<1>1. /\ Len(q) = Len(o) + 1 /\ Len(o) \in Nat /\ q[Len(q)] = DOT /\ q \in Seq(Chars)
      /\ \A i \in 1 .. Len(o) : q[i] = o[i]
  BY OneMore, Letter
<1> HIDE DEF q
<1>2. /\ Len(p) = Len(q) + 1 /\ p[Len(p)] = DOT
      /\ \A i \in 1 .. Len(q) : p[i] = q[i]
  BY <1>1, OneMore, Letter
<1> HIDE DEF p
<1>3. Len(p) = Len(o) + 2 /\ p[Len(o) + 2] = DOT /\ p[Len(o) + 1] = DOT
      /\ \A i \in 1 .. Len(o) : p[i] = o[i]
  BY <1>1, <1>2
<1>4. DOT # LF  BY Letter
<1>5. ASSUME NEW i \in 1 .. Len(p), p[i] = DOT, i = 1 \/ p[i - 1] = LF
      PROVE  i < Len(p) /\ p[i + 1] = DOT
  <2>1. CASE i \in 1 .. Len(o)
    <3>1. o[i] = DOT  BY <2>1, <1>3, <1>5
    <3>2. i = 1 \/ o[i - 1] = LF
      <4>1. i # 1 => i - 1 \in 1 .. Len(o)  BY <2>1
      <4> QED  BY <4>1, <1>3, <1>5
    <3>3. i < Len(o) /\ o[i + 1] = DOT  BY <2>1, <3>1, <3>2 DEF DotsDoubled
    <3>4. i + 1 \in 1 .. Len(o)  BY <2>1, <3>3
    <3> QED  BY <3>3, <3>4, <1>1, <1>3
  <2>2. CASE i = Len(o) + 1
    BY <2>2, <1>1, <1>3
  <2>3. CASE i = Len(o) + 2
    <3>1. i - 1 = Len(o) + 1 /\ i # 1  BY <2>3, <1>1
    <3> QED  BY <3>1, <1>3, <1>4, <1>5
  <2> QED  BY <2>1, <2>2, <2>3, <1>1, <1>3
<1> QED  BY <1>5 DEF DotsDoubled, p, q

\* What the receiver makes of one more character.
LEMMA RecoversMore ==
  ASSUME NEW o \in Seq(Chars), NEW c \in Chars
  PROVE  WithoutCR(Unstuffed(Append(o, c))) =
           IF c = CR \/ (c = DOT /\ AtLineStart(o)) THEN WithoutCR(Unstuffed(o))
           ELSE Append(WithoutCR(Unstuffed(o)), c)
<1> DEFINE u == Unstuffed(o)
<1>1. /\ u \in Seq(Chars)
      /\ Unstuffed(Append(o, c)) = IF c = DOT /\ AtLineStart(o) THEN u ELSE Append(u, c)
  BY UnstuffedMore
<1> HIDE DEF u
<1>2. WithoutCR(Append(u, c)) = IF c = CR THEN WithoutCR(u) ELSE Append(WithoutCR(u), c)
  BY <1>1, WithoutCRMore
<1>3. CR # DOT  BY Letter
<1> QED  BY <1>1, <1>2, <1>3 DEF u

\* What one character adds keeps what has been put out right (fix.h:60-106).
LEMMA FixStep ==
  ASSUME NEW state, NEW o, NEW t, Fixing(state, o, t), NEW c \in Chars
  PROVE  Fixing(Consumed(state, c), Append(o \o Inserted(state, c), c), Append(t, c))
<1> DEFINE ins == Inserted(state, c)
           q == o \o ins
           p == Append(q, c)
           r == Append(t, c)
<1>1. /\ o \in Seq(Chars) /\ t \in Seq(Chars) /\ LinesEnded(o) /\ DotsDoubled(o)
      /\ state \in {"init", "cr", "default"}
      /\ state = "init" <=> AtLineStart(o)
      /\ state = "cr" => o # <<>> /\ o[Len(o)] = CR
      /\ WithoutCR(Unstuffed(o)) = WithoutCR(t)
  BY DEF Fixing, Recovers
<1>2. CR \in Chars /\ LF \in Chars /\ DOT \in Chars /\ CR # LF /\ CR # DOT /\ LF # DOT
  BY Letter
<1>3. r \in Seq(Chars) /\ r # <<>> /\ (AtLineStart(r) <=> c = LF)  BY <1>1, OneMore
<1>4. WithoutCR(r) = IF c = CR THEN WithoutCR(t) ELSE Append(WithoutCR(t), c)
  BY <1>1, WithoutCRMore
<1>5. /\ o \o <<>> = o /\ o \o <<DOT>> = Append(o, DOT) /\ o \o <<CR>> = Append(o, CR)
  BY <1>1, <1>2, ConcatEmptySeq, AppendIsConcat
<1> HIDE DEF r
<1>6. ASSUME NEW s \in {"init", "cr", "default"}, s = "init" <=> c = LF, s = "cr" => c = CR,
             q \in Seq(Chars), LinesEnded(p), DotsDoubled(p),
             WithoutCR(Unstuffed(p)) = WithoutCR(r)
      PROVE  Fixing(s, p, r)
  <2>1. p \in Seq(Chars) /\ p # <<>> /\ p[Len(p)] = c /\ (AtLineStart(p) <=> c = LF)
    BY <1>6, OneMore
  <2> HIDE DEF p, q, ins
  <2> QED  BY <2>1, <1>3, <1>6 DEF Fixing, Recovers
<1>7. CASE c = DOT /\ state = "init"
  <2>1. ins = <<DOT>> /\ Consumed(state, c) = "default"
    BY <1>2, <1>7 DEF Inserted, Consumed
  <2>2. q = Append(o, DOT)  BY <2>1, <1>5
  <2>3. q \in Seq(Chars) /\ LinesEnded(q) /\ ~AtLineStart(q)
    BY <2>2, <1>1, <1>2, OneMore, LinesMore
  <2>4. LinesEnded(p) /\ DotsDoubled(p)
    BY <2>2, <2>3, <1>1, <1>2, <1>7, LinesMore, TwoDots
  <2>5. WithoutCR(Unstuffed(q)) = WithoutCR(Unstuffed(o))
    BY <2>2, <1>1, <1>2, <1>7, RecoversMore
  <2>6. WithoutCR(Unstuffed(p)) = Append(WithoutCR(Unstuffed(q)), c)
    BY <2>3, <1>2, <1>7, RecoversMore
  <2>7. WithoutCR(Unstuffed(p)) = WithoutCR(r)  BY <2>5, <2>6, <1>1, <1>2, <1>4, <1>7
  <2> HIDE DEF p, q, ins
  <2>8. Fixing("default", p, r)  BY <2>3, <2>4, <2>7, <1>2, <1>6, <1>7
  <2> QED  BY <2>1, <2>8 DEF p, q, ins, r
<1>8. CASE c = LF /\ state \in {"init", "default"}
  <2>1. ins = <<CR>> /\ Consumed(state, c) = "init"
    BY <1>2, <1>8 DEF Inserted, Consumed
  <2>2. q = Append(o, CR)  BY <2>1, <1>5
  <2>3. q \in Seq(Chars) /\ q # <<>> /\ q[Len(q)] = CR /\ LinesEnded(q)
    BY <2>2, <1>1, <1>2, OneMore, LinesMore
  <2>4. DotsDoubled(q)  BY <2>2, <1>1, <1>2, DotsMore
  <2>5. LinesEnded(p) /\ DotsDoubled(p)
    BY <2>3, <2>4, <1>2, <1>8, LinesMore, DotsMore
  <2>6. WithoutCR(Unstuffed(q)) = WithoutCR(Unstuffed(o))
    BY <2>2, <1>1, <1>2, RecoversMore
  <2>7. WithoutCR(Unstuffed(p)) = Append(WithoutCR(Unstuffed(q)), c)
    BY <2>3, <1>2, <1>8, RecoversMore
  <2>8. WithoutCR(Unstuffed(p)) = WithoutCR(r)  BY <2>6, <2>7, <1>1, <1>2, <1>4, <1>8
  <2> HIDE DEF p, q, ins
  <2>9. Fixing("init", p, r)  BY <2>3, <2>5, <2>8, <1>2, <1>6, <1>8
  <2> QED  BY <2>1, <2>9 DEF p, q, ins, r
<1>9. CASE ~(c = DOT /\ state = "init") /\ ~(c = LF /\ state \in {"init", "default"})
  <2>1. ins = <<>>  BY <1>9 DEF Inserted
  <2>2. q = o  BY <2>1, <1>5
  <2>3. c = LF => state = "cr"  BY <1>1, <1>9
  <2>4. LinesEnded(p)  BY <2>2, <2>3, <1>1, LinesMore
  <2>5. DotsDoubled(p)  BY <2>2, <1>1, <1>9, DotsMore
  <2>6. WithoutCR(Unstuffed(p)) = WithoutCR(r)
    <3>1. ~(c = DOT /\ AtLineStart(q))  BY <2>2, <1>1, <1>9
    <3>2. WithoutCR(Unstuffed(p)) =
            IF c = CR \/ (c = DOT /\ AtLineStart(q)) THEN WithoutCR(Unstuffed(q))
            ELSE Append(WithoutCR(Unstuffed(q)), c)
      BY <2>2, <1>1, RecoversMore
    <3> QED  BY <2>2, <3>1, <3>2, <1>1, <1>4
  <2> DEFINE s == Consumed(state, c)
  <2>7. s \in {"init", "cr", "default"} /\ (s = "init" <=> c = LF) /\ (s = "cr" => c = CR)
    BY <1>2 DEF Consumed
  <2> HIDE DEF p, q, ins, s
  <2>8. Fixing(s, p, r)  BY <2>2, <2>4, <2>5, <2>6, <2>7, <1>1, <1>6
  <2> QED  BY <2>8 DEF p, q, ins, r, s
<1> QED  BY <1>1, <1>7, <1>8, <1>9

Fixers == [state : {"init", "cr", "default"}, current : Nat, begin : Nat, bufs : Seq(Chars)]

\* What the fixer has put out of the k characters that it has seen, those
\* included that it will refer to only with the next buffer.
PutOut(f, text, k) == f.bufs \o SubSeq(text, f.begin, k)

FixedSoFar(f, text, k) ==
  /\ f \in Fixers /\ f.current = k + 1 /\ f.begin \in 1 .. k + 1
  /\ Fixing(f.state, PutOut(f, text, k), SubSeq(text, 1, k))

LEMMA FixingNothing ==
  ASSUME NEW text \in Seq(Chars)
  PROVE  FixedSoFar(Fresh, text, 0)
<1>1. <<>> \in Seq(Chars) /\ Len(<<>>) = 0  BY EmptySeq
<1>2. /\ Fresh \in Fixers /\ Fresh.current = 0 + 1 /\ Fresh.begin = 1 /\ Fresh.bufs = <<>>
      /\ Fresh.state = "init"
  BY <1>1 DEF Fresh, Fixers
<1>3. SubSeq(text, 1, 0) = <<>>  BY SubSeqEmpty
<1>4. PutOut(Fresh, text, 0) = <<>>  BY <1>1, <1>2, <1>3, ConcatEmptySeq DEF PutOut
<1>5. WithoutCR(Unstuffed(<<>>)) = WithoutCR(<<>>)
  <2>1. CR \in Chars  BY Letter
  <2> QED  BY <1>1, <2>1, UnstuffedMore
<1>6. Fixing("init", <<>>, <<>>)
  BY <1>1, <1>5 DEF Fixing, LinesEnded, DotsDoubled, AtLineStart, Recovers
<1>7. Fixing(Fresh.state, PutOut(Fresh, text, 0), SubSeq(text, 1, 0))
  BY <1>2, <1>3, <1>4, <1>6, Zenon
<1>8. Fresh.begin \in 1 .. 0 + 1  BY <1>2
<1> QED  BY <1>2, <1>7, <1>8 DEF FixedSoFar

LEMMA JoinedThrice ==
  \A s, t, u \in Seq(Chars) : s \o (t \o u) = (s \o t) \o u
BY JoinsAssociate, SMTT(30)

LEMMA PartMore ==
  ASSUME NEW text \in Seq(Chars), NEW k \in Nat, k < Len(text), NEW m \in 1 .. k + 1
  PROVE  SubSeq(text, m, k + 1) = SubSeq(text, m, k) \o <<text[k + 1]>>
<1> DEFINE n == k + 1
<1>1. Len(text) \in Nat  BY LenProperties
<1>2. m \in 1 .. Len(text) /\ n \in m .. Len(text) /\ n - 1 = k  BY <1>1
<1> HIDE DEF n
<1>3. SubSeq(text, m, n) = SubSeq(text, m, n - 1) \o <<text[n]>>
  BY <1>2, SubSeqRecursiveSecond
<1> QED  BY <1>2, <1>3 DEF n

LEMMA FixingMore ==
  ASSUME NEW text \in Seq(Chars), NEW k \in Nat, k < Len(text), NEW f, FixedSoFar(f, text, k)
  PROVE  FixedSoFar(Parsed(f, text), text, k + 1)
<1> DEFINE c == text[k + 1]
           ins == Inserted(f.state, c)
           part == SubSeq(text, f.begin, k)
           o == PutOut(f, text, k)
           g == Parsed(f, text)
<1>1. Len(text) \in Nat /\ c \in Chars  BY LenProperties
<1>2. /\ f.bufs \in Seq(Chars) /\ f.current = k + 1 /\ f.begin \in 1 .. k + 1
      /\ f.state \in {"init", "cr", "default"}
      /\ Fixing(f.state, o, SubSeq(text, 1, k))
  BY DEF FixedSoFar, Fixers
<1>3. part \in Seq(Chars)
  <2>1. f.begin \in Int /\ k \in Int /\ \A i \in f.begin .. k : text[i] \in Chars
    BY <1>1, <1>2
  <2> QED  BY <2>1, SubSeqProperties
<1>4. o = f.bufs \o part /\ o \in Seq(Chars)  BY <1>2, <1>3, ConcatProperties DEF PutOut
<1>5. ins \in Seq(Chars)
  <2>1. CR \in Chars /\ DOT \in Chars  BY Letter
  <2>2. <<>> \in Seq(Chars) /\ <<CR>> \in Seq(Chars) /\ <<DOT>> \in Seq(Chars)  BY <2>1
  <2>3. ins = <<>> \/ ins = <<CR>> \/ ins = <<DOT>>  BY DEF Inserted
  <2> QED  BY <2>2, <2>3
<1>6. /\ g.state = Consumed(f.state, c) /\ g.current = k + 2
      /\ g.begin = (IF ins = <<>> THEN f.begin ELSE k + 1)
      /\ g.bufs = (IF ins = <<>> THEN f.bufs ELSE f.bufs \o part \o ins)
      /\ g = [state |-> g.state, current |-> g.current, begin |-> g.begin, bufs |-> g.bufs]
  BY <1>2 DEF Parsed
<1>7. SubSeq(text, 1, k + 1) = Append(SubSeq(text, 1, k), c)
  <2>1. SubSeq(text, 1, k) \in Seq(Chars)  BY <1>2 DEF Fixing
  <2>2. 1 \in 1 .. Len(text) /\ k + 1 \in 1 .. Len(text) /\ k + 1 - 1 = k  BY <1>1
  <2>3. SubSeq(text, 1, k + 1) = SubSeq(text, 1, k) \o <<c>>
    BY <2>2, SubSeqRecursiveSecond
  <2> QED  BY <2>1, <2>3, <1>1, AppendIsConcat
<1> HIDE DEF g, part, ins, c
<1>8. g.bufs \in Seq(Chars) /\ PutOut(g, text, k + 1) = Append(o \o ins, c)
  <2>1. CASE ins = <<>>
    <3>1. SubSeq(text, f.begin, k + 1) = part \o <<c>>
      BY <1>2, PartMore DEF part, c
    <3>2. <<c>> \in Seq(Chars)  BY <1>1
    <3>3. PutOut(g, text, k + 1) = f.bufs \o (part \o <<c>>)
      BY <2>1, <3>1, <1>6 DEF PutOut
    <3>4. f.bufs \o (part \o <<c>>) = o \o <<c>>
      <4>1. f.bufs \o (part \o <<c>>) = (f.bufs \o part) \o <<c>>
        <5>1. part \in Seq(Chars) /\ f.bufs \in Seq(Chars)  BY <1>2, <1>3
        <5> QED  BY <5>1, <3>2, JoinedThrice, Zenon
      <4> QED  BY <4>1, <1>4
    <3>5. o \o ins = o  BY <2>1, <1>4, ConcatEmptySeq
    <3>6. Append(o, c) = o \o <<c>>  BY <1>1, <1>4, AppendIsConcat
    <3> QED  BY <2>1, <3>3, <3>4, <3>5, <3>6, <1>2, <1>6
  <2>2. CASE ins # <<>>
    <3>1. g.bufs = o \o ins /\ o \o ins \in Seq(Chars) /\ g.begin = k + 1
      BY <2>2, <1>4, <1>5, <1>6, ConcatProperties
    <3>2. SubSeq(text, k + 1, k + 1) = <<c>>
      <4>1. \A i \in k + 1 .. k + 1 : text[i] \in Chars  BY <1>1
      <4>2. /\ Len(SubSeq(text, k + 1, k + 1)) = 1
            /\ SubSeq(text, k + 1, k + 1)[1] = c
            /\ SubSeq(text, k + 1, k + 1) \in Seq(Chars)
        BY <4>1, <1>1, SubSeqProperties DEF c
      <4>3. <<c>> \in Seq(Chars) /\ Len(<<c>>) = 1 /\ <<c>>[1] = c  BY <1>1
      <4> HIDE DEF c
      <4>4. \A i \in 1 .. 1 : SubSeq(text, k + 1, k + 1)[i] = <<c>>[i]  BY <4>2, <4>3
      <4> QED  BY <4>2, <4>3, <4>4, SeqEqual
    <3>3. PutOut(g, text, k + 1) = (o \o ins) \o <<c>>  BY <3>1, <3>2 DEF PutOut
    <3>4. Append(o \o ins, c) = (o \o ins) \o <<c>>  BY <3>1, <1>1, AppendIsConcat
    <3> QED  BY <3>1, <3>3, <3>4
  <2> QED  BY <2>1, <2>2
<1>9. Fixing(Consumed(f.state, c), Append(o \o ins, c), Append(SubSeq(text, 1, k), c))
  BY <1>1, <1>2, FixStep DEF ins
<1>10. Fixing(g.state, PutOut(g, text, k + 1), SubSeq(text, 1, k + 1))
  BY <1>6, <1>7, <1>8, <1>9
<1>11. g \in Fixers
  <2>1. g.state \in {"init", "cr", "default"}  BY <1>10 DEF Fixing
  <2>2. g.current \in Nat /\ g.begin \in Nat  BY <1>2, <1>6
  <2> QED  BY <2>1, <2>2, <1>6, <1>8 DEF Fixers
<1>12. g.current = (k + 1) + 1 /\ g.begin \in 1 .. (k + 1) + 1  BY <1>2, <1>6
<1> QED  BY <1>10, <1>11, <1>12 DEF FixedSoFar, g

\* All of a message.
LEMMA FixedAll ==
  ASSUME NEW text \in Seq(Chars)
  PROVE  \E f : FixedSoFar(f, text, Len(text)) /\ Fixed(text) = Ended(f, text)
<1> DEFINE n == Len(text)
           step == [p \in Fixers \X (1 .. n) |->
                      IF Parsed(p[1], text) \in Fixers THEN Parsed(p[1], text) ELSE p[1]]
<1>1. n \in Nat  BY LenProperties
<1>2. Fresh \in Fixers /\ FixedSoFar(Fresh, text, 0)  BY FixingNothing DEF FixedSoFar
<1>3. step \in [Fixers \X (1 .. n) -> Fixers]  OBVIOUS
<1>4. PICK f \in [0 .. n -> Fixers] :
        f[0] = Fresh /\ \A k \in 1 .. n : f[k] = step[<<f[k - 1], k>>]
  <2> HIDE DEF step, n
  <2>1. PlaceFolds(Fixers, n, step, Fresh) # {}  BY <1>1, <1>2, <1>3, PlacesFold, Zenon
  <2> QED  BY <2>1 DEF PlaceFolds
<1>5. \A k \in 1 .. n :
        f[k] = IF Parsed(f[k - 1], text) \in Fixers THEN Parsed(f[k - 1], text) ELSE f[k - 1]
  <2> TAKE k \in 1 .. n
  <2>1. f[k - 1] \in Fixers  BY <1>1, <1>4
  <2>2. <<f[k - 1], k>> \in Fixers \X (1 .. n)  BY <2>1
  <2> QED  BY <1>4, <2>2
<1>6. ASSUME NEW h, h[0] = Fresh, NEW k \in 0 .. n,
             \A i \in 1 .. n :
               \/ h[i] = Parsed(h[i - 1], text)
               \/ Parsed(h[i - 1], text) \notin Fixers
      PROVE  FixedSoFar(h[k], text, k)
  <2> DEFINE T == {i \in Nat : i <= n => FixedSoFar(h[i], text, i)}
  <2>1. 0 \in T  BY <1>2, <1>6
  <2>2. ASSUME NEW i \in T PROVE i + 1 \in T
    <3> SUFFICES ASSUME i + 1 <= n PROVE FixedSoFar(h[i + 1], text, i + 1)
      OBVIOUS
    <3>1. i \in Nat /\ i < Len(text) /\ FixedSoFar(h[i], text, i)  BY <1>1
    <3>2. FixedSoFar(Parsed(h[i], text), text, i + 1)  BY <3>1, FixingMore
    <3>3. i + 1 \in 1 .. n /\ i + 1 - 1 = i  BY <3>1, <1>1
    <3>4. Parsed(h[i], text) \in Fixers  BY <3>2 DEF FixedSoFar
    <3>5. h[i + 1] = Parsed(h[i], text)
      <4>1. \/ h[i + 1] = Parsed(h[i + 1 - 1], text)
            \/ Parsed(h[i + 1 - 1], text) \notin Fixers
        BY <1>6, <3>3
      <4> QED  BY <4>1, <3>3, <3>4
    <3> QED  BY <3>2, <3>5
  <2>3. k \in T
    <3> HIDE DEF T
    <3>1. T \in SUBSET Nat  BY DEF T
    <3>2. k \in Nat  BY <1>1
    <3> QED  BY <3>1, <3>2, <2>1, <2>2, Induction
  <2> QED  BY <2>3, <1>1
<1>7. \A k \in 1 .. n : f[k] = Parsed(f[k - 1], text)
  <2> TAKE k \in 1 .. n
  <2>1. FixedSoFar(f[k - 1], text, k - 1) /\ k - 1 \in Nat /\ k - 1 < Len(text)
    <3>1. k - 1 \in 0 .. n  BY <1>1
    <3> QED  BY <3>1, <1>1, <1>4, <1>5, <1>6
  <2>2. Parsed(f[k - 1], text) \in Fixers  BY <2>1, FixingMore DEF FixedSoFar
  <2> QED  BY <2>2, <1>5
<1> DEFINE IsFixing(h) == h = [k \in 0 .. Len(text) |->
                                 IF k = 0 THEN Fresh ELSE Parsed(h[k - 1], text)]
           g == CHOOSE h : IsFixing(h)
<1>8. IsFixing(f)  BY <1>1, <1>4, <1>7
<1>9. IsFixing(g)
  <2> HIDE DEF IsFixing
  <2> QED  BY <1>8
<1>10. Fixed(text) = Ended(g[Len(text)], text)  BY DEF Fixed
<1> HIDE DEF g
<1>11. g[0] = Fresh /\ \A k \in 1 .. n : g[k] = Parsed(g[k - 1], text)  BY <1>1, <1>9
<1>12. n \in 0 .. n  BY <1>1
<1>13. FixedSoFar(g[n], text, n)  BY <1>6, <1>11, <1>12
<1> QED  BY <1>10, <1>13

\* What closes a message that ends in a line end (fix.h:127-144).
Terminator == <<DOT, CR, LF>>

\* The text with its last line ended.
Complete(text) == IF text[Len(text)] = LF THEN text ELSE Append(text, LF)

LEMMA PairJoined ==
  ASSUME NEW S, NEW a \in S, NEW b \in S
  PROVE  <<a>> \o <<b>> = <<a, b>>
<1> DEFINE p == <<a>>
           q == <<b>>
           r == <<a, b>>
<1>1. /\ p \in Seq(S) /\ Len(p) = 1 /\ p[1] = a
      /\ q \in Seq(S) /\ Len(q) = 1 /\ q[1] = b
      /\ r \in Seq(S) /\ Len(r) = 2 /\ r[1] = a /\ r[2] = b
  OBVIOUS
<1> HIDE DEF p, q, r
<1>2. /\ p \o q \in Seq(S) /\ Len(p \o q) = 1 + 1
      /\ \A i \in 1 .. 1 + 1 : (p \o q)[i] = IF i <= 1 THEN p[i] ELSE q[i - 1]
  BY <1>1, JoinedElements, SMTT(30)
<1>3. (p \o q)[1] = a /\ (p \o q)[2] = b  BY <1>1, <1>2
<1>4. \A i \in 1 .. 2 : (p \o q)[i] = r[i]
  <2>1. \A i \in 1 .. 2 : i = 1 \/ i = 2  OBVIOUS
  <2> QED  BY <2>1, <1>1, <1>3, Zenon
<1> DEFINE j == p \o q
<1> HIDE DEF j
<1>5. j \in Seq(S) /\ Len(j) = Len(r) /\ \A i \in 1 .. Len(j) : j[i] = r[i]
  BY <1>1, <1>2, <1>4 DEF j
<1>6. j = r  BY <1>1, <1>5, SeqEqual
<1> QED  BY <1>6 DEF p, q, r, j

LEMMA Singletons3 ==
  ASSUME NEW S, NEW a \in S, NEW b \in S, NEW c \in S
  PROVE  /\ <<>> \in Seq(S) /\ <<a>> \in Seq(S) /\ <<b>> \in Seq(S) /\ <<a, b>> \in Seq(S)
         /\ <<c, a, b>> \in Seq(S)
OBVIOUS

\* The end of parse and parse_end do what another LF would, if one lacks.
LEMMA Closed ==
  ASSUME NEW text \in Seq(Chars), text # <<>>
  PROVE  \E body : /\ Fixing("init", body, Complete(text)) /\ body # <<>>
                   /\ Fixed(text) = body \o Terminator
<1>1. PICK f : FixedSoFar(f, text, Len(text)) /\ Fixed(text) = Ended(f, text)
  BY FixedAll
<1> DEFINE o == PutOut(f, text, Len(text))
<1>2. SubSeq(text, 1, Len(text)) = text  BY SubSeqFull
<1>3. Fixing(f.state, o, text)  BY <1>1, <1>2 DEF FixedSoFar
<1>4. Fixed(text) = o \o Closing(f.state)  BY <1>1 DEF Ended, PutOut
<1> HIDE DEF o
<1>5. /\ CR \in Chars /\ LF \in Chars /\ DOT \in Chars
      /\ Terminator \in Seq(Chars) /\ <<LF>> \in Seq(Chars) /\ <<CR, LF>> \in Seq(Chars)
      /\ <<CR>> \in Seq(Chars) /\ <<>> \in Seq(Chars)
  BY Letter, Singletons3 DEF Terminator
<1>6. o \in Seq(Chars) /\ o # <<>>  BY <1>3 DEF Fixing
<1>7. CASE f.state = "init"
  <2>1. Complete(text) = text  BY <1>3, <1>7 DEF Fixing, AtLineStart, Complete
  <2>2. Closing(f.state) = <<>> \o Terminator  BY <1>7 DEF Closing, Terminator
  <2>3. <<>> \o Terminator = Terminator  BY <1>5, ConcatEmptySeq
  <2>4. Fixing("init", o, Complete(text))  BY <2>1, <1>3, <1>7
  <2> QED  BY <2>2, <2>3, <2>4, <1>4, <1>6
<1>8. CASE f.state # "init"
  <2>1. Complete(text) = Append(text, LF)  BY <1>3, <1>8 DEF Fixing, AtLineStart, Complete
  <2> DEFINE ins == Inserted(f.state, LF)
             body == Append(o \o ins, LF)
  <2>2. Consumed(f.state, LF) = "init"  BY Letter DEF Consumed
  <2>3. Fixing("init", body, Complete(text))
    BY <2>1, <2>2, <1>3, <1>5, FixStep
  <2>4. ins \in Seq(Chars) /\ Closing(f.state) = (ins \o <<LF>>) \o Terminator
    <3>1. CASE f.state = "cr"
      <4>1. ins = <<>>  BY <3>1 DEF Inserted, LF, DOT
      <4>2. Closing(f.state) = <<LF>> \o Terminator  BY <3>1 DEF Closing, Terminator
      <4>3. <<>> \o <<LF>> = <<LF>>  BY <1>5, ConcatEmptySeq
      <4> QED  BY <4>1, <4>2, <4>3, <1>5
    <3>2. CASE f.state = "default"
      <4>1. ins = <<CR>>  BY <3>2 DEF Inserted, LF, DOT
      <4>2. Closing(f.state) = <<CR, LF>> \o Terminator  BY <3>2 DEF Closing, Terminator
      <4>3. <<CR>> \o <<LF>> = <<CR, LF>>  BY <1>5, PairJoined
      <4> QED  BY <4>1, <4>2, <4>3, <1>5
    <3> QED  BY <3>1, <3>2, <1>3, <1>8 DEF Fixing
  <2> HIDE DEF ins
  <2>5. ins \o <<LF>> \in Seq(Chars) /\ o \o ins \in Seq(Chars)
    BY <2>4, <1>5, <1>6, ConcatProperties
  <2> DEFINE e == ins \o <<LF>>
  <2>6. o \o (e \o Terminator) = (o \o e) \o Terminator
    <3>1. e \in Seq(Chars) /\ Terminator \in Seq(Chars) /\ o \in Seq(Chars)
      BY <2>5, <1>5, <1>6
    <3> HIDE DEF e
    <3> QED  BY <3>1, JoinedThrice
  <2>7. o \o e = (o \o ins) \o <<LF>>
    <3>1. ins \in Seq(Chars) /\ <<LF>> \in Seq(Chars) /\ o \in Seq(Chars)
      BY <2>4, <1>5, <1>6
    <3> DEFINE l == <<LF>>
    <3> HIDE DEF l
    <3>2. o \o (ins \o l) = (o \o ins) \o l  BY <3>1, JoinedThrice DEF l
    <3> QED  BY <3>2 DEF l
  <2>8. body = (o \o ins) \o <<LF>>
    <3> DEFINE x == o \o ins
    <3>1. x \in Seq(Chars) /\ LF \in Chars  BY <2>5, <1>5
    <3> HIDE DEF x
    <3>2. Append(x, LF) = x \o <<LF>>  BY <3>1, AppendIsConcat
    <3> QED  BY <3>2 DEF x
  <2>9. body # <<>>
    <3> DEFINE x == o \o ins
    <3>1. x \in Seq(Chars) /\ LF \in Chars  BY <2>5, <1>5
    <3> HIDE DEF x
    <3>2. Append(x, LF) # <<>>  BY <3>1, AppendProperties
    <3> QED  BY <3>2 DEF x
  <2> HIDE DEF body
  <2>10. Fixed(text) = body \o Terminator  BY <2>4, <2>6, <2>7, <2>8, <1>4
  <2> QED  BY <2>3, <2>9, <2>10
<1> QED  BY <1>7, <1>8

\* What is sent of a message.
WellFormed(w, t) ==
  /\ EndsOnce(w) /\ LinesEnded(w)
  /\ Recovers(SubSeq(w, 1, Len(w) - 3), t)

\* The fixed message has the mark at its end, only there, and gives its text back.
LEMMA WireWellFormed ==
  ASSUME NEW text \in Seq(Chars), text # <<>>
  PROVE  WellFormed(Fixed(text), Complete(text))
<1>1. PICK b : /\ Fixing("init", b, Complete(text)) /\ b # <<>>
               /\ Fixed(text) = b \o Terminator
  BY Closed
<1> DEFINE w == b \o Terminator
           m == Len(b)
<1>2. /\ b \in Seq(Chars) /\ LinesEnded(b) /\ DotsDoubled(b) /\ AtLineStart(b)
      /\ Recovers(b, Complete(text))
  BY <1>1 DEF Fixing
<1>3. CR # LF /\ CR # DOT /\ LF # DOT  BY Letter
<1>4. /\ Terminator \in Seq(Chars) /\ Len(Terminator) = 3
      /\ Terminator[1] = DOT /\ Terminator[2] = CR /\ Terminator[3] = LF
  BY Letter DEF Terminator
<1>5. m \in Nat /\ m # 0  BY <1>1, <1>2, EmptySeq
<1>6. b[m] = LF /\ m > 1 /\ b[m - 1] = CR
  <2>1. b[m] = LF  BY <1>1, <1>2 DEF AtLineStart
  <2>2. m \in 1 .. m  BY <1>5
  <2> QED  BY <2>1, <2>2, <1>2 DEF LinesEnded
<1>7. /\ w \in Seq(Chars) /\ Len(w) = m + 3
      /\ \A i \in 1 .. m : w[i] = b[i]
      /\ w[m + 1] = DOT /\ w[m + 2] = CR /\ w[m + 3] = LF
  <2>1. /\ w \in Seq(Chars) /\ Len(w) = m + Len(Terminator)
        /\ \A i \in 1 .. m + Len(Terminator) :
             w[i] = IF i <= m THEN b[i] ELSE Terminator[i - m]
    BY <1>2, <1>4, ConcatProperties
  <2> HIDE DEF w
  <2>2. \A i \in 1 .. m : w[i] = b[i]  BY <2>1, <1>4, <1>5
  <2>3. w[m + 1] = Terminator[m + 1 - m] /\ w[m + 2] = Terminator[m + 2 - m]
        /\ w[m + 3] = Terminator[m + 3 - m]
    BY <2>1, <1>4, <1>5
  <2>4. m + 1 - m = 1 /\ m + 2 - m = 2 /\ m + 3 - m = 3  BY <1>5
  <2> QED  BY <2>1, <2>2, <2>3, <2>4, <1>4
<1>8. SubSeq(w, 1, Len(w) - 3) = b
  <2>1. Len(w) - 3 = m  BY <1>5, <1>7
  <2>2. SubSeq(w, 1, m) = SubSeq(b, 1, m)
    BY <1>2, <1>4, <1>5, SubSeqOfConcat1
  <2> QED  BY <2>1, <2>2, <1>2, SubSeqFull
<1> HIDE DEF w
<1>9. LinesEnded(w)
  <2>1. ASSUME NEW i \in 1 .. Len(w), w[i] = LF PROVE i > 1 /\ w[i - 1] = CR
    <3>1. CASE i \in 1 .. m
      <4>1. b[i] = LF  BY <2>1, <3>1, <1>7
      <4>2. i > 1 /\ b[i - 1] = CR  BY <3>1, <4>1, <1>2 DEF LinesEnded
      <4>3. i - 1 \in 1 .. m  BY <3>1, <4>2
      <4> QED  BY <4>2, <4>3, <1>7
    <3>2. CASE i = m + 1
      BY <3>2, <2>1, <1>3, <1>7
    <3>3. CASE i = m + 2
      BY <3>3, <2>1, <1>3, <1>7
    <3>4. CASE i = m + 3
      <4>1. i > 1 /\ i - 1 = m + 2  BY <3>4, <1>5
      <4> QED  BY <4>1, <1>7
    <3> QED  BY <3>1, <3>2, <3>3, <3>4, <1>5, <1>7
  <2> QED  BY <2>1 DEF LinesEnded
<1>10. /\ EndMark[1] = CR /\ EndMark[2] = LF /\ EndMark[3] = DOT
       /\ EndMark[4] = CR /\ EndMark[5] = LF
  BY DEF EndMark, CR, LF, DOT
<1>11. Matches(w, m + 3, 5)
  <2>1. /\ w[m - 1] = CR /\ w[m] = LF
    <3>1. m - 1 \in 1 .. m /\ m \in 1 .. m  BY <1>5, <1>6
    <3> QED  BY <3>1, <1>6, <1>7
  <2>2. /\ m + 3 - 5 + 1 = m - 1 /\ m + 3 - 5 + 2 = m /\ m + 3 - 5 + 3 = m + 1
        /\ m + 3 - 5 + 4 = m + 2 /\ m + 3 - 5 + 5 = m + 3 /\ m + 3 >= 5
    BY <1>5, <1>6
  <2>3. /\ w[m + 3 - 5 + 1] = EndMark[1] /\ w[m + 3 - 5 + 2] = EndMark[2]
        /\ w[m + 3 - 5 + 3] = EndMark[3] /\ w[m + 3 - 5 + 4] = EndMark[4]
        /\ w[m + 3 - 5 + 5] = EndMark[5]
    BY <2>1, <2>2, <1>7, <1>10
  <2>4. \A i \in 1 .. 5 : i = 1 \/ i = 2 \/ i = 3 \/ i = 4 \/ i = 5  OBVIOUS
  <2>5. \A i \in 1 .. 5 : w[m + 3 - 5 + i] = EndMark[i]  BY <2>3, <2>4, Zenon
  <2> QED  BY <2>2, <2>5 DEF Matches
<1>12. ASSUME NEW k \in 1 .. Len(w), Matches(w, k, 5), k # Len(w) PROVE FALSE
  <2>1. k >= 5 /\ k < m + 3 /\ k \in Nat  BY <1>5, <1>7, <1>12 DEF Matches
  <2> DEFINE p == k - 2
  <2>2. w[p - 1] = LF /\ w[p] = DOT /\ w[p + 1] = CR
    <3>1. \A i \in 1 .. 5 : w[k - 5 + i] = EndMark[i]  BY <1>12 DEF Matches
    <3>2. w[k - 5 + 2] = EndMark[2] /\ w[k - 5 + 3] = EndMark[3] /\ w[k - 5 + 4] = EndMark[4]
      BY <3>1
    <3>3. k - 5 + 2 = p - 1 /\ k - 5 + 3 = p /\ k - 5 + 4 = p + 1  BY <2>1
    <3> QED  BY <3>2, <3>3, <1>10
  <2>3. p \in 1 .. m /\ p # 1 /\ p - 1 \in 1 .. m  BY <2>1, <1>5
  <2> HIDE DEF p
  <2>4. b[p] = DOT /\ b[p - 1] = LF  BY <2>2, <2>3, <1>7
  <2>5. p < m /\ b[p + 1] = DOT  BY <2>3, <2>4, <1>2 DEF DotsDoubled
  <2>6. p + 1 \in 1 .. m  BY <2>3, <2>5
  <2> QED  BY <2>2, <2>5, <2>6, <1>3, <1>7
<1>13. EndsOnce(w)
  <2>1. Len(w) >= 5  BY <1>5, <1>6, <1>7
  <2>2. \A k \in 1 .. Len(w) : Matches(w, k, 5) <=> k = Len(w)  BY <1>7, <1>11, <1>12
  <2> QED  BY <2>1, <2>2, <1>7 DEF EndsOnce
<1>14. WellFormed(w, Complete(text))  BY <1>2, <1>8, <1>9, <1>13 DEF WellFormed
<1> QED  BY <1>1, <1>14 DEF w

-----------------------------------------------------------------------------
(* The input of the session. *)

\* The pieces of s joined, one after the other.
Joins(f, s) ==
  /\ f[1] = s[1]
  /\ \A k \in 2 .. Len(s) : f[k] = f[k - 1] \o s[k]
  /\ FlattenSeq(s) = f[Len(s)]

LEMMA JoinSteps ==
  ASSUME NEW S, NEW s \in Seq(Seq(S)), s # <<>>
  PROVE  \E f : Joins(f, s)
<1> DEFINE n == Len(s)
           step == [p \in Seq(S) \X (1 .. n) |-> p[1] \o s[p[2]]]
<1>1. n \in Nat /\ n # 0 /\ \A k \in 1 .. n : s[k] \in Seq(S)  BY LenProperties, EmptySeq
<1>2. step \in [Seq(S) \X (1 .. n) -> Seq(S)]
  <2>1. ASSUME NEW p \in Seq(S) \X (1 .. n) PROVE p[1] \o s[p[2]] \in Seq(S)
    <3>1. p[1] \in Seq(S) /\ s[p[2]] \in Seq(S)  BY <1>1
    <3> QED  BY <3>1, ConcatProperties
  <2> QED  BY <2>1
<1>3. <<>> \in Seq(S)  BY EmptySeq
<1>4. PICK f \in [0 .. n -> Seq(S)] :
        f[0] = <<>> /\ \A k \in 1 .. n : f[k] = step[<<f[k - 1], k>>]
  <2> HIDE DEF step, n
  <2>1. PlaceFolds(Seq(S), n, step, <<>>) # {}  BY <1>1, <1>2, <1>3, PlacesFold, Zenon
  <2> QED  BY <2>1 DEF PlaceFolds
<1>5. \A k \in 1 .. n : f[k] = f[k - 1] \o s[k]
  <2> TAKE k \in 1 .. n
  <2>1. f[k - 1] \in Seq(S)
    <3> HIDE DEF n, step
    <3>1. k - 1 \in 0 .. n  BY <1>1
    <3>2. f \in [0 .. n -> Seq(S)]  BY <1>4
    <3> QED  BY <3>1, <3>2
  <2>2. <<f[k - 1], k>> \in Seq(S) \X (1 .. n)  BY <2>1
  <2> QED  BY <1>4, <2>2
<1>6. f[1] = s[1]
  <2>1. 1 \in 1 .. n /\ 1 - 1 = 0  BY <1>1
  <2>2. f[1] = <<>> \o s[1]
    <3> HIDE DEF n, step
    <3>1. f[1] = f[1 - 1] \o s[1]  BY <2>1, <1>5
    <3> QED  BY <3>1, <2>1, <1>4
  <2>3. <<>> \o s[1] = s[1]  BY <2>1, <1>1, ConcatEmptySeq
  <2> QED  BY <2>2, <2>3
<1> DEFINE IsJoin(g) == g = [i \in 1 .. Len(s) |-> IF i = 1 THEN s[i] ELSE g[i - 1] \o s[i]]
           h == [i \in 1 .. n |-> f[i]]
           g == CHOOSE g : IsJoin(g)
<1>7. IsJoin(h)
  <2>1. \A k \in 1 .. n : h[k] = IF k = 1 THEN s[k] ELSE h[k - 1] \o s[k]
    <3> TAKE k \in 1 .. n
    <3>1. CASE k = 1
      BY <3>1, <1>6
    <3>2. CASE k # 1
      <4>1. k - 1 \in 1 .. n  BY <3>2, <1>1
      <4>2. h[k] = f[k] /\ h[k - 1] = f[k - 1]  BY <4>1
      <4> QED  BY <3>2, <4>2, <1>5
    <3> QED  BY <3>1, <3>2
  <2>2. h = [i \in 1 .. n |-> h[i]]  OBVIOUS
  <2> HIDE DEF h
  <2> QED  BY <2>1, <2>2
<1>8. IsJoin(g)
  <2> HIDE DEF IsJoin, h
  <2> QED  BY <1>7
<1>9. FlattenSeq(s) = g[Len(s)]  BY <1>1 DEF FlattenSeq
<1> HIDE DEF g
<1>10. g[1] = s[1] /\ \A k \in 2 .. n : g[k] = g[k - 1] \o s[k]
  <2>1. \A k \in 1 .. n : g[k] = IF k = 1 THEN s[k] ELSE g[k - 1] \o s[k]  BY <1>8
  <2>2. 1 \in 1 .. n /\ \A k \in 2 .. n : k \in 1 .. n /\ k # 1  BY <1>1
  <2> QED  BY <2>1, <2>2
<1> QED  BY <1>9, <1>10 DEF Joins

LEMMA JoinsType ==
  ASSUME NEW S, NEW s \in Seq(Seq(S)), s # <<>>, NEW f, Joins(f, s)
  PROVE  \A k \in 1 .. Len(s) : f[k] \in Seq(S) /\ (f[k] = <<>> => s[1] = <<>>)
<1>1. Len(s) \in Nat /\ Len(s) # 0 /\ \A k \in 1 .. Len(s) : s[k] \in Seq(S)
  BY LenProperties, EmptySeq
<1> DEFINE Good(k) == f[k] \in Seq(S) /\ (f[k] = <<>> => s[1] = <<>>)
           T == {k \in Nat : k + 1 <= Len(s) => Good(k + 1)}
<1>2. 0 \in T
  <2>1. f[1] = s[1] /\ 1 \in 1 .. Len(s)  BY <1>1 DEF Joins
  <2> QED  BY <2>1, <1>1
<1>3. ASSUME NEW k \in T PROVE k + 1 \in T
  <2> SUFFICES ASSUME k + 1 + 1 <= Len(s) PROVE Good(k + 1 + 1)
    OBVIOUS
  <2> DEFINE m == k + 1
             n == k + 1 + 1
  <2>1. Good(m) /\ k \in Nat  BY <1>1
  <2>2. n \in 2 .. Len(s) /\ n \in 1 .. Len(s) /\ n - 1 = m  BY <2>1, <1>1
  <2> HIDE DEF m, n
  <2>3. f[n] = f[m] \o s[n]  BY <2>2 DEF Joins
  <2>4. s[n] \in Seq(S)  BY <2>2, <1>1
  <2>5. f[m] \o s[n] \in Seq(S) /\ (f[m] \o s[n] = <<>> <=> f[m] = <<>> /\ s[n] = <<>>)
    BY <2>1, <2>4, ConcatProperties, ConcatEqualIffEmpty
  <2>6. Good(n)  BY <2>1, <2>3, <2>5
  <2> QED  BY <2>6 DEF n
<1>4. \A k \in Nat : k \in T
  <2> HIDE DEF T
  <2>1. T \in SUBSET Nat  BY DEF T
  <2> QED  BY <2>1, <1>2, <1>3, Induction
<1>5. ASSUME NEW k \in 1 .. Len(s) PROVE Good(k)
  <2> DEFINE j == k - 1
  <2>1. j \in Nat /\ j + 1 = k /\ k <= Len(s)  BY <1>1
  <2>2. j \in T  BY <2>1, <1>4
  <2> HIDE DEF j, Good
  <2>3. j + 1 <= Len(s) => Good(j + 1)  BY <2>2
  <2> QED  BY <2>1, <2>3
<1> QED  BY <1>5

\* Pieces that are not empty make a text that is not.
LEMMA TextOfPieces ==
  ASSUME NEW S, NEW s \in Seq(Seq(S) \ {<<>>}), s # <<>>
  PROVE  FlattenSeq(s) \in Seq(S) /\ FlattenSeq(s) # <<>>
<1>1. s \in Seq(Seq(S))
  <2>1. Seq(S) \ {<<>>} \subseteq Seq(S)  OBVIOUS
  <2> QED  BY <2>1, SeqMonotonic
<1>2. PICK f : Joins(f, s)  BY <1>1, JoinSteps
<1>3. Len(s) \in 1 .. Len(s) /\ 1 \in 1 .. Len(s) /\ s[1] # <<>>
  BY LenProperties, EmptySeq
<1>4. f[Len(s)] \in Seq(S) /\ f[Len(s)] # <<>>  BY <1>1, <1>2, <1>3, JoinsType
<1> QED  BY <1>2, <1>4 DEF Joins

\* What the session has read of the message, and what the searches know of it.
InputInv ==
  /\ message \in Seq(Pieces)
  /\ IF stage = "message"
     THEN /\ message # <<>> /\ wire = Fixed(FlattenSeq(message))
          /\ WellFormed(wire, Complete(FlattenSeq(message)))
          /\ got \in 0 .. Len(wire)
          /\ Follows(scan, wire, got) /\ Finds(op, wire, got)
     ELSE got = 0 /\ op = NotSearched /\ scan = NotScanned

LEMMA InitInput == Init => InputInv
<1> SUFFICES ASSUME Init PROVE InputInv
  OBVIOUS
<1>1. <<>> \in Seq(Pieces)  BY EmptySeq
<1> QED  BY <1>1 DEF Init, InputInv

LEMMA FixInput ==
  ASSUME InputInv, FixMessage
  PROVE  InputInv'
<1> DEFINE text == FlattenSeq(message)
<1>1. /\ stage = "data" /\ message # <<>> /\ message' = message /\ wire' = Fixed(text)
      /\ stage' = "message" /\ got' = got /\ op' = op /\ scan' = scan
  BY DEF FixMessage
<1>2. message \in Seq(Pieces) /\ got = 0 /\ op = NotSearched /\ scan = NotScanned
  BY <1>1 DEF InputInv
<1>3. text \in Seq(Chars) /\ text # <<>>
  <2>1. message \in Seq(Seq(Chars) \ {<<>>})
    BY <1>2, PiecesAssumption, SeqMonotonic
  <2> QED  BY <2>1, <1>1, TextOfPieces
<1> HIDE DEF text
<1>4. WellFormed(wire', Complete(text))  BY <1>1, <1>3, WireWellFormed
<1>5. EndsOnce(wire') /\ Len(wire') \in Nat /\ Len(wire') >= 5
  BY <1>4, LenProperties DEF WellFormed, EndsOnce
<1>6. Follows(scan, wire', 0)
  <2>1. \A j \in 1 .. 5 : ~Matches(wire', 0, j)  BY DEF Matches
  <2> QED  BY <2>1, <1>2 DEF Follows, NotScanned, Scans
<1>7. Finds(op, wire', 0)  BY <1>2, <1>5 DEF Finds, NotSearched
<1>8. 0 \in 0 .. Len(wire')  BY <1>5
<1> QED  BY <1>1, <1>2, <1>4, <1>6, <1>7, <1>8 DEF InputInv, text

LEMMA ReadInput ==
  ASSUME InputInv, NEW n \in 1 .. Len(wire), ReadMessage(n)
  PROVE  InputInv'
<1>1. /\ stage = "message" /\ n \in 1 .. Len(wire) - got
      /\ got' = got + n
      /\ op' = Searched(op, SubSeq(wire, 1, got + n))
      /\ scan' = ScannedAll(scan, SubSeq(wire, got + 1, got + n))
      /\ stage' = stage /\ message' = message /\ wire' = wire
      /\ ~op.found
  BY DEF ReadMessage, Found, clientVars
<1>2. /\ message \in Seq(Pieces) /\ message # <<>> /\ wire = Fixed(FlattenSeq(message))
      /\ WellFormed(wire, Complete(FlattenSeq(message)))
      /\ got \in 0 .. Len(wire)
      /\ Follows(scan, wire, got) /\ Finds(op, wire, got)
  BY <1>1 DEF InputInv
<1>3. EndsOnce(wire) /\ Len(wire) \in Nat  BY <1>2, LenProperties DEF WellFormed, EndsOnce
<1>4. /\ got \in Nat /\ n \in Nat /\ got + n <= Len(wire) /\ got + n \in 1 .. Len(wire)
      /\ got + n \in 0 .. Len(wire) /\ got # Len(wire)
  BY <1>1, <1>2, <1>3
<1>5. Follows(scan', wire, got + n)  BY <1>1, <1>2, <1>3, <1>4, PieceScanned
<1>6. op.position \in Nat /\ op.position <= Len(wire) - 5  BY <1>2, <1>4 DEF Finds
<1>7. Finds(op', wire, got + n)  BY <1>1, <1>3, <1>4, <1>6, SearchFinds
<1> QED  BY <1>1, <1>2, <1>4, <1>5, <1>7 DEF InputInv

LEMMA NextInput == InputInv /\ [Next]_vars => InputInv'
<1> SUFFICES ASSUME InputInv, [Next]_vars PROVE InputInv'
  OBVIOUS
<1>1. ASSUME UNCHANGED <<inputVars, stage>> PROVE InputInv'
  BY <1>1 DEF InputInv, inputVars
<1>2. ASSUME NEW ok1 \in BOOLEAN, NEW ok2 \in BOOLEAN, Stream(ok1, ok2) PROVE InputInv'
  BY <1>2, <1>1 DEF Stream, clientVars
<1>3. ASSUME NEW ok \in BOOLEAN, TurnsToRead(ok) PROVE InputInv'
  BY <1>3, <1>1 DEF TurnsToRead, clientVars
<1>4. ASSUME NEW n \in 1 .. Len(out.sent), ReadReply(n) PROVE InputInv'
  BY <1>4, <1>1 DEF ReadReply
<1>5. CASE SendData
  BY <1>5 DEF SendData, InputInv, inputVars
<1>6. ASSUME NEW piece \in Pieces, Compose(piece) PROVE InputInv'
  <2>1. /\ stage = "data" /\ stage' = "data" /\ message' = Append(message, piece)
        /\ got' = got /\ op' = op /\ scan' = scan
    BY <1>6 DEF Compose, clientVars
  <2>2. message' \in Seq(Pieces)  BY <2>1, AppendProperties DEF InputInv
  <2> QED  BY <2>1, <2>2 DEF InputInv
<1>7. CASE FixMessage
  BY <1>7, FixInput
<1>8. ASSUME NEW n \in 1 .. Len(wire), ReadMessage(n) PROVE InputInv'
  BY <1>8, ReadInput
<1>9. CASE Answer
  <2>1. <<>> \in Seq(Pieces)  BY EmptySeq
  <2> QED  BY <2>1, <1>9 DEF Answer, InputInv
<1>10. CASE UNCHANGED vars
  BY <1>10, <1>1 DEF vars, clientVars
<1> QED  BY <1>2, <1>3, <1>4, <1>5, <1>6, <1>7, <1>8, <1>9, <1>10 DEF Next

LEMMA InputInvariant == Spec => []InputInv
BY InitInput, NextInput, PTL DEF Spec

\* Both searches find the end of the data when its last character is there, and
\* not before, however the message is cut on its way (read_until.h:81-128,
\* session.h:88-126).
THEOREM EndIsFound == Spec => []EndFoundExactly
<1>1. InputInv => EndFoundExactly
  <2> SUFFICES ASSUME InputInv, stage = "message" PROVE EndFoundExactly
    BY DEF EndFoundExactly
  <2>1. /\ EndsOnce(wire) /\ got \in 0 .. Len(wire)
        /\ Follows(scan, wire, got) /\ Finds(op, wire, got)
    BY DEF InputInv, WellFormed
  <2>2. Len(wire) \in Nat /\ Len(wire) >= 5  BY <2>1, LenProperties DEF EndsOnce
  <2>3. scan.state = "lf2" <=> got = Len(wire)
    <3>1. CASE got = 0
      BY <3>1, <2>1, <2>2 DEF Follows, Matches
    <3>2. CASE got # 0
      <4>1. got \in 1 .. Len(wire)  BY <3>2, <2>1, <2>2
      <4> QED  BY <4>1, <2>1 DEF Follows, EndsOnce
    <3> QED  BY <3>1, <3>2
  <2>4. op.found = (got = Len(wire)) /\ (got = Len(wire) => op.position = Len(wire))
    BY <2>1 DEF Finds
  <2>5. got = Len(wire) => scan.taken = Len(wire) /\ scan.last = Len(wire) - 5
    BY <2>1, <2>3 DEF Follows
  <2>6. Len(EndMark) = 5  BY EndMarkLength DEF EndMarkType
  <2> QED  BY <2>3, <2>4, <2>5, <2>6 DEF EndFoundExactly
<1> QED  BY <1>1, InputInvariant, PTL

\* What is sent of a message has its lines ended by CR LF, and gives the text
\* back when the doubled dots are halved and the CRs left out (fix.h:52-144).
THEOREM MessagesAreRecoverable == Spec => []Recoverable
<1>1. InputInv => Recoverable
  <2> SUFFICES ASSUME InputInv, stage = "message" PROVE Recoverable
    BY DEF Recoverable
  <2> DEFINE text == FlattenSeq(message)
  <2>1. LinesEnded(wire) /\ Recovers(SubSeq(wire, 1, Len(wire) - 3), Complete(text))
    BY DEF InputInv, WellFormed
  <2>2. Complete(text) = IF Last(text) = LF THEN text ELSE Append(text, LF)
    BY DEF Complete, Last
  <2> HIDE DEF text
  <2> QED  BY <2>1, <2>2 DEF Recoverable, LinesEnded, Recovers, text
<1> QED  BY <1>1, InputInvariant, PTL

-----------------------------------------------------------------------------
(* The parser of the replies. *)

States == {"init", "digit1", "digit2", "digit3", "cont", "message", "cr"}

\* The states of the parser (reply.h:10).
Parsers == [state : States, cont : BOOLEAN, result : {"more", "true", "false"}]

LEMMA ReadType ==
  ASSUME NEW p \in Parsers, NEW c
  PROVE  Replies!Read(p, c) \in Parsers
<1>1. p = [state |-> p.state, cont |-> p.cont, result |-> p.result]
      /\ p.state \in States /\ p.cont \in BOOLEAN /\ p.result \in {"more", "true", "false"}
  BY DEF Parsers
<1>2. Replies!EndOfLine(p) \in Parsers
  BY <1>1 DEF Replies!EndOfLine, Parsers, States
<1>3. /\ \A q \in States : [p EXCEPT !.state = q] \in Parsers
      /\ [[p EXCEPT !.state = "message"] EXCEPT !.cont = (c = "-")] \in Parsers
      /\ [p EXCEPT !.result = "false"] \in Parsers
  BY <1>1 DEF Parsers, States
<1> QED  BY <1>2, <1>3 DEF Replies!Read, Replies!Consume, States

\* What parse makes of s from p, character by character.
Parses(f, p, s) == f[0] = p /\ \A k \in 1 .. Len(s) : f[k] = Replies!Read(f[k - 1], s[k])

\* The parser goes over a reply character by character, and keeps its state
\* when the reply is cut.
LEMMA ParseSteps ==
  ASSUME NEW p \in Parsers, NEW C, NEW s \in Seq(C)
  PROVE  \E f : Parses(f, p, s) /\ Replies!Parse(p, s) = f[Len(s)]
<1> DEFINE step == [a \in Parsers \X C |-> Replies!Read(a[1], a[2])]
<1>1. step \in [Parsers \X C -> Parsers]  BY ReadType
<1>2. PICK f \in [0 .. Len(s) -> Parsers] :
        f[0] = p /\ \A k \in 1 .. Len(s) : f[k] = step[<<f[k - 1], s[k]>>]
  <2> HIDE DEF step
  <2>1. Folds(Parsers, step, p, s) # {}  BY <1>1, FoldExists, Zenon
  <2> QED  BY <2>1 DEF Folds
<1>3. Len(s) \in Nat  BY LenProperties
<1>4. ASSUME NEW k \in 1 .. Len(s) PROVE f[k] = Replies!Read(f[k - 1], s[k])
  <2>1. f[k - 1] \in Parsers /\ s[k] \in C  BY <1>3
  <2>2. <<f[k - 1], s[k]>> \in Parsers \X C  BY <2>1
  <2> QED  BY <1>2, <2>2
<1> DEFINE IsParse(g) ==
             g = [k \in 0 .. Len(s) |-> IF k = 0 THEN p ELSE Replies!Read(g[k - 1], s[k])]
           g == CHOOSE g : IsParse(g)
<1>5. IsParse(f)  BY <1>2, <1>3, <1>4
<1>6. IsParse(g)
  <2> HIDE DEF IsParse
  <2> QED  BY <1>5
<1>7. Replies!Parse(p, s) = g[Len(s)]  BY DEF Replies!Parse
<1> HIDE DEF g
<1>8. Parses(g, p, s)  BY <1>3, <1>6 DEF Parses
<1> QED  BY <1>7, <1>8

\* The reply r is read well and is complete after e characters.
Understood(f, r, e) ==
  /\ Parses(f, Replies!NoReply, r)
  /\ \A k \in 1 .. Len(r) : f[k].result = IF k >= e THEN "true" ELSE "more"

\* The parser in a reply, and behind its end.
Reading(q, c) == [state |-> q, cont |-> c, result |-> "more"]
HasRead       == [state |-> "cr", cont |-> FALSE, result |-> "true"]

LEMMA InReading ==
  ASSUME NEW q, NEW b
  PROVE  /\ Reading(q, b).state = q /\ Reading(q, b).cont = b /\ Reading(q, b).result = "more"
         /\ \A s : [Reading(q, b) EXCEPT !.state = s] = Reading(s, b)
         /\ \A d : [Reading(q, b) EXCEPT !.cont = d] = Reading(q, d)
BY DEF Reading

LEMMA ReadingDone ==
  ASSUME NEW b
  PROVE  [Reading("cr", b) EXCEPT !.result = "true"] =
           [state |-> "cr", cont |-> b, result |-> "true"]
BY DEF Reading

LEMMA AnotherLine ==
  ASSUME NEW b
  PROVE  [Reading("message", b) EXCEPT !.state = "digit1"] = Reading("digit1", b)
BY DEF Reading

LEMMA ReadsOn ==
  ASSUME NEW q, NEW b, NEW c
  PROVE  Replies!Read(Reading(q, b), c) = Replies!Consume(Reading(q, b), c)
BY InReading DEF Replies!Read

LEMMA Digits ==
  ASSUME NEW b \in BOOLEAN
  PROVE  /\ Replies!Read(Reading("init", b), "d") = Reading("digit2", b)
         /\ Replies!Read(Reading("digit1", b), "d") = Reading("digit2", b)
         /\ Replies!Read(Reading("digit2", b), "d") = Reading("digit3", b)
         /\ Replies!Read(Reading("digit3", b), "d") = Reading("cont", b)
<1>1. ASSUME NEW q, q \in {"init", "digit1"}
      PROVE  Replies!Read(Reading(q, b), "d") = Reading("digit2", b)
  <2> DEFINE p == Reading(q, b)
  <2>1. p.state = q /\ \A s : [p EXCEPT !.state = s] = Reading(s, b)  BY InReading
  <2> HIDE DEF p
  <2>2. Replies!Consume(p, "d") = [p EXCEPT !.state = "digit2"]
    BY <1>1, <2>1 DEF Replies!Consume
  <2> QED  BY <2>1, <2>2, ReadsOn DEF p
<1>2. Replies!Read(Reading("digit2", b), "d") = Reading("digit3", b)
  <2> DEFINE p == Reading("digit2", b)
  <2>1. p.state = "digit2" /\ [p EXCEPT !.state = "digit3"] = Reading("digit3", b)  BY InReading
  <2> HIDE DEF p
  <2>2. Replies!Consume(p, "d") = [p EXCEPT !.state = "digit3"]
    BY <2>1 DEF Replies!Consume
  <2> QED  BY <2>1, <2>2, ReadsOn DEF p
<1>3. Replies!Read(Reading("digit3", b), "d") = Reading("cont", b)
  <2> DEFINE p == Reading("digit3", b)
  <2>1. p.state = "digit3" /\ [p EXCEPT !.state = "cont"] = Reading("cont", b)  BY InReading
  <2> HIDE DEF p
  <2>2. Replies!Consume(p, "d") = [p EXCEPT !.state = "cont"]
    BY <2>1 DEF Replies!Consume
  <2> QED  BY <2>1, <2>2, ReadsOn DEF p
<1> QED  BY <1>1, <1>2, <1>3

\* What stands behind the code of a last line, by name.
Blank == " "

LEMMA BehindCode ==
  ASSUME NEW b \in BOOLEAN
  PROVE  /\ Replies!Read(Reading("cont", b), Blank) = Reading("message", FALSE)
         /\ Replies!Read(Reading("cont", b), "-") = Reading("message", TRUE)
<1> DEFINE p == Reading("cont", b)
<1>1. p.state = "cont" /\ [p EXCEPT !.state = "message"] = Reading("message", b)
  BY InReading
<1>2. \A d : [Reading("message", b) EXCEPT !.cont = d] = Reading("message", d)
  BY InReading
<1>3. \A c : Replies!Read(p, c) = Replies!Consume(p, c)  BY ReadsOn
<1> HIDE DEF p
<1>4. Replies!Consume(p, " ") = [[p EXCEPT !.state = "message"] EXCEPT !.cont = FALSE]
  BY <1>1 DEF Replies!Consume
<1>5. Replies!Consume(p, "-") = [[p EXCEPT !.state = "message"] EXCEPT !.cont = TRUE]
  BY <1>1 DEF Replies!Consume
<1> QED  BY <1>1, <1>2, <1>3, <1>4, <1>5 DEF p, Blank

LEMMA InText ==
  ASSUME NEW b \in BOOLEAN
  PROVE  /\ Replies!Read(Reading("message", b), "x") = Reading("message", b)
         /\ Replies!Read(Reading("message", b), CR) = Reading("cr", b)
<1> DEFINE p == Reading("message", b)
<1>1. p.state = "message" /\ [p EXCEPT !.state = "cr"] = Reading("cr", b)
  BY InReading
<1>2. \A c : Replies!Read(p, c) = Replies!Consume(p, c)  BY ReadsOn
<1> HIDE DEF p
<1>3. Replies!Consume(p, "x") = p  BY <1>1 DEF Replies!Consume
<1>4. Replies!Consume(p, CR) = [p EXCEPT !.state = "cr"]  BY <1>1 DEF Replies!Consume, CR
<1> QED  BY <1>1, <1>2, <1>3, <1>4 DEF p

LEMMA LineEnds ==
  /\ Replies!Read(Reading("cr", FALSE), LF) = HasRead
  /\ Replies!Read(Reading("message", TRUE), LF) = Reading("digit1", TRUE)
<1>1. Replies!Consume(Reading("cr", FALSE), LF) = HasRead
  <2> DEFINE p == Reading("cr", FALSE)
  <2>1. p.state = "cr" /\ ~p.cont
    <3>1. p.state = "cr" /\ p.cont = FALSE  BY DEF Reading
    <3> QED  BY <3>1, Zenon
  <2>2. [p EXCEPT !.result = "true"] = HasRead  BY ReadingDone, Zenon DEF HasRead
  <2> HIDE DEF p
  <2>3. Replies!Consume(p, LF) = Replies!EndOfLine(p)  BY <2>1 DEF Replies!Consume, LF
  <2>4. Replies!EndOfLine(p) = HasRead  BY <2>1, <2>2 DEF Replies!EndOfLine
  <2> QED  BY <2>3, <2>4 DEF p
<1>2. Replies!Consume(Reading("message", TRUE), LF) = Reading("digit1", TRUE)
  <2> DEFINE p == Reading("message", TRUE)
  <2>1. p.state = "message" /\ p.cont
    <3>1. p.state = "message" /\ p.cont = TRUE  BY DEF Reading
    <3> QED  BY <3>1, Zenon
  <2>2. [p EXCEPT !.state = "digit1"] = Reading("digit1", TRUE)
    BY AnotherLine, Zenon
  <2> HIDE DEF p
  <2>3. Replies!Consume(p, LF) = Replies!EndOfLine(p)  BY <2>1 DEF Replies!Consume, LF
  <2>4. Replies!EndOfLine(p) = Reading("digit1", TRUE)  BY <2>1, <2>2 DEF Replies!EndOfLine
  <2> QED  BY <2>3, <2>4 DEF p
<1> QED  BY <1>1, <1>2, ReadsOn

LEMMA NothingBehind ==
  ASSUME NEW c
  PROVE  Replies!Read(HasRead, c) = HasRead
BY DEF Replies!Read, HasRead

LEMMA ParsesType ==
  ASSUME NEW C, NEW s \in Seq(C), NEW p \in Parsers, NEW f, Parses(f, p, s)
  PROVE  \A k \in 0 .. Len(s) : f[k] \in Parsers
<1> DEFINE T == {k \in Nat : k <= Len(s) => f[k] \in Parsers}
<1>1. Len(s) \in Nat  BY LenProperties
<1>2. 0 \in T  BY DEF Parses
<1>3. ASSUME NEW k \in T PROVE k + 1 \in T
  <2> SUFFICES ASSUME k + 1 <= Len(s) PROVE f[k + 1] \in Parsers
    OBVIOUS
  <2>1. k \in Nat /\ f[k] \in Parsers  BY <1>1
  <2> DEFINE m == k + 1
  <2>2. m \in 1 .. Len(s) /\ m - 1 = k  BY <2>1, <1>1
  <2> HIDE DEF m
  <2>3. f[m] = Replies!Read(f[k], s[m])  BY <2>2 DEF Parses
  <2>4. f[m] \in Parsers  BY <2>1, <2>3, ReadType
  <2> QED  BY <2>4 DEF m
<1>4. \A k \in Nat : k \in T
  <2> HIDE DEF T
  <2>1. T \in SUBSET Nat  BY DEF T
  <2> QED  BY <2>1, <1>2, <1>3, Induction
<1> QED  BY <1>1, <1>4

\* Behind place o of r: a code, what follows it, and n characters of text.
LineAt(r, o, c, n) ==
  /\ r[o + 1] = "d" /\ r[o + 2] = "d" /\ r[o + 3] = "d" /\ r[o + 4] = c
  /\ \A k \in o + 5 .. o + n + 4 : r[k] = "x"

\* What stands between o and e has been read as the beginning of a line.
TextRead(f, o, e, a) ==
  (\A k \in o .. e : f[k].result = "more") /\ f[e] = Reading("message", a)

\* A line is read up to its end.
LEMMA LineRead ==
  ASSUME NEW r, NEW p, NEW f, Parses(f, p, r), Len(r) \in Nat,
         NEW o \in Nat, NEW n \in Nat, NEW e, e = o + n + 4, e <= Len(r),
         NEW q \in {"init", "digit1"}, NEW b \in BOOLEAN, f[o] = Reading(q, b),
         NEW c, NEW a \in BOOLEAN, (c = Blank /\ ~a) \/ (c = "-" /\ a), LineAt(r, o, c, n)
  PROVE  TextRead(f, o, e, a)
<1>1. \A k \in 1 .. Len(r) : f[k] = Replies!Read(f[k - 1], r[k])  BY DEF Parses
<1>2. /\ o + 1 \in 1 .. Len(r) /\ (o + 1) - 1 = o
      /\ o + 2 \in 1 .. Len(r) /\ (o + 2) - 1 = o + 1
      /\ o + 3 \in 1 .. Len(r) /\ (o + 3) - 1 = o + 2
      /\ o + 4 \in 1 .. Len(r) /\ (o + 4) - 1 = o + 3
  OBVIOUS
<1>3. f[o + 1] = Reading("digit2", b)
  <2>1. f[o + 1] = Replies!Read(f[o], "d")  BY <1>1, <1>2 DEF LineAt
  <2> QED  BY <2>1, Digits
<1>4. f[o + 2] = Reading("digit3", b)
  <2>1. f[o + 2] = Replies!Read(f[o + 1], "d")  BY <1>1, <1>2 DEF LineAt
  <2> QED  BY <2>1, <1>3, Digits
<1>5. f[o + 3] = Reading("cont", b)
  <2>1. f[o + 3] = Replies!Read(f[o + 2], "d")  BY <1>1, <1>2 DEF LineAt
  <2> QED  BY <2>1, <1>4, Digits
<1>6. f[o + 4] = Reading("message", a)
  <2>1. f[o + 4] = Replies!Read(f[o + 3], c)  BY <1>1, <1>2 DEF LineAt
  <2>2. CASE c = Blank /\ ~a
    <3>1. a = FALSE  BY <2>2
    <3> QED  BY <2>1, <2>2, <3>1, <1>5, BehindCode, Zenon
  <2>3. CASE c = "-" /\ a
    <3>1. a = TRUE  BY <2>3
    <3> QED  BY <2>1, <2>3, <3>1, <1>5, BehindCode, Zenon
  <2> QED  BY <2>2, <2>3
<1> DEFINE T == {i \in Nat : i <= n => f[o + 4 + i] = Reading("message", a)}
<1>7. 0 \in T  BY <1>6
<1>8. ASSUME NEW i \in T PROVE i + 1 \in T
  <2> SUFFICES ASSUME i + 1 <= n PROVE f[o + 4 + (i + 1)] = Reading("message", a)
    OBVIOUS
  <2> DEFINE m == o + 4 + (i + 1)
  <2>1. i \in Nat /\ f[o + 4 + i] = Reading("message", a)  OBVIOUS
  <2>2. m \in 1 .. Len(r) /\ m - 1 = o + 4 + i /\ m \in o + 5 .. o + n + 4  BY <2>1
  <2> HIDE DEF m, T
  <2>3. f[m] = Replies!Read(Reading("message", a), "x")
    BY <2>1, <2>2, <1>1 DEF LineAt
  <2>4. f[m] = Reading("message", a)  BY <2>3, InText
  <2> QED  BY <2>4 DEF m
<1>9. \A i \in Nat : i \in T
  <2>1. T \in SUBSET Nat  OBVIOUS
  <2> HIDE DEF T
  <2> QED  BY <2>1, <1>7, <1>8, Induction
<1>10. \A i \in 0 .. n : f[o + 4 + i] = Reading("message", a)
  <2> TAKE i \in 0 .. n
  <2>1. i \in Nat /\ i <= n /\ i \in T  BY <1>9
  <2> QED  BY <2>1
<1>11. ASSUME NEW k \in o .. e PROVE f[k].result = "more"
  <2>1. CASE k >= o + 4
    <3>1. k - (o + 4) \in 0 .. n /\ o + 4 + (k - (o + 4)) = k  BY <2>1
    <3>2. f[k] = Reading("message", a)  BY <3>1, <1>10
    <3> QED  BY <3>2, InReading
  <2>2. CASE k < o + 4
    <3>1. k = o \/ k = o + 1 \/ k = o + 2 \/ k = o + 3  BY <2>2
    <3> QED  BY <3>1, <1>3, <1>4, <1>5, InReading
  <2> QED  BY <2>1, <2>2
<1>12. f[e] = Reading("message", a)
  <2>1. n \in 0 .. n /\ o + 4 + n = e  OBVIOUS
  <2> QED  BY <2>1, <1>10
<1> QED  BY <1>11, <1>12 DEF TextRead

\* A reply of one line, behind which there may be more.
OneLine(r, n) ==
  /\ r \in Seq(Letters) /\ n + 6 <= Len(r)
  /\ LineAt(r, 0, Blank, n) /\ r[n + 5] = CR /\ r[n + 6] = LF

LEMMA NothingRead == Replies!NoReply \in Parsers /\ Replies!NoReply = Reading("init", FALSE)
BY DEF Replies!NoReply, Parsers, States, Reading

\* A reply of one line is complete at its line end and stays so.
LEMMA OneLineRead ==
  ASSUME NEW r, NEW n \in Nat, OneLine(r, n)
  PROVE  \E f : Understood(f, r, n + 6)
<1>1. /\ r \in Seq(Letters) /\ Len(r) \in Nat /\ n + 6 <= Len(r)
      /\ LineAt(r, 0, Blank, n) /\ r[n + 5] = CR /\ r[n + 6] = LF
  BY LenProperties DEF OneLine
<1>2. PICK f : Parses(f, Replies!NoReply, r)  BY <1>1, NothingRead, ParseSteps
<1>3. f[0] = Reading("init", FALSE)  BY <1>2, NothingRead DEF Parses
<1> DEFINE e1 == n + 4
           e2 == n + 5
           e3 == n + 6
<1>4. /\ e1 \in Nat /\ e2 \in Nat /\ e3 \in Nat /\ e1 = 0 + n + 4
      /\ e2 - 1 = e1 /\ e3 - 1 = e2 /\ e1 <= Len(r)
      /\ e2 \in 1 .. Len(r) /\ e3 \in 1 .. Len(r)
  BY <1>1
<1>5. /\ r[e2] = CR /\ r[e3] = LF
      /\ \A k \in 1 .. Len(r) : f[k] = Replies!Read(f[k - 1], r[k])
  BY <1>1, <1>2 DEF Parses
<1> HIDE DEF e1, e2, e3
<1>6. TextRead(f, 0, e1, FALSE)
  BY <1>1, <1>2, <1>3, <1>4, LineRead
<1>7. f[e2] = Reading("cr", FALSE)
  <2>1. f[e2] = Replies!Read(Reading("message", FALSE), CR)
    BY <1>4, <1>5, <1>6 DEF TextRead
  <2> QED  BY <2>1, InText
<1>8. f[e3] = HasRead
  <2>1. f[e3] = Replies!Read(Reading("cr", FALSE), LF)
    BY <1>4, <1>5, <1>7
  <2> QED  BY <2>1, LineEnds
<1> DEFINE T == {i \in Nat : e3 + i <= Len(r) => f[e3 + i] = HasRead}
<1>9. ASSUME NEW i \in T PROVE i + 1 \in T
  <2> SUFFICES ASSUME e3 + (i + 1) <= Len(r) PROVE f[e3 + (i + 1)] = HasRead
    OBVIOUS
  <2> DEFINE k == e3 + i
             m == e3 + (i + 1)
  <2>1. i \in Nat /\ m - 1 = k /\ m \in 1 .. Len(r) /\ f[k] = HasRead  BY <1>1, <1>4
  <2> HIDE DEF k, m, T
  <2>2. f[m] = Replies!Read(HasRead, r[m])  BY <2>1, <1>5
  <2>3. f[m] = HasRead  BY <2>2, NothingBehind
  <2> QED  BY <2>3 DEF m
<1>10. \A i \in Nat : i \in T
  <2>1. 0 \in T  BY <1>4, <1>8
  <2>2. T \in SUBSET Nat  OBVIOUS
  <2> HIDE DEF T
  <2> QED  BY <2>1, <2>2, <1>9, Induction
<1>11. HasRead.result = "true" /\ Reading("cr", FALSE).result = "more"
  BY InReading DEF HasRead
<1>12. ASSUME NEW k \in 1 .. Len(r)
       PROVE  f[k].result = IF k >= e3 THEN "true" ELSE "more"
  <2>1. CASE k >= e3
    <3> DEFINE i == k - e3
    <3>1. i \in Nat /\ e3 + i = k /\ k <= Len(r)  BY <2>1, <1>1, <1>4
    <3> HIDE DEF i
    <3>2. i \in T  BY <3>1, <1>10
    <3>3. f[k] = HasRead  BY <3>1, <3>2
    <3> QED  BY <2>1, <3>3, <1>11
  <2>2. CASE k = e2
    <3>1. ~(k >= e3)  BY <2>2, <1>4
    <3> QED  BY <3>1, <2>2, <1>7, <1>11
  <2>3. CASE k < e2
    <3>1. k \in 0 .. e1 /\ ~(k >= e3)  BY <2>3, <1>4
    <3> QED  BY <3>1, <1>6 DEF TextRead
  <2>4. k >= e3 \/ k = e2 \/ k < e2  BY <1>4
  <2> QED  BY <2>1, <2>2, <2>3, <2>4
<1> QED  BY <1>2, <1>12 DEF Understood, e3

\* A reply of two lines, the first of which has n characters of text and no CR.
TwoLines(r, n, m) ==
  /\ r \in Seq(Letters) /\ Len(r) = n + m + 11
  /\ LineAt(r, 0, "-", n) /\ r[n + 5] = LF
  /\ LineAt(r, n + 5, Blank, m) /\ r[n + m + 10] = CR /\ r[n + m + 11] = LF

\* A reply of two lines is complete at the second line end.
LEMMA TwoLinesRead ==
  ASSUME NEW r, NEW n \in Nat, NEW m \in Nat, TwoLines(r, n, m)
  PROVE  \E f : Understood(f, r, Len(r))
<1>1. /\ r \in Seq(Letters) /\ Len(r) = n + m + 11
      /\ LineAt(r, 0, "-", n) /\ r[n + 5] = LF
      /\ LineAt(r, n + 5, Blank, m) /\ r[n + m + 10] = CR /\ r[n + m + 11] = LF
  BY DEF TwoLines
<1>2. PICK f : Parses(f, Replies!NoReply, r)  BY <1>1, NothingRead, ParseSteps
<1>3. f[0] = Reading("init", FALSE)  BY <1>2, NothingRead DEF Parses
<1> DEFINE e1 == n + 4
           e2 == n + 5
           e3 == n + m + 9
           e4 == n + m + 10
           e5 == n + m + 11
<1>4. /\ Len(r) \in Nat /\ e1 \in Nat /\ e2 \in Nat /\ e3 \in Nat /\ e4 \in Nat /\ e5 = Len(r)
      /\ e1 = 0 + n + 4 /\ e2 - 1 = e1 /\ e3 = e2 + m + 4 /\ e4 - 1 = e3 /\ e5 - 1 = e4
      /\ e1 <= Len(r) /\ e3 <= Len(r)
      /\ e2 \in 1 .. Len(r) /\ e4 \in 1 .. Len(r) /\ e5 \in 1 .. Len(r)
  BY <1>1
<1>5. /\ r[e2] = LF /\ LineAt(r, e2, Blank, m) /\ r[e4] = CR /\ r[e5] = LF
      /\ \A k \in 1 .. Len(r) : f[k] = Replies!Read(f[k - 1], r[k])
  BY <1>1, <1>2 DEF Parses
<1> HIDE DEF e1, e2, e3, e4, e5
<1>6. TextRead(f, 0, e1, TRUE)
  BY <1>1, <1>2, <1>3, <1>4, LineRead
<1>7. f[e2] = Reading("digit1", TRUE)
  <2>1. f[e2] = Replies!Read(Reading("message", TRUE), LF)
    BY <1>4, <1>5, <1>6 DEF TextRead
  <2> QED  BY <2>1, LineEnds
<1>8. TextRead(f, e2, e3, FALSE)
  BY <1>1, <1>2, <1>4, <1>5, <1>7, LineRead
<1>9. f[e4] = Reading("cr", FALSE)
  <2>1. f[e4] = Replies!Read(Reading("message", FALSE), CR)
    BY <1>4, <1>5, <1>8 DEF TextRead
  <2> QED  BY <2>1, InText
<1>10. f[e5] = HasRead
  <2>1. f[e5] = Replies!Read(Reading("cr", FALSE), LF)
    BY <1>4, <1>5, <1>9
  <2> QED  BY <2>1, LineEnds
<1>11. HasRead.result = "true" /\ Reading("cr", FALSE).result = "more"
  BY InReading DEF HasRead
<1>12. ASSUME NEW k \in 1 .. Len(r)
       PROVE  f[k].result = IF k >= Len(r) THEN "true" ELSE "more"
  <2>1. CASE k = e5
    BY <2>1, <1>4, <1>10, <1>11
  <2>2. CASE k = e4
    <3>1. ~(k >= Len(r))  BY <2>2, <1>4
    <3> QED  BY <3>1, <2>2, <1>9, <1>11
  <2>3. CASE k < e4
    <3>1. k \in 0 .. e1 \/ k \in e2 .. e3  BY <2>3, <1>4
    <3>2. ~(k >= Len(r))  BY <2>3, <1>4
    <3> QED  BY <3>1, <3>2, <1>6, <1>8 DEF TextRead
  <2>4. k = e5 \/ k = e4 \/ k < e4  BY <1>4
  <2> QED  BY <2>1, <2>2, <2>3, <2>4
<1> QED  BY <1>2, <1>12 DEF Understood

-----------------------------------------------------------------------------
(* The replies. *)

LEMMA NothingJoined == FlattenSeq(<<>>) = <<>>
BY DEF FlattenSeq

\* The first piece, and the others joined.
LEMMA FirstJoined ==
  ASSUME NEW S, NEW s \in Seq(Seq(S)), s # <<>>
  PROVE  /\ FlattenSeq(s) \in Seq(S) /\ FlattenSeq(Tail(s)) \in Seq(S)
         /\ FlattenSeq(s) = Head(s) \o FlattenSeq(Tail(s))
<1> DEFINE t == Tail(s)
<1>1. /\ Len(s) \in Nat /\ Len(s) # 0 /\ \A k \in 1 .. Len(s) : s[k] \in Seq(S)
      /\ t \in Seq(Seq(S)) /\ Len(t) = Len(s) - 1 /\ \A k \in 1 .. Len(t) : t[k] = s[k + 1]
      /\ Head(s) = s[1] /\ s[1] \in Seq(S)
  BY LenProperties, EmptySeq, HeadTailProperties
<1> HIDE DEF t
<1>2. PICK f : Joins(f, s)  BY JoinSteps
<1>3. \A k \in 1 .. Len(s) : f[k] \in Seq(S)  BY <1>2, JoinsType
<1>4. FlattenSeq(s) = f[Len(s)] /\ f[Len(s)] \in Seq(S) /\ f[1] = s[1]
  <2>1. Len(s) \in 1 .. Len(s)  BY <1>1
  <2> QED  BY <2>1, <1>2, <1>3 DEF Joins
<1>5. CASE t = <<>>
  <2>1. Len(s) = 1 /\ FlattenSeq(t) = <<>>
    <3>1. Len(t) = 0  BY <1>5, EmptySeq
    <3> QED  BY <3>1, <1>1, <1>5, NothingJoined
  <2>2. s[1] \o <<>> = s[1] /\ <<>> \in Seq(S)  BY <1>1, ConcatEmptySeq, EmptySeq
  <2> QED  BY <2>1, <2>2, <1>1, <1>4 DEF t
<1>6. CASE t # <<>>
  <2>1. PICK g : Joins(g, t)  BY <1>1, <1>6, JoinSteps
  <2>2. \A k \in 1 .. Len(t) : g[k] \in Seq(S)  BY <1>1, <1>6, <2>1, JoinsType
  <2>3. Len(t) \in Nat /\ Len(t) # 0  BY <1>1, <1>6, EmptySeq
  <2> DEFINE Good(k) == f[k + 1] = s[1] \o g[k]
             T == {k \in Nat : k \in 1 .. Len(t) => Good(k)}
  <2>4. Good(1)
    <3> DEFINE m == 1 + 1
    <3>1. m \in 2 .. Len(s) /\ m - 1 = 1 /\ 1 \in 1 .. Len(t)  BY <1>1, <2>3
    <3>2. t[1] = s[m] /\ g[1] = t[1]  BY <3>1, <1>1, <2>1 DEF Joins
    <3> HIDE DEF m
    <3>3. f[m] = f[m - 1] \o s[m]  BY <3>1, <1>2 DEF Joins
    <3>4. f[m] = s[1] \o g[1]  BY <3>1, <3>2, <3>3, <1>4
    <3> QED  BY <3>4 DEF m
  <2>5. ASSUME NEW k \in Nat, k \in 1 .. Len(t), Good(k), k + 1 \in 1 .. Len(t)
        PROVE  Good(k + 1)
    <3> DEFINE l == k + 1
               n == l + 1
    <3>1. /\ n \in 2 .. Len(s) /\ n - 1 = l /\ l \in 2 .. Len(t) /\ l - 1 = k
          /\ l \in 1 .. Len(t) /\ n \in 1 .. Len(s)
      BY <2>5, <1>1, <2>3
    <3>2. t[l] = s[n]  BY <3>1, <1>1
    <3>3. f[l] = s[1] \o g[k]  BY <2>5
    <3> HIDE DEF l, n, Good
    <3>4. f[n] = f[l] \o s[n]  BY <3>1, <1>2 DEF Joins
    <3>5. g[l] = g[k] \o t[l]  BY <3>1, <2>1 DEF Joins
    <3>6. s[n] \in Seq(S) /\ g[k] \in Seq(S)  BY <3>1, <1>1, <2>2, <2>5
    <3>7. (s[1] \o g[k]) \o s[n] = s[1] \o (g[k] \o s[n])
      <4> DEFINE a == s[1]
                 b == g[k]
                 c == s[n]
      <4>1. a \in Seq(S) /\ b \in Seq(S) /\ c \in Seq(S)  BY <3>6, <1>1
      <4> HIDE DEF a, b, c
      <4>2. (a \o b) \o c = a \o (b \o c)  BY <4>1, JoinsAssociate, SMTT(30)
      <4> QED  BY <4>2 DEF a, b, c
    <3>8. f[n] = s[1] \o g[l]  BY <3>2, <3>3, <3>4, <3>5, <3>7
    <3> QED  BY <3>8 DEF l, n, Good
  <2>6. \A k \in Nat : k \in T
    <3> HIDE DEF Good
    <3>1. T \in SUBSET Nat /\ 0 \in T  OBVIOUS
    <3>2. ASSUME NEW k \in T PROVE k + 1 \in T
      <4>1. k \in Nat /\ k + 1 \in Nat /\ (k \in 1 .. Len(t) => Good(k))  OBVIOUS
      <4> SUFFICES ASSUME k + 1 \in 1 .. Len(t) PROVE Good(k + 1)
        BY <4>1
      <4>2. CASE k = 0
        <5>1. k + 1 = 1  BY <4>2
        <5> QED  BY <5>1, <2>4
      <4>3. CASE k # 0
        <5>1. k \in 1 .. Len(t)  BY <4>1, <4>3, <2>3
        <5> QED  BY <4>1, <5>1, <2>5
      <4> QED  BY <4>2, <4>3
    <3> HIDE DEF T
    <3> QED  BY <3>1, <3>2, Induction
  <2>7. f[Len(s)] = s[1] \o g[Len(t)]
    <3> DEFINE k == Len(t)
    <3>1. k \in Nat /\ k \in 1 .. Len(t) /\ k + 1 = Len(s)  BY <1>1, <2>3
    <3>2. k \in T  BY <3>1, <2>6
    <3>3. Good(k)  BY <3>1, <3>2
    <3> HIDE DEF k
    <3> QED  BY <3>1, <3>3 DEF k
  <2>8. FlattenSeq(t) = g[Len(t)] /\ g[Len(t)] \in Seq(S)
    <3>1. Len(t) \in 1 .. Len(t)  BY <2>3
    <3> QED  BY <3>1, <2>1, <2>2 DEF Joins
  <2> QED  BY <2>7, <2>8, <1>1, <1>4 DEF t
<1> QED  BY <1>5, <1>6

\* s stands in r behind place o.
HoldsAt(r, o, s) == \A i \in 1 .. Len(s) : r[o + i] = s[i]

LEMMA PartsHeld ==
  ASSUME NEW S, NEW s \in Seq(S), NEW t \in Seq(S), NEW r, NEW o \in Nat, HoldsAt(r, o, s \o t)
  PROVE  HoldsAt(r, o, s) /\ HoldsAt(r, o + Len(s), t)
<1> DEFINE u == s \o t
<1>1. /\ Len(s) \in Nat /\ Len(t) \in Nat /\ Len(u) = Len(s) + Len(t)
      /\ \A i \in 1 .. Len(s) + Len(t) : u[i] = IF i <= Len(s) THEN s[i] ELSE t[i - Len(s)]
  BY LenProperties, ConcatProperties
<1>2. \A i \in 1 .. Len(u) : r[o + i] = u[i]  BY DEF HoldsAt
<1> HIDE DEF u
<1>3. ASSUME NEW i \in 1 .. Len(s) PROVE r[o + i] = s[i]
  <2>1. i \in 1 .. Len(u) /\ i \in 1 .. Len(s) + Len(t) /\ i <= Len(s)  BY <1>1
  <2> QED  BY <2>1, <1>1, <1>2
<1>4. ASSUME NEW i \in 1 .. Len(t) PROVE r[o + Len(s) + i] = t[i]
  <2> DEFINE k == Len(s) + i
  <2>1. /\ k \in 1 .. Len(u) /\ k \in 1 .. Len(s) + Len(t) /\ ~(k <= Len(s))
        /\ k - Len(s) = i /\ o + k = o + Len(s) + i
    BY <1>1
  <2> HIDE DEF k
  <2>2. u[k] = t[i]  BY <2>1, <1>1
  <2>3. r[o + k] = u[k]  BY <2>1, <1>2
  <2> QED  BY <2>1, <2>2, <2>3
<1> QED  BY <1>3, <1>4 DEF HoldsAt

LEMMA AllHeld ==
  ASSUME NEW r
  PROVE  HoldsAt(r, 0, r)
BY DEF HoldsAt

LEMMA LineHeld ==
  ASSUME NEW r, NEW o \in Nat, NEW n \in Nat, NEW c \in Letters,
         HoldsAt(r, o, <<"d", "d", "d", c>> \o [i \in 1 .. n |-> "x"])
  PROVE  LineAt(r, o, c, n)
<1> DEFINE code == <<"d", "d", "d", c>>
           text == [i \in 1 .. n |-> "x"]
<1>1. /\ code \in Seq(Letters) /\ Len(code) = 4
      /\ code[1] = "d" /\ code[2] = "d" /\ code[3] = "d" /\ code[4] = c
  <2>1. "d" \in Letters  BY DEF Letters
  <2>2. code \in Seq(Letters) /\ Len(code) = 4  BY <2>1, FourLetters
  <2> QED  BY <2>2
<1>2. text \in Seq(Letters) /\ Len(text) = n /\ \A i \in 1 .. n : text[i] = "x"
  BY Xs
<1> HIDE DEF code, text
<1>3. HoldsAt(r, o, code) /\ HoldsAt(r, o + 4, text)
  <2>1. HoldsAt(r, o, code \o text)  BY DEF code, text
  <2> QED  BY <2>1, <1>1, <1>2, PartsHeld
<1>4. r[o + 1] = "d" /\ r[o + 2] = "d" /\ r[o + 3] = "d" /\ r[o + 4] = c
  <2>1. 1 \in 1 .. 4 /\ 2 \in 1 .. 4 /\ 3 \in 1 .. 4 /\ 4 \in 1 .. 4  OBVIOUS
  <2> QED  BY <2>1, <1>1, <1>3 DEF HoldsAt
<1>5. ASSUME NEW k \in o + 5 .. o + n + 4 PROVE r[k] = "x"
  <2> DEFINE i == k - (o + 4)
  <2>1. i \in 1 .. n /\ o + 4 + i = k  OBVIOUS
  <2> HIDE DEF i
  <2>2. r[o + 4 + i] = text[i]  BY <2>1, <1>2, <1>3 DEF HoldsAt
  <2> QED  BY <2>1, <2>2, <1>2
<1> QED  BY <1>4, <1>5 DEF LineAt

LEMMA BlankLetter == Blank \in Letters /\ "-" \in Letters /\ LF \in Letters /\ CR \in Letters
BY Zenon DEF Blank, Letters

LEMMA LastLineHeld ==
  ASSUME NEW r, NEW o \in Nat, NEW n \in Nat, HoldsAt(r, o, Line(n) \o Eol)
  PROVE  LineAt(r, o, Blank, n) /\ r[o + n + 5] = CR /\ r[o + n + 6] = LF
<1> DEFINE l == Line(n)
<1>1. l = <<"d", "d", "d", Blank>> \o [i \in 1 .. n |-> "x"]  BY Zenon DEF Line, Blank
<1>2. l \in Seq(Letters) /\ Len(l) = n + 4  BY LineLength
<1>3. Eol \in Seq(Letters) /\ Len(Eol) = 2 /\ Eol[1] = CR /\ Eol[2] = LF
  <2>1. Eol[1] = CR /\ Eol[2] = LF  BY DEF Eol
  <2> QED  BY <2>1, EolLength
<1> HIDE DEF l
<1>4. HoldsAt(r, o, l) /\ HoldsAt(r, o + (n + 4), Eol)
  <2>1. HoldsAt(r, o, l \o Eol)  BY DEF l
  <2>2. HoldsAt(r, o, l) /\ HoldsAt(r, o + Len(l), Eol)
    BY <2>1, <1>2, <1>3, PartsHeld
  <2> QED  BY <2>2, <1>2
<1>5. LineAt(r, o, Blank, n)  BY <1>1, <1>4, LineHeld, BlankLetter
<1>6. r[o + (n + 4) + 1] = CR /\ r[o + (n + 4) + 2] = LF
  <2>1. 1 \in 1 .. 2 /\ 2 \in 1 .. 2  OBVIOUS
  <2> QED  BY <2>1, <1>3, <1>4 DEF HoldsAt
<1>7. o + (n + 4) + 1 = o + n + 5 /\ o + (n + 4) + 2 = o + n + 6  OBVIOUS
<1> QED  BY <1>5, <1>6, <1>7

\* A reply, of one line or of two, and what there may be behind it.
GoodReply(r, e) == \E f : Understood(f, r, e)

LEMMA OneLineGood ==
  ASSUME NEW n \in Nat, NEW t \in Seq(Letters)
  PROVE  GoodReply((Line(n) \o Eol) \o t, n + 6)
<1> DEFINE l == Line(n) \o Eol
           r == l \o t
<1>1. l \in Seq(Letters) /\ Len(l) = n + 6  BY LineEnded
<1>2. HoldsAt(r, 0, l)
  <2> HIDE DEF l
  <2>1. HoldsAt(r, 0, r)  BY AllHeld
  <2> QED  BY <2>1, <1>1, PartsHeld
<1>3. LineAt(r, 0, Blank, n) /\ r[0 + n + 5] = CR /\ r[0 + n + 6] = LF
  <2> HIDE DEF r
  <2>1. 0 \in Nat  OBVIOUS
  <2> QED  BY <2>1, <1>2, LastLineHeld
<1>4. r \in Seq(Letters) /\ n + 6 <= Len(r)
  <2> HIDE DEF l
  <2>1. r \in Seq(Letters) /\ Len(r) = Len(l) + Len(t) /\ Len(t) \in Nat
    BY <1>1, ConcatProperties, LenProperties
  <2> QED  BY <2>1, <1>1
<1>5. 0 + n + 5 = n + 5 /\ 0 + n + 6 = n + 6  OBVIOUS
<1> HIDE DEF r
<1>6. OneLine(r, n)  BY <1>3, <1>4, <1>5 DEF OneLine
<1>7. GoodReply(r, n + 6)  BY <1>6, OneLineRead DEF GoodReply
<1> QED  BY <1>7 DEF r

\* What a reply is followed by: nothing, or a second line end.
Answers(r, e) ==
  /\ r \in Seq(Letters) /\ GoodReply(r, e)
  /\ e = Len(r)

AnswersLate(r, e) ==
  /\ r \in Seq(Letters) /\ GoodReply(r, e)
  /\ e \in Nat /\ Len(r) = e + 2 /\ r[e + 1] = CR /\ r[e + 2] = LF

LEMMA CommandReplyJoined ==
  ASSUME NEW msg \in Seq(Letters)
  PROVE  FlattenSeq(CommandReply(msg)) = msg \o Eol
<1>1. Flush \in Seq(Letters) /\ Eol \in Seq(Letters) /\ Flush = <<>>
  BY EmptySeq, EolLength DEF Flush
<1>2. /\ <<msg, Eol, Flush>> \in Seq(Seq(Letters)) /\ <<Eol, Flush>> \in Seq(Seq(Letters))
      /\ <<Flush>> \in Seq(Seq(Letters))
      /\ Head(<<msg, Eol, Flush>>) = msg /\ Tail(<<msg, Eol, Flush>>) = <<Eol, Flush>>
      /\ Head(<<Eol, Flush>>) = Eol /\ Tail(<<Eol, Flush>>) = <<Flush>>
      /\ Head(<<Flush>>) = Flush /\ Tail(<<Flush>>) = <<>>
      /\ Len(<<msg, Eol, Flush>>) = 3 /\ Len(<<Eol, Flush>>) = 2 /\ Len(<<Flush>>) = 1
      /\ Len(<<>>) = 0
  BY <1>1, Singletons
<1>3. /\ <<msg, Eol, Flush>> # <<>> /\ <<Eol, Flush>> # <<>> /\ <<Flush>> # <<>>
  OBVIOUS
<1>4. FlattenSeq(<<Flush>>) = <<>>
  <2>1. FlattenSeq(<<Flush>>) = Flush \o FlattenSeq(<<>>)  BY <1>2, <1>3, FirstJoined
  <2> QED  BY <2>1, <1>1, NothingJoined, ConcatEmptySeq
<1>5. FlattenSeq(<<Eol, Flush>>) = Eol
  <2>1. FlattenSeq(<<Eol, Flush>>) = Eol \o FlattenSeq(<<Flush>>)
    BY <1>2, <1>3, FirstJoined
  <2> QED  BY <2>1, <1>1, <1>4, ConcatEmptySeq
<1>6. FlattenSeq(<<msg, Eol, Flush>>) = msg \o Eol
  <2>1. FlattenSeq(<<msg, Eol, Flush>>) = msg \o FlattenSeq(<<Eol, Flush>>)
    BY <1>2, <1>3, FirstJoined
  <2> QED  BY <2>1, <1>5
<1> QED  BY <1>6 DEF CommandReply

LEMMA OneLineAnswers ==
  ASSUME NEW n \in Nat
  PROVE  \E e : Answers(Line(n) \o Eol, e)
<1> DEFINE l == Line(n) \o Eol
<1>1. l \in Seq(Letters) /\ Len(l) = n + 6  BY LineEnded
<1>2. GoodReply(l \o <<>>, n + 6)  BY EmptySeq, OneLineGood
<1> HIDE DEF l
<1>3. l \o <<>> = l  BY <1>1, ConcatEmptySeq
<1>4. Answers(l, n + 6)  BY <1>1, <1>2, <1>3 DEF Answers
<1> QED  BY <1>4 DEF l

\* The replies of session.h, each of which is one that the parser understands.
LEMMA GoAnswers == \E e : Answers(FlattenSeq(Go), e)
<1>1. 44 \in Nat /\ Line(44) \in Seq(Letters)  BY LineLength
<1>2. FlattenSeq(Go) = Line(44) \o Eol  BY <1>1, CommandReplyJoined DEF Go
<1> QED  BY <1>1, <1>2, OneLineAnswers

LEMMA OkAnswers == \E e : Answers(FlattenSeq(Ok), e)
<1>1. 2 \in Nat /\ Line(2) \in Seq(Letters)  BY LineLength
<1>2. FlattenSeq(Ok) = Line(2) \o Eol  BY <1>1, CommandReplyJoined DEF Ok
<1> QED  BY <1>1, <1>2, OneLineAnswers

LEMMA RefusalAnswers == \E e : AnswersLate(FlattenSeq(Refusal), e)
<1> DEFINE l == Line(17) \o Eol
           r == l \o Eol
           e == 17 + 6
<1>1. l \in Seq(Letters) /\ Len(l) = e /\ e \in Nat
  <2>1. 17 \in Nat  OBVIOUS
  <2> QED  BY <2>1, LineEnded
<1>2. Eol \in Seq(Letters) /\ Len(Eol) = 2 /\ Eol[1] = CR /\ Eol[2] = LF
  <2>1. Eol[1] = CR /\ Eol[2] = LF  BY DEF Eol
  <2> QED  BY <2>1, EolLength
<1>3. FlattenSeq(Refusal) = r  BY <1>1, CommandReplyJoined DEF Refusal
<1>4. GoodReply(r, e)
  <2>1. 17 \in Nat  OBVIOUS
  <2> QED  BY <2>1, <1>2, OneLineGood
<1> HIDE DEF l, e
<1>5. r \in Seq(Letters) /\ Len(r) = e + 2
  <2>1. r \in Seq(Letters) /\ Len(r) = Len(l) + Len(Eol)  BY <1>1, <1>2, Joined, Zenon
  <2> QED  BY <2>1, <1>1, <1>2
<1>6. HoldsAt(r, 0 + Len(l), Eol)
  <2>1. HoldsAt(r, 0, r)  BY AllHeld
  <2>2. 0 \in Nat  OBVIOUS
  <2> QED  BY <2>1, <2>2, <1>1, <1>2, PartsHeld
<1>7. r[e + 1] = CR /\ r[e + 2] = LF
  <2>1. 0 + Len(l) = e /\ 1 \in 1 .. 2 /\ 2 \in 1 .. 2  BY <1>1
  <2>2. HoldsAt(r, e, Eol)  BY <2>1, <1>6
  <2> HIDE DEF r
  <2> QED  BY <2>1, <2>2, <1>2 DEF HoldsAt
<1>8. AnswersLate(r, e)  BY <1>1, <1>4, <1>5, <1>7 DEF AnswersLate
<1> QED  BY <1>3, <1>8

LEMMA GreetingAnswers == \E e : Answers(FlattenSeq(Greeting), e)
<1> DEFINE l == Line(14) \o Eol
<1>1. l \in Seq(Letters)
  <2>1. 14 \in Nat  OBVIOUS
  <2> QED  BY <2>1, LineEnded
<1>2. \E e : Answers(l, e)
  <2>1. 14 \in Nat  OBVIOUS
  <2> QED  BY <2>1, OneLineAnswers
<1> HIDE DEF l
<1>3. <<l>> \in Seq(Seq(Letters)) /\ Head(<<l>>) = l /\ Tail(<<l>>) = <<>> /\ <<l>> # <<>>
  BY <1>1, Singletons
<1>4. FlattenSeq(<<l>>) = l
  <2>1. FlattenSeq(<<l>>) = l \o FlattenSeq(<<>>)  BY <1>3, FirstJoined
  <2> QED  BY <2>1, <1>1, NothingJoined, ConcatEmptySeq
<1> QED  BY <1>2, <1>4 DEF Greeting, l

LEMMA ForeignGreetingAnswers == \E e : Answers(FlattenSeq(ForeignGreeting), e)
<1> DEFINE c == <<"d", "d", "d", "-">> \o [i \in 1 .. 7 |-> "x"]
           t == c \o <<LF>>
           u == Line(6) \o Eol
           r == t \o u
<1>1. c \in Seq(Letters) /\ Len(c) = 11
  <2> DEFINE a == <<"d", "d", "d", "-">>
             b == [i \in 1 .. 7 |-> "x"]
  <2>1. a \in Seq(Letters) /\ Len(a) = 4
    <3>1. "d" \in Letters  BY DEF Letters
    <3> QED  BY <3>1, BlankLetter, FourLetters
  <2>2. b \in Seq(Letters) /\ Len(b) = 7  BY Xs
  <2> HIDE DEF a, b
  <2>3. a \o b \in Seq(Letters) /\ Len(a \o b) = Len(a) + Len(b)
    BY <2>1, <2>2, Joined, Zenon
  <2>4. a \o b \in Seq(Letters) /\ Len(a \o b) = 11  BY <2>1, <2>2, <2>3
  <2> QED  BY <2>4 DEF a, b
<1>2. <<LF>> \in Seq(Letters) /\ Len(<<LF>>) = 1 /\ <<LF>>[1] = LF
  BY BlankLetter
<1>3. u \in Seq(Letters) /\ Len(u) = 12
  <2>1. 6 \in Nat  OBVIOUS
  <2>2. u \in Seq(Letters) /\ Len(u) = 6 + 6  BY <2>1, LineEnded
  <2> QED  BY <2>2
<1>4. ForeignGreeting = <<t, u, Flush>>  BY DEF ForeignGreeting
<1> HIDE DEF c, u
<1>5. t \in Seq(Letters) /\ Len(t) = 12
  <2>1. t \in Seq(Letters) /\ Len(t) = Len(c) + Len(<<LF>>)
    BY <1>1, <1>2, Joined, Zenon
  <2> QED  BY <2>1, <1>1, <1>2
<1>6. FlattenSeq(<<t, u, Flush>>) = r
  <2> HIDE DEF t
  <2>1. Flush \in Seq(Letters) /\ Flush = <<>>  BY EmptySeq DEF Flush
  <2>2. /\ <<t, u, Flush>> \in Seq(Seq(Letters)) /\ <<u, Flush>> \in Seq(Seq(Letters))
        /\ <<Flush>> \in Seq(Seq(Letters))
        /\ Head(<<t, u, Flush>>) = t /\ Tail(<<t, u, Flush>>) = <<u, Flush>>
        /\ Head(<<u, Flush>>) = u /\ Tail(<<u, Flush>>) = <<Flush>>
        /\ Head(<<Flush>>) = Flush /\ Tail(<<Flush>>) = <<>>
    BY <2>1, <1>3, <1>5, Singletons
  <2>3. /\ <<t, u, Flush>> # <<>> /\ <<u, Flush>> # <<>> /\ <<Flush>> # <<>>
    OBVIOUS
  <2>4. FlattenSeq(<<Flush>>) = <<>>
    <3>1. FlattenSeq(<<Flush>>) = Flush \o FlattenSeq(<<>>)  BY <2>2, <2>3, FirstJoined
    <3> QED  BY <3>1, <2>1, NothingJoined, ConcatEmptySeq
  <2>5. FlattenSeq(<<u, Flush>>) = u
    <3>1. FlattenSeq(<<u, Flush>>) = u \o FlattenSeq(<<Flush>>)
      BY <2>2, <2>3, FirstJoined
    <3> QED  BY <3>1, <1>3, <2>4, ConcatEmptySeq
  <2>6. FlattenSeq(<<t, u, Flush>>) = t \o FlattenSeq(<<u, Flush>>)
    BY <2>2, <2>3, FirstJoined
  <2> QED  BY <2>5, <2>6
<1>7. r \in Seq(Letters) /\ Len(r) = 24
  <2> HIDE DEF t
  <2>1. r \in Seq(Letters) /\ Len(r) = Len(t) + Len(u)  BY <1>3, <1>5, Joined, Zenon
  <2> QED  BY <2>1, <1>3, <1>5
<1>8. HoldsAt(r, 0, t) /\ HoldsAt(r, 12, u)
  <2> HIDE DEF t
  <2>1. HoldsAt(r, 0, r) /\ 0 \in Nat  BY AllHeld
  <2>2. HoldsAt(r, 0, t) /\ HoldsAt(r, 0 + Len(t), u)
    BY <2>1, <1>3, <1>5, PartsHeld
  <2>3. 0 + Len(t) = 12  BY <1>5
  <2> QED  BY <2>2, <2>3
<1> HIDE DEF r
<1>9. HoldsAt(r, 0, c) /\ HoldsAt(r, 11, <<LF>>)
  <2>1. HoldsAt(r, 0, c) /\ HoldsAt(r, 0 + Len(c), <<LF>>)
    BY <1>1, <1>2, <1>8, PartsHeld
  <2>2. 0 + Len(c) = 11  BY <1>1
  <2> QED  BY <2>1, <2>2
<1>10. LineAt(r, 0, "-", 7)
  <2>1. 0 \in Nat /\ 7 \in Nat  OBVIOUS
  <2> QED  BY <2>1, <1>9, BlankLetter, LineHeld DEF c
<1>11. r[12] = LF
  <2>1. 1 \in 1 .. Len(<<LF>>) /\ 11 + 1 = 12  BY <1>2
  <2>2. r[11 + 1] = <<LF>>[1]  BY <2>1, <1>9 DEF HoldsAt
  <2> QED  BY <2>1, <2>2, <1>2
<1>12. LineAt(r, 12, Blank, 6) /\ r[12 + 6 + 5] = CR /\ r[12 + 6 + 6] = LF
  <2>1. 12 \in Nat /\ 6 \in Nat  OBVIOUS
  <2> QED  BY <2>1, <1>8, LastLineHeld DEF u
<1>13. TwoLines(r, 7, 6)
  <2>1. 7 + 5 = 12 /\ 7 + 6 + 10 = 12 + 6 + 5 /\ 7 + 6 + 11 = 12 + 6 + 6 /\ 7 + 6 + 11 = 24
    OBVIOUS
  <2> QED  BY <2>1, <1>7, <1>10, <1>11, <1>12, Zenon DEF TwoLines
<1>14. Answers(r, Len(r))
  <2>1. 7 \in Nat /\ 6 \in Nat  OBVIOUS
  <2>2. GoodReply(r, Len(r))  BY <2>1, <1>13, TwoLinesRead DEF GoodReply
  <2> QED  BY <2>2, <1>7 DEF Answers
<1> QED  BY <1>4, <1>6, <1>14

-----------------------------------------------------------------------------
(* What the client has read. *)

\* The client is reading r, which is complete after e characters; f is what the
\* parser makes of it.
Awaits(r, f, e) ==
  /\ r \in Seq(Letters) /\ Understood(f, r, e) /\ parser = f[seen]
  /\ IsPrefix(inserted, r)
  /\ ~out.bad => r = inserted \o FlattenSeq(todo)
  /\ stage = "message" => r = <<>>
  /\ e = Len(r) \/ (stage = "verdict" /\ AnswersLate(r, e))

\* A reply is awaited, of which the client has read the first seen characters.
ReplyInv ==
  /\ seen \in Nat /\ seen <= Len(inserted)
  /\ session # "writes" => todo = <<>>
  /\ \E r, f, e : Awaits(r, f, e)

LEMMA PrefixElements ==
  ASSUME NEW S, NEW s \in Seq(S), NEW t \in Seq(S), IsPrefix(s, t)
  PROVE  /\ Len(s) \in Nat /\ Len(t) \in Nat /\ Len(s) <= Len(t)
         /\ \A i \in 1 .. Len(s) : s[i] = t[i]
<1>1. /\ Len(s) \in Nat /\ Len(t) \in Nat /\ Len(s) <= Len(t)
      /\ SubSeq(s, 1, Len(s)) = SubSeq(t, 1, Len(s))
  BY LenProperties DEF IsPrefix
<1>2. SubSeq(s, 1, Len(s)) = s  BY SubSeqFull
<1>3. ASSUME NEW i \in 1 .. Len(s) PROVE s[i] = t[i]
  <2>1. SubSeq(t, 1, Len(s))[i] = t[i]  BY <1>1
  <2> QED  BY <2>1, <1>1, <1>2
<1> QED  BY <1>1, <1>3

\* s is what r has from the character behind the k-th on.
PartOf(s, r, k) ==
  /\ k \in Nat /\ k + Len(s) <= Len(r)
  /\ \A i \in 1 .. Len(s) : s[i] = r[k + i]

\* What is parsed of a reply in parts is what is parsed of the whole.
LEMMA ParsedOn ==
  ASSUME NEW r \in Seq(Letters), NEW f, Parses(f, Replies!NoReply, r),
         NEW k, NEW s \in Seq(Letters), PartOf(s, r, k)
  PROVE  Replies!Parse(f[k], s) = f[k + Len(s)]
<1>1. /\ Len(r) \in Nat /\ Len(s) \in Nat /\ k \in Nat /\ k + Len(s) <= Len(r)
      /\ \A i \in 1 .. Len(s) : s[i] = r[k + i]
  BY LenProperties DEF PartOf
<1>2. f[k] \in Parsers
  <2>1. k \in 0 .. Len(r)  BY <1>1
  <2>2. \A i \in 0 .. Len(r) : f[i] \in Parsers  BY NothingRead, ParsesType
  <2> QED  BY <2>1, <2>2
<1>3. PICK g : Parses(g, f[k], s) /\ Replies!Parse(f[k], s) = g[Len(s)]
  BY <1>2, ParseSteps
<1> DEFINE Same(i) == g[i] = f[k + i]
           T == {i \in Nat : i <= Len(s) => Same(i)}
<1>4. Same(0)
  <2>1. k + 0 = k  BY <1>1
  <2> QED  BY <2>1, <1>3 DEF Parses
<1>5. ASSUME NEW i \in Nat, i + 1 <= Len(s), Same(i) PROVE Same(i + 1)
  <2> DEFINE j == i + 1
             m == k + j
  <2>1. j \in 1 .. Len(s) /\ j - 1 = i /\ m \in 1 .. Len(r) /\ m - 1 = k + i /\ m = k + j
    BY <1>1, <1>5
  <2>2. g[i] = f[k + i]  BY <1>5
  <2> HIDE DEF j, m, Same
  <2>3. s[j] = r[m]  BY <1>1, <2>1
  <2>4. g[j] = Replies!Read(g[i], s[j])  BY <2>1, <1>3 DEF Parses
  <2>5. f[m] = Replies!Read(f[k + i], r[m])  BY <2>1 DEF Parses
  <2>6. g[j] = f[m]  BY <2>2, <2>3, <2>4, <2>5
  <2> QED  BY <2>6 DEF j, m, Same
<1> HIDE DEF Same
<1>6. \A i \in Nat : i \in T
  <2>1. T \in SUBSET Nat  OBVIOUS
  <2>2. 0 \in T  BY <1>4
  <2>3. ASSUME NEW i \in T PROVE i + 1 \in T
    <3>1. i \in Nat /\ i + 1 \in Nat /\ (i <= Len(s) => Same(i))  OBVIOUS
    <3>2. i + 1 <= Len(s) => i <= Len(s)  BY <3>1, <1>1
    <3>3. i + 1 <= Len(s) => Same(i + 1)  BY <3>1, <3>2, <1>5
    <3> QED  BY <3>1, <3>3
  <2> HIDE DEF T
  <2> QED  BY <2>1, <2>2, <2>3, Induction
<1>7. Same(Len(s))
  <2>1. Len(s) \in T  BY <1>1, <1>6
  <2> QED  BY <2>1, <1>1
<1> QED  BY <1>3, <1>7 DEF Same

\* Nothing has been read of what is left to write.
NewReply ==
  /\ seen = 0 /\ parser = Replies!NoReply /\ inserted = <<>>
  /\ session # "writes" => todo = <<>>
  /\ \E e : \/ Answers(FlattenSeq(todo), e)
            \/ stage = "verdict" /\ AnswersLate(FlattenSeq(todo), e)
  /\ stage = "message" => FlattenSeq(todo) = <<>>

LEMMA NewAwaited == NewReply => ReplyInv
<1> SUFFICES ASSUME NewReply PROVE ReplyInv
  OBVIOUS
<1> DEFINE r == FlattenSeq(todo)
<1>1. PICK e : Answers(r, e) \/ (stage = "verdict" /\ AnswersLate(r, e))
  BY DEF NewReply
<1>2. r \in Seq(Letters) /\ GoodReply(r, e)  BY <1>1 DEF Answers, AnswersLate
<1>3. PICK f : Understood(f, r, e)  BY <1>2 DEF GoodReply
<1>4. /\ seen = 0 /\ parser = Replies!NoReply /\ inserted = <<>>
      /\ session # "writes" => todo = <<>>
      /\ stage = "message" => r = <<>>
  BY DEF NewReply
<1> HIDE DEF r
<1>5. parser = f[seen]  BY <1>3, <1>4 DEF Understood, Parses
<1>6. <<>> \in Seq(Letters) /\ Len(<<>>) = 0  BY EmptySeq
<1>7. r = inserted \o r  BY <1>2, <1>4, ConcatEmptySeq
<1>8. IsPrefix(inserted, r)
  <2>1. IsPrefix(inserted, inserted \o r)  BY <1>2, <1>4, <1>6, PrefixOfJoined
  <2> QED  BY <2>1, <1>7
<1>9. e = Len(r) \/ (stage = "verdict" /\ AnswersLate(r, e))  BY <1>1 DEF Answers
<1>10. ~out.bad => r = inserted \o FlattenSeq(todo)  BY <1>7 DEF r
<1>11. Awaits(r, f, e)  BY <1>2, <1>3, <1>4, <1>5, <1>8, <1>9, <1>10 DEF Awaits
<1>12. seen \in Nat /\ seen <= Len(inserted)  BY <1>4, <1>6
<1> QED  BY <1>4, <1>11, <1>12 DEF ReplyInv

LEMMA NewAwaitedNext == NewReply' => ReplyInv'
BY NewAwaited, PTL

LEMMA InitReply == Init => ReplyInv
<1> SUFFICES ASSUME Init PROVE NewReply
  BY NewAwaited
<1>1. /\ stage = "greeting" /\ session = "writes" /\ todo \in {Greeting, ForeignGreeting}
      /\ inserted = <<>> /\ seen = 0 /\ parser = Replies!NoReply
  BY DEF Init
<1>2. \E e : Answers(FlattenSeq(todo), e)
  BY <1>1, GreetingAnswers, ForeignGreetingAnswers
<1> QED  BY <1>1, <1>2 DEF NewReply

\* Steps that leave the reply as it is.
LEMMA SameReply ==
  ASSUME ReplyInv, UNCHANGED <<seen, parser, inserted, todo, stage>>,
         session' # "writes" => session # "writes" \/ todo = <<>>,
         ~out'.bad => ~out.bad
  PROVE  ReplyInv'
<1>1. PICK r, f, e : Awaits(r, f, e)  BY DEF ReplyInv
<1>2. Awaits(r, f, e)'  BY <1>1 DEF Awaits, AnswersLate
<1>3. seen' \in Nat /\ seen' <= Len(inserted') /\ (session' # "writes" => todo' = <<>>)
  BY DEF ReplyInv
<1> QED  BY <1>2, <1>3 DEF ReplyInv

LEMMA StreamReply ==
  ASSUME IInv, ReplyInv, NEW ok1 \in BOOLEAN, NEW ok2 \in BOOLEAN, Stream(ok1, ok2)
  PROVE  ReplyInv'
<1> DEFINE h == Head(todo)
           rest == FlattenSeq(Tail(todo))
<1>1. /\ session = "writes" /\ todo # <<>> /\ todo' = Tail(todo)
      /\ session' = session /\ stage' = stage /\ seen' = seen /\ parser' = parser
  BY DEF Stream, clientVars
<1>2. /\ todo \in Seq(Seq(Letters)) /\ inserted \in Seq(Letters) /\ out \in Outbufs
      /\ IsPrefix(out.sent, inserted)
  BY DEF IInv, OutTypes, OutInv
<1>3. /\ rest \in Seq(Letters) /\ FlattenSeq(todo) = h \o rest /\ h \in Seq(Letters)
      /\ inserted \o h \in Seq(Letters) /\ Len(inserted \o h) = Len(inserted) + Len(h)
      /\ Len(inserted) \in Nat /\ Len(h) \in Nat
  <2>1. h \in Seq(Letters)  BY <1>1, <1>2, HeadTailProperties
  <2>2. rest \in Seq(Letters) /\ FlattenSeq(todo) = h \o rest
    BY <1>1, <1>2, FirstJoined
  <2> HIDE DEF h, rest
  <2> QED  BY <2>1, <2>2, <1>2, Joined
<1>4. PICK r, f, e : Awaits(r, f, e)  BY DEF ReplyInv
<1>5. /\ r \in Seq(Letters) /\ Understood(f, r, e) /\ parser = f[seen]
      /\ IsPrefix(inserted, r)
      /\ ~out.bad => r = inserted \o FlattenSeq(todo)
      /\ stage = "message" => r = <<>>
      /\ e = Len(r) \/ (stage = "verdict" /\ AnswersLate(r, e))
  BY <1>4 DEF Awaits
<1>6. seen \in Nat /\ seen <= Len(inserted)  BY DEF ReplyInv
<1>7. h = Flush => out' = Sync(out, ok1) /\ inserted' = inserted  BY DEF Stream
<1>8. h # Flush /\ out.bad => out' = out /\ inserted' = inserted  BY DEF Stream
<1>9. h # Flush /\ ~out.bad => inserted' = inserted \o h  BY DEF Stream
<1> HIDE DEF h, rest
<1>10. ASSUME IsPrefix(inserted', r), ~out'.bad => r = inserted' \o rest,
              seen <= Len(inserted')
       PROVE  ReplyInv'
  <2>1. Awaits(r, f, e)'
    <3>1. ~out'.bad => r = inserted' \o FlattenSeq(todo')  BY <1>10, <1>1 DEF rest
    <3> QED  BY <3>1, <1>1, <1>5, <1>10 DEF Awaits, AnswersLate
  <2> QED  BY <2>1, <1>1, <1>6, <1>10 DEF ReplyInv
<1>11. CASE h = Flush
  <2>1. inserted' = inserted /\ out' = Sync(out, ok1)  BY <1>7, <1>11
  <2>2. ~out'.bad => ~out.bad  BY <2>1, <1>2, SyncFields
  <2>3. FlattenSeq(todo) = rest  BY <1>3, <1>11, ConcatEmptySeq DEF Flush
  <2>4. ~out'.bad => r = inserted' \o rest  BY <2>1, <2>2, <2>3, <1>5
  <2> QED  BY <2>1, <2>4, <1>5, <1>6, <1>10
<1>12. CASE h # Flush /\ out.bad
  <2>1. out' = out /\ inserted' = inserted  BY <1>8, <1>12
  <2> QED  BY <2>1, <1>5, <1>6, <1>10, <1>12
<1>13. CASE h # Flush /\ ~out.bad
  <2>1. inserted' = inserted \o h  BY <1>9, <1>13
  <2>2. r = inserted \o (h \o rest)  BY <1>3, <1>5, <1>13
  <2>3. inserted \o (h \o rest) = (inserted \o h) \o rest
    BY <1>2, <1>3, Associates, Zenon
  <2>4. r = inserted' \o rest  BY <2>1, <2>2, <2>3
  <2>5. IsPrefix(inserted', r)  BY <2>1, <2>4, <1>3, PrefixOfJoined
  <2>6. seen <= Len(inserted')  BY <2>1, <1>3, <1>6
  <2> QED  BY <2>4, <2>5, <2>6, <1>10
<1> QED  BY <1>11, <1>12, <1>13

\* The client reads some more of the reply.
LEMMA ReadMore ==
  ASSUME IInv, ReplyInv, NEW n \in 1 .. Len(out.sent), ReadReply(n)
  PROVE  ReplyInv'
<1> DEFINE s == SubSeq(out.sent, seen + 1, seen + n)
<1>1. /\ n \in 1 .. Len(out.sent) - seen /\ seen' = seen + n
      /\ parser' = Replies!Parse(parser, s)
      /\ stage' = stage /\ session' = session /\ todo' = todo
      /\ out' = out /\ inserted' = inserted
  BY DEF ReadReply, outputVars
<1>2. /\ inserted \in Seq(Letters) /\ out.sent \in Seq(Letters)
      /\ IsPrefix(out.sent, inserted)
  BY DEF IInv, OutTypes, OutInv, Outbufs
<1>3. PICK r, f, e : Awaits(r, f, e)  BY DEF ReplyInv
<1>4. /\ r \in Seq(Letters) /\ Understood(f, r, e) /\ parser = f[seen]
      /\ IsPrefix(inserted, r)
      /\ ~out.bad => r = inserted \o FlattenSeq(todo)
      /\ stage = "message" => r = <<>>
      /\ e = Len(r) \/ (stage = "verdict" /\ AnswersLate(r, e))
  BY <1>3 DEF Awaits
<1>5. seen \in Nat /\ (session # "writes" => todo = <<>>)  BY DEF ReplyInv
<1>6. /\ Len(out.sent) \in Nat /\ Len(inserted) \in Nat /\ Len(r) \in Nat
      /\ Len(out.sent) <= Len(inserted) /\ Len(inserted) <= Len(r)
      /\ \A i \in 1 .. Len(out.sent) : out.sent[i] = inserted[i]
      /\ \A i \in 1 .. Len(inserted) : inserted[i] = r[i]
  BY <1>2, <1>4, PrefixElements
<1>7. n \in Nat /\ seen + n <= Len(out.sent)  BY <1>1, <1>5, <1>6
<1>8. \A i \in seen + 1 .. seen + n : out.sent[i] \in Letters /\ i \in 1 .. Len(out.sent)
  <2> TAKE i \in seen + 1 .. seen + n
  <2>1. i \in 1 .. Len(out.sent)  BY <1>5, <1>6, <1>7
  <2> QED  BY <2>1, <1>2, ElementOfSeq
<1>9. /\ s \in Seq(Letters) /\ Len(s) = n
      /\ \A i \in 1 .. n : s[i] = out.sent[seen + i]
  <2> DEFINE a == seen + 1
             b == seen + n
  <2>1. a \in Int /\ b \in Int /\ a <= b /\ b - a + 1 = n  BY <1>1, <1>5, <1>7
  <2>2. \A i \in a .. b : out.sent[i] \in Letters  BY <1>8
  <2>3. \A i \in 1 .. n : a + i - 1 = seen + i  BY <1>5
  <2> HIDE DEF a, b
  <2>4. /\ SubSeq(out.sent, a, b) \in Seq(Letters)
        /\ Len(SubSeq(out.sent, a, b)) = IF a <= b THEN b - a + 1 ELSE 0
    BY <2>1, <2>2, SubSeqProperties
  <2>5. \A i \in 1 .. n : SubSeq(out.sent, a, b)[i] = out.sent[a + i - 1]
    BY <2>1, <1>7
  <2> QED  BY <2>1, <2>3, <2>4, <2>5 DEF a, b
<1> HIDE DEF s
<1>10. \A i \in 1 .. Len(s) : s[i] = r[seen + i]
  <2> TAKE i \in 1 .. Len(s)
  <2> DEFINE k == seen + i
  <2>1. i \in 1 .. n /\ k \in 1 .. Len(out.sent) /\ k \in 1 .. Len(inserted)
    BY <1>5, <1>6, <1>7, <1>9
  <2>2. s[i] = out.sent[k]  BY <2>1, <1>9
  <2> HIDE DEF k
  <2>3. s[i] = r[k]  BY <2>1, <2>2, <1>6
  <2> QED  BY <2>3 DEF k
<1>11. parser' = f[seen']
  <2>1. Parses(f, Replies!NoReply, r)  BY <1>4 DEF Understood
  <2>2. seen + Len(s) <= Len(r)  BY <1>5, <1>6, <1>7, <1>9
  <2>3. PartOf(s, r, seen)  BY <2>2, <1>5, <1>10 DEF PartOf
  <2>4. r \in Seq(Letters) /\ s \in Seq(Letters)  BY <1>4, <1>9
  <2>5. Replies!Parse(f[seen], s) = f[seen + Len(s)]
    BY <2>1, <2>3, <2>4, ParsedOn
  <2> QED  BY <2>5, <1>1, <1>4, <1>9
<1>12. Awaits(r, f, e)'  BY <1>1, <1>4, <1>11 DEF Awaits, AnswersLate
<1>13. seen' \in Nat /\ seen' <= Len(inserted')  BY <1>1, <1>5, <1>6, <1>7
<1> QED  BY <1>1, <1>5, <1>12, <1>13 DEF ReplyInv

\* The session answers a message.
LEMMA AnswerReply ==
  ASSUME IInv, ReplyInv, Answer
  PROVE  ReplyInv'
<1> SUFFICES NewReply'
  BY NewAwaitedNext
<1>1. /\ stage = "message" /\ stage' = "verdict" /\ session' = "writes"
      /\ todo' = Ok \/ todo' = Refusal
      /\ inserted' = inserted /\ seen' = seen /\ parser' = parser
  BY DEF Answer
<1>2. PICK r, f, e : Awaits(r, f, e)  BY DEF ReplyInv
<1>3. IsPrefix(inserted, <<>>) /\ Understood(f, <<>>, e) /\ parser = f[seen]
  BY <1>1, <1>2 DEF Awaits
<1>4. inserted \in Seq(Letters) /\ <<>> \in Seq(Letters) /\ Len(<<>>) = 0
  BY EmptySeq DEF IInv, OutTypes
<1>5. inserted = <<>>
  <2>1. Len(inserted) \in Nat /\ Len(inserted) <= 0  BY <1>3, <1>4, PrefixElements
  <2> QED  BY <2>1, <1>4, EmptySeq
<1>6. seen = 0  BY <1>4, <1>5 DEF ReplyInv
<1>7. parser = Replies!NoReply  BY <1>3, <1>6 DEF Understood, Parses
<1>8. \E d : \/ Answers(FlattenSeq(todo'), d)
             \/ stage' = "verdict" /\ AnswersLate(FlattenSeq(todo'), d)
  <2>1. CASE todo' = Ok
    BY <2>1, OkAnswers
  <2>2. CASE todo' = Refusal
    BY <2>2, <1>1, RefusalAnswers
  <2> QED  BY <2>1, <2>2, <1>1
<1> QED  BY <1>1, <1>5, <1>6, <1>7, <1>8 DEF NewReply, Answers, AnswersLate

LEMMA NextReply == IInv /\ ReplyInv /\ [Next]_vars => ReplyInv'
<1> SUFFICES ASSUME IInv, ReplyInv, [Next]_vars PROVE ReplyInv'
  OBVIOUS
<1>1. ASSUME NEW ok1 \in BOOLEAN, NEW ok2 \in BOOLEAN, Stream(ok1, ok2) PROVE ReplyInv'
  BY <1>1, StreamReply
<1>2. ASSUME NEW ok \in BOOLEAN, TurnsToRead(ok) PROVE ReplyInv'
  <2>1. /\ todo = <<>> /\ UNCHANGED <<seen, parser, inserted, todo, stage>>
        /\ out' = Sync(out, ok) \/ out' = out
    BY <1>2 DEF TurnsToRead, clientVars
  <2>2. out \in Outbufs  BY DEF IInv, OutTypes
  <2>3. ~out'.bad => ~out.bad  BY <2>1, <2>2, SyncFields
  <2> QED  BY <2>1, <2>3, SameReply
<1>3. ASSUME NEW n \in 1 .. Len(out.sent), ReadReply(n) PROVE ReplyInv'
  BY <1>3, ReadMore
<1>4. CASE SendData
  <2>1. /\ session = "reads" /\ Forgotten /\ stage' = "data"
        /\ session' = "writes" /\ todo' = Go
    BY <1>4 DEF SendData
  <2>2. inserted' = <<>>  BY <2>1, ForgottenFields
  <2>3. seen' = 0 /\ parser' = Replies!NoReply  BY <2>1 DEF Forgotten
  <2>4. NewReply'  BY <2>1, <2>2, <2>3, GoAnswers DEF NewReply, Answers, AnswersLate
  <2> QED  BY <2>4, NewAwaitedNext
<1>5. ASSUME NEW piece \in Pieces, Compose(piece) PROVE ReplyInv'
  <2>1. UNCHANGED <<seen, parser, inserted, todo, stage, session, out>>
    BY <1>5 DEF Compose, outputVars, clientVars
  <2> QED  BY <2>1, SameReply
<1>6. CASE FixMessage
  <2>1. /\ session = "reads" /\ Forgotten /\ stage' = "message"
        /\ session' = session /\ todo' = todo
    BY <1>6 DEF FixMessage, IInv, MessageInv
  <2>2. inserted' = <<>>  BY <2>1, ForgottenFields
  <2>3. seen' = 0 /\ parser' = Replies!NoReply  BY <2>1 DEF Forgotten
  <2>4. todo' = <<>> /\ FlattenSeq(todo') = <<>>
    BY <2>1, NothingJoined DEF ReplyInv
  <2>5. \E e : Answers(<<>>, e)
    <3> DEFINE f == [k \in {0} |-> Replies!NoReply]
    <3>1. <<>> \in Seq(Letters) /\ Len(<<>>) = 0  BY EmptySeq
    <3>2. f[0] = Replies!NoReply /\ \A k : k \notin 1 .. 0  OBVIOUS
    <3> HIDE DEF f
    <3>3. Understood(f, <<>>, 0)  BY <3>1, <3>2 DEF Understood, Parses
    <3>4. Answers(<<>>, 0)  BY <3>1, <3>3 DEF Answers, GoodReply
    <3> QED  BY <3>4
  <2>6. NewReply'  BY <2>1, <2>2, <2>3, <2>4, <2>5 DEF NewReply, Answers, AnswersLate
  <2> QED  BY <2>6, NewAwaitedNext
<1>7. ASSUME NEW n \in 1 .. Len(wire), ReadMessage(n) PROVE ReplyInv'
  <2>1. UNCHANGED <<seen, parser, inserted, todo, stage, session, out>>
    BY <1>7 DEF ReadMessage, outputVars, clientVars
  <2> QED  BY <2>1, SameReply
<1>8. CASE Answer
  BY <1>8, AnswerReply
<1>9. CASE UNCHANGED vars
  <2>1. UNCHANGED <<seen, parser, inserted, todo, stage, session, out>>
    BY <1>9 DEF vars, outputVars, clientVars
  <2> QED  BY <2>1, SameReply
<1> QED  BY <1>1, <1>2, <1>3, <1>4, <1>5, <1>6, <1>7, <1>8, <1>9 DEF Next

LEMMA ReplyInvariant == Spec => []ReplyInv
BY InitReply, NextReply, Invariant, PTL DEF Spec

\* What is left of a reply after k characters.
LEMMA WhatIsLeft ==
  ASSUME NEW s \in Seq(Letters), NEW t \in Seq(Letters), NEW k \in 0 .. Len(s)
  PROVE  LET rest == SubSeq(s, k + 1, Len(s)) \o t
         IN  /\ rest \in Seq(Letters) /\ Len(rest) = Len(s \o t) - k
             /\ \A i \in 1 .. Len(rest) : rest[i] = (s \o t)[k + i]
<1> DEFINE p == SubSeq(s, k + 1, Len(s))
           r == s \o t
           rest == p \o t
<1>1. /\ Len(s) \in Nat /\ Len(t) \in Nat /\ r \in Seq(Letters) /\ Len(r) = Len(s) + Len(t)
      /\ \A i \in 1 .. Len(s) + Len(t) : r[i] = IF i <= Len(s) THEN s[i] ELSE t[i - Len(s)]
  BY LenProperties, ConcatProperties
<1>2. p \in Seq(Letters) /\ Len(p) = Len(s) - k /\ \A i \in 1 .. Len(p) : p[i] = s[k + i]
  <2> DEFINE a == k + 1
             b == Len(s)
  <2>1. /\ a \in Int /\ b \in Int /\ (IF a <= b THEN b - a + 1 ELSE 0) = b - k
        /\ \A i \in a .. b : i \in 1 .. Len(s)
        /\ \A i \in 1 .. b - k : a + i - 1 = k + i /\ b - a + 1 = b - k
    BY <1>1
  <2>2. \A i \in a .. b : s[i] \in Letters  BY <2>1, ElementOfSeq
  <2> HIDE DEF a, b
  <2>3. /\ SubSeq(s, a, b) \in Seq(Letters)
        /\ Len(SubSeq(s, a, b)) = IF a <= b THEN b - a + 1 ELSE 0
    BY <2>1, <2>2, SubSeqProperties
  <2>4. \A i \in 1 .. b - k : SubSeq(s, a, b)[i] = s[a + i - 1]
    BY <2>1
  <2> QED  BY <2>1, <2>3, <2>4 DEF a, b
<1> HIDE DEF p, r
<1>3. /\ rest \in Seq(Letters) /\ Len(rest) = Len(p) + Len(t)
      /\ \A i \in 1 .. Len(p) + Len(t) : rest[i] = IF i <= Len(p) THEN p[i] ELSE t[i - Len(p)]
  <2>1. p \in Seq(Letters) /\ t \in Seq(Letters)  BY <1>2
  <2> QED  BY <2>1, JoinedElements
<1> HIDE DEF rest
<1>4. Len(rest) = Len(r) - k  BY <1>1, <1>2, <1>3
<1>5. ASSUME NEW i \in 1 .. Len(rest) PROVE rest[i] = r[k + i]
  <2> DEFINE j == k + i
  <2>1. i \in 1 .. Len(p) + Len(t) /\ j \in 1 .. Len(s) + Len(t)  BY <1>1, <1>2, <1>3
  <2>2. CASE i <= Len(p)
    <3>1. i \in 1 .. Len(p) /\ j <= Len(s)  BY <2>1, <2>2, <1>1, <1>2
    <3>2. rest[i] = p[i] /\ p[i] = s[j]  BY <3>1, <2>1, <2>2, <1>2, <1>3
    <3> HIDE DEF j
    <3>3. r[j] = s[j]  BY <3>1, <2>1, <1>1
    <3> QED  BY <3>2, <3>3 DEF j
  <2>3. CASE ~(i <= Len(p))
    <3>1. ~(j <= Len(s)) /\ j - Len(s) = i - Len(p)  BY <2>1, <2>3, <1>1, <1>2
    <3>2. rest[i] = t[i - Len(p)]  BY <2>1, <2>3, <1>3
    <3> HIDE DEF j
    <3>3. r[j] = t[j - Len(s)]  BY <3>1, <2>1, <1>1
    <3> QED  BY <3>1, <3>2, <3>3 DEF j
  <2> QED  BY <2>2, <2>3
<1> QED  BY <1>3, <1>4, <1>5 DEF p, r, rest

\* What is left of a line end.
LEMMA EndOfEol ==
  ASSUME NEW s \in Seq(Letters), Len(s) <= 2,
         \A i \in 1 .. Len(s) : s[i] = Eol[2 - Len(s) + i]
  PROVE  IsSuffix(s, Eol)
<1>1. Eol \in Seq(Letters) /\ Len(Eol) = 2 /\ Len(s) \in Nat  BY EolLength, LenProperties
<1> DEFINE n == Len(s)
           a == Reverse(s)
           b == Reverse(Eol)
<1>2. /\ a = [i \in 1 .. n |-> s[n - i + 1]]
      /\ b = [i \in 1 .. 2 |-> Eol[2 - i + 1]]
  BY <1>1 DEF Reverse
<1>3. \A i \in 1 .. n : s[n - i + 1] = Eol[2 - i + 1] /\ s[n - i + 1] \in Letters
  <2> TAKE i \in 1 .. n
  <2> DEFINE j == n - i + 1
  <2>1. j \in 1 .. n /\ 2 - n + j = 2 - i + 1  BY <1>1
  <2> HIDE DEF j
  <2>2. s[j] = Eol[2 - n + j] /\ s[j] \in Letters  BY <2>1, ElementOfSeq
  <2> QED  BY <2>1, <2>2 DEF j
<1>4. \A i \in 1 .. 2 : Eol[2 - i + 1] \in Letters
  <2> TAKE i \in 1 .. 2
  <2> DEFINE j == 2 - i + 1
  <2>1. j \in 1 .. Len(Eol)  BY <1>1
  <2> HIDE DEF j
  <2>2. Eol[j] \in Letters  BY <2>1, <1>1, ElementOfSeq
  <2> QED  BY <2>2 DEF j
<1> HIDE DEF a, b, n
<1>5. n \in Nat /\ n <= 2  BY <1>1 DEF n
<1>6. a \in Seq(Letters) /\ Len(a) = n  BY <1>2, <1>3, <1>5
<1>7. b \in Seq(Letters) /\ Len(b) = 2  BY <1>2, <1>4
<1>8. \A i \in 1 .. n : a[i] = b[i]  BY <1>2, <1>3, <1>5
<1>9. SubSeq(a, 1, n) = SubSeq(b, 1, n)  BY <1>5, <1>6, <1>7, <1>8
<1> QED  BY <1>5, <1>6, <1>7, <1>9 DEF IsSuffix, IsPrefix, a, b

\* Each reply is understood and is complete at its end: the client takes
\* nothing for an answer that is not one, and waits for nothing that is not to
\* come, however the replies are cut on their way (response_parser.h:18-31,
\* reply.h:10).
THEOREM RepliesAreUnderstood == Spec => []RepliesUnderstood
<1>1. IInv /\ ReplyInv => RepliesUnderstood
  <2> SUFFICES ASSUME IInv, ReplyInv PROVE RepliesUnderstood
    OBVIOUS
  <2>1. PICK r, f, e : Awaits(r, f, e)  BY DEF ReplyInv
  <2>2. /\ r \in Seq(Letters) /\ Understood(f, r, e) /\ parser = f[seen]
        /\ IsPrefix(inserted, r)
        /\ ~out.bad => r = inserted \o FlattenSeq(todo)
        /\ e = Len(r) \/ (stage = "verdict" /\ AnswersLate(r, e))
    BY <2>1 DEF Awaits
  <2>3. /\ inserted \in Seq(Letters) /\ todo \in Seq(Seq(Letters))
        /\ seen \in Nat /\ seen <= Len(inserted)
    BY DEF IInv, OutTypes, ReplyInv
  <2>4. /\ Len(inserted) \in Nat /\ Len(r) \in Nat /\ Len(inserted) <= Len(r)
    BY <2>2, <2>3, PrefixElements
  <2>5. f[0] = Replies!NoReply /\ Replies!NoReply.result = "more"
    BY <2>2 DEF Understood, Parses, Replies!NoReply
  <2>6. seen # 0 => parser.result = IF seen >= e THEN "true" ELSE "more"
    <3>1. seen # 0 => seen \in 1 .. Len(r)  BY <2>3, <2>4
    <3> QED  BY <3>1, <2>2 DEF Understood
  <2>7. parser.result # "false"
    <3>1. CASE seen = 0
      BY <3>1, <2>2, <2>5
    <3>2. CASE seen # 0
      BY <3>2, <2>6
    <3> QED  BY <3>1, <3>2
  <2> DEFINE tail == FlattenSeq(todo)
             rest == SubSeq(inserted, seen + 1, Len(inserted)) \o tail
  <2>8. ASSUME parser.result = "true", ~out.bad
        PROVE  rest = <<>> \/ (stage = "verdict" /\ IsSuffix(rest, Eol))
    <3>1. seen >= e
      <4>1. seen # 0  BY <2>2, <2>5, <2>8
      <4> QED  BY <4>1, <2>6, <2>8
    <3>2. tail \in Seq(Letters)
      <4>1. CASE todo = <<>>
        BY <4>1, NothingJoined, EmptySeq
      <4>2. CASE todo # <<>>
        BY <4>2, <2>3, FirstJoined
      <4> QED  BY <4>1, <4>2
    <3>3. r = inserted \o tail  BY <2>2, <2>8
    <3> HIDE DEF tail
    <3>4. /\ rest \in Seq(Letters) /\ Len(rest) = Len(r) - seen
          /\ \A i \in 1 .. Len(rest) : rest[i] = r[seen + i]
      <4>1. seen \in 0 .. Len(inserted)  BY <2>3, <2>4
      <4> QED  BY <4>1, <3>2, <3>3, <2>3, WhatIsLeft
    <3> HIDE DEF rest
    <3>5. CASE e = Len(r)
      <4>1. Len(rest) = 0  BY <3>1, <3>4, <3>5, <2>3, <2>4
      <4> QED  BY <4>1, <3>4, EmptySeq
    <3>6. CASE stage = "verdict" /\ AnswersLate(r, e)
      <4>1. e \in Nat /\ Len(r) = e + 2 /\ r[e + 1] = CR /\ r[e + 2] = LF
        BY <3>6 DEF AnswersLate
      <4>2. Eol[1] = CR /\ Eol[2] = LF  BY DEF Eol
      <4>3. Len(rest) \in Nat /\ Len(rest) <= 2 /\ seen = e + (2 - Len(rest))
        BY <4>1, <3>1, <3>4, <2>3, <2>4
      <4>4. ASSUME NEW i \in 1 .. Len(rest) PROVE rest[i] = Eol[2 - Len(rest) + i]
        <5> DEFINE j == 2 - Len(rest) + i
        <5>1. (j = 1 \/ j = 2) /\ seen + i = e + j  BY <4>1, <4>3, <2>3
        <5> HIDE DEF j
        <5>2. r[e + j] = Eol[j]  BY <5>1, <4>1, <4>2
        <5>3. rest[i] = Eol[j]  BY <5>1, <5>2, <3>4
        <5> QED  BY <5>3 DEF j
      <4>5. IsSuffix(rest, Eol)  BY <3>4, <4>3, <4>4, EndOfEol
      <4> QED  BY <4>5, <3>6
    <3> QED  BY <3>5, <3>6, <2>2
  <2> QED  BY <2>7, <2>8 DEF RepliesUnderstood
<1> QED  BY <1>1, Invariant, ReplyInvariant, PTL
=============================================================================
