-------------------------------- MODULE ZcReader --------------------------------
(***************************************************************************)
(* A session that reads lines from a ZcStreambuf and parses messages with  *)
(* iterators over it (coro/zc_session.h, sync/zc_session.h): the list of   *)
(* fragments grows under the iterators, because exp_iterator reads when it *)
(* comes to the end, and what was parsed is detached as a segment.         *)
(*                                                                         *)
(* The sessions drop the segments and detach all there is.  Here a user of *)
(* the library may also detach up to an iterator, and append the segments. *)
(*                                                                         *)
(* Addresses: byte p of fragment f is at Address(f, p), so that the end of *)
(* a fragment is not the beginning of the next.                            *)
(***************************************************************************)
EXTENDS ZcStreambuf

Iter == INSTANCE ZcIterator

CONSTANT MaxParts   (* bound: segments joined *)

ASSUME MaxPartsAssumption == MaxParts \in Nat

VARIABLES
  stage,    (* "lines" or "parsing"                                            *)
  it,       (* the iterator the parser goes on with                            *)
  mark,     (* a copy of it, where the parser may come back to                 *)
  at,       (* the numbers of the bytes that it and mark are meant to be at    *)
  joined,   (* the segments detached, appended to each other                   *)
  parts     (* which bytes they are: <<from, to>> each                         *)

readerVars == <<stage, it, mark, at, joined, parts>>
allVars == <<vars, readerVars>>

Address(f, p) == p + f

\* The fragments from the get area on, and those that a segment takes.
Fragments(x, last) ==
  [k \in 1 .. last - x.get + 1 |->
     LET f == x.get + k - 1
     IN  [from |-> Address(f, Start(x, f)), to |-> Address(f, x.ends[f])]]

List(x) == Fragments(x, Len(x.ends))

Begin(x) == Iter!At(List(x), 1, Address(x.get, x.gptr))
End(x)   == Iter!At(List(x), x.put - x.get + 1, Address(x.put, x.pptr))

NoIterator == [seg |-> 0, val |-> 0, after |-> FALSE]
Nowhere == [it |-> 0, mark |-> 0]

ReaderInit ==
  /\ Init
  /\ stage = "lines"
  /\ it = NoIterator /\ mark = NoIterator /\ at = Nowhere
  /\ joined = Iter!NoSegment /\ parts = <<>>

\* getline, with an underflow when the get area is empty.
ReadLine ==
  /\ stage = "lines"
  /\ \/ \E n \in Requests : GetChars(n) \/ UnderflowRead(n, TRUE)
     \/ UnderflowFound
  /\ UNCHANGED readerVars

\* exp_begin, after DATA.
StartParse ==
  /\ stage = "lines"
  /\ stage' = "parsing"
  /\ it' = Begin(b) /\ mark' = Begin(b)
  /\ at' = [it |-> taken, mark |-> taken]
  /\ UNCHANGED <<vars, joined, parts>>

\* Whether exp_iterator calls the handler.
Reads(x, i) == Iter!Equal(List(x), i, End(x))

\* it == last, which reads n bytes if there are no more.  With none read the
\* message ends here.
Look(n) ==
  /\ stage = "parsing"
  /\ Reads(b, it)
  /\ HandlerRead(n)
  /\ UNCHANGED readerVars

\* ++it, and the same.
Step(n) ==
  /\ stage = "parsing"
  /\ ~Iter!Equal(List(b), it, End(b))
  /\ it' = Iter!Increment(List(b), it)
  /\ at' = [at EXCEPT !.it = @ + 1]
  /\ IF Reads(b, it') THEN HandlerRead(n) ELSE n = 0 /\ UNCHANGED vars
  /\ UNCHANGED <<stage, mark, joined, parts>>

\* saved = first, and first = saved.
Save ==
  /\ stage = "parsing"
  /\ mark' = it /\ at' = [at EXCEPT !.mark = at.it]
  /\ UNCHANGED <<vars, stage, it, joined, parts>>

Restore ==
  /\ stage = "parsing"
  /\ it' = mark /\ at' = [at EXCEPT !.it = at.mark]
  /\ UNCHANGED <<vars, stage, mark, joined, parts>>

StopsParsing ==
  /\ stage' = "lines"
  /\ it' = NoIterator /\ mark' = NoIterator /\ at' = Nowhere

Detached(x, f, t) ==
  [list |-> Fragments(x, f), head |-> Address(x.get, x.gptr), tail |-> Address(f, t)]

\* Detach what is in front of an iterator.
DetachedAt(i, upto) ==
  LET f == b.get + i.seg - 1
      t == i.val - f
  IN  /\ Detach(f, t)
      /\ LET x == Detached(b, f, t)
         IN  IF Len(parts) < MaxParts /\ x.head # x.tail
             THEN /\ joined' = Iter!Appended(joined, x)
                  /\ parts'  = Append(parts, <<taken, upto>>)
             ELSE UNCHANGED <<joined, parts>>
      /\ StopsParsing

\* The message is good: detach (last.get ()).  Or a part of it goes.
Accept == stage = "parsing" /\ DetachedAt(End(b), given)
Part   == stage = "parsing" /\ DetachedAt(it, at.it)

\* It is not: what the parser has read stays.
Refuse == stage = "parsing" /\ StopsParsing /\ UNCHANGED <<vars, joined, parts>>

ReaderNext ==
  /\ \/ ReadLine \/ StartParse
     \/ \E n \in Requests : Look(n) \/ Step(n)
     \/ Save \/ Restore \/ Accept \/ Part \/ Refuse
  /\ Extent(b') <= MaxBytes

ReaderSpec == ReaderInit /\ [][ReaderNext]_allVars
-----------------------------------------------------------------------------
(* Properties. *)

\* Where byte p is, which is not taken yet.
Place(p) ==
  LET f == CHOOSE g \in b.get .. b.put : Start(b, g) <= p /\ p < b.ends[g]
  IN  Address(f, p)

\* An iterator keeps its place while the list grows behind it, also one that was
\* at the end and has a new fragment after it: it reads the byte it is meant to
\* be at, is equal to the end if and only if there is none, and two iterators are
\* equal if and only if they are at the same byte (iterator.h:97-139).
PlacesExact ==
  stage = "parsing" =>
    LET list == List(b)
        Right(i, p) == /\ p < given => Iter!Dereference(list, i) = Place(p)
                       /\ Iter!Equal(list, i, End(b)) <=> p = given
    IN  /\ Right(it, at.it) /\ Right(mark, at.mark)
        /\ Iter!Equal(list, it, mark) <=> at.it = at.mark

\* Iterators count the bytes between them, however many fragments there are
\* between, and an iterator that advances by that number gets to the other
\* (iterator.h:154-177, 195-214).
DistancesExact ==
  (stage = "parsing" /\ at.mark <= at.it) =>
    LET list == List(b)
        n    == at.it - at.mark
    IN  /\ Iter!DistanceTo(list, mark, it) = n
        /\ Iter!Equal(list, Iter!Advance(list, mark, n), it)
        /\ Iter!SegmentSize(Iter!GetPart(list, mark, it)) = n

\* What the iterators of a segment go over, at most n + 1 bytes.
Walk(s, n) ==
  LET Gone[k \in 0 .. n + 1] ==
        IF k = 0 THEN [i |-> Iter!BeginOf(s), bytes |-> <<>>]
        ELSE LET w == Gone[k - 1]
             IN  IF Iter!Equal(s.list, w.i, Iter!EndOf(s)) THEN w
                 ELSE [i     |-> Iter!Increment(s.list, w.i),
                       bytes |-> Append(w.bytes, Iter!Dereference(s.list, w.i))]
  IN  Gone[n + 1].bytes

\* The bytes of the parts and where they are; fragments never move.
PartBytes ==
  LET Byte(p) == Address(CHOOSE g \in 1 .. b.put : Start(b, g) <= p /\ p < b.ends[g], p)
      Bytes(part) == [k \in 1 .. part[2] - part[1] |-> Byte(part[1] + k - 1)]
      all[k \in 0 .. Len(parts)] == IF k = 0 THEN <<>> ELSE all[k - 1] \o Bytes(parts[k])
  IN  all[Len(parts)]

\* No part but the first begins, and none but the last ends, where a fragment
\* does.  Where one does, append makes an empty fragment, which the iterators do
\* not skip (iterator.h:124-129).
CutInside ==
  LET edges == {0} \cup {b.ends[f] : f \in 1 .. Len(b.ends)}
  IN  \A k \in 1 .. Len(parts) - 1 : parts[k][2] \notin edges /\ parts[k + 1][1] \notin edges

\* A part between iterators has as many bytes as they count, and segments that were
\* detached one after the other, sharing fragments with the buffer and with each
\* other, are when appended the bytes of all of them and nothing else
\* (segment.h:100-129).
SegmentsExact ==
  /\ DistancesExact
  /\ (parts # <<>> /\ CutInside) =>
       /\ Iter!SegmentSize(joined) = Len(PartBytes)
       /\ Walk(joined, Len(PartBytes)) = PartBytes
=============================================================================
