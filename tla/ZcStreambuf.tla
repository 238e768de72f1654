----------------------------- MODULE ZcStreambuf -----------------------------
(***************************************************************************)
(* zerocopy::basic_streambuf (src/zerocopy/streambuf.h): a std::streambuf  *)
(* whose characters live in a list of fragments.  A prefix of the list is  *)
(* handed out as a segment (detach) without copying, more fragments are    *)
(* added at the end (reserve), and two counters remember what the pointers *)
(* do not: inter_size_ and tail_size_.                                     *)
(*                                                                         *)
(* Positions.  The model numbers the bytes of all the fragments ever       *)
(* allocated: fragment i holds the positions Start(i) .. ends[i] - 1 and a *)
(* pointer of the code is a position together with the fragment it points  *)
(* into.  The end of a fragment and the beginning of the next one are the  *)
(* same position, but the get area always lies in fragment `get' and the   *)
(* put area in fragment `put', so a pointer is never ambiguous.  Fragments *)
(* popped from the front are those before `get'.  Sums of fragment sizes   *)
(* that the code accumulates in a loop telescope to differences of         *)
(* positions.  Every caller in src/ leaves max_size_ at SIZE_MAX, so the   *)
(* length_error of reserve (798-802) is out of reach and left out.         *)
(***************************************************************************)
EXTENDS Integers, Sequences

CONSTANTS
  MinFrag,      (* min_fragmentation_, 512 by default                          *)
  MaxFrag,      (* max_fragmentation_, 1 MiB by default                        *)
  StartFrags,   (* start_fragments of the constructor, 0 means 1               *)
  StartLen,     (* start_fragment_len of the constructor, 0 means MinFrag      *)
  ReadSize,     (* what an underflow handler asks prepare for: 1024            *)
  WithHandler,  (* an underflow handler that reads, or the default one         *)
  HighBytes,    (* positions of the stream that hold the byte 0xFF             *)
  SpanConsume,  (* the user calls consume when the bytes span fragments        *)
  Requests,     (* sizes the user passes to prepare, commit, sputn, consume    *)
  MaxBytes      (* bound: bytes ever allocated in a behaviour                  *)

ASSUME FragAssumption ==
  /\ MinFrag \in Nat \ {0} /\ MaxFrag \in Nat /\ MinFrag <= MaxFrag
  /\ StartFrags \in Nat /\ StartLen \in Nat
  /\ ReadSize \in Nat

ASSUME UserAssumption ==
  /\ WithHandler \in BOOLEAN /\ SpanConsume \in BOOLEAN
  /\ HighBytes \subseteq Nat /\ Requests \subseteq Nat
  /\ MaxBytes \in Nat

VARIABLES
  b,       (* the buffer: its fragments, pointers and counters              *)
  given,   (* number of bytes the user (or the handler) has put in          *)
  taken    (* number of bytes read, consumed or detached                    *)

vars == <<b, given, taken>>
-----------------------------------------------------------------------------
(* Fragments and pointers.                                                 *)
(* The operators named Faulty... are not part of the model: each is the    *)
(* operator defined after it with a plausible mistake, put in its place to *)
(* see a property fail.                                                    *)

Start(x, i) == IF i = 1 THEN 0 ELSE x.ends[i - 1]

Extent(x) == x.ends[Len(x.ends)]

\* Every setp of the code ends the put area at the end of its fragment.
Epptr(x) == x.ends[x.put]

Size(x) == x.inter + (x.egptr - x.gptr) + (x.pptr - x.pbase)

PutSize(x) == x.tail + (Epptr(x) - x.pptr)

\* The fragments at which a loop over the list from fragment i on stops,
\* when it skips every fragment that ends before position t (there is one).
Landing(e, i, t) ==
  {f \in i .. Len(e) : e[f] >= t /\ (f > i => e[f - 1] < t)}
-----------------------------------------------------------------------------
(* The private helpers of the class. *)

\* The ends of the fragments that give `need' more bytes after position e.
\* Sizes are clamped to [MinFrag, MaxFrag]: as many fragments of MaxFrag as
\* leave something needed, then one for the rest.
Grown(e, need) ==
  LET full == (need - 1) \div MaxFrag
      rest == need - full * MaxFrag
      last == IF rest < MinFrag THEN MinFrag ELSE rest
  IN  [i \in 1 .. full + 1 |->
         e + IF i <= full THEN i * MaxFrag ELSE full * MaxFrag + last]

Reserve(x, n) ==
  LET g == Grown(Extent(x), n - PutSize(x))
  IN  IF n <= PutSize(x) THEN x
      ELSE [x EXCEPT !.ends = @ \o g,
                     !.tail = @ + (g[Len(g)] - Extent(x))]

CompactPutArea(x) ==
  [x EXCEPT !.inter = @ + (x.pptr - x.pbase), !.pbase = x.pptr]

FaultyExtendGetArea(x) ==   \* the bytes moved to the get area stay counted
  [x EXCEPT !.egptr = x.pbase]

ExtendGetArea(x) ==
  [x EXCEPT !.inter = @ - (x.pbase - x.egptr), !.egptr = x.pbase]

\* The put area moves to a later fragment f: it starts at `from', the next
\* byte is written at `to'.
MovePut(x, f, from, to) ==
  [x EXCEPT !.inter = @ + (from - x.pbase),
            !.tail  = @ - (x.ends[f] - x.ends[x.put]),
            !.put   = f,
            !.pbase = from,
            !.pptr  = to]

\* The get area moves to fragment f, where the next byte is read at t, and
\* goes as far as it can; `less' bytes are no longer between the areas.
MoveGet(x, f, t, less) ==
  [x EXCEPT !.get   = f,
            !.inter = @ - less,
            !.eback = t,
            !.gptr  = t,
            !.egptr = IF f = x.put THEN x.pbase ELSE x.ends[f]]

PromotePut(x) ==
  LET r == Reserve(x, 1)
  IN  MovePut(r, r.put + 1, r.ends[r.put], r.ends[r.put])

PromotePutIfExist(x) ==
  IF Epptr(x) > x.pptr \/ x.put = Len(x.ends) THEN x ELSE PromotePut(x)

FaultyCommitTo(x, n) ==   \* the part in the last fragment is not counted
  {PromotePutIfExist(
     [x EXCEPT !.inter = IF f = x.put THEN @ ELSE @ + (x.ends[f - 1] - x.pbase),
               !.tail  = @ - (x.ends[f] - x.ends[x.put]),
               !.put   = f,
               !.pbase = IF f = x.put THEN @ ELSE x.pptr + n,
               !.pptr  = x.pptr + n]) : f \in Landing(x.ends, x.put, x.pptr + n)}

\* commit: within the put area, or across fragments, where the put area
\* starts again right after the n bytes.  The result is a set of one buffer.
CommitTo(x, n) ==
  IF n <= Epptr(x) - x.pptr
  THEN {PromotePutIfExist([x EXCEPT !.pptr = @ + n])}
  ELSE LET t == x.pptr + n
       IN  {PromotePutIfExist(MovePut(x, f, t, t))
            : f \in Landing(x.ends, x.put + 1, t)}

\* The last branch of do_underflow: the get area moves to the next fragment.
PopFront(x) ==
  LET start == x.ends[x.get]
      p == IF x.get + 1 = x.put THEN CompactPutArea(x) ELSE x
      eptr == IF x.get + 1 = x.put THEN p.pbase ELSE x.ends[x.get + 1]
  IN  MoveGet(p, x.get + 1, start, eptr - start)

FaultyUnderflowSkips(x) ==   \* forgets the rest of the first fragment
  IF x.get # x.put THEN PopFront(x)
  ELSE IF x.gptr = x.pptr THEN x ELSE ExtendGetArea(CompactPutArea(x))

FaultyUnderflowStale(x) ==   \* does not see what is in the put area
  IF x.get = x.put THEN ExtendGetArea(x)
  ELSE IF x.egptr = x.ends[x.get] THEN PopFront(x)
  ELSE [x EXCEPT !.inter = @ - (x.ends[x.get] - x.egptr),
                 !.egptr = x.ends[x.get]]

DoUnderflow(x) ==
  IF x.get = x.put
  THEN IF x.gptr = x.pptr THEN x ELSE ExtendGetArea(CompactPutArea(x))
  ELSE IF x.egptr # x.ends[x.get]
  THEN [x EXCEPT !.inter = @ - (x.ends[x.get] - x.egptr),
                 !.egptr = x.ends[x.get]]
  ELSE PopFront(x)

\* do_underflow returns *gptr () as a char: 0xFF is not told from eof.
ReturnsEof(x) == x.gptr = x.egptr \/ x.gptr \in HighBytes
-----------------------------------------------------------------------------
(* The operations of the class. *)

FaultyConsumeTo(x, n) ==   \* counts from eback, and only in the get area
  {[x EXCEPT !.eback = x.eback + n, !.gptr = x.eback + n]}

ConsumeTo(x, n) ==
  LET p == CompactPutArea(x)
      g == IF p.get = p.put THEN ExtendGetArea(p)
                            ELSE [p EXCEPT !.egptr = p.ends[p.get]]
      t == g.gptr + n
  IN  IF t <= g.egptr
      THEN {[g EXCEPT !.eback = t, !.gptr = t]}
      ELSE {MoveGet(g, f, t, n - (g.egptr - g.gptr))
            : f \in Landing(g.ends, g.get + 1, t)}

FaultyDetachAt(x, f, t) ==   \* does not compact the put area first
  MoveGet(x, f, t, IF f = x.put THEN x.inter ELSE x.ends[f] - x.egptr)

\* The buffer that is left when everything before position t of fragment f
\* has been handed out as a segment.
DetachAt(x, f, t) ==
  IF f = x.put
  THEN LET p == IF t > x.pbase THEN CompactPutArea(x) ELSE x
       IN  MoveGet(p, f, t, p.inter)
  ELSE MoveGet(x, f, t, x.ends[f] - x.egptr)

\* xsputn: the pieces are committed one put area at a time, so the put area
\* of the fragment where the copy ends starts at the start of that fragment.
SputnTo(x, n) ==
  LET r == Reserve(x, n)
      t == r.pptr + n
      q == IF Epptr(r) = r.pptr THEN PromotePut(r) ELSE r
  IN  IF n = 0 THEN {r}
      ELSE {PromotePutIfExist(
              IF f = q.put THEN [q EXCEPT !.pptr = t]
              ELSE MovePut(q, f, q.ends[f - 1], t)) : f \in Landing(q.ends, q.put, t)}

\* sputc: the inline store when there is room, overflow otherwise.
SputcTo(x) ==
  LET r == Reserve(x, 1)
      q == IF Epptr(r) = r.pptr THEN PromotePut(r) ELSE r
  IN  IF x.pptr < Epptr(x) THEN [x EXCEPT !.pptr = @ + 1]
                           ELSE [q EXCEPT !.pptr = @ + 1]

FaultyData(x) ==   \* stops at the end of the get area
  IF x.gptr = x.egptr THEN <<>> ELSE << <<x.gptr, x.egptr>> >>

\* No empty buffer is put into a list of buffers <<from, to>>.
Buffer(from, to) == IF from < to THEN << <<from, to>> >> ELSE <<>>

\* Fragments i to j; none of them is empty.
Whole(x, i, j) == [k \in 1 .. j - i + 1 |-> <<Start(x, i + k - 1), x.ends[i + k - 1]>>]

\* data: the readable bytes as a list of buffers.
Data(x) ==
  IF x.get = x.put THEN Buffer(x.gptr, x.pptr)
  ELSE Buffer(x.gptr, x.ends[x.get])
         \o Whole(x, x.get + 1, x.put - 1) \o Buffer(Start(x, x.put), x.pptr)

\* prepare: the writable bytes, after reserve, as such a list.
WriteBuffers(x) == Buffer(x.pptr, Epptr(x)) \o Whole(x, x.put + 1, Len(x.ends))
-----------------------------------------------------------------------------
Fresh ==
  LET len == IF StartLen = 0 THEN MinFrag ELSE StartLen
      num == IF StartFrags = 0 THEN 1 ELSE StartFrags
  IN  [ends  |-> [i \in 1 .. num |-> i * len],
       get   |-> 1, put |-> 1,
       eback |-> 0, gptr |-> 0, egptr |-> 0,
       pbase |-> 0, pptr |-> 0,
       inter |-> 0, tail |-> num * len - len]

Init == b = Fresh /\ given = 0 /\ taken = 0

Prepare(n) == /\ b' = Reserve(b, n)
              /\ UNCHANGED <<given, taken>>

\* n bytes were stored in the buffers prepare returned.
Commit(n) == /\ n <= PutSize(b)
             /\ b' \in CommitTo(b, n)
             /\ given' = given + n
             /\ UNCHANGED taken

Sputn(n) == /\ b' \in SputnTo(b, n)
            /\ given' = given + n
            /\ UNCHANGED taken

Sputc == /\ b' = SputcTo(b)
         /\ given' = given + 1
         /\ UNCHANGED taken

\* sbumpc, sgetn and getline take characters of the get area inline.
GetChars(n) == /\ n <= b.egptr - b.gptr
               /\ b' = [b EXCEPT !.gptr = @ + n]
               /\ taken' = taken + n
               /\ UNCHANGED given

\* underflow without a read: a character was found, or the default handler.
UnderflowFound == /\ b.gptr = b.egptr
                  /\ ReturnsEof(DoUnderflow(b)) => ~WithHandler
                  /\ b' = DoUnderflow(b)
                  /\ UNCHANGED <<given, taken>>

\* underflow with a handler that reads n bytes and says whether to go on;
\* the read may fill all the space prepare returns, not ReadSize alone.
UnderflowRead(n, ok) ==
  LET u == DoUnderflow(b)
  IN  /\ b.gptr = b.egptr
      /\ WithHandler /\ ReturnsEof(u)
      /\ ok \/ n = 0
      /\ n <= PutSize(Reserve(u, ReadSize))
      /\ \E c \in CommitTo(Reserve(u, ReadSize), n) :
            b' = IF ok THEN DoUnderflow(c) ELSE c
      /\ given' = given + n
      /\ UNCHANGED taken

\* exp_iterator at the end of the data calls the handler itself.
HandlerRead(n) == /\ WithHandler
                  /\ n <= PutSize(Reserve(b, ReadSize))
                  /\ b' \in CommitTo(Reserve(b, ReadSize), n)
                  /\ given' = given + n
                  /\ UNCHANGED taken

Consume(n) == /\ n > 0 /\ n <= Size(b) /\ n <= b.pptr - b.gptr
              /\ b.get = b.put \/ SpanConsume
              /\ b' \in ConsumeTo(b, n)
              /\ taken' = taken + n
              /\ UNCHANGED given

Detach(f, t) == /\ t >= b.gptr /\ t >= Start(b, f)
                /\ t <= IF f = b.put THEN b.pptr ELSE b.ends[f]
                /\ b' = DetachAt(b, f, t)
                /\ taken' = taken + (t - b.gptr)
                /\ UNCHANGED given

Next ==
  /\ \/ \E n \in Requests : Prepare(n) \/ Commit(n) \/ Sputn(n)
                            \/ GetChars(n) \/ Consume(n) \/ HandlerRead(n)
     \/ Sputc
     \/ UnderflowFound
     \/ \E n \in Requests, ok \in BOOLEAN : UnderflowRead(n, ok)
     \/ \E f \in b.get .. b.put, t \in 0 .. Extent(b) : Detach(f, t)
  /\ Extent(b') <= MaxBytes

Spec == Init /\ [][Next]_vars
-----------------------------------------------------------------------------
(* Properties. *)

Buffers == [ends : Seq(Nat), get : Nat, put : Nat, eback : Nat, gptr : Nat,
            egptr : Nat, pbase : Nat, pptr : Nat, inter : Nat, tail : Nat]

\* Every pointer is a position and neither counter, a size_t, ever wraps
\* below zero.
TypeOK == b \in Buffers /\ given \in Nat /\ taken \in Nat

Increasing(e) == \A i, j \in 1 .. Len(e) : i < j => e[i] < e[j]

\* Fragments are not empty, the get area lies in the first one and before
\* the put area, which lies in its own fragment: no operation leaves a
\* pointer in a fragment that was popped or that is not there yet.
Ordered(x) ==
  /\ 1 <= x.get /\ x.get <= x.put /\ x.put <= Len(x.ends)
  /\ Increasing(x.ends)
  /\ x.ends[1] > 0
  /\ Start(x, x.get) <= x.eback /\ x.eback <= x.gptr
  /\ x.gptr <= x.egptr /\ x.egptr <= x.ends[x.get]
  /\ x.egptr <= x.pbase
  /\ Start(x, x.put) <= x.pbase /\ x.pbase <= x.pptr /\ x.pptr <= x.ends[x.put]

PointersOrdered == Ordered(b)

\* "bytes between egptr and pbase" (streambuf.h:80).
InterSizeExact == b.inter = b.pbase - b.egptr

\* "bytes after epptr" (streambuf.h:81), what print_debug asserts at 206.
TailSizeExact == b.tail = Extent(b) - Epptr(b)

CountersExact == InterSizeExact /\ TailSizeExact

\* The next byte to be read is the first one not yet taken and the next one
\* to be written follows the last one given: no byte is lost, delivered
\* twice or read before it was written.
NoByteLost == b.gptr = taken /\ b.pptr = given

\* A reader is told "end of file" only when everything given was taken.
EofOnlyWhenEmpty ==
  b.gptr = b.egptr => (ReturnsEof(DoUnderflow(b)) <=> given = taken)

\* A list of buffers, none of them empty, covers the positions from .. to - 1
\* in order, each once.
Covers(list, from, to) ==
  IF list = <<>> THEN from = to
  ELSE /\ list[1][1] = from
       /\ list[Len(list)][2] = to
       /\ \A i \in 1 .. Len(list) : list[i][1] < list[i][2]
       /\ \A i \in 1 .. Len(list) - 1 : list[i][2] = list[i + 1][1]

\* data returns exactly the size () unread bytes, prepare the space that
\* commit may fill, in stream order and without empty buffers (streambuf.h:555).
BuffersExact == /\ Covers(Data(b), taken, taken + Size(b))
                /\ Covers(WriteBuffers(b), given, given + PutSize(b))

\* Bytes before the get pointer belong to detached segments and consumed
\* commands: no later step reads or writes there again.
NeverBackwards ==
  [][/\ b'.gptr >= b.gptr /\ b'.pptr >= b.pptr
     /\ \A i \in 1 .. Len(b.ends) : b'.ends[i] = b.ends[i]]_vars

\* The inductive invariant, of one buffer.  A consume across fragments makes
\* inter_size_ too large, never too small.
Sound(x) == /\ x \in Buffers
            /\ Ordered(x)
            /\ x.tail = Extent(x) - Epptr(x)
            /\ x.inter >= x.pbase - x.egptr
            /\ ~SpanConsume => x.inter = x.pbase - x.egptr

\* The buffer is a queue of bytes and size () is the number of them.
Queue == INSTANCE ByteQueue WITH head <- taken, tail <- given, size <- Size(b)
ImplementsQueue == Queue!Spec
=============================================================================
