------------------------------- MODULE ZcIterator -------------------------------
(***************************************************************************)
(* zerocopy/iterator.h and zerocopy/segment.h: iterators over the bytes of *)
(* a list of fragments, and the segments that share fragments with a       *)
(* buffer.  A fragment is a range of addresses, from .. to - 1, and `to'   *)
(* is not an address of another fragment.  An iterator points into         *)
(* fragment `seg'; `after' tells the end of the fragment from a byte of    *)
(* it.                                                                     *)
(*                                                                         *)
(* Iterators go forward here.  The backward half of iterator.h (decrement  *)
(* 141-152, advance and distance_to for n < 0) is never instantiated.      *)
(***************************************************************************)
EXTENDS Integers, Sequences, FiniteSetsExt, SequencesExt

\* The constructor: a pointer into fragment seg.
At(list, seg, val) ==
  [seg |-> seg, val |-> val, after |-> list = <<>> \/ val = list[seg].to]

\* fragment.h: the end counts.
Holds(frag, val) == val >= frag.from /\ val <= frag.to

\* The constructor that looks for the fragment.
Located(list, val) ==
  At(list, Min({k \in 1 .. Len(list) : Holds(list[k], val)}), val)

IsLastFragment(list, i) == i.seg = Len(list)

NextVal(list, i) == list[i.seg + 1].from

FaultyEqual(list, i, j) == i.val = j.val   \* the end and a beginning differ

Equal(list, i, j) ==
  LET Val(k) == IF k.after /\ ~IsLastFragment(list, k) THEN NextVal(list, k) ELSE k.val
  IN  IF i.after # j.after THEN Val(i) = Val(j) ELSE i.val = j.val

Dereference(list, i) == IF i.after THEN NextVal(list, i) ELSE i.val

FirstOf(list, seg) == [seg |-> seg, val |-> list[seg].from, after |-> FALSE]

Increment(list, i) ==
  LET s == IF i.after THEN FirstOf(list, i.seg + 1) ELSE i
      v == s.val + 1
  IN  IF v # list[s.seg].to THEN [s EXCEPT !.val = v]
      ELSE IF IsLastFragment(list, s) THEN [s EXCEPT !.val = v, !.after = TRUE]
      ELSE FirstOf(list, s.seg + 1)

Length(frag) == frag.to - frag.from

SizeOf(list) == FoldLeft(LAMBDA n, frag : n + Length(frag), 0, list)

\* distance_to, for j not before i.
DistanceTo(list, i, j) ==
  IF i.seg = j.seg THEN j.val - i.val
  ELSE (list[i.seg].to - i.val) + SizeOf(SubSeq(list, i.seg + 1, j.seg - 1))
         + (j.val - list[j.seg].from)

\* advance, for n >= 0 bytes that are there.
Advance(list, i, n) ==
  LET s    == IF n > 0 /\ i.after THEN Increment(list, i) ELSE i
      rest == IF n > 0 /\ i.after THEN n - 1 ELSE n
      \* bytes from s to the beginning of fragment k
      upto(k) == (list[s.seg].to - s.val) + SizeOf(SubSeq(list, s.seg + 1, k - 1))
      k    == Max({s.seg} \cup {f \in s.seg + 1 .. Len(list) : upto(f) <= rest})
  IN  IF rest = 0 THEN s
      ELSE IF k = s.seg
      THEN [s EXCEPT !.val = @ + rest, !.after = s.val + rest = list[k].to]
      ELSE LET v == list[k].from + (rest - upto(k))
           IN  [seg |-> k, val |-> v, after |-> v = list[k].to]
-----------------------------------------------------------------------------
(* Segments. *)

NoSegment == [list |-> <<>>, head |-> 0, tail |-> 0]

BeginOf(s) == At(s.list, 1, s.head)
EndOf(s)   == Located(s.list, s.tail)

GetPart(list, i, j) ==
  [list |-> SubSeq(list, i.seg, j.seg), head |-> i.val, tail |-> j.val]

SegmentSize(s) ==
  LET n == Len(s.list)
      part(k) == (IF k = n THEN s.tail ELSE s.list[k].to)
                   - (IF k = 1 THEN s.head ELSE s.list[k].from)
  IN  FoldLeft(LAMBDA sum, k : sum + part(k), 0, [k \in 1 .. n |-> k])

FaultyAppended(s, x) ==   \* the rest of the last fragment is not cut off
  IF x.head = x.tail THEN s
  ELSE IF s.list = <<>> THEN x
  ELSE [s EXCEPT !.list = @ \o x.list, !.tail = x.tail]

\* append: a fragment of which a part is not used is wrapped by one that is
\* that part.
Appended(s, x) ==
  LET last  == Len(s.list)
      mine  == [s.list EXCEPT ![last].to = s.tail]
      other == [x.list EXCEPT ![1].from = x.head]
  IN  CASE x.head = x.tail -> s
        [] x.head # x.tail /\ s.list = <<>> -> x
        [] OTHER -> [s EXCEPT !.list = mine \o other, !.tail = x.tail]
=============================================================================
