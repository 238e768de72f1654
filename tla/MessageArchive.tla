----------------------------- MODULE MessageArchive -----------------------------
(***************************************************************************)
(* client/mbox/index.h and client/message_generator.h: the archive, a      *)
(* mapped file of messages each behind a line with its size; the index of  *)
(* them by size; and the generator that each client takes messages from.   *)
(*                                                                         *)
(* A file is a sequence of characters: digits are 0 .. 9, others negative. *)
(* Positions count from zero, as offsets from begin ().                    *)
(***************************************************************************)
EXTENDS Integers, Sequences, FiniteSetsExt, SequencesExt

NL == -1
Other == -2

MaxDigits == 10

\* The first position from p on that does not hold a character of S, or the
\* end of the file.
Skip(file, p, S) == Min({q \in p .. Len(file) : q = Len(file) \/ file[q + 1] \notin S})

\* The number that digits p + 1 to q are.
Number(file, p, q) ==
  LET upTo[k \in p .. q] == IF k = p THEN 0 ELSE 10 * upTo[k - 1] + file[k]
  IN  upTo[q]

FaultyParse(file, p) ==   \* the size begins the line, the message follows it
  LET d == Skip(file, p, 0 .. 9)
      size == Number(file, p, d)
  IN  [size |-> size, addr |-> d, pos |-> d + size]

\* parse: the size, the address of the message, and the position behind it.
\* Nothing is compared with the end of the file after the line end.
Parse(file, p) ==
  LET digits == Min({Skip(file, p, 0 .. 9), p + MaxDigits})
      size   == Number(file, p, digits)
      addr   == Skip(file, digits, (0 .. 9) \cup {Other}) + 1
  IN  [size |-> size, addr |-> addr, pos |-> addr + size]

\* index_.emplace: a multimap keeps what has the same key in order.
Emplaced(index, m) ==
  LET k == Cardinality({i \in 1 .. Len(index) : index[i].size <= m.size})
  IN  InsertAt(index, k + 1, [size |-> m.size, addr |-> m.addr])

\* lower_bound and upper_bound, as numbers of entries in front of them.
LowerBound(index, n) == Cardinality({i \in 1 .. Len(index) : index[i].size < n})
UpperBound(index, n) == Cardinality({i \in 1 .. Len(index) : index[i].size <= n})
-----------------------------------------------------------------------------
\* The generator: the entries in the order of the shuffle, and the next one.
NewGenerator(shuffled) == [shuffled |-> shuffled, i |-> 1]

Advanced(g) == [g EXCEPT !.i = IF @ = Len(g.shuffled) THEN 1 ELSE @ + 1]
=============================================================================
