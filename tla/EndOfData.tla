------------------------------- MODULE EndOfData -------------------------------
(***************************************************************************)
(* How the servers look for the end of a message, CRLF.CRLF, in input that *)
(* arrives in pieces: the search of read_until (the one of zerocopy is a   *)
(* copy of the one of asio), and the automaton written out in the sessions *)
(* and in smtp_body_parser.  Positions count characters from zero.         *)
(***************************************************************************)
EXTENDS Naturals, Sequences, SequencesExt, FiniteSetsExt

EndMark == <<"CR", "LF", ".", "CR", "LF">>

\* asio's partial_search: the first place from `from' on where the rest of s
\* agrees with the mark as far as both go, or the end of s.
PartialSearch(s, from) ==
  LET Agrees(p) == IsPrefix(SubSeq(s, p + 1, Min({Len(s), p + Len(EndMark)})), EndMark)
  IN  Min({p \in from .. Len(s) - 1 : Agrees(p)} \cup {Len(s)})

FaultySearched(op, s) ==   \* a partial match is not searched again
  LET p == PartialSearch(s, op.position)
  IN  IF p + Len(EndMark) <= Len(s)
      THEN [found |-> TRUE,  position |-> p + Len(EndMark)]
      ELSE [found |-> FALSE, position |-> Len(s)]

\* A round of the loop of read_until_delim_string_op on the data s.
Searched(op, s) ==
  LET p == PartialSearch(s, op.position)
  IN  IF p + Len(EndMark) <= Len(s)
      THEN [found |-> TRUE,  position |-> p + Len(EndMark)]
      ELSE [found |-> FALSE, position |-> p]

NotSearched == [found |-> FALSE, position |-> 0]
-----------------------------------------------------------------------------
\* The automaton: its state, the characters taken, and `last' (`saved'), in
\* front of the CR that may begin the mark.
NotScanned == [state |-> "dflt", taken |-> 0, last |-> 0]

Moved(state, c) ==
  CASE c = "CR" -> IF state = "dot" THEN "cr2" ELSE "cr1"
    [] c = "."  -> IF state = "lf1" THEN "dot" ELSE "dflt"
    [] c = "LF" -> CASE state = "cr1" -> "lf1" [] state = "cr2" -> "lf2" [] OTHER -> "dflt"
    [] OTHER    -> "dflt"

\* One turn of the loop, which ends in lf2.
Scanned(a, c) ==
  IF a.state = "lf2" THEN a
  ELSE LET next == Moved(a.state, c)
       IN  [state |-> next,
            taken |-> a.taken + 1,
            last  |-> IF next = "cr1" THEN a.taken ELSE a.last]

ScannedAll(a, s) ==
  LET after[k \in 0 .. Len(s)] == IF k = 0 THEN a ELSE Scanned(after[k - 1], s[k])
  IN  after[Len(s)]
=============================================================================
