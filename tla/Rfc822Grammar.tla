----------------------------- MODULE Rfc822Grammar -----------------------------
(***************************************************************************)
(* common/rfc822_v2/grammar.h with smtp_body_parser.h: does the text s     *)
(* begin with a message?  Spirit's parsers take the first alternative that *)
(* fits and as much as they can, and never come back to it.  Here a parser *)
(* goes from a position (a number of characters) to the position it gets   *)
(* to, or to Fail; or to Wait if it has to look at a character which is    *)
(* not there yet.  `more' says whether the input may go on: the iterators  *)
(* of the sessions that parse as they read wait for it.                    *)
(*                                                                         *)
(* Characters: "x" may occur in the name of a field, ":" and "." not.      *)
(***************************************************************************)
EXTENDS Integers, Sequences, EndOfData

Fail == -1
Wait == -2

\* A character of S at p.
One(s, more, p, S) ==
  CASE p < 0      -> p
    [] p = Len(s) -> IF more THEN Wait ELSE Fail
    [] OTHER      -> IF s[p + 1] \in S THEN p + 1 ELSE Fail

\* As many characters of S as there are.
Star(s, more, p, S) ==
  IF p < 0 THEN p
  ELSE LET q == Min({i \in p .. Len(s) : i = Len(s) \/ s[i + 1] \notin S})
       IN  IF q = Len(s) /\ more THEN Wait ELSE q

Plus(s, more, p, S) ==
  LET q == Star(s, more, p, S) IN IF p >= 0 /\ q = p THEN Fail ELSE q

\* From p along Step as often as it succeeds.
Repeat(s, p, Step(_)) ==
  LET from[i \in 0 .. Len(s)] ==
        LET q == Step(i) IN IF q = Fail THEN i ELSE IF q = Wait THEN Wait ELSE from[q]
  IN  IF p < 0 THEN p ELSE from[p]

Name == {"x"}
Wsp  == {" "}
Text == {"x", ":", ".", " "}   \* anything but CR and LF

Crlf(s, more, p) == One(s, more, One(s, more, p, {"CR"}), {"LF"})

FaultyFold(s, more, p) ==   \* the next line need not begin with a blank
  Plus(s, more, Star(s, more, Crlf(s, more, p), Wsp), Text)

\* A line end that does not end the field, and the rest of the line.
Fold(s, more, p) ==
  Plus(s, more, Plus(s, more, Crlf(s, more, p), Wsp), Text)

FieldContent(s, more, p) ==
  Repeat(s, Star(s, more, p, Text), LAMBDA i : Fold(s, more, i))

FieldName(s, more, p) == Plus(s, more, p, Name)

Field(s, more, p) ==
  LET colon == One(s, more, Star(s, more, FieldName(s, more, p), Wsp), {":"})
  IN  FieldContent(s, more, Star(s, more, colon, Wsp))

Fields(s, more) ==
  Repeat(s, Field(s, more, 0), LAMBDA i : Field(s, more, Crlf(s, more, i)))

\* smtp_body: the automaton of the sessions, or all there is if it finds
\* nothing.  smtp_end, which follows, then finds the mark there.
Body(s, more, p) ==
  IF p < 0 THEN p
  ELSE LET a == ScannedAll(NotScanned, SubSeq(s, p + 1, Len(s)))
       IN  CASE a.state = "lf2" -> p + a.taken
             [] more            -> Wait
             [] OTHER           -> Len(s)

Message(s, more) ==
  Body(s, more, Crlf(s, more, Crlf(s, more, Fields(s, more))))
=============================================================================
