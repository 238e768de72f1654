------------------------------ MODULE ReplyParser ------------------------------
(***************************************************************************)
(* client/response_parser.h: the automaton that reads the reply of the     *)
(* server.  It is reset before each reply and given what a read returned;  *)
(* what is behind the end of the reply in the same read is dropped.        *)
(*                                                                         *)
(* Characters: "d" a digit, "-", " ", "CR", "LF" and "x" for any other.    *)
(* The code and the text of the reply are left out.                        *)
(***************************************************************************)
EXTENDS Naturals, Sequences

\* After reset.  result is "more" (indeterminate), "true" or "false".
NoReply == [state |-> "init", cont |-> FALSE, result |-> "more"]

FaultyEndOfLine(p) == [p EXCEPT !.result = "true"]   \* cont is not looked at

\* The LF of a line: another one follows if there was a "-" behind the code.
EndOfLine(p) ==
  IF p.cont THEN [p EXCEPT !.state = "digit1"] ELSE [p EXCEPT !.result = "true"]

Consume(p, c) ==
  LET To(q) == [p EXCEPT !.state = q]
  IN  CASE p.state \in {"init", "digit1"} /\ c = "d"    -> To("digit2")
        [] p.state = "digit2" /\ c = "d"                -> To("digit3")
        [] p.state = "digit3" /\ c = "d"                -> To("cont")
        [] p.state = "cont" /\ c \in {" ", "-"}         -> [To("message") EXCEPT !.cont = (c = "-")]
        [] p.state = "message" /\ c = "CR"              -> To("cr")
        [] p.state \in {"message", "cr"} /\ c = "LF"    -> EndOfLine(p)
        [] p.state = "message" /\ c \notin {"CR", "LF"} -> p
        [] OTHER                                        -> [p EXCEPT !.result = "false"]

\* parse, which returns as soon as the result is known.
Read(p, c) == IF p.result = "more" THEN Consume(p, c) ELSE p

Parse(p, s) ==
  LET after[k \in 0 .. Len(s)] == IF k = 0 THEN p ELSE Read(after[k - 1], s[k])
  IN  after[Len(s)]
=============================================================================
