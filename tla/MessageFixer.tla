------------------------------ MODULE MessageFixer ------------------------------
(***************************************************************************)
(* fix_message_parser of client/mbox/fix.h: what makes of a message of the *)
(* archive the text that is sent after DATA.  It is an automaton that sees *)
(* the characters one by one and says what to insert in front of each.     *)
(*                                                                         *)
(* parse keeps characters in place and adds buffers that point to them:    *)
(* `begin' is where the next such buffer will begin.  s_lf and r_lf are    *)
(* never used.                                                             *)
(***************************************************************************)
EXTENDS Naturals, Sequences

CR == "CR"
LF == "LF"
DOT == "."

FaultyInserted(state, c) ==   \* dots are not doubled
  IF state \in {"init", "default"} /\ c = LF THEN <<CR>> ELSE <<>>

\* What consume asks parse to insert before c: r_dot, r_cr or r_default.
Inserted(state, c) ==
  CASE state = "init" /\ c = DOT              -> <<DOT>>
    [] state \in {"init", "default"} /\ c = LF -> <<CR>>
    [] OTHER                                  -> <<>>

\* The next state.  A character after a CR is taken as it is, another CR too.
Consumed(state, c) ==
  CASE c = LF                  -> "init"
    [] c = CR /\ state # "cr"  -> "cr"
    [] OTHER                   -> "default"

\* The body of the loop of parse: f.current is the index of the character.
Parsed(f, text) ==
  LET c   == text[f.current]
      ins == Inserted(f.state, c)
  IN  [state   |-> Consumed(f.state, c),
       current |-> f.current + 1,
       begin   |-> IF ins = <<>> THEN f.begin ELSE f.current,
       bufs    |-> IF ins = <<>> THEN f.bufs
                   ELSE f.bufs \o SubSeq(text, f.begin, f.current - 1) \o ins]

\* The end of parse, and parse_end: the last line end and the end of data.
Closing(state) ==
  (CASE state = "init" -> <<>>
     [] state = "cr"   -> <<LF>>
     [] OTHER          -> <<CR, LF>>) \o <<DOT, CR, LF>>

Ended(f, text) == f.bufs \o SubSeq(text, f.begin, Len(text)) \o Closing(f.state)

Fresh == [state |-> "init", current |-> 1, begin |-> 1, bufs |-> <<>>]
=============================================================================
