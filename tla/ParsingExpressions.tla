-------------------------- MODULE ParsingExpressions --------------------------
(***************************************************************************)
(* The parsers of boost::spirit::classic, over one text: a parser is the   *)
(* function from the position it starts at to the position it gets to, or  *)
(* to Fail.  An alternative that fits is never taken back for what follows *)
(* it, and a repetition takes as much as it can.                           *)
(***************************************************************************)
EXTENDS Integers, Sequences

VARIABLE text   \* what is parsed

Fail == 0
Pos == 1 .. Len(text) + 1

\* One character of S.
Char(S) == [p \in Pos |-> IF p <= Len(text) /\ text[p] \in S THEN p + 1 ELSE Fail]

\* f >> g
f ** g == [p \in Pos |-> LET q == f[p] IN IF q = Fail THEN Fail ELSE g[q]]

\* f | g
f | g == [p \in Pos |-> LET q == f[p] IN IF q = Fail THEN g[p] ELSE q]

\* !f
Opt(f) == [p \in Pos |-> LET q == f[p] IN IF q = Fail THEN p ELSE q]

\* *f and +f
f^* == LET more[p \in Pos] == LET q == f[p] IN IF q = Fail THEN p ELSE more[q]
       IN  more
f^+ == f ** f^*

\* list_p (f, d)
List(f, d) == f ** (d ** f)^*

\* Where the elements of the list begin, if there is one at p.
Elements(f, d, p) ==
  LET from[i \in Pos] ==
        IF f[i] = Fail THEN <<>>
        ELSE <<i>> \o (IF d[f[i]] = Fail THEN <<>> ELSE from[d[f[i]]])
  IN  from[p]
=============================================================================
