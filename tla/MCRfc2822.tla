------------------------------ MODULE MCRfc2822 ------------------------------
(* Messages for TLC. *)
EXTENDS Rfc2822Reader

Raw(name, value) == [name |-> name, value |-> value, kind |-> "raw", addrs |-> <<>>]
Plain(l, d) == [local |-> <<l>>, domain |-> <<d>>, named |-> FALSE]
Named(l, d) == [local |-> <<l>>, domain |-> <<d>>, named |-> TRUE]

Addresses == {Plain("a", "b"), Plain("c", "d"), Named("a", "d")}
WrittenAddress(a) ==
  IF a.named THEN <<" ", "c", " ", "<">> \o a.local \o <<"@">> \o a.domain \o <<">">>
  ELSE <<" ">> \o a.local \o <<"@">> \o a.domain
WrittenAddresses(as, comma) ==
  FlattenSeq([i \in DOMAIN as |-> (IF i = 1 THEN <<>> ELSE comma) \o WrittenAddress(as[i])])

\* A list, and a group with these members.
AddressLine(name, as, comma) ==
  [name |-> name, value |-> WrittenAddresses(as, comma), kind |-> "structured", addrs |-> as]
GroupLine(name, as) ==
  [name |-> name, value |-> <<" ", "x", ":">> \o WrittenAddresses(as, <<",">>) \o <<";">>,
   kind |-> "structured",
   addrs |-> <<[local |-> <<"x">>, domain |-> <<>>, named |-> TRUE]>> \o as
               \o <<[local |-> <<>>, domain |-> <<>>, named |-> FALSE]>>]

MCWords ==
  {"a", "b", "c", "d", "x"} \cup MailboxFields \cup MailboxListFields \cup AddressListFields
  \cup RawFields \cup ContentFields

Lists == UNION {[1 .. n -> Addresses] : n \in 1 .. 3}
Commas == {<<",">>, <<",", "CR", "LF">>, <<" ", ",">>}

\* Messages with one list of addresses in them.
AddressHeaders ==
  {<<AddressLine(name, as, comma)>> : name \in {"from", "to"}, as \in Lists, comma \in Commas}
  \cup {<<GroupLine("cc", as)>> : as \in Lists}
  \cup {<<AddressLine("sender", <<a>>, <<>>)>> : a \in Addresses}
  \cup {<<Raw("received", <<"a">>), AddressLine("resent-to", as, <<",">>)>> : as \in Lists}

Kinds ==
  {Raw("x", <<" ", "a", "CR", "LF", " ", "b">>),
   Raw("to", <<"CR", "LF", " ", "a", "CR", "LF", " ", "CR", "LF", " ", "<", "b">>),
   AddressLine("to", <<Plain("a", "b")>>, <<>>),
   Raw("return-path", <<"<", "a", ">">>),
   Raw("received", <<" ", "a">>),
   Raw("resent-date", <<"a", ":", "b">>),
   [value |-> <<"b", " ", "c">>],
   [name |-> "content-type", value |-> <<" ", "a", "/", "b", ";", " ", "c", "=", "quote", "d", ";", "quote">>,
    kind |-> "structured", addrs |-> <<>>],
   Raw("content-type", <<" ", "a", " ", "b">>)}

Headers(n) == UNION {[1 .. k -> Kinds] : k \in 1 .. n}
LineEnds == {<<"CR", "LF">>, <<"LF">>}
Bodies == {<<>>, <<"a", "CR", "LF">>, <<"CR", "LF", ".", "a", "CR", "LF">>, <<"a", "LF">>}

MCMessages ==
  [lines: AddressHeaders, eol: LineEnds, body: {<<>>}, marked: {TRUE}]
  \cup [lines: Headers(2), eol: LineEnds, body: Bodies, marked: BOOLEAN]
  \cup [lines: Headers(3), eol: LineEnds, body: {<<"a", "CR", "LF">>}, marked: {FALSE}]
  \cup [lines: Headers(4), eol: {<<"LF">>}, body: {<<>>}, marked: {FALSE}]
=============================================================================
