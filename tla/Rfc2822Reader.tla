----------------------------- MODULE Rfc2822Reader -----------------------------
(***************************************************************************)
(* rfc822::parse of common/rfc822: the grammar read over a message, and    *)
(* message_data of rfc822.h, which is told of every field, of the line     *)
(* between header and body, and of the body.  The actions of the grammar   *)
(* run as soon as a field fits: what an alternative has told before it     *)
(* fails is not taken back.                                                *)
(*                                                                         *)
(* A message is given by its lines, each with what is written in it, so    *)
(* that what is recovered can be compared with what was meant.             *)
(***************************************************************************)
EXTENDS Rfc2822Grammar

CONSTANT
  Messages    \* [lines, eol, body, marked]: header lines, each [name, value, kind, addrs] or,
              \* without a colon, [value]; the end of these lines; the body; is it marked?

VARIABLES
  message,            \* what was written
  pos,                \* up to where text is understood
  phase,              \* the place in the grammar
  start,              \* where the attempt at the trace fields began
  header_list_data,   \* message_data
  body_prefix, body,
  full                \* parse_info::full

vars == <<text, message, pos, phase, start, header_list_data, body_prefix, body, full>>

HasColon(line) == "name" \in DOMAIN line

Written(line, eol) ==
  (IF HasColon(line) THEN <<line.name, ":">> ELSE <<>>) \o line.value \o eol

\* The line that ends the message for SMTP.
Dot == <<".", "CR", "LF">>

WrittenMessage(m) ==
  FlattenSeq([i \in DOMAIN m.lines |-> Written(m.lines[i], m.eol)])
  \o m.eol \o m.body \o (IF m.marked THEN Dot ELSE <<>>)

Init ==
  /\ message \in Messages
  /\ text = WrittenMessage(message)
  /\ pos = 1 /\ phase = "trace" /\ start = 1
  /\ header_list_data = <<>> /\ body_prefix = <<>> /\ body = <<>>
  /\ full = FALSE
-----------------------------------------------------------------------------
\* The fields that the grammar looks for in a phase; where it goes when there
\* is one, and when there is none.
\*   trace: !return_path >> +received, then the resent fields of that trace,
\*   after which a trace may follow; then the other fields.
FieldsOf ==
  [trace    |-> Alternatives({"return-path"}),
   received |-> Alternatives({"received"}),
   again    |-> Alternatives({"received"}),
   resent   |-> FieldSet1,
   fields   |-> FieldSet2]

After ==
  [trace |-> "received", received |-> "again", again |-> "again", resent |-> "resent",
   fields |-> "fields"]
Without ==
  [trace |-> "received", received |-> "fields", again |-> "resent", resent |-> "trace",
   fields |-> "body prefix"]

\* A field is told to message_data as soon as it fits.  Without a Received the
\* parser goes back to where the trace began.
Tell(found) ==
  IF found # <<>>
  THEN /\ header_list_data' = header_list_data \o found
       /\ pos' = found[1].to
       /\ phase' = After[phase]
  ELSE /\ pos' = IF phase = "received" THEN start ELSE pos
       /\ phase' = Without[phase]
       /\ UNCHANGED header_list_data

OnFieldData ==
  /\ phase \in DOMAIN FieldsOf
  /\ Tell(FieldsAt(FieldsOf[phase], pos))
  /\ start' = IF phase = "trace" THEN pos ELSE start
  /\ UNCHANGED <<text, message, body_prefix, body, full>>

OnBodyPrefix ==
  /\ phase = "body prefix" /\ Crlf[pos] # Fail
  /\ body_prefix' = Between(pos, Crlf[pos])
  /\ phase' = "body" /\ pos' = Crlf[pos]
  /\ UNCHANGED <<text, message, start, header_list_data, body, full>>

OnBody ==
  /\ phase = "body"
  /\ body' = Between(pos, SmtpBody(pos))
  /\ phase' = "end" /\ pos' = SmtpBody(pos)
  /\ UNCHANGED <<text, message, start, header_list_data, body_prefix, full>>

\* The end mark may be missing, and header and body need not be followed by
\* anything; parse tells whether all of the text has been understood.
Ends ==
  /\ phase = "end" \/ (phase = "body prefix" /\ Crlf[pos] = Fail)
  /\ LET to == IF phase = "end" /\ SmtpEnd(pos) # Fail THEN SmtpEnd(pos) ELSE pos
     IN  phase' = "done" /\ pos' = to /\ full' = (to = Len(text) + 1)
  /\ UNCHANGED <<text, message, start, header_list_data, body_prefix, body>>

Next == OnFieldData \/ OnBodyPrefix \/ OnBody \/ Ends

Spec == Init /\ [][Next]_vars
-----------------------------------------------------------------------------
\* What was meant.  The line that ends the header counts as one more line.
LineStart(i) ==
  Len(FlattenSeq([j \in 1 .. i - 1 |->
    IF j <= Len(message.lines) THEN Written(message.lines[j], message.eol) ELSE message.eol])) + 1

\* A line without a colon goes to the field in front of it, unless the value
\* of that is a structured one, and takes the line after it along.
FieldLines ==
  LET lines == message.lines
      Bad(i) == i \in DOMAIN lines /\ ~HasColon(lines[i])
      lastOf[i \in 1 .. Len(lines) + 2] == IF Bad(i + 1) THEN lastOf[i + 2] ELSE i
      fields[i \in 1 .. Len(lines) + 2] ==
        IF i > Len(lines) \/ Bad(i) THEN <<>>
        ELSE LET last == IF lines[i].kind = "raw" THEN lastOf[i] ELSE i
             IN  <<[first |-> i, last |-> last]>> \o fields[last + 1]
  IN  fields[1]

\* Up to where the header is understood: the whole of it, if that is the line
\* that ends it.
Understood == IF FieldLines = <<>> THEN 1 ELSE Last(FieldLines).last + 1
HeaderUnderstood == Understood = Len(message.lines) + 1

\* The field told is that of the lines f.
Of(field, f) == field.from = LineStart(f.first) /\ field.to = LineStart(f.last + 1)

\* The callbacks of the grammar run before it is known whether the alternative
\* they are in fits: when the parser is done, message_data has still been told
\* of the fields of the header in their order, each with the lines that are its
\* own; only a Return-Path that no Received follows is told again.  A value
\* that is not written as the name requires is told as text and costs nothing;
\* a line without a colon costs at most the line after it, or else the
\* rest of the message is refused and parse says so.
LinesUnderstood ==
  phase = "done" =>
    LET told == header_list_data
        fields == ToSet(FieldLines)
    IN  /\ \A i \in DOMAIN told : \E f \in fields : Of(told[i], f)
        /\ \A f \in fields : \E i \in DOMAIN told : Of(told[i], f)
        /\ \A i \in DOMAIN told \ {1} :
             \/ told[i - 1].to = told[i].from
             \/ told[i - 1].from = told[i].from /\ told[i].name = <<"return-path">>
        /\ HeaderUnderstood => full
        /\ Understood <= Len(message.lines) => ~full

\* Blanks around an address do not count.
Bare(address) ==
  LET NoBlanks(s) == SelectSeq(s, LAMBDA c : c \in Visible)
  IN  [local |-> NoBlanks(address.local), domain |-> NoBlanks(address.domain)]

\* A plain address is taken for the beginning of a display name when an
\* address in angle brackets follows it.
IsKept(addrs, i) == addrs[i].named \/ \A j \in i + 1 .. Len(addrs) : ~addrs[j].named

Kept(addrs) ==
  LET kept == SetToSortSeq({i \in DOMAIN addrs : IsKept(addrs, i)}, <)
  IN  [i \in DOMAIN kept |-> Bare(addrs[kept[i]])]

\* (AddressesRecovered) A value written as the name of its field requires is
\* understood, and the addresses in it are recovered as they were written, in
\* their order, with those of a group between its name and an empty address: no
\* address is made up of parts of two, and the only addresses lost are plain
\* ones in front of a named one, which display_name swallows.
AddressesRecovered ==
  \A i \in DOMAIN header_list_data, f \in DOMAIN message.lines :
    LET field == header_list_data[i]
        line  == message.lines[f]
    IN  HasColon(line) /\ line.kind # "raw" /\ field.from = LineStart(f)
          => /\ field.kind # "raw"
             /\ [j \in DOMAIN field.addrs |-> Bare(field.addrs[j])] = Kept(line.addrs)

\* Where the text of a value ends: in front of the line end of the field.
ValueEnd(field) ==
  IF field.to - 2 >= field.value /\ text[field.to - 2] = "CR" THEN field.to - 2 ELSE field.to - 1

Folds(value) == {i \in DOMAIN value : value[i] = "LF"}

\* (UnfoldingIsSafe) A value that is printed unfolded has lost no visible character, however it
\* was folded, and no line end is left in it, unless the first line has
\* nothing in it or the next fold follows a line of blanks.
UnfoldingIsSafe ==
  \A i \in DOMAIN header_list_data, f \in DOMAIN message.lines :
    LET field    == header_list_data[i]
        line     == message.lines[f]
        unfolded == Unfolded(field.value, ValueEnd(field))
        Has(s, S) == \E c \in ToSet(s) : c \in S
    IN  Of(field, [first |-> f, last |-> f])
          => /\ SelectSeq(unfolded, LAMBDA c : c \in Visible)
                  = SelectSeq(line.value, LAMBDA c : c \in Visible)
             /\ Cardinality(Folds(line.value)) = 1 /\ Head(line.value) # "CR"
                  => ~Has(unfolded, {"CR", "LF"})

\* What a field holds can be had from what message_data is told of it, by the
\* addresses of its value and by its text.
ValuesRecovered == AddressesRecovered /\ UnfoldingIsSafe

\* With the header understood, the body is told whole and without the mark
\* that ends it, whatever dots and line ends are in it; the mark is only
\* missed, and taken for the body, when there is no line in front of it: the
\* line end it needs is the one that ends the header.
BodyFound ==
  phase = "done" /\ HeaderUnderstood =>
    /\ body_prefix = message.eol
    /\ body = IF message.marked /\ IsSuffix(<<"CR", "LF">>, message.body)
              THEN SubSeq(message.body, 1, Len(message.body) - 2)
              ELSE message.body \o (IF message.marked THEN Dot ELSE <<>>)
=============================================================================
