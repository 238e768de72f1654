---------------------------- MODULE Rfc2822Grammar ----------------------------
(***************************************************************************)
(* common/rfc822/rfc2822_grammar.h: the first grammar of messages, which   *)
(* knows what is written in the header fields.  Characters are words (of   *)
(* letters and digits, the names of fields among them), blanks, CR, LF and *)
(* punctuation marks.  Of the rules, those that `top' reaches are here.    *)
(***************************************************************************)
EXTENDS ParsingExpressions, EndOfData

CONSTANT Words

Blank == {" "}
Marks == {":", "@", "<", ">", ",", ";", ".", "/", "=", "(", ")", "[", "]", "quote", "backslash"}
Visible == Words \cup Marks
Tokens == Visible \cup Blank \cup {"CR", "LF"}

ASSUME WordsAreNoMarks == Words \cap (Marks \cup Blank \cup {"CR", "LF"}) = {}

Wsp == Char(Blank)
FaultyCrlf == Char({"CR"}) ** Char({"LF"})   \* a message without CR is not mended
\* "fixing messages without CR"
Crlf == Opt(Char({"CR"})) ** Char({"LF"})
-----------------------------------------------------------------------------
\* Text, white space and comments.
LoneCr == [p \in Pos |-> IF Crlf[p] = Fail THEN Char({"CR"})[p] ELSE Fail]
ObsText == LoneCr^* ** (Char(Visible \cup Blank) ** LoneCr^*)^+
QuotedPair == Char({"backslash"}) ** (Char(Visible \cup Blank) | ObsText | Char(Tokens))

Fws == (Crlf ** Wsp^+) | (Wsp^+ ** Opt(Crlf ** Wsp^+))

Comment ==
  LET comment[p \in Pos] ==
        LET ccontent == Char(Visible \ {"(", ")", "backslash"}) | QuotedPair | comment
        IN  (Char({"("}) ** (Opt(Fws) ** ccontent)^* ** Opt(Fws) ** Char({")"}))[p]
  IN  comment

Cfws == ((Opt(Fws) ** Comment)^+ ** Opt(Fws)) | Fws

\* f with d on either side of it, or not.
Amid(f, d) == Opt(d) ** f ** Opt(d)
InCfws(f) == Amid(f, Cfws)

Atext == Char(Words \cup {"/", "="})
DotAtom == InCfws((Atext^+ ** (Char({"."}) ** Atext^+)^*)^+)
Atom == InCfws(Atext^+)

Qcontent == Char(Visible \ {"quote", "backslash"}) | QuotedPair
QuotedString ==
  InCfws(Char({"quote"}) ** (Opt(Fws) ** Qcontent)^* ** Opt(Fws) ** Char({"quote"}))

\* "dirty fix for corrupted headers from gmail": a line without a colon.
BadHeader == Crlf ** Char(Tokens \ {":", "CR", "LF"})^+ ** Crlf

Utext == Char(Visible) | ObsText
Unstructured ==
  ((Opt(Fws | BadHeader) ** Utext ** Wsp^*) | (Crlf ** Wsp^+))^* ** Opt(Fws | BadHeader)
-----------------------------------------------------------------------------
\* Addresses.
Comma == Char({","})

DomainLiteral ==
  InCfws(Char({"["}) ** (Opt(Fws) ** (Char(Visible \ {"[", "]", "backslash"}) | QuotedPair))^*
         ** Opt(Fws) ** Char({"]"}))
Domain ==
  (InCfws(Atext) | Char({"."}))^+ | DomainLiteral | List(Atom, Char({"."}))
LocalPart == DotAtom | QuotedString | List(Atom | QuotedString, Char({"."}))

AddrSpec == LocalPart ** Char({"@"}) ** Domain
AngleAddr == InCfws(Char({"<"}) ** AddrSpec ** Char({">"}))

\* "some agents uses dots in display name": all there is up to the next "<".
DisplayName == (QuotedString | Char(Tokens \ {"CR", "LF", "<", ":"}) | Cfws)^+
NameAddr == Opt(DisplayName) ** AngleAddr
Mailbox == NameAddr | AddrSpec
MailboxList == List(Mailbox, Comma)

Group ==
  DisplayName ** Char({":"}) ** Opt(Fws) ** Opt(MailboxList | Cfws) ** Char({";"}) ** Opt(Cfws)
Address == Mailbox | Group
AddressList == List(Address, Comma)

\* What is between two places.
Between(from, to) == SubSeq(text, from, to - 1)

\* The results: address_type of an address at p, and the list for addresses at
\* these places, where a group is its name, its members and an empty address.
AddressOf(from, at, to) == [local |-> Between(from, at), domain |-> Between(at + 1, to)]
AddrSpecAt(p) == AddressOf(p, LocalPart[p], AddrSpec[p])
FaultyMailboxAt(p) ==   \* the address is looked for in front of the name
  AddrSpecAt(IF NameAddr[p] = Fail THEN p ELSE Opt(Cfws)[p])
MailboxAt(p) ==
  AddrSpecAt(IF NameAddr[p] = Fail THEN p ELSE (Opt(DisplayName) ** Opt(Cfws) ** Char({"<"}))[p])

MembersAt(p) == Elements(Mailbox, Comma, (DisplayName ** Char({":"}) ** Opt(Fws))[p])
NoAddress == [local |-> <<>>, domain |-> <<>>]
GroupOf(name, members) ==
  <<[local |-> name, domain |-> <<>>]>> \o [i \in DOMAIN members |-> MailboxAt(members[i])]
  \o <<NoAddress>>
AddressesAt(places) ==
  FlattenSeq([i \in DOMAIN places |->
    IF Mailbox[places[i]] # Fail THEN <<MailboxAt(places[i])>>
    ELSE GroupOf(Between(places[i], DisplayName[places[i]]), MembersAt(places[i]))])
-----------------------------------------------------------------------------
\* MIME fields.
Mtext == Visible \ {";"}
ContentType == Char(Mtext \ {"/"})^+ ** Char({"/"}) ** Char(Mtext)^+
MimeValue == QuotedString | Char(Tokens \ {"CR", "LF", ";", "="})^*
MimeParam ==
  InCfws(Char(Words \cup {"."})^+ ** Amid(Char({"="}), Fws) ** MimeValue)
MimeParams ==
  Opt(Opt(Cfws) ** Char({";"})
      ** Opt(InCfws(List(MimeParam, Char({";"}))) ** Opt(Char({";"}))))
MimeWith(value) == InCfws(value ** MimeParams)
MimeContentType == MimeWith(ContentType)
MimeWithParams == MimeWith(Char(Mtext)^+)
-----------------------------------------------------------------------------
\* Header fields: what may be written in the fields of a name, in the order
\* in which the alternatives are tried.
MailboxFields == {"sender", "resent-sender"}
MailboxListFields == {"from", "resent-from"}
AddressListFields == {"to", "reply-to", "cc", "bcc", "resent-to", "resent-cc", "resent-bcc"}
RawFields ==
  {"date", "message-id", "subject", "in-reply-to", "references", "comments", "keywords",
   "resent-date", "resent-message-id", "return-path", "received"}
ResentFields ==
  {"resent-date", "resent-from", "resent-sender", "resent-to", "resent-cc", "resent-bcc",
   "resent-message-id"}
TraceFields == {"return-path", "received"}
ContentFields == {"content-type", "content-id"}   \* "content-" and something

ValueOf(kind) ==
  CASE kind = "mailbox"      -> Mailbox
    [] kind = "mailboxes"    -> MailboxList
    [] kind = "addresses"    -> AddressList
    [] kind = "content type" -> MimeContentType
    [] kind = "mime"         -> MimeWithParams
    [] OTHER                 -> Unstructured

\* header_field_p
Field(name, kind) == name ** Char({":"}) ** ValueOf(kind) ** Crlf

\* The alternatives of a set of fields, as names and kinds.
Alternatives(names) ==
  <<[name |-> Char(names \cap {"content-type"}),    kind |-> "content type"],
    [name |-> Char(names \cap ContentFields),       kind |-> "mime"],
    [name |-> Char(names \cap RawFields),           kind |-> "raw"],
    [name |-> Char(names \cap MailboxFields),       kind |-> "mailbox"],
    [name |-> Char(names \cap MailboxListFields),   kind |-> "mailboxes"],
    [name |-> Char(names \cap AddressListFields),   kind |-> "addresses"]>>

FieldSet1 == Alternatives(ResentFields)
\* optional_field, of any name, comes last.
FieldSet2 ==
  Alternatives((RawFields \cup MailboxFields \cup MailboxListFields \cup AddressListFields
                  \cup ContentFields) \ (ResentFields \cup TraceFields))
  \o <<[name |-> Char(Visible \ {":"})^+, kind |-> "raw"]>>

\* field_data: the alternative fits from p to `to', with its value at v.
FieldData(alternative, p, v, to) ==
  [name  |-> Between(p, v - 1),
   kind  |-> alternative.kind,
   from  |-> p,
   value |-> v,
   to    |-> to,
   addrs |-> AddressesAt(
               CASE alternative.kind = "mailbox"   -> <<v>>
                 [] alternative.kind = "mailboxes" -> Elements(Mailbox, Comma, v)
                 [] alternative.kind = "addresses" -> Elements(Address, Comma, v)
                 [] OTHER                          -> <<>>)]

\* The first of the alternatives that is a field at p, where `ends' tells up
\* to where each of them is one; at most one.
Taken(set, p, ends) ==
  LET i == Min({j \in DOMAIN set : ends[j] # Fail})
  IN  IF \A j \in DOMAIN set : ends[j] = Fail THEN <<>>
      ELSE <<FieldData(set[i], p, set[i].name[p] + 1, ends[i])>>

FieldsAt(set, p) ==
  Taken(set, p, [i \in DOMAIN set |-> Field(set[i].name, set[i].kind)[p]])
-----------------------------------------------------------------------------
\* unfolding_iterator: from p, in front of `to', a line end with blanks after
\* it is passed over together with them; the first character is not looked at.
NextUnfolded(p, to) ==
  LET q  == p + 1
      lf == IF q < to /\ text[q] = "CR" THEN q + 1 ELSE q
  IN  IF lf + 1 < to /\ text[lf] = "LF" /\ text[lf + 1] \in Blank
      THEN Min({k \in lf + 2 .. to : k = to \/ text[k] \notin Blank})
      ELSE q

Unfolded(from, to) ==
  LET rest[p \in from .. to] == IF p = to THEN <<>> ELSE <<text[p]>> \o rest[NextUnfolded(p, to)]
  IN  rest[from]
-----------------------------------------------------------------------------
\* smtp_body ends in front of the end mark, or takes all there is; smtp_end
\* goes from the mark to the end of the input.
FaultySmtpBody(p) ==   \* the end mark is left in the body
  LET a == ScannedAll(NotScanned, SubSeq(text, p, Len(text))) IN p + a.taken
SmtpBody(p) ==
  LET a == ScannedAll(NotScanned, SubSeq(text, p, Len(text)))
  IN  IF a.state = "lf2" THEN p + a.last ELSE Len(text) + 1

SmtpEnd(p) ==
  IF p + 4 <= Len(text) /\ SubSeq(text, p, p + 4) = EndMark THEN Len(text) + 1 ELSE Fail
=============================================================================
