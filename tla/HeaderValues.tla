---------------------------- MODULE HeaderValues ----------------------------
(* The header classes of headers.cpp as values: what an empty header of    *)
(* each class holds, how as7BitString() prints it, and what from7BitString *)
(* makes of it and a text.  A value is a record of the fields of the       *)
(* class's private part; the memory of the charset (encCS) is left out.    *)
(* Keywords ("inline", "base64", "poster", ...) are one symbol.            *)
(* Identifiers are US-ASCII.                                               *)
EXTENDS ParameterSyntax, DateSyntax

(* The class of each header name, HeaderFactory's table.  Every other name *)
(* makes a Generic.                                                        *)
KindOf ==
  [Bcc |-> "AddressList", Cc |-> "AddressList", ReplyTo |-> "AddressList", To |-> "AddressList",
   ContentDescription |-> "Unstructured", ContentLocation |-> "Unstructured",
   Organization |-> "Unstructured", Subject |-> "Unstructured", UserAgent |-> "Unstructured",
   ContentDisposition |-> "ContentDisposition", ContentID |-> "ContentID",
   ContentTransferEncoding |-> "ContentTransferEncoding", ContentType |-> "ContentType",
   Control |-> "Control", Date |-> "Date", FollowUpTo |-> "Newsgroups", Newsgroups |-> "Newsgroups",
   From |-> "MailboxList", Sender |-> "SingleMailbox", ReturnPath |-> "ReturnPath",
   InReplyTo |-> "Ident", References |-> "Ident", MessageID |-> "SingleIdent",
   Supersedes |-> "SingleIdent", Keywords |-> "PhraseList", Lines |-> "Lines",
   MailCopiesTo |-> "MailCopiesTo", MIMEVersion |-> "DotAtom"]

createHeader(type) == IF type \in DOMAIN KindOf THEN KindOf[type] ELSE "Unstructured"

NoSpec    == AddrSpecOf(<<>>, <<>>)
NoMailbox == MailboxOf(<<>>, NoSpec)
NoDate    == [date |-> [year |-> 0, month |-> 0, day |-> 0],
              time |-> [hour |-> 0, min |-> 0, sec |-> 0, offset |-> 0]]

Empty(kind) ==
  CASE kind = "Unstructured" -> [decoded |-> <<>>]
    [] kind = "MailboxList"  -> [mailboxList |-> <<>>]
    [] kind = "AddressList"  -> [addressList |-> <<>>]
    [] kind = "MailCopiesTo" -> [addressList |-> <<>>, always |-> FALSE, never |-> FALSE]
    [] kind \in {"SingleMailbox", "ReturnPath"} -> [mailbox |-> NoMailbox]
    [] kind = "Ident" -> [msgIdList |-> <<>>]
    [] kind \in {"SingleIdent", "ContentID"} -> [msgId |-> NoSpec, cachedIdentifier |-> <<>>]
    [] kind = "PhraseList" -> [phraseList |-> <<>>]
    [] kind = "DotAtom"    -> [dotAtom |-> <<>>]
    [] kind = "ContentTransferEncoding" -> [token |-> <<>>, cte |-> "7Bit"]
    [] kind = "ContentType" -> [mimeType |-> <<>>, params |-> NoParameters]
    [] kind = "ContentDisposition" -> [disposition |-> "invalid", params |-> NoParameters]
    [] kind = "Control"    -> [name |-> <<>>, parameter |-> <<>>]
    [] kind = "Date"       -> [dateTime |-> NoDate]
    [] kind = "Newsgroups" -> [groups |-> <<>>]
    [] OTHER               -> [lines |-> -1]

-----------------------------------------------------------------------------
(* KCodecs::encodeRFC2047String, external: the words from the first to the *)
(* last that hold a character of which become one encoded word.            *)
EncodeRFC2047(text, which) ==
  LET need == {i \in DOMAIN text : text[i] \in which}
      n    == Len(text)
      from == CHOOSE i \in 1..n : /\ \A k \in need : i <= k
                                  /\ i = 1 \/ text[i - 1] = " "
                                  /\ \E k \in need : \A j \in i..k : text[j] # " "
      to   == CHOOSE i \in 1..n : /\ \A k \in need : k <= i
                                  /\ i = n \/ text[i + 1] = " "
                                  /\ \E k \in need : \A j \in k..i : text[j] # " "
      word == Encode(SubSeq(text, from, to), QCode, HasCode \ {" "})
      spaceless == [i \in DOMAIN word |-> IF word[i] = " " THEN "_" ELSE word[i]]
  IN IF need = {} THEN text
     ELSE SubSeq(text, 1, from - 1) \o <<"=", "?">> \o Charset \o <<"?", "q", "?">>
          \o spaceless \o <<"?", "=">> \o SubSeq(text, to + 1, n)

EightBit == {"8bit"}

(* encodeRFC2047Sentence: word by word between the reserved characters.    *)
SentenceReserved == {"\"", "(", ")", "<", ">", "@", ",", ".", ";", ":", "\\", "[", "]", "="}

RECURSIVE Sentence(_, _)
Sentence(text, i) ==
  LET j == Until(text, i, SentenceReserved)
  IN IF i > Len(text) THEN <<>>
     ELSE EncodeRFC2047(Cut(text, i, j), EightBit)
          \o (IF j > Len(text) THEN <<>> ELSE <<text[j]>> \o Sentence(text, j + 1))

(* addr_spec_as_string, Mailbox::as7BitString and prettyAddress.           *)
AddrString(spec) ==
  LET plain == \A i \in DOMAIN spec.local : spec.local[i] = "." \/ IsAText(spec.local[i])
      local == IF plain THEN spec.local ELSE <<"\"">> \o Backslashed(spec.local) \o <<"\"">>
  IN IF spec.domain = <<>> THEN IF spec = NoSpec THEN <<>> ELSE local
     ELSE local \o <<"@">> \o spec.domain

SpecOf(m) == AddrSpecOf(m.local, m.domain)

Angled(name, m) ==
  name \o (IF SpecOf(m) = NoSpec THEN <<>>
           ELSE <<" ", "<">> \o AddrString(SpecOf(m)) \o <<">">>)

\* Mutant: a name that is encoded keeps its reserved characters.
PrintEightBit(name) == IF IsUsAscii(name) THEN AddQuotes(name, FALSE)
                       ELSE EncodeRFC2047(name, EightBit)

PrintName(name) == IF IsUsAscii(name) THEN AddQuotes(name, FALSE)
                   ELSE EncodeRFC2047(name, EightBit \cup Reserved)

PrintMailbox(m) ==
  IF m.name = <<>> THEN AddrString(SpecOf(m)) ELSE Angled(PrintName(m.name), m)

PrettyAddress(m) ==
  IF m.name = <<>> THEN AddrString(SpecOf(m)) ELSE Angled(AddQuotes(m.name, FALSE), m)

Comma == <<",", " ">>
Boxes(addresses) == Seqs!FlattenSeq([i \in DOMAIN addresses |-> addresses[i].boxes])
PrintBoxes(list) == Joined([i \in DOMAIN list |-> PrintMailbox(list[i])], Comma)

PrintIdent(spec) == IF spec = NoSpec THEN <<>> ELSE <<"<">> \o AddrString(spec) \o <<">">>

WithParameters(head, params) ==
  IF params = NoParameters THEN head ELSE head \o <<";", " ">> \o PrintParameters(params)

RECURSIVE PrintNumber(_)
PrintNumber(n) ==
  (IF n < 10 THEN <<>> ELSE PrintNumber(n \div 10)) \o <<DigitNames[(n % 10) + 1]>>

isEmpty(kind, v) ==
  CASE kind \in {"SingleMailbox", "ReturnPath"} -> v.mailbox = NoMailbox
    [] kind \in {"SingleIdent", "ContentID"} -> v.msgId = NoSpec
    [] kind = "ContentTransferEncoding" -> FALSE
    [] kind = "ContentType" -> v.mimeType = <<>>
    [] kind = "ContentDisposition" -> v.disposition = "invalid"
    [] kind = "Control" -> v.name = <<>>
    [] OTHER -> v = Empty(kind)

(* as7BitString() of each class, for a header that is not empty.           *)
PrintUnstructured(v)  == EncodeRFC2047(v.decoded, EightBit)
PrintMailboxList(v)   == PrintBoxes(v.mailboxList)
PrintAddressList(v)   == PrintBoxes(Boxes(v.addressList))
PrintMailCopiesTo(v)  == IF v.addressList # <<>> THEN PrintAddressList(v)
                         ELSE IF v.always THEN <<"poster">> ELSE <<"nobody">>
PrintSingleMailbox(v) == PrintMailbox(v.mailbox)
PrintReturnPath(v)    == <<"<">> \o PrintMailbox(v.mailbox) \o <<">">>
PrintIdents(v)        == LET Real(spec) == spec # NoSpec
                             ids == SelectSeq(v.msgIdList, Real)
                         IN Joined([i \in DOMAIN ids |-> PrintIdent(ids[i])], <<" ">>)
PrintSingleIdent(v)   == PrintIdent(v.msgId)
PrintPhraseList(v)    == Joined([i \in DOMAIN v.phraseList |->
                                   EncodeRFC2047(v.phraseList[i], EightBit)], Comma)
PrintDotAtom(v)       == v.dotAtom
PrintEncoding(v)      == IF v.token = <<>> THEN <<v.cte>> ELSE v.token
PrintContentType(v)   == WithParameters(v.mimeType, v.params)
PrintDisposition(v)   == WithParameters(<<v.disposition>>, v.params)
PrintControl(v)       == v.name \o (IF v.parameter = <<>> THEN <<>> ELSE <<" ">> \o v.parameter)
PrintNewsgroups(v)    == Joined(v.groups, <<",">>)
PrintLines(v)         == PrintNumber(v.lines)

as7BitString(kind, v) ==
  CASE isEmpty(kind, v) -> <<>>
    [] kind = "Unstructured"  -> PrintUnstructured(v)
    [] kind = "MailboxList"   -> PrintMailboxList(v)
    [] kind = "AddressList"   -> PrintAddressList(v)
    [] kind = "MailCopiesTo"  -> PrintMailCopiesTo(v)
    [] kind = "SingleMailbox" -> PrintSingleMailbox(v)
    [] kind = "ReturnPath"    -> PrintReturnPath(v)
    [] kind = "Ident"         -> PrintIdents(v)
    [] kind \in {"SingleIdent", "ContentID"} -> PrintSingleIdent(v)
    [] kind = "PhraseList"    -> PrintPhraseList(v)
    [] kind = "DotAtom"       -> PrintDotAtom(v)
    [] kind = "ContentTransferEncoding" -> PrintEncoding(v)
    [] kind = "ContentType"   -> PrintContentType(v)
    [] kind = "ContentDisposition" -> PrintDisposition(v)
    [] kind = "Control"       -> PrintControl(v)
    [] kind = "Date"          -> PrintDateTime(v.dateTime)
    [] kind = "Newsgroups"    -> PrintNewsgroups(v)
    [] OTHER                  -> PrintLines(v)

-----------------------------------------------------------------------------
(* The parse() methods.  Each takes the value v the header has, for some   *)
(* keep it, or a part of it, when the text is no value of theirs.          *)
After(s, i) == EatCFWS(s, i, Fresh(TRUE)).at

ListFields(v, a) ==
  IF ~a.ok THEN v
  ELSE IF "mailboxList" \in DOMAIN v THEN [v EXCEPT !.mailboxList = Boxes(a.val)]
  ELSE [v EXCEPT !.addressList = a.val]

AddressesParse(v, s) == ListFields(v, AddressList(s, TRUE))

MailCopiesToParse(v, s) ==
  IF s \in {<<"always">>, <<"poster">>} THEN [v EXCEPT !.always = TRUE]
  ELSE IF s \in {<<"never">>, <<"nobody">>} THEN [v EXCEPT !.never = TRUE]
  ELSE AddressesParse(v, s)

(* SingleMailbox wants nothing behind its mailbox, ReturnPath also reads   *)
(* "<>".                                                                   *)
OneMailbox(v, s, m) == IF m.ok /\ After(s, m.at) > Len(s) THEN [mailbox |-> m.val] ELSE v

SingleMailboxParse(v, s) == OneMailbox(v, s, Mailbox(s, 1, Fresh(TRUE)))

PathOrNone(v, s, i, m) ==
  IF m.ok THEN [mailbox |-> m.val]
  ELSE IF At(s, i) = "<" /\ At(s, After(s, i + 1)) = ">" THEN [mailbox |-> NoMailbox] ELSE v

PathAt(v, s, i) == IF At(s, i) = "end" THEN v ELSE PathOrNone(v, s, i, Mailbox(s, i, Fresh(TRUE)))

ReturnPathParse(v, s) == PathAt(v, s, After(s, 1))

(* Lists separated by commas, of which a failure keeps what came before.   *)
Item(class, s, i, st) == IF class = "Ident" THEN AngleAddr(s, i, st) ELSE Phrase(s, i, st)

RECURSIVE ListOf(_, _, _, _, _)

BehindItem(class, s, e, list) ==
  ListOf(class, s, IF At(s, e.at) = "," THEN e.at + 1 ELSE e.at, list, e.st)

OneItem(class, s, x, list) ==
  IF x.ok THEN BehindItem(class, s, EatCFWS(s, x.at, x.st), Append(list, x.val)) ELSE list

ListAt(class, s, e, list) ==
  IF At(s, e.at) = "end" THEN list
  ELSE IF s[e.at] = "," THEN ListOf(class, s, e.at + 1, list, e.st)
  ELSE OneItem(class, s, Item(class, s, e.at, e.st), list)

ListOf(class, s, i, list, st) == ListAt(class, s, EatCFWS(s, i, st), list)

Identified(s, a) == [msgId |-> IF a.ok /\ After(s, a.at) > Len(s) THEN a.val ELSE NoSpec,
                     cachedIdentifier |-> <<>>]

SingleIdentParse(s) == Identified(s, AngleAddr(s, 1, Fresh(TRUE)))

(* ContentID::parse: when it is no message identifier, "<" dot-atom ">",   *)
(* or a list of them of which the last one counts.                         *)
RECURSIVE LooseIdent(_, _, _)

BehindIdent(s, i, id) == LooseIdent(s, IF At(s, i) = "," THEN i + 1 ELSE i, id)

CloseIdent(s, i, d, id) ==
  IF d.ok /\ At(s, i) = ">" THEN BehindIdent(s, After(s, i + 1), AddrSpecOf(d.val, <<>>)) ELSE id

InsideIdent(s, d, id) == CloseIdent(s, After(s, d.at), d, id)

IdentAt(s, i, id) ==
  IF At(s, i) = "," THEN LooseIdent(s, i + 1, id)
  ELSE IF At(s, i) = "<" THEN InsideIdent(s, DotAtom(s, After(s, i + 1), Fresh(TRUE)), id)
  ELSE id

LooseIdent(s, i, id) == IdentAt(s, After(s, i), id)

ContentIDParse(s, v) ==
  IF v.msgId # NoSpec THEN v ELSE [v EXCEPT !.msgId = LooseIdent(s, 1, NoSpec)]

IdentParse(class, s) ==
  IF class = "ContentID" THEN ContentIDParse(s, SingleIdentParse(s)) ELSE SingleIdentParse(s)

DotAtomField(v, d) == IF d.ok THEN [dotAtom |-> d.val] ELSE v

DotAtomParse(v, s) == DotAtomField(v, DotAtom(s, 1, Fresh(TRUE)))

encTable == {"7Bit", "8Bit", "quoted-printable", "base64", "x-uuencode", "binary"}

EncodingOf(token) ==
  IF token # <<>> /\ token[1] \in encTable /\ Len(token) = 1
    THEN [token |-> <<>>, cte |-> token[1]] ELSE [token |-> token, cte |-> "7Bit"]

TokenAt(s, i) == Cut(s, i, TokenEnd(s, i, {}))

ContentTransferEncodingParse(s) == EncodingOf(TokenAt(s, After(s, 1)))

(* Parametrized::parse, after the ";" at i - 1.                            *)
ParametersOf(p) == IF p.ok THEN p.val ELSE NoParameters

AfterSemicolon(s, i) ==
  IF At(s, i) = ";" THEN ParametersOf(ParameterList(s, i + 1, TRUE)) ELSE NoParameters

SubtypeAt(s, i, end, type) ==
  IF type = <<>> \/ end = i THEN Empty("ContentType")
  ELSE [mimeType |-> Lower(type \o <<"/">> \o Cut(s, i, end)),
        params   |-> AfterSemicolon(s, After(s, end))]

BehindSlash(s, i, type) == SubtypeAt(s, i, TokenEnd(s, i, {}), type)

SlashAt(s, i, type) ==
  IF At(s, i) = "/" THEN BehindSlash(s, After(s, i + 1), type) ELSE Empty("ContentType")

TypeAt(s, i, end) == SlashAt(s, After(s, end), Cut(s, i, end))

DispositionAt(s, i, end) ==
  IF Cut(s, i, end) \in {<<"inline">>, <<"attachment">>}
    THEN [disposition |-> s[i], params |-> AfterSemicolon(s, After(s, end))]
    ELSE Empty("ContentDisposition")

MimeAt(class, s, i) == IF class = "ContentType" THEN TypeAt(s, i, TokenEnd(s, i, {}))
                                                ELSE DispositionAt(s, i, TokenEnd(s, i, {}))

ContentTypeParse(s)        == MimeAt("ContentType", s, After(s, 1))
ContentDispositionParse(s) == MimeAt("ContentDisposition", s, After(s, 1))

NameAt(s, i, end) == [name |-> Cut(s, i, end), parameter |-> SubSeq(s, After(s, end), Len(s))]

ControlAt(s, i) == NameAt(s, i, Until(s, i, Blank))

ControlParse(s) == ControlAt(s, After(s, 1))

(* parseDateTime, else parseQDateTime.                                     *)
DateField(d)    == [dateTime |-> IF d.ok THEN d.val ELSE NoDate]
DateOrQt(s, d)  == IF d.ok THEN DateField(d) ELSE DateField(QDateTime(s))
DateParse(s)    == DateOrQt(s, DateTime(s))

RECURSIVE NewsgroupsParse(_, _, _, _)

OneNewsgroup(s, f, end, groups) ==
  NewsgroupsParse(s, end, IF end > f.at THEN Append(groups, Cut(s, f.at, end)) ELSE groups, f.st)

NewsgroupAt(s, f, groups) ==
  IF At(s, f.at) = "end" THEN groups
  ELSE OneNewsgroup(s, f, Until(s, f.at, Blank \cup {","}), groups)

BehindGroup(s, e, groups) ==
  NewsgroupAt(s, IF At(s, e.at) = "," THEN EatCFWS(s, e.at + 1, e.st) ELSE e, groups)

NewsgroupsParse(s, i, groups, st) == BehindGroup(s, EatCFWS(s, i, st), groups)

LinesField(d) == [lines |-> IF d.n = 0 THEN -1 ELSE d.val]

LinesParse(s) == LinesField(Digits(s, After(s, 1)))

from7BitString(kind, v, s) ==
  CASE kind = "Unstructured"  -> [decoded |-> DecodeRFC2047(s, 1)]
    [] kind \in {"MailboxList", "AddressList"} -> AddressesParse(v, s)
    [] kind = "MailCopiesTo"  -> MailCopiesToParse(Empty(kind), s)
    [] kind = "SingleMailbox" -> SingleMailboxParse(v, s)
    [] kind = "ReturnPath"    -> ReturnPathParse(v, s)
    [] kind = "Ident"         -> [msgIdList |-> ListOf(kind, s, 1, <<>>, Fresh(TRUE))]
    [] kind \in {"SingleIdent", "ContentID"} -> IdentParse(kind, s)
    [] kind = "PhraseList"    -> [phraseList |-> ListOf(kind, s, 1, <<>>, Fresh(TRUE))]
    [] kind = "DotAtom"       -> DotAtomParse(v, s)
    [] kind = "ContentTransferEncoding" -> ContentTransferEncodingParse(s)
    [] kind = "ContentType"   -> ContentTypeParse(s)
    [] kind = "ContentDisposition" -> ContentDispositionParse(s)
    [] kind = "Control"       -> ControlParse(s)
    [] kind = "Date"          -> DateParse(s)
    [] kind = "Newsgroups"    -> [groups |-> NewsgroupsParse(s, 1, <<>>, Fresh(TRUE))]
    [] OTHER                  -> LinesParse(s)
=============================================================================
