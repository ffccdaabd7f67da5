---------------------------- MODULE HeaderObjects ----------------------------
(* A header object (Headers::Base and the classes under it): it is made by *)
(* name, filled from a text or by the setters of its class, printed, and   *)
(* cloned by printing it and reading the print into a new object of the    *)
(* same name (HeaderFactory::clone).                                       *)
EXTENDS HeaderValues, FiniteSets

CONSTANTS Types,        \* the names of the headers that are made
          Texts,          \* for every class, the texts its objects are given
          Mailboxes, Groups,          \* arguments of the setters: mailboxes and address groups,
          Addresses,                  \*   addresses as text, with or without angle brackets,
          Names, Words,               \*   short names of all kinds, parameter values and tokens
          Dates, Numbers,             \*   dates, and numbers of lines
          MaxEntries                \* bound: entries a setter makes a list have

VARIABLES header,       \* [type, val]: its name and the fields of its class
          text          \* the text it was read from, NoText when a setter was called since

vars == <<header, text>>

NoText == <<"none">>
kind   == createHeader(header.type)
val    == header.val

Set(field, x) == header' = [header EXCEPT !.val = [@ EXCEPT ![field] = x]] /\ text' = NoText

Init == /\ \E t \in Types : header = [type |-> t, val |-> Empty(createHeader(t))]
        /\ text = NoText

-----------------------------------------------------------------------------
(* Reading.                                                                *)
From7BitString(s) ==
  /\ header' = [header EXCEPT !.val = from7BitString(kind, @, s)]
  /\ text' = s

WithAddresses == {"MailboxList", "SingleMailbox", "AddressList", "MailCopiesTo"}

(* fromUnicodeString(), where it differs from from7BitString().            *)
FromUnicodeString(s) ==
  \/ kind = "Unstructured" /\ Set("decoded", s)
  \/ kind \in WithAddresses /\ From7BitString(Sentence(s, 1))

CloneOf(h, class) ==
  [type |-> h.type, val |-> from7BitString(class, Empty(class), as7BitString(class, h.val))]

Clone(h) == CloneOf(h, createHeader(h.type))

CloneHeader == header' = Clone(header) /\ text' = as7BitString(kind, val)

-----------------------------------------------------------------------------
(* Addresses.  stringToMailbox tries an angle-addr, then an addr-spec from *)
(* where the first try stopped.                                            *)
AngleOrSpec(address, a) == IF a.ok THEN a ELSE AddrSpec(address, a.at, a.st)

StringToMailbox(address) == AngleOrSpec(address, AngleAddr(address, 1, Fresh(TRUE)))

AddMailbox(m) ==
  \/ /\ kind = "MailboxList" /\ Len(val.mailboxList) < MaxEntries
     /\ Set("mailboxList", Append(val.mailboxList, m))
  \/ /\ kind \in {"AddressList", "MailCopiesTo"} /\ Len(val.addressList) < MaxEntries
     /\ Set("addressList", Append(val.addressList, AddressOf(<<>>, <<m>>)))

AddSpec(spec, name) == spec.ok /\ AddMailbox(MailboxOf(name, spec.val))

AddAddress(address, name) == AddSpec(StringToMailbox(address), name)

SetMailbox(m) == kind = "SingleMailbox" /\ Set("mailbox", m)

SetAddressList(list) == kind \in {"AddressList", "MailCopiesTo"} /\ Set("addressList", list)

CopyTo(always) == /\ kind = "MailCopiesTo"
                  /\ header' = [header EXCEPT !.val = [addressList |-> <<>>, always |-> always,
                                                       never |-> ~always]]
                  /\ text' = NoText
SetAlwaysCopy == CopyTo(TRUE)
SetNeverCopy  == CopyTo(FALSE)

(* Identifiers, with or without angle brackets.  identifier() keeps what   *)
(* it returns.                                                             *)
Bracketed(id) ==
  (IF id # <<>> /\ Head(id) = "<" THEN <<>> ELSE <<"<">>) \o id \o
  (IF EndsWith(id, ">") THEN <<>> ELSE <<">">>)

IdentifierSpec(id) == AngleAddr(Bracketed(id), 1, Fresh(TRUE))

AppendSpec(a) == a.ok /\ Set("msgIdList", Append(val.msgIdList, a.val))

AppendIdentifier(id) ==
  kind = "Ident" /\ Len(val.msgIdList) < MaxEntries /\ AppendSpec(IdentifierSpec(id))

IsSingleIdent == kind \in {"SingleIdent", "ContentID"}

SpecOrNone(a) == IF a.ok THEN a.val ELSE NoSpec

\* Mutant: the kept identifier is not reset.
SetIdentifierOnly(id) == IsSingleIdent /\ Set("msgId", SpecOrNone(IdentifierSpec(id)))

SetIdentifier(id) ==
  /\ IsSingleIdent
  /\ header' = [header EXCEPT !.val = [msgId |-> SpecOrNone(IdentifierSpec(id)),
                                       cachedIdentifier |-> <<>>]]
  /\ text' = NoText

Identifier == /\ IsSingleIdent /\ val.msgId # NoSpec /\ val.cachedIdentifier = <<>>
              /\ header' = [header EXCEPT !.val.cachedIdentifier = AddrString(val.msgId)]
              /\ UNCHANGED text

-----------------------------------------------------------------------------
(* The other setters.                                                      *)
SetParameter(name, value) ==
  /\ kind \in {"ContentType", "ContentDisposition"}
  /\ Cardinality(DOMAIN val.params \cup {name}) <= MaxEntries
  /\ Set("params", PutAnyCase(val.params, name, value))

SetMimeType(mimeType) == kind = "ContentType" /\ Set("mimeType", mimeType)

SetDisposition(d) == kind = "ContentDisposition" /\ Set("disposition", d)

SetEncoding(e) == /\ kind = "ContentTransferEncoding"
                  /\ header' = [header EXCEPT !.val = [token |-> <<>>, cte |-> e]]
                  /\ text' = NoText

SetToken(t) == kind = "ContentTransferEncoding" /\ Set("token", t)

SetCancel(id) == /\ kind = "Control"
                 /\ header' = [header EXCEPT !.val = [name |-> <<"cancel">>, parameter |-> id]]
                 /\ text' = NoText

SetDateTime(d) == kind = "Date" /\ Set("dateTime", d)

SetGroups(groups) == kind = "Newsgroups" /\ Set("groups", groups)

SetNumberOfLines(n) == kind = "Lines" /\ Set("lines", n)

Read == \/ \E s \in Texts[kind] : From7BitString(s) \/ FromUnicodeString(s)
        \/ CloneHeader

SetAddresses == \/ \E m \in Mailboxes : AddMailbox(m) \/ SetMailbox(m)
                \/ \E a \in Addresses, n \in Names : AddAddress(a, n)
                \/ \E g \in Groups : SetAddressList(<<g>>)
                \/ SetAlwaysCopy \/ SetNeverCopy
                \/ \E a \in Addresses : AppendIdentifier(a) \/ SetIdentifier(a)
                \/ Identifier

SetOther == \/ \E n \in Names, w \in Words : SetParameter(n, w)
            \/ \E n \in Names : SetMimeType(n \o <<"/">> \o n) \/ SetGroups(<<n, n>>)
            \/ \E d \in {"invalid", "inline", "attachment"} : SetDisposition(d)
            \/ \E e \in encTable : SetEncoding(e)
            \/ \E w \in Words : SetToken(w) \/ SetCancel(w)
            \/ \E d \in Dates : SetDateTime(d)
            \/ \E n \in Numbers : SetNumberOfLines(n)

Next == Read \/ SetAddresses \/ SetOther

Spec == Init /\ [][Next]_vars
-----------------------------------------------------------------------------
(* Values that survive being printed, by class.  What they leave out is    *)
(* lost or changed: see the README.                                        *)
DotText(t) == /\ t # <<>> /\ t[1] # "." /\ \A i \in DOMAIN t : t[i] = "." \/ IsAText(t[i])
              /\ \A i \in 1..Len(t) - 1 : ~(t[i] = "." /\ t[i + 1] = ".")

CleanText(t) == ~ContainsWord(t) /\ \A i \in DOMAIN t : t[i] # "\n"

(* A name that is not quoted is a phrase of words with single spaces.      *)
CleanPhrase(t) == /\ CleanText(t)
                  /\ \A i \in DOMAIN t : t[i] = " " =>
                       1 < i /\ i < Len(t) /\ t[i + 1] # " "
Unreserved(t)  == \A i \in DOMAIN t : t[i] \notin Reserved

CleanName(t) == CleanPhrase(t) /\ StripQuotes(t) = t
CleanSpec(a) == DotText(a.domain) /\ a.local # <<>> /\ CleanText(a.local)
CleanBox(m)  == CleanName(m.name) /\ CleanSpec(SpecOf(m))
CleanAddress(a) == a.group = <<>> /\ Len(a.boxes) = 1 /\ CleanBox(a.boxes[1])

IsToken(t) == t # <<>> /\ \A i \in DOMAIN t : IsTText(t[i])

CleanParameters(params) ==
  \A n \in DOMAIN params :
    /\ IsToken(n) /\ n = Lower(n) /\ ~EndsWith(n, "*")
    /\ ~(EndsWith(n, "0") /\ EndsWith(Chop(n, 1), "*"))
    /\ CleanText(params[n])

CleanGroup(g) == g # <<>> /\ g[1] # "(" /\ \A i \in DOMAIN g : g[i] \notin Blank \cup {","}

Members(list) == {list[i] : i \in DOMAIN list}

CleanPrint(p) == CleanPhrase(p) /\ Unreserved(p) /\ p # <<>>

Clean ==
  CASE kind = "Unstructured"  -> CleanText(val.decoded)
    [] kind = "MailboxList"   -> \A x \in Members(val.mailboxList) : CleanBox(x)
    [] kind = "AddressList"   -> \A x \in Members(val.addressList) : CleanAddress(x)
    [] kind = "MailCopiesTo"  -> /\ \A x \in Members(val.addressList) : CleanAddress(x)
                                 /\ val.addressList # <<>> => ~val.always /\ ~val.never
    [] kind = "SingleMailbox" -> val.mailbox # NoMailbox => CleanBox(val.mailbox)
    [] kind = "ReturnPath"    -> /\ val.mailbox # NoMailbox => CleanBox(val.mailbox)
                                 /\ val.mailbox.name = <<>>
    [] kind = "Ident"         -> \A x \in Members(val.msgIdList) : CleanSpec(x)
    [] kind = "SingleIdent"   -> val.msgId # NoSpec => CleanSpec(val.msgId)
    [] kind = "ContentID"     -> \/ val.msgId = NoSpec \/ CleanSpec(val.msgId)
                                 \/ DotText(val.msgId.local) /\ val.msgId.domain = <<>>
    [] kind = "PhraseList"    -> \A x \in Members(val.phraseList) : CleanPrint(x)
    [] kind = "ContentTransferEncoding" ->
         val.token # <<>> => /\ IsToken(val.token) /\ val.cte = "7Bit"
                             /\ \A e \in encTable : val.token # <<e>>
    [] kind = "ContentType"   -> /\ val.mimeType = <<>> => val.params = NoParameters
                                 /\ Lower(val.mimeType) = val.mimeType
                                 /\ CleanParameters(val.params)
    [] kind = "ContentDisposition" -> /\ val.disposition = "invalid" => val.params = NoParameters
                                      /\ CleanParameters(val.params)
    [] kind = "Control"       -> /\ val.name = <<>> \/ CleanGroup(val.name)
                                 /\ val.parameter # <<>> =>
                                      val.parameter[1] \notin Blank \cup {"("}
    [] kind = "Date"          -> val.dateTime # NoDate => val.dateTime.date.year >= 1900
    [] kind = "Newsgroups"    -> \A x \in Members(val.groups) : CleanGroup(x)
    [] OTHER                  -> TRUE

-----------------------------------------------------------------------------
(* A header always has the fields of its class, an encoding and a          *)
(* disposition that exist, and a number of lines that fits an int.         *)
TypeOK ==
  /\ header.type \in Types /\ DOMAIN val = DOMAIN Empty(kind)
  /\ kind = "ContentTransferEncoding" => val.cte \in encTable
  /\ kind = "ContentDisposition" => val.disposition \in {"invalid", "inline", "attachment"}
  /\ kind = "Lines" => val.lines \in -1..IntMax
  /\ kind = "Date" => val.dateTime = NoDate \/ IsValidDate(val.dateTime.date)

(* What a header holds.  An identifier it has kept is not part of that.    *)
Held(h) == [f \in DOMAIN h.val \ {"cachedIdentifier"} |-> h.val[f]]

(* A clone holds what the original holds (HeaderFactory::clone, on which   *)
(* Content::clone rests), for every value a class can print: reading       *)
(* inverts printing, across quoting, encoded words, RFC 2231 and dates.    *)
CloneKeeps == Clean => Held(Clone(header)) = Held(header)

(* The identifier a MessageID, ContentID or Supersedes returns is that of  *)
(* its current value, whatever it kept before a setter or parse().         *)
CacheIsCurrent ==
  IsSingleIdent => val.cachedIdentifier \in {<<>>, AddrString(val.msgId)}

(* The mailboxes of a header that has any, and the names that lose text:   *)
(* after an encoded word in a quoted string, " =" and the character behind.*)
BoxesOf(h) ==
  LET k == createHeader(h.type)
  IN IF k = "MailboxList" THEN h.val.mailboxList
     ELSE IF k \in {"AddressList", "MailCopiesTo"} THEN Boxes(h.val.addressList)
     ELSE IF k = "SingleMailbox" THEN <<h.val.mailbox>> ELSE <<>>

Specs(boxes) == [i \in DOMAIN boxes |-> SpecOf(boxes[i])]

Swallows(name) == \E i \in 1..Len(name) - 3 : SubSeq(name, i, i + 3) = <<"?", "=", " ", "=">>

(* Whatever the display names are, a clone has the addresses of the        *)
(* original: no name is printed such that a part of it, or of what follows *)
(* it, is read as another address or as none, unless it loses text.        *)
AddressesSurvive ==
  LET boxes == BoxesOf(header)
      Safe(m) == CleanSpec(SpecOf(m)) /\ ~Swallows(m.name)
  IN (\A m \in Members(boxes) : Safe(m)) => Specs(BoxesOf(Clone(header))) = Specs(boxes)
=============================================================================
