----------------------------- MODULE MessageText -----------------------------
(***************************************************************************)
(* A content as text (content.cpp, headerparsing.cpp): setContent() cuts a *)
(* text into head and body, parse() the head into headers, assemble()      *)
(* makes a head of the headers and encodedContent() a text of head and     *)
(* body, with line breaks that are LF or, on their way, CR LF.             *)
(***************************************************************************)
EXTENDS HeaderLines

CONSTANTS
    Received,  \* the texts given to setContent()
    Heads,     \* the heads given to setHead(): one or more lines
    Bodies,    \* the bodies given to setBody()
    NewHeaders, \* the headers given to appendHeader()
    Replacements, \* those given to setHeader()
    MaxSent,   \* bound for TLC: length of the texts that are transmitted
    MaxSize    \* bound for TLC: length of head, headers and body that a caller makes

ASSUME TextsAssumption ==
    /\ Received \subseteq Text
    /\ Heads \subseteq Text
    /\ \A h \in Heads : h # <<>> /\ h[1] # "newline" /\
          \A i \in 1..Len(h) - 1 : h[i] # "newline" \/ h[i + 1] # "newline"
    /\ Bodies \subseteq Text
    /\ NewHeaders \cup Replacements \subseteq Header
    /\ MaxSent \in Nat /\ MaxSize \in Nat

VARIABLES
    head,    \* ContentPrivate::head
    headers, \* ContentPrivate::headers
    body,    \* ContentPrivate::body
    given    \* the text these came from, <<>> when the caller or assemble()
             \* made one of them (history)

vars == <<head, headers, body, given>>

-----------------------------------------------------------------------------
NL == <<"newline">>

EndsWith(s, suffix) == IsSuffix(suffix, s)

\* The position of the first blank line: of its first newline.
BlankLine(s) ==
    {i \in 1..Len(s) - 1 : s[i] = "newline" /\ s[i + 1] = "newline"}

\* Mutant: the head is cut before the newline that ends it.
ExtractUnended(text) ==
    IF IsPrefix(NL, text) THEN [head |-> <<>>, body |-> Tail(text)]
    ELSE IF BlankLine(text) = {} THEN [head |-> text, body |-> <<>>]
    ELSE LET pos == Min(BlankLine(text))
         IN  [head |-> SubSeq(text, 1, pos - 1), body |-> SubSeq(text, pos + 2, Len(text))]

\* Mutant: the head is what comes before the last blank line.
ExtractAtLast(text) ==
    IF IsPrefix(NL, text) THEN [head |-> <<>>, body |-> Tail(text)]
    ELSE IF BlankLine(text) = {} THEN [head |-> text, body |-> <<>>]
    ELSE LET pos == Max(BlankLine(text))
         IN  [head |-> SubSeq(text, 1, pos), body |-> SubSeq(text, pos + 2, Len(text))]

\* HeaderParsing::extractHeaderAndBody(): the head ends with its newline; a
\* body that starts with a newline gets one more.
ExtractHeaderAndBody(text) ==
    IF IsPrefix(NL, text) THEN [head |-> <<>>, body |-> Tail(text)]
    ELSE IF BlankLine(text) = {} THEN [head |-> text, body |-> <<>>]
    ELSE LET pos == Min(BlankLine(text))
             rest == SubSeq(text, pos + 2, Len(text))
         IN  [head |-> SubSeq(text, 1, pos),
              body |-> IF IsPrefix(NL, rest) THEN NL \o rest ELSE rest]

\* Mutant: newlines of the body do not count.
AlwaysSeparated(h, b) == h \o NL \o b

\* Content::encodedContent(): "head and body have at least two newlines as
\* separator".
EncodedContent(h, b) ==
    IF \/ EndsWith(h, NL \o NL)
       \/ IsPrefix(NL \o NL, b)
       \/ EndsWith(h, NL) /\ IsPrefix(NL, b)
    THEN h \o b
    ELSE h \o NL \o b

\* CRLFtoLF()
CRLFtoLF(s) ==
    LET Ends(i) == s[i] = "return" /\ i < Len(s) /\ s[i + 1] = "newline"
    IN  FlattenSeq([i \in DOMAIN s |-> IF Ends(i) THEN <<>> ELSE <<s[i]>>])

\* LFtoCRLF() changes nothing when the first newline is a CR LF.
HasCRLF(s) ==
    LET newlines == Positions(s, "newline")
    IN  newlines # {} /\ Min(newlines) > 1 /\ s[Min(newlines) - 1] = "return"

LFtoCRLF(s) ==
    IF HasCRLF(s) THEN s
    ELSE FlattenSeq([i \in DOMAIN s |-> IF s[i] = "newline" THEN <<"return", "newline">>
                                       ELSE <<s[i]>>])

\* The two ways a text is sent: encodedContent() with LF or with CR LF, which
\* the receiver converts back.
NewlineType == {"LF", "CRLF"}

Transmitted(text, newline) ==
    IF newline = "CRLF" THEN CRLFtoLF(LFtoCRLF(text)) ELSE text

-----------------------------------------------------------------------------
Init == head = <<>> /\ headers = <<>> /\ body = <<>> /\ given = <<>>

\* Content::setContent() of a new object.
SetContent(text) ==
    /\ head = <<>> /\ headers = <<>> /\ body = <<>>
    /\ head' = ExtractHeaderAndBody(text).head
    /\ body' = ExtractHeaderAndBody(text).body
    /\ given' = text
    /\ UNCHANGED headers

Fits(h, values, b) ==
    FoldLeft(LAMBDA sum, v : sum + Len(v.name) + Len(v.value), Len(h) + Len(b), values) <= MaxSize

\* Content::setHead()
SetHead(h) ==
    /\ Fits(h, headers, body)
    /\ head' = IF EndsWith(h, NL) THEN h ELSE h \o NL
    /\ given' = <<>>
    /\ UNCHANGED <<headers, body>>

\* Content::setBody()
SetBody(b) ==
    /\ Fits(head, headers, b)
    /\ body' = b
    /\ given' = <<>>
    /\ UNCHANGED <<head, headers>>

\* Content::parse(), what it does with the head.
Parse == headers' = ParseHeaders(head) /\ UNCHANGED <<head, body, given>>

\* Content::appendHeader()
AppendHeader(h) ==
    /\ Fits(head, Append(headers, h), body)
    /\ headers' = Append(headers, h)
    /\ UNCHANGED <<head, body, given>>

\* Content::removeHeader(): the first one of that type.
Removed(name) ==
    LET found == {i \in DOMAIN headers : headers[i].name = name}
    IN  IF found = {} THEN headers ELSE RemoveAt(headers, Min(found))

RemoveHeader(name) ==
    /\ headers' = Removed(name)
    /\ UNCHANGED <<head, body, given>>

\* Content::setHeader()
SetHeader(h) ==
    /\ Fits(head, Append(Removed(h.name), h), body)
    /\ headers' = Append(Removed(h.name), h)
    /\ UNCHANGED <<head, body, given>>

\* Content::assemble()
Assemble ==
    /\ head' = AssembledHead(headers)
    /\ given' = <<>>
    /\ UNCHANGED <<headers, body>>

\* The content is sent, and received in a new object.
Transmit(newline) ==
    /\ headers' = <<>>
    /\ \E text \in {Transmitted(EncodedContent(head, body), newline)} :
          /\ Len(text) <= MaxSent
          /\ given' = text
          /\ head' = ExtractHeaderAndBody(text).head
          /\ body' = ExtractHeaderAndBody(text).body

Next ==
    \/ \E text \in Received : SetContent(text)
    \/ \E h \in Heads : SetHead(h)
    \/ \E b \in Bodies : SetBody(b)
    \/ \E h \in NewHeaders : AppendHeader(h)
    \/ \E h \in Replacements : SetHeader(h) \/ RemoveHeader(h.name)
    \/ Parse \/ Assemble
    \/ \E newline \in NewlineType : Transmit(newline)

Spec == Init /\ [][Next]_vars

-----------------------------------------------------------------------------
(* What must hold. *)

\* A head has no blank line in it.
TypeOK ==
    /\ head \in Text /\ body \in Text /\ given \in Text
    /\ headers \in Seq(Header)
    /\ BlankLine(head) = {}

\* A text with a head and a blank line is sent as it was received, newline
\* by newline, so that "digital signatures" stay valid.  Without a head and
\* with a body that starts with two newlines it is sent with one less.
SentAsReceived ==
    given # <<>> /\ ~IsPrefix(NL, given) /\ BlankLine(given) # {} =>
        EncodedContent(head, body) = given

\* The receiver finds what was sent, newline by newline: header lines never
\* end up in the body nor the body in the head.  A body below a head does not
\* arrive when it starts with exactly one newline: encodedContent() takes that
\* one for the separator; and with CR LF the first line of the text must not end
\* in a carriage return of its own.
TextArrives ==
    [][\A newline \in NewlineType :
        Transmit(newline) /\ (newline = "CRLF" => ~HasCRLF(EncodedContent(head, body))) =>
        /\ head = <<>> \/ EndsWith(head, NL) => head' = head
        /\ EndsWith(head, NL) /\ (IsPrefix(NL, body) => IsPrefix(NL \o NL, body))
              => body' = body]_vars

\* Values that survive folding: no line break or carriage return, single spaces
\* between words.
Plain(value) ==
    /\ Positions(value, "newline") = {} /\ Positions(value, "return") = {}
    /\ value # <<>> /\ value[1] # "space" /\ Last(value) # "space"
    /\ \A i \in 1..Len(value) - 1 : value[i] # "space" \/ value[i + 1] # "space"

\* ... and a last word of more than one character, which unfoldHeader() would
\* join to the word before.
Foldable(value) == Plain(value) /\ (Len(value) = 1 \/ value[Len(value) - 1] # "space")

PlainName(name) == name # <<>> /\ \A i \in DOMAIN name : name[i] = "text"

\* The headers that assemble() folds are the headers that parse() finds.
HeadersArrive ==
    (\A i \in DOMAIN headers : PlainName(headers[i].name) /\ Foldable(headers[i].value))
        => ParseHeaders(AssembledHead(headers)) = headers

\* The same without the condition on the last word.
AnyHeadersArrive ==
    (\A i \in DOMAIN headers : PlainName(headers[i].name) /\ Plain(headers[i].value))
        => ParseHeaders(AssembledHead(headers)) = headers

\* The physical lines of a text.
PhysicalLines(text) ==
    LET IsLine(i, j) == /\ i <= j /\ \A k \in i..j : text[k] # "newline"
                        /\ i = 1 \/ text[i - 1] = "newline"
                        /\ j = Len(text) \/ text[j + 1] = "newline"
        spans == {p \in (DOMAIN text) \X (DOMAIN text) : IsLine(p[1], p[2])}
    IN  {SubSeq(text, p[1], p[2]) : p \in spans}

\* Lines that are not too long, or have no place where they could be folded.
LinesAreShort ==
    \A i \in DOMAIN headers :
        PlainName(headers[i].name) /\ Plain(headers[i].value) =>
            \A line \in PhysicalLines(FoldHeader(HeaderText(headers[i]))) :
                Len(line) > MaxLen =>
                    \A k \in 2..MaxLen + 1 : line[k] # "space" \/ line[k - 1] = "backslash"

\* A line of a head that a reader accepts: it has a name, no continuation line
\* is white space only, and none starts with =20 below an empty first line.
IsProper(line) ==
    LET colon == Min(Positions(line, "colon"))
    IN  /\ Positions(line, "colon") # {} /\ line[1] # "colon"
        /\ \A piece \in PhysicalLines(line) :
              \E i \in DOMAIN piece : piece[i] \notin Space \cup {"encoded"}
        /\ \A i \in Positions(line, "encoded") :
              i > 1 /\ line[i - 1] = "newline" => Words(SubSeq(line, colon + 1, i - 2)) # <<>>

IsHeaderOf(h, line) ==
    LET colon == Min(Positions(line, "colon"))
    IN  /\ h.name = SubSeq(line, 1, colon - 1)
        /\ Words(h.value) = Words(SubSeq(line, colon + 1, Len(line)))

\* Not a folded line whose last word is a single character; see Foldable.
Readable(line) ==
    Positions(line, "newline") # {} => Len(Last(Words(line))) > 1

\* parse() finds the headers that a reader of the lines finds, and a search by
\* name, as the uuencode reader does for the subject, the first of that name.
HeadersAreTheLines ==
    LET lines == LogicalLines(head)
        found == ParseHeaders(head)
        First(k) == \A j \in 1..k - 1 : found[j].name # found[k].name
        ByName(k) == [found[k] EXCEPT !.value = ValueOfHeader(head, found[k].name)]
    IN  (\A k \in DOMAIN lines : IsProper(lines[k])) =>
            /\ Len(found) = Len(lines)
            /\ \A k \in DOMAIN lines : Readable(lines[k]) =>
                  /\ IsHeaderOf(found[k], lines[k])
                  /\ First(k) => IsHeaderOf(ByName(k), lines[k])
==============================================================================
