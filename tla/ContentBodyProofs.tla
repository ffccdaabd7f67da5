-------------------------- MODULE ContentBodyProofs --------------------------
(***************************************************************************)
(* Proofs about ContentBody, for every set of data and every set of texts: *)
(* under the rules of the careful caller the flag m_decoded is right, what *)
(* is read and sent is what was put in, and a frozen content never changes.*)
(***************************************************************************)
EXTENDS ContentBody, TLAPS

\* The rules: an object is parsed once and not given a second text, and
\* nothing is uuencoded.  The runs Reparse, Reuse and Uuencoded show what
\* happens without them.
Careful ==
    /\ "reparse" \notin Ops /\ "reuse" \notin Ops
    /\ \A text \in Received : text.head.cte # "uuencode"
    /\ "uuencode" \notin Encodings

-----------------------------------------------------------------------------
(* Encoding and decoding. *)

LEMMA PlainIsText ==
    \A d \in Data \cup {NoData, Garbled} : Plain(d) \in BodyText
BY DEF Plain, BodyText

LEMMA EmptyIsText == Empty \in BodyText
BY DEF Empty, Plain, BodyText

LEMMA EncodeType ==
    ASSUME NEW b \in BodyText, NEW cte
    PROVE  Encode(cte, b) \in BodyText
BY DEF Encode, BodyText, Empty, Plain

LEMMA DecodeType ==
    ASSUME NEW b \in BodyText, NEW cte
    PROVE  Decode(cte, b) \in BodyText
BY DEF Decode, BodyText, Empty, Plain, Transforming

\* What is known of a text that is received.
LEMMA ReceivedText ==
    ASSUME NEW text \in Received
    PROVE  /\ text.head \in Header /\ text.body \in BodyText
           /\ text.head.type = "multi" => text.head.cte \in {"none", "7bit"}
           /\ text.body.data \in Data
           /\ text.body = Encode(text.head.cte, Plain(text.body.data))
<1>1. text \in Sent
  BY ConstantsAssumption
<1>2. PICK h \in HeaderOfText, d \in Data : text = [head |-> h, body |-> Encode(h.cte, Plain(d))]
  BY <1>1 DEF Sent
<1>3. text.body \in BodyText
  BY <1>2, PlainIsText, EncodeType
<1>4. text.body.data = d
  BY <1>2 DEF Encode, Plain
<1>5. text.head = h /\ text.body = Encode(h.cte, Plain(d))
  BY <1>2
<1>6. h \in Header /\ (h.type = "multi" => h.cte \in {"none", "7bit"})
  BY DEF HeaderOfText
<1> QED
  BY <1>3, <1>4, <1>5, <1>6

LEMMA DataIsNotEmpty ==
    ASSUME NEW d \in Data, NEW cte
    PROVE  /\ Plain(d) # Empty
           /\ Encode(cte, Plain(d)) # Empty
           /\ Plain(d).enc = <<>>
           /\ [Encode(cte, Plain(d)) EXCEPT !.enc = <<>>] = Plain(d)
BY ConstantsAssumption DEF Plain, Empty, Encode

\* Decoding undoes the encoding of the same header.
LEMMA DecodeEncode ==
    ASSUME NEW d \in Data, NEW cte
    PROVE  Decode(cte, Encode(cte, Plain(d))) = Plain(d)
<1>1. CASE cte \notin Transforming
  BY <1>1 DEF Decode, Encode
<1>2. CASE cte \in Transforming
  <2>1. Plain(d) # Empty /\ Encode(cte, Plain(d)) # Empty
    BY DataIsNotEmpty
  <2>2. Encode(cte, Plain(d)) = [data |-> d, enc |-> <<cte>>]
    BY <1>2, <2>1 DEF Encode, Plain
  <2>3. <<cte>> # <<>> /\ Head(<<cte>>) = cte /\ Tail(<<cte>>) = <<>>
    OBVIOUS
  <2>4. Decode(cte, Encode(cte, Plain(d))) = [[data |-> d, enc |-> <<cte>>] EXCEPT !.enc = <<>>]
    BY <1>2, <2>1, <2>2, <2>3 DEF Decode
  <2> QED
    BY <2>4 DEF Plain
<1> QED
  BY <1>1, <1>2

-----------------------------------------------------------------------------
(* Type correctness. *)

LEMMA TypeInit == Init => TypeOK
<1>1. NoHeader \in Header
  BY DEF NoHeader, Header, Cte, Type
<1> QED
  BY <1>1, EmptyIsText DEF Init, TypeOK

LEMMA TypeNext == TypeOK /\ [Next]_vars => TypeOK'
<1> SUFFICES ASSUME TypeOK, [Next]_vars PROVE TypeOK'
  OBVIOUS
<1> USE DEF TypeOK
<1>1. NoHeader \in Header
  BY DEF NoHeader, Header, Cte, Type
<1>2. DecodedBody \in BodyText
  BY DecodeType DEF DecodedBody
<1>3. \A h \in Header, e \in Encodings : [h EXCEPT !.cte = e] \in Header
  BY ConstantsAssumption DEF Header
<1>4. \A h \in Header, t \in Type : [h EXCEPT !.type = t] \in Header
  BY DEF Header
<1>a. ASSUME NEW text \in Received, SetContent(text) PROVE TypeOK'
  BY <1>a, ReceivedText DEF SetContent
<1>b. ASSUME NEW d \in Data, SetBody(d) PROVE TypeOK'
  BY <1>b, PlainIsText DEF SetBody, Plain
<1>c. ASSUME NEW d \in Data, SetEncodedBody(d) PROVE TypeOK'
  <2>1. Encode(headers.cte, Plain(d)) \in BodyText
    BY PlainIsText, EncodeType
  <2> QED
    BY <1>c, <2>1 DEF SetEncodedBody, Plain
<1>d. ASSUME NEW t \in Type \ {"multi"}, SetType(t) PROVE TypeOK'
  BY <1>d, <1>4 DEF SetType
<1>e. ASSUME NEW e \in Encodings, SetEncoding(e) PROVE TypeOK'
  BY <1>e, <1>3 DEF SetEncoding
<1>f. ASSUME NEW e \in Encodings, ChangeEncoding(e) PROVE TypeOK'
  <2>1. Encode("base64", DecodedBody) \in BodyText
    BY <1>2, EncodeType
  <2> QED
    BY <1>f, <1>2, <1>3, <2>1 DEF ChangeEncoding, DecodedInPlace
<1>g. ASSUME NEW f \in BOOLEAN, SetFrozen(f) PROVE TypeOK'
  BY <1>g DEF SetFrozen
<1>h. CASE Parse
  <2>1. headers' \in Header
    BY <1>h, <1>4 DEF Parse, Type, Header
  <2>2. body' \in BodyText /\ frozenBody' \in BodyText
    BY <1>h, EmptyIsText DEF Parse, SavedBody
  <2>3. parts' \in Data \cup {NoData, Garbled}
    BY <1>h DEF Parse, BodyText
  <2>4. decoded' \in BOOLEAN
    BY <1>h DEF Parse, ParsedFlag
  <2> QED
    BY <1>h, <2>1, <2>2, <2>3, <2>4 DEF Parse
<1>i. CASE Assemble
  BY <1>i DEF Assemble
<1>j. CASE DecodedText
  BY <1>j, <1>2 DEF DecodedText, DecodedInPlace
<1>k. CASE Clear
  BY <1>k, <1>1, EmptyIsText DEF Clear
<1>l. CASE UNCHANGED vars
  BY <1>l DEF vars
<1> QED
  BY <1>a, <1>b, <1>c, <1>d, <1>e, <1>f, <1>g, <1>h, <1>i, <1>j, <1>k, <1>l DEF Next

\* Every reachable state of a content is well-typed, whatever the caller does.
THEOREM BodyTypeCorrect == Spec => []TypeOK
<1> QED
  BY TypeInit, TypeNext, PTL DEF Spec

-----------------------------------------------------------------------------
(* The inductive invariant.  TypeOK alone does not do: that a body is encoded *)
(* as its header says rests on where the body came from.                   *)

\* A text that was set and not parsed yet is one that was sent.
AsReceived ==
    ~current => /\ headers = NoHeader /\ parts = NoData
                /\ frozenBody = Empty /\ decoded
                /\ head.cte # "uuencode"
                /\ head.type = "multi" => head.cte \in {"none", "7bit"}
                /\ content \in Data
                /\ body = Encode(head.cte, Plain(content))

\* Otherwise the body is the content, encoded as the flag says, or the parts
\* are the content and not encoded at all.
UpToDate ==
    current => /\ headers.cte # "uuencode"
               /\ body # Empty =>
                     /\ content \in Data /\ parts = NoData
                     /\ headers.cte = "none" => decoded
                     /\ body = IF decoded THEN Plain(content)
                               ELSE Encode(headers.cte, Plain(content))
               /\ body = Empty => parts = content
               /\ parts # NoData => /\ headers.type = "multi"
                                    /\ headers.cte \in {"none", "7bit"}

IInv == TypeOK /\ AsReceived /\ UpToDate

LEMMA InvInit == Init => IInv
<1> SUFFICES ASSUME Init PROVE AsReceived /\ UpToDate
  BY TypeInit DEF IInv
<1> QED
  BY DEF Init, AsReceived, UpToDate, NoHeader

\* An up-to-date content whose text is decoded.
LEMMA InvDecodedBody ==
    ASSUME IInv, current, body # Empty
    PROVE  DecodedBody = Plain(content)
<1>1. content \in Data
  BY DEF IInv, UpToDate
<1>2. CASE decoded
  BY <1>2 DEF IInv, UpToDate, DecodedBody
<1>3. CASE ~decoded
  BY <1>1, <1>3, DecodeEncode DEF IInv, UpToDate, DecodedBody
<1> QED
  BY <1>2, <1>3 DEF IInv, TypeOK

LEMMA EmptyDecodedBody == body = Empty => DecodedBody = Empty
BY DEF DecodedBody, Decode

\* Decoding the text in place leaves an empty body empty.
LEMMA InvDecodedInPlace ==
    ASSUME IInv, current, DecodedInPlace
    PROVE  /\ decoded'
           /\ body = Empty => body' = Empty
           /\ body # Empty => /\ body' = Plain(content) /\ body' # Empty
                              /\ content \in Data
<1>1. decoded' /\ body' = DecodedBody
  BY DEF DecodedInPlace
<1>2. body # Empty => content \in Data
  BY DEF IInv, UpToDate
<1> QED
  BY <1>1, <1>2, InvDecodedBody, EmptyDecodedBody, DataIsNotEmpty

LEMMA InvNext ==
    ASSUME Careful, IInv, [Next]_vars
    PROVE  IInv'
<1> SUFFICES AsReceived' /\ UpToDate'
  BY TypeNext DEF IInv
<1> USE DEF IInv, TypeOK
<1>a. ASSUME NEW text \in Received, SetContent(text) PROVE AsReceived' /\ UpToDate'
  <2>1. Unused
    BY <1>a DEF SetContent, Careful
  <2>2. headers' = NoHeader /\ parts' = NoData /\ frozenBody' = Empty /\ decoded'
    BY <1>a, <2>1 DEF SetContent, Unused, Cleared
  <2>3. head' = text.head /\ body' = text.body /\ content' = text.body.data /\ ~current'
    BY <1>a DEF SetContent
  <2>4. head'.cte # "uuencode"
    BY <2>3 DEF Careful
  <2> QED
    BY <2>2, <2>3, <2>4, ReceivedText DEF AsReceived, UpToDate
<1>b. ASSUME NEW d \in Data, SetBody(d) PROVE AsReceived' /\ UpToDate'
  <2>1. parts = NoData /\ current
    BY <1>b DEF SetBody, Modifiable, UpToDate
  <2>2. body' = Plain(d) /\ decoded' /\ content' = d /\ UNCHANGED <<headers, parts, current>>
    BY <1>b DEF SetBody
  <2> QED
    BY <2>1, <2>2, DataIsNotEmpty DEF AsReceived, UpToDate
<1>c. ASSUME NEW d \in Data, SetEncodedBody(d) PROVE AsReceived' /\ UpToDate'
  <2>1. parts = NoData /\ current
    BY <1>c DEF SetEncodedBody, Modifiable, UpToDate
  <2>2. /\ body' = Encode(headers.cte, Plain(d)) /\ ~decoded' /\ content' = d
        /\ headers.cte # "none" /\ UNCHANGED <<headers, parts, current>>
    BY <1>c DEF SetEncodedBody
  <2> QED
    BY <2>1, <2>2, DataIsNotEmpty DEF AsReceived, UpToDate
<1>d. ASSUME NEW t \in Type \ {"multi"}, SetType(t) PROVE AsReceived' /\ UpToDate'
  BY <1>d DEF SetType, Modifiable, AsReceived, UpToDate, Header
<1>e. ASSUME NEW e \in Encodings, SetEncoding(e) PROVE AsReceived' /\ UpToDate'
  <2>1. current /\ parts = NoData
    BY <1>e DEF SetEncoding, Modifiable, UpToDate
  <2>2. headers'.cte = e /\ e # "uuencode" /\ UNCHANGED <<body, parts, decoded, current, content>>
    BY <1>e DEF SetEncoding, Careful, Header
  <2>3. body # Empty => decoded
    BY <1>e, <2>1 DEF SetEncoding, UpToDate
  <2> QED
    BY <2>1, <2>2, <2>3 DEF AsReceived, UpToDate
<1>f. ASSUME NEW e \in Encodings, ChangeEncoding(e) PROVE AsReceived' /\ UpToDate'
  <2>1. current /\ parts = NoData
    BY <1>f, ConstantsAssumption DEF ChangeEncoding, Modifiable, UpToDate, Type
  <2>2. headers'.cte = e /\ e # "uuencode" /\ e # "none" /\ UNCHANGED <<parts, current, content>>
    BY <1>f, ConstantsAssumption DEF ChangeEncoding, Careful, Header
  <2>3. CASE UNCHANGED <<body, decoded>> /\ (headers.cte = e \/ (headers.cte = "none" /\ e = "7bit"))
    <3>1. body # Empty => \/ decoded
                          \/ headers.cte = e
      BY <2>1, <2>3 DEF UpToDate
    <3> QED
      BY <2>1, <2>2, <2>3, <3>1 DEF AsReceived, UpToDate
  <2>4. CASE DecodedInPlace
    BY <2>1, <2>2, <2>4, InvDecodedInPlace DEF AsReceived, UpToDate
  <2>5. CASE body' = Encode("base64", DecodedBody) /\ decoded' = FALSE /\ e = "base64"
    <3>1. CASE body = Empty
      <4>1. body' = Empty
        BY <2>5, <3>1, EmptyDecodedBody DEF Encode
      <4> QED
        BY <2>1, <2>2, <3>1, <4>1 DEF AsReceived, UpToDate
    <3>2. CASE body # Empty
      <4>1. content \in Data /\ body' = Encode(e, Plain(content))
        BY <2>1, <2>5, <3>2, InvDecodedBody DEF UpToDate
      <4> QED
        BY <2>1, <2>2, <2>5, <4>1, DataIsNotEmpty DEF AsReceived, UpToDate
    <3> QED
      BY <3>1, <3>2
  <2> QED
    BY <1>f, <2>3, <2>4, <2>5 DEF ChangeEncoding
<1>g. ASSUME NEW f \in BOOLEAN, SetFrozen(f) PROVE AsReceived' /\ UpToDate'
  BY <1>g DEF SetFrozen, AsReceived, UpToDate
<1>h. CASE Parse
  <2>1. ~current /\ current'
    BY <1>h DEF Parse, Careful
  <2>2. /\ content \in Data /\ body = Encode(head.cte, Plain(content))
        /\ body # Empty /\ body.data = content
        /\ decoded /\ head.cte # "uuencode"
        /\ head.type = "multi" => head.cte \in {"none", "7bit"}
    <3>1. content \in Data /\ body = Encode(head.cte, Plain(content)) /\ decoded
      BY <2>1 DEF AsReceived
    <3>2. body # Empty
      BY <3>1, DataIsNotEmpty
    <3>3. body.data = content
      BY <3>1 DEF Encode, Plain
    <3> QED
      BY <2>1, <3>1, <3>2, <3>3 DEF AsReceived
  <2>3. CASE head.type = "multi"
    <3>1. headers' = head /\ parts' = content /\ body' = Empty /\ content' = content
      BY <1>h, <2>2, <2>3 DEF Parse, Header
    <3> QED
      BY <2>1, <2>2, <2>3, <3>1 DEF AsReceived, UpToDate
  <2>4. CASE head.type # "multi"
    <3>1. headers' = head /\ parts' = NoData /\ body' = body /\ content' = content
      BY <1>h, <2>2, <2>4 DEF Parse, Header
    <3>2. decoded' = IF head.cte = "none" THEN TRUE ELSE head.cte = "7bit"
      BY <1>h, <2>2 DEF Parse, ParsedFlag
    <3>3. head.cte \in {"none", "7bit"} => body = Plain(content)
      BY <2>2 DEF Encode, Transforming
    <3>4. decoded' => body' = Plain(content)
      BY <3>1, <3>2, <3>3
    <3>5. head.cte = "none" => decoded'
      BY <3>2
    <3> QED
      BY <2>1, <2>2, <3>1, <3>4, <3>5 DEF AsReceived, UpToDate
  <2> QED
    BY <2>3, <2>4
<1>i. CASE Assemble
  BY <1>i DEF Assemble, AsReceived, UpToDate
<1>j. CASE DecodedText
  BY <1>j, InvDecodedInPlace DEF DecodedText, AsReceived, UpToDate
<1>k. CASE Clear
  BY <1>k DEF Clear, AsReceived, UpToDate, NoHeader
<1>l. CASE UNCHANGED vars
  BY <1>l DEF vars, AsReceived, UpToDate
<1> QED
  BY <1>a, <1>b, <1>c, <1>d, <1>e, <1>f, <1>g, <1>h, <1>i, <1>j, <1>k, <1>l DEF Next

-----------------------------------------------------------------------------
(* The properties. *)

THEOREM InvIsInvariant == ASSUME Careful PROVE Spec => []IInv
<1>1. IInv /\ [Next]_vars => IInv'
  BY InvNext
<1> QED
  BY <1>1, InvInit, PTL DEF Spec

LEMMA InvFlagIsRight == IInv => FlagIsRight
<1> SUFFICES ASSUME IInv, current
             PROVE  IF decoded THEN body.enc = <<>>
                    ELSE body = Encode(headers.cte, [body EXCEPT !.enc = <<>>])
  BY DEF FlagIsRight
<1>1. CASE body = Empty
  BY <1>1 DEF Empty, Plain, Encode
<1>2. CASE body # Empty
  <2>1. content \in Data
    BY <1>2 DEF IInv, UpToDate
  <2>2. decoded => body = Plain(content)
    BY <1>2 DEF IInv, UpToDate
  <2>3. ~decoded => body = Encode(headers.cte, Plain(content))
    BY <1>2 DEF IInv, UpToDate
  <2> QED
    BY <2>1, <2>2, <2>3, DataIsNotEmpty
<1> QED
  BY <1>1, <1>2

\* m_decoded, under the rules, tells whether the encoding of the header is
\* applied to the body, for every received text and every sequence of calls.
THEOREM BodyFlagIsRight == ASSUME Careful PROVE Spec => []FlagIsRight
<1> QED
  BY InvIsInvariant, InvFlagIsRight, PTL

LEMMA InvReadBack == IInv => ReadBack
BY InvDecodedBody DEF ReadBack, Plain

\* decodedBody() returns what was received or put in.
THEOREM BodyReadBack == ASSUME Careful PROVE Spec => []ReadBack
<1> QED
  BY InvIsInvariant, InvReadBack, PTL

\* The body as it is sent is the content encoded as the headers say.
LEMMA InvEncodedBody ==
    ASSUME IInv, current, ~frozen
    PROVE  Decode(headers.cte, EncodedBody) = Plain(content)
<1>1. CASE body # Empty
  <2>1. content \in Data /\ headers.cte # "uuencode"
    BY <1>1 DEF IInv, UpToDate
  <2>2. CASE decoded
    <3>1. body = Plain(content)
      BY <1>1, <2>2 DEF IInv, UpToDate
    <3>2. EncodedBody = Encode(headers.cte, Plain(content))
      BY <1>1, <2>1, <2>2, <3>1 DEF EncodedBody, NeedToEncode, Encode, Transforming
    <3> QED
      BY <2>1, <3>2, DecodeEncode
  <2>3. CASE ~decoded
    <3>1. EncodedBody = Encode(headers.cte, Plain(content))
      BY <1>1, <2>3 DEF IInv, UpToDate, EncodedBody, NeedToEncode
    <3> QED
      BY <2>1, <3>1, DecodeEncode
  <2> QED
    BY <2>2, <2>3 DEF IInv, TypeOK
<1>2. CASE body = Empty
  <2>1. EncodedBody = Plain(content) /\ parts = content
    BY <1>2 DEF IInv, UpToDate, EncodedBody
  <2>2. content # NoData => headers.cte \notin Transforming
    BY <2>1 DEF IInv, UpToDate, Transforming
  <2> QED
    BY <2>1, <2>2 DEF Decode, Empty
<1> QED
  BY <1>1, <1>2

LEMMA InvSentIsReadable == IInv => SentIsReadable
BY InvEncodedBody DEF SentIsReadable, Plain

\* Whoever decodes what assemble() and encodedContent() produce gets the
\* content: no sequence of calls encodes it twice or leaves it plain under a
\* header that says otherwise.
THEOREM BodySentIsReadable == ASSUME Careful PROVE Spec => []SentIsReadable
<1> QED
  BY InvIsInvariant, InvSentIsReadable, PTL

-----------------------------------------------------------------------------
(* Frozen contents. *)

\* A frozen content that was parsed has kept the body it was received with.
FrozenSaved == frozen /\ current => frozenBody # Empty

LEMMA SavedNext ==
    ASSUME Careful, "freezeLate" \notin Ops, IInv, FrozenSaved, [Next]_vars
    PROVE  FrozenSaved'
<1> USE DEF FrozenSaved
<1>1. ASSUME NEW text \in Received, SetContent(text) PROVE FrozenSaved'
  BY <1>1 DEF SetContent
<1>2. ASSUME NEW d \in Data, SetBody(d) \/ SetEncodedBody(d) PROVE FrozenSaved'
  BY <1>2 DEF SetBody, SetEncodedBody
<1>3. ASSUME NEW t \in Type, SetType(t) PROVE FrozenSaved'
  BY <1>3 DEF SetType
<1>4. ASSUME NEW e \in Encodings, SetEncoding(e) \/ ChangeEncoding(e) PROVE FrozenSaved'
  BY <1>4 DEF SetEncoding, ChangeEncoding
<1>5. ASSUME NEW f \in BOOLEAN, SetFrozen(f) PROVE FrozenSaved'
  BY <1>5 DEF SetFrozen
<1>6. CASE Parse
  <2>1. frozen => frozenBody' = body
    BY <1>6 DEF Parse, SavedBody
  <2>2. body # Empty
    BY <1>6, DataIsNotEmpty DEF Parse, Careful, IInv, AsReceived
  <2> QED
    BY <1>6, <2>1, <2>2 DEF Parse
<1>7. CASE Assemble \/ DecodedText \/ Clear \/ UNCHANGED vars
  BY <1>7 DEF Assemble, DecodedText, Clear, vars
<1> QED
  BY <1>1, <1>2, <1>3, <1>4, <1>5, <1>6, <1>7 DEF Next

LEMMA FrozenStep ==
    ASSUME Careful, IInv, FrozenSaved, frozen, Parse \/ Assemble \/ DecodedText
    PROVE  EncodedContent' = EncodedContent
<1>1. frozen' = frozen
  BY DEF Parse, Assemble, DecodedText
<1>2. CASE Parse
  <2>1. head' = head /\ frozenBody' = body /\ frozenBody = Empty
    BY <1>2 DEF Parse, SavedBody, Careful, IInv, AsReceived
  <2>2. body # Empty
    BY <1>2, DataIsNotEmpty DEF Parse, Careful, IInv, AsReceived
  <2> QED
    BY <1>1, <2>1, <2>2 DEF EncodedContent, EncodedBody
<1>3. CASE Assemble
  BY <1>1, <1>3 DEF Assemble, EncodedContent, EncodedBody
<1>4. CASE DecodedText
  <2>1. head' = head /\ frozenBody' = frozenBody /\ frozenBody # Empty
    BY <1>4 DEF DecodedText, FrozenSaved
  <2> QED
    BY <1>1, <2>1 DEF EncodedContent, EncodedBody
<1> QED
  BY <1>2, <1>3, <1>4

\* A content frozen before it is parsed is sent as it was received, byte for
\* byte, however often it is parsed, assembled and read.
THEOREM BodyFrozenIsImmutable ==
    ASSUME Careful, "freezeLate" \notin Ops
    PROVE  Spec => FrozenIsImmutable
<1>1. Init => FrozenSaved
  BY DEF Init, FrozenSaved
<1>2. IInv /\ FrozenSaved /\ [Next]_vars => FrozenSaved'
  BY SavedNext
<1>3. IInv /\ FrozenSaved =>
        (frozen /\ (Parse \/ Assemble \/ DecodedText) => EncodedContent' = EncodedContent)
  BY FrozenStep
<1> QED
  BY <1>1, <1>2, <1>3, InvIsInvariant, PTL DEF Spec, FrozenIsImmutable
==============================================================================
