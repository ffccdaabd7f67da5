--------------------------- MODULE ParameterSyntax ---------------------------
(* Parameters of a header field ("; name=value"), read by HeaderParsing    *)
(* and printed by Headers::Generics::Parametrized: quoted strings, the     *)
(* charset'language'text values of RFC 2231 and their continuations        *)
(* name*0, name*1*.  A set of parameters is a function from names to       *)
(* values, both texts.                                                     *)
EXTENDS AddressSyntax

Seqs == INSTANCE SequencesExt

(* The characters that occur in names, in the order of their codes, and    *)
(* the capital letters among the characters.                               *)
InCodeOrder == <<"%", "'", "*", "-", "0", "1", "2", "a", "b", "c", "n", "q", "t", "u", "x">>
Small == [A |-> "a", B |-> "b", C |-> "c", N |-> "n", Q |-> "q", T |-> "t", U |-> "u"]

Code(c) == CHOOSE n \in DOMAIN InCodeOrder : InCodeOrder[n] = c
Lower(text) == [i \in DOMAIN text |-> IF text[i] \in DOMAIN Small THEN Small[text[i]] ELSE text[i]]

(* The byte-wise order of names, which is the order of std::map.  What is  *)
(* read has small letters only, what is printed is compared without case.  *)
Before(a, b) ==
  LET x == Lower(a)  y == Lower(b)
  IN \E n \in 0..Len(x) :
       /\ n < Len(y)
       /\ \A i \in 1..n : x[i] = y[i]
       /\ n = Len(x) \/ Code(x[n + 1]) < Code(y[n + 1])

RECURSIVE Sorted(_)
Sorted(names) ==
  IF names = {} THEN <<>>
  ELSE LET first == CHOOSE a \in names : \A b \in names \ {a} : Before(a, b)
       IN <<first>> \o Sorted(names \ {first})

NoParameters == [k \in {} |-> <<>>]
Put(params, name, value) ==
  [k \in DOMAIN params \cup {name} |-> IF k = name THEN value ELSE params[k]]

(* CaseInsitiveByteArrayLess: a name is there in whatever case.            *)
PutAnyCase(params, name, value) ==
  IF \E k \in DOMAIN params : Lower(k) = Lower(name)
    THEN [k \in DOMAIN params |-> IF Lower(k) = Lower(name) THEN value ELSE params[k]]
    ELSE Put(params, name, value)

EndsWith(text, c)    == text # <<>> /\ text[Len(text)] = c
Chop(text, n)        == SubSeq(text, 1, Len(text) - n)
ContainsWord(text)   == \E i \in 1..Len(text) - 1 : text[i] = "=" /\ text[i + 1] = "?"
IsUsAscii(text)      == \A i \in DOMAIN text : text[i] # "8bit"

-----------------------------------------------------------------------------
(* In RFC 2231 values a character that may not stand for itself is written *)
(* as "%" and its code.                                                    *)
Especials == {"8bit", "%", "(", ")", "<", ">", "@", ",", ";", ":", "\"", "/", "[", "]", "?", ".",
              "=", " "}
Percent == [n \in DOMAIN Signs |-> "%" \o Hex[n]]

(* encodeRFC2231String, for a value that is not US-ASCII.                  *)
EncodeRFC2231(text) == Charset \o <<"'", "'">> \o Encode(text, Percent, Especials)

(* decodeRFC2231Value: what it adds to the value, and whether it leaves a  *)
(* valid charset decoder behind.                                           *)
DecodeRFC2231(source, isContinuation, codec) ==
  LET first  == Scan(source, 1, "'")
      second == Scan(source, first + 1, "'")
      from   == IF second > Len(source) THEN first + 1 ELSE second + 1
      Rest(j, known) == [codec |-> known,
                         text  |-> LET t == SubSeq(source, j, Len(source))
                                   IN IF known THEN Decode(t, Percent) ELSE t]
  IN IF isContinuation THEN Rest(1, codec)
     ELSE IF first > Len(source) THEN [codec |-> codec, text |-> source]
     ELSE Rest(from, Cut(source, 1, first) = Charset)

-----------------------------------------------------------------------------
(* QStringOrQPair: the value of a quoted string or the bytes of a token;   *)
(* "none" when it was left out.                                            *)
Value(form, text) == [form |-> form, text |-> text]

(* parseParameter: the result is [name, value]; a failure after "=" has    *)
(* the name, which lets the caller go on.                                  *)
Starless(name) == IF EndsWith(name, "*") THEN Chop(name, 1) ELSE name
NameAndValue(name, value) == [name |-> name, value |-> value]
NameOnly(name) == NameAndValue(name, Value("none", <<>>))

QuotedParameter(q, i, name) ==
  IF q.ok THEN Okay(q.at, NameAndValue(name, Value("quoted", q.val)), q.st)
          ELSE [Fail(i, q.st) EXCEPT !.val = NameOnly(name)]

TokenParameter(s, i, name, end, st) ==
  IF end > i THEN Okay(end, NameAndValue(name, Value("token", Cut(s, i, end))), st)
             ELSE [Fail(i, st) EXCEPT !.val = NameOnly(name)]

ParameterValue(s, e, name) ==
  IF At(s, e.at) = "end" THEN Okay(e.at, NameOnly(Starless(name)), e.st)
  ELSE IF s[e.at] = "\"" THEN QuotedParameter(QuotedString(s, e.at + 1, e.st), e.at, Starless(name))
  ELSE TokenParameter(s, e.at, name, TokenEnd(s, e.at, {"/"}), e.st)

ParameterEquals(s, e, name) ==
  IF At(s, e.at) = "=" THEN ParameterValue(s, EatCFWS(s, e.at + 1, e.st), name) ELSE Fail(e.at, e.st)

ParameterName(s, e, end) ==
  IF end = e.at THEN Fail(e.at, e.st)
  ELSE ParameterEquals(s, EatCFWS(s, end, e.st), Lower(Cut(s, e.at, end)))

ParameterAt(s, e) == ParameterName(s, e, TokenEnd(s, e.at, {}))

Parameter(s, i, st) == ParameterAt(s, EatCFWS(s, i, st))

(* parseRawParameterList: a later value replaces an earlier one; after a   *)
(* broken value it goes on behind the next ";".                            *)
RECURSIVE RawParameters(_, _, _, _)

BehindParameter(s, i, raw, st) == RawParameters(s, IF At(s, i) = ";" THEN i + 1 ELSE i, raw, st)

BehindBroken(s, semicolon, raw, st) ==
  IF semicolon > Len(s) THEN Okay(semicolon, raw, st) ELSE RawParameters(s, semicolon + 1, raw, st)

OneParameter(s, p, raw) ==
  IF p.ok THEN BehindParameter(s, EatCFWS(s, p.at, Fresh(p.st.memo)).at,
                               Put(raw, p.val.name, p.val.value), p.st)
  ELSE IF p.val = <<>> THEN Fail(p.at, p.st)
  ELSE BehindBroken(s, Scan(s, p.at, ";"), raw, p.st)

RawParametersAt(s, i, raw, st) ==
  IF At(s, i) = "end" THEN Okay(i, raw, st)
  ELSE IF s[i] = ";" THEN RawParameters(s, i + 1, raw, st)
  ELSE OneParameter(s, Parameter(s, i, st), raw)

RawParameters(s, i, raw, st) == RawParametersAt(s, EatCFWS(s, i, Fresh(st.memo)).at, raw, st)

(* KCodecs::decodeRFC2047String, external: every encoded word is replaced  *)
(* by its text, and a blank between two of them is dropped.                *)
IsWord(s, i) == At(s, i) = "=" /\ EncodedWord(s, i + 1, Fresh(FALSE)).ok

RECURSIVE DecodeRFC2047(_, _)

BehindWord(s, at, next) == DecodeRFC2047(s, IF IsWord(s, next) THEN next ELSE at)

DecodeWord(s, i, word) ==
  IF word.ok THEN word.val \o BehindWord(s, word.at, SkipBlanks(s, word.at))
             ELSE <<s[i]>> \o DecodeRFC2047(s, i + 1)

DecodeRFC2047(s, i) ==
  IF i > Len(s) THEN <<>>
  ELSE IF s[i] = "=" THEN DecodeWord(s, i, EncodedWord(s, i + 1, Fresh(FALSE)))
  ELSE <<s[i]>> \o DecodeRFC2047(s, i + 1)

(* The loop of parseParameterListWithCharset over the sorted names.  acc   *)
(* is [params, open, name, value, codec]: the parameters that are done,    *)
(* and the one that waits for continuations.                               *)
Starts(acc, name) == ~acc.open \/ ~Seqs!IsPrefix(acc.name, name)

Flush(acc) == IF acc.open THEN Put(acc.params, acc.name, acc.value) ELSE acc.params

Continues(name) == EndsWith(name, "0") /\ EndsWith(Chop(name, 1), "*")

Begun(acc, name, decoded) ==
  IF Continues(name)
    THEN [params |-> Flush(acc), open |-> TRUE, name |-> Chop(name, 2),
          value |-> decoded.text, codec |-> decoded.codec]
    ELSE [params |-> Put(Flush(acc), name, decoded.text), open |-> FALSE, name |-> name,
          value |-> decoded.text, codec |-> decoded.codec]

NewParameter(acc, raw, key) ==
  Begun(acc, Starless(key),
        IF raw[key].form = "quoted" /\ ContainsWord(raw[key].text)
          THEN [codec |-> acc.codec, text |-> DecodeRFC2047(raw[key].text, 1)]
        ELSE IF EndsWith(key, "*") THEN DecodeRFC2231(raw[key].text, FALSE, acc.codec)
        ELSE [codec |-> acc.codec, text |-> raw[key].text])

Continue(acc, raw, key) ==
  LET decoded == DecodeRFC2231(raw[key].text, TRUE, acc.codec)
  IN [acc EXCEPT !.value = @ \o (IF EndsWith(key, "*") THEN decoded.text ELSE raw[key].text)]

RECURSIVE Collect(_, _, _)
Collect(acc, raw, keys) ==
  IF keys = <<>> THEN Flush(acc)
  ELSE Collect(IF Starts(acc, Head(keys)) THEN NewParameter(acc, raw, Head(keys))
                                          ELSE Continue(acc, raw, Head(keys)),
               raw, Tail(keys))

(* parseParameterListWithCharset.                                          *)
NothingYet == [params |-> NoParameters, open |-> FALSE, name |-> <<>>, value |-> <<>>,
               codec |-> FALSE]

Collected(raw) ==
  IF raw.ok THEN [raw EXCEPT !.val = Collect(NothingYet, @, Sorted(DOMAIN @))] ELSE raw

ParameterList(s, i, memo) == Collected(RawParameters(s, i, NoParameters, Fresh(memo)))

-----------------------------------------------------------------------------
(* addQuotes.                                                              *)
Reserved == {"\"", "(", ")", ",", ".", ":", ";", "<", "=", ">", "@", "[", "\\", "]"}

\* Mutant: quotes and backslashes are not escaped.
NotBackslashed(text) == text

RECURSIVE Backslashed(_)
Backslashed(text) ==
  IF text = <<>> THEN <<>>
  ELSE (IF Head(text) \in {"\\", "\""} THEN <<"\\", Head(text)>> ELSE <<Head(text)>>)
       \o Backslashed(Tail(text))

AddQuotes(text, force) ==
  IF force \/ \E i \in DOMAIN text : text[i] \in Reserved
    THEN <<"\"">> \o Backslashed(text) \o <<"\"">> ELSE Backslashed(text)

PrintParameter(name, value) ==
  IF IsUsAscii(value) THEN name \o <<"=">> \o AddQuotes(value, TRUE)
                      ELSE name \o <<"*", "=">> \o EncodeRFC2231(value)

RECURSIVE Joined(_, _)
Joined(texts, sep) ==
  IF Len(texts) <= 1 THEN IF texts = <<>> THEN <<>> ELSE Head(texts)
  ELSE Head(texts) \o sep \o Joined(Tail(texts), sep)

(* Parametrized::as7BitString.                                             *)
PrintParameters(params) ==
  LET names == Sorted(DOMAIN params)
  IN Joined([i \in DOMAIN names |-> PrintParameter(names[i], params[names[i]])], <<";", " ">>)
=============================================================================
