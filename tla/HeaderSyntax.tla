---------------------------- MODULE HeaderSyntax ----------------------------
(* The grammar of structured header fields, HeaderParsing in               *)
(* headerparsing.cpp: comments and folding white space, encoded words,     *)
(* quoted strings, phrases, dot-atoms and the addresses built from them.   *)
(*                                                                         *)
(* A text is a sequence of symbols.  Every character the grammar looks at  *)
(* is a symbol of its own, any other string stands for a character that    *)
(* may be part of an atom.  "8bit" is a character outside US-ASCII with    *)
(* all its UTF-8 bytes.  A character written as a mark and its hexadecimal *)
(* code is one symbol: "=20" in the Q encoding, "%20" in RFC 2231.         *)
(*                                                                         *)
(* A parser takes the text s, the place i of the cursor and the            *)
(* ParserState st, and returns [ok, at, val, st]: whether it succeeded,    *)
(* where it left the cursor, what it read and the state.  Len(s) + 1 is    *)
(* the code's send; the character there, which some parsers do look at, is *)
(* "end".  Newlines are bare line feeds (NewlineType::LF) and there is one *)
(* charset.                                                                *)
EXTENDS Naturals, Sequences

At(s, i) == IF i \in DOMAIN s THEN s[i] ELSE "end"

Cut(s, i, j) == SubSeq(s, i, j - 1)          \* the characters in [i, j)

Blank == {" ", "\n"}

ASpecial == Blank \cup {"end", "(", ")", "<", ">", "@", ",", ".", ";", ":",
                        "[", "]", "\\", "\""}

(* The characters that are written as a code somewhere, and their codes.   *)
Signs == <<"8bit", " ", "\"", "%", "(", ")", ",", ".", "/", ":", ";", "<", "=", ">", "?", "@",
           "[", "\\", "]", "_">>
Hex   == <<"E9", "20", "22", "25", "28", "29", "2C", "2E", "2F", "3A", "3B", "3C", "3D", "3E",
           "3F", "40", "5B", "5C", "5D", "5F">>
HasCode == {Signs[n] : n \in DOMAIN Signs}
QCode == [n \in DOMAIN Signs |-> "=" \o Hex[n]]

TSpecial == (ASpecial \ {"."}) \cup {"/", "=", "?", "8bit"} \cup {QCode[n] : n \in DOMAIN Signs}

(* One by one, the characters of text that the code spells out, or reads.  *)
Encode(text, code, which) ==
  [i \in DOMAIN text |-> IF text[i] \in which
                           THEN code[CHOOSE n \in DOMAIN Signs : Signs[n] = text[i]]
                           ELSE text[i]]
Decode(text, code) ==
  [i \in DOMAIN text |-> IF \E n \in DOMAIN code : code[n] = text[i]
                           THEN Signs[CHOOSE n \in DOMAIN code : code[n] = text[i]]
                           ELSE text[i]]

IsAText(c) == c \notin ASpecial
IsTText(c) == c \notin TSpecial

(* The first place from i on, send at the latest, with one of stops, or    *)
(* with something that is not blank.                                       *)
Until(s, i, stops) ==
  IF i > Len(s) THEN i
  ELSE CHOOSE j \in i..Len(s) + 1 : /\ j > Len(s) \/ s[j] \in stops
                                    /\ \A k \in i..j - 1 : s[k] \notin stops

SkipBlanks(s, i) ==
  IF i > Len(s) THEN i
  ELSE CHOOSE j \in i..Len(s) + 1 : /\ j > Len(s) \/ s[j] \notin Blank
                                    /\ \A k \in i..j - 1 : s[k] \in Blank

Scan(s, i, c) == Until(s, i, {c})

(* The memory parsers share: the last comment that did not close, and the  *)
(* place before which no encoded word need be tried.  memo is TRUE in the  *)
(* program; FALSE is a program without this memory.                        *)
Fresh(memo) == [retry |-> 0, broken |-> FALSE, memo |-> memo]
Retry(st, j) == st.memo => st.retry <= j
KnownBroken(st) == st.memo /\ st.broken

Okay(i, val, st) == [ok |-> TRUE,  at |-> i, val |-> val,  st |-> st]
Fail(i, st)      == [ok |-> FALSE, at |-> i, val |-> <<>>, st |-> st]

-----------------------------------------------------------------------------
(* KCodecs' decoder for the Q encoding, external.                          *)
QDecode(text) == Decode([i \in DOMAIN text |-> IF text[i] = "_" THEN " " ELSE text[i]], QCode)

Charset   == <<"utf", "8">>
Encodings == {<<"q">>, <<"Q">>}

(* parseEncodedWord, the cursor after the initial "=".  A "?" in the text  *)
(* that no "=" follows is passed over; when "=" comes before it, it may    *)
(* start another encoded word: the last such place is the retry point.     *)
RetryPoint(s, from, stop) ==
  LET Stray(j) == j < stop /\ s[j] = "?" /\ s[j - 1] = "="
  IN IF \E j \in from..Len(s) : Stray(j)
       THEN CHOOSE j \in from - 1..Len(s) : Stray(j + 1) /\ \A k \in j + 2..Len(s) : ~Stray(k)
     ELSE IF stop > Len(s) THEN Len(s) + 1 ELSE 0

EndOfWord(s, from) ==
  LET Ends(j) == s[j] = "?" /\ (j = Len(s) \/ s[j + 1] = "=")
  IN CHOOSE j \in from..Len(s) + 1 : /\ j > Len(s) \/ Ends(j)
                                     /\ \A k \in from..j - 1 : ~Ends(k)

WordText(s, encoding, from, stop, st) ==
  [IF stop >= Len(s) THEN Fail(stop, st)
   ELSE IF encoding \notin Encodings THEN Fail(stop + 2, st)
   ELSE Okay(stop + 2, QDecode(Cut(s, from, stop)), st)
   EXCEPT !.st.retry = RetryPoint(s, from, stop)]

WordEncoding(s, from, mark, st) ==                 \* mark: the "?" behind the encoding
  IF mark > Len(s) THEN Fail(Len(s) + 1, [st EXCEPT !.retry = 0])
  ELSE WordText(s, Cut(s, from, mark), mark + 1, EndOfWord(s, mark + 1), st)

WordCharset(s, mark, st) == WordEncoding(s, mark + 1, Scan(s, mark + 1, "?"), st)

EncodedWord(s, i, st) ==
  IF At(s, i) # "?" THEN Fail(i + 1, [st EXCEPT !.retry = 0])
  ELSE WordCharset(s, Scan(s, i + 1, "?"), st)

(* Where a quoted string goes on after an encoded word that ends at k: a   *)
(* space between two encoded words is dropped.                             *)
AfterWord(s, k) ==
  IF At(s, k) # " " \/ At(s, k + 1) # "=" \/ k + 2 > Len(s) THEN k
  ELSE IF s[k + 2] = "?" THEN k + 1 ELSE k + 3

TriesWord(s, j, st) ==
  /\ At(s, j) = "?" /\ j < Len(s) /\ At(s, j + 2) # "?"
  /\ st.retry = 0 \/ Retry(st, j + 1)

(* parseGenericQuotedString: up to the first unescaped character of stops, *)
(* with what it reads appended to val.  Without one it fails, with what it *)
(* read.                                                                   *)
RECURSIVE Quoted(_, _, _, _, _)

WordInQuotes(s, i, val, stops, word) ==
  IF word.ok THEN Quoted(s, AfterWord(s, word.at), val \o word.val, stops, word.st)
             ELSE Quoted(s, i + 1, Append(val, "="), stops, word.st)

Quoted(s, i, val, stops, st) ==
  LET c == At(s, i)
  IN IF c = "end" \/ (c \in {"\\", "\n", "="} /\ i = Len(s))
       THEN [Fail(Len(s) + 1, st) EXCEPT !.val = val]
     ELSE IF c \in stops THEN Okay(i + 1, val, st)
     ELSE IF c = "\\" \/ (c = "\n" /\ s[i + 1] = " ")
       THEN Quoted(s, i + 2, Append(val, s[i + 1]), stops, st)
     ELSE IF c = "=" /\ TriesWord(s, i + 1, st)
       THEN WordInQuotes(s, i, val, stops, EncodedWord(s, i + 1, st))
     ELSE Quoted(s, i + 1, Append(val, c), stops, st)

QuotedString(s, i, st) == Quoted(s, i, <<>>, {"\""}, st)

(* parseComment, the cursor after "(".  pending is text after an opening   *)
(* parenthesis that may not be part of the comment, back the place after   *)
(* the last closing one.                                                   *)
RECURSIVE InComment(_, _, _, _, _, _, _)

CommentPart(s, q, depth, val, pending, now, back) ==
  IF ~q.ok THEN Fail(back, q.st)
  ELSE IF s[q.at - 1] = "("
    THEN InComment(s, q.at, depth + 1, val, pending \o Append(q.val, "("), back, q.st)
  ELSE IF depth = 1 THEN Okay(q.at, now \o q.val, q.st)
  ELSE InComment(s, q.at, depth - 1, Append(now \o q.val, ")"), <<>>, q.at, q.st)

InComment(s, i, depth, val, pending, back, st) ==
  CommentPart(s, Quoted(s, i, <<>>, {"(", ")"}, st), depth, val, pending, val \o pending, back)

Comment(s, i, st) == InComment(s, i, 1, <<>>, <<>>, i, st)

(* eatCFWS: past white space and comments.  It does not fail: the result   *)
(* says where it stopped.                                                  *)
RECURSIVE EatCFWS(_, _, _)

BehindComment(s, i, c) ==
  IF c.ok THEN EatCFWS(s, c.at, c.st) ELSE Okay(i, <<>>, [c.st EXCEPT !.broken = TRUE])

EatCFWS(s, i, st) ==
  IF At(s, i) \in Blank THEN EatCFWS(s, i + 1, st)
  ELSE IF At(s, i) # "(" \/ KnownBroken(st) THEN Okay(i, <<>>, st)
  ELSE BehindComment(s, i, Comment(s, i + 1, st))

(* parseAtom, parseToken: whether there is one is whether it ends further  *)
(* on.                                                                     *)
AtomEnd(s, i) == Until(s, i, ASpecial)
TokenEnd(s, i, more) == Until(s, i, TSpecial \ more)

(* parsePhrase.  found: something was read; good: the cursor after the     *)
(* last thing read; glue: that thing was an encoded word, and the blank    *)
(* before the next one is not part of the text.                            *)
NoPhrase == [found |-> FALSE, val |-> <<>>, good |-> 0, glue |-> FALSE]

PhraseWith(ph, text, glue, sep) ==
  [ph EXCEPT !.found = TRUE, !.glue = glue,
             !.val = @ \o (IF ph.found /\ sep THEN <<" ">> ELSE <<>>) \o text]

PhraseEnd(i, ph, st) == IF ph.found THEN Okay(ph.good, ph.val, st) ELSE Fail(i, st)

RECURSIVE InPhrase(_, _, _, _)

MorePhrase(s, at, ph, st) == InPhrase(s, SkipBlanks(s, at), [ph EXCEPT !.good = at], st)

QuoteInPhrase(s, ph, q) ==
  IF q.ok THEN MorePhrase(s, q.at, PhraseWith(ph, q.val, FALSE, TRUE), q.st)
  ELSE IF ph.found THEN Okay(q.at, PhraseWith(ph, q.val, FALSE, TRUE).val, q.st)
  ELSE Fail(q.at, q.st)

CommentInPhrase(s, i, ph, c) ==
  IF c.ok THEN MorePhrase(s, c.at, [ph EXCEPT !.glue = FALSE], c.st) ELSE PhraseEnd(i, ph, c.st)

AtomInPhrase(s, i, ph, end, st) ==
  IF end > i THEN MorePhrase(s, end, PhraseWith(ph, Cut(s, i, end), FALSE, TRUE), st)
             ELSE PhraseEnd(i, ph, st)

WordInPhrase(s, i, ph, word) ==
  IF word.ok THEN MorePhrase(s, word.at, PhraseWith(ph, word.val, TRUE, ~ph.glue), word.st)
             ELSE AtomInPhrase(s, i, ph, AtomEnd(s, i), word.st)

InPhrase(s, i, ph, st) ==
  LET c == At(s, i)
  IN IF c = "end" THEN PhraseEnd(i, [ph EXCEPT !.good = i], st)
     ELSE IF c = "."
       THEN IF ph.found
              THEN MorePhrase(s, i + 1, PhraseWith(ph, IF At(s, i + 1) = " " THEN <<".", " ">> ELSE <<".">>,
                                             ph.glue, FALSE), st)
              ELSE Fail(i, st)
     ELSE IF c = "\"" THEN QuoteInPhrase(s, ph, QuotedString(s, i + 1, st))
     ELSE IF c = "("
       THEN IF KnownBroken(st) THEN PhraseEnd(i, ph, st)
            ELSE CommentInPhrase(s, i, ph, Comment(s, i + 1, st))
     ELSE IF c = "=" THEN WordInPhrase(s, i, ph, EncodedWord(s, i + 1, st))
     ELSE AtomInPhrase(s, i, ph, AtomEnd(s, i), st)

Phrase(s, i, st) == InPhrase(s, i, NoPhrase, st)

=============================================================================
