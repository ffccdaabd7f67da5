------------------------------- MODULE NonMime -------------------------------
(***************************************************************************)
(* The readers for attachments without MIME (parsers.cpp): UUEncoded and   *)
(* YENCEncoded, one block of the text per step, and what parseUuencoded()  *)
(* and parseYenc() (content.cpp) make of their result.                     *)
(*                                                                         *)
(* A symbol is a byte or a keyword: "begin" is "begin " with three digits, *)
(* "end" and "name" stand for themselves, "ybegin" is "=ybegin ", "ypart"  *)
(* and "yend" are what starts with "=y", and "size", "line", "part",       *)
(* "first", "last" and "total" are yEnc's attributes with their number     *)
(* ("first" and "last" are begin= and end=).  Positions count from one, 0  *)
(* is "not found".                                                         *)
(***************************************************************************)
EXTENDS Integers, SequencesExt

CONSTANTS
    MaxOther,   \* lines without M that uuencoded text may have: 10
    MinEncoded, \* lines with M that it has when a mark is missing: 15
    IntMax,     \* the largest int
    Articles    \* the texts that are read: [src, subject, expected]

ASSUME NonMimeAssumption == MaxOther \in Nat /\ MinEncoded \in Nat /\ IntMax \in Nat

Attributes == {"size", "line", "part", "first", "last", "total"}
Keywords == {"begin", "end", "name", "ybegin", "ypart", "yend"}

Symbol == [s : {"byte"}, n : 0..255] \cup [s : Keywords, n : {0}] \cup [s : Attributes, n : Nat]

Byte(n) == [s |-> "byte", n |-> n]
Keyword(k) == [s |-> k, n |-> 0]

LF == Byte(10)
CR == Byte(13)
SP == Byte(32)
EQ == Byte(61)
M  == Byte(77)

\* What the Subject tells about the parts of a message: none, no numbers, or
\* "2/3".
Subject == {<<>>, <<"text">>} \cup (Nat \X Nat)

ASSUME ArticlesAssumption == \A a \in Articles : a.src \in Seq(Symbol) /\ a.subject \in Subject

VARIABLES
    src,        \* NonMimeParser::m_src
    subject,    \* the Subject in UUEncoded::m_head
    reader,     \* the reader at work, "done" at the end
    currentPos, \* parse(): what comes before has been read
    text,       \* m_text
    bins,       \* m_bins
    filenames,  \* m_filenames
    partNr,     \* m_partNr
    totalNr,    \* m_totalNr
    found,      \* the reader that succeeded, "none" before
    expected,   \* what the author put into src (history)
    taken       \* from where to where src was taken for attachments (history)

result == <<text, bins, filenames, partNr, totalNr, taken>>
vars == <<src, subject, reader, currentPos, result, found, expected>>

-----------------------------------------------------------------------------
(* QByteArray. *)

\* The first position in S, 0 if there is none.
First(S) == IF S = {} THEN 0 ELSE Min(S)

IndexOf(s, symbol, from) == First({i \in DOMAIN s : i >= from /\ s[i] = symbol})

Mid(s, from, to) == SubSeq(s, from, IF to < Len(s) THEN to ELSE Len(s))

StartsLine(s, i) == i > 1 => s[i - 1] = LF

\* NonMimeParser::isPartial()
Partial(nr, total) == nr > -1 /\ total > -1 /\ total # 1

IsPartial == Partial(partNr, totalNr)

-----------------------------------------------------------------------------
(* UUEncoded *)

\* How many characters a symbol has.
Width(symbol) ==
    CASE symbol.s = "byte" -> 1 [] symbol.s = "begin" -> 9 [] symbol.s = "end" -> 3 [] OTHER -> 6

\* findUuencodeBeginMarker(): not when nothing follows.
FindUuencodeBeginMarker(s, pos) ==
    First({i \in DOMAIN s : i >= pos /\ s[i] = Keyword("begin") /\ i < Len(s)})

StartsBlock(s, marker) == marker # 0 /\ StartsLine(s, marker)

\* Where the next block is: its mark, its first line, and the newline before
\* its end.  A mark in the middle of a line hides those that follow.  Without
\* a line break after the mark the reader gives up.
FindUUBlock(s, pos) ==
    LET marker == FindUuencodeBeginMarker(s, pos)
        containsBegin == StartsBlock(s, marker)
        start == IF containsBegin THEN IndexOf(s, LF, marker) + 1 ELSE pos
        ends == {i \in DOMAIN s : i >= start - 1 /\ i < Len(s) /\ s[i] = LF /\ s[i + 1] = Keyword("end")}
        containsEnd == containsBegin /\ ends # {}
    IN  [containsBegin |-> containsBegin, containsEnd |-> containsEnd,
         begin |-> IF containsBegin THEN marker ELSE pos, start |-> start,
         end |-> IF containsEnd THEN Min(ends) ELSE Len(s) + 1,
         giveUp |-> containsBegin /\ start = 1]

IsWhole(b) == b.containsBegin /\ b.containsEnd

\* "all lines in a uuencoded text start with 'M'": the lines are counted by
\* the newlines before them, so without the first.
LooksEncoded(s, b) ==
    LET breaks == {i \in b.start..b.end - 1 : s[i] = LF}
        mCount == Cardinality({i \in breaks : i + 1 < b.end /\ s[i + 1] = M})
        lineCount == Cardinality(breaks)
    IN  /\ mCount = 0 => lineCount <= 1
        /\ lineCount - mCount <= MaxOther
        /\ IsWhole(b) \/ mCount >= MinEncoded

\* The rest of the line after the mark, where the name is.
MarkLine(s, b) == Mid(s, b.begin + 1, b.start - 2)

LongMarkLine(s, b) ==
    b.containsBegin /\ FoldLeft(LAMBDA w, c : w + Width(c), 0, MarkLine(s, b)) > 1

\* The rest of a mark's line is a space and the name.
ProperName(s, b) == LongMarkLine(s, b) => MarkLine(s, b)[1] = SP

FileName(s, b) == IF LongMarkLine(s, b) THEN Tail(MarkLine(s, b)) ELSE <<>>

-----------------------------------------------------------------------------
(* YENCEncoded *)

\* QByteArray::toInt()
ToInt(n) == IF n > IntMax THEN 0 ELSE n

\* yencMeta(): the value of an attribute, -1 if it is not there.  A number of
\* one digit at the very end is not seen.
YencMeta(meta, name) ==
    LET i == First({j \in DOMAIN meta : meta[j].s = name})
    IN  IF i = 0 \/ (i = Len(meta) /\ meta[i].n < 10) THEN -1 ELSE ToInt(meta[i].n)

\* How many bytes a keyword or an attribute within the data is; their values
\* do not matter.
Opaque(symbol) == CASE symbol.s = "ybegin" -> 7 [] symbol.s = "ypart" -> 6 [] OTHER -> 5

StartsY(symbol) == symbol.s \in {"ybegin", "ypart", "yend"}

\* The state of the loop that decodes.
Decoding == [pos : Nat \ {0}, binary : Seq(0..255), lineStart : BOOLEAN, lineLength : Nat]

\* Mutant: an escaped character is not shifted.
DecodeUnshifted(s, d) ==
    IF s[d.pos] = EQ THEN [step |-> 2, bytes |-> <<(s[d.pos + 1].n - 42) % 256>>]
    ELSE IF s[d.pos].s = "byte" THEN [step |-> 1, bytes |-> <<(s[d.pos].n - 42) % 256>>]
    ELSE [step |-> 1, bytes |-> [i \in 1..Opaque(s[d.pos]) |-> 0]]

\* The character at d.pos, or the two of an escape: what they stand for.
Decode(s, d) ==
    IF s[d.pos] = EQ THEN [step |-> 2, bytes |-> <<(s[d.pos + 1].n - 64 - 42) % 256>>]
    ELSE IF s[d.pos].s = "byte" THEN [step |-> 1, bytes |-> <<(s[d.pos].n - 42) % 256>>]
    ELSE [step |-> 1, bytes |-> [i \in 1..Opaque(s[d.pos]) |-> 0]]

\* Where the data end: at a line that starts with "=y", or where they are not as
\* announced.
DataEnd(s, size, line, d) ==
    \/ d.pos > Len(s)
    \/ s[d.pos] = EQ /\ d.pos = Len(s)
    \/ d.lineStart /\ StartsY(s[d.pos])
    \/ s[d.pos] = CR /\ d.lineLength # line /\ Len(d.binary) # size
    \/ s[d.pos] \notin {LF, CR} /\ Len(d.binary) + Len(Decode(s, d).bytes) > size

\* One turn of the loop.
DecodeNext(s, d) ==
    IF s[d.pos] = CR THEN [d EXCEPT !.pos = @ + 1]
    ELSE IF s[d.pos] = LF THEN [d EXCEPT !.pos = @ + 1, !.lineStart = TRUE, !.lineLength = 0]
    ELSE LET c == Decode(s, d)
         IN  [pos |-> d.pos + c.step, binary |-> d.binary \o c.bytes,
              lineStart |-> FALSE, lineLength |-> d.lineLength + Len(c.bytes)]

\* The data from "start" on.
YencData(s, start, size, line) ==
    LET decode[d \in Decoding] ==
            IF DataEnd(s, size, line, d) THEN d ELSE decode[DecodeNext(s, d)]
        last == decode[[pos |-> start, binary |-> <<>>, lineStart |-> TRUE, lineLength |-> 0]]
    IN  [pos |-> last.pos, binary |-> last.binary,
         containsEnd |-> last.pos <= Len(s) /\ last.lineStart /\ StartsY(s[last.pos])]

\* The block at "begin": its name and attributes, its data, and where the line
\* of its end ends.  "valid" is FALSE where the reader gives up, a number -1
\* where it is not set.
YencBlock(s, begin) ==
    LET line1 == IndexOf(s, LF, begin) + 1
        containsPart == line1 > 1 /\ line1 <= Len(s) /\ s[line1] = Keyword("ypart")
        start == IF containsPart THEN IndexOf(s, LF, line1) + 1 ELSE line1
        meta == Mid(s, begin, start - 1)
        namePos == IndexOf(meta, Keyword("name"), 1)
        cr == IndexOf(meta, CR, namePos)
        eol == IF cr # 0 THEN cr ELSE IndexOf(meta, LF, namePos)
        size == YencMeta(meta, "size")
        nr == YencMeta(meta, "part")
        first == YencMeta(meta, "first")
        last == YencMeta(meta, "last")
        total == YencMeta(meta, "total")
        partSize == last - first + 1
        hasMeta == /\ line1 > 1 /\ start > 1 /\ namePos # 0
                   /\ YencMeta(meta, "line") # -1 /\ size # -1
        hasPart == /\ hasMeta /\ nr # -1
        inRange == hasPart /\ first # -1 /\ last >= first /\ last # IntMax
        counted == inRange /\ (total # -1 \/ nr # IntMax)
        valid == hasMeta /\ (containsPart => counted)
        yencSize == IF containsPart THEN partSize ELSE size
        data == YencData(s, start, yencSize, YencMeta(meta, "line"))
        eolPos == IndexOf(s, LF, data.pos)
        endSize == YencMeta(Mid(s, data.pos, eolPos - 1), "size")
    IN  [partNr |-> IF containsPart /\ hasMeta THEN nr ELSE -1,
         totalNr |-> IF ~(containsPart /\ counted) THEN -1
                     ELSE IF size = partSize THEN 1 ELSE IF total # -1 THEN total ELSE nr + 1,
         valid |-> /\ valid
                   /\ data.containsEnd /\ Len(data.binary) = yencSize
                   /\ eolPos # 0 /\ endSize = yencSize,
         name |-> IF namePos = 0 THEN <<>> ELSE SubSeq(meta, namePos + 1, eol - 1),
         binary |-> data.binary, end |-> eolPos]

-----------------------------------------------------------------------------
Init ==
    /\ \E a \in Articles : src = a.src /\ subject = a.subject /\ expected = a.expected
    /\ reader = "UUEncoded" /\ currentPos = 1 /\ found = "none"
    /\ text = <<>> /\ bins = <<>> /\ filenames = <<>> /\ partNr = -1 /\ totalNr = -1
    /\ taken = <<>>

\* The loop of a reader ends: it succeeds when there are attachments or a part
\* of one, with the rest as text.  When the first one fails Content::parse()
\* tries the second.
Finish(before, nr, total) ==
    IF bins # <<>> \/ (reader = "UUEncoded" /\ Partial(nr, total))
    THEN /\ found' = reader /\ reader' = "done"
         /\ text' = before \o Mid(src, currentPos, Len(src))
         /\ partNr' = nr /\ totalNr' = total
         /\ UNCHANGED <<currentPos, bins, filenames, taken>>
    ELSE /\ reader' = IF reader = "UUEncoded" THEN "YENCEncoded" ELSE "done"
         /\ currentPos' = 1 /\ text' = <<>> /\ partNr' = -1 /\ totalNr' = -1
         /\ UNCHANGED <<found, bins, filenames, taken>>

\* Mutant: text that was appended before is appended again.
TextFromStart(from) == text \o Mid(src, 1, from - 1)

\* "everything before "begin" is text".
TextBefore(from) == text \o Mid(src, currentPos, from - 1)

\* Mutant: the search goes on at the same mark.
SearchAgain(from, end) == from

SearchOn(from, end) == end + 1

\* Mutant: an attachment without a name has no entry.
NamesOnly(name) == IF name = <<>> THEN filenames ELSE Append(filenames, name)

WithName(name) == Append(filenames, name)

\* An attachment from "from" on, whose last line ends at "end"; 0 if the text
\* ends there, and the reader with it.
Take(from, end, name, binary) ==
    LET before == TextBefore(from)
    IN  /\ bins' = Append(bins, binary)
        /\ filenames' = WithName(name)
        /\ taken' = Append(taken, <<from, IF end = 0 THEN Len(src) ELSE end>>)
        /\ IF end # 0
           THEN currentPos' = SearchOn(from, end) /\ text' = before /\ UNCHANGED <<reader, found>>
           ELSE /\ text' = before \o Mid(src, currentPos, Len(src))
                /\ found' = reader /\ reader' = "done" /\ UNCHANGED currentPos

UUBlock == FindUUBlock(src, currentPos)

UUAccepted ==
    /\ ~UUBlock.giveUp
    /\ IsWhole(UUBlock) \/ bins = <<>>
    /\ LooksEncoded(src, UUBlock)
    /\ IsWhole(UUBlock) \/ subject # <<"text">>

\* The numbers in the subject count when a mark is missing.
UUNumbers ==
    IF IsWhole(UUBlock) \/ subject = <<>> THEN <<partNr, totalNr>>
    ELSE <<ToInt(subject[1]), ToInt(subject[2])>>

\* UUEncoded::parse(): nothing that is uuencoded follows.
UUEnd ==
    /\ reader = "UUEncoded" /\ ~UUAccepted
    /\ Finish(text, partNr, totalNr)
    /\ UNCHANGED <<src, subject, expected>>

\* ... a block whose name is not one; what comes before it is text already.
UUBadName ==
    /\ reader = "UUEncoded" /\ UUAccepted /\ ~ProperName(src, UUBlock)
    /\ Finish(TextBefore(UUBlock.begin), UUNumbers[1], UUNumbers[2])
    /\ UNCHANGED <<src, subject, expected>>

\* ... a block, with the marks and the character after them.
UUTake ==
    /\ reader = "UUEncoded" /\ UUAccepted /\ ProperName(src, UUBlock)
    /\ Take(UUBlock.begin, IndexOf(src, LF, UUBlock.end + 1), FileName(src, UUBlock),
            Mid(src, UUBlock.begin, UUBlock.end + 2))
    /\ partNr' = UUNumbers[1] /\ totalNr' = UUNumbers[2]
    /\ UNCHANGED <<src, subject, expected>>

YencBegin == IndexOf(src, Keyword("ybegin"), currentPos)

HasYenc == StartsBlock(src, YencBegin)

IfSet(new, old) == IF new = -1 THEN old ELSE new

\* YENCEncoded::parse(): no block follows, or a broken one.
YencEnd ==
    /\ reader = "YENCEncoded"
    /\ \/ ~HasYenc /\ Finish(text, partNr, totalNr)
       \/ LET b == YencBlock(src, YencBegin)
          IN  /\ HasYenc /\ ~b.valid
              /\ Finish(text, IfSet(b.partNr, partNr), IfSet(b.totalNr, totalNr))
    /\ UNCHANGED <<src, subject, expected>>

\* ... a block.
YencTake ==
    LET b == YencBlock(src, YencBegin)
    IN  /\ reader = "YENCEncoded" /\ HasYenc /\ b.valid
        /\ Take(YencBegin, b.end, b.name, b.binary)
        /\ partNr' = IfSet(b.partNr, partNr) /\ totalNr' = IfSet(b.totalNr, totalNr)
        /\ UNCHANGED <<src, subject, expected>>

\* parse() has returned.
Done == reader = "done" /\ UNCHANGED vars

Next == UUEnd \/ UUBadName \/ UUTake \/ YencEnd \/ YencTake \/ Done

Spec == Init /\ [][Next]_vars

-----------------------------------------------------------------------------
\* parseUuencoded() and parseYenc(): the content when parse() has returned.
Part(type, encoding, name, body) ==
    [mimeType |-> type, encoding |-> encoding, name |-> name, body |-> body]

Content ==
    IF found = "none" THEN [mimeType |-> "text/plain", parts |-> <<>>]
    ELSE IF IsPartial
    THEN [mimeType |-> "message/partial", parts |-> <<>>, number |-> partNr, count |-> totalNr]
    ELSE [mimeType |-> "multipart/mixed",
          parts |-> <<Part("text/plain", "7Bit", <<>>, text)>> \o
                    [i \in DOMAIN bins |-> Part("attachment", "base64", filenames[i], bins[i])]]

-----------------------------------------------------------------------------
(* What must hold. *)

\* Cursors stay in the text and the lists have one entry per attachment.
TypeOK ==
    /\ reader \in {"UUEncoded", "YENCEncoded", "done"}
    /\ found \in {"none", "UUEncoded", "YENCEncoded"}
    /\ currentPos \in 1..Len(src) + 1
    /\ text \in Seq(Symbol)
    /\ partNr \in -1..IntMax /\ totalNr \in -1..IntMax
    /\ Len(filenames) = Len(bins) /\ Len(taken) = Len(bins)

\* A position that is in none of the intervals.
Kept(intervals, i) == \A k \in DOMAIN intervals : i < intervals[k][1] \/ i > intervals[k][2]

\* The first n characters of s without those intervals.
Upto(s, intervals, n) ==
    FlattenSeq([i \in 1..n |-> IF Kept(intervals, i) THEN <<s[i]>> ELSE <<>>])

\* The text without what was taken.
Rest == Upto(src, taken, Len(src))

\* The first block has both its marks, and the lines of all marks are proper.
Tidy ==
    LET marks == {i \in DOMAIN src : src[i] = Keyword("begin") /\ StartsLine(src, i)}
    IN  /\ IsWhole(FindUUBlock(src, 1)) /\ Last(src) = LF
        /\ \A i \in marks : ProperName(src, FindUUBlock(src, i))

\* "everything before "begin" is text": text and attachments are the whole
\* article, and no character is in both.  So it is with yEnc blocks, and with
\* uuencoded ones when the last line is complete and so are the marks;
\* otherwise text is kept twice.
TextIsTheRest ==
    reader = "done" /\ bins # <<>> /\ (found = "UUEncoded" => Tidy) => text = Rest

\* What the author put into an article is what the reader finds: the text
\* around the attachments, their names and their data, and nothing in an
\* article without any.
ArticleArrives ==
    reader = "done" /\ expected # <<>> =>
        Content.parts =
            IF expected.bins = <<>> THEN <<>>
            ELSE <<Part("text/plain", "7Bit", <<>>, expected.text)>> \o
                 [i \in DOMAIN expected.bins |->
                    Part("attachment", "base64", expected.names[i], expected.bins[i])]

\* parse() ends, for every text: a turn of a loop takes a block and goes on
\* behind it, or ends the loop.
ReadersAdvance ==
    [][\/ reader' = reader /\ currentPos' > currentPos
       \/ reader' = "done"
       \/ reader = "UUEncoded" /\ reader' = "YENCEncoded"]_vars
==============================================================================
