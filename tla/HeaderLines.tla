----------------------------- MODULE HeaderLines -----------------------------
(***************************************************************************)
(* The lines of a head: how the text of a header is folded into lines and  *)
(* unfolded again (util_p.cpp), and how a head is taken apart into headers *)
(* (headerparsing.cpp).  The value of a header is the text of an           *)
(* unstructured one in ASCII.                                              *)
(*                                                                         *)
(* A symbol is a character, but "encoded" is one of the sequences =20 and  *)
(* =09.  "space" is any white space but a line break, "comma" is a comma   *)
(* or semicolon, "return" a carriage return, "text" any other character.    *)
(* Positions count from one.                                               *)
(***************************************************************************)
EXTENDS Naturals, SequencesExt

CONSTANT MaxLen \* the length of a line, 78 in foldHeader()

ASSUME MaxLenAssumption == MaxLen \in Nat \ {0}

Symbol == {"newline", "space", "encoded", "colon", "comma", "quote", "backslash",
           "return", "text"}

Space == {"space", "newline", "return"}

Text == Seq(Symbol)

Header == [name : Text, value : Text]

Positions(text, symbol) == {i \in DOMAIN text : text[i] = symbol}

-----------------------------------------------------------------------------
(* foldHeader() *)

\* The line that is read starts at "start"; at "eligible" it may be folded and
\* at "recommended" it had better be (0: nowhere).
FoldState ==
    {s \in [header : Text, pos : Nat \ {0}, start : Nat, eligible : Nat, recommended : Nat,
            quoted : BOOLEAN, escaped : BOOLEAN] :
        s.pos <= Len(s.header) + 1 /\ s.eligible <= s.pos /\ s.recommended <= s.pos}

\* A newline is inserted; pos stays at its character.
FoldLine(s) ==
    LET fws == IF s.recommended # 0 THEN s.recommended ELSE s.eligible
    IN  [s EXCEPT !.header = InsertAt(@, fws, "newline"),
                  !.pos = @ + 1,
                  !.start = fws + 1,
                  !.eligible = IF @ <= fws THEN 0 ELSE @ + 1,
                  !.recommended = 0]

\* One character is read, HeaderContext::push() included.
ReadCharacter(s) ==
    LET c == s.header[s.pos]
        last == s.header[s.pos - 1]
        here == c = "space" /\ ~s.escaped /\ last # "newline"
        Mark(old, good) == IF here /\ good THEN s.pos ELSE IF c = "newline" THEN 0 ELSE old
    IN  [s EXCEPT !.pos = @ + 1,
                  !.start = IF c = "newline" THEN s.pos + 1 ELSE @,
                  !.eligible = Mark(@, TRUE),
                  !.recommended = Mark(@, last = "comma" /\ ~s.quoted),
                  !.quoted = IF c = "quote" /\ ~s.escaped THEN ~@ ELSE @,
                  !.escaped = c = "backslash" /\ ~@]

\* Mutant: the end of the header is not looked at.
FitsAtEnd(s) == s.pos - s.start > MaxLen /\ s.eligible # 0 /\ s.pos <= Len(s.header)

MustFold(s) == s.pos - s.start > MaxLen /\ s.eligible # 0

\* The loop ends.
Folded(s) == ~MustFold(s) /\ s.pos > Len(s.header)

\* KMime::foldHeader()
FoldHeader(header) ==
    LET colon == Positions(header, "colon")
        pos == Min(colon) + 1
        fold[s \in FoldState] ==
            IF Folded(s) THEN s.header
            ELSE fold[IF MustFold(s) THEN FoldLine(s) ELSE ReadCharacter(s)]
    IN  IF Len(header) <= MaxLen \/ colon = {} \/ pos > Len(header) THEN header
        ELSE fold[[header |-> header, pos |-> pos, start |-> 1,
                   eligible |-> pos, recommended |-> pos,
                   quoted |-> FALSE, escaped |-> FALSE]]

-----------------------------------------------------------------------------
(* unfoldHeader() *)

\* Mutant: no space takes the place of a fold.
NoSeparator(kept, rest) == <<>>

\* What takes the place of a fold between "kept" and "rest": nothing when the
\* rest is a single character.
Separator(kept, rest) ==
    IF kept # <<>> /\ (Len(rest) > 1 \/ rest = <<"encoded">>) THEN <<"space">> ELSE <<>>

\* KMime::unfoldHeader(): the white space around a line break is removed, and
\* after it "=20", a "malformed header continuation".
UnfoldHeader(header) ==
    LET size == Len(header)
        Removed(i) == \/ header[i] \in Space
                      \/ header[i] = "encoded" /\ header[i - 1] = "newline" /\ i < size
        unfold[pos \in Nat \ {0}] ==
            LET folds == {i \in Positions(header, "newline") : i >= pos}
                mid == Min(folds)
                foldBegin == Max({0} \cup {i \in 1..mid - 1 : header[i] \notin Space})
                foldEnd == Min({size + 1} \cup {i \in mid + 1..size : ~Removed(i)})
                kept == SubSeq(header, pos, foldBegin)
                rest == SubSeq(header, foldEnd, size)
            IN  IF folds = {} THEN SubSeq(header, pos, size)
                ELSE kept \o Separator(kept, rest) \o unfold[foldEnd]
    IN  unfold[1]

-----------------------------------------------------------------------------
(* The headers of a head *)

\* The line after the line break at i continues the header.
Continued(src, i) == i < Len(src) /\ src[i + 1] \in {"space", "encoded"}

\* Mutant: an empty first line ends the header.
FirstLine(src, dataBegin) == dataBegin

\* Where the value begins: when its first line is empty and the next starts
\* with white space, both are skipped.
ValueBegin(src, dataBegin) ==
    IF /\ dataBegin + 1 < Len(src)
       /\ src[dataBegin] = "newline" /\ src[dataBegin + 1] = "space"
    THEN dataBegin + 2 ELSE dataBegin

\* KMime::findHeaderLineEnd(): where the value begins, its end, and whether it
\* is folded.
FindHeaderLineEnd(src, dataBegin) ==
    LET size == Len(src)
        begin == ValueBegin(src, dataBegin)
        breaks == {i \in Positions(src, "newline") : i > begin}
        end == IF begin <= size /\ src[begin] = "newline" THEN begin
               ELSE Min({size + 1} \cup {i \in breaks : ~Continued(src, i)})
    IN  [begin |-> begin, end |-> end, folded |-> \E i \in breaks : i < end]

\* extractHeader(): the header at headerStart, and where it ends.
ExtractHeader(head, headerStart) ==
    LET colon == Min({i \in Positions(head, "colon") : i >= headerStart})
        body == IF colon + 1 < Len(head) /\ head[colon + 1] = "space"
                THEN colon + 2 ELSE colon + 1
        line == FindHeaderLineEnd(head, body)
        text == SubSeq(head, line.begin, line.end - 1)
    IN  [header |-> [name |-> SubSeq(head, headerStart, colon - 1),
                     value |-> IF line.folded THEN UnfoldHeader(text) ELSE text],
         end |-> line.end]

\* KMime::indexOfHeader(): where the value of the first header of that name
\* begins, 0 when there is none.
IndexOfHeader(src, name) ==
    LET n == Append(name, "colon")
        found == {i \in DOMAIN src : /\ i = 1 \/ src[i - 1] = "newline"
                                    /\ IsPrefix(n, SubSeq(src, i, Len(src)))}
        body == Min(found) + Len(n)
    IN  IF found = {} THEN 0
        ELSE IF body <= Len(src) /\ src[body] = "space" THEN body + 1 ELSE body

\* KMime::extractHeader(): the value of the first header of that name.
ValueOfHeader(src, name) ==
    LET line == FindHeaderLineEnd(src, IndexOfHeader(src, name))
        text == SubSeq(src, line.begin, line.end - 1)
    IN  IF IndexOfHeader(src, name) = 0 THEN <<>>
        ELSE IF line.folded THEN UnfoldHeader(text) ELSE text

\* HeaderParsing::parseHeaders(): it stops where no header starts, and at a
\* head that starts with a colon.
ParseHeaders(head) ==
    LET IsHeader(cursor) == \E i \in Positions(head, "colon") : i >= cursor
        headers[cursor \in Nat \ {0}] ==
            IF cursor > Len(head) \/ ~IsHeader(cursor) \/ (cursor = 1 /\ head[1] = "colon")
            THEN <<>>
            ELSE LET next == ExtractHeader(head, cursor)
                 IN  <<next.header>> \o headers[next.end + 1]
    IN  headers[1]

\* A header as assemble() writes it.
HeaderText(h) == h.name \o <<"colon", "space">> \o h.value

\* The head that Content::assemble() makes; empty headers are left out.
AssembledHead(headers) ==
    LET Line(h) == IF h.value = <<>> THEN <<>> ELSE FoldHeader(HeaderText(h)) \o <<"newline">>
    IN  FlattenSeq([i \in DOMAIN headers |-> Line(headers[i])])

-----------------------------------------------------------------------------
(* A definition by lines *)

\* A line ends with the first newline that no continuation line follows.
LineEnd(head, start) ==
    Min({Len(head) + 1} \cup {i \in Positions(head, "newline") : i >= start /\ ~Continued(head, i)})

\* The lines of a head, continuation lines included, without the last newline.
LogicalLines(head) ==
    LET lines[start \in Nat \ {0}] ==
            IF start > Len(head) THEN <<>>
            ELSE <<SubSeq(head, start, LineEnd(head, start) - 1)>>
                     \o lines[LineEnd(head, start) + 1]
    IN  lines[1]

\* The sequence =20 at the start of a continuation line is white space, too.
Blank(text, i) ==
    \/ text[i] \in Space
    \/ text[i] = "encoded" /\ i > 1 /\ text[i - 1] = "newline"

\* Where white space follows the word that i is in.
WordEnd(text, i) == Min({Len(text) + 1} \cup {j \in i..Len(text) : Blank(text, j)})

\* The words of a text: what is between white space.
Words(text) ==
    LET words[i \in Nat \ {0}] ==
            IF i > Len(text) THEN <<>>
            ELSE IF Blank(text, i) THEN words[i + 1]
            ELSE <<SubSeq(text, i, WordEnd(text, i) - 1)>> \o words[WordEnd(text, i)]
    IN  words[1]
==============================================================================
