------------------------------ MODULE MCNonMime ------------------------------
(***************************************************************************)
(* Instance of NonMime for TLC: articles of a few lines, and articles that *)
(* an author made of text and attachments.                                 *)
(***************************************************************************)
EXTENDS NonMime, FiniteSetsExt

CONSTANTS MaxUULines, MaxYencLines \* bounds for TLC: lines of an article

T == Byte(116)
Attribute(a, n) == [s |-> a, n |-> n]
Name == <<Keyword("name"), T>>

UULines == {
    <<T>>, <<M, T>>, <<Keyword("end")>>, <<Keyword("begin"), SP, T>>, <<Keyword("begin")>>,
    <<Keyword("begin"), T, T>>, <<T, Keyword("begin"), SP, T>>}

YBegin(nr, size) == <<Keyword("ybegin")>> \o nr \o <<Attribute("line", 2), Attribute("size", size)>>

YencLines == {
    <<T>>, <<T, T>>, <<EQ, Byte(74), T>>, <<T, CR>>, <<T, EQ>>,
    YBegin(<<>>, 2) \o Name,
    YBegin(<<>>, 2),
    <<T>> \o YBegin(<<>>, 2) \o Name,
    YBegin(<<Attribute("part", 1)>>, 3) \o Name,
    <<Keyword("ypart"), Attribute("first", 1), Attribute("last", 2)>>,
    <<Keyword("ypart"), Attribute("first", 1), Attribute("last", 99)>>,
    <<Keyword("yend"), Attribute("size", 2), SP>>,
    <<Keyword("yend"), Attribute("size", 2)>>}

Lines(lines) == FlattenSeq([i \in DOMAIN lines |-> lines[i] \o <<LF>>])

Found(article, s) == [src |-> article, subject |-> s, expected |-> <<>>]

\* With and without the last newline.
Ends(article) == IF article = <<>> THEN {article} ELSE {article, Front(article)}

Subjects == {<<>>, <<"text">>, <<1, 2>>, <<1, 1>>}

Whole == <<YBegin(<<>>, 2) \o Name, <<T, T>>, <<Keyword("yend"), Attribute("size", 2), SP>>>>

FoundArticles ==
    UNION {Ends(Lines(l)) : l \in SeqOf(UULines, MaxUULines)} \cup
    UNION {Ends(Lines(l)) : l \in SeqOf(YencLines, MaxYencLines)} \cup
    UNION {Ends(Lines(Whole \o l)) : l \in SeqOf(YencLines, MaxYencLines)}

\* How an author writes a byte in yEnc, and data in lines of two bytes.
Encode(b) ==
    LET e == (b + 42) % 256
    IN  IF e \in {0, 10, 13, 61} THEN <<EQ, Byte((e + 64) % 256)>> ELSE <<Byte(e)>>

EncodedData(data) ==
    FlattenSeq([i \in DOMAIN data |->
        Encode(data[i]) \o (IF i % 2 = 0 \/ i = Len(data) THEN <<LF>> ELSE <<>>)])

YencArticle(data) ==
    Lines(<<YBegin(<<>>, Len(data)) \o Name>>) \o EncodedData(data) \o
    Lines(<<<<Keyword("yend"), Attribute("size", Len(data)), SP>>>>)

UUArticle(data) == Lines(<<<<Keyword("begin"), SP, T>>>> \o data \o <<<<Keyword("end")>>>>)

Texts == {<<>>, <<T, LF>>, <<T, LF, LF>>}

\* Text about uuencoding.
About == Lines(<<<<T, Keyword("begin"), SP, T>>, <<Keyword("end")>>>>)
Data == SeqOf({0, 19, 74, 214, 224, 227}, 3)
UUData == {<<>>, <<<<M, T>>>>, <<<<M, T>>, <<T>>>>, <<<<M, T>>, <<M, T>>, <<T>>>>}

Author(before, articles, data, after) ==
    [src |-> before \o FlattenSeq(articles) \o after, subject |-> <<"text">>,
     expected |-> [text |-> before \o after, bins |-> data, names |-> [i \in DOMAIN data |-> <<T>>]]]

WrittenArticles ==
    {Author(b, <<>>, <<>>, a) : b \in Texts, a \in {<<>>, About}} \cup
    {Author(b, <<YencArticle(d)>>, <<d>>, a) : b \in Texts, a \in Texts, d \in Data} \cup
    {Author(b, <<YencArticle(d), YencArticle(e)>>, <<d, e>>, b) :
        b \in Texts, d \in SeqOf({0, 224}, 2), e \in SeqOf({0, 224}, 2)} \cup
    {Author(b, <<UUArticle(d)>>, <<UUArticle(d)>>, a) : b \in Texts, a \in Texts \cup {About}, d \in UUData} \cup
    {Author(b, <<UUArticle(d), UUArticle(e)>>, <<UUArticle(d), UUArticle(e)>>, a) :
        b \in Texts, a \in Texts, d \in UUData, e \in UUData}

MCArticles ==
    {Found(article, s) : article \in FoundArticles, s \in Subjects} \cup WrittenArticles
==============================================================================
