--------------------------- MODULE MCHeaderObjects ---------------------------
(* Headers of every class, given the texts of headertest.cpp and texts     *)
(* that are hard to read: broken comments and encoded words, routes and    *)
(* groups, unfinished lists, continued parameters, dates that do not exist.*)
EXTENDS HeaderTests

MCTypes == {"To", "From", "Sender", "ReturnPath", "MailCopiesTo", "InReplyTo", "MessageID",
            "ContentID", "Keywords", "MIMEVersion", "ContentTransferEncoding", "ContentType",
            "ContentDisposition", "Control", "Date", "Newsgroups", "Lines", "Subject", "XHeader"}

QWord == Coded(<<"b", "=20", "c">>)
BadWord == <<"=", "?", "utf", "8", "?", "x", "?", "c", "?", "=">>
OddAddresses ==
  {<<>>, Space, <<"a">>, <<"a", "@">>, <<"(", "a">>, <<"(", "a", "(", "b", ")", " ">> \o Plain(joe),
   Quote(BadWord \o Space \o QWord) \o Angle(joe), Of(QWord \o Newline \o QWord, joe),
   Quote(<<"=", "?", "utf", "8">>) \o Angle(joe) \o <<",">> \o Of(QWord, joe),
   <<"<", "@", "a", ",", "@", "b", ":">> \o Plain(joe) \o <<">">>,
   Plain(joe) \o <<",">> \o Plain(mary) \o <<" ", "(", "a">>, Angle(joe) \o <<",", "<", ">">>,
   <<"\"", "a", " ", "b", "\"", "@", "c", ".", ",", "d">>,
   <<"a", "@", "[", "b", ":", "1", "]">>, <<"<", ">">>, <<"<", "a", ".", "b", ">">>,
   <<"(", "=", "?", "utf", "8", "?", "q", "?", "b", ")", "(", "c", " ">> \o QWord \o <<")">> \o Angle(joe),
   <<"G", ":">> \o Plain(joe) \o <<";", ",">> \o Plain(mary)}

OddParameters ==
  {TextPlain \o p : p \in
    {<<";">>, <<";", "n">>, <<";", "n", "=">>, <<";", "n", "=", "@", ";", "b", "=", "c">>,
     <<";", "N", "=", "a", ";", "n", "=", "b">>, <<";", "n", "*", "0", "=", "a", ";", "b", "=", "c">>,
     <<";", "n", "*", "0", "*", "=", "x", "'", "'", "%E9", ";", "n", "*", "1", "*", "=", "%20">>,
     <<";", "n", "=", "\"", "a", ";", "b", "=", "c">>, <<" ", "(", "a", ";", "n", "=", "b">>,
     <<";", "n", "=">> \o Quote(BadWord \o QWord), <<";", "n", "=", "(", ")", "a", " ", "(">>}}
  \cup {<<"text">>, <<"TEXT", "/">>, <<"N", "/", "A">>, <<"(", ")", "text", "(", ")", "/", "plain">>}

OddDates ==
  {Day(d, m, y) \o Clock(h, min, 0) \o z :
     d \in {1, 29, 31}, m \in {"Feb", "x"}, y \in {2024, 2026, 1899}, h \in {10, 24}, min \in {0, 60},
     z \in {<<>>, <<" ", "CEST">>, Plus(1800)}}
  \cup {<<>>, <<"Mon">>, Day(1, "Jan", 99), Day(1, "Jan", 2026) \o Two(1), <<"1", "/", "1">>,
        Two(1) \o <<" ", "Jan", " ">> \o Two(49) \o Space \o Clock(1, 2, 3) \o <<" ", "-", "0", "1",
        ":", "3", "0">>}

MCTexts ==
  [k \in DOMAIN Reads |->
     {t[1] : t \in Reads[k]} \cup
     CASE k \in {"ContentType"} -> OddParameters
       [] k = "ContentDisposition" -> {<<"inline">> \o SubSeq(t, 4, Len(t)) : t \in OddParameters}
       [] k = "Date" -> OddDates
       [] k = "Lines" -> {<<>>, <<"9", "9", "9", "9", "9">>, <<"9", "9", "9", "9">>, <<"a">>}
       [] k = "ContentTransferEncoding" -> {<<"8Bit">>, <<"8Bit", "a">>, <<>>, <<"(", "a">>}
       [] k \in {"Control", "Newsgroups", "MIMEVersion"} ->
            {<<>>, <<"(", "a">>, <<"a", "(", "b">>, <<"a", " ", "(", ")", "b", ",">>, <<",">>}
       [] OTHER -> OddAddresses]

(* What the setters are called with.                                       *)
quoted == AddrSpecOf(<<"a", " ", "\"", "b">>, <<"x">>)
Unfinished7 == <<"=", "?">> \o Charset \o <<"?", "q", "?", "a">>
MCMailboxes == {Box(NoName, joe), Box(John, mary), Box(Giant, quoted), Box(<<"a", "\\">>, joe),
                Box(<<"8bit", " ", ",", "=", "(">>, joe), Box(QWord, joe), Box(Unfinished7, joe)}
MCGroups    == {AddressOf(<<>>, <<Box(John, joe)>>), AddressOf(<<"G">>, <<Box(NoName, joe)>>)}
MCAddresses == {Plain(joe), Angle(mary), Quote(<<"a", "\\", "\\">>) \o <<"@", "x">>,
                <<"<", "a">>, <<"a", "@", "[", "b", ":", "1", "]">>}
MCNames == {<<"n">>, <<"N">>}
MCWords == {<<>>, Jpeg, <<"8bit", " ", "%", "'">>, <<"\"", "\\", ";">>}
MCDates == {At2(2026, 6, 1, 10, 0, 59, 120), At2(1999, 12, 31, 23, 59, 0, -210),
            At2(1899, 1, 1, 0, 0, 0, 0)}
MCNumbers == {-1, 0, 5, 10, 9999}
=============================================================================
