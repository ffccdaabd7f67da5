----------------------------- MODULE HeaderTests -----------------------------
(* What autotests/headertest.cpp says of the header classes: <<text, v>>   *)
(* in Reads when the text is read as the value v, <<v, text>> in Prints    *)
(* when v is printed as the text.  A name, a host or a word that no parser *)
(* looks into is one symbol, long lists and names are cut down, and the    *)
(* one charset of the model stands for each of the tests'.                 *)
EXTENDS HeaderObjects

-----------------------------------------------------------------------------
(* Pieces of texts.                                                        *)
Quote(t)   == <<"\"">> \o t \o <<"\"">>
Coded(t)   == <<"=", "?">> \o Charset \o <<"?", "q", "?">> \o t \o <<"?", "=">>
In(t)      == <<"(">> \o t \o <<")">>
Plain(a)   == a.local \o <<"@">> \o a.domain
Angle(a)   == <<"<">> \o Plain(a) \o <<">">>
Of(n, a)   == n \o <<" ">> \o Angle(a)              \* a display name and its address
Space      == <<" ">>
Newline    == <<"\n", " ">>
Clock(h, m, s) == Two(h) \o <<":">> \o Two(m) \o <<":">> \o Two(s)
Day(d, m, y)   == Two(d) \o <<" ", m, " ">> \o Four(y) \o <<" ">>
Plus(z)  == <<" ", "+">> \o Four(z)
Minus(z) == <<" ", "-">> \o Four(z)

(* Addresses, names and values.                                            *)
joe  == AddrSpecOf(<<"joe">>, <<"where">>)
mary == AddrSpecOf(<<"mary", ".", "s">>, <<"x", ".", "test">>)
rooted == AddrSpecOf(<<"joe">>, <<"where", ".">>)
fr   == AddrSpecOf(<<"fr", ".", ".", ".">>, <<"ce", ".", "sco">>)
John == <<"John", " ", "Doe">>
Ingo == <<"Ing", "8bit", " ", "Kl", "8bit", "cker">>
Ingo7 == <<"Ing", "=E9", "_", "Kl", "=E9", "cker">>

Box(n, a) == MailboxOf(n, a)
NoName == <<>>
Singles(boxes) == [i \in DOMAIN boxes |-> AddressOf(<<>>, <<boxes[i]>>)]
Copies(list, always, never) == [addressList |-> list, always |-> always, never |-> never]
With(n, v) == Put(NoParameters, <<n>>, v)
At2(y, m, d, hour, min, sec, offset) ==
  [date |-> [year |-> y, month |-> m, day |-> d],
   time |-> [hour |-> hour, min |-> min, sec |-> sec, offset |-> offset]]

-----------------------------------------------------------------------------
(* testIdentHeader; the literal domain is expected to fail there.          *)
IdentReads ==
  {<<Angle(joe), [msgIdList |-> <<joe>>]>>,
   <<Angle(joe) \o Space \o Angle(mary), [msgIdList |-> <<joe, mary>>]>>,
   <<Angle(joe) \o Newline \o Space \o Angle(mary), [msgIdList |-> <<joe, mary>>]>>}
IdentPrints == {<<[msgIdList |-> <<joe, mary>>], Angle(joe) \o Space \o Angle(mary)>>}

(* testAddressListHeader, up to the groups: plain and named addresses,     *)
(* names in a comment, quoted, with a point, and encoded.                  *)
GiantText  == <<"G", ";", " ", "\\", "\"", "B", "\\", "\"">>
Giant      == <<"G", ";", " ", "\"", "B", "\"">>
SeveralText == Of(John, mary) \o Comma \o Plain(joe) \o Comma \o Of(<<"Who", "?">>, joe)
Several     == <<Box(John, mary), Box(NoName, joe), Box(<<"Who", "?">>, joe)>>
AddressReads ==
  {<<Plain(joe), <<Box(NoName, joe)>>>>,
   <<Of(John, mary), <<Box(John, mary)>>>>,
   <<Plain(joe) \o Space \o In(John), <<Box(John, joe)>>>>,
   <<SeveralText, Several>>,
   <<Of(Quote(<<"J", ".", " ", "P">>), mary) \o Comma \o Angle(joe) \o Comma
       \o Of(Quote(GiantText), joe),
     <<Box(<<"J", ".", " ", "P">>, mary), Box(NoName, joe), Box(Giant, joe)>>>>,
   <<Of(Coded(Ingo7), joe), <<Box(Ingo, joe)>>>>,
   <<Sentence(Of(Ingo, joe), 1), <<Box(Ingo, joe)>>>>,
   <<Plain(joe) \o Space \o In(<<"I", " ">> \o Coded(Ingo7)), <<Box(<<"I", " ">> \o Ingo, joe)>>>>}

(* testAddressListHeader, the headers of bug reports.                      *)
Almost(t) == Of(Quote(t), joe)
OddAddressReads ==
  {<<Plain(mary) \o <<",", "\n", " ", " ">> \o Plain(joe) \o <<";">>
       \o Quote(<<"I", "\\", "\\", "\\", "\\", "'">>) \o <<" ", "C", ".", " ">> \o Angle(joe),
     <<Box(NoName, mary), Box(NoName, joe), Box(<<"I", "\\", "\\", "'", " ", "C", ".", " ">>, joe)>>>>,
   <<Almost(<<"|", "<", "onrad">>), <<Box(<<"|", "<", "onrad">>, joe)>>>>,
   <<Plain(mary) \o Space \o In(John \o Space \o In(John)),
     <<Box(John \o Space \o In(John), mary)>>>>,
   <<Almost(<<"I", " ">> \o Coded(Ingo7)), <<Box(<<"I", " ">> \o Ingo, joe)>>>>,
   <<Almost(<<"S", " ", "=", "Use", " ", "?", "r">>),
     <<Box(<<"S", " ", "=", "Use", " ", "?", "r">>, joe)>>>>,
   <<Almost(<<"?", "=", "U", "=", "?", "se", " ", "=", "?", "r">>),
     <<Box(<<"?", "=", "U", "=", "?", "se", " ", "=", "?", "r">>, joe)>>>>,
   <<Plain(rooted), <<Box(NoName, rooted)>>>>,
   <<Of(John, mary) \o Comma \o Plain(rooted) \o Comma \o Of(<<"Who", "?">>, joe),
     <<Box(John, mary), Box(NoName, rooted), Box(<<"Who", "?">>, joe)>>>>,
   <<Of(Coded(<<"=22">> \o Ingo7 \o <<"=22">>), joe), <<Box(Ingo, joe)>>>>}

GroupReads ==
  {<<<<"A", " ", "G", ":", ";">>, [addressList |-> <<AddressOf(<<"A", " ", "G">>, <<>>)>>]>>,
   <<<<"G", ":">> \o Of(John, mary) \o <<",">> \o Plain(joe) \o <<";">>,
     [addressList |-> <<AddressOf(<<"G">>, <<Box(John, mary), Box(NoName, joe)>>)>>]>>}
AddressListReads == {<<t[1], [addressList |-> Singles(t[2])]>> :
                       t \in AddressReads \cup OddAddressReads} \cup GroupReads

AddressListPrints ==
  {<<[addressList |-> Singles(Several)], SeveralText>>,
   <<[addressList |-> <<AddressOf(<<"G">>, <<Box(John, mary), Box(NoName, joe)>>)>>],
     Of(John, mary) \o Comma \o Plain(joe)>>,
   <<[addressList |-> Singles(<<Box(Giant, joe)>>)], Of(Quote(GiantText), joe)>>,
   <<[addressList |-> Singles(<<Box(<<"|", "<", "onrad">>, joe)>>)], Almost(<<"|", "<", "onrad">>)>>}

(* testMailboxListHeader and testInvalidQEncoding.                         *)
Unfinished == {<<"=", "?", "utf", "8", "?", "q", "?", "Why", "?", "_", "Why", "?", "?">>,
               <<"=", "?", "utf", "8", "?", "q", "?", "Why", "?", "_", "Why", "?">>,
               <<"=", "?", "utf", "8", "?", "q", "?", "Why", "?", "_", "Why">>}
MailboxListReads ==
  {<<Plain(joe), [mailboxList |-> <<Box(NoName, joe)>>]>>,
   <<Plain(fr) \o Space \o In(John), [mailboxList |-> <<Box(John, fr)>>]>>}
   \cup {<<Of(w, joe), [mailboxList |-> <<Box(w, joe)>>]>> : w \in Unfinished}

(* testSingleMailboxHeader.                                                *)
Tall == <<"A", " ", "\"", "Mr", ".", " ", "T", "\"", " ", "W">>
SingleMailboxReads ==
  {<<Plain(joe), [mailbox |-> Box(NoName, joe)]>>,
   <<Of(John, joe), [mailbox |-> Box(John, joe)]>>,
   <<Of(Quote(<<"L", "\\", ",", " ", "F">>), mary), [mailbox |-> Box(<<"L", ",", " ", "F">>, mary)]>>,
   <<Of(Quote(GiantText), mary), [mailbox |-> Box(Giant, mary)]>>,
   <<Of(Coded(<<"=22", "A", "_", "W", "=22">>), joe), [mailbox |-> Box(<<"A", " ", "W">>, joe)]>>,
   <<Of(Coded(<<"=22", "A", "_", "=22", "Mr", ".", "_", "T", "=22", "_", "W", "=22">>), joe),
     [mailbox |-> Box(Tall, joe)]>>,
   <<Of(Coded(<<"=22", "A", "_", "=22">>) \o Space \o Coded(<<"Mr", ".", "_", "T">>) \o Space
          \o Coded(<<"=22", "_", "W", "=22">>), joe),
     [mailbox |-> Box(Tall, joe)]>>}

(* testBug271192: what fromUnicodeString reads, names in quotes and not.   *)
InQuotes == {John, Ingo, <<"K", "8bit", ",", " ", "I">>}
Bug271192Reads ==
  {<<Sentence(Of(n, joe), 1), n>> : n \in {John, Ingo}}
  \cup {<<Sentence(Of(Quote(n), joe), 1), n>> : n \in InQuotes}
  \cup {<<Sentence(Of(Quote(<<"8bit", " ">> \o GiantText), joe), 1), <<"8bit", " ">> \o Giant>>}

(* testMailCopiesToHeader.                                                 *)
MailCopiesToReads ==
  {<<<<w>>, Copies(<<>>, TRUE, FALSE)>> : w \in {"always", "poster"}}
  \cup {<<<<w>>, Copies(<<>>, FALSE, TRUE)>> : w \in {"never", "nobody"}}
  \cup {<<Plain(joe), Copies(Singles(<<Box(NoName, joe)>>), FALSE, FALSE)>>}
MailCopiesToPrints ==
  {<<Copies(<<>>, TRUE, FALSE), <<"poster">>>>, <<Copies(<<>>, FALSE, TRUE), <<"nobody">>>>,
   <<Copies(Singles(<<Box(NoName, joe)>>), FALSE, FALSE), Plain(joe)>>}

-----------------------------------------------------------------------------
(* testContentDispositionHeader.                                           *)
Disposed(d, params) == [disposition |-> d, params |-> params]
Jpeg == <<"g", ".", "jpeg">>
DispositionReads ==
  {<<<<"inline">>, Disposed("inline", NoParameters)>>,
   <<<<"attachment", ";", " ", "n", "=">> \o Jpeg \o <<";", "\n", " ", "b", "=">>
       \o Quote(<<"W", ",", " ", "1", ":", "2">>) \o <<";">>,
     Disposed("attachment", Put(With("n", Jpeg), <<"b">>, <<"W", ",", " ", "1", ":", "2">>))>>,
   <<<<"attachment", ";", "\n", "n", "*", "0", "*", "=", "utf", "8", "'", "'", "%E9", ";",
       "n", "*", "1", "*", "=", "%E9", "%5F", ";", "n", "*", "2", "*", "=", "%E9", "%2E", "txt">>,
     Disposed("attachment", With("n", <<"8bit", "8bit", "_", "8bit", ".", "txt">>))>>,
   <<<<"attachment", ";", " ", "n", "*", "=", "utf", "8", "'", "'", "%E9", "a", "%2E", "txt">>,
     Disposed("attachment", With("n", <<"8bit", "a", ".", "txt">>))>>}
DispositionPrints ==
  {<<Disposed("invalid", With("n", Jpeg)), <<>>>>,
   <<Disposed("attachment", With("n", Jpeg)),
     <<"attachment", ";", " ", "n", "=">> \o Quote(Jpeg)>>,
   <<Disposed("inline", NoParameters), <<"inline">>>>}

(* testContentTypeHeader and testMissingQuotes; the unquoted encoded word  *)
(* is expected to fail there.                                              *)
Typed(t, params) == [mimeType |-> t, params |-> params]
TextPlain == <<"text", "/", "plain">>
NameIs == <<";", "\n", " ", "n", "=">>
ContentTypeReads ==
  {<<TextPlain \o NameIs \o Quote(Coded(<<"=E9", "a">>) \o Coded(<<"=E9", "b">>)),
     Typed(TextPlain, With("n", <<"8bit", "a", "8bit", "b">>))>>,
   <<TextPlain \o NameIs \o Quote(Coded(<<"=E9", "a">>) \o Space \o Coded(<<"=E9", "b">>)),
     Typed(TextPlain, With("n", <<"8bit", "a", "8bit", "b">>))>>,
   <<TextPlain \o <<";", " ", "c", "=", "us-ascii", " ">> \o In(John),
     Typed(TextPlain, With("c", <<"us-ascii">>))>>,
   <<TextPlain \o <<";", "\n", " ", "n", "*", "0", "=">> \o Quote(<<"P", "@", "x", ".", "con">>)
       \o <<";", "\n", " ", "n", "*", "1", "=">> \o Quote(<<"fig", ".", "txt">>),
     Typed(TextPlain, With("n", <<"P", "@", "x", ".", "con", "fig", ".", "txt">>))>>,
   <<TextPlain \o NameIs \o Quote(Coded(<<"lor", "=E9", "m", "_", "ipsum", "=2E", "txt">>)),
     Typed(TextPlain, With("n", <<"lor", "8bit", "m", " ", "ipsum", ".", "txt">>))>>,
   <<TextPlain \o <<";", " ", "b", "=", "n", ".", "1", ";", " ", "x", "=", "a", "/", "p">>,
     Typed(TextPlain, Put(With("b", <<"n", ".", "1">>), <<"x">>, <<"a", "/", "p">>))>>}
ContentTypePrints ==
  {<<Typed(TextPlain, NoParameters), TextPlain>>,
   <<Typed(TextPlain, With("n", Jpeg)), TextPlain \o <<";", " ", "n", "=">> \o Quote(Jpeg)>>}

(* testTokenHeader and testContentTransferEncoding.                        *)
TokenReads ==
  {<<<<"v", " ">> \o In(John), [token |-> <<"v">>, cte |-> "7Bit"]>>,
   <<In(John) \o <<" ", "base64">>, [token |-> <<>>, cte |-> "base64"]>>}
TokenPrints == {<<[token |-> <<"v">>, cte |-> "7Bit"], <<"v">>>>,
                <<[token |-> <<>>, cte |-> "base64"], <<"base64">>>>,
                <<[token |-> <<>>, cte |-> "binary"], <<"binary">>>>}

(* testPhraseListHeader, testDotAtomHeader and testReturnPath.             *)
PhraseListReads  == {<<<<"foo", ",", "\n", " ", "bar">>, [phraseList |-> <<<<"foo">>, <<"bar">>>>]>>}
PhraseListPrints == {<<[phraseList |-> <<<<"foo">>, <<"bar">>>>], <<"foo", ",", " ", "bar">>>>}
DotAtomReads     == {<<<<"1", ".", "0", " ">> \o In(John), [dotAtom |-> <<"1", ".", "0">>]>>}
ReturnPathReads  == {<<Angle(joe), [mailbox |-> Box(NoName, joe)]>>}
ReturnPathPrints == {<<[mailbox |-> NoMailbox], <<>>>>, <<[mailbox |-> Box(NoName, joe)], Angle(joe)>>}

(* testDateHeader, the dates of RFC 2822.                                  *)
DateReads ==
  {<<<<"Fri", ",", " ">> \o Day(21, "Nov", 1997) \o Clock(9, 55, 6) \o Minus(600),
     At2(1997, 11, 21, 9, 55, 6, -360)>>,
   <<<<"Thu", ",", "\n", " ">> \o Two(13) \o Newline \o <<"Feb">> \o Newline \o Four(1969)
       \o Newline \o Two(23) \o <<":">> \o Two(32) \o <<"\n">> \o Minus(330) \o Space \o In(John),
     At2(1969, 2, 13, 23, 32, 0, -210)>>,
   <<Two(21) \o <<" ", "Nov", " ">> \o Two(97) \o Space \o Clock(9, 55, 6) \o <<" ", "GMT">>,
     At2(1997, 11, 21, 9, 55, 6, 0)>>,
   <<<<"Fri", ",", " ">> \o Day(21, "Nov", 1997) \o Two(9) \o In(John) \o <<":", " ">> \o Two(55)
       \o <<" ", ":", " ">> \o Two(6) \o Minus(600), At2(1997, 11, 21, 9, 55, 6, -360)>>,
   <<Two(8) \o <<" ", "Oct", " ">> \o Two(8) \o Space \o Clock(16, 54, 5) \o Plus(0),
     At2(2008, 10, 8, 16, 54, 5, 0)>>,
   <<<<"Mon", ",", " ">> \o Day(27, "Aug", 1956) \o Clock(21, 31, 46) \o Plus(200),
     At2(1956, 8, 27, 21, 31, 46, 120)>>}

(* testDateHeader, the dates of bug reports.                               *)
OddDateReads ==
  {<<<<"Sat", ",", " ">> \o Day(18, "Dec", 2010) \o Clock(14, 1, 21) \o <<" ", "\"", "GMT", "\"">>,
     At2(2010, 12, 18, 14, 1, 21, 0)>>,
   <<<<"Thu", " ", "Mar", " ">> \o Two(30) \o Space \o Clock(18, 36, 28) \o <<" ", "CEST", " ">>
       \o Four(2006), At2(2006, 3, 30, 18, 36, 28, 120)>>,
   <<<<"Thu", " ", "Mar", " ">> \o Two(30) \o Space \o Clock(18, 36, 28) \o Space \o Four(2006),
     At2(2006, 3, 30, 18, 36, 28, 0)>>,
   <<<<"Tue", ",", " ", "Feb", " ">> \o Two(4) \o <<",", " ">> \o Four(2003) \o Space
       \o Clock(0, 1, 20) \o Plus(0), At2(2003, 2, 4, 0, 1, 20, 0)>>,
   <<<<"Sun", ",", " ">> \o Day(31, "Mar", 2013) \o Clock(2, 29, 44) \o Minus(500),
     At2(2013, 3, 31, 2, 29, 44, -300)>>,
   <<Two(13) \o <<"/">> \o Two(10) \o <<"/">> \o Two(20) \o Space \o Clock(12, 51, 47),
     At2(2020, 10, 13, 12, 51, 47, 0)>>,
   <<Two(28) \o <<"/">> \o Two(9) \o <<"/">> \o Two(23), NoDate>>,
   <<<<"Wed", ",", " ">> \o Two(12) \o <<" ", "Apr", " ">> \o Four(2030),
     At2(2030, 4, 12, 0, 0, 0, 0)>>}

(* testLinesHeader, testNewsgroupsHeader and testControlHeader.            *)
LinesReads  == {<<In(John) \o <<" ", "1", "0", " ">> \o In(John), [lines |-> 10]>>}
LinesPrints == {<<[lines |-> -1], <<>>>>, <<[lines |-> 5], <<"5">>>>}
TwoGroups   == [groups |-> <<<<"g", ".", "c">>, <<"g", ".", "b">>>>]
NewsgroupsReads ==
  {<<<<"g", ".", "c", ",", "g", ".", "b">>, TwoGroups>>,
   <<In(John) \o <<" ", "g", ".", "c", " ">> \o In(John) \o <<",", "\n", " ", "g", ".", "b", " ">>
       \o In(John), TwoGroups>>}
NewsgroupsPrints == {<<TwoGroups, <<"g", ".", "c", ",", "g", ".", "b">>>>, <<[groups |-> <<>>], <<>>>>}
Cancel == [name |-> <<"cancel">>, parameter |-> Angle(joe)]
ControlReads  == {<<<<"cancel", " ">> \o Angle(joe), Cancel>>}
ControlPrints == {<<Cancel, <<"cancel", " ">> \o Angle(joe)>>, <<Empty("Control"), <<>>>>}

(* testInvalidButOkQEncoding.                                              *)
SubjectReads == {<<Coded(<<"Why", "?", "_", "do", "?">>), [decoded |-> <<"Why", "?", " ", "do", "?">>]>>}
SubjectPrints == {<<[decoded |-> <<"Why", "?", " ", "do", "?">>], <<"Why", "?", " ", "do", "?">>>>}

-----------------------------------------------------------------------------
(* The tests of each class.                                                *)
Reads ==
  [k \in {KindOf[t] : t \in DOMAIN KindOf} |->
     CASE k = "Ident"         -> IdentReads
       [] k = "AddressList"   -> AddressListReads
       [] k = "MailboxList"   -> MailboxListReads \cup
                                   {<<t[1], [mailboxList |-> <<Box(t[2], joe)>>]>> : t \in Bug271192Reads}
       [] k = "SingleMailbox" -> SingleMailboxReads \cup
                                   {<<t[1], [mailbox |-> Box(t[2], joe)]>> : t \in Bug271192Reads}
       [] k = "ReturnPath"    -> ReturnPathReads
       [] k = "MailCopiesTo"  -> MailCopiesToReads
       [] k = "ContentDisposition" -> DispositionReads
       [] k = "ContentType"   -> ContentTypeReads
       [] k = "ContentTransferEncoding" -> TokenReads
       [] k = "PhraseList"    -> PhraseListReads
       [] k = "DotAtom"       -> DotAtomReads
       [] k = "Date"          -> {<<t[1], [dateTime |-> t[2]]>> : t \in DateReads \cup OddDateReads}
       [] k = "Lines"         -> LinesReads
       [] k = "Newsgroups"    -> NewsgroupsReads
       [] k = "Control"       -> ControlReads
       [] k = "Unstructured"  -> SubjectReads
       [] OTHER               -> {}]

Prints ==
  [k \in DOMAIN Reads |->
     CASE k = "Ident"         -> IdentPrints
       [] k = "AddressList"   -> AddressListPrints
       [] k = "MailCopiesTo"  -> MailCopiesToPrints
       [] k = "ReturnPath"    -> ReturnPathPrints
       [] k = "ContentDisposition" -> DispositionPrints
       [] k = "ContentType"   -> ContentTypePrints
       [] k = "ContentTransferEncoding" -> TokenPrints
       [] k = "PhraseList"    -> PhraseListPrints
       [] k = "Lines"         -> LinesPrints
       [] k = "Newsgroups"    -> NewsgroupsPrints
       [] k = "Control"       -> ControlPrints
       [] k = "Unstructured"  -> SubjectPrints
       [] OTHER               -> {}]

(* headertest.cpp holds after any history of the object, not only for the  *)
(* fresh one each test makes: what an earlier parse or setter left behind  *)
(* does not show in what a tested text is read as, nor in how a value is   *)
(* printed.                                                                *)
TestsAgree ==
  /\ \A t \in Reads[kind]  : text = t[1] => Held(header) = t[2]
  /\ \A t \in Prints[kind] : Held(header) = t[1] => as7BitString(kind, val) = t[2]
=============================================================================
