---------------------------- MODULE MCMessageText ----------------------------
(***************************************************************************)
(* Instance of MessageText for TLC: every text up to a length.             *)
(***************************************************************************)
EXTENDS MessageText

CONSTANTS MaxText, MaxHead, MaxBody \* bounds for TLC: lengths

ShortTexts == SeqOf({"newline", "space", "encoded", "colon", "text"}, MaxText)

\* ... and longer ones that start with a header.
MCReceived ==
    ShortTexts \cup {<<"text", "colon", "text">> \o text : text \in {t \in ShortTexts : Len(t) < MaxText}}

\* Lines that are not empty.
MCHeads == {h \in SeqOf({"newline", "text"}, MaxHead) :
               h # <<>> /\ h[1] = "text" /\ BlankLine(h) = {}}

\* One line break is a CR LF.
MCBodies ==
    SeqOf({"newline", "text"}, MaxBody) \cup {<<"return", "newline">>}

MCNewHeaders ==
    {[name |-> <<"text">>, value |-> v] :
        v \in SeqOf({"space", "comma", "quote", "text"}, MaxSize - 1) \ {<<>>}}

MCReplacements == {h \in MCNewHeaders : Len(h.value) = 1}
==============================================================================
