------------------------------ MODULE MultiPart ------------------------------
(***************************************************************************)
(* Parser::MultiPart (parsers.cpp), which splits the body of a multipart   *)
(* into preamble, parts and epilogue with two cursors, step by step, and   *)
(* the way back in Content::encodedBody().                                 *)
(*                                                                         *)
(* A body is a sequence of symbols: "boundary" (the characters of "--" and *)
(* the boundary parameter, blen of them in the code and one here), "dash", *)
(* "newline" and "text" (anything else).  Positions start at 0.  Two       *)
(* boundaries cannot overlap.                                              *)
(***************************************************************************)
EXTENDS Integers, SequencesExt

CONSTANT Bodies \* the bodies that are parsed

Symbol == {"boundary", "dash", "newline", "text"}

ASSUME BodiesAssumption == Bodies \subseteq Seq(Symbol)

VARIABLES
    src,      \* MultiPart::m_src
    preamble, \* MultiPart::m_preamble
    parts,    \* MultiPart::m_parts
    epilouge, \* MultiPart::m_epilouge
    pos1,     \* cursor: after the last boundary, later the start of its part
    pos2,     \* cursor: where the next boundary may be
    pc        \* where parse() is

vars == <<src, preamble, parts, epilouge, pos1, pos2, pc>>

-----------------------------------------------------------------------------
(* QByteArray. *)

At(s, p) == s[p + 1]

IndexOf(s, symbol, from) ==
    LET found == {p \in from..Len(s) - 1 : At(s, p) = symbol}
    IN  IF found = {} THEN -1 ELSE Min(found)

Left(s, n) == SubSeq(s, 1, n)
Mid(s, p, n) == SubSeq(s, p + 1, p + n)
From(s, p) == SubSeq(s, p + 1, Len(s))

LineStart(s, p) == p = 0 \/ At(s, p - 1) = "newline"

\* The "--" that makes a boundary the last one.
ClosedAt(s, p) == p + 1 < Len(s) /\ At(s, p) = "dash" /\ At(s, p + 1) = "dash"

-----------------------------------------------------------------------------
(* MultiPart::parse(). *)

Init ==
    /\ src \in Bodies
    /\ preamble = <<>> /\ parts = <<>> /\ epilouge = <<>>
    /\ pos1 = 0 /\ pos2 = 0 /\ pc = "first"

Done == pc' = "done" /\ pos1' = -1

\* Mutant: a boundary in the middle of a line counts as well.
FindFirstAnywhere ==
    LET p == IndexOf(src, "boundary", pos1)
    IN  /\ pc = "first"
        /\ IF p = -1 THEN Done ELSE pc' = "open" /\ pos1' = p
        /\ UNCHANGED <<src, preamble, parts, epilouge, pos2>>

\* Look for the first boundary that starts a line.
FindFirst ==
    LET p == IndexOf(src, "boundary", pos1)
    IN  /\ pc = "first"
        /\ IF p = -1 THEN Done
           ELSE IF LineStart(src, p) THEN pc' = "open" /\ pos1' = p
           ELSE pc' = "first" /\ pos1' = p + 1
        /\ UNCHANGED <<src, preamble, parts, epilouge, pos2>>

\* When it is the last one "this message is *really* broken"; otherwise the
\* text before its line is the preamble.
Open ==
    /\ pc = "open"
    /\ IF ClosedAt(src, pos1 + 1)
       THEN Done /\ UNCHANGED preamble
       ELSE /\ preamble' = IF pos1 > 1 THEN Left(src, pos1 - 1) ELSE preamble
            /\ pos1' = pos1 + 1 /\ pc' = "skip"
    /\ UNCHANGED <<src, parts, epilouge, pos2>>

\* Mutant: the first character of the part is skipped as well.
SkipLineAndMore ==
    LET p == IndexOf(src, "newline", pos1)
    IN  /\ pc = "skip"
        /\ IF p = -1 THEN Done /\ UNCHANGED pos2
           ELSE pc' = "next" /\ pos1' = p + 2 /\ pos2' = p + 2
        /\ UNCHANGED <<src, preamble, parts, epilouge>>

\* Skip the rest of the boundary's line: the part starts after it.
SkipLine ==
    LET p == IndexOf(src, "newline", pos1)
    IN  /\ pc = "skip"
        /\ IF p = -1 THEN Done /\ UNCHANGED pos2
           ELSE pc' = "next" /\ pos1' = p + 1 /\ pos2' = p + 1
        /\ UNCHANGED <<src, preamble, parts, epilouge>>

\* Mutant: a boundary that does not start a line is not skipped.
FindNextStuck ==
    LET p == IndexOf(src, "boundary", pos2)
    IN  /\ pc = "next"
        /\ IF p = -1
           THEN Done /\ pos2' = -1 /\ parts' = Append(parts, From(src, pos1))
           ELSE /\ UNCHANGED <<pos1, parts>>
                /\ pc' = IF LineStart(src, p) THEN "part" ELSE "next"
                /\ pos2' = p
        /\ UNCHANGED <<src, preamble, epilouge>>

\* Look for the next boundary that starts a line; without one the rest of the
\* text is the last part.
FindNext ==
    LET p == IndexOf(src, "boundary", pos2)
    IN  /\ pc = "next"
        /\ IF p = -1
           THEN Done /\ pos2' = -1 /\ parts' = Append(parts, From(src, pos1))
           ELSE /\ UNCHANGED <<pos1, parts>>
                /\ IF LineStart(src, p) THEN pc' = "part" /\ pos2' = p
                   ELSE pc' = "next" /\ pos2' = p + 1
        /\ UNCHANGED <<src, preamble, epilouge>>

\* The text of a part: the newline before the boundary is the boundary's.
PartText(s, from, to) == Mid(s, from, to - from - 1)

\* Take the part, unless it is entirely empty; after the last boundary there is
\* only the epilogue, after another one the search goes on.
TakePart ==
    LET next == pos2 + 1
        eol == IndexOf(src, "newline", next + 2)
    IN  /\ pc = "part"
        /\ parts' = IF pos1 # pos2 THEN Append(parts, PartText(src, pos1, pos2)) ELSE parts
        /\ IF ClosedAt(src, next)
           THEN /\ Done /\ pos2' = -1
                /\ epilouge' = IF eol # -1 THEN From(src, eol + 1) ELSE epilouge
           ELSE pc' = "skip" /\ pos1' = next /\ pos2' = next /\ UNCHANGED epilouge
        /\ UNCHANGED <<src, preamble>>

Next == FindFirst \/ Open \/ SkipLine \/ FindNext \/ TakePart

Spec == Init /\ [][Next]_vars /\ WF_vars(Next)

-----------------------------------------------------------------------------
(* The same by lines, as RFC 2046 has it: delimiter lines start with the   *)
(* boundary, the first one that is followed by "--" is the last one, a part *)
(* is what lies between two of them.  The code's own rules: a body whose   *)
(* first delimiter is a closing one has no parts, an empty part (two        *)
(* delimiters on successive lines) is none, a missing closing delimiter is *)
(* made up at the end.                                                     *)

Delimiters(s) == {p \in 0..Len(s) - 1 : At(s, p) = "boundary" /\ LineStart(s, p)}

Closing(s) == {p \in Delimiters(s) : ClosedAt(s, p + 1)}

\* The opening delimiters: those before the first closing one.
Opening(s) == {p \in Delimiters(s) : \A q \in Closing(s) : p < q}

\* Where the text after the line of delimiter p starts, and where it ends.
TextStart(s, p) ==
    LET eol == IndexOf(s, "newline", p) IN IF eol = -1 THEN Len(s) + 1 ELSE eol + 1

TextEnd(s, p) ==
    LET later == {q \in Delimiters(s) : q > p}
    IN  IF later = {} THEN Len(s) ELSE Min(later) - 1

WithPart(s) == {p \in Opening(s) : TextStart(s, p) <= TextEnd(s, p)}

TextOf(s, p) == SubSeq(s, TextStart(s, p) + 1, TextEnd(s, p))

\* The i-th number of a set of numbers.
Nth(S, i) == CHOOSE p \in S : Cardinality({q \in S : q <= p}) = i

PartsByLines(s) ==
    [i \in 1..Cardinality(WithPart(s)) |-> TextOf(s, Nth(WithPart(s), i))]

PreambleByLines(s) ==
    IF Opening(s) = {} THEN <<>> ELSE SubSeq(s, 1, Min(Opening(s)) - 1)

EpilogueByLines(s) ==
    IF Opening(s) = {} \/ Closing(s) = {} THEN <<>>
    ELSE SubSeq(s, TextStart(s, Min(Closing(s))) + 1, Len(s))

\* Mutant: the newline that belongs to the boundary is forgotten.
EncodedTight(pre, ps, epi) ==
    pre \o FlattenSeq([i \in DOMAIN ps |-> <<"boundary", "newline">> \o ps[i]])
        \o <<"newline", "boundary", "dash", "dash", "newline">> \o epi

\* Content::encodedBody() of a multipart, from the texts of its parts.
EncodedBody(pre, ps, epi) ==
    pre \o FlattenSeq([i \in DOMAIN ps |-> <<"newline", "boundary", "newline">> \o ps[i]])
        \o <<"newline", "boundary", "dash", "dash", "newline">> \o epi

-----------------------------------------------------------------------------
(* What must hold. *)

\* The cursors stay in the text.
TypeOK ==
    /\ src \in Seq(Symbol) /\ preamble \in Seq(Symbol) /\ epilouge \in Seq(Symbol)
    /\ parts \in Seq(Seq(Symbol))
    /\ pos1 \in -1..Len(src) /\ pos2 \in -1..Len(src)
    /\ pc \in {"first", "open", "skip", "next", "part", "done"}

\* The cursors find exactly the parts, the preamble and the epilogue that the
\* delimiter lines define.
SplitsAtDelimiters ==
    pc = "done" => /\ parts = PartsByLines(src)
                   /\ preamble = PreambleByLines(src)
                   /\ epilouge = EpilogueByLines(src)

\* A multipart that is assembled and read again has the same parts, preamble
\* and epilogue: whatever was received, encodedBody() adds nothing that a
\* second parse would take for content, and loses nothing.
ReassembledIsSame ==
    pc = "done" /\ parts # <<>> =>
        LET again == EncodedBody(preamble, parts, epilouge)
        IN  /\ PartsByLines(again) = parts
            /\ PreambleByLines(again) = preamble
            /\ EpilogueByLines(again) = epilouge

\* parse() ends on every text.
ParseEnds == <>(pc = "done")
==============================================================================
