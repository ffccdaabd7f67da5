----------------------------- MODULE ContentIndex -----------------------------
(***************************************************************************)
(* Addressing the objects of a content tree (contentindex.cpp and the      *)
(* navigation functions of content.cpp).  A ContentIndex is the sequence   *)
(* of one-based positions on the way down from a content; the empty one is *)
(* the invalid index.                                                      *)
(***************************************************************************)
EXTENDS ContentTree, SequencesExt

CONSTANTS MaxLength,  \* bound for TLC: length of the indexes looked up
          MaxPosition \* bound for TLC: largest position in them

ASSUME BoundsAssumption == MaxLength \in Nat /\ MaxPosition \in Nat

\* ContentIndex::push() and pop() work at the front.
Push(index, i) == Cons(i, index)

\* Content::topLevel()
TopLevel(n) ==
    LET up[c \in Node] == IF parent[c] = Null THEN c ELSE up[parent[c]]
    IN  up[n]

\* Content::content(), a pop() at each level: an invalid index is the content
\* itself, and an index that leads out of the tree is nullptr.  Position 0
\* wraps around to the largest unsigned number, which is out of range as well.
ContentAt(n, index) ==
    LET at[k \in 0..Len(index)] ==
            IF k = 0 THEN n
            ELSE LET c == at[k - 1]
                 IN  IF c = Null THEN Null
                     ELSE IF index[k] \notin DOMAIN Contents(c) THEN Null
                     ELSE Contents(c)[index[k]]
    IN  at[Len(index)]

\* Mutant: the positions are pushed on the wrong end.
ReversedIndexForContent(n, c) ==
    LET below[m \in Node] ==
            IF c \in Children(m)
            THEN <<CHOOSE i \in DOMAIN Contents(m) : Contents(m)[i] = c>>
            ELSE LET found == {i \in DOMAIN Contents(m) : below[Contents(m)[i]] # <<>>}
                 IN  IF found = {} THEN <<>>
                     ELSE Append(below[Contents(m)[Min(found)]], Min(found))
    IN  below[n]

\* Content::indexForContent(): the children first, then what is below each.
IndexForContent(n, c) ==
    LET below[m \in Node] ==
            IF c \in Children(m)
            THEN <<Min({i \in DOMAIN Contents(m) : Contents(m)[i] = c})>>
            ELSE LET found == {i \in DOMAIN Contents(m) : below[Contents(m)[i]] # <<>>}
                 IN  IF found = {} THEN <<>>
                     ELSE Push(below[Contents(m)[Min(found)]], Min(found))
    IN  below[n]

\* Content::index()
Index(n) == IndexForContent(TopLevel(n), n)

-----------------------------------------------------------------------------
\* index() and content() are inverse, also through encapsulated messages: the
\* index of a content leads back to it from its top-level content, and any
\* index that leads from there to c is the index c reports.  (Between two
\* calls of the library: inside parse() the part under construction has a
\* parent that does not list it.)
IndexIsInverse ==
    calls = <<>> =>
        /\ \A n \in live : ContentAt(TopLevel(n), Index(n)) = n
        /\ \A top \in {n \in live : parent[n] = Null} :
           \A index \in SeqOf(0..MaxPosition, MaxLength) :
               LET c == ContentAt(top, index)
               IN  c # Null => c \in live /\ TopLevel(c) = top /\ Index(c) = index
==============================================================================
