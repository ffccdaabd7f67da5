--------------------------- MODULE MultiPartProofs ---------------------------
(***************************************************************************)
(* Proofs about MultiPart, for texts of any length: the cursors of         *)
(* MultiPart::parse() stay in the text, it finds the parts that the        *)
(* delimiter lines define, and what encodedBody() makes of them is split   *)
(* into the same parts again.                                              *)
(***************************************************************************)
EXTENDS MultiPart, FiniteSetTheorems, SequenceTheorems, TLAPS

\* A set of natural numbers with a bound that is not empty has a least one:
\* the number with the fewest numbers of the set up to it.
LEMMA LeastOne ==
    ASSUME NEW n \in Nat, NEW T \in SUBSET (0 .. n), T # {}
    PROVE  Min(T) \in T /\ \A t \in T : Min(T) <= t
  <1> DEFINE UpTo(t) == {x \in T : x <= t}
             All == {UpTo(t) : t \in T}
             R == StrictSubsetOrdering(T)
  <1>1. FiniteSubsetsOf(T) = SUBSET T
    <2>1. IsFiniteSet(0 .. n)
      BY FS_Interval
    <2>2. IsFiniteSet(T)
      BY <2>1, FS_Subset
    <2> QED
      BY <2>2, FS_FiniteSubsetsOfFinite
  <1>2. All \subseteq FiniteSubsetsOf(T) /\ All # {}
    <2>1. All \subseteq SUBSET T
      OBVIOUS
    <2>2. All # {}
      <3>1. PICK t \in T : TRUE
        OBVIOUS
      <3>2. UpTo(t) \in All
        OBVIOUS
      <3> QED
        BY <3>2
    <2> HIDE DEF All
    <2> QED
      BY <1>1, <2>1, <2>2
  <1>3. PICK X \in All : \A Y \in All : <<Y, X>> \notin R
    <2> HIDE DEF All
    <2> QED
      BY <1>2, FS_StrictSubsetOrderingWellFounded, WFMin
  <1>4. PICK t \in T : X = UpTo(t)
    OBVIOUS
  <1>5. \A u \in T : t <= u
    <2> SUFFICES ASSUME NEW u \in T, u < t PROVE FALSE
      BY <1>4
    <2>1. UpTo(u) \in All /\ UpTo(u) \subseteq X /\ t \in X /\ t \notin UpTo(u)
      <3>1. t \in 0 .. n /\ u \in 0 .. n /\ \A x \in T : x \in 0 .. n
        OBVIOUS
      <3>2. t <= t /\ ~(t <= u) /\ \A x \in T : x <= u => x <= t
        BY <3>1
      <3>3. UpTo(u) \subseteq UpTo(t) /\ t \in UpTo(t) /\ t \notin UpTo(u)
        BY <3>2
      <3>4. UpTo(u) \in All
        OBVIOUS
      <3> HIDE DEF UpTo, All
      <3> QED
        BY <3>3, <3>4, <1>4
    <2>2. UpTo(u) \in SUBSET T /\ X \in SUBSET T /\ UpTo(u) # X
      BY <2>1, <1>4
    <2>3. <<UpTo(u), X>> \in R
      <3> HIDE DEF UpTo
      <3> QED
        BY <2>1, <2>2 DEF StrictSubsetOrdering
    <2> QED
      BY <1>3, <2>1, <2>3
  <1> QED
    BY <1>5 DEF Min

\* indexOf() finds the symbol, not before "from", or returns -1.
LEMMA IndexOfFinds ==
    ASSUME NEW s \in Seq(Symbol), NEW symbol, NEW from \in Nat
    PROVE  LET p == IndexOf(s, symbol, from)
           IN  p = -1 \/ (p \in from .. Len(s) - 1 /\ At(s, p) = symbol)
  <1> DEFINE found == {p \in from .. Len(s) - 1 : At(s, p) = symbol}
  <1>1. Len(s) \in Nat /\ found \in SUBSET (0 .. Len(s))
    OBVIOUS
  <1>2. found # {} => Min(found) \in found
    <2> HIDE DEF found
    <2> QED
      BY <1>1, LeastOne
  <1> QED
    BY <1>2 DEF IndexOf

\* left() and mid() of a text, inside it, are texts.
LEMMA Slice ==
    ASSUME NEW s \in Seq(Symbol), NEW a \in Nat, NEW b \in -1 .. Len(s)
    PROVE  SubSeq(s, a + 1, b) \in Seq(Symbol)
  OBVIOUS

\* The inductive invariant: where parse() is tells where the cursors are.
IInv ==
    /\ TypeOK
    /\ pc = "first" => pos1 >= 0
    /\ pc = "open" => pos1 >= 0 /\ pos1 < Len(src)
    /\ pc = "skip" => pos1 >= 0
    /\ pc \in {"next", "part"} => 0 <= pos1 /\ pos1 <= pos2
    /\ pc = "part" => pos2 < Len(src)

LEMMA InitInv == Init => IInv
  BY BodiesAssumption DEF Init, IInv, TypeOK, Symbol

LEMMA FindFirstInv == IInv /\ FindFirst => IInv'
  <1> SUFFICES ASSUME IInv, FindFirst PROVE IInv'
    OBVIOUS
  <1> DEFINE p == IndexOf(src, "boundary", pos1)
  <1>1. pc = "first" /\ src \in Seq(Symbol) /\ pos1 \in Nat /\ Len(src) \in Nat
    BY DEF FindFirst, IInv, TypeOK
  <1>2. p = -1 \/ p \in pos1 .. Len(src) - 1
    BY <1>1, IndexOfFinds
  <1>3. /\ UNCHANGED <<src, preamble, parts, epilouge, pos2>>
        /\ \/ pc' = "done" /\ pos1' = -1
           \/ p # -1 /\ pc' = "open" /\ pos1' = p
           \/ p # -1 /\ pc' = "first" /\ pos1' = p + 1
    BY DEF FindFirst, Done
  <1> HIDE DEF p
  <1> QED
    BY <1>1, <1>2, <1>3 DEF IInv, TypeOK

LEMMA OpenInv == IInv /\ Open => IInv'
  <1> SUFFICES ASSUME IInv, Open PROVE IInv'
    OBVIOUS
  <1>1. /\ pc = "open" /\ src \in Seq(Symbol) /\ pos1 \in Nat /\ pos1 < Len(src)
        /\ Len(src) \in Nat
    BY DEF Open, IInv, TypeOK
  <1>2. Left(src, pos1 - 1) \in Seq(Symbol)
    BY <1>1, Slice DEF Left
  <1>3. /\ UNCHANGED <<src, parts, epilouge, pos2>>
        /\ preamble' \in {preamble, Left(src, pos1 - 1)}
        /\ \/ pc' = "done" /\ pos1' = -1
           \/ pc' = "skip" /\ pos1' = pos1 + 1
    BY DEF Open, Done
  <1> QED
    BY <1>1, <1>2, <1>3 DEF IInv, TypeOK

LEMMA SkipLineInv == IInv /\ SkipLine => IInv'
  <1> SUFFICES ASSUME IInv, SkipLine PROVE IInv'
    OBVIOUS
  <1> DEFINE p == IndexOf(src, "newline", pos1)
  <1>1. pc = "skip" /\ src \in Seq(Symbol) /\ pos1 \in Nat /\ Len(src) \in Nat
    BY DEF SkipLine, IInv, TypeOK
  <1>2. p = -1 \/ p \in pos1 .. Len(src) - 1
    BY <1>1, IndexOfFinds
  <1>3. /\ UNCHANGED <<src, preamble, parts, epilouge>>
        /\ \/ pc' = "done" /\ pos1' = -1 /\ pos2' = pos2
           \/ p # -1 /\ pc' = "next" /\ pos1' = p + 1 /\ pos2' = p + 1
    BY DEF SkipLine, Done
  <1> HIDE DEF p
  <1> QED
    BY <1>1, <1>2, <1>3 DEF IInv, TypeOK

LEMMA FindNextInv == IInv /\ FindNext => IInv'
  <1> SUFFICES ASSUME IInv, FindNext PROVE IInv'
    OBVIOUS
  <1> DEFINE p == IndexOf(src, "boundary", pos2)
             rest == From(src, pos1)
  <1>1. /\ pc = "next" /\ src \in Seq(Symbol) /\ pos1 \in Nat /\ pos2 \in Nat
        /\ pos1 <= pos2 /\ Len(src) \in Nat /\ parts \in Seq(Seq(Symbol))
    BY DEF FindNext, IInv, TypeOK
  <1>2. p = -1 \/ p \in pos2 .. Len(src) - 1
    BY <1>1, IndexOfFinds
  <1>3. rest \in Seq(Symbol)
    BY <1>1, Slice DEF From
  <1>4. /\ UNCHANGED <<src, preamble, epilouge>>
        /\ \/ pc' = "done" /\ pos1' = -1 /\ pos2' = -1 /\ parts' = Append(parts, rest)
           \/ /\ p # -1 /\ UNCHANGED <<pos1, parts>>
              /\ \/ pc' = "part" /\ pos2' = p
                 \/ pc' = "next" /\ pos2' = p + 1
    BY DEF FindNext, Done
  <1> HIDE DEF p, rest
  <1>5. parts' \in Seq(Seq(Symbol))
    <2>1. Append(parts, rest) \in Seq(Seq(Symbol))
      BY <1>1, <1>3, AppendProperties
    <2> QED
      BY <1>1, <1>4, <2>1
  <1>6. /\ UNCHANGED <<src, preamble, epilouge>>
        /\ \/ pc' = "done" /\ pos1' = -1 /\ pos2' = -1
           \/ p # -1 /\ pos1' = pos1 /\ pc' = "part" /\ pos2' = p
           \/ p # -1 /\ pos1' = pos1 /\ pc' = "next" /\ pos2' = p + 1
    BY <1>4
  <1>7. src' \in Seq(Symbol) /\ preamble' \in Seq(Symbol) /\ epilouge' \in Seq(Symbol)
    BY <1>6 DEF IInv, TypeOK
  <1>8. /\ pos1' \in -1 .. Len(src) /\ pos2' \in -1 .. Len(src) /\ Len(src') = Len(src)
        /\ pc' \in {"done", "part", "next"}
        /\ pc' \in {"part", "next"} => 0 <= pos1' /\ pos1' <= pos2'
        /\ pc' = "part" => pos2' < Len(src)
    <2>1. Len(src') = Len(src) /\ pos1 \in Nat /\ pos1 <= pos2 /\ pos2 <= Len(src)
      BY <1>1, <1>6 DEF IInv, TypeOK
    <2>2. CASE pc' = "done" /\ pos1' = -1 /\ pos2' = -1
      BY <1>1, <2>1, <2>2
    <2>3. CASE p # -1 /\ pos1' = pos1 /\ pc' = "part" /\ pos2' = p
      BY <1>1, <1>2, <2>1, <2>3
    <2>4. CASE p # -1 /\ pos1' = pos1 /\ pc' = "next" /\ pos2' = p + 1
      BY <1>1, <1>2, <2>1, <2>4
    <2> QED
      BY <1>6, <2>2, <2>3, <2>4
  <1> QED
    BY <1>5, <1>7, <1>8 DEF IInv, TypeOK

LEMMA TakePartInv == IInv /\ TakePart => IInv'
  <1> SUFFICES ASSUME IInv, TakePart PROVE IInv'
    OBVIOUS
  <1> DEFINE next == pos2 + 1
             eol == IndexOf(src, "newline", next + 2)
             part == PartText(src, pos1, pos2)
             rest == From(src, eol + 1)
  <1>1. /\ pc = "part" /\ src \in Seq(Symbol) /\ pos1 \in Nat /\ pos2 \in Nat
        /\ pos1 <= pos2 /\ pos2 < Len(src) /\ Len(src) \in Nat
        /\ parts \in Seq(Seq(Symbol)) /\ epilouge \in Seq(Symbol)
    BY DEF TakePart, IInv, TypeOK
  <1>2. eol = -1 \/ eol \in Nat
    <2>1. next + 2 \in Nat
      BY <1>1
    <2>2. eol = -1 \/ eol \in next + 2 .. Len(src) - 1
      BY <1>1, <2>1, IndexOfFinds
    <2> QED
      BY <1>1, <2>2
  <1>3. part \in Seq(Symbol)
    <2>1. pos1 + (pos2 - pos1 - 1) \in -1 .. Len(src)
      BY <1>1
    <2> QED
      BY <1>1, <2>1, Slice DEF PartText, Mid
  <1>4. eol # -1 => rest \in Seq(Symbol)
    BY <1>1, <1>2, Slice DEF From
  <1>5. /\ UNCHANGED <<src, preamble>>
        /\ parts' \in {parts, Append(parts, part)}
        /\ \/ /\ pc' = "done" /\ pos1' = -1 /\ pos2' = -1
              /\ epilouge' = epilouge \/ (eol # -1 /\ epilouge' = rest)
           \/ pc' = "skip" /\ pos1' = next /\ pos2' = next /\ epilouge' = epilouge
    BY DEF TakePart, Done
  <1> HIDE DEF eol, part, rest
  <1>6. parts' \in Seq(Seq(Symbol)) /\ epilouge' \in Seq(Symbol)
    <2>1. Append(parts, part) \in Seq(Seq(Symbol))
      BY <1>1, <1>3, AppendProperties
    <2> QED
      BY <1>1, <1>4, <1>5, <2>1
  <1>7. /\ UNCHANGED <<src, preamble>>
        /\ \/ pc' = "done" /\ pos1' = -1 /\ pos2' = -1
           \/ pc' = "skip" /\ pos1' = next /\ pos2' = next
    BY <1>5
  <1> QED
    BY <1>1, <1>6, <1>7 DEF IInv, TypeOK

\* The cursors of MultiPart::parse() never leave the text, on any text, and
\* what it takes for preamble, part and epilogue are pieces of text
\* (parsers.cpp 31-106).
THEOREM CursorsStayInText == Spec => []TypeOK
  <1>1. Init => IInv
    BY InitInv
  <1>2. IInv /\ [Next]_vars => IInv'
    <2>1. IInv /\ UNCHANGED vars => IInv'
      BY DEF vars, IInv, TypeOK
    <2> QED
      BY <2>1, FindFirstInv, OpenInv, SkipLineInv, FindNextInv, TakePartInv DEF Next
  <1>3. IInv => TypeOK
    BY DEF IInv
  <1> QED
    BY <1>1, <1>2, <1>3, PTL DEF Spec

-----------------------------------------------------------------------------
(* What parse() takes for preamble, parts and epilogue is what the delimiter *)
(* lines define.  First, sets of positions in their order.                   *)

\* k has the n numbers of S in increasing order.
InOrder(k, S, n) ==
    /\ k \in [1 .. n -> S]
    /\ \A p \in S : \E i \in 1 .. n : k[i] = p
    /\ \A i, j \in 1 .. n : i < j => k[i] < k[j]

\* Counting up to an element of S gives its place.
LEMMA OrderCounts ==
    ASSUME NEW S \in SUBSET Nat, NEW n \in Nat, NEW k, InOrder(k, S, n)
    PROVE  /\ Cardinality(S) = n
           /\ \A i \in 1 .. n : Cardinality({q \in S : q <= k[i]}) = i
  <1>1. /\ k \in [1 .. n -> S] /\ \A p \in S : \E i \in 1 .. n : k[i] = p
        /\ \A i, j \in 1 .. n : i < j => k[i] < k[j]
    BY DEF InOrder
  <1>2. \A i \in 1 .. n : k[i] \in Nat
    BY <1>1
  <1>3. \A i, j \in 1 .. n : k[i] <= k[j] <=> i <= j
    <2> SUFFICES ASSUME NEW i \in 1 .. n, NEW j \in 1 .. n PROVE k[i] <= k[j] <=> i <= j
      OBVIOUS
    <2>1. i < j \/ i = j \/ j < i
      OBVIOUS
    <2> QED
      BY <1>1, <1>2, <2>1
  <1>4. \A i, j \in 1 .. n : k[i] = k[j] => i = j
    <2> SUFFICES ASSUME NEW i \in 1 .. n, NEW j \in 1 .. n, k[i] = k[j] PROVE i = j
      OBVIOUS
    <2>1. k[i] <= k[j] /\ k[j] <= k[i]
      BY <1>2
    <2>2. i <= j /\ j <= i
      BY <1>3, <2>1
    <2> QED
      BY <2>2
  <1>5. Cardinality(S) = n
    <2>1. k \in Bijection(1 .. n, S)
      BY <1>1, <1>4 DEF Bijection, Injection, Surjection, IsInjective
    <2> QED
      BY <2>1, FS_CountingElements DEF ExistsBijection
  <1>6. ASSUME NEW i \in 1 .. n
        PROVE  Cardinality({q \in S : q <= k[i]}) = i
    <2> DEFINE U == {q \in S : q <= k[i]}
               h == [j \in 1 .. i |-> k[j]]
    <2>1. \A j \in 1 .. i : j \in 1 .. n /\ h[j] = k[j] /\ k[j] \in U
      BY <1>1, <1>3
    <2>2. \A q \in U : \E j \in 1 .. i : h[j] = q
      <3> SUFFICES ASSUME NEW q \in U PROVE \E j \in 1 .. i : h[j] = q
        OBVIOUS
      <3>1. PICK j \in 1 .. n : k[j] = q
        BY <1>1
      <3>2. j <= i
        BY <1>3, <3>1
      <3>3. j \in 1 .. i
        BY <3>2
      <3> QED
        BY <3>1, <3>3
    <2>3. \A j, l \in 1 .. i : h[j] = h[l] => j = l
      BY <1>4, <2>1
    <2>4. h \in [1 .. i -> U]
      BY <2>1
    <2> HIDE DEF U, h
    <2>5. h \in Bijection(1 .. i, U)
      BY <2>2, <2>3, <2>4 DEF Bijection, Injection, Surjection, IsInjective
    <2>6. Cardinality(U) = i
      BY <2>5, FS_CountingElements DEF ExistsBijection
    <2> QED
      BY <2>6 DEF U
  <1> QED
    BY <1>5, <1>6

\* The places of a set in order.
LEMMA NthInOrder ==
    ASSUME NEW S \in SUBSET Nat, NEW n \in Nat, NEW k, InOrder(k, S, n), NEW i \in 1 .. n
    PROVE  Nth(S, i) = k[i]
  <1> DEFINE IsNth(p) == p \in S /\ Cardinality({q \in S : q <= p}) = i
  <1>1. IsNth(k[i])
    <2>1. k[i] \in S
      BY DEF InOrder
    <2>2. Cardinality({q \in S : q <= k[i]}) = i
      BY OrderCounts
    <2> QED
      BY <2>1, <2>2
  <1>2. ASSUME NEW p, IsNth(p) PROVE p = k[i]
    <2>1. PICK j \in 1 .. n : k[j] = p
      BY <1>2 DEF InOrder
    <2>2. Cardinality({q \in S : q <= k[j]}) = j
      BY OrderCounts
    <2>3. j = i
      BY <1>2, <2>1, <2>2
    <2> QED
      BY <2>1, <2>3
  <1>3. Nth(S, i) = CHOOSE p : IsNth(p)
    BY DEF Nth
  <1> HIDE DEF IsNth
  <1> QED
    BY <1>1, <1>2, <1>3

\* A number above all of S comes last.
LEMMA OrderGrows ==
    ASSUME NEW S \in SUBSET Nat, NEW n \in Nat, NEW k, InOrder(k, S, n),
           NEW m \in Nat, \A p \in S : p < m
    PROVE  InOrder([i \in 1 .. n + 1 |-> IF i <= n THEN k[i] ELSE m], S \cup {m}, n + 1)
  <1> DEFINE h == [i \in 1 .. n + 1 |-> IF i <= n THEN k[i] ELSE m]
  <1>1. /\ k \in [1 .. n -> S] /\ \A p \in S : \E i \in 1 .. n : k[i] = p
        /\ \A i, j \in 1 .. n : i < j => k[i] < k[j]
    BY DEF InOrder
  <1>2. /\ \A i \in 1 .. n : i \in 1 .. n + 1 /\ h[i] = k[i] /\ k[i] \in S
        /\ n + 1 \in 1 .. n + 1 /\ h[n + 1] = m
    BY <1>1
  <1>3. \A i \in 1 .. n + 1 : i \in 1 .. n \/ i = n + 1
    OBVIOUS
  <1>4. h \in [1 .. n + 1 -> S \cup {m}]
    BY <1>1
  <1> HIDE DEF h
  <1>5. \A p \in S \cup {m} : \E i \in 1 .. n + 1 : h[i] = p
    BY <1>1, <1>2
  <1>6. \A i, j \in 1 .. n + 1 : i < j => h[i] < h[j]
    <2> SUFFICES ASSUME NEW i \in 1 .. n + 1, NEW j \in 1 .. n + 1, i < j PROVE h[i] < h[j]
      OBVIOUS
    <2>1. i \in 1 .. n
      OBVIOUS
    <2>2. CASE j \in 1 .. n
      BY <1>1, <1>2, <2>1, <2>2
    <2>3. CASE j = n + 1
      BY <1>2, <2>1, <2>3
    <2> QED
      BY <1>3, <2>2, <2>3
  <1>7. InOrder(h, S \cup {m}, n + 1)
    BY <1>4, <1>5, <1>6 DEF InOrder
  <1> QED
    BY <1>7 DEF h

-----------------------------------------------------------------------------
(* Positions in a text. *)

\* indexOf() finds the first occurrence.
LEMMA IndexOfFirst ==
    ASSUME NEW s \in Seq(Symbol), NEW symbol, NEW from \in Nat
    PROVE  LET p == IndexOf(s, symbol, from)
           IN  \/ p = -1 /\ \A q \in from .. Len(s) - 1 : At(s, q) # symbol
               \/ /\ p \in from .. Len(s) - 1 /\ At(s, p) = symbol
                  /\ \A q \in from .. Len(s) - 1 : At(s, q) = symbol => p <= q
  <1> DEFINE found == {p \in from .. Len(s) - 1 : At(s, p) = symbol}
  <1>1. Len(s) \in Nat /\ found \in SUBSET (0 .. Len(s))
    OBVIOUS
  <1>2. found # {} => Min(found) \in found /\ \A q \in found : Min(found) <= q
    <2> HIDE DEF found
    <2> QED
      BY <1>1, LeastOne
  <1> QED
    BY <1>2 DEF IndexOf

LEMMA MinIs ==
    ASSUME NEW n \in Nat, NEW T \in SUBSET (0 .. n), NEW m \in T, \A t \in T : m <= t
    PROVE  Min(T) = m
  <1> DEFINE least == Min(T)
  <1>1. least \in T /\ \A t \in T : least <= t
    BY LeastOne
  <1> HIDE DEF least
  <1>2. least \in 0 .. n /\ m \in 0 .. n /\ least <= m /\ m <= least
    BY <1>1
  <1>3. least = m
    BY <1>2
  <1> QED
    BY <1>3 DEF least

LEMMA DelimitersAre ==
    ASSUME NEW s \in Seq(Symbol)
    PROVE  /\ Len(s) \in Nat
           /\ Delimiters(s) \in SUBSET (0 .. Len(s)) /\ Opening(s) \subseteq Delimiters(s)
           /\ Closing(s) \subseteq Delimiters(s) /\ WithPart(s) \subseteq Opening(s)
           /\ \A p \in Delimiters(s) : /\ p \in 0 .. Len(s) - 1 /\ At(s, p) = "boundary"
                                       /\ LineStart(s, p)
  BY DEF Delimiters, Opening, Closing, WithPart

\* The text after a delimiter starts on the next line, and so does every later
\* delimiter.
LEMMA StartOfText ==
    ASSUME NEW s \in Seq(Symbol), NEW c \in Delimiters(s)
    PROVE  LET eol == IndexOf(s, "newline", c + 1)
           IN  /\ TextStart(s, c) = IF eol = -1 THEN Len(s) + 1 ELSE eol + 1
               /\ \A q \in Delimiters(s) : q > c => eol # -1 /\ q >= eol + 1
  <1> DEFINE eol == IndexOf(s, "newline", c + 1)
  <1>1. /\ Len(s) \in Nat /\ c \in 0 .. Len(s) - 1 /\ At(s, c) = "boundary"
        /\ \A p \in Delimiters(s) : p \in 0 .. Len(s) - 1 /\ At(s, p) = "boundary" /\ LineStart(s, p)
    BY DelimitersAre
  <1>2. \A p \in c .. Len(s) - 1 : At(s, p) = "newline" => p \in c + 1 .. Len(s) - 1
    <2> SUFFICES ASSUME NEW p \in c .. Len(s) - 1, At(s, p) = "newline" PROVE p # c
      BY <1>1
    <2> QED
      BY <1>1
  <1>3. {p \in c .. Len(s) - 1 : At(s, p) = "newline"}
        = {p \in c + 1 .. Len(s) - 1 : At(s, p) = "newline"}
    <2>1. \A p \in c + 1 .. Len(s) - 1 : p \in c .. Len(s) - 1
      BY <1>1
    <2> QED
      BY <1>2, <2>1
  <1>4. IndexOf(s, "newline", c) = eol
    BY <1>3 DEF IndexOf
  <1>5. TextStart(s, c) = IF eol = -1 THEN Len(s) + 1 ELSE eol + 1
    BY <1>4 DEF TextStart
  <1>6. ASSUME NEW q \in Delimiters(s), q > c PROVE eol # -1 /\ q >= eol + 1
    <2>1. q \in 1 .. Len(s) - 1 /\ At(s, q - 1) = "newline"
      BY <1>1, <1>6 DEF LineStart
    <2>2. q - 1 \in c + 1 .. Len(s) - 1
      <3>1. q - 1 \in c .. Len(s) - 1
        BY <1>1, <1>6, <2>1
      <3> QED
        BY <1>2, <2>1, <3>1
    <2>3. \/ eol = -1 /\ \A p \in c + 1 .. Len(s) - 1 : At(s, p) # "newline"
          \/ /\ eol \in c + 1 .. Len(s) - 1
             /\ \A p \in c + 1 .. Len(s) - 1 : At(s, p) = "newline" => eol <= p
      BY <1>1, IndexOfFirst
    <2> HIDE DEF eol
    <2> QED
      BY <1>1, <2>1, <2>2, <2>3
  <1> QED
    BY <1>5, <1>6

-----------------------------------------------------------------------------
(* What is found so far. *)

\* The delimiters with a part that come before p.
Before(s, p) == {q \in WithPart(s) : q < p}

\* ps are the texts of the delimiters in S.
Found(s, ps, S) ==
    \E n \in Nat : \E k \in [1 .. n -> S] :
        InOrder(k, S, n) /\ ps = [i \in 1 .. n |-> TextOf(s, k[i])]

LEMMA FoundNone == \A s : Found(s, <<>>, {})
  <1> TAKE s
  <1>1. 1 .. 0 = {} /\ 0 \in Nat
    OBVIOUS
  <1>2. InOrder(<<>>, {}, 0) /\ <<>> \in [1 .. 0 -> {}]
    BY <1>1 DEF InOrder
  <1>3. <<>> = [i \in 1 .. 0 |-> TextOf(s, <<>>[i])]
    BY <1>1
  <1> QED
    BY <1>1, <1>2, <1>3 DEF Found

LEMMA FoundMore ==
    ASSUME NEW s \in Seq(Symbol), NEW S \in SUBSET Nat, NEW ps \in Seq(Seq(Symbol)),
           Found(s, ps, S), NEW m \in Nat, \A p \in S : p < m, TextOf(s, m) \in Seq(Symbol)
    PROVE  Found(s, Append(ps, TextOf(s, m)), S \cup {m})
  <1>1. PICK n \in Nat : \E k \in [1 .. n -> S] :
            InOrder(k, S, n) /\ ps = [i \in 1 .. n |-> TextOf(s, k[i])]
    BY DEF Found
  <1>2. PICK k \in [1 .. n -> S] : InOrder(k, S, n) /\ ps = [i \in 1 .. n |-> TextOf(s, k[i])]
    BY <1>1
  <1> DEFINE h == [i \in 1 .. n + 1 |-> IF i <= n THEN k[i] ELSE m]
  <1>3. InOrder(h, S \cup {m}, n + 1)
    BY <1>2, OrderGrows
  <1>4. Len(ps) = n /\ \A i \in 1 .. n : ps[i] = TextOf(s, k[i])
    BY <1>2
  <1>5. Append(ps, TextOf(s, m)) = [i \in 1 .. n + 1 |-> TextOf(s, h[i])]
    <2> DEFINE qs == Append(ps, TextOf(s, m))
    <2>1. /\ qs \in Seq(Seq(Symbol)) /\ Len(qs) = n + 1
          /\ \A i \in 1 .. n : qs[i] = ps[i] /\ qs[n + 1] = TextOf(s, m)
      BY <1>4, AppendProperties
    <2>2. qs[n + 1] = TextOf(s, m)
      BY <1>4, AppendProperties
    <2>3. \A i \in 1 .. n + 1 : qs[i] = TextOf(s, h[i])
      <3> SUFFICES ASSUME NEW i \in 1 .. n + 1 PROVE qs[i] = TextOf(s, h[i])
        OBVIOUS
      <3>1. CASE i <= n
        <4>1. i \in 1 .. n
          BY <3>1
        <4>2. h[i] = k[i]
          BY <3>1
        <4> HIDE DEF h, qs
        <4> QED
          BY <1>4, <2>1, <4>1, <4>2
      <3>2. CASE i > n
        <4>1. i = n + 1 /\ h[i] = m
          BY <3>2
        <4> QED
          BY <2>2, <4>1
      <3> HIDE DEF h, qs
      <3> QED
        BY <3>1, <3>2
    <2>4. qs = [i \in 1 .. n + 1 |-> qs[i]]
      <3> HIDE DEF qs
      <3> QED
        BY <2>1
    <2> HIDE DEF qs, h
    <2>5. qs = [i \in 1 .. n + 1 |-> TextOf(s, h[i])]
      BY <2>3, <2>4
    <2> QED
      BY <2>5 DEF qs
  <1> HIDE DEF h
  <1>6. h \in [1 .. n + 1 -> S \cup {m}] /\ n + 1 \in Nat
    BY <1>3 DEF InOrder
  <1> QED
    BY <1>3, <1>5, <1>6 DEF Found

LEMMA FoundAll ==
    ASSUME NEW s \in Seq(Symbol), NEW ps, Found(s, ps, WithPart(s))
    PROVE  ps = PartsByLines(s)
  <1> DEFINE S == WithPart(s)
  <1>1. S \in SUBSET Nat
    <2>1. S \subseteq 0 .. Len(s)
      BY DelimitersAre
    <2> QED
      BY <2>1
  <1>2. PICK n \in Nat : \E k \in [1 .. n -> S] :
            InOrder(k, S, n) /\ ps = [i \in 1 .. n |-> TextOf(s, k[i])]
    BY DEF Found
  <1>3. PICK k \in [1 .. n -> S] : InOrder(k, S, n) /\ ps = [i \in 1 .. n |-> TextOf(s, k[i])]
    BY <1>2
  <1>4. PartsByLines(s) = [i \in 1 .. Cardinality(S) |-> TextOf(s, Nth(S, i))]
    BY DEF PartsByLines
  <1> HIDE DEF S
  <1>5. Cardinality(S) = n /\ \A i \in 1 .. n : Nth(S, i) = k[i]
    BY <1>1, <1>3, OrderCounts, NthInOrder
  <1>6. [i \in 1 .. n |-> TextOf(s, Nth(S, i))] = [i \in 1 .. n |-> TextOf(s, k[i])]
    BY <1>5
  <1> QED
    BY <1>3, <1>4, <1>5, <1>6

\* The next delimiter ends the text of the one before; when it is the last one
\* there are no more parts.
LEMMA NextDelimiter ==
    ASSUME NEW s \in Seq(Symbol), NEW c \in Opening(s), NEW d \in Delimiters(s), d > c,
           \A q \in Delimiters(s) : q > c => d <= q
    PROVE  /\ TextEnd(s, c) = d - 1
           /\ Before(s, d) = Before(s, c) \cup ({c} \cap WithPart(s))
           /\ d \notin Closing(s) => d \in Opening(s)
           /\ d \in Closing(s) => /\ Min(Closing(s)) = d /\ WithPart(s) = Before(s, d)
  <1>0. /\ Len(s) \in Nat /\ Opening(s) \subseteq Delimiters(s) /\ Closing(s) \subseteq Delimiters(s)
        /\ WithPart(s) \subseteq Opening(s) /\ Delimiters(s) \in SUBSET (0 .. Len(s))
        /\ \A q \in Delimiters(s) : q \in Nat
    BY DelimitersAre
  <1>1. TextEnd(s, c) = d - 1
    <2> DEFINE later == {q \in Delimiters(s) : q > c}
    <2>1. later \in SUBSET (0 .. Len(s)) /\ d \in later /\ \A q \in later : d <= q
      BY <1>0
    <2>2. TextEnd(s, c) = IF later = {} THEN Len(s) ELSE Min(later) - 1
      BY DEF TextEnd
    <2> HIDE DEF later
    <2>3. Min(later) = d /\ later # {}
      BY <1>0, <2>1, MinIs
    <2> QED
      BY <2>2, <2>3
  <1>2. Before(s, d) = Before(s, c) \cup ({c} \cap WithPart(s))
    <2>1. ASSUME NEW q \in WithPart(s) PROVE q < d <=> q < c \/ q = c
      <3>1. q \in Delimiters(s) /\ q \in Nat /\ c \in Nat /\ d \in Nat
        BY <1>0
      <3> QED
        BY <3>1
    <2> QED
      BY <2>1 DEF Before
  <1>3. \A q \in Closing(s) : c < q /\ d <= q
    <2> SUFFICES ASSUME NEW q \in Closing(s) PROVE c < q /\ d <= q
      OBVIOUS
    <2>1. c < q
      BY DEF Opening
    <2>2. q > c
      BY <1>0, <2>1
    <2> QED
      BY <1>0, <2>1, <2>2
  <1>4. d \notin Closing(s) => d \in Opening(s)
    <2>1. d \notin Closing(s) => \A q \in Closing(s) : d < q
      BY <1>0, <1>3
    <2> QED
      BY <2>1 DEF Opening
  <1>5. ASSUME d \in Closing(s)
        PROVE  Min(Closing(s)) = d /\ WithPart(s) = Before(s, d)
    <2>1. Closing(s) \in SUBSET (0 .. Len(s))
      BY <1>0
    <2>2. Min(Closing(s)) = d
      BY <1>0, <1>3, <1>5, <2>1, MinIs
    <2>3. \A q \in WithPart(s) : q < d
      BY <1>0, <1>5 DEF Opening
    <2> QED
      BY <2>2, <2>3 DEF Before
  <1> QED
    BY <1>1, <1>2, <1>4, <1>5

LEMMA LastDelimiter ==
    ASSUME NEW s \in Seq(Symbol), NEW c \in Opening(s), \A q \in Delimiters(s) : ~(q > c)
    PROVE  /\ TextEnd(s, c) = Len(s)
           /\ WithPart(s) = Before(s, c) \cup ({c} \cap WithPart(s))
           /\ Closing(s) = {}
  <1>0. /\ Len(s) \in Nat /\ Opening(s) \subseteq Delimiters(s) /\ Closing(s) \subseteq Delimiters(s)
        /\ WithPart(s) \subseteq Opening(s) /\ \A q \in Delimiters(s) : q \in Nat
    BY DelimitersAre
  <1>1. TextEnd(s, c) = Len(s)
    <2>1. {q \in Delimiters(s) : q > c} = {}
      OBVIOUS
    <2> QED
      BY <2>1 DEF TextEnd
  <1>2. \A q \in WithPart(s) : q < c \/ q = c
    <2> SUFFICES ASSUME NEW q \in WithPart(s) PROVE q < c \/ q = c
      OBVIOUS
    <2>1. q \in Nat /\ c \in Nat /\ ~(q > c)
      BY <1>0
    <2> QED
      BY <2>1
  <1>3. Closing(s) = {}
    <2> SUFFICES ASSUME NEW q \in Closing(s) PROVE FALSE
      OBVIOUS
    <2>1. c < q
      BY DEF Opening
    <2>2. q \in Nat /\ c \in Nat /\ ~(q > c)
      BY <1>0
    <2> QED
      BY <2>1, <2>2
  <1> QED
    BY <1>1, <1>2, <1>3 DEF Before

\* Taking the text of a delimiter that has one.
LEMMA FoundNext ==
    ASSUME NEW s \in Seq(Symbol), NEW c \in Delimiters(s), NEW ps \in Seq(Seq(Symbol)),
           Found(s, ps, Before(s, c)), TextOf(s, c) \in Seq(Symbol)
    PROVE  Found(s, IF c \in WithPart(s) THEN Append(ps, TextOf(s, c)) ELSE ps,
                 Before(s, c) \cup ({c} \cap WithPart(s)))
  <1>1. Before(s, c) \in SUBSET Nat /\ c \in Nat /\ \A p \in Before(s, c) : p < c
    BY DelimitersAre DEF Before
  <1>2. CASE c \in WithPart(s)
    <2>1. {c} \cap WithPart(s) = {c}
      BY <1>2
    <2>2. Found(s, Append(ps, TextOf(s, c)), Before(s, c) \cup {c})
      BY <1>1, FoundMore
    <2> QED
      BY <1>2, <2>1, <2>2
  <1>3. CASE c \notin WithPart(s)
    <2>1. Before(s, c) \cup ({c} \cap WithPart(s)) = Before(s, c)
      BY <1>3
    <2> QED
      BY <1>3, <2>1
  <1> QED
    BY <1>2, <1>3

\* The line of a closing delimiter ends where the first newline after its "--"
\* is.
LEMMA ClosingLine ==
    ASSUME NEW s \in Seq(Symbol), NEW d \in Delimiters(s), ClosedAt(s, d + 1)
    PROVE  IndexOf(s, "newline", d + 3) = IndexOf(s, "newline", d + 1)
  <1>1. Len(s) \in Nat /\ d \in Nat /\ At(s, d + 1) = "dash" /\ At(s, d + 2) = "dash"
    <2>1. d + 1 + 1 = d + 2 /\ d \in Nat /\ Len(s) \in Nat
      BY DelimitersAre
    <2> QED
      BY <2>1 DEF ClosedAt
  <1>2. ASSUME NEW p \in d + 1 .. Len(s) - 1, At(s, p) = "newline"
        PROVE  p \in d + 3 .. Len(s) - 1
    <2>1. p # d + 1 /\ p # d + 2
      BY <1>1, <1>2
    <2> QED
      BY <1>1, <2>1
  <1>3. \A p \in d + 3 .. Len(s) - 1 : p \in d + 1 .. Len(s) - 1
    BY <1>1
  <1>4. {p \in d + 3 .. Len(s) - 1 : At(s, p) = "newline"}
        = {p \in d + 1 .. Len(s) - 1 : At(s, p) = "newline"}
    BY <1>2, <1>3
  <1> QED
    BY <1>4 DEF IndexOf

-----------------------------------------------------------------------------
(* The invariant. *)

\* parse() is behind delimiter c: it has found the parts before it.
Reading(c) ==
    /\ c \in Opening(src)
    /\ Found(src, parts, Before(src, c))
    /\ preamble = PreambleByLines(src) /\ epilouge = <<>>
    /\ pc = "skip" => pos1 = c + 1
    /\ pc # "skip" => pos1 = TextStart(src, c) /\ \A q \in Delimiters(src) : q > c => pos2 <= q
    /\ pc = "part" => pos2 \in Delimiters(src)

\* Nothing is found before the first delimiter.
Starting ==
    /\ parts = <<>> /\ preamble = <<>> /\ epilouge = <<>>
    /\ \A q \in Delimiters(src) : pos1 <= q
    /\ pc = "open" => pos1 \in Delimiters(src)

Finished ==
    /\ Found(src, parts, WithPart(src))
    /\ preamble = PreambleByLines(src) /\ epilouge = EpilogueByLines(src)

SplitInv ==
    /\ pc \in {"first", "open"} => Starting
    /\ pc \in {"skip", "next", "part"} => \E c \in Delimiters(src) : Reading(c)
    /\ pc = "done" => Finished

\* Without an opening delimiter there is nothing.
LEMMA NothingOpened ==
    ASSUME NEW s \in Seq(Symbol), Opening(s) = {}
    PROVE  Found(s, <<>>, WithPart(s)) /\ <<>> = PreambleByLines(s) /\ <<>> = EpilogueByLines(s)
  <1>1. WithPart(s) = {}
    BY DEF WithPart
  <1>2. Found(s, <<>>, WithPart(s))
    BY <1>1, FoundNone
  <1> QED
    BY <1>2 DEF PreambleByLines, EpilogueByLines

LEMMA SplitInit == Init => SplitInv
  <1> SUFFICES ASSUME Init PROVE SplitInv
    OBVIOUS
  <1>1. src \in Seq(Symbol)
    BY BodiesAssumption DEF Init
  <1>2. \A q \in Delimiters(src) : 0 <= q
    BY <1>1, DelimitersAre
  <1> QED
    BY <1>2 DEF Init, SplitInv, Starting, SplitsAtDelimiters

LEMMA FindFirstSplits == IInv /\ SplitInv /\ FindFirst => SplitInv'
  <1> SUFFICES ASSUME IInv, SplitInv, FindFirst PROVE SplitInv'
    OBVIOUS
  <1> DEFINE p == IndexOf(src, "boundary", pos1)
  <1>1. /\ pc = "first" /\ src \in Seq(Symbol) /\ pos1 \in Nat /\ Len(src) \in Nat
        /\ parts = <<>> /\ preamble = <<>> /\ epilouge = <<>>
        /\ \A q \in Delimiters(src) : pos1 <= q
    BY DEF FindFirst, IInv, TypeOK, SplitInv, Starting
  <1>2. \/ p = -1 /\ \A q \in pos1 .. Len(src) - 1 : At(src, q) # "boundary"
        \/ /\ p \in pos1 .. Len(src) - 1 /\ At(src, p) = "boundary"
           /\ \A q \in pos1 .. Len(src) - 1 : At(src, q) = "boundary" => p <= q
    BY <1>1, IndexOfFirst
  <1>3. \A q \in Delimiters(src) : /\ q \in pos1 .. Len(src) - 1 /\ At(src, q) = "boundary"
                                   /\ LineStart(src, q)
    BY <1>1, DelimitersAre
  <1>4. /\ src' = src /\ parts' = parts /\ preamble' = preamble /\ epilouge' = epilouge
        /\ p = -1 => pc' = "done"
        /\ p # -1 /\ LineStart(src, p) => pc' = "open" /\ pos1' = p
        /\ p # -1 /\ ~LineStart(src, p) => pc' = "first" /\ pos1' = p + 1
    BY DEF FindFirst, Done
  <1> HIDE DEF p
  <1>5. CASE p = -1
    <2>1. Delimiters(src) = {}
      BY <1>1, <1>2, <1>3, <1>5
    <2>2. Opening(src) = {}
      BY <2>1 DEF Opening
    <2>3. Finished
      BY <1>1, <2>2, NothingOpened DEF Finished
    <2> QED
      BY <1>4, <1>5, <2>3 DEF SplitInv, Finished
  <1>6. CASE p # -1 /\ LineStart(src, p)
    <2>1. p \in Delimiters(src)
      BY <1>1, <1>2, <1>6 DEF Delimiters
    <2>2. \A q \in Delimiters(src) : p <= q
      BY <1>2, <1>3, <1>6
    <2> QED
      BY <1>1, <1>4, <1>6, <2>1, <2>2 DEF SplitInv, Starting
  <1>7. CASE p # -1 /\ ~LineStart(src, p)
    <2>1. \A q \in Delimiters(src) : p + 1 <= q
      <3> SUFFICES ASSUME NEW q \in Delimiters(src) PROVE p + 1 <= q
        OBVIOUS
      <3>1. p <= q /\ p # q /\ p \in Int /\ q \in Int
        BY <1>1, <1>2, <1>3, <1>7
      <3> QED
        BY <3>1
    <2> QED
      BY <1>1, <1>4, <1>7, <2>1 DEF SplitInv, Starting
  <1> QED
    BY <1>5, <1>6, <1>7

LEMMA OpenSplits == IInv /\ SplitInv /\ Open => SplitInv'
  <1> SUFFICES ASSUME IInv, SplitInv, Open PROVE SplitInv'
    OBVIOUS
  <1>1. /\ pc = "open" /\ src \in Seq(Symbol) /\ pos1 \in Nat /\ Len(src) \in Nat
        /\ parts = <<>> /\ preamble = <<>> /\ epilouge = <<>>
        /\ pos1 \in Delimiters(src) /\ \A q \in Delimiters(src) : pos1 <= q
    BY DEF Open, IInv, TypeOK, SplitInv, Starting
  <1>0. /\ Opening(src) \subseteq Delimiters(src) /\ Closing(src) \subseteq Delimiters(src)
        /\ Delimiters(src) \in SUBSET (0 .. Len(src)) /\ WithPart(src) \subseteq Opening(src)
        /\ \A q \in Delimiters(src) : q \in Nat
    BY <1>1, DelimitersAre
  <1>2. src' = src /\ parts' = parts /\ epilouge' = epilouge
    BY DEF Open
  <1>3. CASE ClosedAt(src, pos1 + 1)
    <2>1. pos1 \in Closing(src)
      BY <1>1, <1>3 DEF Closing
    <2>2. Opening(src) = {}
      <3> SUFFICES ASSUME NEW q \in Opening(src) PROVE FALSE
        OBVIOUS
      <3>1. q < pos1 /\ pos1 <= q /\ q \in Nat
        BY <1>0, <1>1, <2>1 DEF Opening
      <3> QED
        BY <1>1, <3>1
    <2>3. Finished
      BY <1>1, <2>2, NothingOpened DEF Finished
    <2>4. pc' = "done" /\ preamble' = preamble
      BY <1>3 DEF Open, Done
    <2> QED
      BY <1>2, <2>3, <2>4 DEF SplitInv, Finished
  <1>4. CASE ~ClosedAt(src, pos1 + 1)
    <2>1. pos1 \in Opening(src)
      <3>1. pos1 \notin Closing(src)
        BY <1>4 DEF Closing
      <3>2. \A q \in Closing(src) : pos1 < q
        BY <1>0, <1>1, <3>1
      <3> QED
        BY <1>1, <3>2 DEF Opening
    <2>2. Min(Opening(src)) = pos1
      <3>1. Opening(src) \in SUBSET (0 .. Len(src)) /\ \A q \in Opening(src) : pos1 <= q
        BY <1>0, <1>1
      <3> QED
        BY <1>1, <2>1, <3>1, MinIs
    <2>3. PreambleByLines(src) = SubSeq(src, 1, pos1 - 1)
      BY <2>1, <2>2 DEF PreambleByLines
    <2>4. /\ preamble' = IF pos1 > 1 THEN Left(src, pos1 - 1) ELSE preamble
          /\ pos1' = pos1 + 1 /\ pc' = "skip"
      BY <1>4 DEF Open
    <2>5. preamble' = PreambleByLines(src)
      <3>1. CASE pos1 > 1
        BY <2>3, <2>4, <3>1 DEF Left
      <3>2. CASE ~(pos1 > 1)
        <4>1. SubSeq(src, 1, pos1 - 1) = <<>>
          BY <1>1, <3>2, SubSeqProperties
        <4> QED
          BY <1>1, <2>3, <2>4, <3>2, <4>1
      <3> QED
        BY <3>1, <3>2
    <2>6. Before(src, pos1) = {}
      <3> SUFFICES ASSUME NEW q \in Before(src, pos1) PROVE FALSE
        OBVIOUS
      <3>1. q < pos1 /\ pos1 <= q /\ q \in Nat
        BY <1>0, <1>1 DEF Before
      <3> QED
        BY <1>1, <3>1
    <2>7. Found(src, <<>>, Before(src, pos1))
      BY <2>6, FoundNone
    <2>8. PICK c \in Delimiters(src) : c = pos1
      BY <1>1
    <2>9. Reading(c)'
      BY <1>1, <1>2, <2>1, <2>4, <2>5, <2>7, <2>8 DEF Reading
    <2>10. \E k \in Delimiters(src') : Reading(k)'
      BY <1>2, <2>8, <2>9
    <2> QED
      BY <2>4, <2>10 DEF SplitInv, Finished
  <1> QED
    BY <1>3, <1>4

LEMMA SkipLineSplits == IInv /\ SplitInv /\ SkipLine => SplitInv'
  <1> SUFFICES ASSUME IInv, SplitInv, SkipLine PROVE SplitInv'
    OBVIOUS
  <1> DEFINE p == IndexOf(src, "newline", pos1)
  <1>1. pc = "skip" /\ src \in Seq(Symbol) /\ Len(src) \in Nat
    BY DEF SkipLine, IInv, TypeOK
  <1>2. PICK c \in Delimiters(src) : Reading(c)
    BY <1>1 DEF SplitInv
  <1>3. /\ c \in Nat /\ c < Len(src) /\ c \in Opening(src) /\ pos1 = c + 1
        /\ Found(src, parts, Before(src, c))
        /\ preamble = PreambleByLines(src) /\ epilouge = <<>>
    BY <1>1, <1>2, DelimitersAre DEF Reading
  <1>4. /\ TextStart(src, c) = IF p = -1 THEN Len(src) + 1 ELSE p + 1
        /\ \A q \in Delimiters(src) : q > c => p # -1 /\ q >= p + 1
    BY <1>1, <1>3, StartOfText
  <1>5. /\ src' = src /\ parts' = parts /\ preamble' = preamble /\ epilouge' = epilouge
        /\ p = -1 => pc' = "done"
        /\ p # -1 => pc' = "next" /\ pos1' = p + 1 /\ pos2' = p + 1
    BY DEF SkipLine, Done
  <1>6. p = -1 \/ p \in Nat
    BY <1>1, <1>3, IndexOfFinds
  <1> HIDE DEF p
  <1>7. CASE p = -1
    <2>1. /\ TextEnd(src, c) = Len(src) /\ Closing(src) = {}
          /\ WithPart(src) = Before(src, c) \cup ({c} \cap WithPart(src))
      BY <1>1, <1>3, <1>4, <1>7, LastDelimiter
    <2>2. c \notin WithPart(src)
      BY <1>1, <1>4, <1>7, <2>1 DEF WithPart
    <2>3. WithPart(src) = Before(src, c)
      BY <2>1, <2>2
    <2>4. Found(src, parts, WithPart(src))
      BY <1>3, <2>3
    <2>5. epilouge = EpilogueByLines(src)
      BY <1>3, <2>1 DEF EpilogueByLines
    <2> QED
      BY <1>3, <1>5, <1>7, <2>4, <2>5 DEF SplitInv, Finished
  <1>8. CASE p # -1
    <2>1. \A q \in Delimiters(src) : q > c => p + 1 <= q
      BY <1>4, <1>6, <1>8, <1>1, DelimitersAre
    <2>2. Reading(c)'
      BY <1>3, <1>4, <1>5, <1>8, <2>1 DEF Reading
    <2>3. \E k \in Delimiters(src') : Reading(k)'
      BY <1>5, <2>2
    <2> QED
      BY <1>5, <1>8, <2>3 DEF SplitInv, Finished
  <1> QED
    BY <1>7, <1>8

\* The text of the delimiter that parse() is behind starts at pos1.
LEMMA TextHere ==
    ASSUME IInv, pc \in {"next", "part"}, NEW c \in Delimiters(src), Reading(c)
    PROVE  /\ pos1 \in Nat /\ pos1 > c /\ pos1 <= pos2 /\ pos2 \in Nat /\ pos2 <= Len(src)
           /\ pos1 = TextStart(src, c)
  <1>1. /\ src \in Seq(Symbol) /\ pos1 \in Nat /\ pos1 <= pos2 /\ pos2 \in Nat
        /\ pos2 <= Len(src) /\ pos1 = TextStart(src, c)
    BY DEF IInv, TypeOK, Reading
  <1>2. Len(src) \in Nat /\ c \in Nat /\ c < Len(src)
    BY <1>1, DelimitersAre
  <1> DEFINE eol == IndexOf(src, "newline", c + 1)
  <1>3. TextStart(src, c) = IF eol = -1 THEN Len(src) + 1 ELSE eol + 1
    BY <1>1, StartOfText
  <1>4. eol = -1 \/ eol \in c + 1 .. Len(src) - 1
    BY <1>1, <1>2, IndexOfFinds
  <1> HIDE DEF eol
  <1> QED
    BY <1>1, <1>2, <1>3, <1>4

LEMMA FindNextSplits == IInv /\ SplitInv /\ FindNext => SplitInv'
  <1> SUFFICES ASSUME IInv, SplitInv, FindNext PROVE SplitInv'
    OBVIOUS
  <1> DEFINE p == IndexOf(src, "boundary", pos2)
  <1>1. pc = "next" /\ src \in Seq(Symbol) /\ Len(src) \in Nat /\ parts \in Seq(Seq(Symbol))
    BY DEF FindNext, IInv, TypeOK
  <1>2. PICK c \in Delimiters(src) : Reading(c)
    BY <1>1 DEF SplitInv
  <1>3. /\ c \in Nat /\ c \in Opening(src) /\ Found(src, parts, Before(src, c))
        /\ preamble = PreambleByLines(src) /\ epilouge = <<>>
        /\ \A q \in Delimiters(src) : q > c => pos2 <= q
    BY <1>1, <1>2, DelimitersAre DEF Reading
  <1>4. /\ pos1 \in Nat /\ pos1 > c /\ pos1 <= pos2 /\ pos2 \in Nat /\ pos2 <= Len(src)
        /\ pos1 = TextStart(src, c)
    BY <1>1, <1>2, TextHere
  <1>5. \/ p = -1 /\ \A q \in pos2 .. Len(src) - 1 : At(src, q) # "boundary"
        \/ /\ p \in pos2 .. Len(src) - 1 /\ At(src, p) = "boundary"
           /\ \A q \in pos2 .. Len(src) - 1 : At(src, q) = "boundary" => p <= q
    BY <1>1, <1>4, IndexOfFirst
  <1>6. \A q \in Delimiters(src) : /\ q \in Nat /\ At(src, q) = "boundary" /\ LineStart(src, q)
                                   /\ q > c => q \in pos2 .. Len(src) - 1
    BY <1>1, <1>3, <1>4, DelimitersAre
  <1>7. /\ src' = src /\ preamble' = preamble /\ epilouge' = epilouge
        /\ p = -1 => pc' = "done" /\ parts' = Append(parts, From(src, pos1))
        /\ p # -1 => pos1' = pos1 /\ parts' = parts
        /\ p # -1 /\ LineStart(src, p) => pc' = "part" /\ pos2' = p
        /\ p # -1 /\ ~LineStart(src, p) => pc' = "next" /\ pos2' = p + 1
    BY DEF FindNext, Done
  <1> HIDE DEF p
  <1>8. CASE p = -1
    <2>1. \A q \in Delimiters(src) : ~(q > c)
      BY <1>5, <1>6, <1>8, <1>4
    <2>2. /\ TextEnd(src, c) = Len(src) /\ Closing(src) = {}
          /\ WithPart(src) = Before(src, c) \cup ({c} \cap WithPart(src))
      BY <1>1, <1>3, <2>1, LastDelimiter
    <2>3. c \in WithPart(src)
      BY <1>1, <1>3, <1>4, <2>2 DEF WithPart
    <2>4. TextOf(src, c) = From(src, pos1)
      BY <1>4, <2>2 DEF TextOf, From
    <2>5. TextOf(src, c) \in Seq(Symbol)
      BY <1>1, <1>4, <2>4, Slice DEF From
    <2>6. Found(src, Append(parts, TextOf(src, c)), WithPart(src))
      BY <1>1, <1>3, <2>2, <2>3, <2>5, FoundNext
    <2>7. epilouge = EpilogueByLines(src)
      BY <1>3, <2>2 DEF EpilogueByLines
    <2> QED
      BY <1>3, <1>7, <1>8, <2>4, <2>6, <2>7 DEF SplitInv, Finished
  <1>9. CASE p # -1 /\ LineStart(src, p)
    <2>1. p \in Delimiters(src)
      BY <1>1, <1>4, <1>5, <1>9 DEF Delimiters
    <2>2. \A q \in Delimiters(src) : q > c => p <= q
      BY <1>5, <1>6, <1>9
    <2>3. Reading(c)'
      BY <1>3, <1>4, <1>7, <1>9, <2>1, <2>2 DEF Reading
    <2>4. \E k \in Delimiters(src') : Reading(k)'
      BY <1>7, <2>3
    <2> QED
      BY <1>7, <1>9, <2>4 DEF SplitInv, Finished
  <1>10. CASE p # -1 /\ ~LineStart(src, p)
    <2>1. \A q \in Delimiters(src) : q > c => p + 1 <= q
      <3> SUFFICES ASSUME NEW q \in Delimiters(src), q > c PROVE p + 1 <= q
        OBVIOUS
      <3>1. p <= q /\ p # q /\ p \in Int /\ q \in Int
        BY <1>4, <1>5, <1>6, <1>10
      <3> QED
        BY <3>1
    <2>2. Reading(c)'
      BY <1>3, <1>4, <1>7, <1>10, <2>1 DEF Reading
    <2>3. \E k \in Delimiters(src') : Reading(k)'
      BY <1>7, <2>2
    <2> QED
      BY <1>7, <1>10, <2>3 DEF SplitInv, Finished
  <1> QED
    BY <1>8, <1>9, <1>10

LEMMA TakePartSplits == IInv /\ SplitInv /\ TakePart => SplitInv'
  <1> SUFFICES ASSUME IInv, SplitInv, TakePart PROVE SplitInv'
    OBVIOUS
  <1> DEFINE eol == IndexOf(src, "newline", pos2 + 3)
  <1>1. pc = "part" /\ src \in Seq(Symbol) /\ Len(src) \in Nat /\ parts \in Seq(Seq(Symbol))
    BY DEF TakePart, IInv, TypeOK
  <1>2. PICK c \in Delimiters(src) : Reading(c)
    BY <1>1 DEF SplitInv
  <1>3. /\ c \in Nat /\ c \in Opening(src) /\ Found(src, parts, Before(src, c))
        /\ preamble = PreambleByLines(src) /\ epilouge = <<>>
        /\ \A q \in Delimiters(src) : q > c => pos2 <= q
        /\ pos2 \in Delimiters(src)
    BY <1>1, <1>2, DelimitersAre DEF Reading
  <1>4. /\ pos1 \in Nat /\ pos1 > c /\ pos1 <= pos2 /\ pos2 \in Nat /\ pos2 <= Len(src)
        /\ pos1 = TextStart(src, c) /\ pos2 > c
    BY <1>1, <1>2, <1>3, TextHere
  <1>5. /\ TextEnd(src, c) = pos2 - 1
        /\ Before(src, pos2) = Before(src, c) \cup ({c} \cap WithPart(src))
        /\ pos2 \notin Closing(src) => pos2 \in Opening(src)
        /\ pos2 \in Closing(src) => Min(Closing(src)) = pos2 /\ WithPart(src) = Before(src, pos2)
    BY <1>1, <1>3, <1>4, NextDelimiter
  <1>6. c \in WithPart(src) <=> pos1 # pos2
    <2>1. pos1 <= pos2 - 1 <=> pos1 # pos2
      BY <1>4
    <2> QED
      BY <1>3, <1>4, <1>5, <2>1 DEF WithPart
  <1>7. TextOf(src, c) = PartText(src, pos1, pos2)
    <2>1. pos1 + (pos2 - pos1 - 1) = pos2 - 1
      BY <1>4
    <2> QED
      BY <1>4, <1>5, <2>1 DEF TextOf, PartText, Mid
  <1>8. TextOf(src, c) \in Seq(Symbol)
    <2>1. pos2 - 1 \in -1 .. Len(src)
      BY <1>1, <1>4
    <2> QED
      BY <1>1, <1>4, <1>5, <2>1, Slice DEF TextOf
  <1>9. parts' = IF c \in WithPart(src) THEN Append(parts, TextOf(src, c)) ELSE parts
    BY <1>6, <1>7 DEF TakePart
  <1>10. Found(src, parts', Before(src, pos2))
    BY <1>1, <1>3, <1>5, <1>8, <1>9, FoundNext
  <1>11. src' = src /\ preamble' = preamble
    BY DEF TakePart
  <1>12. CASE ClosedAt(src, pos2 + 1)
    <2>1. pos2 \in Closing(src)
      BY <1>3, <1>12 DEF Closing
    <2>2. Found(src, parts', WithPart(src))
      BY <1>5, <1>10, <2>1
    <2>3. pos2 + 1 + 2 = pos2 + 3
      BY <1>4
    <2>4. pc' = "done" /\ epilouge' = IF eol # -1 THEN From(src, eol + 1) ELSE epilouge
      BY <1>12, <2>3 DEF TakePart, Done
    <2>5. TextStart(src, pos2) = IF eol = -1 THEN Len(src) + 1 ELSE eol + 1
      <3>1. eol = IndexOf(src, "newline", pos2 + 1)
        BY <1>1, <1>3, <1>12, ClosingLine
      <3> QED
        BY <1>1, <1>3, <3>1, StartOfText
    <2>6. EpilogueByLines(src) = SubSeq(src, TextStart(src, pos2) + 1, Len(src))
      BY <1>3, <1>5, <2>1 DEF EpilogueByLines
    <2> HIDE DEF eol
    <2>7. epilouge' = EpilogueByLines(src)
      <3>1. CASE eol = -1
        <4>1. SubSeq(src, Len(src) + 1 + 1, Len(src)) = <<>>
          BY <1>1, SubSeqProperties
        <4> QED
          BY <1>3, <2>4, <2>5, <2>6, <3>1, <4>1
      <3>2. CASE eol # -1
        BY <2>4, <2>5, <2>6, <3>2 DEF From
      <3> QED
        BY <3>1, <3>2
    <2> QED
      BY <1>3, <1>11, <2>2, <2>4, <2>7 DEF SplitInv, Finished
  <1>13. CASE ~ClosedAt(src, pos2 + 1)
    <2>1. pos2 \notin Closing(src)
      BY <1>13 DEF Closing
    <2>2. pc' = "skip" /\ pos1' = pos2 + 1 /\ epilouge' = epilouge
      BY <1>13 DEF TakePart
    <2>3. PICK d \in Delimiters(src) : d = pos2
      BY <1>3
    <2>4. Reading(d)'
      BY <1>3, <1>5, <1>10, <1>11, <2>1, <2>2, <2>3 DEF Reading
    <2>5. \E k \in Delimiters(src') : Reading(k)'
      BY <1>11, <2>4
    <2> QED
      BY <2>2, <2>5 DEF SplitInv, Finished
  <1> QED
    BY <1>12, <1>13

LEMMA SplitInvariant == Spec => [](IInv /\ SplitInv)
  <1>1. Init => IInv /\ SplitInv
    BY InitInv, SplitInit
  <1>2. IInv /\ SplitInv /\ [Next]_vars => (IInv /\ SplitInv)'
    <2>1. IInv /\ SplitInv /\ UNCHANGED vars => (IInv /\ SplitInv)'
      BY DEF vars, IInv, TypeOK, SplitInv, Starting, Reading, Finished
    <2>2. IInv /\ SplitInv /\ Next => (IInv /\ SplitInv)'
      BY FindFirstInv, OpenInv, SkipLineInv, FindNextInv, TakePartInv, FindFirstSplits,
         OpenSplits, SkipLineSplits, FindNextSplits, TakePartSplits DEF Next
    <2> QED
      BY <2>1, <2>2
  <1> QED
    BY <1>1, <1>2, PTL DEF Spec

\* SplitsAtDelimiters, for every body: the two cursors of MultiPart::parse() find
\* exactly the preamble, the parts and the epilogue that the delimiter lines
\* define, in their order, also when delimiters are empty, in the middle of a
\* line, or missing (parsers.cpp 31-106).
THEOREM AlwaysSplitsAtDelimiters == Spec => []SplitsAtDelimiters
  <1>1. IInv /\ SplitInv => SplitsAtDelimiters
    BY FoundAll DEF IInv, TypeOK, SplitInv, Finished, SplitsAtDelimiters
  <1> QED
    BY <1>1, SplitInvariant, PTL

-----------------------------------------------------------------------------
(* Assembled again.  A text without delimiters of its own, put behind a      *)
(* delimiter, is the text of that delimiter, and changes no other.           *)

LEMMA SetInduction ==
    ASSUME NEW S \in SUBSET Nat, 0 \in S, \A n \in S : n + 1 \in S
    PROVE  S = Nat
  <1> SUFFICES ASSUME NEW n \in Nat, n \notin S PROVE FALSE
    OBVIOUS
  <1> DEFINE T == {x \in 0 .. n : x \notin S}
  <1>1. T \in SUBSET (0 .. n) /\ n \in T
    OBVIOUS
  <1>2. \A x \in T : x # 0 /\ x - 1 \in 0 .. n /\ x - 1 \notin S
    <2> SUFFICES ASSUME NEW x \in T PROVE x # 0 /\ x - 1 \in 0 .. n /\ x - 1 \notin S
      OBVIOUS
    <2>1. x # 0 /\ x \in 0 .. n /\ x \notin S
      OBVIOUS
    <2>2. x - 1 \in S => x - 1 + 1 \in S
      OBVIOUS
    <2> QED
      BY <2>1, <2>2
  <1> DEFINE least == Min(T)
  <1>3. least \in T /\ \A x \in T : least <= x
    <2> HIDE DEF T
    <2> QED
      BY <1>1, LeastOne
  <1> HIDE DEF least
  <1>4. least - 1 \in T
    BY <1>2, <1>3
  <1>5. least \in 0 .. n
    BY <1>3
  <1> QED
    BY <1>3, <1>4, <1>5

\* The characters of a piece of a text.
LEMMA PieceIs ==
    ASSUME NEW s \in Seq(Symbol), NEW a \in 0 .. Len(s), NEW b \in Int, b <= Len(s)
    PROVE  LET t == SubSeq(s, a + 1, b)
           IN  /\ t \in Seq(Symbol) /\ Len(t) = IF a < b THEN b - a ELSE 0
               /\ \A i \in 0 .. Len(t) - 1 : At(t, i) = At(s, a + i)
  <1> DEFINE t == SubSeq(s, a + 1, b)
  <1>1. Len(s) \in Nat /\ a + 1 \in Int /\ \A i \in a + 1 .. b : s[i] \in Symbol
    OBVIOUS
  <1>2. /\ t \in Seq(Symbol) /\ Len(t) = IF a + 1 <= b THEN b - (a + 1) + 1 ELSE 0
        /\ \A i \in 1 .. b - (a + 1) + 1 : t[i] = s[(a + 1) + i - 1]
    BY <1>1, SubSeqProperties
  <1> HIDE DEF t
  <1>3. Len(t) = IF a < b THEN b - a ELSE 0
    BY <1>2
  <1>4. \A i \in 0 .. Len(t) - 1 : At(t, i) = At(s, a + i)
    <2> SUFFICES ASSUME NEW i \in 0 .. Len(t) - 1 PROVE At(t, i) = At(s, a + i)
      OBVIOUS
    <2>1. i + 1 \in 1 .. b - (a + 1) + 1 /\ (a + 1) + (i + 1) - 1 = a + i + 1
      BY <1>3
    <2> QED
      BY <1>2, <2>1 DEF At
  <1> QED
    BY <1>2, <1>3, <1>4 DEF t

\* Texts with the same characters are the same.
LEMMA SameText ==
    ASSUME NEW s \in Seq(Symbol), NEW t \in Seq(Symbol), Len(s) = Len(t),
           \A i \in 0 .. Len(s) - 1 : At(s, i) = At(t, i)
    PROVE  s = t
  <1>1. \A i \in 1 .. Len(s) : s[i] = t[i]
    <2> SUFFICES ASSUME NEW i \in 1 .. Len(s) PROVE s[i] = t[i]
      OBVIOUS
    <2>1. i - 1 \in 0 .. Len(s) - 1 /\ i - 1 + 1 = i
      OBVIOUS
    <2> QED
      BY <2>1 DEF At
  <1> QED
    BY <1>1

\* No delimiter is in a text that starts a line.
Clean(t) == t \in Seq(Symbol) /\ Delimiters(t) = {}

\* A piece of a text that starts a line and has no delimiter of the text is clean.
LEMMA CleanPiece ==
    ASSUME NEW s \in Seq(Symbol), NEW a \in 0 .. Len(s), LineStart(s, a),
           NEW b \in Int, b <= Len(s), \A q \in Delimiters(s) : ~(a <= q /\ q < b)
    PROVE  Clean(SubSeq(s, a + 1, b))
  <1> DEFINE t == SubSeq(s, a + 1, b)
  <1>1. /\ t \in Seq(Symbol) /\ Len(t) = IF a < b THEN b - a ELSE 0
        /\ \A i \in 0 .. Len(t) - 1 : At(t, i) = At(s, a + i)
    BY PieceIs
  <1> HIDE DEF t
  <1>2. Len(s) \in Nat /\ a \in Nat
    OBVIOUS
  <1>3. ASSUME NEW i \in Delimiters(t) PROVE FALSE
    <2>1. i \in 0 .. Len(t) - 1 /\ At(t, i) = "boundary" /\ LineStart(t, i)
      BY <1>1, DelimitersAre
    <2>2. a + i \in 0 .. Len(s) - 1 /\ a <= a + i /\ a + i < b
      BY <1>1, <1>2, <2>1
    <2>3. At(s, a + i) = "boundary"
      BY <1>1, <2>1
    <2>4. LineStart(s, a + i)
      <3>1. CASE i = 0
        <4>1. a + i = a
          BY <1>2, <3>1
        <4> QED
          BY <4>1
      <3>2. CASE i # 0
        <4>1. i - 1 \in 0 .. Len(t) - 1
          BY <1>2, <2>1, <3>2
        <4>2. At(t, i - 1) = "newline"
          BY <2>1, <3>2 DEF LineStart
        <4>3. PICK q \in Int : q = a + i
          BY <2>2
        <4>4. a + (i - 1) = q - 1
          BY <1>2, <2>1, <4>3
        <4>5. At(s, q - 1) = "newline"
          BY <1>1, <4>1, <4>2, <4>4
        <4>6. LineStart(s, q)
          BY <4>5 DEF LineStart
        <4> QED
          BY <4>3, <4>6
      <3> QED
        BY <3>1, <3>2
    <2>5. a + i \in Delimiters(s)
      BY <2>2, <2>3, <2>4 DEF Delimiters
    <2> QED
      BY <2>2, <2>5
  <1>4. Clean(t)
    BY <1>1, <1>3 DEF Clean
  <1> QED
    BY <1>4 DEF t

\* What parse() makes parts of, and the preamble, have no delimiters.
LEMMA CleanTexts ==
    ASSUME NEW s \in Seq(Symbol)
    PROVE  Clean(PreambleByLines(s)) /\ \A p \in WithPart(s) : Clean(TextOf(s, p))
  <1>0. /\ Len(s) \in Nat
        /\ Delimiters(s) \in SUBSET (0 .. Len(s)) /\ Opening(s) \subseteq Delimiters(s)
        /\ Closing(s) \subseteq Delimiters(s) /\ WithPart(s) \subseteq Opening(s)
        /\ \A p \in Delimiters(s) : p \in 0 .. Len(s) - 1
    BY DelimitersAre
  <1>1. Clean(PreambleByLines(s))
    <2>1. CASE Opening(s) = {}
      <3>1. Delimiters(<<>>) = {}
        BY DEF Delimiters
      <3>2. <<>> \in Seq(Symbol)
        OBVIOUS
      <3> QED
        BY <2>1, <3>1, <3>2 DEF PreambleByLines, Clean
    <2>2. CASE Opening(s) # {}
      <3> DEFINE m == Min(Opening(s))
      <3>1. m \in Opening(s) /\ \A q \in Opening(s) : m <= q
        <4>1. Opening(s) \in SUBSET (0 .. Len(s))
          BY <1>0
        <4> QED
          BY <1>0, <2>2, <4>1, LeastOne
      <3>2. PreambleByLines(s) = SubSeq(s, 1, m - 1)
        BY <2>2 DEF PreambleByLines
      <3> HIDE DEF m
      <3>3. m \in 0 .. Len(s) - 1 /\ m - 1 \in Int /\ m - 1 <= Len(s) /\ 0 \in 0 .. Len(s)
        BY <1>0, <3>1
      <3>4. \A q \in Delimiters(s) : ~(0 <= q /\ q < m - 1)
        <4> SUFFICES ASSUME NEW q \in Delimiters(s), q < m - 1 PROVE FALSE
          OBVIOUS
        <4>1. \A r \in Closing(s) : m < r
          BY <3>1 DEF Opening
        <4>2. \A r \in Closing(s) : q < r
          BY <1>0, <3>3, <4>1
        <4>3. q \in Opening(s)
          BY <4>2 DEF Opening
        <4> QED
          BY <1>0, <3>1, <3>3, <4>3
      <3>5. LineStart(s, 0)
        BY DEF LineStart
      <3>6. Clean(SubSeq(s, 0 + 1, m - 1))
        BY <3>3, <3>4, <3>5, CleanPiece
      <3>7. 0 + 1 = 1
        OBVIOUS
      <3> QED
        BY <3>2, <3>6, <3>7
    <2> QED
      BY <2>1, <2>2
  <1>2. ASSUME NEW p \in WithPart(s) PROVE Clean(TextOf(s, p))
    <2> DEFINE a == TextStart(s, p)
               b == TextEnd(s, p)
               eol == IndexOf(s, "newline", p + 1)
               later == {q \in Delimiters(s) : q > p}
    <2>1. /\ p \in Nat /\ a <= b /\ a = IF eol = -1 THEN Len(s) + 1 ELSE eol + 1
      BY <1>0, StartOfText DEF WithPart
    <2>2. b = IF later = {} THEN Len(s) ELSE Min(later) - 1
      BY DEF TextEnd
    <2>3. later # {} => Min(later) \in later /\ \A q \in later : Min(later) <= q
      <3>1. later \in SUBSET (0 .. Len(s))
        BY <1>0
      <3> HIDE DEF later
      <3> QED
        BY <1>0, <3>1, LeastOne
    <2>4. b \in Int /\ b <= Len(s) /\ \A q \in later : b < q
      <3>1. CASE later = {}
        BY <1>0, <2>2, <3>1
      <3>2. CASE later # {}
        <4> DEFINE l == Min(later)
        <4>1. l \in 0 .. Len(s) /\ b = l - 1 /\ \A q \in later : l <= q /\ q \in Nat
          BY <1>0, <2>2, <2>3, <3>2
        <4> HIDE DEF l, b, later
        <4> QED
          BY <1>0, <4>1
      <3> QED
        BY <3>1, <3>2
    <2>5. eol = -1 \/ (eol \in p + 1 .. Len(s) - 1 /\ At(s, eol) = "newline")
      BY <1>0, <2>1, IndexOfFinds
    <2> HIDE DEF a, b, eol
    <2>6. /\ a \in 0 .. Len(s) /\ a > p /\ eol = a - 1 /\ At(s, a - 1) = "newline"
      BY <1>0, <2>1, <2>4, <2>5
    <2>7. \A q \in Delimiters(s) : ~(a <= q /\ q < b)
      <3> SUFFICES ASSUME NEW q \in Delimiters(s), a <= q, q < b PROVE FALSE
        OBVIOUS
      <3>1. q \in later
        BY <1>0, <2>1, <2>6
      <3>2. b < q /\ q \in Nat
        BY <1>0, <2>4, <3>1
      <3> QED
        BY <2>4, <3>2
    <2>8. LineStart(s, a)
      BY <2>6 DEF LineStart
    <2>9. Clean(SubSeq(s, a + 1, b))
      BY <2>4, <2>6, <2>7, <2>8, CleanPiece
    <2> QED
      BY <2>9 DEF TextOf, a, b
  <1> QED
    BY <1>1, <1>2

\* A text put behind another one.
LEMMA Joined ==
    ASSUME NEW h \in Seq(Symbol), NEW t \in Seq(Symbol)
    PROVE  /\ h \o t \in Seq(Symbol) /\ Len(h \o t) = Len(h) + Len(t)
           /\ \A i \in 0 .. Len(h) - 1 : At(h \o t, i) = At(h, i)
           /\ \A i \in 0 .. Len(t) - 1 : At(h \o t, Len(h) + i) = At(t, i)
  <1> DEFINE u == h \o t
             L == Len(h)
  <1>0. L \in Nat /\ Len(t) \in Nat
    OBVIOUS
  <1>1. /\ u \in Seq(Symbol) /\ Len(u) = L + Len(t)
        /\ \A i \in 1 .. L + Len(t) : u[i] = IF i <= L THEN h[i] ELSE t[i - L]
    BY ConcatProperties
  <1> HIDE DEF u
  <1>2. \A i \in 0 .. L - 1 : At(u, i) = At(h, i)
    <2> SUFFICES ASSUME NEW i \in 0 .. L - 1 PROVE At(u, i) = At(h, i)
      OBVIOUS
    <2>1. i + 1 \in 1 .. L + Len(t) /\ i + 1 <= L
      BY <1>0
    <2> QED
      BY <1>1, <2>1 DEF At
  <1>3. \A i \in 0 .. Len(t) - 1 : At(u, L + i) = At(t, i)
    <2> SUFFICES ASSUME NEW i \in 0 .. Len(t) - 1 PROVE At(u, L + i) = At(t, i)
      OBVIOUS
    <2>1. L + i + 1 \in 1 .. L + Len(t) /\ ~(L + i + 1 <= L) /\ L + i + 1 - L = i + 1
      BY <1>0
    <2> QED
      BY <1>1, <2>1 DEF At
  <1> QED
    BY <1>1, <1>2, <1>3 DEF u

\* Delimiter p of s is one of the longer text t as well, before d, with its text.
Kept(s, t, p, d) ==
    /\ p \in Delimiters(t) /\ p < d /\ p + 1 < Len(t) /\ At(t, p + 1) = "newline"
    /\ TextStart(t, p) = p + 2 /\ TextEnd(t, p) = TextEnd(s, p) /\ TextOf(t, p) = TextOf(s, p)

\* Text that starts with a newline and a boundary, put behind s: the delimiters of
\* s stay, with the same texts, and the next one is that boundary.
LEMMA Extend ==
    ASSUME NEW s \in Seq(Symbol), NEW u \in Seq(Symbol), Len(u) >= 2,
           u[1] = "newline", u[2] = "boundary",
           \A p \in Delimiters(s) : p + 1 < Len(s) /\ At(s, p + 1) = "newline"
    PROVE  LET t == s \o u
               d == Len(s) + 1
           IN  /\ t \in Seq(Symbol) /\ Len(t) = Len(s) + Len(u)
               /\ \A i \in 0 .. Len(s) - 1 : At(t, i) = At(s, i)
               /\ \A i \in 0 .. Len(u) - 1 : At(t, Len(s) + i) = At(u, i)
               /\ d \in Delimiters(t)
               /\ \A q \in Delimiters(t) : q \in Delimiters(s) \/ q >= d
               /\ \A p \in Delimiters(s) : Kept(s, t, p, d)
  <1> DEFINE t == s \o u
             L == Len(s)
             d == L + 1
  <1>0. L \in Nat /\ Len(u) \in Nat
    OBVIOUS
  <1>1. t \in Seq(Symbol) /\ Len(t) = L + Len(u)
    BY Joined
  <1>2. \A i \in 0 .. L - 1 : At(t, i) = At(s, i)
    BY Joined
  <1>3. \A i \in 0 .. Len(u) - 1 : At(t, L + i) = At(u, i)
    BY Joined
  <1> HIDE DEF t
  <1>4. At(t, L) = "newline" /\ At(t, L + 1) = "boundary"
    <2>1. 0 \in 0 .. Len(u) - 1 /\ 1 \in 0 .. Len(u) - 1 /\ L + 0 = L /\ 0 + 1 = 1 /\ 1 + 1 = 2
      BY <1>0
    <2>2. At(u, 0) = "newline" /\ At(u, 1) = "boundary"
      BY <2>1 DEF At
    <2> QED
      BY <1>3, <2>1, <2>2
  <1>5. \A p \in Delimiters(s) : /\ p \in 0 .. L - 1 /\ At(s, p) = "boundary" /\ LineStart(s, p)
    BY DelimitersAre
  <1> HIDE DEF L
  <1>6. d \in Delimiters(t)
    <2>1. d \in 0 .. Len(t) - 1 /\ d - 1 = L /\ d \in Int
      BY <1>0, <1>1
    <2>2. LineStart(t, d)
      BY <1>4, <2>1 DEF LineStart
    <2> QED
      BY <1>4, <2>1, <2>2 DEF Delimiters
  <1>7. \A p \in 0 .. L - 1 : LineStart(t, p) <=> LineStart(s, p)
    <2> SUFFICES ASSUME NEW p \in 0 .. L - 1 PROVE LineStart(t, p) <=> LineStart(s, p)
      OBVIOUS
    <2>1. CASE p = 0
      BY <2>1 DEF LineStart
    <2>2. CASE p # 0
      <3>1. p - 1 \in 0 .. L - 1
        BY <1>0, <2>2
      <3>2. At(t, p - 1) = At(s, p - 1)
        BY <1>2, <3>1
      <3> QED
        BY <2>2, <3>2 DEF LineStart
    <2> QED
      BY <2>1, <2>2
  <1>8. \A p \in 0 .. L - 1 : p \in Delimiters(t) <=> p \in Delimiters(s)
    <2> SUFFICES ASSUME NEW p \in 0 .. L - 1 PROVE p \in Delimiters(t) <=> p \in Delimiters(s)
      OBVIOUS
    <2>1. p \in 0 .. Len(t) - 1 /\ p \in 0 .. Len(s) - 1
      BY <1>0, <1>1 DEF L
    <2> QED
      BY <1>2, <1>7, <2>1 DEF Delimiters
  <1>9. \A q \in Delimiters(t) : q \in Delimiters(s) \/ q >= d
    <2> SUFFICES ASSUME NEW q \in Delimiters(t) PROVE q \in Delimiters(s) \/ q >= d
      OBVIOUS
    <2>1. q \in 0 .. Len(t) - 1 /\ At(t, q) = "boundary"
      BY <1>1, DelimitersAre
    <2>2. q # L
      BY <1>4, <2>1
    <2>3. q \in 0 .. L - 1 \/ q >= d
      BY <1>0, <2>1, <2>2
    <2> QED
      BY <1>8, <2>3
  <1>10. ASSUME NEW p \in Delimiters(s)
         PROVE  Kept(s, t, p, d)
    <2>1. p \in 0 .. L - 1 /\ p + 1 \in 0 .. L - 1 /\ At(s, p + 1) = "newline"
      BY <1>0, <1>5 DEF L
    <2>2. p \in Delimiters(t) /\ p < d /\ p + 1 < Len(t) /\ At(t, p + 1) = "newline"
      BY <1>0, <1>1, <1>2, <1>8, <2>1
    <2>3. \A x \in {s, t} : x \in Seq(Symbol) /\ p \in Delimiters(x) /\ p + 1 \in 0 .. Len(x) - 1
                            /\ At(x, p + 1) = "newline" => TextStart(x, p) = p + 2
      <3> SUFFICES ASSUME NEW x \in Seq(Symbol), p \in Delimiters(x), p + 1 \in 0 .. Len(x) - 1,
                          At(x, p + 1) = "newline"
                   PROVE  TextStart(x, p) = p + 2
        OBVIOUS
      <3> DEFINE eol == IndexOf(x, "newline", p + 1)
      <3>1. TextStart(x, p) = IF eol = -1 THEN Len(x) + 1 ELSE eol + 1
        BY StartOfText
      <3>2. p + 1 \in Nat /\ p + 1 \in p + 1 .. Len(x) - 1
        BY <2>1
      <3>3. eol \in p + 1 .. Len(x) - 1 /\ eol <= p + 1
        BY <3>2, IndexOfFirst
      <3> HIDE DEF eol
      <3> QED
        BY <2>1, <3>1, <3>3
    <2>4. TextStart(t, p) = p + 2 /\ TextStart(s, p) = p + 2
      <3>1. p + 1 \in 0 .. Len(t) - 1 /\ p + 1 \in 0 .. Len(s) - 1
        BY <1>0, <1>1, <2>1 DEF L
      <3> QED
        BY <1>1, <2>1, <2>2, <2>3, <3>1
    <2>5. TextEnd(t, p) = TextEnd(s, p) /\ TextEnd(s, p) \in -1 .. L
      <3> DEFINE later == {q \in Delimiters(s) : q > p}
                 laterT == {q \in Delimiters(t) : q > p}
      <3>1. /\ TextEnd(s, p) = IF later = {} THEN L ELSE Min(later) - 1
            /\ TextEnd(t, p) = IF laterT = {} THEN Len(t) ELSE Min(laterT) - 1
        BY DEF TextEnd, L
      <3>2. later \in SUBSET (0 .. L) /\ laterT \in SUBSET (0 .. Len(t)) /\ Len(t) \in Nat
        BY <1>1, DelimitersAre DEF L
      <3>3. d \in laterT /\ \A q \in laterT : q \in later \/ q >= d
        BY <1>6, <1>9, <2>2, <1>0, <2>1
      <3>4. \A q \in later : q \in laterT /\ q < d /\ q \in 0 .. L - 1
        BY <1>0, <1>5, <1>8
      <3> HIDE DEF later, laterT
      <3>5. CASE later = {}
        <4>1. Min(laterT) = d
          BY <3>2, <3>3, <3>5, MinIs
        <4> QED
          BY <1>0, <3>1, <3>3, <3>5, <4>1
      <3>6. CASE later # {}
        <4> DEFINE l == Min(later)
        <4>1. l \in later /\ \A q \in later : l <= q
          BY <1>0, <3>2, <3>6, LeastOne
        <4> HIDE DEF l
        <4>2. l \in laterT /\ \A q \in laterT : l <= q
          <5>1. l \in laterT /\ l < d /\ l \in 0 .. L - 1
            BY <3>4, <4>1
          <5>2. ASSUME NEW q \in laterT PROVE l <= q
            <6>1. q \in later \/ q >= d
              BY <3>3
            <6>2. q \in Nat
              BY <3>2
            <6> QED
              BY <1>0, <4>1, <5>1, <6>1, <6>2
          <5> QED
            BY <5>1, <5>2
        <4>3. Min(laterT) = l
          BY <3>2, <4>2, MinIs
        <4>4. l \in 0 .. L - 1
          BY <3>4, <4>1
        <4>5. Min(later) = l
          BY DEF l
        <4> QED
          BY <1>0, <3>1, <3>3, <3>6, <4>3, <4>4, <4>5
      <3> QED
        BY <3>5, <3>6
    <2>6. TextOf(t, p) = TextOf(s, p)
      <3> DEFINE a == p + 2
                 b == TextEnd(s, p)
      <3>1. TextOf(t, p) = SubSeq(t, a + 1, b) /\ TextOf(s, p) = SubSeq(s, a + 1, b)
        BY <2>4, <2>5 DEF TextOf
      <3>2. /\ a \in 0 .. Len(s) /\ b \in Int /\ b <= Len(s) /\ a \in 0 .. Len(t) /\ b <= Len(t)
        BY <1>0, <1>1, <2>1, <2>5 DEF L
      <3> HIDE DEF a, b
      <3> DEFINE x == SubSeq(t, a + 1, b)
                 y == SubSeq(s, a + 1, b)
      <3>3. /\ y \in Seq(Symbol) /\ Len(y) = IF a < b THEN b - a ELSE 0
            /\ \A i \in 0 .. Len(y) - 1 : At(y, i) = At(s, a + i)
        BY <3>2, PieceIs
      <3>4. /\ x \in Seq(Symbol) /\ Len(x) = IF a < b THEN b - a ELSE 0
            /\ \A i \in 0 .. Len(x) - 1 : At(x, i) = At(t, a + i)
        BY <1>1, <3>2, PieceIs
      <3> HIDE DEF x, y
      <3>5. \A i \in 0 .. Len(x) - 1 : At(x, i) = At(y, i)
        <4> SUFFICES ASSUME NEW i \in 0 .. Len(x) - 1 PROVE At(x, i) = At(y, i)
          OBVIOUS
        <4>1. a + i \in 0 .. L - 1 /\ i \in 0 .. Len(y) - 1
          BY <1>0, <3>2, <3>3, <3>4 DEF L
        <4> QED
          BY <1>2, <3>3, <3>4, <4>1
      <3>6. x = y
        BY <3>3, <3>4, <3>5, SameText
      <3> QED
        BY <3>1, <3>6 DEF x, y
    <2> QED
      BY <2>2, <2>4, <2>5, <2>6 DEF Kept
  <1> QED
    BY <1>1, <1>2, <1>3, <1>6, <1>9, <1>10 DEF t, L

\* What encodedBody() puts before a part.
Lead == <<"newline", "boundary", "newline">>

\* A part: the first line is the boundary's, the text starts on the next one.
LEMMA BlockIs ==
    ASSUME NEW t \in Seq(Symbol)
    PROVE  LET u == Lead \o t
           IN  /\ u \in Seq(Symbol) /\ Len(u) = Len(t) + 3
               /\ u[1] = "newline" /\ u[2] = "boundary"
               /\ At(u, 2) = "newline" /\ \A i \in 0 .. Len(t) - 1 : At(u, 3 + i) = At(t, i)
  <1> DEFINE u == Lead \o t
  <1>1. Lead \in Seq(Symbol) /\ Len(Lead) = 3 /\ Len(t) \in Nat
    BY DEF Lead, Symbol
  <1>2. /\ u \in Seq(Symbol) /\ Len(u) = 3 + Len(t)
        /\ \A i \in 0 .. 3 - 1 : At(u, i) = At(Lead, i)
        /\ \A i \in 0 .. Len(t) - 1 : At(u, 3 + i) = At(t, i)
    <2>1. /\ u \in Seq(Symbol) /\ Len(u) = Len(Lead) + Len(t)
          /\ \A i \in 0 .. Len(Lead) - 1 : At(u, i) = At(Lead, i)
          /\ \A i \in 0 .. Len(t) - 1 : At(u, Len(Lead) + i) = At(t, i)
      BY <1>1, Joined
    <2> HIDE DEF u
    <2> QED
      BY <1>1, <2>1
  <1> HIDE DEF u
  <1>3. 0 \in 0 .. 3 - 1 /\ 1 \in 0 .. 3 - 1 /\ 2 \in 0 .. 3 - 1 /\ 0 + 1 = 1 /\ 1 + 1 = 2 /\ 2 + 1 = 3
    OBVIOUS
  <1>4. At(Lead, 0) = "newline" /\ At(Lead, 1) = "boundary" /\ At(Lead, 2) = "newline"
    BY <1>3 DEF At, Lead
  <1>5. At(u, 0) = "newline" /\ At(u, 1) = "boundary" /\ At(u, 2) = "newline"
    BY <1>2, <1>3, <1>4
  <1>6. u[1] = "newline" /\ u[2] = "boundary"
    BY <1>3, <1>5 DEF At
  <1> QED
    BY <1>1, <1>2, <1>5, <1>6 DEF u

\* One more part: its delimiter is the only new one, and has its text.
LEMMA NewBlock ==
    ASSUME NEW s \in Seq(Symbol), NEW x, Clean(x),
           \A p \in Delimiters(s) : p + 1 < Len(s) /\ At(s, p + 1) = "newline"
    PROVE  LET t == s \o (Lead \o x)
               d == Len(s) + 1
           IN  /\ Delimiters(t) = Delimiters(s) \cup {d}
               /\ d + 1 < Len(t) /\ At(t, d + 1) = "newline"
               /\ TextOf(t, d) = x /\ d + 2 <= TextEnd(t, d)
  <1> DEFINE u == Lead \o x
             t == s \o u
             L == Len(s)
             d == L + 1
  <1>0. x \in Seq(Symbol) /\ Delimiters(x) = {}
    BY DEF Clean
  <1>1. /\ u \in Seq(Symbol) /\ Len(u) = Len(x) + 3 /\ Len(x) \in Nat /\ L \in Nat
        /\ u[1] = "newline" /\ u[2] = "boundary" /\ At(u, 2) = "newline"
        /\ \A i \in 0 .. Len(x) - 1 : At(u, 3 + i) = At(x, i)
    BY <1>0, BlockIs
  <1> HIDE DEF u
  <1>2. /\ t \in Seq(Symbol) /\ Len(t) = L + Len(u)
        /\ \A i \in 0 .. Len(u) - 1 : At(t, L + i) = At(u, i)
        /\ d \in Delimiters(t)
        /\ \A q \in Delimiters(t) : q \in Delimiters(s) \/ q >= d
        /\ \A p \in Delimiters(s) : p \in Delimiters(t)
    <2>1. Len(u) >= 2
      BY <1>1
    <2> QED
      BY <1>1, <2>1, Extend DEF Kept
  <1> HIDE DEF t, L
  <1>3. At(t, L + 2) = "newline" /\ \A i \in 0 .. Len(x) - 1 : At(t, L + 3 + i) = At(x, i)
    <2>1. 2 \in 0 .. Len(u) - 1
      BY <1>1
    <2>2. At(t, L + 2) = "newline"
      BY <1>1, <1>2, <2>1
    <2>3. ASSUME NEW i \in 0 .. Len(x) - 1 PROVE At(t, L + 3 + i) = At(x, i)
      <3>1. 3 + i \in 0 .. Len(u) - 1
        BY <1>1
      <3>2. At(t, L + (3 + i)) = At(x, i)
        BY <1>1, <1>2, <3>1
      <3>3. L + (3 + i) = L + 3 + i
        BY <1>1
      <3> QED
        BY <3>2, <3>3
    <2> QED
      BY <2>2, <2>3
  <1>4. \A q \in Delimiters(t) : /\ q \in 0 .. Len(t) - 1 /\ At(t, q) = "boundary"
                                 /\ LineStart(t, q)
    BY <1>2, DelimitersAre
  <1>5. ASSUME NEW q \in Delimiters(t), q > d PROVE FALSE
    <2>1. q \in 0 .. Len(t) - 1 /\ At(t, q) = "boundary" /\ LineStart(t, q)
      BY <1>4
    <2>2. q # L + 2
      BY <1>3, <2>1
    <2>3. PICK i \in 0 .. Len(x) - 1 : q = L + 3 + i
      <3>1. q - (L + 3) \in 0 .. Len(x) - 1 /\ q = L + 3 + (q - (L + 3))
        BY <1>1, <1>2, <1>5, <2>1, <2>2
      <3> QED
        BY <3>1
    <2>4. At(x, i) = "boundary"
      BY <1>3, <2>1, <2>3
    <2>5. LineStart(x, i)
      <3>1. CASE i = 0
        BY <3>1 DEF LineStart
      <3>2. CASE i # 0
        <4>1. PICK j \in 0 .. Len(x) - 1 : j = i - 1
          BY <3>2
        <4>2. q # 0 /\ q - 1 = L + 3 + j
          BY <1>1, <2>3, <4>1
        <4>3. At(t, L + 3 + j) = "newline"
          BY <2>1, <4>2 DEF LineStart
        <4>4. At(x, j) = "newline"
          BY <1>3, <4>3
        <4> QED
          BY <4>1, <4>4 DEF LineStart
      <3> QED
        BY <3>1, <3>2
    <2>6. i \in Delimiters(x)
      BY <2>4, <2>5 DEF Delimiters
    <2> QED
      BY <1>0, <2>6
  <1>6. Delimiters(t) = Delimiters(s) \cup {d}
    <2>1. ASSUME NEW q \in Delimiters(t) PROVE q \in Delimiters(s) \/ q = d
      <3>1. q \in Int /\ d \in Int /\ (q \in Delimiters(s) \/ q >= d)
        BY <1>1, <1>2, <1>4
      <3> QED
        BY <1>5, <3>1
    <2> QED
      BY <1>2, <2>1
  <1>7. d + 1 < Len(t) /\ At(t, d + 1) = "newline"
    <2>1. d + 1 = L + 2 /\ d + 1 < Len(t)
      BY <1>1, <1>2
    <2> QED
      BY <1>3, <2>1
  <1>8. TextStart(t, d) = d + 2
    <2> DEFINE eol == IndexOf(t, "newline", d + 1)
    <2>1. TextStart(t, d) = IF eol = -1 THEN Len(t) + 1 ELSE eol + 1
      BY <1>2, StartOfText
    <2>2. d \in Nat /\ d + 1 \in Nat /\ d + 1 \in d + 1 .. Len(t) - 1 /\ Len(t) \in Nat
      BY <1>1, <1>2, <1>7
    <2>3. eol \in d + 1 .. Len(t) - 1 /\ eol <= d + 1
      BY <1>2, <1>7, <2>2, IndexOfFirst
    <2> HIDE DEF eol, d
    <2> QED
      BY <2>1, <2>2, <2>3
  <1>9. TextEnd(t, d) = Len(t)
    <2>1. {q \in Delimiters(t) : q > d} = {}
      BY <1>5
    <2> QED
      BY <2>1 DEF TextEnd
  <1>10. TextOf(t, d) = x
    <2> DEFINE a == d + 2
               y == SubSeq(t, a + 1, Len(t))
    <2>1. a = L + 3 /\ a \in 0 .. Len(t) /\ Len(t) \in Int /\ Len(t) <= Len(t)
          /\ Len(t) - a = Len(x)
      BY <1>1, <1>2
    <2>2. TextOf(t, d) = y
      BY <1>8, <1>9 DEF TextOf
    <2> HIDE DEF a, d
    <2>3. /\ y \in Seq(Symbol) /\ Len(y) = IF a < Len(t) THEN Len(t) - a ELSE 0
          /\ \A i \in 0 .. Len(y) - 1 : At(y, i) = At(t, a + i)
      BY <1>2, <2>1, PieceIs
    <2> HIDE DEF y
    <2>4. Len(y) = Len(x)
      BY <1>1, <2>1, <2>3
    <2>5. \A i \in 0 .. Len(y) - 1 : At(y, i) = At(x, i)
      BY <1>3, <2>1, <2>3, <2>4
    <2> QED
      BY <1>0, <2>2, <2>3, <2>4, <2>5, SameText
  <1>11. d + 2 <= TextEnd(t, d)
    BY <1>1, <1>2, <1>9
  <1> QED
    BY <1>6, <1>7, <1>10, <1>11 DEF t, u, L

\* s is pre and the first n of the texts ps, each behind a delimiter of its own.
Rebuilt(s, pre, ps, n) ==
    /\ s \in Seq(Symbol)
    /\ Len(pre) <= Len(s) /\ \A i \in 0 .. Len(pre) - 1 : At(s, i) = At(pre, i)
    /\ \A p \in Delimiters(s) : /\ p + 1 < Len(s) /\ At(s, p + 1) = "newline"
                                /\ p > Len(pre) /\ p + 2 <= TextEnd(s, p)
    /\ n > 0 => Len(pre) + 1 \in Delimiters(s)
    /\ \E k \in [1 .. n -> Delimiters(s)] :
          InOrder(k, Delimiters(s), n) /\ \A i \in 1 .. n : TextOf(s, k[i]) = ps[i]

LEMMA RebuiltNone ==
    ASSUME NEW pre, Clean(pre), NEW ps
    PROVE  Rebuilt(pre, pre, ps, 0)
  <1>1. pre \in Seq(Symbol) /\ Delimiters(pre) = {} /\ Len(pre) \in Nat
    BY DEF Clean
  <1>2. 1 .. 0 = {}
    OBVIOUS
  <1>3. InOrder(<<>>, {}, 0) /\ <<>> \in [1 .. 0 -> {}]
    BY <1>2 DEF InOrder
  <1>4. \E k \in [1 .. 0 -> Delimiters(pre)] :
            InOrder(k, Delimiters(pre), 0) /\ \A i \in 1 .. 0 : TextOf(pre, k[i]) = ps[i]
    BY <1>1, <1>2, <1>3
  <1>5. /\ Len(pre) <= Len(pre) /\ \A i \in 0 .. Len(pre) - 1 : At(pre, i) = At(pre, i)
        /\ ~(0 > 0)
    BY <1>1
  <1> QED
    BY <1>1, <1>4, <1>5, Zenon DEF Rebuilt

\* The next part.
LEMMA RebuiltMore ==
    ASSUME NEW s, NEW pre \in Seq(Symbol), NEW ps, NEW n \in Nat, Rebuilt(s, pre, ps, n),
           n = 0 => s = pre, Clean(ps[n + 1])
    PROVE  Rebuilt(s \o (Lead \o ps[n + 1]), pre, ps, n + 1)
  <1> DEFINE x == ps[n + 1]
             u == Lead \o x
             t == s \o u
             L == Len(s)
             d == L + 1
             D == Delimiters(s)
             m == n + 1
  <1>0. /\ s \in Seq(Symbol) /\ L \in Nat /\ Len(pre) \in Nat
        /\ Len(pre) <= L /\ \A i \in 0 .. Len(pre) - 1 : At(s, i) = At(pre, i)
        /\ \A p \in D : /\ p + 1 < L /\ At(s, p + 1) = "newline"
                        /\ p > Len(pre) /\ p + 2 <= TextEnd(s, p)
        /\ n > 0 => Len(pre) + 1 \in D
        /\ D \in SUBSET (0 .. L) /\ \A p \in D : p \in 0 .. L - 1
    <2>1. s \in Seq(Symbol)
      BY DEF Rebuilt
    <2> QED
      BY <2>1, DelimitersAre DEF Rebuilt
  <1>1. PICK k \in [1 .. n -> D] :
            InOrder(k, D, n) /\ \A i \in 1 .. n : TextOf(s, k[i]) = ps[i]
    BY DEF Rebuilt
  <1>2. /\ u \in Seq(Symbol) /\ Len(u) >= 2 /\ u[1] = "newline" /\ u[2] = "boundary"
    BY BlockIs DEF Clean
  <1>3. /\ Delimiters(t) = D \cup {d} /\ d + 1 < Len(t) /\ At(t, d + 1) = "newline"
        /\ TextOf(t, d) = x /\ d + 2 <= TextEnd(t, d)
    BY <1>0, NewBlock
  <1> HIDE DEF u
  <1>4. /\ t \in Seq(Symbol) /\ Len(t) = L + Len(u)
        /\ \A i \in 0 .. L - 1 : At(t, i) = At(s, i)
        /\ \A p \in D : /\ p < d /\ p + 1 < Len(t) /\ At(t, p + 1) = "newline"
                        /\ TextEnd(t, p) = TextEnd(s, p) /\ TextOf(t, p) = TextOf(s, p)
    <2>1. \A p \in Delimiters(s) : p + 1 < Len(s) /\ At(s, p + 1) = "newline"
      BY <1>0
    <2>2. /\ t \in Seq(Symbol) /\ Len(t) = Len(s) + Len(u)
          /\ \A i \in 0 .. Len(s) - 1 : At(t, i) = At(s, i)
          /\ \A p \in Delimiters(s) : Kept(s, t, p, Len(s) + 1)
      BY <1>0, <1>2, <2>1, Extend
    <2> QED
      BY <2>2 DEF Kept
  <1>5. Len(u) \in Nat
    BY <1>2
  <1> DEFINE h == [i \in 1 .. n + 1 |-> IF i <= n THEN k[i] ELSE d]
  <1> HIDE DEF t, D, L, x
  <1>6. d \in Nat /\ D \in SUBSET Nat /\ (n = 0 => L = Len(pre))
    BY <1>0 DEF L
  <1>7. InOrder(h, D \cup {d}, n + 1)
    BY <1>1, <1>4, <1>6, <1>0, OrderGrows
  <1>8. ASSUME NEW i \in 1 .. n + 1 PROVE TextOf(t, h[i]) = ps[i]
    <2>1. CASE i <= n
      <3>1. i \in 1 .. n /\ h[i] = k[i] /\ k[i] \in D
        BY <1>1, <2>1
      <3> QED
        BY <1>1, <1>4, <3>1
    <2>2. CASE i > n
      <3>1. i = n + 1 /\ h[i] = d
        BY <2>2
      <3> HIDE DEF h
      <3>2. ps[i] = x
        BY <3>1 DEF x
      <3> QED
        BY <1>3, <3>1, <3>2
    <2> QED
      BY <2>1, <2>2
  <1> HIDE DEF h
  <1>9. h \in [1 .. n + 1 -> D \cup {d}]
    BY <1>7 DEF InOrder
  <1>10. \E j \in [1 .. m -> Delimiters(t)] :
            InOrder(j, Delimiters(t), m) /\ \A i \in 1 .. m : TextOf(t, j[i]) = ps[i]
    BY <1>3, <1>7, <1>8, <1>9
  <1>11. \A p \in Delimiters(t) : /\ p + 1 < Len(t) /\ At(t, p + 1) = "newline"
                                  /\ p > Len(pre) /\ p + 2 <= TextEnd(t, p)
    <2> SUFFICES ASSUME NEW p \in Delimiters(t)
                 PROVE  /\ p + 1 < Len(t) /\ At(t, p + 1) = "newline"
                        /\ p > Len(pre) /\ p + 2 <= TextEnd(t, p)
      OBVIOUS
    <2>1. CASE p \in D
      BY <1>0, <1>4, <2>1
    <2>2. CASE p = d
      <3>1. d > Len(pre)
        BY <1>0
      <3> QED
        BY <1>3, <2>2, <3>1
    <2> QED
      BY <1>3, <2>1, <2>2
  <1>12. Len(pre) + 1 \in Delimiters(t)
    <2>1. CASE n = 0
      BY <1>3, <1>6, <2>1
    <2>2. CASE n > 0
      BY <1>0, <1>3, <2>2
    <2> QED
      BY <2>1, <2>2
  <1>13. Len(pre) <= Len(t) /\ \A i \in 0 .. Len(pre) - 1 : At(t, i) = At(pre, i)
    <2>1. Len(pre) <= Len(t)
      BY <1>0, <1>4, <1>5
    <2>2. \A i \in 0 .. Len(pre) - 1 : i \in 0 .. L - 1
      BY <1>0
    <2> QED
      BY <1>0, <1>4, <2>1, <2>2
  <1>14. Rebuilt(t, pre, ps, m)
    BY <1>4, <1>10, <1>11, <1>12, <1>13 DEF Rebuilt
  <1> QED
    BY <1>14 DEF t, u, x

\* FlattenSeq() by the texts so far.
LEMMA FlattenIs ==
    ASSUME NEW B, Len(B) \in Nat \ {0}
    PROVE  \E f : /\ f = [i \in 1 .. Len(B) |-> IF i = 1 THEN B[i] ELSE f[i - 1] \o B[i]]
                  /\ FlattenSeq(B) = f[Len(B)]
  <1> DEFINE N == Len(B)
             IsFlat(g, n) == g = [i \in 1 .. n |-> IF i = 1 THEN B[i] ELSE g[i - 1] \o B[i]]
             S == {n \in Nat : \E g : IsFlat(g, n)}
  <1>1. 0 \in S
    <2> DEFINE g == [i \in 1 .. 0 |-> 0]
    <2>1. 1 .. 0 = {} /\ 0 \in Nat
      OBVIOUS
    <2>2. IsFlat(g, 0)
      BY <2>1
    <2> HIDE DEF IsFlat, g
    <2> QED
      BY <2>1, <2>2
  <1>2. ASSUME NEW n \in S PROVE n + 1 \in S
    <2>1. n \in Nat
      OBVIOUS
    <2>2. PICK g : IsFlat(g, n)
      OBVIOUS
    <2> DEFINE next == IF n + 1 = 1 THEN B[n + 1] ELSE g[n] \o B[n + 1]
               h == [i \in 1 .. n + 1 |-> IF i = n + 1 THEN next ELSE g[i]]
    <2>3. ASSUME NEW i \in 1 .. n + 1
          PROVE  h[i] = IF i = 1 THEN B[i] ELSE h[i - 1] \o B[i]
      <3>1. CASE i = n + 1
        <4>1. h[i] = next
          BY <3>1
        <4>2. i # 1 => i - 1 = n /\ n \in 1 .. n + 1 /\ n # n + 1
          BY <2>1, <3>1
        <4>3. i # 1 => h[i - 1] = g[n]
          BY <4>2
        <4> HIDE DEF h
        <4> QED
          BY <3>1, <4>1, <4>3
      <3>2. CASE i # n + 1
        <4>1. i \in 1 .. n /\ h[i] = g[i]
          BY <2>1, <3>2
        <4>2. i # 1 => i - 1 \in 1 .. n + 1 /\ i - 1 # n + 1
          BY <2>1, <4>1
        <4>3. i # 1 => h[i - 1] = g[i - 1]
          BY <4>2
        <4> HIDE DEF h
        <4>4. g[i] = IF i = 1 THEN B[i] ELSE g[i - 1] \o B[i]
          BY <2>2, <4>1
        <4> QED
          BY <4>1, <4>3, <4>4
      <3> QED
        BY <3>1, <3>2
    <2>4. h = [i \in 1 .. n + 1 |-> h[i]]
      OBVIOUS
    <2> HIDE DEF h
    <2>5. IsFlat(h, n + 1)
      BY <2>3, <2>4
    <2> HIDE DEF IsFlat
    <2> QED
      BY <2>1, <2>5
  <1>3. S = Nat
    <2> HIDE DEF S
    <2>1. S \in SUBSET Nat
      BY DEF S
    <2> QED
      BY <1>1, <1>2, <2>1, SetInduction
  <1>4. N \in S
    BY <1>3
  <1> DEFINE f == CHOOSE f : IsFlat(f, N)
  <1>5. IsFlat(f, N)
    <2>1. \E g : IsFlat(g, N)
      BY <1>4
    <2> HIDE DEF IsFlat
    <2> QED
      BY <2>1
  <1>6. FlattenSeq(B) = f[N]
    BY DEF FlattenSeq
  <1> HIDE DEF f
  <1> QED
    BY <1>5, <1>6

\* Concatenation is associative.
LEMMA Regroup ==
    ASSUME NEW a \in Seq(Symbol), NEW b \in Seq(Symbol), NEW c \in Seq(Symbol)
    PROVE  a \o (b \o c) = (a \o b) \o c
  <1>1. (a \o b) \o c = a \o (b \o c)
    BY ConcatAssociative
  <1> QED
    BY <1>1, Zenon

\* What encodedBody() puts together is the preamble and the parts.
LEMMA AssembledIs ==
    ASSUME NEW pre, Clean(pre), NEW ps \in Seq(Seq(Symbol)), ps # <<>>,
           \A i \in 1 .. Len(ps) : Clean(ps[i])
    PROVE  LET B == [i \in DOMAIN ps |-> <<"newline", "boundary", "newline">> \o ps[i]]
           IN  FlattenSeq(B) \in Seq(Symbol) /\ Rebuilt(pre \o FlattenSeq(B), pre, ps, Len(ps))
  <1> DEFINE N == Len(ps)
             B == [i \in DOMAIN ps |-> <<"newline", "boundary", "newline">> \o ps[i]]
  <1>1. N \in Nat \ {0} /\ DOMAIN ps = 1 .. N
    OBVIOUS
  <1>2. Len(B) = N /\ \A i \in 1 .. N : B[i] = Lead \o ps[i]
    <2>1. B = [i \in 1 .. N |-> <<"newline", "boundary", "newline">> \o ps[i]]
      BY <1>1
    <2>2. \A i \in 1 .. N : B[i] = Lead \o ps[i]
      BY <2>1 DEF Lead
    <2>3. DOMAIN B = 1 .. N
      BY <2>1
    <2> HIDE DEF B
    <2>4. Len(B) = N
      BY <1>1, <2>3
    <2> QED
      BY <2>2, <2>4
  <1>3. \A i \in 1 .. N : B[i] \in Seq(Symbol)
    <2> HIDE DEF B
    <2> QED
      BY <1>2, BlockIs DEF Clean
  <1> HIDE DEF B
  <1>4. PICK f : /\ f = [i \in 1 .. N |-> IF i = 1 THEN B[i] ELSE f[i - 1] \o B[i]]
                 /\ FlattenSeq(B) = f[N]
    BY <1>1, <1>2, FlattenIs
  <1> HIDE DEF N
  <1> DEFINE So(n) == f[n] \in Seq(Symbol) /\ Rebuilt(pre \o f[n], pre, ps, n)
             S == {n \in Nat : n = 0 \/ n > N \/ So(n)}
  <1>5. pre \in Seq(Symbol)
    BY DEF Clean
  <1>6. ASSUME NEW n \in S PROVE n + 1 \in S
    <2>1. n \in Nat /\ (n = 0 \/ n > N \/ So(n))
      OBVIOUS
    <2> HIDE DEF So
    <2>2. CASE n + 1 > N
      BY <2>1, <2>2
    <2>3. CASE n = 0
      <3>1. 1 \in 1 .. N /\ n + 1 = 1
        BY <1>1, <2>3
      <3>2. f[1] = Lead \o ps[1] /\ f[1] \in Seq(Symbol)
        BY <1>2, <1>3, <1>4, <3>1
      <3>3. Rebuilt(pre, pre, ps, n) /\ Clean(ps[n + 1])
        BY <2>3, <3>1, RebuiltNone DEF N
      <3>4. Rebuilt(pre \o (Lead \o ps[n + 1]), pre, ps, n + 1)
        BY <1>5, <2>1, <3>3, RebuiltMore
      <3>5. So(n + 1)
        BY <3>1, <3>2, <3>4 DEF So
      <3> QED
        BY <2>1, <3>5
    <2>4. CASE n # 0 /\ ~(n + 1 > N)
      <3>1. n \in 1 .. N /\ n + 1 \in 1 .. N /\ n + 1 # 1 /\ n + 1 - 1 = n /\ ~(n > N)
        BY <1>1, <2>1, <2>4
      <3>2. f[n] \in Seq(Symbol) /\ Rebuilt(pre \o f[n], pre, ps, n)
        BY <2>1, <2>4, <3>1 DEF So
      <3>3. PICK m \in Nat : m = n + 1
        BY <2>1
      <3>4. m \in 1 .. N /\ m # 1 /\ m - 1 = n
        BY <3>1, <3>3
      <3>5. f[m] = f[n] \o B[m]
        BY <1>4, <3>4
      <3>6. B[m] \in Seq(Symbol) /\ B[m] = Lead \o ps[m]
        BY <1>2, <1>3, <3>4
      <3>7. f[m] \in Seq(Symbol)
        BY <3>2, <3>5, <3>6, ConcatProperties
      <3>8. pre \o f[m] = (pre \o f[n]) \o (Lead \o ps[m])
        <4>1. \A a, b \in Seq(Symbol) : pre \o (a \o b) = (pre \o a) \o b
          BY <1>5, Regroup
        <4>2. pre \o (f[n] \o B[m]) = (pre \o f[n]) \o B[m]
          BY <3>2, <3>6, <4>1
        <4> QED
          BY <3>5, <3>6, <4>2
      <3>9. Clean(ps[n + 1])
        BY <3>1 DEF N
      <3>10. Rebuilt((pre \o f[n]) \o (Lead \o ps[n + 1]), pre, ps, n + 1)
        BY <1>5, <2>1, <2>4, <3>2, <3>9, RebuiltMore
      <3>11. So(n + 1)
        BY <3>3, <3>7, <3>8, <3>10 DEF So
      <3> QED
        BY <2>1, <3>11
    <2> QED
      BY <2>2, <2>3, <2>4
  <1>7. S = Nat
    <2>1. S \in SUBSET Nat /\ 0 \in S
      OBVIOUS
    <2> HIDE DEF S
    <2> QED
      BY <1>6, <2>1, SetInduction
  <1>8. So(N)
    <2>1. N \in S
      BY <1>1, <1>7
    <2> HIDE DEF So
    <2> QED
      BY <1>1, <2>1
  <1> QED
    BY <1>4, <1>8 DEF N, B

\* The end of a multipart: what encodedBody() puts behind the parts.
Trail == <<"newline", "boundary", "dash", "dash", "newline">>

LEMMA TrailIs ==
    ASSUME NEW epi \in Seq(Symbol)
    PROVE  LET u == Trail \o epi
           IN  /\ u \in Seq(Symbol) /\ Len(u) = Len(epi) + 5
               /\ u[1] = "newline" /\ u[2] = "boundary"
               /\ At(u, 2) = "dash" /\ At(u, 3) = "dash" /\ At(u, 4) = "newline"
               /\ \A i \in 0 .. Len(epi) - 1 : At(u, 5 + i) = At(epi, i)
  <1> DEFINE u == Trail \o epi
  <1>1. Trail \in Seq(Symbol) /\ Len(Trail) = 5 /\ Len(epi) \in Nat
    BY DEF Trail, Symbol
  <1>2. /\ u \in Seq(Symbol) /\ Len(u) = 5 + Len(epi)
        /\ \A i \in 0 .. 5 - 1 : At(u, i) = At(Trail, i)
        /\ \A i \in 0 .. Len(epi) - 1 : At(u, 5 + i) = At(epi, i)
    <2>1. /\ u \in Seq(Symbol) /\ Len(u) = Len(Trail) + Len(epi)
          /\ \A i \in 0 .. Len(Trail) - 1 : At(u, i) = At(Trail, i)
          /\ \A i \in 0 .. Len(epi) - 1 : At(u, Len(Trail) + i) = At(epi, i)
      BY <1>1, Joined
    <2> HIDE DEF u
    <2> QED
      BY <1>1, <2>1
  <1> HIDE DEF u
  <1>3. /\ 0 \in 0 .. 5 - 1 /\ 1 \in 0 .. 5 - 1 /\ 2 \in 0 .. 5 - 1 /\ 3 \in 0 .. 5 - 1
        /\ 4 \in 0 .. 5 - 1
        /\ 0 + 1 = 1 /\ 1 + 1 = 2 /\ 2 + 1 = 3 /\ 3 + 1 = 4 /\ 4 + 1 = 5
    OBVIOUS
  <1>4. /\ At(Trail, 0) = "newline" /\ At(Trail, 1) = "boundary" /\ At(Trail, 2) = "dash"
        /\ At(Trail, 3) = "dash" /\ At(Trail, 4) = "newline"
    BY <1>3 DEF At, Trail
  <1>5. /\ At(u, 0) = "newline" /\ At(u, 1) = "boundary" /\ At(u, 2) = "dash"
        /\ At(u, 3) = "dash" /\ At(u, 4) = "newline"
    BY <1>2, <1>3, <1>4
  <1>6. u[1] = "newline" /\ u[2] = "boundary"
    BY <1>3, <1>5 DEF At
  <1> QED
    BY <1>1, <1>2, <1>5, <1>6 DEF u

\* Read again: the delimiters of the parts, the closing one and the text after it.
LEMMA ReadAgain ==
    ASSUME NEW s, NEW pre \in Seq(Symbol), NEW ps \in Seq(Seq(Symbol)), ps # <<>>,
           Rebuilt(s, pre, ps, Len(ps)), NEW epi \in Seq(Symbol)
    PROVE  LET t == s \o (Trail \o epi)
           IN  /\ PartsByLines(t) = ps /\ PreambleByLines(t) = pre
               /\ EpilogueByLines(t) = epi
  <1> DEFINE u == Trail \o epi
             t == s \o u
             L == Len(s)
             d == L + 1
             n == Len(ps)
             D == Delimiters(s)
  <1>0. /\ s \in Seq(Symbol) /\ L \in Nat /\ Len(pre) \in Nat /\ n \in Nat /\ n > 0
        /\ Len(pre) <= L /\ \A i \in 0 .. Len(pre) - 1 : At(s, i) = At(pre, i)
        /\ \A p \in D : /\ p + 1 < L /\ At(s, p + 1) = "newline"
                        /\ p > Len(pre) /\ p + 2 <= TextEnd(s, p)
        /\ Len(pre) + 1 \in D
        /\ D \in SUBSET (0 .. L) /\ \A p \in D : p \in 0 .. L - 1
    <2>1. s \in Seq(Symbol) /\ n \in Nat /\ n > 0
      BY DEF Rebuilt
    <2> QED
      BY <2>1, DelimitersAre DEF Rebuilt
  <1>1. PICK k \in [1 .. n -> D] :
            InOrder(k, D, n) /\ \A i \in 1 .. n : TextOf(s, k[i]) = ps[i]
    BY DEF Rebuilt
  <1>2. /\ u \in Seq(Symbol) /\ Len(u) = Len(epi) + 5 /\ Len(epi) \in Nat
        /\ u[1] = "newline" /\ u[2] = "boundary"
        /\ At(u, 2) = "dash" /\ At(u, 3) = "dash" /\ At(u, 4) = "newline"
        /\ \A i \in 0 .. Len(epi) - 1 : At(u, 5 + i) = At(epi, i)
    <2>1. Len(epi) \in Nat
      OBVIOUS
    <2> QED
      BY <2>1, TrailIs, Zenon
  <1> HIDE DEF u
  <1>3. /\ t \in Seq(Symbol) /\ Len(t) = L + Len(u)
        /\ \A i \in 0 .. L - 1 : At(t, i) = At(s, i)
        /\ \A i \in 0 .. Len(u) - 1 : At(t, L + i) = At(u, i)
        /\ d \in Delimiters(t)
        /\ \A q \in Delimiters(t) : q \in D \/ q >= d
        /\ \A p \in D : /\ p \in Delimiters(t) /\ p < d /\ At(t, p + 1) = "newline"
                        /\ TextStart(t, p) = p + 2
                        /\ TextEnd(t, p) = TextEnd(s, p) /\ TextOf(t, p) = TextOf(s, p)
    <2>1. \A p \in Delimiters(s) : p + 1 < Len(s) /\ At(s, p + 1) = "newline"
      BY <1>0
    <2>2. /\ s \in Seq(Symbol) /\ u \in Seq(Symbol) /\ Len(u) >= 2
          /\ u[1] = "newline" /\ u[2] = "boundary"
      BY <1>0, <1>2
    <2>3. /\ t \in Seq(Symbol) /\ Len(t) = L + Len(u)
          /\ \A i \in 0 .. L - 1 : At(t, i) = At(s, i)
          /\ \A i \in 0 .. Len(u) - 1 : At(t, L + i) = At(u, i)
      BY <2>1, <2>2, Extend
    <2>4. /\ d \in Delimiters(t) /\ \A q \in Delimiters(t) : q \in D \/ q >= d
          /\ \A p \in D : Kept(s, t, p, d)
      BY <2>1, <2>2, Extend
    <2> HIDE DEF t, D, L
    <2>5. \A p \in D : /\ p \in Delimiters(t) /\ p < d /\ At(t, p + 1) = "newline"
                       /\ TextStart(t, p) = p + 2
                       /\ TextEnd(t, p) = TextEnd(s, p) /\ TextOf(t, p) = TextOf(s, p)
      BY <2>4 DEF Kept
    <2> QED
      BY <2>3, <2>4, <2>5
  <1> HIDE DEF t, D, L
  <1>4. /\ Len(t) = L + Len(epi) + 5 /\ d + 4 \in 0 .. Len(t) /\ Len(t) \in Nat
        /\ d \in Nat /\ D \in SUBSET Nat
    <2>1. Len(t) = L + Len(u) /\ L \in Nat /\ Len(u) = Len(epi) + 5 /\ Len(epi) \in Nat
      BY <1>0, <1>2, <1>3 DEF L
    <2>2. D \in SUBSET Nat
      BY <1>0
    <2> HIDE DEF D
    <2> QED
      BY <2>1, <2>2
  <1>5. At(t, d + 1) = "dash" /\ At(t, d + 2) = "dash" /\ At(t, d + 3) = "newline"
    <2>1. /\ 2 \in 0 .. Len(u) - 1 /\ 3 \in 0 .. Len(u) - 1 /\ 4 \in 0 .. Len(u) - 1
          /\ d + 1 = L + 2 /\ d + 2 = L + 3 /\ d + 3 = L + 4
      BY <1>0, <1>2
    <2> QED
      BY <1>2, <1>3, <2>1
  <1>6. \A i \in 0 .. Len(epi) - 1 : At(t, d + 4 + i) = At(epi, i)
    <2> SUFFICES ASSUME NEW i \in 0 .. Len(epi) - 1 PROVE At(t, d + 4 + i) = At(epi, i)
      OBVIOUS
    <2>1. 5 + i \in 0 .. Len(u) - 1 /\ d + 4 + i = L + (5 + i)
      BY <1>0, <1>2
    <2>2. At(t, L + (5 + i)) = At(epi, i)
      BY <1>2, <1>3, <2>1
    <2> QED
      BY <2>1, <2>2
  <1>7. d \in Closing(t)
    <2>1. d + 1 + 1 = d + 2 /\ d + 1 + 1 < Len(t)
      BY <1>2, <1>4
    <2>2. ClosedAt(t, d + 1)
      BY <1>5, <2>1 DEF ClosedAt
    <2> HIDE DEF d
    <2> QED
      BY <1>3, <2>2 DEF Closing
  <1>8. \A q \in Closing(t) : q >= d /\ q \in Delimiters(t)
    <2> SUFFICES ASSUME NEW q \in Closing(t) PROVE q >= d /\ q \in Delimiters(t)
      OBVIOUS
    <2>1. q \in Delimiters(t) /\ At(t, q + 1) = "dash"
      BY DEF Closing, ClosedAt
    <2>2. q \notin D
      BY <1>3, <2>1
    <2> QED
      BY <1>3, <2>1, <2>2
  <1> DEFINE Delims == Delimiters(t)
             Ends == Closing(t)
  <1>9. Delims \in SUBSET (0 .. Len(t)) /\ Ends \subseteq Delims
    BY <1>3, DelimitersAre
  <1>10. Min(Closing(t)) = d
    <2>1. Ends \in SUBSET (0 .. Len(t)) /\ d \in Ends /\ \A q \in Ends : d <= q
      <3> HIDE DEF Ends, Delims
      <3> QED
        BY <1>4, <1>7, <1>8, <1>9 DEF Ends
    <2> HIDE DEF Ends, d
    <2>2. Min(Ends) = d
      BY <1>4, <2>1, MinIs
    <2> QED
      BY <2>2 DEF Ends
  <1>11. Opening(t) = D
    <2>1. \A p \in Opening(t) : p \in D
      <3> SUFFICES ASSUME NEW p \in Opening(t), p \notin D PROVE FALSE
        OBVIOUS
      <3>1. p \in Delimiters(t) /\ p < d
        BY <1>7 DEF Opening
      <3>2. p \in 0 .. Len(t)
        BY <1>9, <3>1
      <3> QED
        BY <1>3, <1>4, <3>1, <3>2
    <2>2. \A p \in D : p \in Opening(t)
      <3> SUFFICES ASSUME NEW p \in D PROVE p \in Opening(t)
        OBVIOUS
      <3>1. p \in Delimiters(t) /\ p < d /\ p \in Nat
        BY <1>3, <1>4
      <3>2. ASSUME NEW q \in Closing(t) PROVE p < q
        <4>1. q \in 0 .. Len(t) /\ q >= d
          BY <1>8, <1>9
        <4> QED
          BY <1>4, <3>1, <4>1
      <3> QED
        BY <3>1, <3>2 DEF Opening
    <2> QED
      BY <2>1, <2>2
  <1>12. WithPart(t) = D
    <2>1. \A p \in D : TextStart(t, p) <= TextEnd(t, p)
      BY <1>0, <1>3 DEF D
    <2> QED
      BY <1>11, <2>1 DEF WithPart
  <1>13. PartsByLines(t) = ps
    <2>1. ps = [i \in 1 .. n |-> TextOf(t, k[i])]
      <3>1. ps = [i \in 1 .. n |-> ps[i]]
        OBVIOUS
      <3>2. \A i \in 1 .. n : ps[i] = TextOf(t, k[i])
        <4> SUFFICES ASSUME NEW i \in 1 .. n PROVE ps[i] = TextOf(t, k[i])
          OBVIOUS
        <4>1. k[i] \in D /\ TextOf(s, k[i]) = ps[i]
          BY <1>1
        <4> QED
          BY <1>3, <4>1
      <3> HIDE DEF n
      <3> QED
        BY <3>1, <3>2
    <2> HIDE DEF n
    <2>2. Found(t, ps, D)
      BY <1>0, <1>1, <2>1 DEF Found
    <2> QED
      BY <1>3, <1>12, <2>2, FoundAll
  <1>14. PreambleByLines(t) = pre
    <2> DEFINE m == Len(pre) + 1
    <2>1. /\ D \in SUBSET (0 .. L) /\ m \in D /\ m - 1 = Len(pre)
          /\ \A p \in D : m <= p
      BY <1>0 DEF D
    <2> HIDE DEF m
    <2>2. Min(D) = m
      BY <1>0, <2>1, MinIs
    <2>3. PreambleByLines(t) = SubSeq(t, 0 + 1, Len(pre))
      BY <1>11, <2>1, <2>2 DEF PreambleByLines
    <2> DEFINE y == SubSeq(t, 0 + 1, Len(pre))
    <2>4. /\ 0 \in 0 .. Len(t) /\ Len(pre) \in Int /\ Len(pre) <= Len(t)
          /\ Len(pre) = IF 0 < Len(pre) THEN Len(pre) - 0 ELSE 0
      BY <1>0, <1>2, <1>4
    <2>5. /\ y \in Seq(Symbol) /\ Len(y) = IF 0 < Len(pre) THEN Len(pre) - 0 ELSE 0
          /\ \A i \in 0 .. Len(y) - 1 : At(y, i) = At(t, 0 + i)
      BY <1>3, <2>4, PieceIs
    <2> HIDE DEF y
    <2>6. Len(y) = Len(pre)
      BY <2>4, <2>5
    <2>7. ASSUME NEW i \in 0 .. Len(y) - 1 PROVE At(y, i) = At(pre, i)
      <3>1. i \in 0 .. L - 1 /\ i \in 0 .. Len(pre) - 1 /\ 0 + i = i
        BY <1>0, <2>6
      <3> QED
        BY <1>0, <1>3, <2>5, <3>1
    <2> QED
      BY <2>3, <2>5, <2>6, <2>7, SameText DEF y
  <1>15. EpilogueByLines(t) = epi
    <2>1. Opening(t) # {} /\ Closing(t) # {}
      BY <1>0, <1>7, <1>11 DEF D
    <2>2. TextStart(t, d) = d + 4
      <3>1. ClosedAt(t, d + 1)
        BY <1>7 DEF Closing
      <3> HIDE DEF d
      <3> DEFINE eol == IndexOf(t, "newline", d + 1)
      <3>2. TextStart(t, d) = IF eol = -1 THEN Len(t) + 1 ELSE eol + 1
        BY <1>3, StartOfText
      <3>3. IndexOf(t, "newline", d + 3) = eol
        BY <1>3, <3>1, ClosingLine
      <3>4. d + 3 \in Nat /\ d + 3 \in d + 3 .. Len(t) - 1
        BY <1>4
      <3>5. eol \in d + 3 .. Len(t) - 1 /\ eol <= d + 3
        BY <1>3, <1>5, <3>3, <3>4, IndexOfFirst
      <3> HIDE DEF eol
      <3> QED
        BY <1>4, <3>2, <3>5
    <2> DEFINE a == d + 4
               y == SubSeq(t, a + 1, Len(t))
    <2>3. EpilogueByLines(t) = y
      BY <1>10, <2>1, <2>2 DEF EpilogueByLines
    <2>4. /\ a \in 0 .. Len(t) /\ Len(t) \in Int /\ Len(t) <= Len(t) /\ Len(t) - a = Len(epi)
      BY <1>0, <1>4
    <2> HIDE DEF a
    <2>5. /\ y \in Seq(Symbol) /\ Len(y) = IF a < Len(t) THEN Len(t) - a ELSE 0
          /\ \A i \in 0 .. Len(y) - 1 : At(y, i) = At(t, a + i)
      <3>1. t \in Seq(Symbol)
        BY <1>3
      <3> QED
        BY <2>4, <3>1, PieceIs
    <2> HIDE DEF y
    <2>6. Len(y) = Len(epi)
      BY <1>2, <2>4, <2>5
    <2>7. \A i \in 0 .. Len(y) - 1 : At(y, i) = At(epi, i)
      BY <1>6, <2>5, <2>6 DEF a
    <2> QED
      BY <2>3, <2>5, <2>6, <2>7, SameText
  <1> QED
    BY <1>13, <1>14, <1>15 DEF t, u

\* ReassembledIsSame, for every body: a multipart that is split and put together
\* again by encodedBody() is split into the same parts, preamble and epilogue
\* (parsers.cpp 31-106, content.cpp 266-325).  What parse() took for a text has no
\* delimiter, and behind the newline of one it gets none.
THEOREM ReassembledAlwaysSame == Spec => []ReassembledIsSame
  <1>1. ASSUME IInv, SplitInv PROVE ReassembledIsSame
    <2> SUFFICES ASSUME pc = "done", parts # <<>>
                 PROVE  LET again == EncodedBody(preamble, parts, epilouge)
                        IN  /\ PartsByLines(again) = parts
                            /\ PreambleByLines(again) = preamble
                            /\ EpilogueByLines(again) = epilouge
      BY DEF ReassembledIsSame
    <2>1. /\ src \in Seq(Symbol) /\ preamble \in Seq(Symbol) /\ epilouge \in Seq(Symbol)
          /\ parts \in Seq(Seq(Symbol))
      BY <1>1 DEF IInv, TypeOK
    <2>2. Found(src, parts, WithPart(src)) /\ preamble = PreambleByLines(src)
      BY <1>1 DEF SplitInv, Finished
    <2>3. Clean(preamble) /\ \A p \in WithPart(src) : Clean(TextOf(src, p))
      BY <2>1, <2>2, CleanTexts
    <2>4. ASSUME NEW i \in 1 .. Len(parts) PROVE Clean(parts[i])
      <3>0. PICK n \in Nat : \E k \in [1 .. n -> WithPart(src)] :
                parts = [j \in 1 .. n |-> TextOf(src, k[j])]
        BY <2>2 DEF Found
      <3>1. PICK k \in [1 .. n -> WithPart(src)] : parts = [j \in 1 .. n |-> TextOf(src, k[j])]
        BY <3>0
      <3>2. i \in 1 .. n
        BY <3>1
      <3>3. parts[i] = TextOf(src, k[i]) /\ k[i] \in WithPart(src)
        BY <3>1, <3>2
      <3> QED
        BY <2>3, <3>3
    <2> DEFINE F == FlattenSeq([i \in DOMAIN parts |-> <<"newline", "boundary", "newline">> \o parts[i]])
    <2>5. F \in Seq(Symbol) /\ Rebuilt(preamble \o F, preamble, parts, Len(parts))
      <3>1. /\ parts \in Seq(Seq(Symbol)) /\ parts # <<>>
            /\ \A i \in 1 .. Len(parts) : Clean(parts[i])
        BY <2>1, <2>4
      <3> QED
        BY <2>3, <3>1, AssembledIs
    <2>6. EncodedBody(preamble, parts, epilouge) = (preamble \o F) \o Trail \o epilouge
      BY DEF EncodedBody, Trail
    <2> HIDE DEF F
    <2>7. preamble \o F \in Seq(Symbol) /\ Trail \in Seq(Symbol)
      BY <2>1, <2>5 DEF Trail, Symbol
    <2>8. ((preamble \o F) \o Trail) \o epilouge = (preamble \o F) \o (Trail \o epilouge)
      <3> DEFINE body == preamble \o F
      <3>1. body \in Seq(Symbol) /\ Trail \in Seq(Symbol)
        BY <2>7
      <3> HIDE DEF body
      <3>2. body \o (Trail \o epilouge) = (body \o Trail) \o epilouge
        BY <2>1, <3>1, Regroup, SMTT(30)
      <3> QED
        BY <3>2, Zenon DEF body
    <2> QED
      BY <2>1, <2>5, <2>6, <2>8, ReadAgain
  <1> QED
    BY <1>1, SplitInvariant, PTL
=============================================================================
