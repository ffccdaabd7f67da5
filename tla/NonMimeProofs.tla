---------------------------- MODULE NonMimeProofs ----------------------------
(***************************************************************************)
(* Proofs about NonMime: the cursors of the readers of uuencoded and yEnc  *)
(* text stay in the text, and every turn of their loops goes forward, also *)
(* those of the loop that decodes yEnc data, whatever the text is.         *)
(*                                                                         *)
(* What a recursive function computes is out of the provers' reach, but    *)
(* not that it is defined and never goes back: that is an induction over a *)
(* set of numbers, the positions left in the text.                         *)
(***************************************************************************)
EXTENDS NonMime, SequenceTheorems, NaturalsInduction, WellFoundedInduction, TLAPS

\* A set of natural numbers that is not empty has a least one.
LEMMA LeastNat ==
    ASSUME NEW T \in SUBSET Nat, T # {}
    PROVE  Min(T) \in T /\ \A y \in T : Min(T) <= y
  <1> DEFINE R == OpToRel(<, Nat)
  <1>1. IsWellFoundedOn(R, Nat)
    BY NatLessThanWellFounded
  <1>2. \A y, x \in Nat : y < x => <<y, x>> \in R
    BY DEF OpToRel
  <1> HIDE DEF R
  <1>3. PICK x \in T : \A y \in T : ~ (<<y, x>> \in R)
    BY <1>1, WFMin
  <1>4. \A y \in T : x <= y
    <2> SUFFICES ASSUME NEW y \in T PROVE x <= y
      OBVIOUS
    <2>1. x \in Nat /\ y \in Nat /\ ~(y < x)
      BY <1>2, <1>3
    <2> QED
      BY <2>1
  <1> QED
    BY <1>4 DEF Min

\* Induction over a set of numbers.
LEMMA SetInduction ==
    ASSUME NEW S \in SUBSET Nat, 0 \in S, \A n \in S : n + 1 \in S
    PROVE  S = Nat
  <1> SUFFICES ASSUME Nat \ S # {} PROVE FALSE
    OBVIOUS
  <1>1. PICK x \in Nat \ S : \A y \in Nat \ S : x <= y
    <2>1. Nat \ S \in SUBSET Nat
      OBVIOUS
    <2> QED
      BY <2>1, LeastNat
  <1>2. x # 0 /\ x - 1 \in Nat /\ x - 1 \in S
    BY <1>1
  <1> QED
    BY <1>1, <1>2

-----------------------------------------------------------------------------
(* Loops: a function that is d itself where it stops, and otherwise what it *)
(* is for the next d.                                                       *)

IsLoop(f, D, Stop, next) == f = [d \in D |-> IF d \in Stop THEN d ELSE f[next[d]]]

\* When something gets smaller with every turn the loop is defined.
LEMMA LoopIsDefined ==
    ASSUME NEW D, NEW Stop, NEW next, \A d \in D \ Stop : next[d] \in D,
           NEW N \in Nat, NEW m \in [D -> 0 .. N], \A d \in D \ Stop : m[next[d]] < m[d]
    PROVE  \E f : IsLoop(f, D, Stop, next)
  <1> DEFINE Within(k) == {d \in D : m[d] < k}
             S == {k \in Nat : \E f : IsLoop(f, Within(k), Stop, next)}
  <1>1. 0 \in S
    <2>1. Within(0) = {}
      OBVIOUS
    <2>2. [d \in Within(0) |-> 0] = [d \in Within(0) |-> IF d \in Stop THEN d
                                                     ELSE [e \in Within(0) |-> 0][next[d]]]
      BY <2>1
    <2> QED
      BY <2>2 DEF IsLoop
  <1>2. ASSUME NEW k \in S PROVE k + 1 \in S
    <2>1. PICK f : IsLoop(f, Within(k), Stop, next)
      OBVIOUS
    <2> DEFINE U == Within(k)
               V == Within(k + 1)
               g == [d \in V |-> IF d \in U THEN f[d] ELSE IF d \in Stop THEN d ELSE f[next[d]]]
    <2>2. U \subseteq V /\ \A d \in V \ Stop : next[d] \in U
      OBVIOUS
    <2>3. f = [d \in U |-> IF d \in Stop THEN d ELSE f[next[d]]]
      BY <2>1 DEF IsLoop
    <2> HIDE DEF U, V
    <2>4. ASSUME NEW d \in V PROVE g[d] = IF d \in Stop THEN d ELSE g[next[d]]
      <3>1. d \in U => f[d] = IF d \in Stop THEN d ELSE f[next[d]]
        BY <2>3
      <3>2. d \notin Stop => next[d] \in U /\ next[d] \in V /\ g[next[d]] = f[next[d]]
        BY <2>2
      <3> QED
        BY <3>1, <3>2
    <2>5. IsLoop(g, V, Stop, next)
      BY <2>4 DEF IsLoop
    <2> QED
      BY <2>5 DEF V
  <1>3. N + 1 \in S
    <2> HIDE DEF S
    <2>1. S = Nat
      <3>1. S \in SUBSET Nat
        BY DEF S
      <3> QED
        BY <1>1, <1>2, <3>1, SetInduction
    <2> QED
      BY <2>1
  <1>4. Within(N + 1) = D
    OBVIOUS
  <1> QED
    BY <1>3, <1>4

\* A number that no turn makes smaller is not smaller at the end.
LEMMA LoopGoesOn ==
    ASSUME NEW D, NEW Stop, NEW next, \A d \in D \ Stop : next[d] \in D,
           NEW N \in Nat, NEW m \in [D -> 0 .. N], \A d \in D \ Stop : m[next[d]] < m[d],
           NEW p \in [D -> Nat], \A d \in D \ Stop : p[d] <= p[next[d]],
           NEW f, IsLoop(f, D, Stop, next)
    PROVE  \A d \in D : f[d] \in D /\ p[d] <= p[f[d]]
  <1> DEFINE S == {k \in Nat : \A d \in D : m[d] < k => f[d] \in D /\ p[d] <= p[f[d]]}
  <1>0. \A d \in D : f[d] = IF d \in Stop THEN d ELSE f[next[d]]
    BY DEF IsLoop
  <1>1. 0 \in S
    OBVIOUS
  <1>2. ASSUME NEW k \in S PROVE k + 1 \in S
    <2> SUFFICES ASSUME NEW d \in D, m[d] < k + 1 PROVE f[d] \in D /\ p[d] <= p[f[d]]
      OBVIOUS
    <2>1. CASE d \in Stop
      BY <1>0, <2>1
    <2>2. CASE d \notin Stop
      <3>1. next[d] \in D /\ m[next[d]] < k /\ p[d] <= p[next[d]]
        BY <2>2
      <3>2. f[next[d]] \in D /\ p[next[d]] <= p[f[next[d]]]
        BY <3>1
      <3> QED
        BY <1>0, <2>2, <3>1, <3>2
    <2> QED
      BY <2>1, <2>2
  <1>3. N + 1 \in S
    <2> HIDE DEF S
    <2>1. S = Nat
      <3>1. S \in SUBSET Nat
        BY DEF S
      <3> QED
        BY <1>1, <1>2, <3>1, SetInduction
    <2> QED
      BY <2>1
  <1> QED
    BY <1>3

-----------------------------------------------------------------------------
(* Positions in a text. *)

LEMMA FirstIs ==
    ASSUME NEW n \in Nat, NEW S \in SUBSET (1 .. n)
    PROVE  /\ First(S) \in 0 .. n
           /\ First(S) = 0 => S = {}
           /\ First(S) # 0 => First(S) \in S /\ \A i \in S : First(S) <= i
  <1>1. CASE S = {}
    BY <1>1 DEF First
  <1>2. CASE S # {}
    <2>1. Min(S) \in S /\ \A i \in S : Min(S) <= i
      BY <1>2, LeastNat
    <2>2. First(S) = Min(S) /\ Min(S) \in 1 .. n
      BY <1>2, <2>1 DEF First
    <2> QED
      BY <1>2, <2>1, <2>2
  <1> QED
    BY <1>1, <1>2

LEMMA TextIs ==
    ASSUME NEW s \in Seq(Symbol)
    PROVE  Len(s) \in Nat /\ DOMAIN s = 1 .. Len(s) /\ \A i \in 1 .. Len(s) : s[i] \in Symbol
  OBVIOUS

LEMMA IndexOfIs ==
    ASSUME NEW s \in Seq(Symbol), NEW symbol, NEW from \in Nat
    PROVE  LET i == IndexOf(s, symbol, from)
           IN  i = 0 \/ (i \in 1 .. Len(s) /\ i >= from /\ s[i] = symbol)
  <1> DEFINE S == {i \in DOMAIN s : i >= from /\ s[i] = symbol}
  <1>1. S \in SUBSET (1 .. Len(s)) /\ Len(s) \in Nat
    OBVIOUS
  <1>2. IndexOf(s, symbol, from) = First(S)
    BY DEF IndexOf
  <1>3. First(S) = 0 \/ First(S) \in S
    <2> HIDE DEF S
    <2> QED
      BY <1>1, FirstIs
  <1> QED
    BY <1>2, <1>3

\* A piece of a text is a text.
LEMMA Piece ==
    ASSUME NEW s \in Seq(Symbol), NEW a \in Nat \ {0}, NEW b \in Int, b <= Len(s)
    PROVE  SubSeq(s, a, b) \in Seq(Symbol)
  <1>1. CASE a <= b
    BY <1>1, SubSeqProperties
  <1>2. CASE a > b
    <2>1. SubSeq(s, a, b) = <<>>
      BY <1>2, SubSeqProperties
    <2> QED
      BY <2>1
  <1> QED
    BY <1>1, <1>2

LEMMA MidIs ==
    ASSUME NEW s \in Seq(Symbol), NEW a \in Nat \ {0}, NEW b \in Int
    PROVE  Mid(s, a, b) \in Seq(Symbol)
  BY TextIs, Piece DEF Mid

\* A list, of whatever its elements are, and with one element more.
LEMMA OneMore ==
    ASSUME NEW n \in Nat, NEW l, l = [i \in 1 .. n |-> l[i]], NEW x
    PROVE  LET k == Append(l, x)
           IN  Len(l) = n /\ Len(k) = n + 1 /\ k = [i \in 1 .. n + 1 |-> k[i]]
  <1> DEFINE S == {l[i] : i \in 1 .. n} \cup {x}
             k == Append(l, x)
  <1>1. l \in Seq(S) /\ Len(l) = n /\ x \in S
    <2>1. \A i \in 1 .. n : l[i] \in S
      OBVIOUS
    <2> HIDE DEF S
    <2>2. [i \in 1 .. n |-> l[i]] \in Seq(S)
      BY <2>1
    <2> QED
      BY <2>2 DEF S
  <1> HIDE DEF S
  <1>2. k \in Seq(S) /\ Len(k) = n + 1
    BY <1>1, AppendProperties
  <1> QED
    BY <1>1, <1>2

-----------------------------------------------------------------------------
(* uuencode *)

\* A block begins where the reader is or later, and so does its end, unless the
\* reader gives up.
LEMMA BlockGoesOn ==
    ASSUME NEW s \in Seq(Symbol), NEW pos \in 1 .. Len(s) + 1
    PROVE  LET b == FindUUBlock(s, pos)
           IN  /\ b.begin \in pos .. Len(s) + 1 /\ b.end \in Nat
               /\ ~b.giveUp => b.end >= pos
  <1> DEFINE marker == FindUuencodeBeginMarker(s, pos)
             containsBegin == StartsBlock(s, marker)
             start == IF containsBegin THEN IndexOf(s, LF, marker) + 1 ELSE pos
             ends == {i \in DOMAIN s : i >= start - 1 /\ i < Len(s) /\ s[i] = LF
                                       /\ s[i + 1] = Keyword("end")}
             containsEnd == containsBegin /\ ends # {}
             begin == IF containsBegin THEN marker ELSE pos
             end == IF containsEnd THEN Min(ends) ELSE Len(s) + 1
             giveUp == containsBegin /\ start = 1
  <1>0. Len(s) \in Nat /\ DOMAIN s = 1 .. Len(s) /\ pos \in Nat
    BY TextIs
  <1>1. /\ FindUUBlock(s, pos).begin = begin /\ FindUUBlock(s, pos).end = end
        /\ FindUUBlock(s, pos).giveUp = giveUp
    BY DEF FindUUBlock
  <1>2. marker = 0 \/ marker \in pos .. Len(s)
    <2> DEFINE S == {i \in DOMAIN s : i >= pos /\ s[i] = Keyword("begin") /\ i < Len(s)}
    <2>1. S \in SUBSET (1 .. Len(s))
      BY <1>0
    <2>2. marker = First(S)
      BY DEF FindUuencodeBeginMarker
    <2>3. First(S) = 0 \/ First(S) \in S
      <3> HIDE DEF S
      <3> QED
        BY <1>0, <2>1, FirstIs
    <2> QED
      BY <1>0, <2>2, <2>3
  <1> HIDE DEF marker
  <1>3. containsBegin => marker # 0
    BY DEF StartsBlock
  <1> HIDE DEF containsBegin
  <1>4. containsBegin => start = 1 \/ start - 1 \in marker .. Len(s)
    <2>1. CASE containsBegin
      <3> DEFINE i == IndexOf(s, LF, marker)
      <3>1. i = 0 \/ (i \in 1 .. Len(s) /\ i >= marker)
        BY <1>0, <1>2, IndexOfIs
      <3>2. start = i + 1
        BY <2>1
      <3> HIDE DEF i, start
      <3> QED
        BY <1>0, <1>2, <1>3, <2>1, <3>1, <3>2
    <2> QED
      BY <2>1
  <1>5. begin \in pos .. Len(s) + 1
    BY <1>0, <1>2, <1>3
  <1>6. ends # {} => Min(ends) \in ends
    <2>1. ends \in SUBSET Nat
      BY <1>0
    <2> HIDE DEF ends
    <2> QED
      BY <2>1, LeastNat
  <1>7. end \in Nat /\ (~giveUp => end >= pos)
    <2>1. CASE containsEnd
      <3>1. end \in DOMAIN s /\ end >= start - 1
        BY <1>6, <2>1
      <3> HIDE DEF ends, end, start
      <3> QED
        BY <1>0, <1>2, <1>3, <1>4, <2>1, <3>1
    <2>2. CASE ~containsEnd
      BY <1>0, <2>2
    <2> QED
      BY <2>1, <2>2
  <1> HIDE DEF begin, end, giveUp
  <1> QED
    BY <1>1, <1>5, <1>7

-----------------------------------------------------------------------------
(* yEnc *)

\* What one turn of the decoding loop reads.
LEMMA DecodeIs ==
    ASSUME NEW s \in Seq(Symbol), NEW d \in Decoding, d.pos <= Len(s),
           ~(s[d.pos] = EQ /\ d.pos = Len(s))
    PROVE  Decode(s, d).step \in {1, 2} /\ Decode(s, d).bytes \in Seq(0 .. 255)
  <1>1. d.pos \in 1 .. Len(s) /\ s[d.pos] \in Symbol
    BY DEF Decoding
  <1>2. \A k \in Nat : [i \in 1 .. k |-> 0] \in Seq(0 .. 255)
    OBVIOUS
  <1>3. \A k \in Int : k % 256 \in 0 .. 255 /\ <<k % 256>> \in Seq(0 .. 255)
    OBVIOUS
  <1>4. ASSUME NEW c \in Symbol PROVE c.n \in Int /\ Opaque(c) \in Nat
    <2>1. c.n \in Int
      <3>1. CASE c \in [s : {"byte"}, n : 0 .. 255]
        <4>1. c.n \in 0 .. 255
          BY <3>1
        <4>2. \A k \in 0 .. 255 : k \in Int
          OBVIOUS
        <4> QED
          BY <4>1, <4>2
      <3>2. CASE c \in [s : Keywords, n : {0}]
        BY <3>2
      <3>3. CASE c \in [s : Attributes, n : Nat]
        BY <3>3
      <3> QED
        BY <3>1, <3>2, <3>3 DEF Symbol
    <2>2. c.s = "ybegin" => Opaque(c) = 7
      BY DEF Opaque
    <2>3. c.s = "ypart" => Opaque(c) = 6
      BY DEF Opaque
    <2>4. c.s # "ybegin" /\ c.s # "ypart" => Opaque(c) = 5
      BY DEF Opaque
    <2> QED
      BY <2>1, <2>2, <2>3, <2>4
  <1>5. CASE s[d.pos] = EQ
    <2>1. d.pos + 1 \in 1 .. Len(s)
      BY <1>1, <1>5
    <2>2. s[d.pos + 1] \in Symbol
      BY <2>1
    <2> DEFINE k == s[d.pos + 1].n - 64 - 42
    <2>3. k \in Int
      BY <1>4, <2>2
    <2>4. Decode(s, d) = [step |-> 2, bytes |-> <<k % 256>>]
      BY <1>5 DEF Decode
    <2> HIDE DEF k
    <2> QED
      BY <1>3, <2>3, <2>4
  <1>6. CASE s[d.pos] # EQ /\ s[d.pos].s = "byte"
    <2> DEFINE k == s[d.pos].n - 42
    <2>1. k \in Int
      BY <1>1, <1>4
    <2>2. Decode(s, d) = [step |-> 1, bytes |-> <<k % 256>>]
      BY <1>6 DEF Decode
    <2> HIDE DEF k
    <2> QED
      BY <1>3, <2>1, <2>2
  <1>7. CASE s[d.pos] # EQ /\ s[d.pos].s # "byte"
    <2> DEFINE k == Opaque(s[d.pos])
    <2>1. k \in Nat
      BY <1>1, <1>4
    <2>2. Decode(s, d) = [step |-> 1, bytes |-> [i \in 1 .. k |-> 0]]
      BY <1>7 DEF Decode
    <2> HIDE DEF k
    <2> QED
      BY <1>2, <2>1, <2>2
  <1> QED
    BY <1>5, <1>6, <1>7

LEMMA DecodeGoesOn ==
    ASSUME NEW s \in Seq(Symbol), NEW size, NEW line, NEW d \in Decoding,
           ~DataEnd(s, size, line, d)
    PROVE  d.pos <= Len(s) /\ DecodeNext(s, d) \in Decoding /\ DecodeNext(s, d).pos > d.pos
  <1>1. d.pos \in Nat \ {0} /\ d.pos <= Len(s) /\ ~(s[d.pos] = EQ /\ d.pos = Len(s))
    BY DEF DataEnd, Decoding
  <1> DEFINE c == Decode(s, d)
  <1>2. c.step \in {1, 2} /\ c.bytes \in Seq(0 .. 255)
    BY <1>1, DecodeIs
  <1> HIDE DEF c
  <1>3. CASE s[d.pos] = CR
    BY <1>1, <1>3 DEF DecodeNext, Decoding
  <1>4. CASE s[d.pos] # CR /\ s[d.pos] = LF
    <2>1. DecodeNext(s, d) = [d EXCEPT !.pos = @ + 1, !.lineStart = TRUE, !.lineLength = 0]
      BY <1>4 DEF DecodeNext
    <2>2. d = [pos |-> d.pos, binary |-> d.binary, lineStart |-> d.lineStart,
               lineLength |-> d.lineLength] /\ d.binary \in Seq(0 .. 255)
      BY DEF Decoding
    <2>3. DecodeNext(s, d) = [pos |-> d.pos + 1, binary |-> d.binary, lineStart |-> TRUE,
                              lineLength |-> 0]
      BY <2>1, <2>2
    <2> QED
      BY <1>1, <2>2, <2>3 DEF Decoding
  <1>5. CASE s[d.pos] # CR /\ s[d.pos] # LF
    <2>1. DecodeNext(s, d) = [pos |-> d.pos + c.step, binary |-> d.binary \o c.bytes,
                              lineStart |-> FALSE, lineLength |-> d.lineLength + Len(c.bytes)]
      BY <1>5 DEF DecodeNext, c
    <2>2. d.binary \in Seq(0 .. 255) /\ d.lineLength \in Nat
      BY DEF Decoding
    <2>3. d.binary \o c.bytes \in Seq(0 .. 255) /\ Len(c.bytes) \in Nat
      BY <1>2, <2>2
    <2>4. d.pos + c.step \in Nat \ {0} /\ d.pos + c.step > d.pos
          /\ d.lineLength + Len(c.bytes) \in Nat
      BY <1>1, <1>2, <2>2, <2>3
    <2> QED
      BY <1>1, <2>1, <2>3, <2>4 DEF Decoding
  <1> QED
    BY <1>1, <1>3, <1>4, <1>5

\* The loop that decodes yEnc data ends on every text, behind where it starts.
LEMMA DataGoesOn ==
    ASSUME NEW s \in Seq(Symbol), NEW start \in Nat \ {0}, NEW size, NEW line
    PROVE  YencData(s, start, size, line).pos \in Nat
           /\ YencData(s, start, size, line).pos >= start
  <1> DEFINE Stop == {d \in Decoding : DataEnd(s, size, line, d)}
             next == [d \in Decoding |-> DecodeNext(s, d)]
             N == Len(s)
             m == [d \in Decoding |-> IF d.pos > N THEN 0 ELSE N + 1 - d.pos]
             p == [d \in Decoding |-> d.pos]
  <1>1. N \in Nat /\ m \in [Decoding -> 0 .. N] /\ p \in [Decoding -> Nat]
    BY TextIs DEF Decoding
  <1>2. ASSUME NEW d \in Decoding \ Stop
        PROVE  next[d] \in Decoding /\ m[next[d]] < m[d] /\ p[d] <= p[next[d]]
    <2>1. d.pos <= N /\ next[d] \in Decoding /\ next[d].pos > d.pos /\ d.pos \in Nat
          /\ next[d].pos \in Nat
      BY DecodeGoesOn DEF Decoding
    <2> HIDE DEF next
    <2>2. m[d] = N + 1 - d.pos /\ p[d] = d.pos /\ p[next[d]] = next[d].pos
      BY <1>1, <2>1
    <2>3. m[next[d]] = IF next[d].pos > N THEN 0 ELSE N + 1 - next[d].pos
      BY <2>1
    <2> HIDE DEF m, p, N
    <2> QED
      BY <1>1, <2>1, <2>2, <2>3
  <1> DEFINE IsDecode(f) == f = [d \in Decoding |-> IF DataEnd(s, size, line, d) THEN d
                                                    ELSE f[DecodeNext(s, d)]]
             decode == CHOOSE f : IsDecode(f)
             first == [pos |-> start, binary |-> <<>>, lineStart |-> TRUE, lineLength |-> 0]
  <1>3. \A f : IsLoop(f, Decoding, Stop, next) <=> IsDecode(f)
    <2> SUFFICES ASSUME NEW f
                 PROVE  [d \in Decoding |-> IF d \in Stop THEN d ELSE f[next[d]]]
                        = [d \in Decoding |-> IF DataEnd(s, size, line, d) THEN d
                                              ELSE f[DecodeNext(s, d)]]
      BY DEF IsLoop
    <2> QED
      OBVIOUS
  <1>4. first \in Decoding
    BY DEF Decoding
  <1>5. YencData(s, start, size, line).pos = decode[first].pos
    BY DEF YencData
  <1> HIDE DEF Stop, next, N, m, p, IsDecode
  <1>6. \E f : IsLoop(f, Decoding, Stop, next)
    BY <1>1, <1>2, LoopIsDefined
  <1>7. IsLoop(decode, Decoding, Stop, next)
    BY <1>3, <1>6
  <1> HIDE DEF decode, first
  <1>8. decode[first] \in Decoding /\ p[first] <= p[decode[first]]
    BY <1>1, <1>2, <1>4, <1>7, LoopGoesOn
  <1>9. p[first] = start /\ p[decode[first]] = decode[first].pos
    BY <1>4, <1>8 DEF p, first
  <1> QED
    BY <1>1, <1>5, <1>8, <1>9

LEMMA MetaIs ==
    ASSUME NEW meta \in Seq(Symbol), NEW name \in Attributes
    PROVE  YencMeta(meta, name) \in -1 .. IntMax
  <1> DEFINE S == {j \in DOMAIN meta : meta[j].s = name}
             i == First(S)
  <1>1. Len(meta) \in Nat /\ S \in SUBSET (1 .. Len(meta))
    BY TextIs
  <1>2. i = 0 \/ (i \in 1 .. Len(meta) /\ meta[i].s = name)
    <2>1. i = 0 \/ i \in S
      <3> HIDE DEF S
      <3> QED
        BY <1>1, FirstIs
    <2> QED
      BY <1>1, <2>1
  <1>3. YencMeta(meta, name) =
           IF i = 0 \/ (i = Len(meta) /\ meta[i].n < 10) THEN -1 ELSE ToInt(meta[i].n)
    BY DEF YencMeta
  <1> HIDE DEF i
  <1>4. i # 0 => meta[i].n \in Nat
    <2>1. i # 0 => meta[i] \in Symbol /\ meta[i].s \in Attributes
      BY <1>2, TextIs
    <2>2. \A c \in Symbol : c.s \in Attributes => c \in [s : Attributes, n : Nat]
      BY DEF Symbol, Attributes, Keywords
    <2> QED
      BY <2>1, <2>2
  <1>5. IntMax \in Nat /\ \A n \in Nat : ToInt(n) \in 0 .. IntMax
    BY NonMimeAssumption DEF ToInt
  <1>6. CASE i = 0 \/ (i = Len(meta) /\ meta[i].n < 10)
    <2>1. YencMeta(meta, name) = -1
      BY <1>3, <1>6
    <2> QED
      BY <1>5, <2>1
  <1>7. CASE ~(i = 0 \/ (i = Len(meta) /\ meta[i].n < 10))
    <2>1. YencMeta(meta, name) = ToInt(meta[i].n) /\ meta[i].n \in Nat
      BY <1>3, <1>4, <1>7
    <2>2. YencMeta(meta, name) \in 0 .. IntMax
      BY <1>5, <2>1
    <2> QED
      BY <1>5, <2>2
  <1> QED
    BY <1>6, <1>7

\* The numbers of a block are in range, and a block that is accepted ends behind
\* its begin.
LEMMA YencGoesOn ==
    ASSUME NEW s \in Seq(Symbol), NEW begin \in 1 .. Len(s)
    PROVE  LET b == YencBlock(s, begin)
           IN  /\ b.partNr \in -1 .. IntMax /\ b.totalNr \in -1 .. IntMax
               /\ b.valid => b.end \in begin .. Len(s)
  <1> DEFINE line1 == IndexOf(s, LF, begin) + 1
             containsPart == line1 > 1 /\ line1 <= Len(s) /\ s[line1] = Keyword("ypart")
             start == IF containsPart THEN IndexOf(s, LF, line1) + 1 ELSE line1
             meta == Mid(s, begin, start - 1)
             namePos == IndexOf(meta, Keyword("name"), 1)
             size == YencMeta(meta, "size")
             nr == YencMeta(meta, "part")
             first == YencMeta(meta, "first")
             last == YencMeta(meta, "last")
             total == YencMeta(meta, "total")
             partSize == last - first + 1
             hasMeta == /\ line1 > 1 /\ start > 1 /\ namePos # 0
                        /\ YencMeta(meta, "line") # -1 /\ size # -1
             hasPart == /\ hasMeta /\ nr # -1
             inRange == hasPart /\ first # -1 /\ last >= first /\ last # IntMax
             counted == inRange /\ (total # -1 \/ nr # IntMax)
             yencSize == IF containsPart THEN partSize ELSE size
             pos == YencData(s, start, yencSize, YencMeta(meta, "line")).pos
             eolPos == IndexOf(s, LF, pos)
             b == YencBlock(s, begin)
  <1>0. Len(s) \in Nat /\ begin \in Nat \ {0} /\ IntMax \in Nat
    BY TextIs, NonMimeAssumption
  <1>1. /\ b.partNr = IF containsPart /\ hasMeta THEN nr ELSE -1
        /\ b.totalNr = IF ~(containsPart /\ counted) THEN -1
                       ELSE IF size = partSize THEN 1 ELSE IF total # -1 THEN total ELSE nr + 1
    BY DEF YencBlock
  <1>2. b.valid => line1 > 1 /\ start > 1 /\ eolPos # 0
    BY DEF YencBlock
  <1>3. b.end = eolPos
    BY DEF YencBlock
  <1> HIDE DEF b
  <1>4. line1 = 1 \/ line1 \in begin + 1 .. Len(s) + 1
    <2> DEFINE i == IndexOf(s, LF, begin)
    <2>1. i = 0 \/ (i \in 1 .. Len(s) /\ i >= begin)
      BY <1>0, IndexOfIs
    <2> HIDE DEF i
    <2>2. line1 = i + 1
      BY DEF i
    <2> HIDE DEF line1
    <2> QED
      BY <1>0, <2>1, <2>2
  <1> HIDE DEF line1
  <1>5. start \in Nat \ {0} /\ (start = 1 \/ (line1 > 1 => start > begin))
    <2> DEFINE i == IndexOf(s, LF, line1)
    <2>1. i = 0 \/ (i \in 1 .. Len(s) /\ i >= line1)
      BY <1>0, <1>4, IndexOfIs
    <2> HIDE DEF i
    <2>2. start = IF containsPart THEN i + 1 ELSE line1
      BY DEF i
    <2> HIDE DEF start, containsPart
    <2> QED
      BY <1>0, <1>4, <2>1, <2>2
  <1> HIDE DEF start
  <1>6. meta \in Seq(Symbol)
    <2>1. start - 1 \in Int
      BY <1>5
    <2> QED
      BY <1>0, <2>1, MidIs
  <1> HIDE DEF meta
  <1>7. /\ size \in -1 .. IntMax /\ nr \in -1 .. IntMax /\ first \in -1 .. IntMax
        /\ last \in -1 .. IntMax /\ total \in -1 .. IntMax
    BY <1>6, MetaIs DEF Attributes
  <1>8. b.valid => eolPos \in begin .. Len(s)
    <2> SUFFICES ASSUME b.valid PROVE eolPos \in begin .. Len(s)
      OBVIOUS
    <2>1. start \in Nat \ {0} /\ start > begin /\ eolPos # 0
      BY <1>0, <1>2, <1>5
    <2>2. pos \in Nat /\ pos >= start
      BY <2>1, DataGoesOn
    <2> HIDE DEF pos
    <2>3. eolPos = 0 \/ (eolPos \in 1 .. Len(s) /\ eolPos >= pos)
      BY <2>2, IndexOfIs
    <2> HIDE DEF eolPos
    <2> QED
      BY <1>0, <2>1, <2>2, <2>3
  <1> HIDE DEF size, nr, first, last, total, eolPos
  <1>9. b.partNr \in -1 .. IntMax
    <2>1. -1 \in -1 .. IntMax
      BY <1>0
    <2> HIDE DEF containsPart, hasMeta
    <2> QED
      BY <1>1, <1>7, <2>1
  <1>10. b.totalNr \in -1 .. IntMax
    <2>1. counted => /\ last \in Nat /\ last < IntMax
                     /\ total = -1 => nr + 1 \in 0 .. IntMax
      BY <1>0, <1>7
    <2>2. counted => 1 \in -1 .. IntMax
      BY <1>0, <2>1
    <2> HIDE DEF counted, partSize, containsPart
    <2> QED
      BY <1>0, <1>1, <1>7, <2>1, <2>2
  <1> QED
    BY <1>3, <1>8, <1>9, <1>10 DEF b

-----------------------------------------------------------------------------
(* What is kept of a text. *)

LEMMA FlattenIs ==
    ASSUME NEW B, Len(B) \in Nat \ {0}
    PROVE  \E f : /\ f = [i \in 1 .. Len(B) |-> IF i = 1 THEN B[i] ELSE f[i - 1] \o B[i]]
                  /\ FlattenSeq(B) = f[Len(B)]
  <1> DEFINE N == Len(B)
             IsFlat(g, n) == g = [i \in 1 .. n |-> IF i = 1 THEN B[i] ELSE g[i - 1] \o B[i]]
             S == {n \in Nat : \E g : IsFlat(g, n)}
  <1>1. 0 \in S
    <2> DEFINE g == [i \in 1 .. 0 |-> 0]
    <2>1. 1 .. 0 = {} /\ 0 \in Nat
      OBVIOUS
    <2>2. IsFlat(g, 0)
      BY <2>1
    <2> HIDE DEF IsFlat, g
    <2> QED
      BY <2>1, <2>2
  <1>2. ASSUME NEW n \in S PROVE n + 1 \in S
    <2>1. n \in Nat
      OBVIOUS
    <2>2. PICK g : IsFlat(g, n)
      OBVIOUS
    <2> DEFINE next == IF n + 1 = 1 THEN B[n + 1] ELSE g[n] \o B[n + 1]
               h == [i \in 1 .. n + 1 |-> IF i = n + 1 THEN next ELSE g[i]]
    <2>3. ASSUME NEW i \in 1 .. n + 1
          PROVE  h[i] = IF i = 1 THEN B[i] ELSE h[i - 1] \o B[i]
      <3>1. CASE i = n + 1
        <4>1. h[i] = next
          BY <3>1
        <4>2. i # 1 => i - 1 = n /\ n \in 1 .. n + 1 /\ n # n + 1
          BY <2>1, <3>1
        <4>3. i # 1 => h[i - 1] = g[n]
          BY <4>2
        <4> HIDE DEF h
        <4> QED
          BY <3>1, <4>1, <4>3
      <3>2. CASE i # n + 1
        <4>1. i \in 1 .. n /\ h[i] = g[i]
          BY <2>1, <3>2
        <4>2. i # 1 => i - 1 \in 1 .. n + 1 /\ i - 1 # n + 1
          BY <2>1, <4>1
        <4>3. i # 1 => h[i - 1] = g[i - 1]
          BY <4>2
        <4> HIDE DEF h
        <4>4. g[i] = IF i = 1 THEN B[i] ELSE g[i - 1] \o B[i]
          BY <2>2, <4>1
        <4> QED
          BY <4>1, <4>3, <4>4
      <3> QED
        BY <3>1, <3>2
    <2>4. h = [i \in 1 .. n + 1 |-> h[i]]
      OBVIOUS
    <2> HIDE DEF h
    <2>5. IsFlat(h, n + 1)
      BY <2>3, <2>4
    <2> HIDE DEF IsFlat
    <2> QED
      BY <2>1, <2>5
  <1>3. S = Nat
    <2> HIDE DEF S
    <2>1. S \in SUBSET Nat
      BY DEF S
    <2> QED
      BY <1>1, <1>2, <2>1, SetInduction
  <1>4. N \in S
    BY <1>3
  <1> DEFINE f == CHOOSE f : IsFlat(f, N)
  <1>5. IsFlat(f, N)
    <2>1. \E g : IsFlat(g, N)
      BY <1>4
    <2> HIDE DEF IsFlat
    <2> QED
      BY <2>1
  <1>6. FlattenSeq(B) = f[N]
    BY DEF FlattenSeq
  <1> HIDE DEF f
  <1> QED
    BY <1>5, <1>6

\* With one piece more the texts before it are the same.
LEMMA FlattenGrows ==
    ASSUME NEW P, NEW n \in Nat
    PROVE  LET Flat(k) == FlattenSeq([i \in 1 .. k |-> P[i]])
           IN  Flat(n + 1) = IF n = 0 THEN P[1] ELSE Flat(n) \o P[n + 1]
  <1> DEFINE B(k) == [i \in 1 .. k |-> P[i]]
             N == n + 1
  <1>0. Len(B(n)) = n /\ Len(B(n + 1)) = n + 1 /\ N \in Nat \ {0} /\ N - 1 = n
    OBVIOUS
  <1>1. PICK h : /\ h = [i \in 1 .. N |-> IF i = 1 THEN B(N)[i] ELSE h[i - 1] \o B(N)[i]]
                 /\ FlattenSeq(B(N)) = h[N]
    <2>1. Len(B(N)) \in Nat \ {0} /\ Len(B(N)) = N
      BY <1>0
    <2> HIDE DEF B, N
    <2> QED
      BY <2>1, FlattenIs
  <1>2. \A i \in 1 .. N : h[i] = IF i = 1 THEN P[i] ELSE h[i - 1] \o P[i]
    <2>1. \A i \in 1 .. N : B(N)[i] = P[i]
      OBVIOUS
    <2> HIDE DEF B, N
    <2> QED
      BY <1>1, <2>1
  <1>3. N \in 1 .. N
    BY <1>0
  <1>4. CASE n = 0
    <2>1. N = 1
      BY <1>4
    <2> HIDE DEF N
    <2>2. FlattenSeq(B(N)) = P[1]
      BY <1>1, <1>2, <1>3, <2>1
    <2> QED
      BY <1>4, <2>2 DEF N
  <1>5. CASE n # 0
    <2>1. PICK f : /\ f = [i \in 1 .. n |-> IF i = 1 THEN B(n)[i] ELSE f[i - 1] \o B(n)[i]]
                   /\ FlattenSeq(B(n)) = f[n]
      <3>1. Len(B(n)) \in Nat \ {0} /\ Len(B(n)) = n
        BY <1>0, <1>5
      <3> HIDE DEF B
      <3> QED
        BY <3>1, FlattenIs
    <2>2. \A i \in 1 .. n : f[i] = IF i = 1 THEN P[i] ELSE f[i - 1] \o P[i]
      <3>1. \A i \in 1 .. n : B(n)[i] = P[i]
        OBVIOUS
      <3> HIDE DEF B
      <3> QED
        BY <2>1, <3>1
    <2> DEFINE S == {k \in Nat : k \in 1 .. n => f[k] = h[k]}
    <2>3. S = Nat
      <3>1. 0 \in S
        OBVIOUS
      <3>2. ASSUME NEW k \in S PROVE k + 1 \in S
        <4> SUFFICES ASSUME k + 1 \in 1 .. n PROVE f[k + 1] = h[k + 1]
          OBVIOUS
        <4>1. k + 1 \in 1 .. N /\ (k + 1) - 1 = k /\ (k + 1 = 1 \/ k \in 1 .. n)
          BY <1>0
        <4>2. k + 1 # 1 => f[k] = h[k]
          BY <4>1
        <4> DEFINE j == k + 1
        <4>3. j \in 1 .. n /\ j \in 1 .. N /\ j - 1 = k /\ (j # 1 => f[k] = h[k])
          BY <4>1, <4>2
        <4> HIDE DEF j, S, N
        <4>4. f[j] = h[j]
          BY <1>2, <2>2, <4>3
        <4> QED
          BY <4>4 DEF j
      <3>3. S \in SUBSET Nat
        OBVIOUS
      <3> HIDE DEF S
      <3> QED
        BY <3>1, <3>2, <3>3, SetInduction
    <2>4. f[n] = h[n]
      <3>1. n \in S /\ n \in 1 .. n
        BY <1>5, <2>3
      <3> QED
        BY <3>1
    <2>5. N # 1
      BY <1>0, <1>5
    <2>6. FlattenSeq(B(N)) = FlattenSeq(B(n)) \o P[N]
      <3> HIDE DEF B, N
      <3> QED
        BY <1>0, <1>1, <1>2, <1>3, <2>1, <2>4, <2>5
    <2> QED
      BY <1>5, <2>6 DEF N
  <1> QED
    BY <1>4, <1>5

LEMMA UptoStarts ==
    ASSUME NEW s, NEW t
    PROVE  Upto(s, t, 0) = <<>>
  <1> DEFINE B == [i \in 1 .. 0 |-> IF Kept(t, i) THEN <<s[i]>> ELSE <<>>]
  <1>1. Len(B) = 0 /\ B = <<>>
    OBVIOUS
  <1>2. FlattenSeq(B) = B
    <2> HIDE DEF B
    <2> QED
      BY <1>1 DEF FlattenSeq
  <1> QED
    BY <1>1, <1>2 DEF Upto

LEMMA UptoNext ==
    ASSUME NEW s, NEW t, NEW n \in Nat, Upto(s, t, n) \in Seq(Symbol), s[n + 1] \in Symbol
    PROVE  /\ Upto(s, t, n + 1) \in Seq(Symbol)
           /\ Upto(s, t, n + 1) = IF Kept(t, n + 1) THEN Upto(s, t, n) \o <<s[n + 1]>>
                                  ELSE Upto(s, t, n)
  <1> DEFINE P == [i \in Nat |-> IF Kept(t, i) THEN <<s[i]>> ELSE <<>>]
             u == Upto(s, t, n)
             p == P[n + 1]
  <1>1. ASSUME NEW k \in Nat PROVE Upto(s, t, k) = FlattenSeq([i \in 1 .. k |-> P[i]])
    <2>1. [i \in 1 .. k |-> P[i]] = [i \in 1 .. k |-> IF Kept(t, i) THEN <<s[i]>> ELSE <<>>]
      OBVIOUS
    <2> QED
      BY <2>1 DEF Upto
  <1>2. p = IF Kept(t, n + 1) THEN <<s[n + 1]>> ELSE <<>>
    OBVIOUS
  <1>3. n + 1 \in Nat
    OBVIOUS
  <1>4. Upto(s, t, n + 1) = IF n = 0 THEN P[1] ELSE u \o p
    <2> HIDE DEF P
    <2>1. FlattenSeq([i \in 1 .. n + 1 |-> P[i]]) =
             IF n = 0 THEN P[1] ELSE FlattenSeq([i \in 1 .. n |-> P[i]]) \o P[n + 1]
      BY FlattenGrows
    <2>2. Upto(s, t, n + 1) = FlattenSeq([i \in 1 .. n + 1 |-> P[i]])
      BY <1>1, <1>3
    <2>3. Upto(s, t, n) = FlattenSeq([i \in 1 .. n |-> P[i]])
      BY <1>1
    <2> QED
      BY <2>1, <2>2, <2>3
  <1>5. p \in Seq(Symbol)
    <2>1. <<s[n + 1]>> \in Seq(Symbol) /\ <<>> \in Seq(Symbol)
      OBVIOUS
    <2> HIDE DEF p
    <2> QED
      BY <1>2, <2>1
  <1>6. n = 0 => u = <<>> /\ P[1] = p
    <2>1. n = 0 => u = <<>>
      BY UptoStarts
    <2>2. n = 0 => n + 1 = 1
      OBVIOUS
    <2> QED
      BY <2>1, <2>2
  <1> HIDE DEF u, p, P
  <1>7. Upto(s, t, n + 1) = u \o p
    <2>1. n = 0 => P[1] = u \o p
      BY <1>5, <1>6
    <2> QED
      BY <1>4, <2>1
  <1>8. u \in Seq(Symbol)
    BY DEF u
  <1>9. u \o p \in Seq(Symbol) /\ u \o <<>> = u
    BY <1>5, <1>8
  <1> QED
    BY <1>2, <1>7, <1>9 DEF u

LEMMA UptoIsText ==
    ASSUME NEW s \in Seq(Symbol), NEW t
    PROVE  \A n \in 0 .. Len(s) : Upto(s, t, n) \in Seq(Symbol)
  <1> DEFINE S == {n \in Nat : n <= Len(s) => Upto(s, t, n) \in Seq(Symbol)}
  <1>1. 0 \in S
    <2>1. <<>> \in Seq(Symbol)
      OBVIOUS
    <2> QED
      BY <2>1, UptoStarts
  <1>2. ASSUME NEW n \in S PROVE n + 1 \in S
    <2> SUFFICES ASSUME n + 1 <= Len(s) PROVE Upto(s, t, n + 1) \in Seq(Symbol)
      OBVIOUS
    <2>1. n \in Nat /\ n <= Len(s) /\ n + 1 \in 1 .. Len(s)
      BY TextIs
    <2>2. Upto(s, t, n) \in Seq(Symbol) /\ s[n + 1] \in Symbol
      BY <2>1, TextIs
    <2> QED
      BY <2>1, <2>2, UptoNext
  <1>3. S = Nat
    <2>1. S \in SUBSET Nat
      OBVIOUS
    <2> HIDE DEF S
    <2> QED
      BY <1>1, <1>2, <2>1, SetInduction
  <1> QED
    BY <1>3, TextIs

\* The first n characters and the next one.
LEMMA UptoStep ==
    ASSUME NEW s \in Seq(Symbol), NEW t, NEW n \in Nat, n + 1 <= Len(s)
    PROVE  Upto(s, t, n + 1) = IF Kept(t, n + 1) THEN Upto(s, t, n) \o <<s[n + 1]>>
                               ELSE Upto(s, t, n)
  <1>1. n \in 0 .. Len(s) /\ n + 1 \in 1 .. Len(s)
    BY TextIs
  <1>2. Upto(s, t, n) \in Seq(Symbol) /\ s[n + 1] \in Symbol
    BY <1>1, TextIs, UptoIsText
  <1> QED
    BY <1>2, UptoNext

\* Concatenation is associative.
LEMMA Regroup ==
    ASSUME NEW a \in Seq(Symbol), NEW b \in Seq(Symbol), NEW c \in Seq(Symbol)
    PROVE  (a \o b) \o c = a \o (b \o c)
  BY ConcatAssociative

\* One character more of a piece.
LEMMA PieceGrows ==
    ASSUME NEW s \in Seq(Symbol), NEW a \in Nat \ {0}, NEW n \in Nat, n + 1 <= Len(s), a <= n + 1,
           NEW u \in Seq(Symbol)
    PROVE  u \o SubSeq(s, a, n + 1) = (u \o SubSeq(s, a, n)) \o <<s[n + 1]>>
  <1> DEFINE x == SubSeq(s, a, n)
             y == SubSeq(s, a, n + 1)
             z == <<s[n + 1]>>
  <1>1. Len(s) \in Nat /\ n + 1 \in 1 .. Len(s) /\ s[n + 1] \in Symbol
    BY TextIs
  <1>2. x \in Seq(Symbol) /\ y \in Seq(Symbol) /\ z \in Seq(Symbol) /\ Len(z) = 1 /\ z[1] = s[n + 1]
    <2>1. x \in Seq(Symbol) /\ y \in Seq(Symbol)
      BY <1>1, Piece
    <2> QED
      BY <1>1, <2>1
  <1> DEFINE c == n - a + 1
  <1>3. c \in Nat
    BY <1>1
  <1>4. Len(x) = c /\ \A i \in 1 .. c : x[i] = s[a + i - 1]
    <2>1. \A i \in a .. n : s[i] \in Symbol
      BY TextIs
    <2>2. a \in Int /\ n \in Int /\ (a <= n => c = n - a + 1) /\ (~(a <= n) => c = 0)
      BY <1>1
    <2>3. /\ Len(SubSeq(s, a, n)) = (IF a <= n THEN n - a + 1 ELSE 0)
          /\ \A i \in 1 .. n - a + 1 : SubSeq(s, a, n)[i] = s[a + i - 1]
      BY <2>1, <2>2, SubSeqProperties
    <2> QED
      BY <2>2, <2>3
  <1>5. Len(y) = c + 1 /\ \A i \in 1 .. c + 1 : y[i] = s[a + i - 1]
    <2>1. \A i \in a .. n + 1 : s[i] \in Symbol
      BY <1>1, TextIs
    <2>2. a \in Int /\ n + 1 \in Int /\ a <= n + 1 /\ (n + 1) - a + 1 = c + 1
      BY <1>1
    <2>3. /\ Len(SubSeq(s, a, n + 1)) = (IF a <= n + 1 THEN (n + 1) - a + 1 ELSE 0)
          /\ \A i \in 1 .. (n + 1) - a + 1 : SubSeq(s, a, n + 1)[i] = s[a + i - 1]
      BY <2>1, <2>2, SubSeqProperties
    <2> QED
      BY <2>2, <2>3
  <1>6. a + (c + 1) - 1 = n + 1
    BY <1>1
  <1> HIDE DEF x, y, z, c
  <1>7. /\ x \o z \in Seq(Symbol) /\ Len(x \o z) = c + 1
        /\ \A i \in 1 .. c + 1 : (x \o z)[i] = IF i <= c THEN x[i] ELSE z[i - c]
    <2>1. /\ x \o z \in Seq(Symbol) /\ Len(x \o z) = Len(x) + Len(z)
          /\ \A i \in 1 .. Len(x) + Len(z) :
                (x \o z)[i] = IF i <= Len(x) THEN x[i] ELSE z[i - Len(x)]
      BY <1>2, ConcatProperties, ZenonT(30)
    <2>2. Len(x) = c /\ Len(z) = 1
      BY <1>2, <1>4
    <2> QED
      BY <2>1, <2>2
  <1>8. ASSUME NEW i \in 1 .. c + 1 PROVE (x \o z)[i] = y[i]
    <2>1. CASE i <= c
      <3>1. i \in 1 .. c
        BY <1>3, <2>1
      <3> QED
        BY <1>4, <1>5, <1>7, <2>1, <3>1
    <2>2. CASE ~(i <= c)
      <3>1. i = c + 1 /\ i - c = 1
        BY <1>3, <2>2
      <3> QED
        BY <1>2, <1>5, <1>6, <1>7, <2>2, <3>1
    <2> QED
      BY <2>1, <2>2
  <1>9. x \o z = y
    BY <1>2, <1>5, <1>7, <1>8, SeqEqual
  <1>10. (u \o x) \o z = u \o (x \o z)
    BY <1>2, Regroup
  <1> QED
    BY <1>9, <1>10 DEF x, y, z

\* Characters that are kept follow those before them.
LEMMA UptoKept ==
    ASSUME NEW s \in Seq(Symbol), NEW t, NEW m \in 0 .. Len(s), NEW n \in m .. Len(s),
           \A i \in m + 1 .. n : Kept(t, i)
    PROVE  Upto(s, t, n) = Upto(s, t, m) \o SubSeq(s, m + 1, n)
  <1> DEFINE u == Upto(s, t, m)
             Is(k) == Upto(s, t, k) = u \o SubSeq(s, m + 1, k)
             S == {k \in Nat : k \in m .. n => Is(k)}
  <1>1. Len(s) \in Nat /\ m \in Nat /\ n \in Nat /\ m <= n /\ n <= Len(s) /\ u \in Seq(Symbol)
    BY TextIs, UptoIsText
  <1>2. Is(m)
    <2>1. SubSeq(s, m + 1, m) = <<>>
      <3>1. m + 1 \in Int /\ m \in Int /\ m < m + 1
        BY <1>1
      <3> QED
        BY <3>1, SubSeqEmpty
    <2>2. u \o <<>> = u
      BY <1>1
    <2> QED
      BY <2>1, <2>2
  <1> HIDE DEF u
  <1>3. 0 \in S
    <2>1. 0 \in m .. n => m = 0
      BY <1>1
    <2> HIDE DEF Is
    <2> QED
      BY <1>2, <2>1
  <1>4. ASSUME NEW k \in S PROVE k + 1 \in S
    <2> HIDE DEF Is
    <2> SUFFICES ASSUME k + 1 \in m .. n PROVE Is(k + 1)
      OBVIOUS
    <2>1. CASE k + 1 = m
      BY <1>2, <2>1
    <2>2. CASE k + 1 # m
      <3>1. k \in Nat /\ k \in m .. n /\ k + 1 \in m + 1 .. n /\ k + 1 <= Len(s) /\ m + 1 <= k + 1
            /\ m + 1 \in Nat \ {0}
        BY <1>1, <2>2
      <3>2. Is(k) /\ Kept(t, k + 1)
        BY <3>1
      <3>3. Upto(s, t, k + 1) = Upto(s, t, k) \o <<s[k + 1]>>
        BY <3>1, <3>2, UptoStep
      <3>4. u \o SubSeq(s, m + 1, k + 1) = (u \o SubSeq(s, m + 1, k)) \o <<s[k + 1]>>
        <4> DEFINE a == m + 1
        <4>1. a \in Nat \ {0} /\ a <= k + 1
          BY <3>1
        <4> HIDE DEF a
        <4>2. u \o SubSeq(s, a, k + 1) = (u \o SubSeq(s, a, k)) \o <<s[k + 1]>>
          BY <1>1, <3>1, <4>1, PieceGrows, ZenonT(30)
        <4> QED
          BY <4>2 DEF a
      <3> QED
        BY <3>2, <3>3, <3>4 DEF Is
    <2> QED
      BY <2>1, <2>2
  <1>5. S = Nat
    <2>1. S \in SUBSET Nat
      OBVIOUS
    <2> HIDE DEF S
    <2> QED
      BY <1>3, <1>4, <2>1, SetInduction
  <1>6. Is(n)
    <2> HIDE DEF Is
    <2>1. n \in Nat /\ n \in m .. n
      BY <1>1
    <2>2. n \in S
      <3> HIDE DEF S
      <3> QED
        BY <1>5, <2>1
    <2> QED
      BY <2>1, <2>2
  <1> QED
    BY <1>6 DEF u

\* Characters that are taken leave nothing.
LEMMA UptoTaken ==
    ASSUME NEW s \in Seq(Symbol), NEW t, NEW m \in 0 .. Len(s), NEW n \in m .. Len(s),
           \A i \in m + 1 .. n : ~Kept(t, i)
    PROVE  Upto(s, t, n) = Upto(s, t, m)
  <1> DEFINE S == {k \in Nat : k \in m .. n => Upto(s, t, k) = Upto(s, t, m)}
  <1>1. Len(s) \in Nat /\ m \in Nat /\ n \in Nat /\ m <= n /\ n <= Len(s)
    BY TextIs
  <1>2. 0 \in S
    <2>1. 0 \in m .. n => m = 0
      BY <1>1
    <2> QED
      BY <2>1
  <1>3. ASSUME NEW k \in S PROVE k + 1 \in S
    <2> SUFFICES ASSUME k + 1 \in m .. n PROVE Upto(s, t, k + 1) = Upto(s, t, m)
      OBVIOUS
    <2>1. CASE k + 1 = m
      BY <2>1
    <2>2. CASE k + 1 # m
      <3>1. k \in Nat /\ k \in m .. n /\ k + 1 \in m + 1 .. n /\ k + 1 <= Len(s)
        BY <1>1, <2>2
      <3>2. Upto(s, t, k) = Upto(s, t, m) /\ ~Kept(t, k + 1)
        BY <3>1
      <3>3. Upto(s, t, k + 1) = Upto(s, t, k)
        BY <3>1, <3>2, UptoStep
      <3> QED
        BY <3>2, <3>3
    <2> QED
      BY <2>1, <2>2
  <1>4. S = Nat
    <2>1. S \in SUBSET Nat
      OBVIOUS
    <2> HIDE DEF S
    <2> QED
      BY <1>2, <1>3, <2>1, SetInduction
  <1> QED
    BY <1>1, <1>4

\* Intervals that take the same characters leave the same.
LEMMA UptoSame ==
    ASSUME NEW s, NEW t, NEW u, NEW n \in Nat, \A i \in 1 .. n : Kept(t, i) <=> Kept(u, i)
    PROVE  Upto(s, t, n) = Upto(s, u, n)
  <1>1. [i \in 1 .. n |-> IF Kept(t, i) THEN <<s[i]>> ELSE <<>>]
           = [i \in 1 .. n |-> IF Kept(u, i) THEN <<s[i]>> ELSE <<>>]
    OBVIOUS
  <1> QED
    BY <1>1 DEF Upto

-----------------------------------------------------------------------------
(* The readers. *)

IsList(l, n) == l = [i \in 1 .. n |-> l[i]]

\* The inductive invariant: the type invariant, for texts and subjects as they
\* arrive and with lists that can grow.
NInv ==
    /\ TypeOK
    /\ src \in Seq(Symbol) /\ subject \in Subject
    /\ Len(bins) \in Nat
    /\ IsList(bins, Len(bins)) /\ IsList(filenames, Len(bins)) /\ IsList(taken, Len(bins))

Advances ==
    \/ reader' = reader /\ currentPos' > currentPos
    \/ reader' = "done"
    \/ reader = "UUEncoded" /\ reader' = "YENCEncoded"

\* What is before a mark is text.
LEMMA TextBeforeIs ==
    ASSUME NInv, NEW from \in currentPos .. Len(src) + 1
    PROVE  TextBefore(from) \in Seq(Symbol)
  <1>1. text \in Seq(Symbol) /\ src \in Seq(Symbol) /\ currentPos \in Nat \ {0}
    BY TextIs DEF NInv, TypeOK
  <1>2. from - 1 \in Int
    BY <1>1
  <1>3. Mid(src, currentPos, from - 1) \in Seq(Symbol)
    BY <1>1, <1>2, MidIs
  <1> QED
    BY <1>1, <1>3 DEF TextBefore

\* The rest of the text is text.
LEMMA RestIsText ==
    ASSUME NInv, NEW before \in Seq(Symbol)
    PROVE  before \o Mid(src, currentPos, Len(src)) \in Seq(Symbol)
  <1>1. src \in Seq(Symbol) /\ currentPos \in Nat \ {0} /\ Len(src) \in Int
    BY TextIs DEF NInv, TypeOK
  <1>2. Mid(src, currentPos, Len(src)) \in Seq(Symbol)
    BY <1>1, MidIs
  <1> QED
    BY <1>2

\* The end of a reader keeps the invariant, and is an end.
LEMMA FinishKeeps ==
    ASSUME NInv, NEW before \in Seq(Symbol), NEW nr \in -1 .. IntMax, NEW total \in -1 .. IntMax,
           Finish(before, nr, total), reader # "done", src' = src, subject' = subject
    PROVE  NInv' /\ Advances
  <1>0. Len(src) \in Nat /\ IntMax \in Nat
    BY TextIs, NonMimeAssumption DEF NInv
  <1>1. bins' = bins /\ filenames' = filenames /\ taken' = taken
    BY DEF Finish
  <1>2. CASE bins # <<>> \/ (reader = "UUEncoded" /\ Partial(nr, total))
    <2>1. /\ found' = reader /\ reader' = "done" /\ partNr' = nr /\ totalNr' = total
          /\ text' = before \o Mid(src, currentPos, Len(src)) /\ currentPos' = currentPos
      BY <1>2 DEF Finish
    <2>2. text' \in Seq(Symbol)
      BY <2>1, RestIsText
    <2> QED
      BY <1>1, <2>1, <2>2 DEF NInv, TypeOK, IsList, Advances
  <1>3. CASE ~(bins # <<>> \/ (reader = "UUEncoded" /\ Partial(nr, total)))
    <2>1. /\ reader' = IF reader = "UUEncoded" THEN "YENCEncoded" ELSE "done"
          /\ currentPos' = 1 /\ text' = <<>> /\ partNr' = -1 /\ totalNr' = -1 /\ found' = found
      BY <1>3 DEF Finish
    <2>2. 1 \in 1 .. Len(src) + 1 /\ -1 \in -1 .. IntMax /\ <<>> \in Seq(Symbol)
      BY <1>0
    <2> QED
      BY <1>1, <2>1, <2>2 DEF NInv, TypeOK, IsList, Advances
  <1> QED
    BY <1>2, <1>3

\* An attachment keeps the invariant, and the reader goes on behind it.
LEMMA TakeKeeps ==
    ASSUME NInv, NEW from \in currentPos .. Len(src) + 1, NEW end \in Nat,
           end # 0 => end \in currentPos .. Len(src), NEW name, NEW binary,
           Take(from, end, name, binary), reader # "done", src' = src, subject' = subject,
           partNr' \in -1 .. IntMax, totalNr' \in -1 .. IntMax
    PROVE  NInv' /\ Advances
  <1> DEFINE before == TextBefore(from)
             n == Len(bins)
             last == <<from, IF end = 0 THEN Len(src) ELSE end>>
  <1>0. Len(src) \in Nat /\ currentPos \in 1 .. Len(src) + 1 /\ n \in Nat
    BY TextIs DEF NInv, TypeOK
  <1>1. bins' = Append(bins, binary) /\ filenames' = Append(filenames, name)
        /\ taken' = Append(taken, last)
    BY DEF Take, WithName
  <1> HIDE DEF last
  <1>2. before \in Seq(Symbol)
    BY TextBeforeIs
  <1> HIDE DEF before
  <1>3. /\ Len(bins') = n + 1 /\ Len(filenames') = n + 1 /\ Len(taken') = n + 1
        /\ IsList(bins', n + 1) /\ IsList(filenames', n + 1) /\ IsList(taken', n + 1)
    <2>1. bins = [i \in 1 .. n |-> bins[i]] /\ filenames = [i \in 1 .. n |-> filenames[i]]
          /\ taken = [i \in 1 .. n |-> taken[i]]
      BY DEF NInv, IsList
    <2> HIDE DEF n
    <2>2. Len(bins') = n + 1 /\ IsList(bins', n + 1)
      BY <1>0, <1>1, <2>1, OneMore DEF IsList
    <2>3. Len(filenames') = n + 1 /\ IsList(filenames', n + 1)
      BY <1>0, <1>1, <2>1, OneMore DEF IsList
    <2>4. Len(taken') = n + 1 /\ IsList(taken', n + 1)
      BY <1>0, <1>1, <2>1, OneMore DEF IsList
    <2> QED
      BY <2>2, <2>3, <2>4
  <1>4. n + 1 \in Nat
    BY <1>0
  <1>5. CASE end # 0
    <2>1. currentPos' = end + 1 /\ text' = before /\ reader' = reader /\ found' = found
      BY <1>5 DEF Take, SearchOn, before
    <2>2. end + 1 \in 1 .. Len(src) + 1 /\ end + 1 > currentPos
      BY <1>0, <1>5
    <2> HIDE DEF n
    <2> QED
      BY <1>2, <1>3, <1>4, <2>1, <2>2 DEF NInv, TypeOK, Advances
  <1>6. CASE end = 0
    <2>1. /\ text' = before \o Mid(src, currentPos, Len(src)) /\ currentPos' = currentPos
          /\ found' = reader /\ reader' = "done"
      BY <1>6 DEF Take, before
    <2>2. text' \in Seq(Symbol)
      BY <1>2, <2>1, RestIsText
    <2> HIDE DEF n
    <2> QED
      BY <1>3, <1>4, <2>1, <2>2 DEF NInv, TypeOK, Advances
  <1> QED
    BY <1>5, <1>6

\* The numbers that are set after a block was read.
LEMMA UUNumbersAre ==
    ASSUME NInv, UUAccepted
    PROVE  UUNumbers[1] \in -1 .. IntMax /\ UUNumbers[2] \in -1 .. IntMax
  <1>1. partNr \in -1 .. IntMax /\ totalNr \in -1 .. IntMax /\ subject \in Subject
    BY DEF NInv, TypeOK
  <1>2. CASE IsWhole(UUBlock) \/ subject = <<>>
    BY <1>1, <1>2 DEF UUNumbers
  <1>3. CASE ~(IsWhole(UUBlock) \/ subject = <<>>)
    <2>1. subject \in Nat \X Nat
      BY <1>1, <1>3 DEF UUAccepted, Subject
    <2>2. subject[1] \in Nat /\ subject[2] \in Nat
      BY <2>1
    <2>3. UUNumbers = <<ToInt(subject[1]), ToInt(subject[2])>>
      BY <1>3 DEF UUNumbers
    <2>4. \A n \in Nat : ToInt(n) \in -1 .. IntMax
      BY NonMimeAssumption DEF ToInt
    <2> QED
      BY <2>2, <2>3, <2>4
  <1> QED
    BY <1>2, <1>3

LEMMA IfSetIs ==
    ASSUME NEW new \in -1 .. IntMax, NEW old \in -1 .. IntMax
    PROVE  IfSet(new, old) \in -1 .. IntMax
  BY DEF IfSet

LEMMA InitKeeps == Init => NInv
  <1> SUFFICES ASSUME Init PROVE NInv
    OBVIOUS
  <1>1. src \in Seq(Symbol) /\ subject \in Subject
    BY ArticlesAssumption DEF Init
  <1>2. Len(src) \in Nat /\ IntMax \in Nat
    BY <1>1, TextIs, NonMimeAssumption
  <1>3. /\ reader = "UUEncoded" /\ currentPos = 1 /\ found = "none" /\ text = <<>>
        /\ bins = <<>> /\ filenames = <<>> /\ partNr = -1 /\ totalNr = -1 /\ taken = <<>>
    BY DEF Init
  <1>4. 1 \in 1 .. Len(src) + 1 /\ -1 \in -1 .. IntMax
    BY <1>2
  <1>5. <<>> \in Seq(Symbol) /\ Len(<<>>) = 0 /\ IsList(<<>>, 0)
    BY DEF IsList
  <1> QED
    BY <1>1, <1>3, <1>4, <1>5 DEF NInv, TypeOK

LEMMA StepKeeps ==
    ASSUME NInv, Next, ~UNCHANGED vars
    PROVE  NInv' /\ Advances
  <1>0. /\ src \in Seq(Symbol) /\ Len(src) \in Nat /\ currentPos \in 1 .. Len(src) + 1
        /\ text \in Seq(Symbol) /\ partNr \in -1 .. IntMax /\ totalNr \in -1 .. IntMax
    BY TextIs DEF NInv, TypeOK
  <1>1. /\ UUBlock.begin \in currentPos .. Len(src) + 1 /\ UUBlock.end \in Nat
        /\ ~UUBlock.giveUp => UUBlock.end >= currentPos
    BY <1>0, BlockGoesOn DEF UUBlock
  <1>2. HasYenc => YencBegin \in 1 .. Len(src) /\ YencBegin >= currentPos
    <2>1. YencBegin = 0 \/ (YencBegin \in 1 .. Len(src) /\ YencBegin >= currentPos)
      BY <1>0, IndexOfIs DEF YencBegin
    <2> QED
      BY <2>1 DEF HasYenc, StartsBlock
  <1> DEFINE b == YencBlock(src, YencBegin)
  <1>3. HasYenc => /\ IfSet(b.partNr, partNr) \in -1 .. IntMax
                   /\ IfSet(b.totalNr, totalNr) \in -1 .. IntMax
                   /\ b.valid => b.end \in YencBegin .. Len(src)
    BY <1>0, <1>2, YencGoesOn, IfSetIs
  <1>4. CASE UUEnd
    BY <1>0, <1>4, FinishKeeps DEF UUEnd
  <1>5. CASE UUBadName
    <2>1. TextBefore(UUBlock.begin) \in Seq(Symbol)
      BY <1>1, TextBeforeIs
    <2>2. UUNumbers[1] \in -1 .. IntMax /\ UUNumbers[2] \in -1 .. IntMax
      BY <1>5, UUNumbersAre DEF UUBadName
    <2> QED
      BY <1>5, <2>1, <2>2, FinishKeeps DEF UUBadName
  <1>6. CASE UUTake
    <2> DEFINE end == IndexOf(src, LF, UUBlock.end + 1)
    <2>1. UUBlock.end >= currentPos /\ UUBlock.end + 1 \in Nat
      BY <1>1, <1>6 DEF UUTake, UUAccepted
    <2>2. end = 0 \/ (end \in 1 .. Len(src) /\ end >= UUBlock.end + 1)
      BY <1>0, <2>1, IndexOfIs
    <2>3. /\ Take(UUBlock.begin, end, FileName(src, UUBlock),
                  Mid(src, UUBlock.begin, UUBlock.end + 2))
          /\ reader # "done" /\ src' = src /\ subject' = subject
      BY <1>6 DEF UUTake
    <2>4. partNr' \in -1 .. IntMax /\ totalNr' \in -1 .. IntMax
      BY <1>6, UUNumbersAre DEF UUTake
    <2> HIDE DEF end
    <2>5. end \in Nat /\ (end # 0 => end \in currentPos .. Len(src))
      BY <1>0, <1>1, <2>1, <2>2
    <2> QED
      BY <1>1, <2>3, <2>4, <2>5, TakeKeeps
  <1>7. CASE YencEnd
    <2>1. reader # "done" /\ src' = src /\ subject' = subject
      BY <1>7 DEF YencEnd
    <2>2. CASE Finish(text, partNr, totalNr)
      BY <1>0, <2>1, <2>2, FinishKeeps
    <2>3. CASE HasYenc /\ Finish(text, IfSet(b.partNr, partNr), IfSet(b.totalNr, totalNr))
      <3> HIDE DEF b
      <3> QED
        BY <1>0, <1>3, <2>1, <2>3, FinishKeeps
    <2> QED
      BY <1>7, <2>2, <2>3 DEF YencEnd
  <1>8. CASE YencTake
    <2>1. /\ HasYenc /\ b.valid /\ reader # "done" /\ src' = src /\ subject' = subject
          /\ Take(YencBegin, b.end, b.name, b.binary)
          /\ partNr' = IfSet(b.partNr, partNr) /\ totalNr' = IfSet(b.totalNr, totalNr)
      BY <1>8 DEF YencTake
    <2> HIDE DEF b
    <2>2. YencBegin \in currentPos .. Len(src) + 1 /\ b.end \in Nat
          /\ b.end \in currentPos .. Len(src)
      BY <1>0, <1>2, <1>3, <2>1
    <2>3. partNr' \in -1 .. IntMax /\ totalNr' \in -1 .. IntMax
      BY <1>3, <2>1
    <2> QED
      BY <2>1, <2>2, <2>3, TakeKeeps
  <1> QED
    BY <1>4, <1>5, <1>6, <1>7, <1>8 DEF Next, Done

LEMMA NextKeeps == NInv /\ [Next]_vars => NInv' /\ [Advances]_vars
  <1> SUFFICES ASSUME NInv, [Next]_vars PROVE NInv' /\ [Advances]_vars
    OBVIOUS
  <1>1. CASE UNCHANGED vars
    BY <1>1 DEF vars, result, NInv, TypeOK, IsList
  <1>2. CASE ~UNCHANGED vars
    BY <1>2, StepKeeps
  <1> QED
    BY <1>1, <1>2

LEMMA ReadersInvariant == Spec => []NInv
  BY InitKeeps, NextKeeps, PTL DEF Spec

\* TypeOK of NonMime: whatever the text and the Subject are, the cursors of
\* UUEncoded and YENCEncoded stay in the text, every attachment has its entry in
\* the list of names, and the numbers of a part fit into an int.
THEOREM ReadersStayInText == Spec => []TypeOK
  <1>1. NInv => TypeOK
    BY DEF NInv
  <1> QED
    BY <1>1, ReadersInvariant, PTL

\* Neither reader is caught in a loop: a turn of parse() goes on behind the block
\* that it took, or is the last one.
THEOREM ReadersAlwaysAdvance == Spec => ReadersAdvance
  <1>1. NInv /\ [Next]_vars => [Advances]_vars
    BY NextKeeps
  <1> QED
    BY <1>1, ReadersInvariant, PTL DEF Spec, ReadersAdvance, Advances
-----------------------------------------------------------------------------
(* What becomes text. *)

\* The first position in S is the one that is in S and not behind another.
LEMMA FirstIsThat ==
    ASSUME NEW n \in Nat, NEW S \in SUBSET (1 .. n), NEW x \in S, \A i \in S : x <= i
    PROVE  First(S) = x
  <1>1. First(S) \in 0 .. n /\ x \in 1 .. n
    BY FirstIs
  <1>2. First(S) # 0
    BY FirstIs
  <1>3. First(S) \in S /\ First(S) <= x
    BY <1>2, FirstIs
  <1>4. x <= First(S)
    BY <1>3
  <1> QED
    BY <1>1, <1>3, <1>4

\* A mark that is found is found again from where it is.
LEMMA MarkerAgain ==
    ASSUME NEW s \in Seq(Symbol), NEW pos \in 1 .. Len(s) + 1, FindUuencodeBeginMarker(s, pos) # 0
    PROVE  LET marker == FindUuencodeBeginMarker(s, pos)
           IN  /\ marker \in pos .. Len(s) - 1 /\ s[marker] = Keyword("begin")
               /\ FindUuencodeBeginMarker(s, marker) = marker
  <1> DEFINE S(p) == {i \in DOMAIN s : i >= p /\ s[i] = Keyword("begin") /\ i < Len(s)}
             marker == First(S(pos))
  <1>1. Len(s) \in Nat /\ \A p : S(p) \in SUBSET (1 .. Len(s))
    OBVIOUS
  <1>2. \A p : FindUuencodeBeginMarker(s, p) = First(S(p))
    BY DEF FindUuencodeBeginMarker
  <1>3. marker \in S(pos)
    <2>1. S(pos) \in SUBSET (1 .. Len(s)) /\ First(S(pos)) # 0
      BY <1>1, <1>2
    <2> HIDE DEF S
    <2> QED
      BY <1>1, <2>1, FirstIs
  <1> HIDE DEF marker
  <1>4. marker \in 1 .. Len(s) /\ marker >= pos /\ marker < Len(s) /\ s[marker] = Keyword("begin")
    BY <1>3
  <1>5. marker \in S(marker) /\ \A i \in S(marker) : marker <= i
    BY <1>4
  <1>6. First(S(marker)) = marker
    <2>1. S(marker) \in SUBSET (1 .. Len(s))
      BY <1>1
    <2> HIDE DEF S
    <2> QED
      BY <1>1, <1>5, <2>1, FirstIsThat
  <1>7. marker \in pos .. Len(s) - 1
    BY <1>1, <1>4
  <1> QED
    BY <1>2, <1>4, <1>6, <1>7 DEF marker

\* A block with both marks starts with a mark at the start of a line, and when
\* the last line is complete it has a last line.
LEMMA WholeBlock ==
    ASSUME NEW s \in Seq(Symbol), NEW pos \in 1 .. Len(s) + 1, IsWhole(FindUUBlock(s, pos)),
           ~FindUUBlock(s, pos).giveUp
    PROVE  LET b == FindUUBlock(s, pos)
           IN  /\ b.begin \in pos .. Len(s) /\ s[b.begin] = Keyword("begin")
               /\ StartsLine(s, b.begin)
               /\ FindUUBlock(s, b.begin) = b
               /\ b.end \in b.begin .. Len(s) - 1
               /\ s[b.end + 1] = Keyword("end")
  <1> DEFINE Starts(marker, p) == IF StartsBlock(s, marker) THEN IndexOf(s, LF, marker) + 1 ELSE p
             EndsFrom(start) == {i \in DOMAIN s : i >= start - 1 /\ i < Len(s) /\ s[i] = LF
                                                  /\ s[i + 1] = Keyword("end")}
             Block(marker, p) ==
                LET containsBegin == StartsBlock(s, marker)
                    start == Starts(marker, p)
                    ends == EndsFrom(start)
                    containsEnd == containsBegin /\ ends # {}
                IN  [containsBegin |-> containsBegin, containsEnd |-> containsEnd,
                     begin |-> IF containsBegin THEN marker ELSE p, start |-> start,
                     end |-> IF containsEnd THEN Min(ends) ELSE Len(s) + 1,
                     giveUp |-> containsBegin /\ start = 1]
             marker == FindUuencodeBeginMarker(s, pos)
             b == FindUUBlock(s, pos)
  <1>1. \A p : FindUUBlock(s, p) = Block(FindUuencodeBeginMarker(s, p), p)
    BY DEF FindUUBlock
  <1>2. b = Block(marker, pos)
    BY <1>1
  <1>3. StartsBlock(s, marker) /\ EndsFrom(Starts(marker, pos)) # {}
    <2>1. b.containsBegin /\ b.containsEnd
      BY DEF IsWhole
    <2>2. /\ Block(marker, pos).containsBegin = StartsBlock(s, marker)
          /\ Block(marker, pos).containsEnd =
                (StartsBlock(s, marker) /\ EndsFrom(Starts(marker, pos)) # {})
      OBVIOUS
    <2> HIDE DEF Block, b, marker, EndsFrom, Starts
    <2> QED
      BY <1>2, <2>1, <2>2
  <1> DEFINE i == IndexOf(s, LF, marker)
             ends == EndsFrom(i + 1)
             end == Min(ends)
  <1>4. Starts(marker, pos) = i + 1 /\ Starts(marker, marker) = i + 1
    BY <1>3
  <1>5. /\ b.begin = marker /\ b.end = end /\ (b.giveUp <=> i + 1 = 1)
        /\ Block(marker, marker) = Block(marker, pos)
    <2> HIDE DEF EndsFrom, marker, i, b
    <2>1. ends # {}
      BY <1>3, <1>4
    <2> HIDE DEF Starts
    <2> QED
      BY <1>2, <1>3, <1>4, <2>1
  <1>6. marker # 0 /\ StartsLine(s, marker)
    BY <1>3 DEF StartsBlock
  <1>7. /\ marker \in pos .. Len(s) - 1 /\ s[marker] = Keyword("begin")
        /\ FindUuencodeBeginMarker(s, marker) = marker
    BY <1>6, MarkerAgain
  <1>8. FindUUBlock(s, marker) = b
    <2> HIDE DEF Block, marker, b
    <2> QED
      BY <1>1, <1>2, <1>5, <1>7
  <1>9. Len(s) \in Nat /\ marker \in 1 .. Len(s) /\ marker \in Nat
    BY <1>7, TextIs
  <1>10. i \in marker .. Len(s)
    <2>1. i = 0 \/ (i \in 1 .. Len(s) /\ i >= marker)
      BY <1>9, IndexOfIs
    <2>2. i # 0
      <3>1. ~b.giveUp
        OBVIOUS
      <3> HIDE DEF i, b, end, Block
      <3> QED
        BY <1>5, <3>1
    <2> HIDE DEF i
    <2> QED
      BY <1>9, <2>1, <2>2
  <1>11. end \in ends
    <2>1. ends # {}
      <3> HIDE DEF EndsFrom, Starts
      <3> QED
        BY <1>3, <1>4
    <2>2. ends \in SUBSET Nat
      BY <1>9
    <2> HIDE DEF ends
    <2> QED
      BY <2>1, <2>2, LeastNat
  <1> HIDE DEF i, end, b, marker, Block, Starts
  <1>12. end \in 1 .. Len(s) /\ end >= i /\ end < Len(s) /\ s[end + 1] = Keyword("end")
    BY <1>9, <1>10, <1>11
  <1>13. end \in marker .. Len(s) - 1 /\ marker \in pos .. Len(s)
    BY <1>7, <1>9, <1>10, <1>12
  <1> QED
    BY <1>5, <1>6, <1>7, <1>8, <1>12, <1>13 DEF b

\* Behind it there is a newline.
LEMMA LastLineEnds ==
    ASSUME NEW s \in Seq(Symbol), s # <<>>, Last(s) = LF, NEW from \in 1 .. Len(s)
    PROVE  IndexOf(s, LF, from) \in from .. Len(s)
  <1> DEFINE S == {i \in DOMAIN s : i >= from /\ s[i] = LF}
  <1>1. Len(s) \in Nat /\ S \in SUBSET (1 .. Len(s)) /\ IndexOf(s, LF, from) = First(S)
    BY TextIs DEF IndexOf
  <1>2. Len(s) \in S
    BY <1>1 DEF Last
  <1>3. First(S) \in S
    <2> HIDE DEF S
    <2> QED
      BY <1>1, <1>2, FirstIs
  <1>4. First(S) \in from .. Len(s)
    BY <1>3, <1>1
  <1> QED
    BY <1>1, <1>4

\* The inductive invariant of the texts: what a reader has passed is text
\* without what it took, and it took nothing from where it is on.  When the
\* first block of a tidy text is read nothing was taken yet.
KInv ==
    /\ NInv
    /\ taken \in Seq(Nat \X Nat)
    /\ reader # "done" => \A k \in DOMAIN taken : taken[k][2] < currentPos
    /\ reader = "YENCEncoded" \/ (reader = "UUEncoded" /\ Tidy)
          => text = Upto(src, taken, currentPos - 1)
    /\ reader = "UUEncoded" /\ bins = <<>> => currentPos = 1
    /\ TextIsTheRest

\* What is between the reader and "from" was not taken.
LEMMA TextFollows ==
    ASSUME KInv, reader # "done", text = Upto(src, taken, currentPos - 1),
           NEW from \in currentPos .. Len(src) + 1
    PROVE  text \o Mid(src, currentPos, from - 1) = Upto(src, taken, from - 1)
  <1> DEFINE m == currentPos - 1
             n == from - 1
  <1>1. src \in Seq(Symbol) /\ Len(src) \in Nat /\ currentPos \in 1 .. Len(src) + 1
    BY TextIs DEF KInv, NInv, TypeOK
  <1>2. /\ m \in 0 .. Len(src) /\ n \in m .. Len(src) /\ m + 1 = currentPos
        /\ n \in Int /\ n <= Len(src)
    BY <1>1
  <1>3. Mid(src, currentPos, n) = SubSeq(src, currentPos, n)
    <2>1. CASE n < Len(src)
      BY <2>1 DEF Mid
    <2>2. CASE ~(n < Len(src))
      <3>1. n = Len(src)
        BY <1>1, <1>2, <2>2
      <3> HIDE DEF n
      <3> QED
        BY <2>2, <3>1 DEF Mid
    <2> QED
      BY <2>1, <2>2
  <1>4. ASSUME NEW i \in m + 1 .. n PROVE Kept(taken, i)
    <2> SUFFICES ASSUME NEW k \in DOMAIN taken PROVE i > taken[k][2]
      BY DEF Kept
    <2>1. taken[k][2] < currentPos /\ taken[k][2] \in Nat
      BY DEF KInv
    <2>2. i >= currentPos /\ i \in Int
      BY <1>1, <1>2
    <2> QED
      BY <1>1, <2>1, <2>2
  <1> HIDE DEF m, n
  <1>5. Upto(src, taken, n) = Upto(src, taken, m) \o SubSeq(src, m + 1, n)
    BY <1>1, <1>2, <1>4, UptoKept
  <1> QED
    BY <1>2, <1>3, <1>5 DEF m, n

\* What is taken leaves what is before it.
LEMMA TakenLeaves ==
    ASSUME KInv, NEW from \in 1 .. Len(src), NEW end \in from .. Len(src)
    PROVE  Upto(src, Append(taken, <<from, end>>), end) = Upto(src, taken, from - 1)
  <1> DEFINE t == Append(taken, <<from, end>>)
             m == from - 1
             n == Len(taken)
  <1>1. src \in Seq(Symbol) /\ Len(src) \in Nat /\ from \in Nat /\ end \in Nat /\ from <= end
    BY TextIs DEF KInv, NInv
  <1>2. /\ taken \in Seq(Nat \X Nat) /\ n \in Nat /\ DOMAIN taken = 1 .. n
        /\ DOMAIN t = 1 .. n + 1 /\ t[n + 1] = <<from, end>>
        /\ \A k \in 1 .. n : t[k] = taken[k]
    <2>1. taken \in Seq(Nat \X Nat) /\ <<from, end>> \in Nat \X Nat
      BY <1>1 DEF KInv
    <2> QED
      BY <2>1
  <1> HIDE DEF t
  <1>3. ASSUME NEW i \in 1 .. m PROVE Kept(t, i) <=> Kept(taken, i)
    <2>1. i < t[n + 1][1] /\ n + 1 \in 1 .. n + 1
      BY <1>1, <1>2
    <2>2. ASSUME Kept(taken, i), NEW k \in 1 .. n + 1 PROVE i < t[k][1] \/ i > t[k][2]
      <3>1. CASE k = n + 1
        BY <2>1, <3>1
      <3>2. CASE k # n + 1
        <4>1. k \in 1 .. n
          BY <1>2, <3>2
        <4> QED
          BY <1>2, <2>2, <4>1 DEF Kept
      <3> QED
        BY <3>1, <3>2
    <2>3. ASSUME Kept(t, i), NEW k \in 1 .. n PROVE i < taken[k][1] \/ i > taken[k][2]
      <3>1. k \in 1 .. n + 1
        BY <1>2
      <3>2. i < t[k][1] \/ i > t[k][2]
        BY <1>2, <2>3, <3>1 DEF Kept
      <3> QED
        BY <1>2, <3>2
    <2>4. Kept(taken, i) => Kept(t, i)
      BY <1>2, <2>2 DEF Kept
    <2>5. Kept(t, i) => Kept(taken, i)
      BY <1>2, <2>3 DEF Kept
    <2> QED
      BY <2>4, <2>5
  <1>4. ASSUME NEW i \in m + 1 .. end PROVE ~Kept(t, i)
    <2>1. ~(i < from \/ i > end) /\ t[n + 1][1] = from /\ t[n + 1][2] = end
          /\ n + 1 \in 1 .. n + 1
      BY <1>1, <1>2
    <2> QED
      BY <1>2, <2>1 DEF Kept
  <1>5. m \in Nat /\ m \in 0 .. Len(src) /\ end \in m .. Len(src)
    BY <1>1
  <1> HIDE DEF m
  <1>6. Upto(src, t, end) = Upto(src, t, m)
    BY <1>1, <1>4, <1>5, UptoTaken
  <1>7. Upto(src, t, m) = Upto(src, taken, m)
    BY <1>3, <1>5, UptoSame
  <1> QED
    BY <1>6, <1>7 DEF m, t

\* The end of a reader: with attachments the rest is text.
LEMMA FinishLeavesRest ==
    ASSUME KInv, NInv', reader # "done", src' = src, NEW before, NEW nr, NEW total,
           Finish(before, nr, total),
           (reader = "YENCEncoded" \/ Tidy) /\ bins # <<>> => before = text
    PROVE  KInv'
  <1>0. /\ NInv /\ taken \in Seq(Nat \X Nat) /\ reader \in {"UUEncoded", "YENCEncoded"}
        /\ Len(taken) = Len(bins)
    BY DEF KInv, NInv, TypeOK
  <1>t. Tidy' <=> Tidy
    BY DEF Tidy
  <1>1. bins' = bins /\ taken' = taken
    BY DEF Finish
  <1>2. CASE bins # <<>>
    <2>1. /\ found' = reader /\ reader' = "done"
          /\ text' = before \o Mid(src, currentPos, Len(src))
      BY <1>2 DEF Finish
    <2>2. ASSUME reader = "YENCEncoded" \/ Tidy PROVE text' = Rest'
      <3>1. text = Upto(src, taken, currentPos - 1) /\ before = text
        BY <1>0, <1>2, <2>2 DEF KInv
      <3>2. /\ Len(src) \in Nat /\ Len(src) + 1 \in currentPos .. Len(src) + 1
            /\ (Len(src) + 1) - 1 = Len(src)
        BY TextIs DEF KInv, NInv, TypeOK
      <3>3. text \o Mid(src, currentPos, Len(src)) = Upto(src, taken, Len(src))
        BY <3>1, <3>2, TextFollows
      <3> QED
        BY <1>1, <2>1, <3>1, <3>3 DEF Rest
    <2>3. TextIsTheRest'
      BY <1>0, <1>t, <2>1, <2>2 DEF TextIsTheRest
    <2> QED
      BY <1>0, <1>1, <2>1, <2>3 DEF KInv
  <1>3. CASE bins = <<>>
    <2>1. taken = <<>>
      BY <1>0, <1>3
    <2>2. TextIsTheRest'
      BY <1>1, <1>3 DEF TextIsTheRest
    <2>3. CASE reader' = "done"
      BY <1>0, <1>1, <2>2, <2>3 DEF KInv
    <2>4. CASE reader' # "done"
      <3>1. reader' = "YENCEncoded" /\ currentPos' = 1 /\ text' = <<>>
        BY <2>4, <1>3 DEF Finish
      <3>2. currentPos' - 1 = 0
        BY <3>1
      <3>3. text' = Upto(src', taken', currentPos' - 1)
        BY <3>1, <3>2, UptoStarts
      <3>4. \A k \in DOMAIN taken' : taken'[k][2] < currentPos'
        BY <1>1, <2>1
      <3> QED
        BY <1>0, <1>1, <2>2, <3>1, <3>3, <3>4 DEF KInv
    <2> QED
      BY <2>3, <2>4
  <1> QED
    BY <1>2, <1>3

\* An attachment: what is before it is text.
LEMMA TakeLeavesRest ==
    ASSUME KInv, NInv', reader # "done", src' = src, NEW from \in currentPos .. Len(src) + 1,
           NEW end \in Nat, end # 0 => end \in currentPos .. Len(src), NEW name, NEW binary,
           Take(from, end, name, binary),
           reader = "YENCEncoded" \/ Tidy => end # 0 /\ from <= end
    PROVE  KInv'
  <1>0. /\ NInv /\ taken \in Seq(Nat \X Nat) /\ reader \in {"UUEncoded", "YENCEncoded"}
        /\ src \in Seq(Symbol) /\ Len(src) \in Nat /\ currentPos \in 1 .. Len(src) + 1
    BY TextIs DEF KInv, NInv, TypeOK
  <1>t. Tidy' <=> Tidy
    BY DEF Tidy
  <1> DEFINE last == <<from, IF end = 0 THEN Len(src) ELSE end>>
             n == Len(taken)
  <1>1. bins' = Append(bins, binary) /\ taken' = Append(taken, last)
    BY DEF Take
  <1>2. last \in Nat \X Nat
    BY <1>0
  <1>3. /\ taken' \in Seq(Nat \X Nat) /\ n \in Nat /\ DOMAIN taken' = 1 .. n + 1
        /\ taken'[n + 1] = last /\ \A k \in 1 .. n : taken'[k] = taken[k] /\ k \in DOMAIN taken
    <2> HIDE DEF last
    <2> QED
      BY <1>0, <1>1, <1>2
  <1>4. bins' # <<>>
    <2>1. Len(bins') = Len(taken')
      BY DEF NInv, TypeOK
    <2>2. Len(taken') = n + 1
      BY <1>3
    <2>3. Len(bins') # 0
      BY <1>3, <2>1, <2>2
    <2> QED
      BY <2>3
  <1>5. CASE end # 0
    <2>1. /\ currentPos' = end + 1 /\ reader' = reader
          /\ text' = text \o Mid(src, currentPos, from - 1)
      BY <1>5 DEF Take, SearchOn, TextBefore
    <2>2. last = <<from, end>>
      BY <1>5
    <2>3. ASSUME NEW k \in DOMAIN taken' PROVE taken'[k][2] < currentPos'
      <3>1. CASE k = n + 1
        BY <1>3, <2>1, <2>2, <3>1, SMTT(30)
      <3>2. CASE k # n + 1
        <4>1. k \in 1 .. n
          BY <1>3, <3>2
        <4>2. taken[k][2] < currentPos /\ taken'[k] = taken[k] /\ taken[k][2] \in Nat
          BY <1>0, <1>3, <4>1 DEF KInv
        <4> QED
          BY <1>0, <1>5, <2>1, <4>2, SMTT(30)
      <3> QED
        BY <3>1, <3>2
    <2>4. ASSUME reader = "YENCEncoded" \/ Tidy
          PROVE  text' = Upto(src', taken', currentPos' - 1)
      <3>1. from \in 1 .. Len(src) /\ end \in from .. Len(src)
        BY <1>0, <1>5, <2>4
      <3>2. Upto(src, taken', end) = Upto(src, taken, from - 1)
        BY <1>1, <2>2, <3>1, TakenLeaves
      <3>3. text = Upto(src, taken, currentPos - 1)
        BY <1>0, <2>4 DEF KInv
      <3>4. text' = Upto(src, taken, from - 1)
        BY <2>1, <3>3, TextFollows
      <3>5. currentPos' - 1 = end
        BY <2>1
      <3> QED
        BY <3>2, <3>4, <3>5
    <2>5. TextIsTheRest'
      BY <2>1 DEF TextIsTheRest
    <2> QED
      BY <1>t, <1>3, <1>4, <2>1, <2>3, <2>4, <2>5 DEF KInv
  <1>6. CASE end = 0
    <2>1. found' = reader /\ reader' = "done"
      BY <1>6 DEF Take
    <2>2. reader = "UUEncoded" /\ ~Tidy
      BY <1>0, <1>6
    <2>3. TextIsTheRest'
      BY <1>t, <2>1, <2>2 DEF TextIsTheRest
    <2> QED
      BY <1>3, <1>4, <2>1, <2>3 DEF KInv
  <1> QED
    BY <1>5, <1>6

\* In a tidy text a block that is accepted has both its marks and a proper name.
LEMMA TidyBlock ==
    ASSUME KInv, reader = "UUEncoded", UUAccepted, Tidy
    PROVE  /\ ProperName(src, UUBlock)
           /\ LET end == IndexOf(src, LF, UUBlock.end + 1)
              IN  end # 0 /\ UUBlock.begin <= end
  <1> DEFINE b == UUBlock
  <1>0. /\ src \in Seq(Symbol) /\ Len(src) \in Nat /\ currentPos \in 1 .. Len(src) + 1
    BY TextIs DEF KInv, NInv, TypeOK
  <1>1. IsWhole(FindUUBlock(src, currentPos)) /\ ~FindUUBlock(src, currentPos).giveUp
        /\ b = FindUUBlock(src, currentPos)
    <2>1. CASE bins = <<>>
      <3>1. currentPos = 1
        BY <2>1 DEF KInv
      <3> QED
        BY <3>1 DEF Tidy, UUAccepted, UUBlock
    <2>2. CASE bins # <<>>
      BY <2>2 DEF UUAccepted, UUBlock
    <2> QED
      BY <2>1, <2>2
  <1>2. /\ b.begin \in currentPos .. Len(src) /\ src[b.begin] = Keyword("begin")
        /\ StartsLine(src, b.begin) /\ FindUUBlock(src, b.begin) = b
        /\ b.end \in b.begin .. Len(src) - 1
    <2> HIDE DEF b
    <2> QED
      BY <1>0, <1>1, WholeBlock
  <1>3. ProperName(src, b)
    <2>1. b.begin \in DOMAIN src
      BY <1>0, <1>2
    <2> HIDE DEF b
    <2>2. ProperName(src, FindUUBlock(src, b.begin))
      BY <1>2, <2>1 DEF Tidy
    <2> QED
      BY <1>2, <2>2
  <1> DEFINE from == b.end + 1
             end == IndexOf(src, LF, from)
  <1>4. from \in 1 .. Len(src) /\ from > b.begin /\ b.begin \in Nat
    <2> HIDE DEF b
    <2> QED
      BY <1>0, <1>2
  <1>5. end \in from .. Len(src)
    <2>1. src # <<>> /\ Last(src) = LF
      BY <1>0, <1>4 DEF Tidy
    <2> HIDE DEF from
    <2> QED
      BY <1>0, <1>4, <2>1, LastLineEnds
  <1>6. end # 0 /\ b.begin <= end
    <2> HIDE DEF end, from, b
    <2> QED
      BY <1>0, <1>4, <1>5
  <1> QED
    BY <1>3, <1>6

LEMMA InitKeepsRest == Init => KInv
  <1> SUFFICES ASSUME Init PROVE KInv
    OBVIOUS
  <1>1. NInv
    BY InitKeeps
  <1>2. /\ reader = "UUEncoded" /\ currentPos = 1 /\ bins = <<>> /\ taken = <<>> /\ text = <<>>
    BY DEF Init
  <1>3. text = Upto(src, taken, currentPos - 1)
    <2>1. currentPos - 1 = 0
      BY <1>2
    <2> QED
      BY <1>2, <2>1, UptoStarts
  <1>4. TextIsTheRest
    BY <1>2 DEF TextIsTheRest
  <1> QED
    BY <1>1, <1>2, <1>3, <1>4 DEF KInv

LEMMA StepKeepsRest ==
    ASSUME KInv, Next, ~UNCHANGED vars
    PROVE  KInv'
  <1>0. /\ NInv /\ src \in Seq(Symbol) /\ Len(src) \in Nat /\ currentPos \in 1 .. Len(src) + 1
    BY TextIs DEF KInv, NInv, TypeOK
  <1>n. NInv'
    BY <1>0, StepKeeps
  <1>1. /\ UUBlock.begin \in currentPos .. Len(src) + 1 /\ UUBlock.end \in Nat
        /\ ~UUBlock.giveUp => UUBlock.end >= currentPos
    BY <1>0, BlockGoesOn DEF UUBlock
  <1>2. HasYenc => YencBegin \in 1 .. Len(src) /\ YencBegin >= currentPos
    <2>1. YencBegin = 0 \/ (YencBegin \in 1 .. Len(src) /\ YencBegin >= currentPos)
      BY <1>0, IndexOfIs DEF YencBegin
    <2> QED
      BY <2>1 DEF HasYenc, StartsBlock
  <1> DEFINE b == YencBlock(src, YencBegin)
  <1>3. HasYenc /\ b.valid => b.end \in YencBegin .. Len(src)
    BY <1>0, <1>2, YencGoesOn
  <1>4. CASE UUEnd
    BY <1>n, <1>4, FinishLeavesRest DEF UUEnd
  <1>5. CASE UUBadName
    <2>1. ~Tidy /\ reader = "UUEncoded"
      BY <1>5, TidyBlock DEF UUBadName
    <2> QED
      BY <1>n, <1>5, <2>1, FinishLeavesRest DEF UUBadName
  <1>6. CASE UUTake
    <2> DEFINE end == IndexOf(src, LF, UUBlock.end + 1)
    <2>1. UUBlock.end >= currentPos /\ UUBlock.end + 1 \in Nat
      BY <1>1, <1>6 DEF UUTake, UUAccepted
    <2>2. end = 0 \/ (end \in 1 .. Len(src) /\ end >= UUBlock.end + 1)
      BY <1>0, <2>1, IndexOfIs
    <2>3. /\ Take(UUBlock.begin, end, FileName(src, UUBlock),
                  Mid(src, UUBlock.begin, UUBlock.end + 2))
          /\ reader = "UUEncoded" /\ src' = src
      BY <1>6 DEF UUTake
    <2>4. Tidy => end # 0 /\ UUBlock.begin <= end
      BY <1>6, TidyBlock DEF UUTake
    <2> HIDE DEF end
    <2>5. end \in Nat /\ (end # 0 => end \in currentPos .. Len(src))
      BY <1>0, <1>1, <2>1, <2>2
    <2> QED
      BY <1>n, <1>1, <2>3, <2>4, <2>5, TakeLeavesRest
  <1>7. CASE YencEnd
    <2>1. reader # "done" /\ src' = src
      BY <1>7 DEF YencEnd
    <2>2. CASE Finish(text, partNr, totalNr)
      BY <1>n, <2>1, <2>2, FinishLeavesRest
    <2>3. CASE Finish(text, IfSet(b.partNr, partNr), IfSet(b.totalNr, totalNr))
      <3> HIDE DEF b
      <3> QED
        BY <1>n, <2>1, <2>3, FinishLeavesRest
    <2> QED
      BY <1>7, <2>2, <2>3 DEF YencEnd
  <1>8. CASE YencTake
    <2>1. /\ HasYenc /\ b.valid /\ reader = "YENCEncoded" /\ src' = src
          /\ Take(YencBegin, b.end, b.name, b.binary)
      BY <1>8 DEF YencTake
    <2> HIDE DEF b
    <2>2. YencBegin \in currentPos .. Len(src) + 1 /\ b.end \in Nat
          /\ b.end \in currentPos .. Len(src) /\ b.end # 0 /\ YencBegin <= b.end
      BY <1>0, <1>2, <1>3, <2>1
    <2> QED
      BY <1>n, <2>1, <2>2, TakeLeavesRest
  <1> QED
    BY <1>4, <1>5, <1>6, <1>7, <1>8 DEF Next, Done

LEMMA NextKeepsRest == KInv /\ [Next]_vars => KInv'
  <1> SUFFICES ASSUME KInv, [Next]_vars PROVE KInv'
    OBVIOUS
  <1>1. CASE UNCHANGED vars
    <2>1. NInv' <=> NInv
      BY <1>1 DEF vars, result, NInv, TypeOK, IsList
    <2>2. /\ src' = src /\ reader' = reader /\ currentPos' = currentPos /\ text' = text
          /\ bins' = bins /\ taken' = taken /\ found' = found
      BY <1>1 DEF vars, result
    <2>3. Tidy' <=> Tidy
      BY <2>2 DEF Tidy
    <2>4. TextIsTheRest' <=> TextIsTheRest
      BY <2>2, <2>3 DEF TextIsTheRest, Rest
    <2> QED
      BY <2>1, <2>2, <2>3, <2>4 DEF KInv
  <1>2. CASE ~UNCHANGED vars
    BY <1>2, StepKeepsRest
  <1> QED
    BY <1>1, <1>2

\* TextIsTheRest of NonMime: text and attachments are the whole article, each
\* character is in one of them, and the text keeps its order, whatever the
\* article, the blocks and their number are.
THEOREM TextIsAlwaysTheRest == Spec => []TextIsTheRest
  <1>1. KInv => TextIsTheRest
    BY DEF KInv
  <1> QED
    BY <1>1, InitKeepsRest, NextKeepsRest, PTL DEF Spec
=============================================================================
