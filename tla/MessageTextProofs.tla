--------------------------- MODULE MessageTextProofs ---------------------------
(***************************************************************************)
(* Proofs about MessageText, for every text.                               *)
(***************************************************************************)
EXTENDS MessageText, SequenceTheorems, NaturalsInduction, WellFoundedInduction, TLAPS

-----------------------------------------------------------------------------
(* Numbers. *)

\* A set of natural numbers that is not empty has a least one.
LEMMA LeastNat ==
    ASSUME NEW T \in SUBSET Nat, T # {}
    PROVE  Min(T) \in T /\ \A y \in T : Min(T) <= y
  <1> DEFINE R == OpToRel(<, Nat)
  <1>1. IsWellFoundedOn(R, Nat)
    BY NatLessThanWellFounded
  <1>2. \A y, x \in Nat : y < x => <<y, x>> \in R
    BY DEF OpToRel
  <1> HIDE DEF R
  <1>3. PICK x \in T : \A y \in T : ~ (<<y, x>> \in R)
    BY <1>1, WFMin
  <1>4. \A y \in T : x <= y
    <2> SUFFICES ASSUME NEW y \in T PROVE x <= y
      OBVIOUS
    <2>1. x \in Nat /\ y \in Nat /\ ~(y < x)
      BY <1>2, <1>3
    <2> QED
      BY <2>1
  <1> QED
    BY <1>4 DEF Min

\* ... and a greatest one when there is a bound.
LEMMA GreatestNat ==
    ASSUME NEW N \in Nat, NEW T \in SUBSET (0 .. N), T # {}
    PROVE  Max(T) \in T /\ \A y \in T : Max(T) >= y
  <1> DEFINE U == {N - y : y \in T}
  <1>1. U \in SUBSET Nat /\ U # {}
    <2>1. \A y \in T : y \in 0 .. N /\ N - y \in Nat
      OBVIOUS
    <2> QED
      BY <2>1
  <1> DEFINE u == Min(U)
  <1>2. u \in U /\ \A v \in U : u <= v
    <2> HIDE DEF U
    <2> QED
      BY <1>1, LeastNat
  <1> HIDE DEF u
  <1>3. PICK x \in T : u = N - x
    BY <1>2
  <1>4. \A y \in T : x >= y
    <2> SUFFICES ASSUME NEW y \in T PROVE x >= y
      OBVIOUS
    <2>1. N - y \in U /\ x \in 0 .. N /\ y \in 0 .. N
      OBVIOUS
    <2> QED
      BY <1>2, <1>3, <2>1
  <1> QED
    BY <1>4 DEF Max

\* Induction over a set of numbers.
LEMMA SetInduction ==
    ASSUME NEW S \in SUBSET Nat, 0 \in S, \A n \in S : n + 1 \in S
    PROVE  S = Nat
  <1> SUFFICES ASSUME Nat \ S # {} PROVE FALSE
    OBVIOUS
  <1>1. PICK x \in Nat \ S : \A y \in Nat \ S : x <= y
    <2>1. Nat \ S \in SUBSET Nat
      OBVIOUS
    <2> QED
      BY <2>1, LeastNat
  <1>2. x # 0 /\ x - 1 \in Nat /\ x - 1 \in S
    BY <1>1
  <1> QED
    BY <1>1, <1>2

-----------------------------------------------------------------------------
(* Recursion: what f is where it stops, and what it is made of elsewhere.  *)

Unrolled(f, D, Stop, last, step, next) ==
    f = [d \in D |-> IF d \in Stop THEN last[d] ELSE step[d][f[next[d]]]]

\* m gets smaller with every turn.
Ends(D, Stop, next, m) ==
    /\ m \in [D -> Nat]
    /\ \A d \in D \ Stop : next[d] \in D /\ m[next[d]] < m[d]

\* T has what the recursion stops at, and d when it has the next.
Inherits(T, D, Stop, next) ==
    \A d \in D : d \in Stop \/ next[d] \in T => d \in T

\* What holds where a recursion stops, and for d when it holds for the next,
\* holds everywhere.
LEMMA MeasureInduction ==
    ASSUME NEW D, NEW Stop, NEW next, NEW m, Ends(D, Stop, next, m),
           NEW T, Inherits(T, D, Stop, next)
    PROVE  \A d \in D : d \in T
  <1>0. /\ m \in [D -> Nat]
        /\ \A d \in D \ Stop : next[d] \in D /\ m[next[d]] < m[d]
        /\ \A d \in D : d \in Stop \/ next[d] \in T => d \in T
    BY DEF Ends, Inherits
  <1> DEFINE S == {k \in Nat : \A d \in D : m[d] < k => d \in T}
  <1>1. 0 \in S
    BY <1>0
  <1>2. ASSUME NEW k \in S PROVE k + 1 \in S
    <2> SUFFICES ASSUME NEW d \in D, m[d] < k + 1 PROVE d \in T
      OBVIOUS
    <2>1. CASE d \in Stop
      BY <1>0, <2>1
    <2>2. CASE d \notin Stop
      <3>1. next[d] \in D /\ m[next[d]] < m[d] /\ m[d] \in Nat /\ m[next[d]] \in Nat
        BY <1>0, <2>2
      <3>2. m[next[d]] < k
        BY <3>1
      <3> QED
        BY <1>0, <3>1, <3>2
    <2> QED
      BY <2>1, <2>2
  <1>3. S = Nat
    <2>1. S \in SUBSET Nat
      OBVIOUS
    <2> HIDE DEF S
    <2> QED
      BY <1>1, <1>2, <2>1, SetInduction
  <1> SUFFICES ASSUME NEW d \in D PROVE d \in T
    OBVIOUS
  <1>4. m[d] + 1 \in S /\ m[d] \in Nat
    BY <1>0, <1>3
  <1> QED
    BY <1>4

\* Then the recursive function is defined.
LEMMA RecursionIsDefined ==
    ASSUME NEW D, NEW Stop, NEW last, NEW step, NEW next, NEW m, Ends(D, Stop, next, m)
    PROVE  \E f : Unrolled(f, D, Stop, last, step, next)
  <1>0. /\ m \in [D -> Nat]
        /\ \A d \in D \ Stop : next[d] \in D /\ m[next[d]] < m[d]
    BY DEF Ends
  <1> DEFINE Upto(k) == {d \in D : m[d] < k}
             Is(f, k) == \A d \in Upto(k) :
                            f[d] = IF d \in Stop THEN last[d] ELSE step[d][f[next[d]]]
             S == {k \in Nat : \E f : Is(f, k)}
  <1>1. 0 \in S
    BY <1>0
  <1>2. ASSUME NEW k \in S PROVE k + 1 \in S
    <2>1. PICK f : Is(f, k)
      OBVIOUS
    <2> DEFINE U == Upto(k)
               V == Upto(k + 1)
               g == [d \in V |-> IF d \in U THEN f[d]
                                 ELSE IF d \in Stop THEN last[d] ELSE step[d][f[next[d]]]]
    <2>2. U \subseteq V /\ \A d \in V \ Stop : next[d] \in U
      BY <1>0
    <2>3. \A d \in U : f[d] = IF d \in Stop THEN last[d] ELSE step[d][f[next[d]]]
      BY <2>1
    <2> HIDE DEF U, V
    <2>4. ASSUME NEW d \in V PROVE g[d] = IF d \in Stop THEN last[d] ELSE step[d][g[next[d]]]
      <3>1. d \in U => f[d] = IF d \in Stop THEN last[d] ELSE step[d][f[next[d]]]
        BY <2>3
      <3>2. d \notin Stop => next[d] \in U /\ next[d] \in V /\ g[next[d]] = f[next[d]]
        BY <2>2
      <3> QED
        BY <3>1, <3>2
    <2>5. Is(g, k + 1)
      BY <2>4 DEF V
    <2> HIDE DEF Is
    <2> QED
      BY <2>5
  <1>3. S = Nat
    <2>1. S \in SUBSET Nat
      OBVIOUS
    <2> HIDE DEF S
    <2> QED
      BY <1>1, <1>2, <2>1, SetInduction
  <1> DEFINE F == [k \in Nat |-> CHOOSE f : Is(f, k)]
  <1>4. \A k \in Nat : Is(F[k], k)
    <2> SUFFICES ASSUME NEW k \in Nat PROVE Is(F[k], k)
      OBVIOUS
    <2>1. k \in S
      BY <1>3
    <2>2. \E f : Is(f, k)
      BY <2>1
    <2> HIDE DEF Is
    <2> QED
      BY <2>2
  <1> HIDE DEF F, S
  <1>5. ASSUME NEW j \in Nat, NEW k \in Nat
        PROVE  \A d \in D : m[d] < j /\ m[d] < k => F[j][d] = F[k][d]
    <2> DEFINE T == {d \in D : m[d] < j /\ m[d] < k => F[j][d] = F[k][d]}
    <2>1. ASSUME NEW d \in D, d \in Stop PROVE d \in T
      BY <1>4, <2>1
    <2>2. ASSUME NEW d \in D \ Stop, next[d] \in T PROVE d \in T
      <3>1. m[d] < j /\ m[d] < k => m[next[d]] < j /\ m[next[d]] < k
        BY <1>0, <2>2
      <3>2. m[d] < j /\ m[d] < k => F[j][next[d]] = F[k][next[d]]
        BY <2>2, <3>1
      <3>3. m[d] < j => F[j][d] = step[d][F[j][next[d]]]
        BY <1>4
      <3>4. m[d] < k => F[k][d] = step[d][F[k][next[d]]]
        BY <1>4
      <3>5. m[d] < j /\ m[d] < k => F[j][d] = F[k][d]
        BY <3>2, <3>3, <3>4
      <3> QED
        BY <3>5
    <2> HIDE DEF T
    <2>3. \A d \in D : d \in T
      <3>1. Inherits(T, D, Stop, next)
        BY <2>1, <2>2 DEF Inherits
      <3> QED
        BY <3>1, MeasureInduction
    <2> QED
      BY <2>3 DEF T
  <1> DEFINE f == [d \in D |-> F[m[d] + 1][d]]
  <1>6. ASSUME NEW d \in D PROVE f[d] = IF d \in Stop THEN last[d] ELSE step[d][f[next[d]]]
    <2>1. m[d] + 1 \in Nat /\ m[d] < m[d] + 1
      BY <1>0
    <2>2. f[d] = IF d \in Stop THEN last[d] ELSE step[d][F[m[d] + 1][next[d]]]
      BY <1>4, <2>1
    <2>3. CASE d \in Stop
      BY <2>2, <2>3
    <2>4. CASE d \notin Stop
      <3>1. next[d] \in D /\ m[next[d]] < m[d] + 1 /\ m[next[d]] < m[next[d]] + 1
            /\ m[next[d]] + 1 \in Nat
        BY <1>0, <2>4
      <3>2. F[m[d] + 1][next[d]] = F[m[next[d]] + 1][next[d]]
        BY <1>5, <2>1, <3>1
      <3>3. f[next[d]] = F[m[next[d]] + 1][next[d]]
        BY <3>1
      <3> HIDE DEF f
      <3> QED
        BY <2>2, <2>4, <3>2, <3>3
    <2> QED
      BY <2>3, <2>4
  <1>7. Unrolled(f, D, Stop, last, step, next)
    BY <1>6 DEF Unrolled
  <1> QED
    BY <1>7

-----------------------------------------------------------------------------
(* Texts. *)

LEMMA TextIs ==
    ASSUME NEW s \in Text
    PROVE  /\ Len(s) \in Nat /\ DOMAIN s = 1 .. Len(s)
           /\ \A i \in 1 .. Len(s) : s[i] \in Symbol
           /\ s = <<>> <=> Len(s) = 0
  BY DEF Text

\* Texts with the same characters are the same.
LEMMA SameText ==
    ASSUME NEW s \in Text, NEW t \in Text, Len(s) = Len(t),
           \A i \in 1 .. Len(s) : s[i] = t[i]
    PROVE  s = t
  BY SeqEqual DEF Text

\* The characters of a piece of a text.
LEMMA PieceIs ==
    ASSUME NEW s \in Text, NEW a \in Nat \ {0}, NEW b \in Int, b <= Len(s)
    PROVE  LET t == SubSeq(s, a, b)
           IN  /\ t \in Text /\ Len(t) = IF a <= b THEN b - a + 1 ELSE 0
               /\ \A i \in 1 .. Len(t) : t[i] = s[a + i - 1]
  <1>1. \A i \in a .. b : s[i] \in Symbol
    BY TextIs
  <1>2. /\ SubSeq(s, a, b) \in Seq(Symbol)
        /\ Len(SubSeq(s, a, b)) = IF a <= b THEN b - a + 1 ELSE 0
        /\ \A i \in 1 .. b - a + 1 : SubSeq(s, a, b)[i] = s[a + i - 1]
    BY <1>1, SubSeqProperties
  <1> QED
    BY <1>2 DEF Text

\* The characters of two texts together.
LEMMA JoinIs ==
    ASSUME NEW s \in Text, NEW t \in Text
    PROVE  /\ s \o t \in Text /\ Len(s \o t) = Len(s) + Len(t)
           /\ \A i \in 1 .. Len(s) : (s \o t)[i] = s[i]
           /\ \A i \in 1 .. Len(t) : (s \o t)[Len(s) + i] = t[i]
  <1>1. /\ s \o t \in Seq(Symbol) /\ Len(s \o t) = Len(s) + Len(t)
        /\ \A i \in 1 .. Len(s) + Len(t) :
              (s \o t)[i] = IF i <= Len(s) THEN s[i] ELSE t[i - Len(s)]
    BY ConcatProperties DEF Text
  <1>2. Len(s) \in Nat /\ Len(t) \in Nat
    BY TextIs
  <1>3. \A i \in 1 .. Len(s) : (s \o t)[i] = s[i]
    BY <1>1, <1>2
  <1>4. ASSUME NEW i \in 1 .. Len(t) PROVE (s \o t)[Len(s) + i] = t[i]
    <2>1. PICK j \in 1 .. Len(s) + Len(t) : j = Len(s) + i
      BY <1>2
    <2>2. ~(j <= Len(s)) /\ j - Len(s) = i
      BY <1>2, <2>1
    <2> QED
      BY <1>1, <2>1, <2>2
  <1> QED
    BY <1>1, <1>3, <1>4 DEF Text

LEMMA JoinSame ==
    ASSUME NEW s \in Text, NEW t \in Text, NEW u \in Text,
           Len(u) = Len(s) + Len(t),
           \A i \in 1 .. Len(s) : u[i] = s[i],
           \A i \in 1 .. Len(t) : u[Len(s) + i] = t[i]
    PROVE  u = s \o t
  <1>1. Len(s) \in Nat /\ Len(t) \in Nat
    BY TextIs
  <1>2. ASSUME NEW i \in 1 .. Len(u) PROVE u[i] = (s \o t)[i]
    <2>1. CASE i <= Len(s)
      BY <1>1, <2>1, JoinIs
    <2>2. CASE ~(i <= Len(s))
      <3>1. PICK j \in 1 .. Len(t) : i = Len(s) + j
        <4>1. i - Len(s) \in 1 .. Len(t) /\ i = Len(s) + (i - Len(s))
          BY <1>1, <2>2
        <4> QED
          BY <4>1
      <3> QED
        BY <3>1, JoinIs
    <2> QED
      BY <2>1, <2>2
  <1> QED
    BY <1>2, JoinIs, SameText, ZenonT(30)

LEMMA OneCharacter ==
    ASSUME NEW c \in Symbol
    PROVE  <<c>> \in Text /\ Len(<<c>>) = 1 /\ <<c>>[1] = c
  BY DEF Text

LEMMA NewlineIs == NL \in Text /\ Len(NL) = 1 /\ NL[1] = "newline"
  <1>1. "newline" \in Symbol
    BY DEF Symbol
  <1> QED
    BY <1>1, OneCharacter DEF NL

LEMMA AfterNewline ==
    ASSUME NEW t \in Text
    PROVE  /\ NL \o t \in Text /\ Len(NL \o t) = 1 + Len(t) /\ (NL \o t)[1] = "newline"
           /\ \A i \in 1 .. Len(t) : (NL \o t)[1 + i] = t[i]
  <1> DEFINE u == NL \o t
  <1>1. NL \in Text /\ Len(NL) = 1 /\ NL[1] = "newline"
    BY NewlineIs
  <1>2. /\ u \in Text /\ Len(u) = Len(NL) + Len(t)
        /\ \A i \in 1 .. Len(NL) : u[i] = NL[i]
        /\ \A i \in 1 .. Len(t) : u[Len(NL) + i] = t[i]
    BY <1>1, JoinIs, Zenon
  <1> HIDE DEF u
  <1>3. 1 \in 1 .. Len(NL)
    BY <1>1
  <1>4. /\ u \in Text /\ Len(u) = 1 + Len(t) /\ u[1] = "newline"
        /\ \A i \in 1 .. Len(t) : u[1 + i] = t[i]
    BY <1>1, <1>2, <1>3
  <1> QED
    BY <1>4 DEF u

\* The first characters of a text.
LEMMA FrontIs ==
    ASSUME NEW s \in Text, NEW b \in 0 .. Len(s)
    PROVE  LET t == SubSeq(s, 1, b)
           IN  t \in Text /\ Len(t) = b /\ \A i \in 1 .. b : t[i] = s[i]
  <1> DEFINE t == SubSeq(s, 1, b)
  <1>1. 1 \in Nat \ {0} /\ b \in Int /\ b <= Len(s)
    BY TextIs
  <1>2. /\ t \in Text /\ Len(t) = IF 1 <= b THEN b - 1 + 1 ELSE 0
        /\ \A i \in 1 .. Len(t) : t[i] = s[1 + i - 1]
    BY <1>1, PieceIs
  <1> HIDE DEF t
  <1>3. Len(t) = b /\ \A i \in 1 .. b : 1 + i - 1 = i
    BY <1>2
  <1> QED
    BY <1>2, <1>3 DEF t

LEMMA TwoNewlines ==
    /\ NL \o NL \in Text /\ Len(NL \o NL) = 2
    /\ (NL \o NL)[1] = "newline" /\ (NL \o NL)[2] = "newline"
  <1>1. /\ NL \o NL \in Text /\ Len(NL \o NL) = 1 + Len(NL) /\ (NL \o NL)[1] = "newline"
        /\ \A i \in 1 .. Len(NL) : (NL \o NL)[1 + i] = NL[i]
    BY NewlineIs, AfterNewline
  <1>2. 1 \in 1 .. Len(NL) /\ 1 + 1 = 2
    BY NewlineIs
  <1>3. (NL \o NL)[1 + 1] = NL[1]
    BY <1>1, <1>2
  <1> QED
    BY <1>1, <1>2, <1>3, NewlineIs

\* When a text starts, or ends, with one newline and with two.
LEMMA StartsWith ==
    ASSUME NEW t \in Text
    PROVE  /\ IsPrefix(NL, t) <=> Len(t) >= 1 /\ t[1] = "newline"
           /\ IsPrefix(NL \o NL, t) <=> Len(t) >= 2 /\ t[1] = "newline" /\ t[2] = "newline"
  <1>1. Len(t) \in Nat
    BY TextIs
  <1>2. ASSUME NEW p \in Text, Len(p) \in 1 .. 2
        PROVE  IsPrefix(p, t) <=> Len(p) <= Len(t) /\ \A i \in 1 .. Len(p) : t[i] = p[i]
    <2>1. CASE ~(Len(p) <= Len(t))
      BY <2>1 DEF IsPrefix
    <2>2. CASE Len(p) <= Len(t)
      <3> DEFINE a == SubSeq(p, 1, Len(p))
                 b == SubSeq(t, 1, Len(p))
      <3>1. Len(p) \in Int /\ 1 \in Nat \ {0}
        BY <1>2
      <3>2. a \in Text /\ Len(a) = Len(p) /\ \A i \in 1 .. Len(p) : a[i] = p[i]
        <4>1. a \in Text /\ Len(a) = Len(p) /\ \A i \in 1 .. Len(a) : a[i] = p[1 + i - 1]
          BY <1>2, <3>1, PieceIs
        <4> QED
          BY <4>1
      <3>3. b \in Text /\ Len(b) = Len(p) /\ \A i \in 1 .. Len(p) : b[i] = t[i]
        <4>1. b \in Text /\ Len(b) = Len(p) /\ \A i \in 1 .. Len(b) : b[i] = t[1 + i - 1]
          BY <1>2, <2>2, <3>1, PieceIs
        <4> QED
          BY <4>1
      <3>4. IsPrefix(p, t) <=> a = b
        BY <2>2 DEF IsPrefix
      <3> HIDE DEF a, b
      <3>5. a = b <=> \A i \in 1 .. Len(p) : t[i] = p[i]
        BY <3>2, <3>3, SameText
      <3> QED
        BY <2>2, <3>4, <3>5
    <2> QED
      BY <2>1, <2>2
  <1>3. IsPrefix(NL, t) <=> Len(t) >= 1 /\ t[1] = "newline"
    BY <1>1, <1>2, NewlineIs
  <1>4. IsPrefix(NL \o NL, t) <=> Len(t) >= 2 /\ t[1] = "newline" /\ t[2] = "newline"
    <2> DEFINE p == NL \o NL
    <2>1. p \in Text /\ Len(p) = 2 /\ p[1] = "newline" /\ p[2] = "newline"
      BY TwoNewlines
    <2> HIDE DEF p
    <2>2. IsPrefix(p, t) <=> 2 <= Len(t) /\ \A i \in 1 .. 2 : t[i] = p[i]
      <3>1. Len(p) \in 1 .. 2
        BY <2>1
      <3>2. IsPrefix(p, t) <=> Len(p) <= Len(t) /\ \A i \in 1 .. Len(p) : t[i] = p[i]
        BY <1>2, <2>1, <3>1
      <3> QED
        BY <2>1, <3>2
    <2>3. 1 \in 1 .. 2 /\ 2 \in 1 .. 2 /\ \A i \in 1 .. 2 : i = 1 \/ i = 2
      OBVIOUS
    <2>4. IsPrefix(p, t) <=> Len(t) >= 2 /\ t[1] = "newline" /\ t[2] = "newline"
      BY <1>1, <2>1, <2>2, <2>3
    <2> QED
      BY <2>4 DEF p
  <1> QED
    BY <1>3, <1>4

LEMMA ReverseIs ==
    ASSUME NEW t \in Text
    PROVE  /\ Reverse(t) \in Text /\ Len(Reverse(t)) = Len(t)
           /\ \A i \in 1 .. Len(t) : Reverse(t)[i] = t[Len(t) - i + 1]
  <1>1. Len(t) \in Nat
    BY TextIs
  <1>2. \A i \in 1 .. Len(t) : t[Len(t) - i + 1] \in Symbol
    <2> SUFFICES ASSUME NEW i \in 1 .. Len(t) PROVE t[Len(t) - i + 1] \in Symbol
      OBVIOUS
    <2>1. Len(t) - i + 1 \in 1 .. Len(t)
      BY <1>1
    <2> QED
      BY <2>1, TextIs
  <1>3. Reverse(t) = [i \in 1 .. Len(t) |-> t[Len(t) - i + 1]]
    BY DEF Reverse
  <1> DEFINE n == Len(t)
  <1> HIDE DEF n
  <1>4. [i \in 1 .. n |-> t[n - i + 1]] \in Seq(Symbol)
    BY <1>1, <1>2 DEF n
  <1> QED
    BY <1>1, <1>3, <1>4 DEF Text, n

\* A text ends with what its reverse starts with.
LEMMA EndsIn ==
    ASSUME NEW t \in Text
    PROVE  /\ EndsWith(t, NL) <=> Len(t) >= 1 /\ t[Len(t)] = "newline"
           /\ EndsWith(t, NL \o NL) <=>
                Len(t) >= 2 /\ t[Len(t)] = "newline" /\ t[Len(t) - 1] = "newline"
  <1>1. Len(t) \in Nat
    BY TextIs
  <1> DEFINE r == Reverse(t)
  <1>2. /\ r \in Text /\ Len(r) = Len(t)
        /\ Len(t) >= 1 => r[1] = t[Len(t)]
        /\ Len(t) >= 2 => r[2] = t[Len(t) - 1]
    <2>1. /\ r \in Text /\ Len(r) = Len(t)
          /\ \A i \in 1 .. Len(t) : r[i] = t[Len(t) - i + 1]
      BY ReverseIs
    <2>2. Len(t) >= 1 => 1 \in 1 .. Len(t) /\ Len(t) - 1 + 1 = Len(t)
      BY <1>1
    <2>3. Len(t) >= 2 => 2 \in 1 .. Len(t) /\ Len(t) - 2 + 1 = Len(t) - 1
      BY <1>1
    <2> HIDE DEF r
    <2> QED
      BY <2>1, <2>2, <2>3
  <1>3. Reverse(NL) = NL
    <2>1. Reverse(NL) \in Text /\ Len(Reverse(NL)) = 1
          /\ \A i \in 1 .. 1 : Reverse(NL)[i] = NL[1 - i + 1]
      BY NewlineIs, ReverseIs
    <2>2. \A i \in 1 .. 1 : i = 1 /\ 1 - i + 1 = 1
      OBVIOUS
    <2>3. \A i \in 1 .. 1 : Reverse(NL)[i] = NL[i]
      BY <2>1, <2>2
    <2> QED
      BY <2>1, <2>3, NewlineIs, SameText
  <1>4. Reverse(NL \o NL) = NL \o NL
    <2> DEFINE p == NL \o NL
    <2>0. p \in Text /\ Len(p) = 2 /\ p[1] = "newline" /\ p[2] = "newline"
      BY TwoNewlines
    <2> HIDE DEF p
    <2>1. Reverse(p) \in Text /\ Len(Reverse(p)) = 2
          /\ \A i \in 1 .. 2 : Reverse(p)[i] = p[2 - i + 1]
      BY <2>0, ReverseIs
    <2>2. \A i \in 1 .. 2 : (i = 1 /\ 2 - i + 1 = 2) \/ (i = 2 /\ 2 - i + 1 = 1)
      OBVIOUS
    <2>3. \A i \in 1 .. 2 : Reverse(p)[i] = p[i]
      BY <2>0, <2>1, <2>2
    <2>4. Reverse(p) = p
      BY <2>0, <2>1, <2>3, SameText
    <2> QED
      BY <2>4 DEF p
  <1> HIDE DEF r
  <1>5. /\ EndsWith(t, NL) <=> IsPrefix(NL, r)
        /\ EndsWith(t, NL \o NL) <=> IsPrefix(NL \o NL, r)
    BY <1>3, <1>4 DEF EndsWith, IsSuffix, r
  <1> QED
    BY <1>1, <1>2, <1>5, StartsWith

\* Blank lines.
LEMMA BlankLineIs ==
    ASSUME NEW s \in Text
    PROVE  /\ BlankLine(s) \in SUBSET Nat
           /\ BlankLine(s) = {} <=>
                \A i \in 1 .. Len(s) - 1 : s[i] # "newline" \/ s[i + 1] # "newline"
           /\ BlankLine(s) # {} =>
                LET pos == Min(BlankLine(s))
                IN  /\ pos \in 1 .. Len(s) - 1
                    /\ s[pos] = "newline" /\ s[pos + 1] = "newline"
                    /\ \A i \in 1 .. pos - 1 : s[i] # "newline" \/ s[i + 1] # "newline"
  <1>1. Len(s) \in Nat
    BY TextIs
  <1>2. BlankLine(s) \in SUBSET Nat
    BY DEF BlankLine
  <1>3. ASSUME BlankLine(s) # {}
        PROVE  LET pos == Min(BlankLine(s))
                IN  /\ pos \in 1 .. Len(s) - 1
                    /\ s[pos] = "newline" /\ s[pos + 1] = "newline"
                    /\ \A i \in 1 .. pos - 1 : s[i] # "newline" \/ s[i + 1] # "newline"
    <2> DEFINE pos == Min(BlankLine(s))
    <2>1. pos \in BlankLine(s) /\ \A y \in BlankLine(s) : pos <= y
      BY <1>2, <1>3, LeastNat
    <2> HIDE DEF pos
    <2>2. pos \in 1 .. Len(s) - 1 /\ s[pos] = "newline" /\ s[pos + 1] = "newline"
      BY <2>1 DEF BlankLine
    <2>3. ASSUME NEW i \in 1 .. pos - 1 PROVE s[i] # "newline" \/ s[i + 1] # "newline"
      <3>1. i \in 1 .. Len(s) - 1 /\ ~(pos <= i)
        BY <1>1, <2>2
      <3> QED
        BY <2>1, <3>1 DEF BlankLine
    <2> QED
      BY <2>2, <2>3 DEF pos
  <1>4. BlankLine(s) = {} <=>
           \A i \in 1 .. Len(s) - 1 : s[i] # "newline" \/ s[i + 1] # "newline"
    BY DEF BlankLine
  <1> QED
    BY <1>2, <1>3, <1>4

-----------------------------------------------------------------------------
(* Head and body of a text. *)

\* No line of a head is empty.
GoodHead(h) == h \in Text /\ BlankLine(h) = {} /\ (h # <<>> => h[1] # "newline")

\* What setContent() makes of a text, in the three cases.
LEMMA ExtractIs ==
    ASSUME NEW t \in Text
    PROVE  LET e == ExtractHeaderAndBody(t)
           IN  /\ GoodHead(e.head) /\ e.body \in Text
               /\ Len(t) >= 1 /\ t[1] = "newline" => e.head = <<>>
               /\ ~(Len(t) >= 1 /\ t[1] = "newline") /\ BlankLine(t) # {} =>
                    LET pos == Min(BlankLine(t))
                        rest == SubSeq(t, pos + 2, Len(t))
                    IN  /\ e.head = SubSeq(t, 1, pos)
                        /\ e.body = IF Len(rest) >= 1 /\ rest[1] = "newline"
                                    THEN NL \o rest ELSE rest
  <1> DEFINE e == ExtractHeaderAndBody(t)
  <1>1. Len(t) \in Nat
    BY TextIs
  <1>2. CASE Len(t) >= 1 /\ t[1] = "newline"
    <2>1. e.head = <<>> /\ e.body = Tail(t)
      BY <1>2, StartsWith DEF ExtractHeaderAndBody
    <2>2. t # <<>>
      BY <1>2, TextIs
    <2>3. Tail(t) \in Text
      BY <2>2, HeadTailProperties DEF Text
    <2>4. GoodHead(<<>>)
      BY DEF GoodHead, BlankLine, Text
    <2> HIDE DEF e
    <2> QED
      BY <1>2, <2>1, <2>3, <2>4 DEF e
  <1>3. CASE ~(Len(t) >= 1 /\ t[1] = "newline") /\ BlankLine(t) = {}
    <2>1. e.head = t /\ e.body = <<>>
      BY <1>3, StartsWith DEF ExtractHeaderAndBody
    <2>2. GoodHead(t)
      BY <1>1, <1>3, TextIs DEF GoodHead
    <2>3. <<>> \in Text
      BY DEF Text
    <2> HIDE DEF e
    <2> QED
      BY <1>3, <2>1, <2>2, <2>3 DEF e
  <1>4. CASE ~(Len(t) >= 1 /\ t[1] = "newline") /\ BlankLine(t) # {}
    <2> DEFINE pos == Min(BlankLine(t))
               rest == SubSeq(t, pos + 2, Len(t))
               h == SubSeq(t, 1, pos)
    <2>1. pos \in 1 .. Len(t) - 1
          /\ \A i \in 1 .. pos - 1 : t[i] # "newline" \/ t[i + 1] # "newline"
      BY <1>4, BlankLineIs
    <2>2. e.head = h /\ e.body = IF IsPrefix(NL, rest) THEN NL \o rest ELSE rest
      BY <1>4, StartsWith DEF ExtractHeaderAndBody
    <2> HIDE DEF pos
    <2>3. pos \in Nat \ {0} /\ pos + 2 \in Nat \ {0} /\ pos <= Len(t) /\ 1 \in Nat \ {0} /\ Len(t) \in Int
          /\ pos \in Int
      BY <1>1, <2>1
    <2>4. rest \in Text
      BY <2>3, PieceIs
    <2>5. h \in Text /\ Len(h) = pos /\ \A i \in 1 .. Len(h) : h[i] = t[1 + i - 1]
      BY <2>3, PieceIs
    <2> HIDE DEF h, rest
    <2>6. \A i \in 1 .. pos : h[i] = t[i]
      BY <2>5
    <2>7. GoodHead(h)
      <3>1. BlankLine(h) = {}
        <4>1. \A i \in 1 .. pos - 1 : h[i] # "newline" \/ h[i + 1] # "newline"
          BY <2>1, <2>3, <2>6
        <4> QED
          BY <2>5, <4>1, BlankLineIs
      <3>2. h[1] # "newline"
        BY <1>4, <2>1, <2>6, <1>1
      <3> QED
        BY <2>5, <3>1, <3>2 DEF GoodHead
    <2>8. e.body = IF Len(rest) >= 1 /\ rest[1] = "newline" THEN NL \o rest ELSE rest
      BY <2>2, <2>4, StartsWith
    <2>9. NL \o rest \in Text
      BY <2>4, NewlineIs, JoinIs
    <2> HIDE DEF e
    <2> QED
      BY <1>4, <2>2, <2>4, <2>7, <2>8, <2>9 DEF pos, rest, h, e
  <1> QED
    BY <1>2, <1>3, <1>4

\* A text with head and body is sent as it was received.
LEMMA SentAgain ==
    ASSUME NEW t \in Text, ~IsPrefix(NL, t), BlankLine(t) # {}
    PROVE  EncodedContent(ExtractHeaderAndBody(t).head, ExtractHeaderAndBody(t).body) = t
  <1> DEFINE pos == Min(BlankLine(t))
             rest == SubSeq(t, pos + 2, Len(t))
             h == SubSeq(t, 1, pos)
             b == IF Len(rest) >= 1 /\ rest[1] = "newline" THEN NL \o rest ELSE rest
  <1>1. Len(t) \in Nat
    BY TextIs
  <1>2. ~(Len(t) >= 1 /\ t[1] = "newline")
    BY StartsWith
  <1>3. ExtractHeaderAndBody(t).head = h /\ ExtractHeaderAndBody(t).body = b
    BY <1>2, ExtractIs
  <1>4. pos \in 1 .. Len(t) - 1
        /\ t[pos] = "newline" /\ t[pos + 1] = "newline"
        /\ \A i \in 1 .. pos - 1 : t[i] # "newline" \/ t[i + 1] # "newline"
    BY BlankLineIs
  <1> HIDE DEF pos
  <1>5. pos \in Nat \ {0} /\ pos + 2 \in Nat \ {0} /\ pos <= Len(t) /\ 1 \in Nat \ {0}
        /\ Len(t) \in Int /\ pos \in Int
    BY <1>1, <1>4
  <1>6. h \in Text /\ Len(h) = pos /\ \A i \in 1 .. pos : h[i] = t[i]
    <2>1. pos \in 0 .. Len(t)
      BY <1>5
    <2> QED
      BY <2>1, FrontIs
  <1>7. rest \in Text /\ Len(rest) = Len(t) - pos - 1
        /\ \A i \in 1 .. Len(rest) : rest[i] = t[pos + 1 + i]
    <2>1. rest \in Text /\ Len(rest) = (IF pos + 2 <= Len(t) THEN Len(t) - (pos + 2) + 1 ELSE 0)
          /\ \A i \in 1 .. Len(rest) : rest[i] = t[pos + 2 + i - 1]
      BY <1>5, PieceIs
    <2> HIDE DEF rest
    <2>2. Len(rest) = Len(t) - pos - 1
      BY <1>1, <1>4, <2>1
    <2>3. \A i \in 1 .. Len(rest) : pos + 2 + i - 1 = pos + 1 + i
      BY <1>5
    <2> QED
      BY <2>1, <2>2, <2>3
  <1> HIDE DEF h, rest
  <1>8. EndsWith(h, NL) /\ ~EndsWith(h, NL \o NL)
    <2>1. EndsWith(h, NL)
      BY <1>4, <1>6, EndsIn
    <2>2. ASSUME EndsWith(h, NL \o NL) PROVE FALSE
      <3>1. pos >= 2 /\ h[pos] = "newline" /\ h[pos - 1] = "newline"
        BY <1>6, <2>2, EndsIn
      <3>2. PICK j \in 1 .. pos - 1 : j = pos - 1
        BY <1>5, <3>1
      <3>3. t[j] = "newline" /\ j + 1 = pos /\ t[pos] = "newline"
        BY <1>4, <1>6, <3>1, <3>2
      <3> QED
        BY <1>4, <3>2, <3>3
    <2> QED
      BY <2>1, <2>2
  <1>9. t = h \o (NL \o rest)
    <2>1. /\ NL \o rest \in Text /\ Len(NL \o rest) = 1 + Len(rest) /\ (NL \o rest)[1] = "newline"
          /\ \A i \in 1 .. Len(rest) : (NL \o rest)[1 + i] = rest[i]
      BY <1>7, AfterNewline
    <2> DEFINE u == NL \o rest
    <2> HIDE DEF u
    <2>2. u \in Text /\ Len(u) = Len(t) - pos
      BY <1>1, <1>5, <1>7, <2>1 DEF u
    <2>3. ASSUME NEW i \in 1 .. Len(u) PROVE t[pos + i] = u[i]
      <3>1. CASE i = 1
        BY <1>4, <2>1, <3>1 DEF u
      <3>2. CASE i # 1
        <4>1. PICK j \in 1 .. Len(rest) : i = 1 + j
          <5>1. i - 1 \in 1 .. Len(rest) /\ i = 1 + (i - 1)
            BY <1>1, <1>5, <1>7, <2>2, <3>2
          <5> QED
            BY <5>1
        <4>2. u[i] = rest[j] /\ rest[j] = t[pos + 1 + j] /\ pos + 1 + j = pos + i
          BY <1>5, <1>7, <2>1, <4>1 DEF u
        <4> QED
          BY <4>2
      <3> QED
        BY <3>1, <3>2
    <2>4. Len(t) = Len(h) + Len(u) /\ (\A i \in 1 .. Len(h) : t[i] = h[i])
          /\ (\A i \in 1 .. Len(u) : t[Len(h) + i] = u[i])
      BY <1>1, <1>5, <1>6, <2>2, <2>3
    <2>5. t = h \o u
      BY <1>6, <2>2, <2>4, JoinSame
    <2> QED
      BY <2>5 DEF u
  <1>10. (h \o NL) \o rest = h \o (NL \o rest)
    BY <1>6, <1>7, NewlineIs, ConcatAssociative, SMTT(30) DEF Text
  <1>11. CASE Len(rest) >= 1 /\ rest[1] = "newline"
    <2>1. b = NL \o rest
      BY <1>11
    <2>2. IsPrefix(NL \o NL, NL \o rest)
      <3>1. /\ NL \o rest \in Text /\ Len(NL \o rest) = 1 + Len(rest)
            /\ (NL \o rest)[1] = "newline"
            /\ \A i \in 1 .. Len(rest) : (NL \o rest)[1 + i] = rest[i]
        BY <1>7, AfterNewline
      <3> DEFINE u == NL \o rest
      <3>2. u \in Text /\ Len(u) >= 2 /\ u[1] = "newline" /\ u[2] = "newline"
        <4>1. 1 \in 1 .. Len(rest) /\ 1 + 1 = 2 /\ Len(rest) \in Nat
          BY <1>7, <1>11, TextIs
        <4>2. u[1 + 1] = rest[1]
          BY <3>1, <4>1
        <4> HIDE DEF u
        <4> QED
          BY <3>1, <4>1, <4>2, <1>11 DEF u
      <3> HIDE DEF u
      <3>3. IsPrefix(NL \o NL, u)
        BY <3>2, StartsWith
      <3> QED
        BY <3>3 DEF u
    <2> HIDE DEF b
    <2>3. EncodedContent(h, b) = h \o b
      BY <2>1, <2>2 DEF EncodedContent
    <2> QED
      BY <1>3, <1>9, <2>1, <2>3
  <1>12. CASE ~(Len(rest) >= 1 /\ rest[1] = "newline")
    <2>1. b = rest
      BY <1>12
    <2>2. ~IsPrefix(NL, rest) /\ ~IsPrefix(NL \o NL, rest)
      BY <1>7, <1>12, StartsWith, TextIs
    <2> HIDE DEF b
    <2>3. EncodedContent(h, b) = (h \o NL) \o b
      BY <1>8, <2>1, <2>2 DEF EncodedContent
    <2> QED
      BY <1>3, <1>9, <1>10, <2>1, <2>3
  <1> QED
    BY <1>11, <1>12

\* A head and a text that starts with a newline are cut where they meet.
LEMMA CutHead ==
    ASSUME NEW h, GoodHead(h), EndsWith(h, NL), NEW r \in Text
    PROVE  LET e == ExtractHeaderAndBody(h \o (NL \o r))
           IN  /\ e.head = h
               /\ e.body = IF IsPrefix(NL, r) THEN NL \o r ELSE r
  <1> DEFINE c == NL \o r
             t == h \o c
             n == Len(h)
  <1>1. h \in Text /\ n \in Nat /\ n >= 1 /\ h[n] = "newline" /\ h[1] # "newline"
    BY EndsIn, TextIs DEF GoodHead
  <1>2. c \in Text /\ Len(c) = 1 + Len(r) /\ c[1] = "newline"
        /\ \A i \in 1 .. Len(r) : c[1 + i] = r[i]
    BY AfterNewline
  <1> HIDE DEF c
  <1>3. t \in Text /\ Len(t) = n + Len(c)
        /\ (\A i \in 1 .. n : t[i] = h[i]) /\ (\A i \in 1 .. Len(c) : t[n + i] = c[i])
    BY <1>1, <1>2, JoinIs
  <1>4. Len(r) \in Nat
    BY TextIs
  <1> HIDE DEF t, n
  <1>5. Len(t) = n + 1 + Len(r) /\ t[1] # "newline" /\ t[n] = "newline" /\ t[n + 1] = "newline"
    BY <1>1, <1>2, <1>3, <1>4
  <1>6. \A i \in 1 .. n - 1 : t[i] # "newline" \/ t[i + 1] # "newline"
    <2>1. \A i \in 1 .. n - 1 : h[i] # "newline" \/ h[i + 1] # "newline"
      BY <1>1, BlankLineIs DEF GoodHead, n
    <2>2. \A i \in 1 .. n - 1 : i \in 1 .. n /\ i + 1 \in 1 .. n
      BY <1>1
    <2> QED
      BY <1>3, <2>1, <2>2
  <1> DEFINE pos == Min(BlankLine(t))
  <1>7. BlankLine(t) # {} /\ pos = n
    <2>1. n \in 1 .. Len(t) - 1
      BY <1>1, <1>4, <1>5
    <2>2. BlankLine(t) # {}
      BY <1>3, <1>5, <2>1, BlankLineIs
    <2>3. pos \in 1 .. Len(t) - 1
          /\ t[pos] = "newline" /\ t[pos + 1] = "newline"
          /\ \A i \in 1 .. pos - 1 : t[i] # "newline" \/ t[i + 1] # "newline"
      BY <1>3, <2>2, BlankLineIs
    <2> HIDE DEF pos
    <2>4. ~(pos < n)
      BY <1>1, <1>6, <2>3
    <2>5. ~(n < pos)
      BY <1>1, <1>5, <2>3
    <2> QED
      BY <1>1, <2>2, <2>3, <2>4, <2>5
  <1> DEFINE rest == SubSeq(t, n + 2, Len(t))
  <1>8. rest = r
    <2>1. Len(t) \in Int /\ n + 2 \in Nat \ {0} /\ Len(t) <= Len(t)
      BY <1>1, <1>4, <1>5
    <2>0. PICK a \in Nat \ {0} : a = n + 2
      BY <2>1
    <2>6. rest = SubSeq(t, a, Len(t))
      BY <2>0
    <2> HIDE DEF rest
    <2>2. rest \in Text /\ Len(rest) = (IF a <= Len(t) THEN Len(t) - a + 1 ELSE 0)
          /\ \A i \in 1 .. Len(rest) : rest[i] = t[a + i - 1]
      BY <1>3, <2>1, <2>6, PieceIs
    <2>3. Len(rest) = Len(r)
      BY <1>1, <1>4, <1>5, <2>0, <2>2
    <2>4. ASSUME NEW i \in 1 .. Len(rest) PROVE rest[i] = r[i]
      <3>1. PICK j \in 1 .. Len(c) : j = 1 + i
        <4>1. 1 + i \in 1 .. Len(c)
          BY <1>2, <1>4, <2>3
        <4> QED
          BY <4>1
      <3>2. a + i - 1 = n + j /\ i \in 1 .. Len(r)
        BY <1>1, <2>0, <2>3, <3>1
      <3>3. t[n + j] = c[j] /\ c[j] = r[i]
        BY <1>2, <1>3, <3>1, <3>2
      <3> QED
        BY <2>2, <3>2, <3>3
    <2> QED
      BY <2>2, <2>3, <2>4, SameText
  <1>9. SubSeq(t, 1, n) = h
    <2>1. n \in 0 .. Len(t)
      BY <1>1, <1>4, <1>5
    <2> DEFINE q == SubSeq(t, 1, n)
    <2>2. q \in Text /\ Len(q) = n /\ \A i \in 1 .. n : q[i] = t[i]
      BY <1>3, <2>1, FrontIs
    <2> HIDE DEF q
    <2>3. Len(q) = Len(h) /\ \A i \in 1 .. Len(q) : q[i] = h[i]
      BY <1>3, <2>2 DEF n
    <2>4. q = h
      BY <1>1, <2>2, <2>3, SameText
    <2> QED
      BY <2>4 DEF q
  <1> DEFINE e == ExtractHeaderAndBody(t)
  <1>10. e.head = SubSeq(t, 1, pos)
         /\ e.body = IF Len(SubSeq(t, pos + 2, Len(t))) >= 1 /\ SubSeq(t, pos + 2, Len(t))[1] = "newline"
                     THEN NL \o SubSeq(t, pos + 2, Len(t)) ELSE SubSeq(t, pos + 2, Len(t))
    BY <1>3, <1>5, <1>7, ExtractIs
  <1> HIDE DEF e, pos, rest
  <1>11. e.head = h /\ e.body = IF Len(r) >= 1 /\ r[1] = "newline" THEN NL \o r ELSE r
    BY <1>7, <1>8, <1>9, <1>10 DEF rest
  <1>12. e.body = IF IsPrefix(NL, r) THEN NL \o r ELSE r
    BY <1>11, StartsWith
  <1> QED
    BY <1>11, <1>12 DEF e, t, c

\* A text that starts with a newline is one and the rest.
LEMMA NewlineAndRest ==
    ASSUME NEW b \in Text, IsPrefix(NL, b)
    PROVE  /\ Tail(b) \in Text /\ b = NL \o Tail(b)
           /\ IsPrefix(NL \o NL, b) <=> IsPrefix(NL, Tail(b))
  <1> DEFINE r == Tail(b)
  <1>1. Len(b) \in Nat /\ Len(b) >= 1 /\ b[1] = "newline" /\ b # <<>>
    BY StartsWith, TextIs
  <1>2. r \in Text /\ Len(r) = Len(b) - 1 /\ \A i \in 1 .. Len(r) : r[i] = b[i + 1]
    BY <1>1, HeadTailProperties DEF Text
  <1> HIDE DEF r
  <1>3. b = NL \o r
    <2>1. Len(b) = Len(NL) + Len(r) /\ \A i \in 1 .. Len(NL) : b[i] = NL[i]
      BY <1>1, <1>2, NewlineIs
    <2>2. \A i \in 1 .. Len(r) : b[Len(NL) + i] = r[i]
      <3> SUFFICES ASSUME NEW i \in 1 .. Len(r) PROVE b[Len(NL) + i] = r[i]
        OBVIOUS
      <3>1. Len(NL) + i = i + 1
        BY NewlineIs
      <3> QED
        BY <1>2, <3>1
    <2> QED
      BY <1>2, <2>1, <2>2, NewlineIs, JoinSame
  <1>4. IsPrefix(NL \o NL, b) <=> IsPrefix(NL, r)
    <2>1. Len(r) >= 1 => r[1] = b[2]
      BY <1>1, <1>2
    <2> QED
      BY <1>1, <1>2, <2>1, StartsWith
  <1> QED
    BY <1>2, <1>3, <1>4 DEF r

\* The receiver finds what was sent.
LEMMA FoundAgain ==
    ASSUME NEW h, GoodHead(h), NEW b \in Text
    PROVE  LET t == EncodedContent(h, b)
               e == ExtractHeaderAndBody(t)
           IN  /\ t \in Text
               /\ h = <<>> \/ EndsWith(h, NL) => e.head = h
               /\ EndsWith(h, NL) /\ (IsPrefix(NL, b) => IsPrefix(NL \o NL, b)) => e.body = b
  <1> DEFINE t == EncodedContent(h, b)
             e == ExtractHeaderAndBody(t)
  <1>1. h \in Text
    BY DEF GoodHead
  <1>2. (h \o NL) \o b = h \o (NL \o b)
    BY <1>1, NewlineIs, ConcatAssociative DEF Text
  <1>3. NL \o b \in Text
    BY AfterNewline
  <1>4. t \in {h \o b, h \o (NL \o b)}
    BY <1>2 DEF EncodedContent
  <1>5. t \in Text
    BY <1>1, <1>3, <1>4, JoinIs
  <1>6. ASSUME h = <<>> PROVE e.head = h
    <2>1. t = IF IsPrefix(NL \o NL, b) THEN b ELSE NL \o b
      <3>1. ~EndsWith(h, NL) /\ ~EndsWith(h, NL \o NL)
        BY <1>1, <1>6, EndsIn, TextIs
      <3>2. t = IF IsPrefix(NL \o NL, b) THEN h \o b ELSE h \o (NL \o b)
        BY <1>2, <3>1 DEF EncodedContent
      <3>3. h \o b = b /\ h \o (NL \o b) = NL \o b
        BY <1>3, <1>6, ConcatEmptySeq DEF Text
      <3> QED
        BY <3>2, <3>3
    <2>2. Len(t) >= 1 /\ t[1] = "newline"
      <3>1. IsPrefix(NL \o NL, b) => Len(b) >= 1 /\ b[1] = "newline"
        BY StartsWith, TextIs
      <3>2. Len(NL \o b) >= 1 /\ (NL \o b)[1] = "newline"
        BY AfterNewline, TextIs
      <3> HIDE DEF t
      <3> QED
        BY <2>1, <3>1, <3>2
    <2> HIDE DEF t
    <2>3. e.head = <<>>
      BY <1>5, <2>2, ExtractIs
    <2> QED
      BY <1>6, <2>3
  <1>7. ASSUME EndsWith(h, NL)
        PROVE  e.head = h /\ ((IsPrefix(NL, b) => IsPrefix(NL \o NL, b)) => e.body = b)
    <2>1. ~EndsWith(h, NL \o NL)
      <3> SUFFICES ASSUME EndsWith(h, NL \o NL) PROVE FALSE
        OBVIOUS
      <3>1. Len(h) >= 2 /\ h[Len(h)] = "newline" /\ h[Len(h) - 1] = "newline" /\ Len(h) \in Nat
        BY <1>1, EndsIn, TextIs
      <3>2. PICK j \in 1 .. Len(h) - 1 : j = Len(h) - 1
        BY <3>1, SMTT(30)
      <3>3. h[j] = "newline" /\ h[j + 1] = "newline"
        BY <3>1, <3>2
      <3> QED
        BY <1>1, <3>2, <3>3, BlankLineIs DEF GoodHead
    <2>2. CASE IsPrefix(NL, b)
      <3> DEFINE r == Tail(b)
      <3>1. r \in Text /\ b = NL \o r /\ (IsPrefix(NL \o NL, b) <=> IsPrefix(NL, r))
        BY <2>2, NewlineAndRest
      <3>2. t = h \o b
        BY <1>7, <2>2 DEF EncodedContent
      <3> HIDE DEF r, t
      <3>3. /\ e.head = h
            /\ e.body = IF IsPrefix(NL, r) THEN NL \o r ELSE r
        BY <1>7, <3>1, <3>2, CutHead
      <3> HIDE DEF e
      <3> QED
        BY <2>2, <3>1, <3>3
    <2>3. CASE ~IsPrefix(NL, b)
      <3>1. ~IsPrefix(NL \o NL, b)
        BY <2>3, StartsWith, TextIs
      <3>2. t = h \o (NL \o b)
        BY <1>2, <2>1, <2>3, <3>1 DEF EncodedContent
      <3> HIDE DEF t
      <3>3. /\ e.head = h
            /\ e.body = IF IsPrefix(NL, b) THEN NL \o b ELSE b
        BY <1>7, <3>2, CutHead
      <3> HIDE DEF e
      <3> QED
        BY <2>3, <3>3
    <2> QED
      BY <2>2, <2>3
  <1> QED
    BY <1>5, <1>6, <1>7

-----------------------------------------------------------------------------
(* Texts put together of pieces. *)

\* FlattenSeq() by the texts so far.
PutTogether(B, n, g) ==
    /\ g \in [0 .. n -> Text] /\ g[0] = <<>> /\ g[n] = FlattenSeq(B)
    /\ \A i \in 1 .. n : g[i] = g[i - 1] \o B[i]

LEMMA FlattenIs ==
    ASSUME NEW n \in Nat, NEW B \in [1 .. n -> Text]
    PROVE  \E g : PutTogether(B, n, g)
  <1>0. Len(B) = n
    OBVIOUS
  <1>1. CASE n = 0
    <2> DEFINE g == [i \in 0 .. n |-> <<>>]
    <2>1. FlattenSeq(B) = B /\ B = <<>>
      BY <1>0, <1>1 DEF FlattenSeq
    <2>2. <<>> \in Text
      BY DEF Text
    <2>3. g \in [0 .. n -> Text] /\ g[0] = <<>> /\ g[n] = <<>>
      BY <2>2
    <2> HIDE DEF g
    <2>4. PutTogether(B, n, g)
      BY <1>1, <2>1, <2>3 DEF PutTogether
    <2> QED
      BY <2>4
  <1>2. CASE n # 0
    <2> DEFINE D == 1 .. n
               IsFlat(f) == f = [i \in D |-> IF i = 1 THEN B[i] ELSE f[i - 1] \o B[i]]
               Stop == {1}
               next == [i \in D |-> i - 1]
               m == [i \in D |-> i]
               step == [i \in D |-> [r \in Text |-> r \o B[i]]]
    <2>1. Ends(D, Stop, next, m)
      <3>1. m \in [D -> Nat]
        OBVIOUS
      <3>2. ASSUME NEW d \in D \ Stop PROVE next[d] \in D /\ m[next[d]] < m[d]
        <4>1. next[d] = d - 1 /\ d - 1 \in D /\ d - 1 < d
          OBVIOUS
        <4> QED
          BY <4>1
      <3> QED
        BY <3>1, <3>2 DEF Ends
    <2>2. \A i \in D : B[i] \in Text
      OBVIOUS
    <2>3. ASSUME NEW f, IsFlat(f) PROVE \A i \in D : f[i] \in Text
      <3> DEFINE T == {i \in D : f[i] \in Text}
      <3>1. \A i \in D : f[i] = IF i = 1 THEN B[i] ELSE f[i - 1] \o B[i]
        BY <2>3
      <3> HIDE DEF IsFlat
      <3>2. Inherits(T, D, Stop, next)
        <4> SUFFICES ASSUME NEW i \in D, i \in Stop \/ next[i] \in T PROVE f[i] \in Text
          BY DEF Inherits
        <4>1. CASE i = 1
          BY <2>2, <3>1, <4>1
        <4>2. CASE i # 1
          <5>1. f[i - 1] \in Text /\ f[i] = f[i - 1] \o B[i]
            BY <3>1, <4>2
          <5> QED
            BY <2>2, <5>1, JoinIs
        <4> QED
          BY <4>1, <4>2
      <3> HIDE DEF T, D, Stop, next, m
      <3>3. \A i \in D : i \in T
        BY <2>1, <3>2, MeasureInduction
      <3> QED
        BY <3>3 DEF T
    <2>4. \E f : IsFlat(f)
      <3>1. PICK f : Unrolled(f, D, Stop, B, step, next)
        <4> HIDE DEF D, Stop, next, m, step
        <4> QED
          BY <2>1, RecursionIsDefined
      <3>2. f = [i \in D |-> IF i \in Stop THEN B[i] ELSE step[i][f[next[i]]]]
        BY <3>1 DEF Unrolled
      <3>3. \A i \in D : f[i] = IF i = 1 THEN B[i] ELSE step[i][f[i - 1]]
        BY <3>2
      <3>4. \A i \in D : \A r \in Text : step[i][r] = r \o B[i]
        OBVIOUS
      <3> DEFINE T == {i \in D : f[i] \in Text}
      <3>5. Inherits(T, D, Stop, next)
        <4> SUFFICES ASSUME NEW i \in D, i \in Stop \/ next[i] \in T PROVE f[i] \in Text
          BY DEF Inherits
        <4> HIDE DEF step
        <4>1. CASE i = 1
          BY <2>2, <3>3, <4>1
        <4>2. CASE i # 1
          <5>1. f[i - 1] \in Text /\ f[i] = f[i - 1] \o B[i]
            BY <3>3, <3>4, <4>2
          <5> QED
            BY <2>2, <5>1, JoinIs
        <4> QED
          BY <4>1, <4>2
      <3>6. \A i \in D : i \in T
        <4> HIDE DEF T, D, Stop, next, m
        <4> QED
          BY <2>1, <3>5, MeasureInduction
      <3>7. \A i \in D : i # 1 => i - 1 \in D
        OBVIOUS
      <3> HIDE DEF step
      <3>8. \A i \in D : f[i] = IF i = 1 THEN B[i] ELSE f[i - 1] \o B[i]
        BY <3>3, <3>4, <3>6, <3>7
      <3>9. f = [i \in D |-> f[i]]
        BY <3>2
      <3>10. IsFlat(f)
        BY <3>8, <3>9
      <3> QED
        BY <3>10
    <2> DEFINE f == CHOOSE f : IsFlat(f)
    <2>5. IsFlat(f)
      <3> HIDE DEF IsFlat
      <3> QED
        BY <2>4
    <2>6. FlattenSeq(B) = f[n]
      BY <1>0, <1>2 DEF FlattenSeq
    <2> HIDE DEF f
    <2>7. \A i \in 1 .. n : f[i] \in Text /\ f[i] = IF i = 1 THEN B[i] ELSE f[i - 1] \o B[i]
      BY <2>3, <2>5
    <2> DEFINE g == [i \in 0 .. n |-> IF i = 0 THEN <<>> ELSE f[i]]
    <2>8. g \in [0 .. n -> Text]
      <3>1. <<>> \in Text
        BY DEF Text
      <3> QED
        BY <2>7, <3>1
    <2>9. g[0] = <<>> /\ g[n] = f[n] /\ \A i \in 1 .. n : g[i] = f[i]
      BY <1>2
    <2>10. ASSUME NEW i \in 1 .. n PROVE g[i] = g[i - 1] \o B[i]
      <3>1. CASE i = 1
        <4>1. g[i - 1] = <<>> /\ g[i] = B[i]
          BY <2>7, <2>9, <3>1
        <4>2. B[i] \in Text
          OBVIOUS
        <4> HIDE DEF g
        <4> QED
          BY <4>1, <4>2, ConcatEmptySeq DEF Text
      <3>2. CASE i # 1
        <4>1. i - 1 \in 1 .. n
          BY <3>2
        <4> HIDE DEF g
        <4> QED
          BY <2>7, <2>9, <3>2, <4>1
      <3> QED
        BY <3>1, <3>2
    <2> HIDE DEF g
    <2>11. PutTogether(B, n, g)
      BY <2>6, <2>8, <2>9, <2>10 DEF PutTogether
    <2> QED
      BY <2>11
  <1> QED
    BY <1>1, <1>2

\* What is there does not change when more is added.
LEMMA StaysInFront ==
    ASSUME NEW n \in Nat, NEW B \in [1 .. n -> Text], NEW g, PutTogether(B, n, g),
           NEW k \in 0 .. n
    PROVE  /\ Len(g[k]) <= Len(g[n])
           /\ \A i \in 1 .. Len(g[k]) : g[n][i] = g[k][i]
  <1> DEFINE So(j) == Len(g[k]) <= Len(g[j]) /\ \A i \in 1 .. Len(g[k]) : g[j][i] = g[k][i]
             S == {j \in Nat : j \in k .. n => So(j)}
  <1>0. \A i \in 0 .. n : g[i] \in Text /\ Len(g[i]) \in Nat
    BY TextIs DEF PutTogether
  <1>1. 0 \in S
    BY <1>0
  <1>2. ASSUME NEW j \in S PROVE j + 1 \in S
    <2>1. CASE ~(j + 1 \in k .. n)
      BY <2>1
    <2>2. CASE j + 1 = k
      BY <1>0, <2>2
    <2>3. CASE j + 1 \in k .. n /\ j + 1 # k
      <3>1. j \in k .. n /\ j \in 0 .. n /\ j + 1 \in 1 .. n
        BY <2>3
      <3>2. PICK i \in 1 .. n : i = j + 1
        BY <3>1
      <3>3. g[i] = g[j] \o B[i] /\ B[i] \in Text /\ g[j] \in Text
        <4>1. i - 1 = j
          BY <3>1, <3>2
        <4> QED
          BY <1>0, <3>1, <4>1 DEF PutTogether
      <3>4. So(j)
        BY <3>1
      <3>5. Len(g[i]) = Len(g[j]) + Len(B[i]) /\ Len(B[i]) \in Nat
            /\ \A x \in 1 .. Len(g[j]) : g[i][x] = g[j][x]
        BY <3>3, JoinIs, TextIs
      <3>6. So(i)
        BY <1>0, <3>1, <3>4, <3>5
      <3> QED
        BY <3>2, <3>6
    <2> QED
      BY <2>1, <2>2, <2>3
  <1>3. S = Nat
    <2>1. S \in SUBSET Nat
      OBVIOUS
    <2> HIDE DEF S
    <2> QED
      BY <1>1, <1>2, <2>1, SetInduction
  <1>4. n \in S
    BY <1>3
  <1> QED
    BY <1>4

-----------------------------------------------------------------------------
(* Line breaks on their way. *)

\* The carriage returns that a line break brings with it are those that are
\* removed.
LEMMA LineBreaksReturn ==
    ASSUME NEW s \in Text, ~HasCRLF(s)
    PROVE  CRLFtoLF(LFtoCRLF(s)) = s
  <1> DEFINE n == Len(s)
             P == [i \in DOMAIN s |-> IF s[i] = "newline" THEN <<"return", "newline">>
                                      ELSE <<s[i]>>]
             t == FlattenSeq(P)
             size == Len(t)
             Dropped(i) == t[i] = "return" /\ i < size /\ t[i + 1] = "newline"
             Q == [i \in DOMAIN t |-> IF Dropped(i) THEN <<>> ELSE <<t[i]>>]
  <1>1. n \in Nat /\ DOMAIN s = 1 .. n /\ \A i \in 1 .. n : s[i] \in Symbol
    BY TextIs
  <1>2. LFtoCRLF(s) = t /\ CRLFtoLF(t) = FlattenSeq(Q)
    BY DEF LFtoCRLF, CRLFtoLF
  <1>3. \A i \in 1 .. n : P[i] = IF s[i] = "newline" THEN <<"return", "newline">> ELSE <<s[i]>>
    BY <1>1
  <1>4. P \in [1 .. n -> Text]
    <2>1. <<"return", "newline">> \in Text /\ \A c \in Symbol : <<c>> \in Text
      BY DEF Text, Symbol
    <2> QED
      BY <1>1, <2>1
  <1> HIDE DEF P, n
  <1>5. PICK g : PutTogether(P, n, g)
    BY <1>1, <1>4, FlattenIs
  <1>6. t \in Text /\ t = g[n] /\ \A k \in 0 .. n : g[k] \in Text
    BY <1>1, <1>5 DEF PutTogether
  <1> HIDE DEF t
  <1>7. size \in Nat /\ DOMAIN t = 1 .. size /\ \A i \in 1 .. size : t[i] \in Symbol
    BY <1>6, TextIs
  <1>8. \A i \in 1 .. size : Q[i] = IF Dropped(i) THEN <<>> ELSE <<t[i]>>
    BY <1>7
  <1>9. Q \in [1 .. size -> Text]
    <2>1. <<>> \in Text /\ \A c \in Symbol : <<c>> \in Text
      BY DEF Text
    <2> QED
      BY <1>7, <2>1
  <1> HIDE DEF Q, size
  <1>10. PICK h : PutTogether(Q, size, h)
    BY <1>7, <1>9, FlattenIs
  <1>11. \A k \in 0 .. n : Len(g[k]) \in 0 .. size /\ \A i \in 1 .. Len(g[k]) : t[i] = g[k][i]
    <2> SUFFICES ASSUME NEW k \in 0 .. n
                 PROVE  Len(g[k]) \in 0 .. size /\ \A i \in 1 .. Len(g[k]) : t[i] = g[k][i]
      OBVIOUS
    <2>1. Len(g[k]) <= Len(g[n]) /\ \A i \in 1 .. Len(g[k]) : g[n][i] = g[k][i]
      BY <1>1, <1>4, <1>5, StaysInFront
    <2>2. Len(g[k]) \in Nat /\ Len(g[n]) = size
      BY <1>6, TextIs DEF size
    <2> QED
      BY <1>6, <1>7, <2>1, <2>2
  \* The k-th character of s: where its characters in t are.
  <1>12. ASSUME NEW k \in 1 .. n
         PROVE  LET p == Len(g[k - 1])
                IN  /\ p \in 0 .. size
                    /\ s[k] = "newline" => /\ Len(g[k]) = p + 2 /\ p + 2 \in 1 .. size
                                           /\ t[p + 1] = "return" /\ t[p + 2] = "newline"
                    /\ s[k] # "newline" => /\ Len(g[k]) = p + 1 /\ p + 1 \in 1 .. size
                                           /\ t[p + 1] = s[k]
    <2> DEFINE p == Len(g[k - 1])
    <2>1. k - 1 \in 0 .. n /\ k \in 0 .. n
      BY <1>1
    <2>2. p \in 0 .. size /\ g[k - 1] \in Text /\ g[k] = g[k - 1] \o P[k] /\ P[k] \in Text
      BY <1>4, <1>5, <1>6, <1>11, <2>1 DEF PutTogether
    <2>3. Len(g[k]) = p + Len(P[k]) /\ \A i \in 1 .. Len(P[k]) : g[k][p + i] = P[k][i]
      <3> DEFINE a == g[k - 1]
                 b == P[k]
                 c == g[k]
      <3>1. a \in Text /\ b \in Text /\ c = a \o b /\ p = Len(a)
        BY <2>2 DEF p
      <3> HIDE DEF a, b, c
      <3>2. Len(c) = p + Len(b) /\ \A i \in 1 .. Len(b) : c[p + i] = b[i]
        BY <3>1, JoinIs
      <3> QED
        BY <3>2 DEF a, b, c
    <2>4. Len(g[k]) \in 0 .. size /\ \A i \in 1 .. Len(g[k]) : t[i] = g[k][i]
      BY <1>11, <2>1
    <2> HIDE DEF p
    <2>5. CASE s[k] = "newline"
      <3>1. P[k] = <<"return", "newline">>
        BY <1>3, <2>5
      <3>2. Len(P[k]) = 2 /\ P[k][1] = "return" /\ P[k][2] = "newline"
        BY <3>1
      <3>3. Len(g[k]) = p + 2 /\ g[k][p + 1] = "return" /\ g[k][p + 2] = "newline"
        BY <2>3, <3>2
      <3>4. p + 1 \in 1 .. Len(g[k]) /\ p + 2 \in 1 .. Len(g[k]) /\ p + 2 \in 1 .. size
        BY <1>7, <2>2, <2>4, <3>3
      <3> QED
        BY <2>2, <2>4, <2>5, <3>3, <3>4 DEF p
    <2>6. CASE s[k] # "newline"
      <3>1. P[k] = <<s[k]>>
        BY <1>3, <2>6
      <3>2. Len(P[k]) = 1 /\ P[k][1] = s[k]
        BY <3>1
      <3>3. Len(g[k]) = p + 1 /\ g[k][p + 1] = s[k]
        BY <2>3, <3>2
      <3>4. p + 1 \in 1 .. Len(g[k]) /\ p + 1 \in 1 .. size
        BY <1>7, <2>2, <2>4, <3>3
      <3> QED
        BY <2>2, <2>4, <2>6, <3>3, <3>4 DEF p
    <2> QED
      BY <2>5, <2>6
  <1> DEFINE So(k) == h[Len(g[k])] = SubSeq(s, 1, k)
             S == {k \in Nat : k <= n => So(k)}
  <1>13. 0 \in S
    <2>1. g[0] = <<>> /\ h[0] = <<>>
      BY <1>5, <1>10 DEF PutTogether
    <2>2. Len(<<>>) = 0 /\ SubSeq(s, 1, 0) = <<>>
      OBVIOUS
    <2> QED
      BY <2>1, <2>2
  <1>14. ASSUME NEW j \in S PROVE j + 1 \in S
    <2> SUFFICES ASSUME j + 1 <= n PROVE So(j + 1)
      OBVIOUS
    <2>1. PICK k \in 1 .. n : k = j + 1
      <3>1. j + 1 \in 1 .. n
        OBVIOUS
      <3> QED
        BY <3>1
    <2>2. k - 1 = j /\ j <= n /\ k \in Nat
      BY <1>1, <2>1
    <2> DEFINE p == Len(g[j])
    <2>3. h[p] = SubSeq(s, 1, k - 1)
      BY <2>2
    <2>4. /\ p \in 0 .. size
          /\ s[k] = "newline" => /\ Len(g[k]) = p + 2 /\ p + 2 \in 1 .. size
                                 /\ t[p + 1] = "return" /\ t[p + 2] = "newline"
          /\ s[k] # "newline" => /\ Len(g[k]) = p + 1 /\ p + 1 \in 1 .. size
                                 /\ t[p + 1] = s[k]
      BY <1>12, <2>2
    <2>5. \A i \in 1 .. size : h[i] = h[i - 1] \o Q[i] /\ h[i - 1] \in Text
      <3>1. h \in [0 .. size -> Text] /\ \A i \in 1 .. size : h[i] = h[i - 1] \o Q[i]
        BY <1>10 DEF PutTogether
      <3>2. \A i \in 1 .. size : i - 1 \in 0 .. size
        BY <1>7
      <3> QED
        BY <3>1, <3>2
    <2>6. SubSeq(s, 1, k) = SubSeq(s, 1, k - 1) \o <<s[k]>>
      <3>1. 1 \in 1 .. Len(s) /\ k \in 1 .. Len(s)
        BY <1>1 DEF n
      <3> QED
        BY <3>1, SubSeqRecursiveSecond DEF Text
    <2> HIDE DEF p, So, S
    <2>7. h[Len(g[k])] = SubSeq(s, 1, k)
      <3>1. CASE s[k] = "newline"
        <4>1. PICK a, b \in 1 .. size : a = p + 1 /\ b = p + 2
          <5>1. p + 1 \in 1 .. size /\ p + 2 \in 1 .. size
            BY <1>7, <2>4, <3>1
          <5> QED
            BY <5>1
        <4>2. a - 1 = p /\ b - 1 = a /\ a + 1 = b /\ a < size
          BY <1>7, <2>4, <4>1
        <4>3. Dropped(a) /\ ~Dropped(b)
          BY <2>4, <3>1, <4>1, <4>2
        <4>4. Q[a] = <<>> /\ Q[b] = <<s[k]>>
          BY <1>8, <2>4, <3>1, <4>1, <4>3
        <4>5. h[a] = h[p] \o <<>> /\ h[p] \in Text
          BY <2>5, <4>2, <4>4
        <4>6. h[a] = h[p]
          BY <4>5, ConcatEmptySeq DEF Text
        <4>7. h[b] = h[p] \o <<s[k]>>
          BY <2>5, <4>2, <4>4, <4>6
        <4> QED
          BY <2>3, <2>4, <2>6, <3>1, <4>1, <4>7
      <3>2. CASE s[k] # "newline"
        <4>1. PICK a \in 1 .. size : a = p + 1
          BY <2>4, <3>2
        <4>2. a - 1 = p
          BY <2>4, <4>1
        <4>3. ~Dropped(a)
          <5> SUFFICES ASSUME a < size, t[a + 1] = "newline" PROVE FALSE
            OBVIOUS
          <5>1. k # n
            <6>1. Len(g[k]) = a /\ Len(g[n]) = size
              BY <1>6, <2>4, <3>2, <4>1 DEF size
            <6> QED
              BY <1>7, <6>1
          <5>2. PICK l \in 1 .. n : l = k + 1
            <6>1. k + 1 \in 1 .. n
              BY <1>1, <5>1
            <6> QED
              BY <6>1
          <5>3. l - 1 = k /\ Len(g[k]) = a
            BY <2>2, <2>4, <3>2, <4>1, <5>2
          <5>4. /\ s[l] = "newline" => t[a + 1] = "return"
                /\ s[l] # "newline" => t[a + 1] = s[l]
            BY <1>12, <5>3
          <5> QED
            BY <5>4
        <4>4. Q[a] = <<s[k]>>
          BY <1>8, <2>4, <3>2, <4>1, <4>3
        <4>5. h[a] = h[p] \o <<s[k]>>
          BY <2>5, <4>2, <4>4
        <4> QED
          BY <2>3, <2>4, <2>6, <3>2, <4>1, <4>5
      <3> QED
        BY <3>1, <3>2
    <2> QED
      BY <2>1, <2>7 DEF So
  <1>15. S = Nat
    <2>1. S \in SUBSET Nat
      OBVIOUS
    <2> HIDE DEF S
    <2> QED
      BY <1>13, <1>14, <2>1, SetInduction
  <1>16. h[Len(g[n])] = SubSeq(s, 1, n)
    <2>1. n \in S
      BY <1>1, <1>15
    <2> QED
      BY <1>1, <2>1
  <1>17. SubSeq(s, 1, n) = s
    BY SubSeqFull DEF Text, n
  <1>18. FlattenSeq(Q) = s
    BY <1>6, <1>10, <1>16, <1>17 DEF PutTogether, size
  <1> QED
    BY <1>2, <1>18

\* Texts stay texts on their way.
LEMMA SentIsText ==
    ASSUME NEW s \in Text
    PROVE  CRLFtoLF(s) \in Text /\ LFtoCRLF(s) \in Text
  <1>1. Len(s) \in Nat /\ DOMAIN s = 1 .. Len(s) /\ \A i \in 1 .. Len(s) : s[i] \in Symbol
    BY TextIs
  <1>2. <<>> \in Text /\ <<"return", "newline">> \in Text /\ \A c \in Symbol : <<c>> \in Text
    BY DEF Text, Symbol
  <1>3. \A n \in Nat : \A B \in [1 .. n -> Text] : FlattenSeq(B) \in Text
    <2> SUFFICES ASSUME NEW n \in Nat, NEW B \in [1 .. n -> Text] PROVE FlattenSeq(B) \in Text
      OBVIOUS
    <2>1. PICK g : PutTogether(B, n, g)
      BY FlattenIs
    <2> QED
      BY <2>1 DEF PutTogether
  <1>4. CRLFtoLF(s) \in Text
    <2> DEFINE Dropped(i) == s[i] = "return" /\ i < Len(s) /\ s[i + 1] = "newline"
               Q == [i \in DOMAIN s |-> IF Dropped(i) THEN <<>> ELSE <<s[i]>>]
    <2>1. Q \in [1 .. Len(s) -> Text]
      BY <1>1, <1>2
    <2>2. CRLFtoLF(s) = FlattenSeq(Q)
      BY DEF CRLFtoLF
    <2> HIDE DEF Q
    <2> QED
      BY <1>1, <1>3, <2>1, <2>2
  <1>5. LFtoCRLF(s) \in Text
    <2> DEFINE P == [i \in DOMAIN s |-> IF s[i] = "newline" THEN <<"return", "newline">>
                                        ELSE <<s[i]>>]
    <2>1. P \in [1 .. Len(s) -> Text]
      BY <1>1, <1>2
    <2>2. LFtoCRLF(s) = IF HasCRLF(s) THEN s ELSE FlattenSeq(P)
      BY DEF LFtoCRLF
    <2> HIDE DEF P
    <2> QED
      BY <1>1, <1>3, <2>1, <2>2
  <1> QED
    BY <1>4, <1>5

-----------------------------------------------------------------------------
(* Folding a header. *)

\* The characters of a text into which one is inserted.
LEMMA InsertIs ==
    ASSUME NEW s \in Text, NEW c \in Symbol, NEW i \in 1 .. Len(s) + 1
    PROVE  LET t == InsertAt(s, i, c)
           IN  /\ t \in Text /\ Len(t) = Len(s) + 1 /\ t[i] = c
               /\ \A j \in 1 .. i - 1 : t[j] = s[j]
               /\ \A j \in i .. Len(s) : t[j + 1] = s[j]
  <1> DEFINE a == SubSeq(s, 1, i - 1)
             b == SubSeq(s, i, Len(s))
             d == <<c>>
             e == a \o d
             t == e \o b
  <1>0. Len(s) \in Nat /\ i - 1 \in 0 .. Len(s) /\ i \in Nat \ {0} /\ Len(s) \in Int
        /\ Len(s) <= Len(s)
    BY TextIs
  <1>1. a \in Text /\ Len(a) = i - 1 /\ \A j \in 1 .. i - 1 : a[j] = s[j]
    BY <1>0, FrontIs
  <1>2. b \in Text /\ Len(b) = Len(s) - i + 1 /\ \A j \in 1 .. Len(b) : b[j] = s[i + j - 1]
    <2>1. b \in Text /\ Len(b) = (IF i <= Len(s) THEN Len(s) - i + 1 ELSE 0)
          /\ \A j \in 1 .. Len(b) : b[j] = s[i + j - 1]
      BY <1>0, PieceIs
    <2> HIDE DEF b
    <2> QED
      BY <1>0, <2>1
  <1>3. d \in Text /\ Len(d) = 1 /\ d[1] = c
    BY OneCharacter
  <1>4. InsertAt(s, i, c) = t
    BY DEF InsertAt
  <1> HIDE DEF a, b, d
  <1>5. /\ e \in Text /\ Len(e) = Len(a) + Len(d)
        /\ \A j \in 1 .. Len(a) : e[j] = a[j]
        /\ \A j \in 1 .. Len(d) : e[Len(a) + j] = d[j]
    BY <1>1, <1>3, JoinIs
  <1> HIDE DEF e
  <1>6. /\ t \in Text /\ Len(t) = Len(e) + Len(b)
        /\ \A j \in 1 .. Len(e) : t[j] = e[j]
        /\ \A j \in 1 .. Len(b) : t[Len(e) + j] = b[j]
    BY <1>2, <1>5, JoinIs
  <1> HIDE DEF t
  <1>7. Len(e) = i /\ Len(t) = Len(s) + 1
    BY <1>0, <1>1, <1>2, <1>3, <1>5, <1>6
  <1>8. e[i] = c
    <2>1. 1 \in 1 .. Len(d) /\ Len(a) + 1 = i
      BY <1>0, <1>1, <1>3
    <2>2. e[Len(a) + 1] = d[1]
      BY <1>5, <2>1
    <2> QED
      BY <1>3, <2>1, <2>2
  <1>9. t[i] = c
    BY <1>0, <1>6, <1>7, <1>8
  <1>10. \A j \in 1 .. i - 1 : t[j] = s[j]
    BY <1>0, <1>1, <1>5, <1>6, <1>7
  <1>11. ASSUME NEW j \in i .. Len(s) PROVE t[j + 1] = s[j]
    <2>1. PICK k \in 1 .. Len(b) : k = j - i + 1
      <3>1. j - i + 1 \in 1 .. Len(b)
        BY <1>0, <1>2
      <3> QED
        BY <3>1
    <2>2. Len(e) + k = j + 1 /\ i + k - 1 = j
      BY <1>0, <1>7, <2>1
    <2> QED
      BY <1>2, <1>6, <2>2
  <1> QED
    BY <1>4, <1>6, <1>7, <1>9, <1>10, <1>11

FoldStep(s) == IF MustFold(s) THEN FoldLine(s) ELSE ReadCharacter(s)

FoldMeasure(s) ==
    3 * (Len(s.header) + 1 - s.pos) + (IF s.eligible = 0 THEN 0 ELSE 1)
                                    + (IF s.recommended = 0 THEN 0 ELSE 1)

LEMMA FoldStateIs ==
    ASSUME NEW s \in FoldState
    PROVE  /\ s.header \in Text /\ Len(s.header) \in Nat
           /\ s.pos \in 1 .. Len(s.header) + 1 /\ s.start \in Nat
           /\ s.eligible \in 0 .. s.pos /\ s.recommended \in 0 .. s.pos
           /\ s.quoted \in BOOLEAN /\ s.escaped \in BOOLEAN
  <1>1. s.header \in Text
    BY DEF FoldState
  <1>2. Len(s.header) \in Nat
    BY <1>1, TextIs
  <1> QED
    BY <1>1, <1>2 DEF FoldState

\* A line is folded: what changes.
LEMMA FoldLineIs ==
    ASSUME NEW s \in FoldState, MustFold(s)
    PROVE  LET fws == IF s.recommended # 0 THEN s.recommended ELSE s.eligible
               t == FoldLine(s)
           IN  /\ fws \in 1 .. Len(s.header) + 1 /\ fws <= s.pos
               /\ t \in FoldState /\ FoldMeasure(t) \in Nat /\ FoldMeasure(t) < FoldMeasure(s)
               /\ t.header = InsertAt(s.header, fws, "newline")
               /\ Len(t.header) = Len(s.header) + 1
               /\ t.pos = s.pos + 1 /\ t.start = fws + 1 /\ t.recommended = 0
               /\ t.eligible = IF s.eligible <= fws THEN 0 ELSE s.eligible + 1
               /\ t.quoted = s.quoted /\ t.escaped = s.escaped
  <1> DEFINE fws == IF s.recommended # 0 THEN s.recommended ELSE s.eligible
             t == FoldLine(s)
  <1>1. /\ s.header \in Text /\ Len(s.header) \in Nat
        /\ s.pos \in 1 .. Len(s.header) + 1 /\ s.start \in Nat
        /\ s.eligible \in 0 .. s.pos /\ s.recommended \in 0 .. s.pos
        /\ s.quoted \in BOOLEAN /\ s.escaped \in BOOLEAN
    BY FoldStateIs
  <1>2. s.eligible # 0
    BY DEF MustFold
  <1>3. fws \in 1 .. Len(s.header) + 1 /\ fws <= s.pos
    BY <1>1, <1>2
  <1>4. s \in [header : Text, pos : Nat \ {0}, start : Nat, eligible : Nat, recommended : Nat,
               quoted : BOOLEAN, escaped : BOOLEAN]
    BY DEF FoldState
  <1>5. t = [s EXCEPT !.header = InsertAt(@, fws, "newline"),
                      !.pos = @ + 1,
                      !.start = fws + 1,
                      !.eligible = IF @ <= fws THEN 0 ELSE @ + 1,
                      !.recommended = 0]
    BY DEF FoldLine
  <1> DEFINE h == InsertAt(s.header, fws, "newline")
  <1>6. h \in Text /\ Len(h) = Len(s.header) + 1
    <2>1. "newline" \in Symbol
      BY DEF Symbol
    <2> HIDE DEF fws
    <2> QED
      BY <1>1, <1>3, <2>1, InsertIs
  <1> HIDE DEF t, fws, h
  <1> DEFINE e == IF s.eligible <= fws THEN 0 ELSE s.eligible + 1
  <1>e. e \in Nat /\ fws + 1 \in Nat /\ s.pos + 1 \in Nat \ {0} /\ 0 \in Nat
    BY <1>1, <1>3
  <1>t. t = [s EXCEPT !.header = h, !.pos = s.pos + 1, !.start = fws + 1,
                      !.eligible = e, !.recommended = 0]
    BY <1>4, <1>5 DEF h
  <1> HIDE DEF e
  <1>7. /\ t.header = h /\ t.pos = s.pos + 1 /\ t.start = fws + 1 /\ t.recommended = 0
        /\ t.eligible = e
        /\ t.quoted = s.quoted /\ t.escaped = s.escaped
        /\ t \in [header : Text, pos : Nat \ {0}, start : Nat, eligible : Nat, recommended : Nat,
                  quoted : BOOLEAN, escaped : BOOLEAN]
    BY <1>4, <1>6, <1>e, <1>t
  <1>l. Len(t.header) = Len(s.header) + 1
    BY <1>6, <1>7
  <1>8. t.pos <= Len(t.header) + 1 /\ t.eligible <= t.pos /\ t.recommended <= t.pos
    BY <1>1, <1>3, <1>l, <1>7 DEF e
  <1>9. t \in FoldState
    BY <1>7, <1>8 DEF FoldState
  <1>10. FoldMeasure(t) \in Nat /\ FoldMeasure(t) < FoldMeasure(s)
    <2> DEFINE a == Len(s.header) + 1 - s.pos
    <2>0. Len(s.header) \in Nat /\ s.pos \in 1 .. Len(s.header) + 1 /\ t.pos = s.pos + 1
      BY <1>1, <1>7
    <2>1. a \in Nat /\ Len(t.header) + 1 - t.pos = a
      <3>1. \A n, p \in Nat : p <= n + 1 => n + 1 - p \in Nat /\ n + 1 + 1 - (p + 1) = n + 1 - p
        OBVIOUS
      <3>2. Len(s.header) \in Nat /\ s.pos \in Nat /\ s.pos <= Len(s.header) + 1
        BY <2>0
      <3>3. Len(t.header) + 1 - t.pos = Len(s.header) + 1 + 1 - (s.pos + 1)
        BY <1>l, <2>0
      <3> QED
        BY <3>1, <3>2, <3>3
    <2> HIDE DEF a
    <2>2. FoldMeasure(t) = 3 * a + (IF t.eligible = 0 THEN 0 ELSE 1)
      BY <1>7, <2>1, SMTT(30) DEF FoldMeasure
    <2>3. FoldMeasure(s) = 3 * a + 1 + (IF s.recommended = 0 THEN 0 ELSE 1)
      BY <1>2, <2>1 DEF FoldMeasure, a
    <2>4. s.recommended = 0 => t.eligible = 0
      BY <1>1, <1>7 DEF fws, e
    <2> QED
      BY <2>1, <2>2, <2>3, <2>4
  <1> QED
    BY <1>3, <1>6, <1>7, <1>l, <1>9, <1>10 DEF t, fws, h, e

\* A character is read: what changes.
LEMMA ReadCharacterIs ==
    ASSUME NEW s \in FoldState, ~MustFold(s), ~Folded(s)
    PROVE  LET t == ReadCharacter(s)
               c == s.header[s.pos]
               last == s.header[s.pos - 1]
               here == c = "space" /\ ~s.escaped /\ last # "newline"
           IN  /\ s.pos <= Len(s.header)
               /\ t \in FoldState /\ FoldMeasure(t) \in Nat /\ FoldMeasure(t) < FoldMeasure(s)
               /\ t.header = s.header /\ t.pos = s.pos + 1
               /\ t.start = IF c = "newline" THEN s.pos + 1 ELSE s.start
               /\ t.eligible = IF here THEN s.pos
                               ELSE IF c = "newline" THEN 0 ELSE s.eligible
               /\ t.recommended = IF here /\ last = "comma" /\ ~s.quoted THEN s.pos
                                  ELSE IF c = "newline" THEN 0 ELSE s.recommended
               /\ t.escaped = (c = "backslash" /\ ~s.escaped)
  <1> DEFINE t == ReadCharacter(s)
             c == s.header[s.pos]
             last == s.header[s.pos - 1]
             here == c = "space" /\ ~s.escaped /\ last # "newline"
             new == IF c = "newline" THEN s.pos + 1 ELSE s.start
             e == IF here THEN s.pos ELSE IF c = "newline" THEN 0 ELSE s.eligible
             r == IF here /\ last = "comma" /\ ~s.quoted THEN s.pos
                  ELSE IF c = "newline" THEN 0 ELSE s.recommended
             q == IF c = "quote" /\ ~s.escaped THEN ~s.quoted ELSE s.quoted
             esc == c = "backslash" /\ ~s.escaped
  <1>1. /\ s.header \in Text /\ Len(s.header) \in Nat
        /\ s.pos \in 1 .. Len(s.header) + 1 /\ s.start \in Nat
        /\ s.eligible \in 0 .. s.pos /\ s.recommended \in 0 .. s.pos
        /\ s.quoted \in BOOLEAN /\ s.escaped \in BOOLEAN
    BY FoldStateIs
  <1>2. s.pos <= Len(s.header)
    BY <1>1 DEF Folded
  <1>3. s \in [header : Text, pos : Nat \ {0}, start : Nat, eligible : Nat, recommended : Nat,
               quoted : BOOLEAN, escaped : BOOLEAN]
    BY DEF FoldState
  <1>4. t = [s EXCEPT !.pos = s.pos + 1, !.start = new, !.eligible = e, !.recommended = r,
                      !.quoted = q, !.escaped = esc]
    BY <1>3 DEF ReadCharacter
  <1>5. /\ new \in Nat /\ e \in 0 .. s.pos /\ r \in 0 .. s.pos /\ q \in BOOLEAN
        /\ esc \in BOOLEAN /\ s.pos + 1 \in Nat \ {0} /\ e \in Nat /\ r \in Nat
    <2> HIDE DEF here, c, last
    <2>1. new \in Nat /\ e \in 0 .. s.pos /\ s.pos + 1 \in Nat \ {0} /\ e \in Nat
      BY <1>1
    <2>2. r \in 0 .. s.pos /\ r \in Nat
      BY <1>1
    <2>3. q \in BOOLEAN /\ esc \in BOOLEAN
      BY <1>1
    <2> QED
      BY <2>1, <2>2, <2>3
  <1> HIDE DEF new, e, r, q, esc, t
  <1>6. /\ t.header = s.header /\ t.pos = s.pos + 1 /\ t.start = new /\ t.eligible = e
        /\ t.recommended = r /\ t.escaped = esc
        /\ t \in [header : Text, pos : Nat \ {0}, start : Nat, eligible : Nat, recommended : Nat,
                  quoted : BOOLEAN, escaped : BOOLEAN]
    BY <1>3, <1>4, <1>5
  <1>7. t.pos <= Len(t.header) + 1 /\ t.eligible <= t.pos /\ t.recommended <= t.pos
    BY <1>1, <1>2, <1>5, <1>6
  <1>8. t \in FoldState
    BY <1>6, <1>7 DEF FoldState
  <1>9. FoldMeasure(t) \in Nat /\ FoldMeasure(t) < FoldMeasure(s)
    <2> DEFINE a == Len(s.header) + 1 - s.pos
    <2>0. Len(s.header) \in Nat /\ s.pos \in 1 .. Len(s.header) /\ t.pos = s.pos + 1
      BY <1>1, <1>2, <1>6
    <2>1. a \in Nat \ {0} /\ Len(t.header) + 1 - t.pos = a - 1
      BY <2>0, <1>6, SMTT(30)
    <2> HIDE DEF a
    <2>2. FoldMeasure(t) = 3 * (a - 1) + (IF t.eligible = 0 THEN 0 ELSE 1)
                                       + (IF t.recommended = 0 THEN 0 ELSE 1)
      BY <2>1 DEF FoldMeasure
    <2>3. FoldMeasure(s) = 3 * a + (IF s.eligible = 0 THEN 0 ELSE 1)
                                 + (IF s.recommended = 0 THEN 0 ELSE 1)
      BY DEF FoldMeasure, a
    <2> QED
      BY <2>1, <2>2, <2>3
  <1> QED
    BY <1>2, <1>6, <1>8, <1>9 DEF t, new, e, r, esc

FoldStart(t) ==
    LET pos == Min(Positions(t, "colon")) + 1
    IN  [header |-> t, pos |-> pos, start |-> 1, eligible |-> pos, recommended |-> pos,
         quoted |-> FALSE, escaped |-> FALSE]

\* A set of states that the loop does not leave.
Loops(T) ==
    /\ T \subseteq FoldState
    /\ \A s \in T : ~Folded(s) => FoldStep(s) \in T

IsFolded(t) ==
    ~(Len(t) <= MaxLen \/ Positions(t, "colon") = {} \/ Min(Positions(t, "colon")) + 1 > Len(t))

\* The loop ends, in a state of any such set that it starts in.
LEMMA FoldHeaderIs ==
    ASSUME NEW t \in Text, NEW T, Loops(T), IsFolded(t) => FoldStart(t) \in T
    PROVE  IF IsFolded(t) THEN \E s \in T : Folded(s) /\ FoldHeader(t) = s.header
           ELSE FoldHeader(t) = t
  <1> DEFINE Is(f) == f = [s \in FoldState |->
                             IF Folded(s) THEN s.header
                             ELSE f[IF MustFold(s) THEN FoldLine(s) ELSE ReadCharacter(s)]]
             fold == CHOOSE f : Is(f)
             Stop == {s \in FoldState : Folded(s)}
             m == [s \in FoldState |-> FoldMeasure(s)]
             next == [s \in FoldState |-> FoldStep(s)]
             last == [s \in FoldState |-> s.header]
             step == [s \in FoldState |-> [u \in Text |-> u]]
  <1>1. FoldHeader(t) = IF IsFolded(t) THEN fold[FoldStart(t)] ELSE t
    BY DEF FoldHeader, FoldStart, IsFolded
  <1> SUFFICES ASSUME IsFolded(t) PROVE \E s \in T : Folded(s) /\ fold[FoldStart(t)] = s.header
    BY <1>1
  <1>2. Ends(FoldState, Stop, next, m)
    <2>1. ASSUME NEW s \in FoldState PROVE FoldMeasure(s) \in Nat
      <3>1. /\ Len(s.header) \in Nat /\ s.pos \in 1 .. Len(s.header) + 1
        BY FoldStateIs
      <3>2. Len(s.header) + 1 - s.pos \in Nat
        BY <3>1
      <3> QED
        BY <3>2 DEF FoldMeasure
    <2>2. ASSUME NEW s \in FoldState, ~Folded(s)
          PROVE  FoldStep(s) \in FoldState /\ FoldMeasure(FoldStep(s)) < FoldMeasure(s)
      <3>1. CASE MustFold(s)
        BY <3>1, FoldLineIs DEF FoldStep
      <3>2. CASE ~MustFold(s)
        BY <2>2, <3>2, ReadCharacterIs DEF FoldStep
      <3> QED
        BY <3>1, <3>2
    <2>3. m \in [FoldState -> Nat]
      BY <2>1
    <2>4. \A s \in FoldState \ Stop : next[s] \in FoldState /\ m[next[s]] < m[s]
      BY <2>2
    <2> QED
      BY <2>3, <2>4 DEF Ends
  <1>3. \E f : Is(f)
    <2>1. PICK f : Unrolled(f, FoldState, Stop, last, step, next)
      <3> HIDE DEF Stop, last, step, next, m
      <3> QED
        BY <1>2, RecursionIsDefined
    <2>2. f = [s \in FoldState |-> IF s \in Stop THEN last[s] ELSE step[s][f[next[s]]]]
      BY <2>1 DEF Unrolled
    <2>3. \A s \in FoldState : f[s] = IF Folded(s) THEN s.header ELSE step[s][f[next[s]]]
      BY <2>2
    <2>4. \A s \in FoldState : ~Folded(s) => next[s] \in FoldState
      BY <1>2 DEF Ends
    <2> DEFINE U == {s \in FoldState : f[s] \in Text}
    <2>5. Inherits(U, FoldState, Stop, next)
      <3> SUFFICES ASSUME NEW s \in FoldState, s \in Stop \/ next[s] \in U PROVE s \in U
        BY DEF Inherits
      <3>1. CASE Folded(s)
        BY <2>3, <3>1, FoldStateIs
      <3>2. CASE ~Folded(s)
        <4>1. f[s] = step[s][f[next[s]]] /\ f[next[s]] \in Text
          BY <2>3, <3>2
        <4> QED
          BY <4>1
      <3> QED
        BY <3>1, <3>2
    <2>6. \A s \in FoldState : s \in U
      <3> HIDE DEF U, Stop, next, m
      <3> QED
        BY <1>2, <2>5, MeasureInduction
    <2>7. \A s \in FoldState : f[s] = IF Folded(s) THEN s.header ELSE f[FoldStep(s)]
      <3> SUFFICES ASSUME NEW s \in FoldState, ~Folded(s) PROVE f[s] = f[FoldStep(s)]
        BY <2>3
      <3>1. next[s] = FoldStep(s) /\ FoldStep(s) \in FoldState
        BY <2>4
      <3>2. f[FoldStep(s)] \in Text
        BY <2>6, <3>1
      <3>3. step[s][f[FoldStep(s)]] = f[FoldStep(s)]
        BY <3>2
      <3> QED
        BY <2>3, <3>1, <3>3
    <2>8. Is(f)
      BY <2>2, <2>7 DEF FoldStep
    <2> QED
      BY <2>8
  <1>4. Is(fold)
    <2> HIDE DEF Is
    <2> QED
      BY <1>3
  <1>5. \A s \in FoldState : fold[s] = IF Folded(s) THEN s.header ELSE fold[FoldStep(s)]
    BY <1>4 DEF FoldStep
  <1> HIDE DEF fold
  <1> DEFINE U == {s \in FoldState : s \in T => \E u \in T : Folded(u) /\ fold[s] = u.header}
  <1>6. Inherits(U, FoldState, Stop, next)
    <2> SUFFICES ASSUME NEW s \in FoldState, s \in Stop \/ next[s] \in U PROVE s \in U
      BY DEF Inherits
    <2>1. CASE Folded(s)
      BY <1>5, <2>1
    <2>2. CASE ~Folded(s)
      <3>1. next[s] = FoldStep(s)
        OBVIOUS
      <3>2. fold[s] = fold[FoldStep(s)]
        BY <1>5, <2>2
      <3>3. s \in T => FoldStep(s) \in T
        BY <2>2 DEF Loops
      <3> QED
        BY <2>2, <3>1, <3>2, <3>3
    <2> QED
      BY <2>1, <2>2
  <1>7. \A s \in FoldState : s \in U
    <2> HIDE DEF U, Stop, next, m
    <2> QED
      BY <1>2, <1>6, MeasureInduction
  <1> QED
    BY <1>7 DEF Loops

\* One or more lines, none of them empty, without the last newline.
Block(h) ==
    /\ h \in Text /\ Len(h) >= 1 /\ h[1] # "newline" /\ h[Len(h)] # "newline"
    /\ \A i \in 1 .. Len(h) - 1 : h[i] # "newline" \/ h[i + 1] # "newline"

\* Where a newline makes no empty line.
Breakable(h, e) ==
    e \in 2 .. Len(h) /\ h[e] # "newline" /\ h[e - 1] # "newline"

LEMMA BreakingKeeps ==
    ASSUME NEW h, Block(h), NEW i \in Nat, Breakable(h, i)
    PROVE  LET t == InsertAt(h, i, "newline")
           IN  /\ Block(t)
               /\ \A e \in Nat : e > i /\ Breakable(h, e) => Breakable(t, e + 1)
  <1> DEFINE t == InsertAt(h, i, "newline")
             n == Len(h)
  <1>1. /\ h \in Text /\ n \in Nat /\ n >= 1 /\ h[1] # "newline" /\ h[n] # "newline"
        /\ \A j \in 1 .. n - 1 : h[j] # "newline" \/ h[j + 1] # "newline"
    BY TextIs DEF Block
  <1>2. i \in 2 .. n /\ h[i] # "newline" /\ h[i - 1] # "newline"
    BY DEF Breakable
  <1>3. /\ t \in Text /\ Len(t) = n + 1 /\ t[i] = "newline"
        /\ \A j \in 1 .. i - 1 : t[j] = h[j]
        /\ \A j \in i .. n : t[j + 1] = h[j]
    <2>1. i \in 1 .. Len(h) + 1 /\ "newline" \in Symbol
      BY <1>1, <1>2 DEF Symbol
    <2> QED
      BY <1>1, <2>1, InsertIs
  <1> HIDE DEF t, n
  <1>4. t[1] # "newline" /\ t[n + 1] # "newline"
    <2>1. 1 \in 1 .. i - 1 /\ n \in i .. n
      BY <1>1, <1>2
    <2> QED
      BY <1>1, <1>3, <2>1
  \* A character after the new newline.
  <1>5. ASSUME NEW j \in i + 1 .. n + 1 PROVE j - 1 \in i .. n /\ t[j] = h[j - 1]
    <2>1. PICK k \in i .. n : k = j - 1
      <3>1. j - 1 \in i .. n
        BY <1>1, <1>2
      <3> QED
        BY <3>1
    <2>2. k + 1 = j
      BY <1>1, <1>2, <2>1
    <2> QED
      BY <1>3, <2>1, <2>2
  <1>6. ASSUME NEW j \in 1 .. n PROVE t[j] # "newline" \/ t[j + 1] # "newline"
    <2>1. CASE j + 1 < i
      <3>1. j \in 1 .. i - 1 /\ j + 1 \in 1 .. i - 1 /\ j \in 1 .. n - 1
        BY <1>1, <1>2, <2>1
      <3> QED
        BY <1>1, <1>3, <3>1
    <2>2. CASE j + 1 = i
      <3>1. j \in 1 .. i - 1 /\ j = i - 1
        BY <1>1, <1>2, <2>2
      <3> QED
        BY <1>2, <1>3, <3>1
    <2>3. CASE j = i
      <3>1. j \in i .. n
        BY <1>2, <2>3
      <3> QED
        BY <1>2, <1>3, <2>3, <3>1
    <2>4. CASE j > i
      <3>1. PICK k \in i .. n - 1 : k = j - 1
        <4>1. j - 1 \in i .. n - 1
          BY <1>1, <1>2, <2>4
        <4> QED
          BY <4>1
      <3>2. k + 1 = j /\ k \in i .. n /\ j \in i .. n /\ k \in 1 .. n - 1
        BY <1>1, <1>2, <3>1
      <3>3. t[k + 1] = h[k] /\ t[j + 1] = h[j]
        BY <1>3, <3>2
      <3>4. t[j] = h[k] /\ t[j + 1] = h[k + 1]
        BY <3>2, <3>3
      <3> QED
        BY <1>1, <3>2, <3>4
    <2> QED
      BY <1>2, <2>1, <2>2, <2>3, <2>4
  <1>7. Block(t)
    <2>1. Len(t) - 1 = n /\ Len(t) >= 1
      BY <1>1, <1>3
    <2>2. t[Len(t)] # "newline" /\ \A j \in 1 .. Len(t) - 1 : t[j] # "newline" \/ t[j + 1] # "newline"
      BY <1>3, <1>4, <1>6, <2>1
    <2> QED
      BY <1>3, <1>4, <2>1, <2>2 DEF Block
  <1>8. ASSUME NEW e \in Nat, e > i, Breakable(h, e) PROVE Breakable(t, e + 1)
    <2>1. e \in 2 .. n /\ h[e] # "newline" /\ h[e - 1] # "newline"
      BY <1>8 DEF Breakable, n
    <2>2. e + 1 \in 2 .. n + 1 /\ e \in i .. n /\ e \in i + 1 .. n + 1 /\ e + 1 - 1 = e
      BY <1>1, <1>2, <1>8, <2>1
    <2>3. t[e + 1] = h[e] /\ t[e] = h[e - 1]
      BY <1>3, <1>5, <2>2
    <2> QED
      BY <1>3, <2>1, <2>2, <2>3 DEF Breakable
  <1> QED
    BY <1>7, <1>8 DEF t

\* The first colon of a text that is folded.
LEMMA FirstColon ==
    ASSUME NEW t \in Text, Positions(t, "colon") # {}
    PROVE  LET c == Min(Positions(t, "colon"))
           IN  /\ c \in 1 .. Len(t) /\ t[c] = "colon"
               /\ \A i \in 1 .. c - 1 : t[i] # "colon"
  <1> DEFINE T == Positions(t, "colon")
             c == Min(T)
  <1>1. T \in SUBSET Nat /\ T # {} /\ DOMAIN t = 1 .. Len(t) /\ Len(t) \in Nat
    BY TextIs DEF Positions
  <1>2. c \in T /\ \A i \in T : c <= i
    <2> HIDE DEF T
    <2> QED
      BY <1>1, LeastNat
  <1>3. c \in 1 .. Len(t) /\ t[c] = "colon"
    BY <1>1, <1>2 DEF Positions
  <1>4. ASSUME NEW i \in 1 .. c - 1 PROVE t[i] # "colon"
    <2>1. i \in 1 .. Len(t) /\ ~(c <= i)
      BY <1>1, <1>3
    <2> HIDE DEF c
    <2> QED
      BY <1>1, <1>2, <2>1 DEF Positions
  <1> QED
    BY <1>3, <1>4

LEMMA FoldStarts ==
    ASSUME NEW t \in Text, IsFolded(t)
    PROVE  /\ FoldStart(t) \in FoldState
           /\ FoldStart(t).header = t
           /\ FoldStart(t).pos = Min(Positions(t, "colon")) + 1
           /\ FoldStart(t).eligible = FoldStart(t).pos
           /\ FoldStart(t).recommended = FoldStart(t).pos
           /\ FoldStart(t).start = 1 /\ FoldStart(t).escaped = FALSE
           /\ FoldStart(t).pos \in 2 .. Len(t)
  <1> DEFINE p == Min(Positions(t, "colon")) + 1
  <1>1. p \in 2 .. Len(t) /\ Len(t) \in Nat
    BY FirstColon, TextIs DEF IsFolded
  <1> HIDE DEF p
  <1>2. FoldStart(t) = [header |-> t, pos |-> p, start |-> 1, eligible |-> p, recommended |-> p,
                        quoted |-> FALSE, escaped |-> FALSE]
    BY DEF FoldStart, p
  <1>3. p \in Nat /\ p \in Nat \ {0} /\ p <= Len(t) + 1 /\ p <= p
    BY <1>1
  <1>4. FoldStart(t) \in FoldState
    BY <1>2, <1>3 DEF FoldState
  <1> QED
    BY <1>1, <1>2, <1>4 DEF p

LEMMA FoldStateLoops == Loops(FoldState)
  <1> SUFFICES ASSUME NEW s \in FoldState, ~Folded(s) PROVE FoldStep(s) \in FoldState
    BY DEF Loops
  <1>1. CASE MustFold(s)
    BY <1>1, FoldLineIs DEF FoldStep
  <1>2. CASE ~MustFold(s)
    BY <1>2, ReadCharacterIs DEF FoldStep
  <1> QED
    BY <1>1, <1>2

LEMMA FoldedIsText ==
    ASSUME NEW t \in Text
    PROVE  FoldHeader(t) \in Text
  <1>1. Loops(FoldState) /\ (IsFolded(t) => FoldStart(t) \in FoldState)
    BY FoldStateLoops, FoldStarts
  <1>2. IF IsFolded(t) THEN \E s \in FoldState : Folded(s) /\ FoldHeader(t) = s.header
        ELSE FoldHeader(t) = t
    BY <1>1, FoldHeaderIs, Zenon
  <1> QED
    BY <1>2, FoldStateIs

\* Folding makes no empty line, if there is none after the first colon.
LEMMA FoldedIsBlock ==
    ASSUME NEW t, Block(t),
           IsFolded(t) => t[Min(Positions(t, "colon")) + 1] # "newline"
    PROVE  Block(FoldHeader(t))
  <1> DEFINE Free(h, e) == e = 0 \/ Breakable(h, e)
             T == {s \in FoldState : /\ Block(s.header) /\ Free(s.header, s.eligible)
                                     /\ Free(s.header, s.recommended) /\ s.pos >= 2}
  <1>0. t \in Text
    BY DEF Block
  <1>1. ASSUME NEW s \in T, MustFold(s) PROVE FoldLine(s) \in T
    <2> DEFINE fws == IF s.recommended # 0 THEN s.recommended ELSE s.eligible
               u == FoldLine(s)
               h == s.header
    <2>1. /\ s \in FoldState /\ fws \in 1 .. Len(s.header) + 1
          /\ u \in FoldState /\ u.header = InsertAt(s.header, fws, "newline") /\ u.recommended = 0
          /\ u.eligible = IF s.eligible <= fws THEN 0 ELSE s.eligible + 1
      BY <1>1, FoldLineIs
    <2>2. s.eligible \in Nat /\ s.eligible # 0
      BY <1>1, <2>1, FoldStateIs DEF MustFold
    <2>3. Breakable(h, fws) /\ Block(h) /\ fws \in Nat /\ Free(h, s.eligible)
      <3>1. fws # 0
        BY <1>1, <2>2
      <3>2. Free(h, fws) /\ fws \in Nat
        BY <1>1, <2>1, <2>2, FoldStateIs
      <3> QED
        BY <1>1, <3>1, <3>2
    <2> HIDE DEF fws, u, h
    <2> DEFINE g == InsertAt(h, fws, "newline")
    <2>4. Block(g) /\ \A e \in Nat : e > fws /\ Breakable(h, e) => Breakable(g, e + 1)
      BY <2>3, BreakingKeeps
    <2> HIDE DEF g
    <2>5. u.header = g
      BY <2>1 DEF g, h
    <2>6. Free(g, u.eligible)
      BY <2>1, <2>2, <2>3, <2>4
    <2>7. u.pos >= 2
      BY <1>1, <2>1, FoldLineIs, FoldStateIs DEF u
    <2> QED
      BY <2>1, <2>4, <2>5, <2>6, <2>7 DEF u
  <1>2. ASSUME NEW s \in T, ~MustFold(s), ~Folded(s) PROVE ReadCharacter(s) \in T
    <2> DEFINE u == ReadCharacter(s)
               h == s.header
               here == h[s.pos] = "space" /\ ~s.escaped /\ h[s.pos - 1] # "newline"
    <2>1. /\ s \in FoldState /\ s.pos <= Len(s.header) /\ u \in FoldState /\ u.header = h
          /\ u.eligible = (IF here THEN s.pos
                           ELSE IF h[s.pos] = "newline" THEN 0 ELSE s.eligible)
          /\ u.recommended = (IF here /\ h[s.pos - 1] = "comma" /\ ~s.quoted THEN s.pos
                              ELSE IF h[s.pos] = "newline" THEN 0 ELSE s.recommended)
      BY <1>2, ReadCharacterIs
    <2>2. here => Breakable(h, s.pos)
      <3>1. s.pos \in 2 .. Len(h)
        BY <1>2, <2>1, FoldStateIs
      <3> HIDE DEF h
      <3> QED
        BY <3>1 DEF Breakable
    <2>3. u.pos >= 2
      BY <1>2, <2>1, ReadCharacterIs, FoldStateIs
    <2> QED
      BY <1>2, <2>1, <2>2, <2>3
  <1>3. Loops(T)
    BY <1>1, <1>2 DEF Loops, FoldStep
  <1>4. IsFolded(t) => FoldStart(t) \in T
    <2> SUFFICES ASSUME IsFolded(t) PROVE FoldStart(t) \in T
      OBVIOUS
    <2>1. /\ FoldStart(t) \in FoldState /\ FoldStart(t).header = t
          /\ FoldStart(t).pos = Min(Positions(t, "colon")) + 1
          /\ FoldStart(t).eligible = FoldStart(t).pos
          /\ FoldStart(t).recommended = FoldStart(t).pos
          /\ FoldStart(t).pos \in 2 .. Len(t)
      BY <1>0, FoldStarts
    <2> DEFINE p == FoldStart(t).pos
    <2>2. t[p] # "newline" /\ t[p - 1] # "newline"
      <3>1. Positions(t, "colon") # {}
        BY DEF IsFolded
      <3> DEFINE c == Min(Positions(t, "colon"))
      <3>2. c \in 1 .. Len(t) /\ t[c] = "colon"
        BY <1>0, <3>1, FirstColon
      <3>3. p = c + 1 /\ p - 1 = c /\ t[c + 1] # "newline"
        BY <2>1, <3>2
      <3> QED
        BY <3>2, <3>3
    <2>3. Breakable(t, p) /\ p >= 2
      BY <2>1, <2>2 DEF Breakable
    <2> QED
      BY <2>1, <2>3
  <1> HIDE DEF T
  <1>5. IF IsFolded(t) THEN \E s \in T : Folded(s) /\ FoldHeader(t) = s.header
        ELSE FoldHeader(t) = t
    BY <1>0, <1>3, <1>4, FoldHeaderIs, Zenon
  <1> QED
    BY <1>5 DEF T

-----------------------------------------------------------------------------
(* Unfolding a header. *)

\* The folds from pos on; where the text before the first one ends and where
\* the text after it begins.
Folds(h, pos) == {i \in Positions(h, "newline") : i >= pos}

Gone(h, i) ==
    \/ h[i] \in Space
    \/ h[i] = "encoded" /\ h[i - 1] = "newline" /\ i < Len(h)

KeptEnd(h, pos) == Max({0} \cup {i \in 1 .. Min(Folds(h, pos)) - 1 : h[i] \notin Space})

RestBegin(h, pos) ==
    Min({Len(h) + 1} \cup {i \in Min(Folds(h, pos)) + 1 .. Len(h) : ~Gone(h, i)})

\* The first fold from pos on is at mid; the text before it ends at b, the text
\* after it begins at e.
FoldAt(h, pos, mid, b, e) ==
    /\ mid \in pos .. Len(h) /\ h[mid] = "newline"
    /\ \A i \in pos .. mid - 1 : h[i] # "newline"
    /\ b \in 0 .. mid - 1 /\ (b # 0 => h[b] \notin Space)
    /\ \A i \in b + 1 .. mid - 1 : h[i] \in Space
    /\ e \in mid + 1 .. Len(h) + 1
    /\ \A i \in mid + 1 .. e - 1 : Gone(h, i)
    /\ e <= Len(h) => ~Gone(h, e)

LEMMA FoldsAre ==
    ASSUME NEW h \in Text, NEW pos \in Nat \ {0}, Folds(h, pos) # {}
    PROVE  FoldAt(h, pos, Min(Folds(h, pos)), KeptEnd(h, pos), RestBegin(h, pos))
  <1> DEFINE T == Folds(h, pos)
             mid == Min(T)
             B == {0} \cup {i \in 1 .. mid - 1 : h[i] \notin Space}
             E == {Len(h) + 1} \cup {i \in mid + 1 .. Len(h) : ~Gone(h, i)}
             b == Max(B)
             e == Min(E)
  <1>1. /\ Len(h) \in Nat /\ T # {} /\ T \in SUBSET Nat
        /\ \A i : i \in T <=> i \in 1 .. Len(h) /\ h[i] = "newline" /\ i >= pos
    BY TextIs DEF Folds, Positions
  <1>2. mid \in T /\ \A i \in T : mid <= i
    <2> HIDE DEF T
    <2> QED
      BY <1>1, LeastNat
  <1> HIDE DEF T, mid
  <1>3. mid \in pos .. Len(h) /\ h[mid] = "newline" /\ \A i \in pos .. mid - 1 : h[i] # "newline"
    BY <1>1, <1>2
  <1>4. B \in SUBSET (0 .. mid - 1) /\ B # {} /\ mid - 1 \in Nat
    BY <1>3
  <1>5. b \in B /\ \A i \in B : b >= i
    <2> HIDE DEF B
    <2> QED
      BY <1>4, GreatestNat
  <1>6. E \in SUBSET Nat /\ E # {}
    BY <1>1, <1>3
  <1>7. e \in E /\ \A i \in E : e <= i
    <2> HIDE DEF E
    <2> QED
      BY <1>6, LeastNat
  <1> HIDE DEF b, e
  <1>8. b \in 0 .. mid - 1 /\ (b # 0 => h[b] \notin Space)
    BY <1>3, <1>5
  <1>9. \A i \in b + 1 .. mid - 1 : h[i] \in Space
    BY <1>3, <1>5, <1>8
  <1>10. e \in mid + 1 .. Len(h) + 1 /\ (e <= Len(h) => ~Gone(h, e))
    BY <1>1, <1>3, <1>7
  <1>11. \A i \in mid + 1 .. e - 1 : Gone(h, i)
    BY <1>1, <1>3, <1>7, <1>10
  <1>12. mid = Min(Folds(h, pos)) /\ b = KeptEnd(h, pos) /\ e = RestBegin(h, pos)
    BY DEF T, mid, B, E, b, e, KeptEnd, RestBegin
  <1>13. FoldAt(h, pos, mid, b, e)
    BY <1>3, <1>8, <1>9, <1>10, <1>11 DEF FoldAt
  <1> QED
    BY <1>12, <1>13

\* What unfoldHeader() is from pos on.
Unfolds(h, u) ==
    /\ u \in [Nat \ {0} -> Text]
    /\ \A pos \in Nat \ {0} :
          u[pos] = IF Folds(h, pos) = {} THEN SubSeq(h, pos, Len(h))
                   ELSE SubSeq(h, pos, KeptEnd(h, pos))
                          \o Separator(SubSeq(h, pos, KeptEnd(h, pos)),
                                       SubSeq(h, RestBegin(h, pos), Len(h)))
                          \o u[RestBegin(h, pos)]

LEMMA SeparatorIs ==
    ASSUME NEW kept, NEW rest
    PROVE  Separator(kept, rest) \in Text /\ Separator(kept, rest) \in {<<>>, <<"space">>}
  <1>1. <<>> \in Text /\ <<"space">> \in Text
    BY DEF Text, Symbol
  <1>2. Separator(kept, rest) \in {<<>>, <<"space">>}
    BY DEF Separator
  <1> QED
    BY <1>1, <1>2

LEMMA UnfoldingEnds ==
    ASSUME NEW h \in Text
    PROVE  Ends(Nat \ {0}, {pos \in Nat \ {0} : Folds(h, pos) = {}},
                [pos \in Nat \ {0} |-> RestBegin(h, pos)],
                [pos \in Nat \ {0} |-> IF pos <= Len(h) THEN Len(h) + 1 - pos ELSE 0])
  <1> DEFINE D == Nat \ {0}
             Stop == {pos \in D : Folds(h, pos) = {}}
             next == [pos \in D |-> RestBegin(h, pos)]
             m == [pos \in D |-> IF pos <= Len(h) THEN Len(h) + 1 - pos ELSE 0]
  <1>1. Len(h) \in Nat
    BY TextIs
  <1>2. m \in [D -> Nat]
    BY <1>1
  <1>3. ASSUME NEW pos \in D \ Stop PROVE next[pos] \in D /\ m[next[pos]] < m[pos]
    <2> DEFINE e == RestBegin(h, pos)
               mid == Min(Folds(h, pos))
    <2>1. mid \in pos .. Len(h) /\ e \in mid + 1 .. Len(h) + 1
      BY FoldsAre DEF FoldAt
    <2> HIDE DEF e, mid
    <2>2. e \in D /\ e > pos /\ pos <= Len(h)
      BY <1>1, <2>1
    <2>3. next[pos] = e
      BY DEF e
    <2>4. m[e] < m[pos]
      BY <1>1, <2>2
    <2> QED
      BY <2>2, <2>3, <2>4
  <1> QED
    BY <1>2, <1>3 DEF Ends

LEMMA KeptIsText ==
    ASSUME NEW h \in Text, NEW pos \in Nat \ {0}, Folds(h, pos) # {}
    PROVE  SubSeq(h, pos, KeptEnd(h, pos)) \in Text
  <1> DEFINE b == KeptEnd(h, pos)
             mid == Min(Folds(h, pos))
  <1>1. mid \in pos .. Len(h) /\ b \in 0 .. mid - 1
    BY FoldsAre DEF FoldAt
  <1> HIDE DEF b, mid
  <1>2. b \in Int /\ b <= Len(h)
    BY <1>1, TextIs
  <1>3. SubSeq(h, pos, b) \in Text
    BY <1>2, PieceIs
  <1> QED
    BY <1>3 DEF b

LEMMA UnfoldHeaderIs ==
    ASSUME NEW h \in Text
    PROVE  \E u : Unfolds(h, u) /\ UnfoldHeader(h) = u[1]
  <1> DEFINE D == Nat \ {0}
             Stop == {pos \in D : Folds(h, pos) = {}}
             next == [pos \in D |-> RestBegin(h, pos)]
             m == [pos \in D |-> IF pos <= Len(h) THEN Len(h) + 1 - pos ELSE 0]
             K(pos) == SubSeq(h, pos, KeptEnd(h, pos))
             S(pos) == Separator(K(pos), SubSeq(h, RestBegin(h, pos), Len(h)))
             last == [pos \in D |-> SubSeq(h, pos, Len(h))]
             step == [pos \in D |-> [r \in Text |-> K(pos) \o S(pos) \o r]]
             Is(f) == f = [pos \in D |-> IF Folds(h, pos) = {} THEN SubSeq(h, pos, Len(h))
                                         ELSE K(pos) \o S(pos) \o f[RestBegin(h, pos)]]
  <1>0. Ends(D, Stop, next, m)
    BY UnfoldingEnds
  <1>1. UnfoldHeader(h) = (CHOOSE f : Is(f))[1]
    BY DEF UnfoldHeader, Folds, Gone, KeptEnd, RestBegin
  <1>2. \A pos \in D : SubSeq(h, pos, Len(h)) \in Text
    <2>1. Len(h) \in Int /\ Len(h) <= Len(h)
      BY TextIs
    <2> QED
      BY <2>1, PieceIs
  <1>3. \A pos \in D \ Stop : \A r \in Text : K(pos) \o S(pos) \o r \in Text
    <2> SUFFICES ASSUME NEW pos \in D \ Stop, NEW r \in Text
                 PROVE  K(pos) \o S(pos) \o r \in Text
      OBVIOUS
    <2>3. K(pos) \in Text
      BY KeptIsText
    <2>4. S(pos) \in Text
      BY SeparatorIs
    <2> HIDE DEF K, S
    <2>5. K(pos) \o S(pos) \in Text
      BY <2>3, <2>4, JoinIs
    <2> QED
      BY <2>5, JoinIs
  <1> HIDE DEF K, S
  <1>4. \E f : Is(f) /\ f \in [D -> Text]
    <2>1. PICK f : Unrolled(f, D, Stop, last, step, next)
      <3> HIDE DEF D, Stop, last, step, next, m
      <3> QED
        BY <1>0, RecursionIsDefined
    <2>2. f = [pos \in D |-> IF pos \in Stop THEN last[pos] ELSE step[pos][f[next[pos]]]]
      BY <2>1 DEF Unrolled
    <2>3. \A pos \in D : f[pos] = IF Folds(h, pos) = {} THEN SubSeq(h, pos, Len(h))
                                  ELSE step[pos][f[RestBegin(h, pos)]]
      BY <2>2
    <2> DEFINE U == {pos \in D : f[pos] \in Text}
    <2>4. Inherits(U, D, Stop, next)
      <3> SUFFICES ASSUME NEW pos \in D, pos \in Stop \/ next[pos] \in U PROVE f[pos] \in Text
        BY DEF Inherits
      <3>1. CASE Folds(h, pos) = {}
        BY <1>2, <2>3, <3>1
      <3>2. CASE Folds(h, pos) # {}
        <4>1. f[RestBegin(h, pos)] \in Text
          BY <3>2
        <4>2. f[pos] = K(pos) \o S(pos) \o f[RestBegin(h, pos)]
          BY <2>3, <3>2, <4>1
        <4> QED
          BY <1>3, <3>2, <4>1, <4>2
      <3> QED
        BY <3>1, <3>2
    <2>5. \A pos \in D : pos \in U
      <3> HIDE DEF U, D, Stop, next, m
      <3> QED
        BY <1>0, <2>4, MeasureInduction
    <2>6. ASSUME NEW pos \in D
          PROVE  f[pos] = IF Folds(h, pos) = {} THEN SubSeq(h, pos, Len(h))
                          ELSE K(pos) \o S(pos) \o f[RestBegin(h, pos)]
      <3>1. CASE Folds(h, pos) = {}
        BY <2>3, <3>1
      <3>2. CASE Folds(h, pos) # {}
        <4>1. next[pos] \in D /\ next[pos] = RestBegin(h, pos)
          BY <1>0, <3>2 DEF Ends
        <4>2. f[RestBegin(h, pos)] \in Text
          BY <2>5, <4>1
        <4> QED
          BY <2>3, <3>2, <4>2
      <3> QED
        BY <3>1, <3>2
    <2>7. Is(f)
      BY <2>2, <2>6
    <2>8. f \in [D -> Text]
      BY <2>2, <2>5
    <2> QED
      BY <2>7, <2>8
  <1> DEFINE u == CHOOSE f : Is(f)
  <1>5. Is(u)
    <2> HIDE DEF Is
    <2> QED
      BY <1>4
  <1>6. UnfoldHeader(h) = u[1]
    BY <1>1
  <1> HIDE DEF u
  <1>7. u \in [D -> Text]
    <2> DEFINE U == {pos \in D : u[pos] \in Text}
    <2>1. Inherits(U, D, Stop, next)
      <3> SUFFICES ASSUME NEW pos \in D, pos \in Stop \/ next[pos] \in U PROVE u[pos] \in Text
        BY DEF Inherits
      <3>1. CASE Folds(h, pos) = {}
        BY <1>2, <1>5, <3>1
      <3>2. CASE Folds(h, pos) # {}
        <4>1. u[RestBegin(h, pos)] \in Text
          BY <3>2
        <4>2. u[pos] = K(pos) \o S(pos) \o u[RestBegin(h, pos)]
          BY <1>5, <3>2
        <4> QED
          BY <1>3, <3>2, <4>1, <4>2
      <3> QED
        BY <3>1, <3>2
    <2>2. \A pos \in D : pos \in U
      <3> HIDE DEF U, D, Stop, next, m
      <3> QED
        BY <1>0, <2>1, MeasureInduction
    <2> QED
      BY <1>5, <2>2
  <1>8. Unfolds(h, u)
    BY <1>5, <1>7 DEF Unfolds, K, S
  <1> QED
    BY <1>6, <1>8

\* The text that unfoldHeader() makes has no line break.
LEMMA UnfoldedIsLine ==
    ASSUME NEW h \in Text
    PROVE  /\ UnfoldHeader(h) \in Text
           /\ \A i \in 1 .. Len(UnfoldHeader(h)) : UnfoldHeader(h)[i] # "newline"
  <1> DEFINE D == Nat \ {0}
             Stop == {pos \in D : Folds(h, pos) = {}}
             next == [pos \in D |-> RestBegin(h, pos)]
             m == [pos \in D |-> IF pos <= Len(h) THEN Len(h) + 1 - pos ELSE 0]
             Line(t) == \A i \in 1 .. Len(t) : t[i] # "newline"
  <1>0. Ends(D, Stop, next, m)
    BY UnfoldingEnds
  <1>1. PICK u : Unfolds(h, u) /\ UnfoldHeader(h) = u[1]
    BY UnfoldHeaderIs
  <1>2. u \in [D -> Text]
    BY <1>1 DEF Unfolds
  <1>3. ASSUME NEW a \in Text, NEW b \in Text, Line(a), Line(b) PROVE Line(a \o b)
    <2> SUFFICES ASSUME NEW i \in 1 .. Len(a \o b) PROVE (a \o b)[i] # "newline"
      OBVIOUS
    <2>1. Len(a) \in Nat /\ Len(b) \in Nat
      BY TextIs
    <2>2. CASE i <= Len(a)
      <3>1. i \in 1 .. Len(a)
        BY <2>1, <2>2
      <3> QED
        BY <1>3, <3>1, JoinIs
    <2>3. CASE ~(i <= Len(a))
      <3>1. PICK j \in 1 .. Len(b) : i = Len(a) + j
        <4>1. Len(a \o b) = Len(a) + Len(b)
          BY JoinIs
        <4>2. i - Len(a) \in 1 .. Len(b) /\ i = Len(a) + (i - Len(a))
          BY <2>1, <2>3, <4>1
        <4> QED
          BY <4>2
      <3>2. (a \o b)[Len(a) + j] = b[j]
        BY JoinIs
      <3> QED
        BY <1>3, <3>1, <3>2
    <2> QED
      BY <2>2, <2>3
  \* A piece without a newline.
  <1>4. ASSUME NEW pos \in D, NEW b \in Int, b <= Len(h), \A i \in pos .. b : h[i] # "newline"
        PROVE  Line(SubSeq(h, pos, b)) /\ SubSeq(h, pos, b) \in Text
    <2> DEFINE t == SubSeq(h, pos, b)
    <2>1. t \in Text /\ Len(t) = (IF pos <= b THEN b - pos + 1 ELSE 0)
          /\ \A i \in 1 .. Len(t) : t[i] = h[pos + i - 1]
      BY <1>4, PieceIs
    <2> HIDE DEF t
    <2>2. ASSUME NEW i \in 1 .. Len(t) PROVE t[i] # "newline"
      <3>1. pos + i - 1 \in pos .. b
        BY <2>1
      <3> QED
        BY <1>4, <2>1, <3>1
    <2> QED
      BY <2>1, <2>2 DEF t
  <1> DEFINE U == {pos \in D : Line(u[pos])}
  <1>5. Inherits(U, D, Stop, next)
    <2> SUFFICES ASSUME NEW pos \in D, pos \in Stop \/ next[pos] \in U PROVE Line(u[pos])
      BY DEF Inherits
    <2>1. CASE Folds(h, pos) = {}
      <3>1. u[pos] = SubSeq(h, pos, Len(h))
        BY <1>1, <2>1 DEF Unfolds
      <3>2. Len(h) \in Nat /\ DOMAIN h = 1 .. Len(h)
        BY TextIs
      <3>3. \A i \in pos .. Len(h) : h[i] # "newline"
        BY <2>1, <3>2 DEF Folds, Positions
      <3>4. Len(h) \in Int /\ Len(h) <= Len(h)
        BY <3>2
      <3> HIDE DEF Line
      <3> QED
        BY <1>4, <3>1, <3>3, <3>4
    <2>2. CASE Folds(h, pos) # {}
      <3> DEFINE mid == Min(Folds(h, pos))
                 b == KeptEnd(h, pos)
                 e == RestBegin(h, pos)
                 K == SubSeq(h, pos, b)
                 S == Separator(K, SubSeq(h, e, Len(h)))
      <3>1. /\ mid \in pos .. Len(h) /\ \A i \in pos .. mid - 1 : h[i] # "newline"
            /\ b \in 0 .. mid - 1 /\ e \in mid + 1 .. Len(h) + 1
        BY <2>2, FoldsAre DEF FoldAt
      <3>2. u[pos] = K \o S \o u[e]
        BY <1>1, <2>2 DEF Unfolds
      <3>3. Line(u[e]) /\ u[e] \in Text
        <4>1. pos \in D \ Stop
          BY <2>2
        <4>2. next[pos] \in D /\ next[pos] = e
          BY <1>0, <4>1 DEF Ends
        <4>3. next[pos] \in U
          BY <2>2
        <4> HIDE DEF next, Line, e
        <4> QED
          BY <1>2, <4>2, <4>3
      <3>4. S \in Text /\ Line(S)
        <4>1. S \in Text /\ S \in {<<>>, <<"space">>}
          BY SeparatorIs
        <4> QED
          BY <4>1
      <3> HIDE DEF mid, b, e, S
      <3>5. b \in Int /\ b <= Len(h) /\ \A i \in pos .. b : h[i] # "newline"
        BY <3>1, TextIs
      <3>6. K \in Text /\ Line(K)
        BY <1>4, <3>5
      <3> HIDE DEF K, Line
      <3>7. K \o S \in Text /\ Line(K \o S)
        BY <1>3, <3>4, <3>6, JoinIs
      <3> QED
        BY <1>3, <3>2, <3>3, <3>7
    <2> QED
      BY <2>1, <2>2
  <1>6. \A pos \in D : pos \in U
    <2> HIDE DEF U, D, Stop, next, m
    <2> QED
      BY <1>0, <1>5, MeasureInduction
  <1>7. 1 \in D
    OBVIOUS
  <1> QED
    BY <1>1, <1>2, <1>6, <1>7

-----------------------------------------------------------------------------
(* Parsing a head. *)

\* No header starts at cursor, or one does.
NoHeaderAt(s, cursor) ==
    \/ cursor > Len(s)
    \/ ~(\E i \in Positions(s, "colon") : i >= cursor)
    \/ cursor = 1 /\ s[1] = "colon"

IsHeaderAt(s, cursor) == ~NoHeaderAt(s, cursor)

\* The header at cursor has its colon at c, its value from b on, and ends at e.
HeaderSpan(s, cursor, c, b, e) ==
    /\ c \in cursor .. Len(s) /\ s[c] = "colon"
    /\ \A i \in cursor .. c - 1 : s[i] # "colon"
    /\ b \in c + 1 .. Len(s) + 1
    /\ b = ValueBegin(s, IF c + 1 < Len(s) /\ s[c + 1] = "space" THEN c + 2 ELSE c + 1)
    /\ e \in b .. Len(s) + 1
    /\ e <= Len(s) => s[e] = "newline"
    /\ b <= Len(s) /\ s[b] = "newline" => e = b
    /\ ~(b <= Len(s) /\ s[b] = "newline") =>
          /\ e <= Len(s) => ~Continued(s, e)
          /\ \A i \in b + 1 .. e - 1 : s[i] = "newline" => Continued(s, i)

\* What extractHeader() makes of it.
HeaderIn(s, cursor, c, b, e) ==
    [header |->
        [name |-> SubSeq(s, cursor, c - 1),
         value |-> IF \E i \in b + 1 .. e - 1 : s[i] = "newline"
                   THEN UnfoldHeader(SubSeq(s, b, e - 1)) ELSE SubSeq(s, b, e - 1)],
     end |-> e]

LEMMA HeaderLineEnds ==
    ASSUME NEW s \in Text, NEW d \in 2 .. Len(s) + 1
    PROVE  LET line == FindHeaderLineEnd(s, d)
               b == ValueBegin(s, d)
               e == line.end
           IN  /\ line.begin = b /\ b \in d .. Len(s) + 1
               /\ e \in b .. Len(s) + 1 /\ (e <= Len(s) => s[e] = "newline")
               /\ (b <= Len(s) /\ s[b] = "newline" => e = b)
               /\ ~(b <= Len(s) /\ s[b] = "newline") =>
                     /\ e <= Len(s) => ~Continued(s, e)
                     /\ \A i \in b + 1 .. e - 1 : s[i] = "newline" => Continued(s, i)
               /\ line.folded <=> \E i \in b + 1 .. e - 1 : s[i] = "newline"
  <1> DEFINE b == ValueBegin(s, d)
             breaks == {i \in Positions(s, "newline") : i > b}
             E == {Len(s) + 1} \cup {i \in breaks : ~Continued(s, i)}
             e == IF b <= Len(s) /\ s[b] = "newline" THEN b ELSE Min(E)
             line == FindHeaderLineEnd(s, d)
  <1>1. Len(s) \in Nat /\ DOMAIN s = 1 .. Len(s)
    BY TextIs
  <1>2. b \in d .. Len(s) + 1
    BY <1>1 DEF ValueBegin
  <1>3. line = [begin |-> b, end |-> e, folded |-> \E i \in breaks : i < e]
    BY DEF FindHeaderLineEnd
  <1> HIDE DEF b, line
  <1>4. \A i : i \in breaks <=> i \in b + 1 .. Len(s) /\ s[i] = "newline"
    BY <1>1, <1>2 DEF Positions
  <1> HIDE DEF breaks
  <1>5. CASE b <= Len(s) /\ s[b] = "newline"
    <2>1. e = b
      BY <1>5
    <2> HIDE DEF e
    <2>2. ~(\E i \in breaks : i < e) /\ ~(\E i \in b + 1 .. e - 1 : s[i] = "newline")
      BY <1>2, <1>4, <2>1
    <2> QED
      BY <1>2, <1>3, <1>5, <2>1, <2>2 DEF b, line
  <1>6. CASE ~(b <= Len(s) /\ s[b] = "newline")
    <2>1. e = Min(E)
      BY <1>6
    <2>2. E \in SUBSET Nat /\ E # {}
      BY <1>1, <1>2, <1>4
    <2> HIDE DEF e
    <2>3. e \in E /\ \A i \in E : e <= i
      <3> HIDE DEF E
      <3> QED
        BY <2>1, <2>2, LeastNat
    <2>4. e \in b .. Len(s) + 1 /\ (e <= Len(s) => s[e] = "newline" /\ ~Continued(s, e))
      BY <1>1, <1>2, <1>4, <2>3
    <2>5. \A i \in b + 1 .. e - 1 : s[i] = "newline" => Continued(s, i)
      <3> SUFFICES ASSUME NEW i \in b + 1 .. e - 1, s[i] = "newline", ~Continued(s, i) PROVE FALSE
        OBVIOUS
      <3>1. i \in breaks
        BY <1>1, <1>2, <1>4, <2>4
      <3>2. e <= i
        BY <2>3, <3>1
      <3> QED
        BY <1>2, <2>4, <3>2
    <2>6. (\E i \in breaks : i < e) <=> \E i \in b + 1 .. e - 1 : s[i] = "newline"
      <3>1. \A i : i \in breaks /\ i < e <=> i \in b + 1 .. e - 1 /\ s[i] = "newline"
        BY <1>1, <1>2, <1>4, <2>4
      <3> QED
        BY <3>1
    <2> QED
      BY <1>2, <1>3, <1>6, <2>4, <2>5, <2>6 DEF b, line
  <1> QED
    BY <1>5, <1>6

LEMMA ExtractHeaderIs ==
    ASSUME NEW s \in Text, NEW cursor \in Nat \ {0}, IsHeaderAt(s, cursor)
    PROVE  \E c, b, e \in Nat : /\ HeaderSpan(s, cursor, c, b, e)
                                /\ ExtractHeader(s, cursor) = HeaderIn(s, cursor, c, b, e)
  <1> DEFINE T == {i \in Positions(s, "colon") : i >= cursor}
             c == Min(T)
             d == IF c + 1 < Len(s) /\ s[c + 1] = "space" THEN c + 2 ELSE c + 1
             line == FindHeaderLineEnd(s, d)
             b == ValueBegin(s, d)
             e == line.end
             text == SubSeq(s, line.begin, line.end - 1)
  <1>1. Len(s) \in Nat /\ DOMAIN s = 1 .. Len(s)
    BY TextIs
  <1>2. /\ T \in SUBSET Nat /\ T # {}
        /\ \A i : i \in T <=> i \in cursor .. Len(s) /\ s[i] = "colon"
    BY <1>1 DEF Positions, IsHeaderAt, NoHeaderAt
  <1>3. c \in T /\ \A i \in T : c <= i
    <2> HIDE DEF T
    <2> QED
      BY <1>2, LeastNat
  <1>4. ExtractHeader(s, cursor) =
          [header |-> [name |-> SubSeq(s, cursor, c - 1),
                       value |-> IF line.folded THEN UnfoldHeader(text) ELSE text],
           end |-> line.end]
    BY DEF ExtractHeader
  <1> HIDE DEF T, c
  <1>5. c \in cursor .. Len(s) /\ s[c] = "colon" /\ \A i \in cursor .. c - 1 : s[i] # "colon"
    BY <1>1, <1>2, <1>3
  <1>6. d \in c + 1 .. Len(s) + 1 /\ d \in 2 .. Len(s) + 1
    BY <1>1, <1>5
  <1>7. /\ line.begin = b /\ b \in d .. Len(s) + 1
        /\ e \in b .. Len(s) + 1 /\ (e <= Len(s) => s[e] = "newline")
        /\ (b <= Len(s) /\ s[b] = "newline" => e = b)
        /\ ~(b <= Len(s) /\ s[b] = "newline") =>
              /\ e <= Len(s) => ~Continued(s, e)
              /\ \A i \in b + 1 .. e - 1 : s[i] = "newline" => Continued(s, i)
        /\ line.folded <=> \E i \in b + 1 .. e - 1 : s[i] = "newline"
    <2> HIDE DEF d
    <2> QED
      BY <1>6, HeaderLineEnds
  <1>8. HeaderSpan(s, cursor, c, b, e)
    <2>1. b = ValueBegin(s, IF c + 1 < Len(s) /\ s[c + 1] = "space" THEN c + 2 ELSE c + 1)
      OBVIOUS
    <2> HIDE DEF b, e, d
    <2>2. b \in c + 1 .. Len(s) + 1
      BY <1>1, <1>5, <1>6, <1>7
    <2> QED
      BY <1>5, <1>7, <2>1, <2>2 DEF HeaderSpan
  <1>9. ExtractHeader(s, cursor) = HeaderIn(s, cursor, c, b, e)
    <2> HIDE DEF b
    <2> QED
      BY <1>4, <1>7 DEF HeaderIn
  <1>10. c \in Nat /\ b \in Nat /\ e \in Nat
    <2> HIDE DEF b, e, d
    <2> QED
      BY <1>1, <1>5, <1>6, <1>7
  <1> QED
    BY <1>8, <1>9, <1>10

NextCursor(s, cursor) == ExtractHeader(s, cursor).end + 1

\* What parseHeaders() is from the cursor on.
Parses(s, p) ==
    /\ p \in [Nat \ {0} -> Seq(Header)]
    /\ \A cursor \in Nat \ {0} :
          p[cursor] = IF ~IsHeaderAt(s, cursor) THEN <<>>
                      ELSE <<ExtractHeader(s, cursor).header>> \o p[NextCursor(s, cursor)]

\* A header that is found has no line break in its value and no colon in its
\* name.
LEMMA ExtractedIsHeader ==
    ASSUME NEW s \in Text, NEW cursor \in Nat \ {0}, IsHeaderAt(s, cursor)
    PROVE  LET x == ExtractHeader(s, cursor)
           IN  /\ x.header \in Header
               /\ x.end \in Nat /\ x.end > cursor /\ x.end <= Len(s) + 1
               /\ x.end <= Len(s) => s[x.end] = "newline"
               /\ \A i \in 1 .. Len(x.header.value) : x.header.value[i] # "newline"
               /\ cursor + Len(x.header.name) <= Len(s)
               /\ \A i \in 1 .. Len(x.header.name) :
                     /\ x.header.name[i] = s[cursor + i - 1]
                     /\ x.header.name[i] # "colon"
  <1> DEFINE x == ExtractHeader(s, cursor)
             IsLine(t) == \A i \in 1 .. Len(t) : t[i] # "newline"
  <1>1. PICK c, b, e \in Nat : HeaderSpan(s, cursor, c, b, e) /\ x = HeaderIn(s, cursor, c, b, e)
    BY ExtractHeaderIs
  <1> DEFINE name == SubSeq(s, cursor, c - 1)
             text == SubSeq(s, b, e - 1)
             folded == \E i \in b + 1 .. e - 1 : s[i] = "newline"
             value == IF folded THEN UnfoldHeader(text) ELSE text
  <1>2. x.header = [name |-> name, value |-> value] /\ x.end = e
    BY <1>1 DEF HeaderIn
  <1>3. /\ c \in cursor .. Len(s) /\ b \in c + 1 .. Len(s) + 1 /\ e \in b .. Len(s) + 1
        /\ \A i \in cursor .. c - 1 : s[i] # "colon"
        /\ e <= Len(s) => s[e] = "newline"
        /\ b <= Len(s) /\ s[b] = "newline" => e = b
    BY <1>1 DEF HeaderSpan
  <1>4. Len(s) \in Nat
    BY TextIs
  <1>5. name \in Text /\ Len(name) = c - cursor /\ \A i \in 1 .. Len(name) : name[i] = s[cursor + i - 1]
    <2>1. c - 1 \in Int /\ c - 1 <= Len(s)
      BY <1>3, <1>4
    <2>2. name \in Text /\ Len(name) = (IF cursor <= c - 1 THEN c - 1 - cursor + 1 ELSE 0)
          /\ \A i \in 1 .. Len(name) : name[i] = s[cursor + i - 1]
      BY <2>1, PieceIs
    <2> HIDE DEF name
    <2> QED
      BY <1>3, <1>4, <2>2
  <1>6. \A i \in 1 .. Len(name) : name[i] # "colon"
    <2> SUFFICES ASSUME NEW i \in 1 .. Len(name) PROVE name[i] # "colon"
      OBVIOUS
    <2> HIDE DEF name
    <2>1. cursor + i - 1 \in cursor .. c - 1
      BY <1>3, <1>4, <1>5
    <2> QED
      BY <1>3, <1>5, <2>1
  <1>7. text \in Text /\ (~folded => IsLine(text))
    <2>1. b \in Nat \ {0} /\ e - 1 \in Int /\ e - 1 <= Len(s)
      BY <1>3, <1>4
    <2>2. text \in Text /\ Len(text) = (IF b <= e - 1 THEN e - 1 - b + 1 ELSE 0)
          /\ \A i \in 1 .. Len(text) : text[i] = s[b + i - 1]
      BY <2>1, PieceIs
    <2> HIDE DEF text
    <2>3. ASSUME ~folded, NEW i \in 1 .. Len(text) PROVE text[i] # "newline"
      <3>1. PICK j \in b .. e - 1 : j = b + i - 1
        <4>1. b + i - 1 \in b .. e - 1
          BY <1>3, <1>4, <2>1, <2>2
        <4> QED
          BY <4>1
      <3>2. text[i] = s[j]
        BY <2>2, <3>1
      <3>3. CASE j = b
        <4>1. b <= Len(s) /\ e # b
          BY <1>3, <1>4, <3>1, <3>3
        <4> QED
          BY <1>3, <3>2, <3>3, <4>1
      <3>4. CASE j # b
        <4>1. j \in b + 1 .. e - 1
          BY <1>3, <3>1, <3>4
        <4> QED
          BY <2>3, <3>2, <4>1
      <3> QED
        BY <3>3, <3>4
    <2> QED
      BY <2>2, <2>3
  <1> HIDE DEF name, text, folded
  <1>8. value \in Text /\ IsLine(value)
    BY <1>7, UnfoldedIsLine
  <1> HIDE DEF value, x
  <1>9. x.header \in Header /\ x.header.name = name /\ x.header.value = value
    BY <1>2, <1>5, <1>8 DEF Header
  <1>10. x.end \in Nat /\ x.end > cursor /\ x.end <= Len(s) + 1
    BY <1>2, <1>3, <1>4
  <1>11. cursor + Len(name) <= Len(s)
    BY <1>3, <1>4, <1>5
  <1> QED
    BY <1>2, <1>3, <1>5, <1>6, <1>8, <1>9, <1>10, <1>11 DEF x

LEMMA ParsingEnds ==
    ASSUME NEW s \in Text
    PROVE  Ends(Nat \ {0}, {cursor \in Nat \ {0} : ~IsHeaderAt(s, cursor)},
                [cursor \in Nat \ {0} |-> NextCursor(s, cursor)],
                [cursor \in Nat \ {0} |-> IF cursor <= Len(s) THEN Len(s) + 1 - cursor ELSE 0])
  <1> DEFINE D == Nat \ {0}
             Stop == {cursor \in D : ~IsHeaderAt(s, cursor)}
             next == [cursor \in D |-> NextCursor(s, cursor)]
             m == [cursor \in D |-> IF cursor <= Len(s) THEN Len(s) + 1 - cursor ELSE 0]
  <1>1. Len(s) \in Nat
    BY TextIs
  <1>2. m \in [D -> Nat]
    BY <1>1
  <1>3. ASSUME NEW cursor \in D \ Stop PROVE next[cursor] \in D /\ m[next[cursor]] < m[cursor]
    <2> DEFINE e == NextCursor(s, cursor)
               x == ExtractHeader(s, cursor)
    <2>1. IsHeaderAt(s, cursor) /\ cursor \in Nat \ {0}
      OBVIOUS
    <2>2. cursor <= Len(s)
      BY <2>1, <1>1 DEF IsHeaderAt, NoHeaderAt
    <2>3. x.end \in Nat /\ x.end > cursor
      BY <2>1, ExtractedIsHeader
    <2>4. e \in D /\ e > cursor
      BY <2>3 DEF NextCursor
    <2> HIDE DEF e
    <2>5. next[cursor] = e
      BY DEF e
    <2>6. m[e] < m[cursor]
      BY <1>1, <2>2, <2>4
    <2> QED
      BY <2>4, <2>5, <2>6
  <1> QED
    BY <1>2, <1>3 DEF Ends

LEMMA ParseHeadersIs ==
    ASSUME NEW s \in Text
    PROVE  \E p : Parses(s, p) /\ ParseHeaders(s) = p[1]
  <1> DEFINE D == Nat \ {0}
             Stop == {cursor \in D : ~IsHeaderAt(s, cursor)}
             next == [cursor \in D |-> NextCursor(s, cursor)]
             m == [cursor \in D |-> IF cursor <= Len(s) THEN Len(s) + 1 - cursor ELSE 0]
             H(cursor) == <<ExtractHeader(s, cursor).header>>
             last == [cursor \in D |-> <<>>]
             step == [cursor \in D |-> [r \in Seq(Header) |-> H(cursor) \o r]]
             Is(f) == f = [cursor \in D |-> IF NoHeaderAt(s, cursor) THEN <<>>
                                            ELSE H(cursor) \o f[NextCursor(s, cursor)]]
  <1>0. Ends(D, Stop, next, m)
    BY ParsingEnds
  <1>e. <<>> \in Seq(Header)
    OBVIOUS
  <1>1. ParseHeaders(s) = (CHOOSE f : Is(f))[1]
    BY DEF ParseHeaders, NoHeaderAt, NextCursor
  <1>2. ASSUME NEW cursor \in D, IsHeaderAt(s, cursor), NEW r \in Seq(Header)
        PROVE  H(cursor) \o r \in Seq(Header)
    <2>1. ExtractHeader(s, cursor).header \in Header
      BY <1>2, ExtractedIsHeader
    <2>2. H(cursor) \in Seq(Header)
      BY <2>1
    <2> HIDE DEF H
    <2> QED
      BY <2>2
  <1> HIDE DEF H
  <1>3. \E f : Is(f)
    <2>1. PICK f : Unrolled(f, D, Stop, last, step, next)
      <3> HIDE DEF D, Stop, last, step, next, m
      <3> QED
        BY <1>0, RecursionIsDefined
    <2>2. f = [cursor \in D |-> IF cursor \in Stop THEN last[cursor]
                                ELSE step[cursor][f[next[cursor]]]]
      BY <2>1 DEF Unrolled
    <2>3. \A cursor \in D : f[cursor] = IF ~IsHeaderAt(s, cursor) THEN <<>>
                                        ELSE step[cursor][f[NextCursor(s, cursor)]]
      BY <2>2
    <2> DEFINE U == {cursor \in D : f[cursor] \in Seq(Header)}
    <2>4. Inherits(U, D, Stop, next)
      <3> SUFFICES ASSUME NEW cursor \in D, cursor \in Stop \/ next[cursor] \in U
                   PROVE  f[cursor] \in Seq(Header)
        BY DEF Inherits
      <3>1. CASE ~IsHeaderAt(s, cursor)
        BY <1>e, <2>3, <3>1
      <3>2. CASE IsHeaderAt(s, cursor)
        <4>1. f[NextCursor(s, cursor)] \in Seq(Header)
          BY <3>2
        <4>2. f[cursor] = H(cursor) \o f[NextCursor(s, cursor)]
          BY <2>3, <3>2, <4>1
        <4> QED
          BY <1>2, <3>2, <4>1, <4>2
      <3> QED
        BY <3>1, <3>2
    <2>5. \A cursor \in D : cursor \in U
      <3> HIDE DEF U, D, Stop, next, m
      <3> QED
        BY <1>0, <2>4, MeasureInduction
    <2>6. ASSUME NEW cursor \in D
          PROVE  f[cursor] = IF ~IsHeaderAt(s, cursor) THEN <<>>
                             ELSE H(cursor) \o f[NextCursor(s, cursor)]
      <3>1. CASE ~IsHeaderAt(s, cursor)
        BY <1>e, <2>3, <3>1
      <3>2. CASE IsHeaderAt(s, cursor)
        <4>1. next[cursor] \in D /\ next[cursor] = NextCursor(s, cursor)
          BY <1>0, <3>2 DEF Ends
        <4>2. f[NextCursor(s, cursor)] \in Seq(Header)
          BY <2>5, <4>1
        <4> QED
          BY <2>3, <3>2, <4>2
      <3> QED
        BY <3>1, <3>2
    <2>7. Is(f)
      BY <2>2, <2>6 DEF IsHeaderAt
    <2> QED
      BY <2>7
  <1> DEFINE p == CHOOSE f : Is(f)
  <1>4. Is(p)
    <2> HIDE DEF Is
    <2> QED
      BY <1>3
  <1>5. ParseHeaders(s) = p[1]
    BY <1>1
  <1> HIDE DEF p
  <1> DEFINE U == {cursor \in D : p[cursor] \in Seq(Header)}
  <1>6. Inherits(U, D, Stop, next)
    <2> SUFFICES ASSUME NEW cursor \in D, cursor \in Stop \/ next[cursor] \in U
                 PROVE  p[cursor] \in Seq(Header)
      BY DEF Inherits
    <2>1. CASE ~IsHeaderAt(s, cursor)
      BY <1>4, <1>e, <2>1 DEF IsHeaderAt
    <2>2. CASE IsHeaderAt(s, cursor)
      <3>1. p[NextCursor(s, cursor)] \in Seq(Header)
        BY <2>2
      <3>2. p[cursor] = H(cursor) \o p[NextCursor(s, cursor)]
        BY <1>4, <2>2 DEF IsHeaderAt
      <3> QED
        BY <1>2, <2>2, <3>1, <3>2
    <2> QED
      BY <2>1, <2>2
  <1>7. \A cursor \in D : cursor \in U
    <2> HIDE DEF U, D, Stop, next, m
    <2> QED
      BY <1>0, <1>6, MeasureInduction
  <1>8. Parses(s, p)
    BY <1>4, <1>7 DEF Parses, H, IsHeaderAt
  <1> QED
    BY <1>5, <1>8

-----------------------------------------------------------------------------
(* Headers whose text has no empty line. *)

IsLine(t) == \A i \in 1 .. Len(t) : t[i] # "newline"

\* What a caller gives, or parse() finds: a value of one line and a name that
\* is not, or does not start as, an empty line.
WellMade(h) ==
    /\ h \in Header /\ IsLine(h.value)
    /\ Len(h.name) >= 1 => h.name[1] # "newline"
    /\ \A i \in 1 .. Len(h.name) - 1 :
          h.name[i + 1] = "newline" => h.name[i] # "newline" /\ h.name[i] # "colon"

\* The text of a header: its name, a colon, a space and its value.
LEMMA HeaderTextIs ==
    ASSUME NEW h \in Header
    PROVE  LET t == HeaderText(h)
               n == Len(h.name)
           IN  /\ t \in Text /\ n \in Nat /\ Len(h.value) \in Nat
               /\ Len(t) = n + 2 + Len(h.value)
               /\ \A i \in 1 .. n : t[i] = h.name[i]
               /\ t[n + 1] = "colon" /\ t[n + 2] = "space"
               /\ \A i \in 1 .. Len(h.value) : t[n + 2 + i] = h.value[i]
  <1> DEFINE a == h.name
             b == <<"colon", "space">>
             c == h.value
             d == a \o b
             t == d \o c
  <1>1. HeaderText(h) = t
    BY DEF HeaderText
  <1>2. a \in Text /\ c \in Text
    BY DEF Header
  <1>3. b \in Text /\ Len(b) = 2 /\ b[1] = "colon" /\ b[2] = "space"
    BY DEF Text, Symbol
  <1> HIDE DEF a, b, c
  <1>4. Len(a) \in Nat /\ Len(c) \in Nat
    BY <1>2, TextIs
  <1>5. /\ d \in Text /\ Len(d) = Len(a) + Len(b)
        /\ \A i \in 1 .. Len(a) : d[i] = a[i]
        /\ \A i \in 1 .. Len(b) : d[Len(a) + i] = b[i]
    BY <1>2, <1>3, JoinIs
  <1> HIDE DEF d
  <1>6. /\ t \in Text /\ Len(t) = Len(d) + Len(c)
        /\ \A i \in 1 .. Len(d) : t[i] = d[i]
        /\ \A i \in 1 .. Len(c) : t[Len(d) + i] = c[i]
    BY <1>2, <1>5, JoinIs
  <1> HIDE DEF t
  <1>7. Len(d) = Len(a) + 2 /\ 1 \in 1 .. Len(b) /\ 2 \in 1 .. Len(b)
    BY <1>3, <1>5
  <1>8. t[Len(a) + 1] = "colon" /\ t[Len(a) + 2] = "space"
    <2>1. Len(a) + 1 \in 1 .. Len(d) /\ Len(a) + 2 \in 1 .. Len(d)
      BY <1>4, <1>7
    <2>2. d[Len(a) + 1] = b[1] /\ d[Len(a) + 2] = b[2]
      BY <1>5, <1>7
    <2> QED
      BY <1>3, <1>6, <2>1, <2>2
  <1>9. \A i \in 1 .. Len(a) : t[i] = a[i]
    BY <1>4, <1>5, <1>6, <1>7
  <1> QED
    BY <1>1, <1>4, <1>6, <1>7, <1>8, <1>9 DEF a, c

LEMMA WellMadeIsBlock ==
    ASSUME NEW h, WellMade(h), h.value # <<>>
    PROVE  Block(FoldHeader(HeaderText(h)))
  <1> DEFINE t == HeaderText(h)
             n == Len(h.name)
             v == Len(h.value)
  <1>1. /\ h \in Header /\ \A i \in 1 .. v : h.value[i] # "newline"
        /\ (n >= 1 => h.name[1] # "newline")
        /\ \A i \in 1 .. n - 1 :
              h.name[i + 1] = "newline" => h.name[i] # "newline" /\ h.name[i] # "colon"
    BY DEF WellMade, IsLine
  <1>2. /\ t \in Text /\ n \in Nat /\ v \in Nat
        /\ Len(t) = n + 2 + v
        /\ \A i \in 1 .. n : t[i] = h.name[i]
        /\ t[n + 1] = "colon" /\ t[n + 2] = "space"
        /\ \A i \in 1 .. v : t[n + 2 + i] = h.value[i]
    BY <1>1, HeaderTextIs
  <1>3. v # 0
    <2>1. h.value \in Text
      BY <1>1 DEF Header
    <2> QED
      BY <2>1, TextIs
  <1> HIDE DEF t, n, v
  <1>4. \A j \in n + 1 .. Len(t) : t[j] # "newline"
    <2> SUFFICES ASSUME NEW j \in n + 1 .. Len(t) PROVE t[j] # "newline"
      OBVIOUS
    <2>1. CASE j <= n + 2
      <3>1. j = n + 1 \/ j = n + 2
        BY <1>2, <2>1
      <3> QED
        BY <1>2, <3>1
    <2>2. CASE j > n + 2
      <3>1. PICK i \in 1 .. v : i = j - (n + 2)
        <4>1. j - (n + 2) \in 1 .. v
          BY <1>2, <2>2
        <4> QED
          BY <4>1
      <3>2. n + 2 + i = j
        BY <1>2, <3>1
      <3> QED
        BY <1>1, <1>2, <3>1, <3>2
    <2> QED
      BY <1>2, <2>1, <2>2
  <1>5. \A j \in 1 .. Len(t) - 1 : t[j] # "newline" \/ t[j + 1] # "newline"
    <2> SUFFICES ASSUME NEW j \in 1 .. Len(t) - 1 PROVE t[j] # "newline" \/ t[j + 1] # "newline"
      OBVIOUS
    <2>1. CASE j >= n
      <3>1. j + 1 \in n + 1 .. Len(t)
        BY <1>2, <2>1
      <3> QED
        BY <1>4, <3>1
    <2>2. CASE j < n
      <3>1. j \in 1 .. n - 1 /\ j \in 1 .. n /\ j + 1 \in 1 .. n
        BY <1>2, <2>2
      <3> QED
        BY <1>1, <1>2, <3>1
    <2> QED
      BY <1>2, <2>1, <2>2
  <1>6. Block(t)
    <2>1. Len(t) >= 1 /\ Len(t) \in n + 1 .. Len(t)
      BY <1>2
    <2>2. t[1] # "newline"
      <3>1. CASE n >= 1
        <4>1. 1 \in 1 .. n
          BY <1>2, <3>1
        <4> QED
          BY <1>1, <1>2, <3>1, <4>1
      <3>2. CASE n = 0
        BY <1>2, <3>2
      <3> QED
        BY <1>2, <3>1, <3>2
    <2> QED
      BY <1>2, <1>4, <1>5, <2>1, <2>2 DEF Block
  <1>7. IsFolded(t) => t[Min(Positions(t, "colon")) + 1] # "newline"
    <2> SUFFICES ASSUME IsFolded(t) PROVE t[Min(Positions(t, "colon")) + 1] # "newline"
      OBVIOUS
    <2>1. Positions(t, "colon") # {}
      BY DEF IsFolded
    <2> DEFINE c == Min(Positions(t, "colon"))
    <2>2. /\ c \in 1 .. Len(t) /\ t[c] = "colon" /\ \A i \in 1 .. c - 1 : t[i] # "colon"
      BY <1>2, <2>1, FirstColon
    <2> HIDE DEF c
    <2>3. c <= n + 1
      <3> SUFFICES ASSUME c > n + 1 PROVE FALSE
        BY <1>2, <2>2
      <3>1. n + 1 \in 1 .. c - 1
        BY <1>2, <2>2
      <3> QED
        BY <1>2, <2>2, <3>1
    <2>4. t[c + 1] # "newline"
      <3>1. CASE c >= n
        <4>1. c + 1 \in n + 1 .. Len(t)
          BY <1>2, <1>3, <2>2, <2>3, <3>1
        <4> QED
          BY <1>4, <4>1
      <3>2. CASE c < n
        <4>1. c \in 1 .. n - 1 /\ c \in 1 .. n /\ c + 1 \in 1 .. n
          BY <1>2, <2>2, <3>2
        <4> QED
          BY <1>1, <1>2, <2>2, <4>1
      <3> QED
        BY <1>2, <2>2, <3>1, <3>2
    <2> QED
      BY <2>4 DEF c
  <1> QED
    BY <1>6, <1>7, FoldedIsBlock DEF t

LEMMA GoodHeadIs ==
    ASSUME NEW s \in Text
    PROVE  GoodHead(s) <=> /\ Len(s) >= 1 => s[1] # "newline"
                           /\ \A i \in 1 .. Len(s) - 1 : s[i] # "newline" \/ s[i + 1] # "newline"
  <1>1. Len(s) \in Nat /\ (s = <<>> <=> Len(s) = 0)
    BY TextIs
  <1>2. BlankLine(s) = {} <=> \A i \in 1 .. Len(s) - 1 : s[i] # "newline" \/ s[i + 1] # "newline"
    BY DEF BlankLine
  <1> QED
    BY <1>1, <1>2 DEF GoodHead

\* The headers that parseHeaders() finds in a head without empty lines.
LEMMA ParsedAreWellMade ==
    ASSUME NEW s, GoodHead(s)
    PROVE  ParseHeaders(s) \in Seq({h \in Header : WellMade(h)})
  <1> DEFINE D == Nat \ {0}
             Stop == {cursor \in D : ~IsHeaderAt(s, cursor)}
             next == [cursor \in D |-> NextCursor(s, cursor)]
             m == [cursor \in D |-> IF cursor <= Len(s) THEN Len(s) + 1 - cursor ELSE 0]
             W == {h \in Header : WellMade(h)}
  <1>1. /\ s \in Text /\ Len(s) \in Nat /\ (Len(s) >= 1 => s[1] # "newline")
        /\ \A i \in 1 .. Len(s) - 1 : s[i] # "newline" \/ s[i + 1] # "newline"
    <2>1. s \in Text
      BY DEF GoodHead
    <2> QED
      BY <2>1, GoodHeadIs, TextIs
  <1>2. PICK p : Parses(s, p) /\ ParseHeaders(s) = p[1]
    BY <1>1, ParseHeadersIs
  <1>3. \A cursor \in D :
          p[cursor] = IF ~IsHeaderAt(s, cursor) THEN <<>>
                      ELSE <<ExtractHeader(s, cursor).header>> \o p[NextCursor(s, cursor)]
    BY <1>2 DEF Parses
  <1>4. Ends(D, Stop, next, m)
    BY <1>1, ParsingEnds
  \* Where a line starts.
  <1> DEFINE Starts(cursor) == cursor = 1 \/ cursor > Len(s) \/ s[cursor - 1] = "newline"
             U == {cursor \in D : Starts(cursor) => p[cursor] \in Seq(W)}
  <1>5. Inherits(U, D, Stop, next)
    <2> SUFFICES ASSUME NEW cursor \in D, cursor \in Stop \/ next[cursor] \in U, Starts(cursor)
                 PROVE  p[cursor] \in Seq(W)
      BY DEF Inherits
    <2>1. CASE ~IsHeaderAt(s, cursor)
      <3>1. p[cursor] = <<>>
        BY <1>3, <2>1
      <3> QED
        BY <3>1
    <2>2. CASE IsHeaderAt(s, cursor)
      <3> DEFINE x == ExtractHeader(s, cursor)
                 h == x.header
                 n == Len(h.name)
                 e == NextCursor(s, cursor)
      <3>1. /\ h \in Header
            /\ x.end \in Nat /\ x.end > cursor /\ x.end <= Len(s) + 1
            /\ x.end <= Len(s) => s[x.end] = "newline"
            /\ \A i \in 1 .. Len(h.value) : h.value[i] # "newline"
            /\ cursor + n <= Len(s)
            /\ \A i \in 1 .. n : h.name[i] = s[cursor + i - 1] /\ h.name[i] # "colon"
        BY <1>1, <2>2, ExtractedIsHeader
      <3>2. p[cursor] = <<h>> \o p[e]
        BY <1>3, <2>2
      <3>3. e = x.end + 1
        BY DEF NextCursor
      <3>4. e \in D /\ e \in U
        <4>1. next[cursor] = e /\ next[cursor] \in U
          BY <2>2
        <4> HIDE DEF next
        <4> QED
          BY <4>1
      <3> HIDE DEF x, e
      <3>5. Starts(e)
        <4>1. e - 1 = x.end
          BY <3>1, <3>3
        <4> QED
          BY <1>1, <3>1, <3>3, <4>1
      <3>6. p[e] \in Seq(W)
        BY <3>4, <3>5
      <3>7. n \in Nat
        <4>1. h.name \in Text
          BY <3>1 DEF Header
        <4> QED
          BY <4>1, TextIs
      <3> HIDE DEF n
      <3>8. n >= 1 => h.name[1] # "newline"
        <4> SUFFICES ASSUME n >= 1 PROVE h.name[1] # "newline"
          OBVIOUS
        <4>1. 1 \in 1 .. n /\ cursor + 1 - 1 = cursor /\ cursor <= Len(s)
          BY <1>1, <3>1, <3>7
        <4>2. h.name[1] = s[cursor]
          BY <3>1, <4>1
        <4>3. CASE cursor = 1
          BY <1>1, <4>1, <4>2, <4>3
        <4>4. CASE cursor # 1
          <5>1. PICK k \in 1 .. Len(s) - 1 : k = cursor - 1
            <6>1. cursor - 1 \in 1 .. Len(s) - 1
              BY <1>1, <4>1, <4>4
            <6> QED
              BY <6>1
          <5>2. k + 1 = cursor /\ s[k] = "newline"
            BY <4>1, <4>4, <5>1
          <5>3. s[k + 1] # "newline"
            BY <1>1, <5>2
          <5> QED
            BY <4>2, <5>2, <5>3
        <4> QED
          BY <4>3, <4>4
      <3>9. ASSUME NEW i \in 1 .. n - 1, h.name[i + 1] = "newline"
            PROVE  h.name[i] # "newline" /\ h.name[i] # "colon"
        <4>1. PICK k \in 1 .. Len(s) - 1 : k = cursor + i - 1
          <5>1. cursor + i - 1 \in 1 .. Len(s) - 1
            BY <1>1, <3>1, <3>7
          <5> QED
            BY <5>1
        <4>2. i \in 1 .. n /\ i + 1 \in 1 .. n /\ cursor + (i + 1) - 1 = k + 1
          BY <3>7, <4>1
        <4>3. h.name[i] = s[k] /\ h.name[i + 1] = s[k + 1] /\ h.name[i] # "colon"
          BY <3>1, <4>1, <4>2
        <4> QED
          BY <1>1, <3>9, <4>3
      <3>10. WellMade(h)
        BY <3>1, <3>8, <3>9 DEF WellMade, IsLine, n
      <3>11. h \in W
        BY <3>1, <3>10
      <3> HIDE DEF h, W
      <3> QED
        BY <3>2, <3>6, <3>11
    <2> QED
      BY <2>1, <2>2
  <1>6. \A cursor \in D : cursor \in U
    <2> HIDE DEF U, D, Stop, next, m
    <2> QED
      BY <1>4, <1>5, MeasureInduction
  <1>7. 1 \in D
    OBVIOUS
  <1> QED
    BY <1>2, <1>6, <1>7

\* The head that assemble() makes has no empty line, and ends with a newline.
LEMMA HeadsJoin ==
    ASSUME NEW a, GoodHead(a), a = <<>> \/ EndsWith(a, NL), NEW b, Block(b)
    PROVE  LET t == a \o (b \o NL)
           IN  GoodHead(t) /\ EndsWith(t, NL)
  <1> DEFINE c == b \o NL
             t == a \o c
             n == Len(a)
             k == Len(b)
  <1>1. /\ a \in Text /\ n \in Nat /\ (n >= 1 => a[1] # "newline" /\ a[n] = "newline")
        /\ \A i \in 1 .. n - 1 : a[i] # "newline" \/ a[i + 1] # "newline"
    <2>1. a \in Text
      BY DEF GoodHead
    <2> QED
      BY <2>1, GoodHeadIs, TextIs, EndsIn
  <1>2. /\ b \in Text /\ k \in Nat /\ k >= 1 /\ b[1] # "newline" /\ b[k] # "newline"
        /\ \A i \in 1 .. k - 1 : b[i] # "newline" \/ b[i + 1] # "newline"
    BY TextIs DEF Block
  <1>3. /\ c \in Text /\ Len(c) = Len(b) + Len(NL)
        /\ \A i \in 1 .. Len(b) : c[i] = b[i]
        /\ \A i \in 1 .. Len(NL) : c[Len(b) + i] = NL[i]
    BY <1>2, NewlineIs, JoinIs, Zenon
  <1>4. Len(c) = k + 1 /\ c[k + 1] = "newline" /\ \A i \in 1 .. k : c[i] = b[i]
    <2>1. Len(NL) = 1 /\ NL[1] = "newline" /\ 1 \in 1 .. Len(NL)
      BY NewlineIs
    <2> QED
      BY <1>3, <2>1
  <1> HIDE DEF c
  <1>5. /\ t \in Text /\ Len(t) = Len(a) + Len(c)
        /\ \A i \in 1 .. Len(a) : t[i] = a[i]
        /\ \A i \in 1 .. Len(c) : t[Len(a) + i] = c[i]
    BY <1>1, <1>3, JoinIs
  <1> HIDE DEF t, n, k
  <1>6. /\ Len(t) = n + k + 1 /\ \A i \in 1 .. n : t[i] = a[i]
        /\ \A i \in 1 .. k : t[n + i] = b[i]
        /\ t[n + k + 1] = "newline"
    <2>1. k + 1 \in 1 .. Len(c) /\ \A i \in 1 .. k : i \in 1 .. Len(c)
      BY <1>2, <1>4
    <2>2. Len(t) = n + Len(c) /\ t[n + (k + 1)] = c[k + 1] /\ n + (k + 1) = n + k + 1
      BY <1>1, <1>2, <1>5, <2>1 DEF n
    <2>3. \A i \in 1 .. k : t[n + i] = b[i]
      BY <1>4, <1>5, <2>1 DEF n
    <2>4. \A i \in 1 .. n : t[i] = a[i]
      BY <1>5 DEF n
    <2> QED
      BY <1>1, <1>2, <1>4, <2>2, <2>3, <2>4
  <1>7. t[1] # "newline"
    <2>1. CASE n >= 1
      <3>1. 1 \in 1 .. n
        BY <1>1, <2>1
      <3> QED
        BY <1>1, <1>6, <2>1, <3>1
    <2>2. CASE n = 0
      <3>1. 1 \in 1 .. k /\ n + 1 = 1
        BY <1>2, <2>2
      <3> QED
        BY <1>2, <1>6, <3>1
    <2> QED
      BY <1>1, <2>1, <2>2
  <1>8. ASSUME NEW i \in 1 .. Len(t) - 1 PROVE t[i] # "newline" \/ t[i + 1] # "newline"
    <2>1. CASE i < n
      <3>1. i \in 1 .. n - 1 /\ i \in 1 .. n /\ i + 1 \in 1 .. n
        BY <1>1, <2>1
      <3> QED
        BY <1>1, <1>6, <3>1
    <2>2. CASE i = n
      <3>1. 1 \in 1 .. k /\ i + 1 = n + 1
        BY <1>2, <2>2
      <3> QED
        BY <1>2, <1>6, <3>1
    <2>3. CASE i > n
      <3>1. PICK j \in 1 .. k : j = i - n
        <4>1. i - n \in 1 .. k
          BY <1>1, <1>2, <1>6, <2>3
        <4> QED
          BY <4>1
      <3>2. i = n + j /\ t[i] = b[j]
        <4>1. i = n + j
          BY <1>1, <3>1
        <4> QED
          BY <1>6, <4>1
      <3>3. CASE j = k
        BY <1>2, <3>2, <3>3
      <3>4. CASE j # k
        <4>1. j \in 1 .. k - 1 /\ j + 1 \in 1 .. k /\ i + 1 = n + (j + 1)
          BY <1>1, <1>2, <3>1, <3>4
        <4>2. t[i + 1] = b[j + 1]
          BY <1>6, <4>1
        <4> QED
          BY <1>2, <3>2, <4>1, <4>2
      <3> QED
        BY <3>3, <3>4
    <2> QED
      BY <1>1, <2>1, <2>2, <2>3
  <1>9. GoodHead(t)
    BY <1>5, <1>7, <1>8, GoodHeadIs
  <1>10. EndsWith(t, NL)
    <2>1. Len(t) >= 1 /\ t[Len(t)] = "newline"
      BY <1>1, <1>2, <1>6
    <2> QED
      BY <1>5, <2>1, EndsIn
  <1> QED
    BY <1>9, <1>10 DEF t, c

AssembledLine(h) == IF h.value = <<>> THEN <<>> ELSE FoldHeader(HeaderText(h)) \o <<"newline">>

LEMMA AssembledLinesAre ==
    ASSUME NEW hs \in Seq(Header)
    PROVE  /\ Len(hs) \in Nat
           /\ [i \in 1 .. Len(hs) |-> AssembledLine(hs[i])] \in [1 .. Len(hs) -> Text]
           /\ AssembledHead(hs) = FlattenSeq([i \in 1 .. Len(hs) |-> AssembledLine(hs[i])])
  <1>1. Len(hs) \in Nat /\ DOMAIN hs = 1 .. Len(hs) /\ \A i \in 1 .. Len(hs) : hs[i] \in Header
    OBVIOUS
  <1>2. ASSUME NEW h \in Header PROVE AssembledLine(h) \in Text
    <2>1. HeaderText(h) \in Text
      BY HeaderTextIs
    <2>2. FoldHeader(HeaderText(h)) \in Text
      BY <2>1, FoldedIsText
    <2>3. FoldHeader(HeaderText(h)) \o NL \in Text
      BY <2>2, NewlineIs, JoinIs, Zenon
    <2>4. <<>> \in Text
      BY DEF Text
    <2> QED
      BY <2>3, <2>4 DEF AssembledLine, NL
  <1>3. AssembledHead(hs) = FlattenSeq([i \in 1 .. Len(hs) |-> AssembledLine(hs[i])])
    BY <1>1 DEF AssembledHead, AssembledLine
  <1> QED
    BY <1>1, <1>2, <1>3

LEMMA AssembledIsText ==
    ASSUME NEW hs \in Seq(Header)
    PROVE  AssembledHead(hs) \in Text
  <1> DEFINE n == Len(hs)
             B == [i \in 1 .. n |-> AssembledLine(hs[i])]
  <1>1. n \in Nat /\ B \in [1 .. n -> Text] /\ AssembledHead(hs) = FlattenSeq(B)
    BY AssembledLinesAre
  <1> HIDE DEF n, B
  <1>2. PICK g : PutTogether(B, n, g)
    BY <1>1, FlattenIs
  <1> QED
    BY <1>1, <1>2 DEF PutTogether

LEMMA AssembledIsGood ==
    ASSUME NEW hs \in Seq(Header), \A i \in 1 .. Len(hs) : WellMade(hs[i])
    PROVE  GoodHead(AssembledHead(hs))
  <1> DEFINE n == Len(hs)
             B == [i \in 1 .. n |-> AssembledLine(hs[i])]
  <1>1. n \in Nat /\ B \in [1 .. n -> Text] /\ AssembledHead(hs) = FlattenSeq(B)
    BY AssembledLinesAre
  <1>2. \A i \in 1 .. n : B[i] = AssembledLine(hs[i]) /\ WellMade(hs[i])
    OBVIOUS
  <1> HIDE DEF n, B
  <1>3. PICK g : PutTogether(B, n, g)
    BY <1>1, FlattenIs
  <1>4. /\ g \in [0 .. n -> Text] /\ g[0] = <<>> /\ g[n] = AssembledHead(hs)
        /\ \A i \in 1 .. n : g[i] = g[i - 1] \o B[i]
    BY <1>1, <1>3 DEF PutTogether
  <1> DEFINE Good(t) == GoodHead(t) /\ (t = <<>> \/ EndsWith(t, NL))
             S == {k \in Nat : k <= n => Good(g[k])}
  <1>5. 0 \in S
    BY <1>4 DEF GoodHead, BlankLine, Text
  <1>6. ASSUME NEW k \in S PROVE k + 1 \in S
    <2> SUFFICES ASSUME k + 1 <= n PROVE Good(g[k + 1])
      OBVIOUS
    <2>1. PICK j \in 1 .. n : j = k + 1
      BY <1>1
    <2>2. j - 1 = k /\ k <= n
      BY <1>1, <2>1
    <2>3. g[j] = g[k] \o B[j] /\ Good(g[k]) /\ g[k] \in Text
      BY <1>1, <1>4, <2>1, <2>2, SMTT(30)
    <2>4. CASE hs[j].value = <<>>
      <3>1. B[j] = <<>>
        BY <1>2, <2>4 DEF AssembledLine
      <3>2. g[j] = g[k]
        BY <2>3, <3>1, ConcatEmptySeq DEF Text
      <3> QED
        BY <2>1, <2>3, <3>2
    <2>5. CASE hs[j].value # <<>>
      <3> DEFINE b == FoldHeader(HeaderText(hs[j]))
      <3>1. B[j] = b \o NL
        BY <1>2, <2>5 DEF AssembledLine, NL
      <3>2. Block(b)
        BY <1>2, <2>5, WellMadeIsBlock
      <3> HIDE DEF b
      <3>3. Good(g[k] \o (b \o NL))
        BY <2>3, <3>2, HeadsJoin
      <3> QED
        BY <2>1, <2>3, <3>1, <3>3
    <2> QED
      BY <2>4, <2>5
  <1>7. S = Nat
    <2>1. S \in SUBSET Nat
      OBVIOUS
    <2> HIDE DEF S
    <2> QED
      BY <1>5, <1>6, <2>1, SetInduction
  <1>8. n \in S
    BY <1>1, <1>7
  <1> QED
    BY <1>4, <1>8

-----------------------------------------------------------------------------
(* The content. *)

\* A caller's headers are lines.
SingleLine == \A h \in NewHeaders \cup Replacements : IsLine(h.name) /\ IsLine(h.value)

\* Whatever the caller's headers are, what was given is what head and body are
\* made of.
AsGiven ==
    /\ head \in Text /\ body \in Text /\ given \in Text /\ headers \in Seq(Header)
    /\ given # <<>> => /\ head = ExtractHeaderAndBody(given).head
                       /\ body = ExtractHeaderAndBody(given).body

\* ... and when they are lines, no head has an empty one.
WellMadeHeaders == {h \in Header : WellMade(h)}

NoEmptyLine == GoodHead(head) /\ headers \in Seq(WellMadeHeaders)

LEMMA SentAgainIsText ==
    ASSUME NEW h \in Text, NEW b \in Text, NEW newline
    PROVE  Transmitted(EncodedContent(h, b), newline) \in Text
  <1>1. EncodedContent(h, b) \in Text
    <2>1. h \o b \in Text
      BY JoinIs
    <2>2. h \o NL \in Text
      BY NewlineIs, JoinIs, Zenon
    <2>3. (h \o NL) \o b \in Text
      BY <2>2, JoinIs
    <2> QED
      BY <2>1, <2>3 DEF EncodedContent
  <1> DEFINE t == EncodedContent(h, b)
  <1> HIDE DEF t
  <1>2. t \in Text
    BY <1>1 DEF t
  <1>3. LFtoCRLF(t) \in Text
    BY <1>2, SentIsText
  <1>4. CRLFtoLF(LFtoCRLF(t)) \in Text
    BY <1>3, SentIsText
  <1>5. Transmitted(t, newline) \in Text
    BY <1>2, <1>4 DEF Transmitted
  <1> QED
    BY <1>5 DEF t

LEMMA HeadGiven ==
    ASSUME NEW h \in Heads
    PROVE  /\ GoodHead(IF EndsWith(h, NL) THEN h ELSE h \o NL)
           /\ (IF EndsWith(h, NL) THEN h ELSE h \o NL) \in Text
  <1>1. /\ h \in Text /\ h # <<>> /\ h[1] # "newline"
        /\ \A i \in 1 .. Len(h) - 1 : h[i] # "newline" \/ h[i + 1] # "newline"
    BY TextsAssumption
  <1>2. Len(h) \in Nat /\ Len(h) # 0
    BY <1>1, TextIs
  <1>3. GoodHead(h)
    BY <1>1, GoodHeadIs
  <1>4. CASE EndsWith(h, NL)
    BY <1>1, <1>3, <1>4
  <1>5. CASE ~EndsWith(h, NL)
    <2>1. h[Len(h)] # "newline"
      BY <1>1, <1>2, <1>5, EndsIn
    <2>2. /\ h \o NL \in Text /\ Len(h \o NL) = Len(h) + Len(NL)
          /\ \A i \in 1 .. Len(h) : (h \o NL)[i] = h[i]
      BY <1>1, NewlineIs, JoinIs, Zenon
    <2> DEFINE t == h \o NL
    <2>3. t \in Text /\ Len(t) = Len(h) + 1 /\ \A i \in 1 .. Len(h) : t[i] = h[i]
      BY <2>2, NewlineIs
    <2> HIDE DEF t
    <2>4. t[1] # "newline"
      <3>1. 1 \in 1 .. Len(h)
        BY <1>2
      <3> QED
        BY <1>1, <2>3, <3>1
    <2>5. ASSUME NEW i \in 1 .. Len(t) - 1 PROVE t[i] # "newline" \/ t[i + 1] # "newline"
      <3>1. CASE i = Len(h)
        <4>1. i \in 1 .. Len(h)
          BY <1>2, <3>1
        <4> QED
          BY <2>1, <2>3, <3>1, <4>1
      <3>2. CASE i # Len(h)
        <4>1. i \in 1 .. Len(h) - 1 /\ i \in 1 .. Len(h) /\ i + 1 \in 1 .. Len(h)
          BY <1>2, <2>3, <3>2
        <4> QED
          BY <1>1, <2>3, <4>1
      <3> QED
        BY <3>1, <3>2
    <2>6. GoodHead(t)
      BY <2>3, <2>4, <2>5, GoodHeadIs
    <2> QED
      BY <1>5, <2>3, <2>6 DEF t
  <1> QED
    BY <1>4, <1>5

LEMMA RemovedKeeps ==
    ASSUME NEW W, headers \in Seq(W), NEW name
    PROVE  Removed(name) \in Seq(W)
  <1> DEFINE found == {i \in DOMAIN headers : headers[i].name = name}
             k == Min(found)
  <1>1. found \in SUBSET Nat /\ found \subseteq 1 .. Len(headers) /\ Len(headers) \in Nat
    OBVIOUS
  <1>2. CASE found = {}
    BY <1>2 DEF Removed
  <1>3. CASE found # {}
    <2>1. Removed(name) = RemoveAt(headers, k)
      BY <1>3 DEF Removed
    <2>2. k \in found
      <3> HIDE DEF found
      <3> QED
        BY <1>1, <1>3, LeastNat
    <2>3. k \in 1 .. Len(headers)
      BY <1>1, <2>2
    <2> HIDE DEF k
    <2>4. SubSeq(headers, 1, k - 1) \in Seq(W) /\ SubSeq(headers, k + 1, Len(headers)) \in Seq(W)
      <3>1. \A i \in 1 .. k - 1 : headers[i] \in W
        BY <1>1, <2>3
      <3>2. \A i \in k + 1 .. Len(headers) : headers[i] \in W
        BY <1>1, <2>3
      <3>3. 1 \in Int /\ k - 1 \in Int /\ k + 1 \in Int /\ Len(headers) \in Int
        BY <1>1, <2>3
      <3>4. SubSeq(headers, 1, k - 1) \in Seq(W)
        BY <3>1, <3>3, SubSeqProperties
      <3>5. SubSeq(headers, k + 1, Len(headers)) \in Seq(W)
        BY <3>2, <3>3, SubSeqProperties
      <3> QED
        BY <3>4, <3>5
    <2>5. SubSeq(headers, 1, k - 1) \o SubSeq(headers, k + 1, Len(headers)) \in Seq(W)
      BY <2>4
    <2> QED
      BY <2>1, <2>5 DEF RemoveAt
  <1> QED
    BY <1>2, <1>3

\* Every step keeps what was given.
LEMMA StepKeepsGiven ==
    ASSUME AsGiven, [Next]_vars
    PROVE  AsGiven'
  <1>0. /\ head \in Text /\ body \in Text /\ given \in Text /\ headers \in Seq(Header)
        /\ given # <<>> => /\ head = ExtractHeaderAndBody(given).head
                           /\ body = ExtractHeaderAndBody(given).body
    BY DEF AsGiven
  <1>e. <<>> \in Text /\ <<>> \in Seq(Header)
    BY DEF Text
  <1>1. ASSUME NEW text \in Text, head' = ExtractHeaderAndBody(text).head,
               body' = ExtractHeaderAndBody(text).body, given' = text, headers' \in Seq(Header)
        PROVE  AsGiven'
    <2>1. /\ GoodHead(ExtractHeaderAndBody(text).head)
          /\ ExtractHeaderAndBody(text).body \in Text
      BY ExtractIs
    <2>2. head' \in Text /\ body' \in Text
      BY <1>1, <2>1 DEF GoodHead
    <2> QED
      BY <1>1, <2>2 DEF AsGiven
  <1>2. ASSUME NEW text \in Received, SetContent(text) PROVE AsGiven'
    <2>1. text \in Text
      BY TextsAssumption
    <2> QED
      BY <1>0, <1>1, <1>2, <2>1 DEF SetContent
  <1>3. ASSUME NEW h \in Heads, SetHead(h) PROVE AsGiven'
    <2>1. head' \in Text
      BY <1>3, HeadGiven DEF SetHead
    <2> QED
      BY <1>0, <1>e, <1>3, <2>1 DEF SetHead, AsGiven
  <1>4. ASSUME NEW b \in Bodies, SetBody(b) PROVE AsGiven'
    <2>1. b \in Text
      BY TextsAssumption
    <2> QED
      BY <1>0, <1>e, <1>4, <2>1 DEF SetBody, AsGiven
  <1>5. ASSUME headers' \in Seq(Header), UNCHANGED <<head, body, given>> PROVE AsGiven'
    BY <1>0, <1>5 DEF AsGiven
  <1>6. ASSUME NEW h \in NewHeaders, AppendHeader(h) PROVE AsGiven'
    <2>1. h \in Header
      BY TextsAssumption
    <2>2. Append(headers, h) \in Seq(Header)
      BY <1>0, <2>1
    <2> QED
      BY <1>5, <1>6, <2>2 DEF AppendHeader
  <1>7. ASSUME NEW h \in Replacements, SetHeader(h) \/ RemoveHeader(h.name) PROVE AsGiven'
    <2>1. h \in Header /\ Removed(h.name) \in Seq(Header)
      BY <1>0, TextsAssumption, RemovedKeeps
    <2>2. Append(Removed(h.name), h) \in Seq(Header)
      BY <2>1
    <2> QED
      BY <1>5, <1>7, <2>1, <2>2 DEF SetHeader, RemoveHeader
  <1>8. ASSUME Parse PROVE AsGiven'
    <2>1. PICK p : Parses(head, p) /\ ParseHeaders(head) = p[1]
      BY <1>0, ParseHeadersIs
    <2>2. ParseHeaders(head) \in Seq(Header)
      BY <2>1 DEF Parses
    <2> QED
      BY <1>5, <1>8, <2>2 DEF Parse
  <1>9. ASSUME Assemble PROVE AsGiven'
    <2>1. head' \in Text
      BY <1>0, <1>9, AssembledIsText DEF Assemble
    <2> QED
      BY <1>0, <1>e, <1>9, <2>1 DEF Assemble, AsGiven
  <1>10. ASSUME NEW newline \in NewlineType, Transmit(newline) PROVE AsGiven'
    <2> DEFINE text == Transmitted(EncodedContent(head, body), newline)
    <2>1. text \in Text
      BY <1>0, SentAgainIsText
    <2>2. /\ head' = ExtractHeaderAndBody(text).head
          /\ body' = ExtractHeaderAndBody(text).body
          /\ given' = text /\ headers' = <<>>
      BY <1>10 DEF Transmit
    <2> HIDE DEF text
    <2> QED
      BY <1>1, <1>e, <2>1, <2>2
  <1>11. CASE UNCHANGED vars
    BY <1>0, <1>11 DEF vars, AsGiven
  <1> QED
    BY <1>2, <1>3, <1>4, <1>6, <1>7, <1>8, <1>9, <1>10, <1>11 DEF Next

LEMMA StepMakesNoEmptyLine ==
    ASSUME SingleLine, AsGiven, NoEmptyLine, [Next]_vars
    PROVE  NoEmptyLine'
  <1> DEFINE W == WellMadeHeaders
  <1>0. GoodHead(head) /\ headers \in Seq(W) /\ <<>> \in Seq(W)
    BY DEF NoEmptyLine
  <1>h. ASSUME NEW h \in NewHeaders \cup Replacements PROVE h \in W
    <2>1. h \in Header /\ IsLine(h.name) /\ IsLine(h.value)
      BY TextsAssumption DEF SingleLine
    <2>2. Len(h.name) \in Nat
      BY <2>1, TextIs DEF Header
    <2> QED
      BY <2>1, <2>2 DEF WellMadeHeaders, WellMade, IsLine
  <1> HIDE DEF W
  <1>w. W = WellMadeHeaders /\ W \subseteq Header
    BY DEF W, WellMadeHeaders
  <1>1. ASSUME NEW text \in Text, head' = ExtractHeaderAndBody(text).head, headers' \in Seq(W)
        PROVE  NoEmptyLine'
    <2>1. GoodHead(ExtractHeaderAndBody(text).head)
      BY ExtractIs
    <2> QED
      BY <1>w, <1>1, <2>1 DEF NoEmptyLine, GoodHead, BlankLine
  <1>2. ASSUME NEW text \in Received, SetContent(text) PROVE NoEmptyLine'
    <2>1. text \in Text
      BY TextsAssumption
    <2> QED
      BY <1>0, <1>1, <1>2, <2>1 DEF SetContent
  <1>3. ASSUME NEW t, GoodHead(t), head' = t, headers' = headers PROVE NoEmptyLine'
    BY <1>0, <1>w, <1>3 DEF NoEmptyLine, GoodHead, BlankLine
  <1>4. ASSUME NEW h \in Heads, SetHead(h) PROVE NoEmptyLine'
    BY <1>3, <1>4, HeadGiven DEF SetHead
  <1>5. ASSUME headers' \in Seq(W), head' = head PROVE NoEmptyLine'
    BY <1>0, <1>w, <1>5 DEF NoEmptyLine, GoodHead, BlankLine
  <1>6. ASSUME NEW b \in Bodies, SetBody(b) PROVE NoEmptyLine'
    BY <1>0, <1>5, <1>6 DEF SetBody
  <1>7. ASSUME NEW h \in NewHeaders, AppendHeader(h) PROVE NoEmptyLine'
    <2>1. Append(headers, h) \in Seq(W)
      BY <1>0, <1>h
    <2> QED
      BY <1>5, <1>7, <2>1 DEF AppendHeader
  <1>8. ASSUME NEW h \in Replacements, SetHeader(h) \/ RemoveHeader(h.name) PROVE NoEmptyLine'
    <2>1. Removed(h.name) \in Seq(W) /\ h \in W
      BY <1>0, <1>h, RemovedKeeps
    <2>2. Append(Removed(h.name), h) \in Seq(W)
      BY <2>1
    <2> QED
      BY <1>5, <1>8, <2>1, <2>2 DEF SetHeader, RemoveHeader
  <1>9. ASSUME Parse PROVE NoEmptyLine'
    <2>1. ParseHeaders(head) \in Seq(W)
      BY <1>0, ParsedAreWellMade DEF W, WellMadeHeaders
    <2> QED
      BY <1>5, <1>9, <2>1 DEF Parse
  <1>10. ASSUME Assemble PROVE NoEmptyLine'
    <2>1. headers \in Seq(Header) /\ \A i \in 1 .. Len(headers) : WellMade(headers[i])
      BY <1>0, <1>w DEF AsGiven, WellMadeHeaders
    <2>2. GoodHead(AssembledHead(headers))
      BY <2>1, AssembledIsGood
    <2> QED
      BY <1>3, <1>10, <2>2 DEF Assemble
  <1>11. ASSUME NEW newline \in NewlineType, Transmit(newline) PROVE NoEmptyLine'
    <2> DEFINE text == Transmitted(EncodedContent(head, body), newline)
    <2>1. text \in Text
      BY SentAgainIsText DEF AsGiven
    <2>2. head' = ExtractHeaderAndBody(text).head /\ headers' = <<>>
      BY <1>11 DEF Transmit
    <2> HIDE DEF text
    <2> QED
      BY <1>0, <1>1, <2>1, <2>2
  <1>12. CASE UNCHANGED vars
    BY <1>0, <1>5, <1>12 DEF vars
  <1> QED
    BY <1>2, <1>4, <1>6, <1>7, <1>8, <1>9, <1>10, <1>11, <1>12 DEF Next

LEMMA InitIsAsGiven == Init => AsGiven /\ NoEmptyLine
  BY DEF Init, AsGiven, NoEmptyLine, GoodHead, BlankLine, Text

\* What is sent again: whatever a caller does with head, headers and body, a
\* text that was given and has a head and a blank line is encoded as it was.
THEOREM ReceivedIsSent == Spec => []SentAsReceived
  <1>1. Init => AsGiven
    BY InitIsAsGiven
  <1>2. AsGiven /\ [Next]_vars => AsGiven'
    BY StepKeepsGiven
  <1>3. AsGiven => SentAsReceived
    <2> SUFFICES ASSUME AsGiven, given # <<>>, ~IsPrefix(NL, given), BlankLine(given) # {}
                 PROVE  EncodedContent(head, body) = given
      BY DEF SentAsReceived
    <2>1. given \in Text /\ head = ExtractHeaderAndBody(given).head
          /\ body = ExtractHeaderAndBody(given).body
      BY DEF AsGiven
    <2> QED
      BY <2>1, SentAgain
  <1> QED
    BY <1>1, <1>2, <1>3, PTL DEF Spec

\* No head has an empty line, whether it was received, set or assembled from
\* headers that are lines.
THEOREM HeadsHaveNoEmptyLine ==
    ASSUME SingleLine
    PROVE  Spec => []TypeOK
  <1>1. Init => AsGiven /\ NoEmptyLine
    BY InitIsAsGiven
  <1>2. AsGiven /\ NoEmptyLine /\ [Next]_vars => AsGiven' /\ NoEmptyLine'
    BY StepKeepsGiven, StepMakesNoEmptyLine
  <1>3. AsGiven /\ NoEmptyLine => TypeOK
    BY DEF AsGiven, NoEmptyLine, GoodHead, TypeOK
  <1> QED
    BY <1>1, <1>2, <1>3, PTL DEF Spec

\* The receiver's head and body are those of the sender, with either kind of
\* line break.
THEOREM SentArrives ==
    ASSUME SingleLine
    PROVE  Spec => TextArrives
  <1>1. Init => AsGiven /\ NoEmptyLine
    BY InitIsAsGiven
  <1>2. AsGiven /\ NoEmptyLine /\ [Next]_vars => AsGiven' /\ NoEmptyLine'
    BY StepKeepsGiven, StepMakesNoEmptyLine
  <1> DEFINE Arrives == \A newline \in NewlineType :
        Transmit(newline) /\ (newline = "CRLF" => ~HasCRLF(EncodedContent(head, body))) =>
        /\ head = <<>> \/ EndsWith(head, NL) => head' = head
        /\ EndsWith(head, NL) /\ (IsPrefix(NL, body) => IsPrefix(NL \o NL, body))
              => body' = body
  <1>3. AsGiven /\ NoEmptyLine => Arrives
    <2> SUFFICES ASSUME AsGiven, NoEmptyLine, NEW newline \in NewlineType, Transmit(newline),
                        newline = "CRLF" => ~HasCRLF(EncodedContent(head, body))
                 PROVE  /\ head = <<>> \/ EndsWith(head, NL) => head' = head
                        /\ EndsWith(head, NL) /\ (IsPrefix(NL, body) => IsPrefix(NL \o NL, body))
                              => body' = body
      OBVIOUS
    <2> DEFINE t == EncodedContent(head, body)
               e == ExtractHeaderAndBody(t)
    <2>1. GoodHead(head) /\ body \in Text
      BY DEF AsGiven, NoEmptyLine
    <2>2. /\ t \in Text
          /\ head = <<>> \/ EndsWith(head, NL) => e.head = head
          /\ EndsWith(head, NL) /\ (IsPrefix(NL, body) => IsPrefix(NL \o NL, body)) => e.body = body
      BY <2>1, FoundAgain
    <2>3. Transmitted(t, newline) = t
      <3>1. newline = "CRLF" => CRLFtoLF(LFtoCRLF(t)) = t
        BY <2>2, LineBreaksReturn
      <3> QED
        BY <3>1 DEF Transmitted
    <2>4. head' = e.head /\ body' = e.body
      <3>1. /\ head' = ExtractHeaderAndBody(Transmitted(t, newline)).head
            /\ body' = ExtractHeaderAndBody(Transmitted(t, newline)).body
        BY DEF Transmit
      <3> QED
        BY <2>3, <3>1
    <2> HIDE DEF t, e
    <2> QED
      BY <2>2, <2>4
  <1>4. TextArrives <=> [][Arrives]_vars
    BY DEF TextArrives
  <1> HIDE DEF Arrives
  <1> QED
    BY <1>1, <1>2, <1>3, <1>4, PTL DEF Spec

-----------------------------------------------------------------------------
(* Lines are short. *)

\* Where a line can be folded.
Spot(h, p) == h[p] = "space" /\ h[p - 1] # "backslash"

\* A line from i to j that is not too long, or cannot be folded in time.
Settled(h, i, j) == j - i + 1 > MaxLen => \A p \in i + 1 .. i + MaxLen : ~Spot(h, p)

\* A line that ends with a newline.
LineAt(h, i, j) ==
    /\ i <= j /\ \A k \in i .. j : h[k] # "newline"
    /\ i = 1 \/ h[i - 1] = "newline"
    /\ h[j + 1] = "newline"

\* The lines before start are settled.
LinesSettled(h, start) ==
    \A i, j \in 1 .. Len(h) : LineAt(h, i, j) /\ j + 1 < start => Settled(h, i, j)

\* Where the line starts that is read.
Reading(h, pos, start) ==
    /\ start \in 1 .. pos /\ (start = 1 \/ h[start - 1] = "newline")
    /\ start = pos => start # 1
    /\ \A p \in start .. Len(h) : h[p] # "newline"

\* What is known of the two places where it may be folded: e is the last one,
\* and a line that is already too long has none, or has just got one.
Marked(h, pos, start, e, r) ==
    /\ r <= e /\ e <= Len(h) /\ (e # 0 => e > start) /\ (r # 0 => r > start)
    /\ e = pos => r = e /\ \A p \in start + 1 .. pos - 1 : ~Spot(h, p)
    /\ \A p \in start + 1 .. pos - 1 : Spot(h, p) => p <= e
    /\ pos - start > MaxLen + 1 => \A p \in start + 1 .. start + MaxLen : ~Spot(h, p)
    /\ pos - start > MaxLen + 1 /\ e # 0 => e >= pos - 1 /\ (r = 0 \/ r >= pos - 1)

ShortState ==
    {s \in FoldState :
        /\ Reading(s.header, s.pos, s.start)
        /\ Marked(s.header, s.pos, s.start, s.eligible, s.recommended)
        /\ s.escaped => s.header[s.pos - 1] = "backslash" /\ s.eligible # s.pos
        /\ LinesSettled(s.header, s.start)}

\* A newline at f moves what is behind it.
LEMMA MovedBehind ==
    ASSUME NEW h \in Text, NEW f \in 2 .. Len(h)
    PROVE  LET g == InsertAt(h, f, "newline")
           IN  /\ Len(g) = Len(h) + 1 /\ g[f] = "newline"
               /\ \A p \in 1 .. f - 1 : g[p] = h[p]
               /\ \A p \in f + 1 .. Len(h) + 1 : g[p] = h[p - 1]
               /\ \A p \in 2 .. f - 1 : Spot(g, p) <=> Spot(h, p)
               /\ \A p \in f + 2 .. Len(h) + 1 : Spot(g, p) <=> Spot(h, p - 1)
  <1> DEFINE g == InsertAt(h, f, "newline")
             n == Len(h)
  <1>1. n \in Nat /\ f \in 1 .. Len(h) + 1 /\ "newline" \in Symbol
    BY TextIs DEF Symbol
  <1>2. /\ Len(g) = Len(h) + 1 /\ g[f] = "newline"
        /\ \A p \in 1 .. f - 1 : g[p] = h[p]
        /\ \A p \in f .. Len(h) : g[p + 1] = h[p]
    BY <1>1, InsertIs
  <1> HIDE DEF g
  <1>3. ASSUME NEW p \in f + 1 .. n + 1 PROVE g[p] = h[p - 1]
    <2>1. PICK q \in f .. Len(h) : q = p - 1
      <3>1. p - 1 \in f .. Len(h)
        BY <1>1
      <3> QED
        BY <3>1
    <2>2. q + 1 = p
      BY <1>1, <2>1
    <2> QED
      BY <1>2, <2>1, <2>2
  <1>4. ASSUME NEW p \in 2 .. f - 1 PROVE Spot(g, p) <=> Spot(h, p)
    <2>1. p \in 1 .. f - 1 /\ p - 1 \in 1 .. f - 1
      BY <1>1
    <2> QED
      BY <1>2, <2>1 DEF Spot
  <1>5. ASSUME NEW p \in f + 2 .. n + 1 PROVE Spot(g, p) <=> Spot(h, p - 1)
    <2>1. p \in f + 1 .. n + 1 /\ p - 1 \in f + 1 .. n + 1
      BY <1>1
    <2>2. g[p] = h[p - 1] /\ g[p - 1] = h[p - 1 - 1]
      BY <1>3, <2>1
    <2> QED
      BY <2>2 DEF Spot
  <1> QED
    BY <1>2, <1>3, <1>4, <1>5 DEF g, n

\* The line that a newline at f ends is settled, and so are those before it.
LEMMA FoldedLineIsSettled ==
    ASSUME NEW h \in Text, NEW pos \in 1 .. Len(h) + 1, NEW start \in Nat, NEW e \in 0 .. pos,
           NEW r \in 0 .. pos, Reading(h, pos, start), Marked(h, pos, start, e, r),
           LinesSettled(h, start), pos - start > MaxLen, e # 0, NEW f \in {e, r}, f # 0,
           f \in 2 .. Len(h)
    PROVE  LinesSettled(InsertAt(h, f, "newline"), f + 1)
  <1> DEFINE g == InsertAt(h, f, "newline")
             n == Len(h)
  <1>0. MaxLen \in Nat \ {0} /\ n \in Nat
    BY MaxLenAssumption, TextIs
  <1>1. /\ Len(g) = n + 1 /\ g[f] = "newline"
        /\ \A p \in 1 .. f - 1 : g[p] = h[p]
        /\ \A p \in f + 1 .. n + 1 : g[p] = h[p - 1]
        /\ \A p \in 2 .. f - 1 : Spot(g, p) <=> Spot(h, p)
        /\ \A p \in f + 2 .. n + 1 : Spot(g, p) <=> Spot(h, p - 1)
    BY MovedBehind
  <1> HIDE DEF g, n
  <1>2. f > start /\ f <= pos /\ start \in 1 .. pos /\ pos \in Nat /\ f \in 2 .. n
    BY DEF Marked, Reading, n
  <1>3. SUFFICES ASSUME NEW i \in 1 .. n + 1, NEW j \in 1 .. n + 1, LineAt(g, i, j), j + 1 < f + 1
        PROVE  Settled(g, i, j)
    BY <1>1 DEF LinesSettled, g
  <1>4. i <= j /\ j <= f - 1 /\ i \in 1 .. f - 1 /\ j \in 1 .. f - 1
    BY <1>0, <1>2, <1>3 DEF LineAt
  <1>5. \A k \in i .. j : h[k] # "newline"
    <2>1. \A k \in i .. j : k \in 1 .. f - 1
      BY <1>4
    <2> QED
      BY <1>1, <1>3, <2>1 DEF LineAt
  <1>6. i = 1 \/ h[i - 1] = "newline"
    <2>1. i # 1 => i - 1 \in 1 .. f - 1
      BY <1>4
    <2> QED
      BY <1>1, <1>3, <2>1 DEF LineAt
  <1>7. CASE i < start
    <2>0. start # 1 /\ start - 1 \in i .. n
      BY <1>0, <1>2, <1>4, <1>7
    <2>1. start # 1 /\ h[start - 1] = "newline" /\ start - 1 \in i .. n
      BY <2>0 DEF Reading
    <2>2. j < start - 1
      <3> SUFFICES ASSUME j >= start - 1 PROVE FALSE
        BY <1>2, <1>4
      <3>1. start - 1 \in i .. j
        BY <1>2, <1>4, <2>1
      <3> QED
        BY <1>5, <2>1, <3>1
    <2>3. h[j + 1] = "newline"
      <3>1. j + 1 \in 1 .. f - 1
        BY <1>2, <1>4, <2>2
      <3> QED
        BY <1>1, <1>3, <3>1 DEF LineAt
    <2>4. LineAt(h, i, j) /\ i \in 1 .. Len(h) /\ j \in 1 .. Len(h)
      BY <1>2, <1>4, <1>5, <1>6, <2>3 DEF LineAt, n
    <2>5. Settled(h, i, j)
      BY <1>2, <1>4, <2>2, <2>4 DEF LinesSettled
    <2>6. ASSUME j - i + 1 > MaxLen, NEW p \in i + 1 .. i + MaxLen PROVE ~Spot(g, p)
      <3>1. p \in 2 .. f - 1
        BY <1>0, <1>2, <1>4, <2>2, <2>6
      <3> QED
        BY <1>1, <2>5, <2>6, <3>1 DEF Settled
    <2> QED
      BY <2>6 DEF Settled
  <1>8. CASE i >= start
    <2>1. i = start
      <3> SUFFICES ASSUME i > start PROVE FALSE
        BY <1>2, <1>4, <1>8
      <3>1. i # 1 /\ i - 1 \in start .. Len(h)
        BY <1>2, <1>4 DEF n
      <3> QED
        BY <1>6, <3>1 DEF Reading
    <2>2. j = f - 1
      <3> SUFFICES ASSUME j < f - 1 PROVE FALSE
        BY <1>2, <1>4
      <3>1. j + 1 \in 1 .. f - 1 /\ j + 1 \in start .. Len(h)
        BY <1>2, <1>4, <1>8 DEF n
      <3>2. g[j + 1] = "newline" /\ g[j + 1] = h[j + 1]
        BY <1>1, <1>3, <3>1 DEF LineAt
      <3> QED
        BY <3>1, <3>2 DEF Reading
    <2>3. ASSUME f - start > MaxLen, NEW p \in start + 1 .. start + MaxLen PROVE ~Spot(h, p)
      <3>1. CASE pos - start > MaxLen + 1
        BY <2>3, <3>1 DEF Marked
      <3>2. CASE ~(pos - start > MaxLen + 1)
        <4>1. f = pos
          BY <1>0, <1>2, <2>3, <3>2
        <4>2. e = pos
          BY <4>1 DEF Marked
        <4>3. p \in start + 1 .. pos - 1
          BY <1>0, <1>2, <2>3, <4>1
        <4> QED
          BY <4>2, <4>3 DEF Marked
      <3> QED
        BY <3>1, <3>2
    <2>4. ASSUME j - i + 1 > MaxLen, NEW p \in i + 1 .. i + MaxLen PROVE ~Spot(g, p)
      <3>1. f - start > MaxLen /\ p \in start + 1 .. start + MaxLen /\ p \in 2 .. f - 1
        BY <1>0, <1>2, <2>1, <2>2, <2>4
      <3> QED
        BY <1>1, <2>3, <3>1
    <2> QED
      BY <2>4 DEF Settled
  <1> QED
    BY <1>2, <1>4, <1>7, <1>8

LEMMA FoldingKeepsMarks ==
    ASSUME NEW h \in Text, NEW pos \in 1 .. Len(h) + 1, NEW start \in Nat, NEW e \in 0 .. pos,
           NEW r \in 0 .. pos, Reading(h, pos, start), Marked(h, pos, start, e, r),
           pos - start > MaxLen, e # 0
    PROVE  LET f == IF r # 0 THEN r ELSE e
               g == InsertAt(h, f, "newline")
           IN  /\ f \in 2 .. Len(h) /\ f \in {e, r} /\ f # 0
               /\ Reading(g, pos + 1, f + 1)
               /\ Marked(g, pos + 1, f + 1, IF e <= f THEN 0 ELSE e + 1, 0)
               /\ f # pos => g[pos] = h[pos - 1]
  <1> DEFINE f == IF r # 0 THEN r ELSE e
             g == InsertAt(h, f, "newline")
             n == Len(h)
             x == IF e <= f THEN 0 ELSE e + 1
  <1>0. MaxLen \in Nat \ {0} /\ n \in Nat /\ start \in 1 .. pos /\ pos \in 1 .. n + 1
        /\ e \in 0 .. pos /\ r \in 0 .. pos
    BY MaxLenAssumption, TextIs DEF Reading
  <1>1. f \in {e, r} /\ f # 0 /\ f > start /\ f <= e /\ f <= n /\ e <= n
    BY <1>0 DEF Marked, n
  <1>2. f \in 2 .. Len(h)
    BY <1>0, <1>1 DEF n
  <1> HIDE DEF f
  <1>3. /\ Len(g) = n + 1 /\ g[f] = "newline"
        /\ \A p \in 1 .. f - 1 : g[p] = h[p]
        /\ \A p \in f + 1 .. n + 1 : g[p] = h[p - 1]
        /\ \A p \in 2 .. f - 1 : Spot(g, p) <=> Spot(h, p)
        /\ \A p \in f + 2 .. n + 1 : Spot(g, p) <=> Spot(h, p - 1)
    BY <1>2, MovedBehind
  <1> HIDE DEF g, n, x
  <1>4. Reading(g, pos + 1, f + 1)
    <2>1. f + 1 \in 1 .. pos + 1 /\ f + 1 - 1 = f /\ f + 1 # 1
      BY <1>0, <1>1
    <2>2. ASSUME NEW p \in f + 1 .. Len(g) PROVE g[p] # "newline"
      <3>1. p \in f + 1 .. n + 1 /\ p - 1 \in start .. Len(h)
        BY <1>0, <1>1, <1>3, <2>2 DEF n
      <3>2. g[p] = h[p - 1] /\ h[p - 1] # "newline"
        BY <1>3, <3>1 DEF Reading
      <3> QED
        BY <3>2
    <2> DEFINE a == f + 1
               b == pos + 1
    <2>4. a \in 1 .. b /\ a # 1
      BY <2>1
    <2>5. \A p \in a .. Len(g) : g[p] # "newline"
      BY <2>2
    <2>6. a - 1 = f /\ g[f] = "newline"
      <3>1. f \in Nat
        BY <1>1, <1>0
      <3>2. a - 1 = f
        BY <3>1
      <3>3. g[f] = "newline"
        BY <1>3
      <3> QED
        BY <3>2, <3>3
    <2> HIDE DEF a, b
    <2>7. Reading(g, b, a)
      BY <2>4, <2>5, <2>6 DEF Reading
    <2> QED
      BY <2>7 DEF a, b
  <1>5. f # pos => g[pos] = h[pos - 1]
    <2> SUFFICES ASSUME f # pos PROVE g[pos] = h[pos - 1]
      OBVIOUS
    <2>1. pos \in f + 1 .. n + 1
      BY <1>0, <1>1
    <2> QED
      BY <1>3, <2>1
  <1>6. pos + 1 - (f + 1) <= MaxLen
    <2>1. pos + 1 - (f + 1) = pos - f
      BY <1>0, <1>1
    <2>2. CASE pos - start > MaxLen + 1
      <3>1. f >= pos - 1
        BY <1>0, <1>1, <2>2 DEF Marked
      <3> QED
        BY <1>0, <1>1, <2>1, <3>1
    <2>3. CASE ~(pos - start > MaxLen + 1)
      BY <1>0, <1>1, <2>1, <2>3
    <2> QED
      BY <2>2, <2>3
  <1>7. x \in Nat /\ 0 <= x /\ x <= Len(g) /\ (x # 0 => x > f + 1) /\ x # pos + 1
    <2>1. e = pos => f = e
      BY <1>1 DEF Marked
    <2> QED
      BY <1>0, <1>1, <1>3, <2>1 DEF x
  <1>8. ASSUME NEW p \in f + 1 + 1 .. pos + 1 - 1, Spot(g, p) PROVE p <= x
    <2>1. p \in f + 2 .. n + 1 /\ p - 1 \in start + 1 .. pos - 1
      BY <1>0, <1>1, <1>8
    <2>2. Spot(h, p - 1)
      BY <1>3, <1>8, <2>1
    <2>3. p - 1 <= e
      BY <2>1, <2>2 DEF Marked
    <2> QED
      BY <1>0, <1>1, <1>8, <2>3 DEF x
  <1>9. Marked(g, pos + 1, f + 1, x, 0)
    <2> DEFINE a == f + 1
               b == pos + 1
    <2>1. ~(b - a > MaxLen + 1)
      BY <1>0, <1>1, <1>6
    <2>2. /\ x \in Nat /\ 0 <= x /\ x <= Len(g) /\ (x # 0 => x > a) /\ x # b
          /\ \A p \in a + 1 .. b - 1 : Spot(g, p) => p <= x
      BY <1>7, <1>8
    <2> HIDE DEF a, b
    <2>3. Marked(g, b, a, x, 0)
      BY <2>1, <2>2 DEF Marked
    <2> QED
      BY <2>3 DEF a, b
  <1> QED
    BY <1>1, <1>2, <1>4, <1>5, <1>9 DEF f, g, x

LEMMA ReadingKeepsMarks ==
    ASSUME NEW h \in Text, NEW pos \in 1 .. Len(h), NEW start \in Nat, NEW e \in 0 .. pos,
           NEW r \in 0 .. pos, Reading(h, pos, start), Marked(h, pos, start, e, r),
           ~(pos - start > MaxLen /\ e # 0), NEW escaped \in BOOLEAN,
           escaped => h[pos - 1] = "backslash" /\ e # pos, NEW good \in BOOLEAN
    PROVE  LET here == h[pos] = "space" /\ ~escaped /\ h[pos - 1] # "newline"
           IN  /\ Reading(h, pos + 1, start)
               /\ Marked(h, pos + 1, start, IF here THEN pos ELSE e, IF here /\ good THEN pos ELSE r)
  <1> DEFINE here == h[pos] = "space" /\ ~escaped /\ h[pos - 1] # "newline"
             n == Len(h)
             x == IF here THEN pos ELSE e
             y == IF here /\ good THEN pos ELSE r
  <1>0. MaxLen \in Nat \ {0} /\ n \in Nat /\ start \in 1 .. pos /\ pos \in 1 .. n
        /\ e \in 0 .. pos /\ r \in 0 .. pos
    BY MaxLenAssumption, TextIs DEF Reading
  <1>1. Reading(h, pos + 1, start)
    BY <1>0 DEF Reading
  <1>2. here => pos > start
    <2> SUFFICES ASSUME here, start = pos PROVE FALSE
      BY <1>0
    <2>1. h[start - 1] = "newline"
      BY DEF Reading
    <2> QED
      BY <2>1
  <1>3. ASSUME Spot(h, pos), pos > start PROVE here
    <2>1. pos - 1 \in start .. Len(h)
      BY <1>0, <1>3 DEF n
    <2>2. h[pos - 1] # "newline"
      BY <2>1 DEF Reading
    <2> QED
      BY <1>3, <2>2 DEF Spot
  <1> HIDE DEF here, n
  <1>4. x \in 0 .. pos /\ y \in 0 .. pos /\ x # pos + 1 /\ x <= n /\ y <= x
        /\ (x # 0 => x > start) /\ (y # 0 => y > start)
    BY <1>0, <1>2 DEF Marked, n
  <1>5. ASSUME NEW p \in start + 1 .. pos + 1 - 1, Spot(h, p) PROVE p <= x
    <2>1. CASE p = pos
      BY <1>0, <1>3, <1>5, <2>1
    <2>2. CASE p # pos
      <3>1. p \in start + 1 .. pos - 1
        BY <1>0, <1>5, <2>2
      <3>2. p <= e
        BY <1>5, <3>1 DEF Marked
      <3> QED
        BY <1>0, <3>1, <3>2
    <2> QED
      BY <2>1, <2>2
  <1>6. ASSUME pos + 1 - start > MaxLen + 1 PROVE e = 0 /\ r = 0
    <2>1. pos - start > MaxLen
      BY <1>0, <1>6
    <2> QED
      BY <1>0, <2>1 DEF Marked
  <1>7. ASSUME pos + 1 - start > MaxLen + 1, NEW p \in start + 1 .. start + MaxLen
        PROVE  ~Spot(h, p)
    <2>1. e = 0
      BY <1>6, <1>7
    <2>2. p \in start + 1 .. pos - 1
      BY <1>0, <1>7
    <2>3. Spot(h, p) => p <= e
      BY <2>2 DEF Marked
    <2> QED
      BY <1>0, <2>1, <2>2, <2>3
  <1>8. pos + 1 - start > MaxLen + 1 /\ x # 0 => x >= pos + 1 - 1 /\ (y = 0 \/ y >= pos + 1 - 1)
    BY <1>0, <1>6
  <1> HIDE DEF x, y
  <1>9. Marked(h, pos + 1, start, x, y)
    BY <1>4, <1>5, <1>7, <1>8 DEF Marked, n
  <1> QED
    BY <1>1, <1>9 DEF here, x, y

LEMMA ShortStateLoops == Loops(ShortState)
  <1>1. ASSUME NEW s \in ShortState, MustFold(s) PROVE FoldLine(s) \in ShortState
    <2> DEFINE h == s.header
               f == IF s.recommended # 0 THEN s.recommended ELSE s.eligible
               g == InsertAt(h, f, "newline")
               t == FoldLine(s)
               x == IF s.eligible <= f THEN 0 ELSE s.eligible + 1
    <2>1. /\ s \in FoldState /\ Reading(h, s.pos, s.start)
          /\ Marked(h, s.pos, s.start, s.eligible, s.recommended)
          /\ s.escaped => h[s.pos - 1] = "backslash" /\ s.eligible # s.pos
          /\ LinesSettled(h, s.start)
      BY DEF ShortState
    <2>2. /\ h \in Text /\ s.pos \in 1 .. Len(h) + 1 /\ s.start \in Nat
          /\ s.eligible \in 0 .. s.pos /\ s.recommended \in 0 .. s.pos
      BY <2>1, FoldStateIs
    <2>3. s.pos - s.start > MaxLen /\ s.eligible # 0
      BY <1>1 DEF MustFold
    <2>4. /\ t \in FoldState /\ t.header = g /\ t.pos = s.pos + 1 /\ t.start = f + 1
          /\ t.recommended = 0 /\ t.eligible = x /\ t.escaped = s.escaped
      BY <1>1, <2>1, FoldLineIs
    <2>5. /\ f \in 2 .. Len(h) /\ f \in {s.eligible, s.recommended} /\ f # 0
          /\ Reading(g, s.pos + 1, f + 1)
          /\ Marked(g, s.pos + 1, f + 1, x, 0)
          /\ f # s.pos => g[s.pos] = h[s.pos - 1]
      BY <2>1, <2>2, <2>3, FoldingKeepsMarks
    <2> HIDE DEF f, g, t, h
    <2>6. LinesSettled(g, f + 1)
      BY <2>1, <2>2, <2>3, <2>5, FoldedLineIsSettled DEF g
    <2>7. t.escaped => t.header[t.pos - 1] = "backslash" /\ t.eligible # t.pos
      <3> SUFFICES ASSUME s.escaped PROVE g[t.pos - 1] = "backslash" /\ x # s.pos + 1
        BY <2>4
      <3>1. f # s.pos
        BY <2>1, <2>2, <2>5 DEF Marked
      <3>2. t.pos - 1 = s.pos
        BY <2>2, <2>4
      <3> QED
        BY <2>1, <2>2, <2>5, <3>1, <3>2
    <2> HIDE DEF x
    <2>8. t \in ShortState
      BY <2>4, <2>5, <2>6, <2>7 DEF ShortState
    <2> QED
      BY <2>8 DEF t
  <1>2. ASSUME NEW s \in ShortState, ~MustFold(s), ~Folded(s) PROVE ReadCharacter(s) \in ShortState
    <2> DEFINE h == s.header
               t == ReadCharacter(s)
               c == h[s.pos]
               last == h[s.pos - 1]
               here == c = "space" /\ ~s.escaped /\ last # "newline"
               good == last = "comma" /\ ~s.quoted
               x == IF here THEN s.pos ELSE s.eligible
               y == IF here /\ good THEN s.pos ELSE s.recommended
    <2>1. /\ s \in FoldState /\ Reading(h, s.pos, s.start)
          /\ Marked(h, s.pos, s.start, s.eligible, s.recommended)
          /\ s.escaped => h[s.pos - 1] = "backslash" /\ s.eligible # s.pos
          /\ LinesSettled(h, s.start)
      BY DEF ShortState
    <2>2. /\ h \in Text /\ s.pos \in 1 .. Len(h) + 1 /\ s.start \in Nat
          /\ s.eligible \in 0 .. s.pos /\ s.recommended \in 0 .. s.pos
          /\ s.escaped \in BOOLEAN /\ good \in BOOLEAN
      BY <2>1, FoldStateIs
    <2>3. /\ s.pos <= Len(h) /\ t \in FoldState /\ t.header = h /\ t.pos = s.pos + 1
          /\ t.start = (IF c = "newline" THEN s.pos + 1 ELSE s.start)
          /\ t.eligible = (IF here THEN s.pos ELSE IF c = "newline" THEN 0 ELSE s.eligible)
          /\ t.recommended = (IF here /\ last = "comma" /\ ~s.quoted THEN s.pos
                              ELSE IF c = "newline" THEN 0 ELSE s.recommended)
          /\ t.escaped = (c = "backslash" /\ ~s.escaped)
      BY <1>2, <2>1, ReadCharacterIs
    <2>4. c # "newline"
      <3>1. s.pos \in s.start .. Len(h)
        BY <2>1, <2>2, <2>3 DEF Reading
      <3> QED
        BY <2>1, <3>1 DEF Reading
    <2>5. t.start = s.start /\ t.eligible = x /\ t.recommended = y
      BY <2>3, <2>4
    <2>6. s.pos \in 1 .. Len(h) /\ ~(s.pos - s.start > MaxLen /\ s.eligible # 0)
      BY <1>2, <2>2, <2>3 DEF MustFold
    <2>7. Reading(h, s.pos + 1, s.start) /\ Marked(h, s.pos + 1, s.start, x, y)
      <3> HIDE DEF good, h
      <3> QED
        BY <2>1, <2>2, <2>6, ReadingKeepsMarks, ZenonT(30)
    <2>8. x # s.pos + 1 /\ s.pos + 1 - 1 = s.pos
      <3> HIDE DEF here
      <3> QED
        BY <2>2
    <2> HIDE DEF x, y, t, h, last, here, good
    <2>9. t.escaped => t.header[t.pos - 1] = "backslash" /\ t.eligible # t.pos
      <3> SUFFICES ASSUME c = "backslash" PROVE h[t.pos - 1] = "backslash" /\ x # s.pos + 1
        BY <2>3, <2>5
      <3>1. t.pos - 1 = s.pos
        <4>1. t.pos = s.pos + 1 /\ s.pos \in Int
          BY <2>2, <2>3
        <4> QED
          BY <4>1
      <3> QED
        BY <2>8, <3>1
    <2>10. t \in ShortState
      BY <2>1, <2>3, <2>5, <2>7, <2>9 DEF ShortState
    <2> QED
      BY <2>10 DEF t
  <1> QED
    BY <1>1, <1>2 DEF Loops, FoldStep, ShortState

\* The header of a plain name and value.
LEMMA ShortStarts ==
    ASSUME NEW h \in Header, PlainName(h.name), Plain(h.value), IsFolded(HeaderText(h))
    PROVE  FoldStart(HeaderText(h)) \in ShortState
  <1> DEFINE t == HeaderText(h)
             n == Len(h.name)
             v == Len(h.value)
             s == FoldStart(t)
  <1>1. /\ t \in Text /\ n \in Nat /\ v \in Nat
        /\ Len(t) = n + 2 + v
        /\ \A i \in 1 .. n : t[i] = h.name[i]
        /\ t[n + 1] = "colon" /\ t[n + 2] = "space"
        /\ \A i \in 1 .. v : t[n + 2 + i] = h.value[i]
    BY HeaderTextIs
  <1>2. \A i \in 1 .. n : h.name[i] = "text"
    BY TextIs DEF PlainName, Header
  <1>3. \A i \in 1 .. v : h.value[i] # "newline"
    <2>1. DOMAIN h.value = 1 .. v
      BY TextIs DEF Header
    <2> QED
      BY <2>1 DEF Plain, Positions
  <1> HIDE DEF n, v, t
  <1>4. n # 0
    <2>1. h.name # <<>> /\ h.name \in Text
      BY DEF PlainName, Header
    <2> QED
      BY <2>1, TextIs DEF n
  <1>5. \A i \in 1 .. n : t[i] = "text"
    BY <1>1, <1>2
  <1>6. ASSUME NEW j \in 1 .. Len(t) PROVE t[j] # "newline"
    <2>1. CASE j <= n + 2
      <3>1. j \in 1 .. n \/ j = n + 1 \/ j = n + 2
        BY <1>1, <2>1
      <3> QED
        BY <1>1, <1>5, <3>1
    <2>2. CASE j > n + 2
      <3>1. PICK i \in 1 .. v : i = j - (n + 2)
        <4>1. j - (n + 2) \in 1 .. v
          BY <1>1, <2>2
        <4> QED
          BY <4>1
      <3>2. n + 2 + i = j
        BY <1>1, <3>1
      <3> QED
        BY <1>1, <1>3, <3>1, <3>2
    <2> QED
      BY <1>1, <2>1, <2>2
  <1>7. /\ s \in FoldState /\ s.header = t /\ s.pos = Min(Positions(t, "colon")) + 1
        /\ s.eligible = s.pos /\ s.recommended = s.pos /\ s.start = 1 /\ s.escaped = FALSE
        /\ s.pos \in 2 .. Len(t)
    <2>1. IsFolded(t)
      BY DEF t
    <2> QED
      BY <1>1, <2>1, FoldStarts
  <1>8. s.pos = n + 2
    <2>1. Positions(t, "colon") # {}
      BY DEF IsFolded, t
    <2> DEFINE c == Min(Positions(t, "colon"))
    <2>2. /\ c \in 1 .. Len(t) /\ t[c] = "colon" /\ \A i \in 1 .. c - 1 : t[i] # "colon"
      BY <1>1, <2>1, FirstColon
    <2> HIDE DEF c, s
    <2>3. ~(c < n + 1)
      <3> SUFFICES ASSUME c < n + 1 PROVE FALSE
        OBVIOUS
      <3>1. c \in 1 .. n
        BY <1>1, <2>2
      <3> QED
        BY <1>5, <2>2, <3>1
    <2>4. ~(c > n + 1)
      <3> SUFFICES ASSUME c > n + 1 PROVE FALSE
        OBVIOUS
      <3>1. n + 1 \in 1 .. c - 1
        BY <1>1, <2>2
      <3> QED
        BY <1>1, <2>2, <3>1
    <2>5. s.pos = c + 1
      BY <1>7 DEF c
    <2> QED
      BY <1>1, <2>2, <2>3, <2>4, <2>5
  <1> HIDE DEF s
  <1> DEFINE pos == n + 2
  <1>9. Reading(t, pos, 1)
    <2>1. 1 \in 1 .. pos /\ 1 # pos
      BY <1>1
    <2> HIDE DEF pos
    <2> QED
      BY <1>6, <2>1 DEF Reading
  <1>10. ASSUME NEW p \in 2 .. n + 1 PROVE ~Spot(t, p)
    <2>1. p \in 1 .. n \/ p = n + 1
      BY <1>1
    <2>2. t[p] # "space"
      BY <1>1, <1>5, <2>1
    <2> QED
      BY <2>2 DEF Spot
  <1>11. Marked(t, pos, 1, pos, pos)
    <2>1. pos \in Nat /\ pos <= Len(t) /\ pos > 1 /\ pos # 0 /\ MaxLen \in Nat
      BY <1>1, MaxLenAssumption
    <2>2. \A p \in 1 + 1 .. pos - 1 : ~Spot(t, p)
      <3>1. 1 + 1 = 2 /\ pos - 1 = n + 1
        BY <1>1
      <3> QED
        BY <1>10, <3>1
    <2>3. pos - 1 > MaxLen + 1 => \A p \in 1 + 1 .. 1 + MaxLen : ~Spot(t, p)
      <3> SUFFICES ASSUME pos - 1 > MaxLen + 1, NEW p \in 1 + 1 .. 1 + MaxLen PROVE ~Spot(t, p)
        OBVIOUS
      <3>1. p \in 1 + 1 .. pos - 1
        BY <2>1
      <3> QED
        BY <2>2, <3>1
    <2> HIDE DEF pos
    <2> QED
      BY <2>1, <2>2, <2>3 DEF Marked
  <1>12. LinesSettled(t, 1)
    <2>1. Len(t) \in Nat
      BY <1>1
    <2> QED
      BY <2>1 DEF LinesSettled
  <1>13. s \in ShortState
    BY <1>7, <1>8, <1>9, <1>11, <1>12 DEF ShortState
  <1> QED
    BY <1>13 DEF s, t

\* Each line of what foldHeader() makes is settled.
LEMMA ShortLines ==
    ASSUME NEW s \in ShortState, Folded(s),
           NEW i \in 1 .. Len(s.header), NEW j \in 1 .. Len(s.header),
           i <= j, \A k \in i .. j : s.header[k] # "newline",
           i = 1 \/ s.header[i - 1] = "newline",
           j = Len(s.header) \/ s.header[j + 1] = "newline"
    PROVE  Settled(s.header, i, j)
  <1> DEFINE h == s.header
             n == Len(h)
             start == s.start
  <1>1. /\ s \in FoldState /\ Reading(h, s.pos, start)
        /\ Marked(h, s.pos, start, s.eligible, s.recommended)
        /\ LinesSettled(h, start)
    BY DEF ShortState
  <1>2. /\ h \in Text /\ n \in Nat /\ s.pos \in 1 .. n + 1 /\ start \in 1 .. s.pos
        /\ MaxLen \in Nat \ {0}
    BY <1>1, FoldStateIs, MaxLenAssumption DEF Reading
  <1>3. s.pos = n + 1 /\ (s.pos - start > MaxLen => s.eligible = 0)
    <2>1. s.pos > n /\ ~MustFold(s)
      BY DEF Folded
    <2> QED
      BY <1>2, <2>1 DEF MustFold
  <1>a. /\ i \in 1 .. n /\ j \in 1 .. n /\ i <= j /\ \A k \in i .. j : h[k] # "newline"
        /\ i = 1 \/ h[i - 1] = "newline"
        /\ j = n \/ h[j + 1] = "newline"
    OBVIOUS
  <1> HIDE DEF h, n, start
  <1>4. CASE i < start
    <2>0. start # 1 /\ start - 1 \in i .. n
      BY <1>2, <1>3, <1>4, <1>a
    <2>1. h[start - 1] = "newline"
      BY <1>1, <2>0 DEF Reading
    <2>2. j < start - 1
      <3> SUFFICES ASSUME j >= start - 1 PROVE FALSE
        BY <1>2, <1>a
      <3>1. start - 1 \in i .. j
        BY <1>2, <1>a, <2>0
      <3> QED
        BY <1>a, <2>1, <3>1
    <2>3. j # n
      BY <1>2, <1>3, <2>2
    <2>4. LineAt(h, i, j) /\ i \in 1 .. Len(h) /\ j \in 1 .. Len(h) /\ j + 1 < start
      BY <1>2, <1>a, <2>2, <2>3 DEF LineAt, n
    <2>5. Settled(h, i, j)
      BY <1>1, <2>4 DEF LinesSettled
    <2> QED
      BY <2>5 DEF h
  <1>5. CASE i >= start
    <2>1. i = start
      <3> SUFFICES ASSUME i > start PROVE FALSE
        BY <1>2, <1>5, <1>a
      <3>1. i # 1 /\ i - 1 \in start .. Len(h)
        BY <1>2, <1>a DEF n
      <3> QED
        BY <1>1, <1>a, <3>1 DEF Reading
    <2>2. j = n
      <3> SUFFICES ASSUME j # n PROVE FALSE
        OBVIOUS
      <3>1. j + 1 \in start .. Len(h)
        BY <1>2, <1>5, <1>a DEF n
      <3> QED
        BY <1>1, <1>a, <3>1 DEF Reading
    <2>3. ASSUME j - i + 1 > MaxLen, NEW p \in i + 1 .. i + MaxLen PROVE ~Spot(h, p)
      <3>1. s.eligible = 0 /\ p \in start + 1 .. s.pos - 1
        BY <1>2, <1>3, <2>1, <2>2, <2>3
      <3>2. Spot(h, p) => p <= 0
        BY <1>1, <3>1 DEF Marked
      <3> QED
        BY <1>2, <3>1, <3>2
    <2>4. Settled(h, i, j)
      BY <2>3 DEF Settled
    <2> QED
      BY <2>4 DEF h
  <1> QED
    BY <1>2, <1>4, <1>5, <1>a

\* Folding makes no line of more than MaxLen characters that could have been
\* folded in time, for every length of a line, name and value.
THEOREM FoldedLinesAreShort == Spec => []LinesAreShort
  <1>1. Init => AsGiven
    BY InitIsAsGiven
  <1>2. AsGiven /\ [Next]_vars => AsGiven'
    BY StepKeepsGiven
  <1>3. AsGiven => LinesAreShort
    <2> SUFFICES ASSUME AsGiven, NEW i \in DOMAIN headers, PlainName(headers[i].name),
                        Plain(headers[i].value),
                        NEW line \in PhysicalLines(FoldHeader(HeaderText(headers[i]))),
                        Len(line) > MaxLen, NEW k \in 2 .. MaxLen + 1,
                        line[k] = "space", line[k - 1] # "backslash"
                 PROVE  FALSE
      BY DEF LinesAreShort
    <2> DEFINE h == headers[i]
               t == HeaderText(h)
               u == FoldHeader(t)
    <2>1. h \in Header /\ PlainName(h.name) /\ Plain(h.value)
      BY DEF AsGiven
    <2>2. t \in Text /\ u \in Text
      BY <2>1, HeaderTextIs, FoldedIsText
    <2>3. Len(t) \in Nat /\ Len(u) \in Nat /\ DOMAIN u = 1 .. Len(u) /\ MaxLen \in Nat
      BY <2>2, TextIs, MaxLenAssumption
    <2> HIDE DEF h
    <2>4. PICK p \in (DOMAIN u) \X (DOMAIN u) :
             /\ line = SubSeq(u, p[1], p[2])
             /\ p[1] <= p[2] /\ \A x \in p[1] .. p[2] : u[x] # "newline"
             /\ p[1] = 1 \/ u[p[1] - 1] = "newline"
             /\ p[2] = Len(u) \/ u[p[2] + 1] = "newline"
      BY DEF PhysicalLines, h
    <2> DEFINE a == p[1]
               b == p[2]
    <2>5. a \in 1 .. Len(u) /\ b \in 1 .. Len(u)
      BY <2>3, <2>4
    <2> HIDE DEF a, b, u
    <2>6. /\ line = SubSeq(u, a, b) /\ a <= b /\ \A x \in a .. b : u[x] # "newline"
          /\ a = 1 \/ u[a - 1] = "newline"
          /\ b = Len(u) \/ u[b + 1] = "newline"
      BY <2>4 DEF a, b
    <2>7. Len(line) = b - a + 1 /\ \A x \in 1 .. Len(line) : line[x] = u[a + x - 1]
      <3>1. a \in Nat \ {0} /\ b \in Int /\ b <= Len(u)
        BY <2>3, <2>5
      <3>2. /\ Len(SubSeq(u, a, b)) = IF a <= b THEN b - a + 1 ELSE 0
            /\ \A x \in 1 .. Len(SubSeq(u, a, b)) : SubSeq(u, a, b)[x] = u[a + x - 1]
        BY <2>2, <3>1, PieceIs DEF u
      <3> QED
        BY <2>6, <3>2
    <2>8. CASE IsFolded(t)
      <3>1. FoldStart(t) \in ShortState
        BY <2>1, <2>8, ShortStarts
      <3>2. IF IsFolded(t) THEN \E s \in ShortState : Folded(s) /\ FoldHeader(t) = s.header
            ELSE FoldHeader(t) = t
        BY <2>2, <3>1, ShortStateLoops, FoldHeaderIs, Zenon
      <3>3. PICK s \in ShortState : Folded(s) /\ u = s.header
        BY <2>8, <3>2 DEF u
      <3>4. Settled(u, a, b)
        <4>1. /\ a \in 1 .. Len(s.header) /\ b \in 1 .. Len(s.header)
              /\ a <= b /\ (\A x \in a .. b : s.header[x] # "newline")
              /\ (a = 1 \/ s.header[a - 1] = "newline")
              /\ (b = Len(s.header) \/ s.header[b + 1] = "newline")
          BY <2>5, <2>6, <3>3
        <4>2. Settled(s.header, a, b)
          BY <3>3, <4>1, ShortLines
        <4> QED
          BY <3>3, <4>2
      <3>5. PICK x \in a + 1 .. a + MaxLen : x = a + k - 1
        <4>1. a + k - 1 \in a + 1 .. a + MaxLen
          BY <2>3, <2>5
        <4> QED
          BY <4>1
      <3>6. ~Spot(u, x)
        BY <2>7, <3>4 DEF Settled
      <3>7. k \in 1 .. Len(line) /\ k - 1 \in 1 .. Len(line) /\ a + (k - 1) - 1 = x - 1
        BY <2>3, <2>5, <2>7, <3>5
      <3>8. line[k] = u[x] /\ line[k - 1] = u[x - 1]
        BY <2>7, <3>5, <3>7
      <3> QED
        BY <3>6, <3>8 DEF Spot
    <2>9. CASE ~IsFolded(t)
      <3>1. u = t
        <4>1. Loops(FoldState) /\ (IsFolded(t) => FoldStart(t) \in FoldState)
          BY <2>9, FoldStateLoops
        <4>2. IF IsFolded(t) THEN \E s \in FoldState : Folded(s) /\ FoldHeader(t) = s.header
              ELSE FoldHeader(t) = t
          BY <2>2, <4>1, FoldHeaderIs, Zenon
        <4> QED
          BY <2>9, <4>2 DEF u
      <3>2. Len(t) <= MaxLen
        <4> DEFINE n == Len(h.name)
                   c == Min(Positions(t, "colon"))
        <4>1. /\ n \in Nat /\ Len(h.value) \in Nat /\ Len(t) = n + 2 + Len(h.value)
              /\ t[n + 1] = "colon" /\ t[n + 2] = "space"
          BY <2>1, HeaderTextIs
        <4> HIDE DEF n, t
        <4> DEFINE m == n + 1
                   v == Len(h.value)
        <4>a. /\ v \in Nat /\ n \in Nat /\ Len(t) \in Nat
              /\ m = n + 1 /\ Len(t) = n + 2 + v
          BY <2>3, <4>1
        <4>b. m \in 1 .. Len(t) /\ Len(t) = m + 1 + v /\ v \in Nat /\ m \in Nat /\ Len(t) \in Nat
          <5> HIDE DEF m, v
          <5> QED
            BY <4>a
        <4>c. DOMAIN t = 1 .. Len(t) /\ t[m] = "colon"
          BY <2>2, <4>1, TextIs
        <4> HIDE DEF m, v
        <4>2. m \in Positions(t, "colon")
          BY <4>b, <4>c DEF Positions
        <4>3. c \in 1 .. Len(t) /\ \A x \in 1 .. c - 1 : t[x] # "colon"
          BY <2>2, <4>2, FirstColon
        <4> HIDE DEF c
        <4>4. ~(c > m)
          <5> SUFFICES ASSUME c > m PROVE FALSE
            OBVIOUS
          <5>1. m \in 1 .. c - 1
            BY <4>b, <4>3
          <5> QED
            BY <4>c, <4>3, <5>1
        <4>5. ~(c + 1 > Len(t))
          BY <4>b, <4>3, <4>4
        <4> QED
          BY <2>9, <4>2, <4>5 DEF IsFolded, c
      <3> QED
        BY <2>3, <2>5, <2>7, <3>1, <3>2
    <2> QED
      BY <2>8, <2>9
  <1> QED
    BY <1>1, <1>2, <1>3, PTL DEF Spec

\* The text u is the text t, or an end of it, laid out on lines: at p it has
\* come to the character r[p] of t.  A line is broken between two characters
\* of which the second is a space.
Layout(u, r, t) ==
    /\ Len(u) >= 1 /\ r \in [1 .. Len(u) -> 1 .. Len(t)] /\ r[Len(u)] = Len(t)
    /\ u[1] # "newline"
    /\ \A p \in 1 .. Len(u) : u[p] # "newline" => u[p] = t[r[p]]
    /\ \A i, j \in 1 .. Len(u) :
          i <= j /\ (\A k \in i .. j : u[k] # "newline") => r[j] = r[i] + (j - i)
    /\ \A p \in 1 .. Len(u) :
          u[p] = "newline" => /\ p \in 2 .. Len(u) - 1
                              /\ u[p - 1] # "newline" /\ u[p + 1] = "space"
                              /\ r[p] = r[p - 1] /\ r[p + 1] = r[p] + 1

\* A text is a layout of itself.
LEMMA SameLayout ==
    ASSUME NEW t \in Text, IsLine(t), Len(t) >= 1
    PROVE  Layout(t, [p \in 1 .. Len(t) |-> p], t)
  BY TextIs DEF Layout, IsLine

\* Lines are broken at more places.
LEMMA LayoutBroken ==
    ASSUME NEW u \in Text, NEW t \in Text, NEW r, Layout(u, r, t),
           NEW f \in 2 .. Len(u), u[f] = "space", u[f - 1] # "newline"
    PROVE  LET v == InsertAt(u, f, "newline")
               q == [p \in 1 .. Len(v) |-> IF p < f THEN r[p] ELSE r[p - 1]]
           IN  Layout(v, q, t)
  <1> DEFINE v == InsertAt(u, f, "newline")
             q == [p \in 1 .. Len(v) |-> IF p < f THEN r[p] ELSE r[p - 1]]
  <1>1. Len(u) \in Nat /\ Len(t) \in Nat
    BY TextIs
  <1>2. /\ v \in Text /\ Len(v) = Len(u) + 1 /\ v[f] = "newline"
        /\ \A j \in 1 .. f - 1 : v[j] = u[j]
        /\ \A j \in f .. Len(u) : v[j + 1] = u[j]
    <2>1. "newline" \in Symbol /\ f \in 1 .. Len(u) + 1
      BY <1>1 DEF Symbol
    <2> QED
      BY <2>1, InsertIs
  <1>3. r \in [1 .. Len(u) -> 1 .. Len(t)] /\ r[Len(u)] = Len(t)
    BY DEF Layout
  <1>4. /\ \A p \in 1 .. f - 1 : q[p] = r[p]
        /\ \A p \in f .. Len(u) + 1 : q[p] = r[p - 1]
    BY <1>1, <1>2
  <1>5. q \in [1 .. Len(u) + 1 -> 1 .. Len(t)]
    <2>1. \A p \in 1 .. Len(u) + 1 : IF p < f THEN p \in 1 .. Len(u) ELSE p - 1 \in 1 .. Len(u)
      BY <1>1
    <2> QED
      BY <1>2, <1>3, <2>1
  <1> HIDE DEF v, q
  <1>a. \A j \in f + 1 .. Len(u) + 1 : v[j] = u[j - 1]
    <2> SUFFICES ASSUME NEW j \in f + 1 .. Len(u) + 1 PROVE v[j] = u[j - 1]
      OBVIOUS
    <2>1. PICK k \in f .. Len(u) : j = k + 1
      <3>1. j - 1 \in f .. Len(u) /\ j = (j - 1) + 1
        BY <1>1
      <3> QED
        BY <3>1
    <2>2. v[k + 1] = u[k] /\ j - 1 = k
      BY <1>1, <1>2, <2>1
    <2> QED
      BY <2>1, <2>2
  <1>b. r[f] = r[f - 1] + 1
    <2>1. f - 1 \in 1 .. Len(u) /\ f \in 1 .. Len(u) /\ f - 1 <= f /\ f - (f - 1) = 1
      BY <1>1
    <2>2. \A k \in f - 1 .. f : u[k] # "newline"
      BY <1>1
    <2> QED
      BY <2>1, <2>2 DEF Layout
  <1>6. q[Len(v)] = Len(t)
    BY <1>1, <1>2, <1>3, <1>4
  <1>7. v[1] # "newline"
    BY <1>1, <1>2 DEF Layout
  <1>8. ASSUME NEW p \in 1 .. Len(v), v[p] # "newline" PROVE v[p] = t[q[p]]
    <2>1. CASE p < f
      <3>1. p \in 1 .. Len(u) /\ p \in 1 .. f - 1
        BY <1>1, <1>2, <2>1
      <3>2. v[p] = u[p] /\ q[p] = r[p]
        BY <1>2, <1>4, <3>1
      <3> QED
        BY <1>8, <3>1, <3>2 DEF Layout
    <2>2. CASE p > f
      <3>1. p - 1 \in 1 .. Len(u) /\ p \in f + 1 .. Len(u) + 1 /\ p \in f .. Len(u) + 1
        BY <1>1, <1>2, <2>2
      <3>2. v[p] = u[p - 1] /\ q[p] = r[p - 1]
        BY <1>4, <1>a, <3>1
      <3> QED
        BY <1>8, <3>1, <3>2 DEF Layout
    <2> QED
      BY <1>1, <1>2, <1>8, <2>1, <2>2
  <1>9. ASSUME NEW i \in 1 .. Len(v), NEW j \in 1 .. Len(v), i <= j,
               \A k \in i .. j : v[k] # "newline"
        PROVE  q[j] = q[i] + (j - i)
    <2>1. j < f \/ i > f
      BY <1>1, <1>2, <1>9
    <2>2. CASE j < f
      <3>1. i \in 1 .. f - 1 /\ j \in 1 .. f - 1 /\ i \in 1 .. Len(u) /\ j \in 1 .. Len(u)
        BY <1>1, <1>2, <1>9, <2>2
      <3>2. \A k \in i .. j : u[k] # "newline"
        BY <1>1, <1>2, <1>9, <3>1
      <3>3. r[j] = r[i] + (j - i)
        BY <1>9, <3>1, <3>2 DEF Layout
      <3> QED
        BY <1>4, <3>1, <3>3
    <2>3. CASE i > f
      <3>1. PICK x \in 1 .. Len(u), y \in 1 .. Len(u) : i = x + 1 /\ j = y + 1 /\ x <= y /\ x >= f
        <4>1. i - 1 \in 1 .. Len(u) /\ j - 1 \in 1 .. Len(u) /\ i - 1 <= j - 1 /\ i - 1 >= f
              /\ i = (i - 1) + 1 /\ j = (j - 1) + 1
          BY <1>1, <1>2, <1>9, <2>3
        <4> QED
          BY <4>1
      <3>2. ASSUME NEW k \in x .. y PROVE u[k] # "newline"
        <4>1. k \in f .. Len(u) /\ k + 1 \in i .. j
          BY <1>1, <3>1
        <4> QED
          BY <1>2, <1>9, <4>1
      <3>3. r[y] = r[x] + (y - x)
        BY <3>1, <3>2 DEF Layout
      <3>4. i \in f .. Len(u) + 1 /\ j \in f .. Len(u) + 1 /\ i - 1 = x /\ j - 1 = y
            /\ y - x = j - i
        BY <1>1, <3>1
      <3>5. q[i] = r[x] /\ q[j] = r[y]
        BY <1>4, <3>4
      <3> QED
        BY <3>3, <3>4, <3>5
    <2> QED
      BY <2>1, <2>2, <2>3
  <1>10. ASSUME NEW p \in 1 .. Len(v), v[p] = "newline"
         PROVE  /\ p \in 2 .. Len(v) - 1
                /\ v[p - 1] # "newline" /\ v[p + 1] = "space"
                /\ q[p] = q[p - 1] /\ q[p + 1] = q[p] + 1
    <2>1. CASE p = f
      <3>1. f - 1 \in 1 .. f - 1 /\ f \in f .. Len(u) /\ f + 1 \in f + 1 .. Len(u) + 1
            /\ f \in f .. Len(u) + 1 /\ f + 1 \in f .. Len(u) + 1 /\ (f + 1) - 1 = f
        BY <1>1
      <3>2. v[f - 1] = u[f - 1] /\ v[f + 1] = u[f] /\ q[f] = r[f - 1] /\ q[f - 1] = r[f - 1]
            /\ q[f + 1] = r[f]
        BY <1>2, <1>4, <1>a, <3>1
      <3>3. p \in 2 .. Len(v) - 1
        BY <1>1, <1>2, <2>1
      <3> QED
        BY <1>b, <2>1, <3>2, <3>3
    <2>2. CASE p < f
      <3>1. p \in 1 .. f - 1 /\ p \in 1 .. Len(u)
        BY <1>1, <1>2, <2>2
      <3>2. u[p] = "newline"
        BY <1>2, <1>10, <3>1
      <3>3. /\ p \in 2 .. Len(u) - 1
            /\ u[p - 1] # "newline" /\ u[p + 1] = "space"
            /\ r[p] = r[p - 1] /\ r[p + 1] = r[p] + 1
        BY <3>1, <3>2 DEF Layout
      <3>4. p # f - 1
        BY <3>2
      <3>5. p - 1 \in 1 .. f - 1 /\ p + 1 \in 1 .. f - 1 /\ p \in 2 .. Len(v) - 1
        BY <1>1, <1>2, <3>1, <3>3, <3>4
      <3> QED
        BY <1>2, <1>4, <3>1, <3>3, <3>5
    <2>3. CASE p > f
      <3>1. PICK x \in 1 .. Len(u) : p = x + 1 /\ x >= f
        <4>1. p - 1 \in 1 .. Len(u) /\ p - 1 >= f /\ p = (p - 1) + 1
          BY <1>1, <1>2, <2>3
        <4> QED
          BY <4>1
      <3>2. p \in f + 1 .. Len(u) + 1 /\ p - 1 = x /\ p \in f .. Len(u) + 1
        BY <1>1, <3>1
      <3>3. u[x] = "newline"
        BY <1>10, <1>a, <3>2
      <3>4. /\ x \in 2 .. Len(u) - 1
            /\ u[x - 1] # "newline" /\ u[x + 1] = "space"
            /\ r[x] = r[x - 1] /\ r[x + 1] = r[x] + 1
        BY <3>3 DEF Layout
      <3>5. x > f
        BY <3>1, <3>3
      <3>6. /\ x \in f + 1 .. Len(u) + 1 /\ x \in f .. Len(u) + 1
            /\ p + 1 \in f + 1 .. Len(u) + 1 /\ p + 1 \in f .. Len(u) + 1
            /\ (p + 1) - 1 = x + 1 /\ p \in 2 .. Len(v) - 1
        BY <1>1, <1>2, <3>1, <3>4, <3>5
      <3>7. v[p - 1] = u[x - 1] /\ v[p + 1] = u[x + 1]
        BY <1>a, <3>2, <3>6
      <3>8. q[p] = r[x] /\ q[p - 1] = r[x - 1] /\ q[p + 1] = r[x + 1]
        BY <1>4, <3>2, <3>6
      <3> QED
        BY <3>4, <3>6, <3>7, <3>8
    <2> QED
      BY <1>1, <1>2, <2>1, <2>2, <2>3
  <1>11. Layout(v, q, t)
    BY <1>1, <1>2, <1>5, <1>6, <1>7, <1>8, <1>9, <1>10 DEF Layout
  <1> QED
    BY <1>11 DEF v, q

\* An end of a layout that does not begin with a line break is one.
LEMMA LayoutEnd ==
    ASSUME NEW u \in Text, NEW t \in Text, NEW r, Layout(u, r, t),
           NEW b \in 1 .. Len(u), u[b] # "newline"
    PROVE  LET v == SubSeq(u, b, Len(u))
           IN  Layout(v, [p \in 1 .. Len(v) |-> r[b + p - 1]], t)
  <1> DEFINE v == SubSeq(u, b, Len(u))
             q == [p \in 1 .. Len(v) |-> r[b + p - 1]]
  <1>1. Len(u) \in Nat /\ Len(t) \in Nat /\ b \in Nat \ {0} /\ Len(u) \in Int
    BY TextIs
  <1>2. v \in Text /\ Len(v) = Len(u) - b + 1 /\ \A p \in 1 .. Len(v) : v[p] = u[b + p - 1]
    BY <1>1, PieceIs
  <1>3. r \in [1 .. Len(u) -> 1 .. Len(t)] /\ r[Len(u)] = Len(t)
    BY DEF Layout
  <1>4. \A p \in 1 .. Len(v) : b + p - 1 \in 1 .. Len(u)
    BY <1>1, <1>2
  <1>5. q \in [1 .. Len(v) -> 1 .. Len(t)] /\ \A p \in 1 .. Len(v) : q[p] = r[b + p - 1]
    BY <1>3, <1>4
  <1> HIDE DEF v, q
  <1>6. Len(v) >= 1 /\ 1 \in 1 .. Len(v) /\ Len(v) \in 1 .. Len(v) /\ b + 1 - 1 = b
        /\ b + Len(v) - 1 = Len(u)
    BY <1>1, <1>2
  <1>7. q[Len(v)] = Len(t) /\ v[1] # "newline"
    BY <1>2, <1>3, <1>5, <1>6
  <1>8. ASSUME NEW p \in 1 .. Len(v), v[p] # "newline" PROVE v[p] = t[q[p]]
    <2>1. PICK x \in 1 .. Len(u) : x = b + p - 1
      BY <1>4
    <2>2. v[p] = u[x] /\ q[p] = r[x]
      BY <1>2, <1>5, <2>1
    <2> QED
      BY <1>8, <2>2 DEF Layout
  <1>9. ASSUME NEW i \in 1 .. Len(v), NEW j \in 1 .. Len(v), i <= j,
               \A k \in i .. j : v[k] # "newline"
        PROVE  q[j] = q[i] + (j - i)
    <2>1. PICK x \in 1 .. Len(u), y \in 1 .. Len(u) : x = b + i - 1 /\ y = b + j - 1
      BY <1>4
    <2>2. ASSUME NEW k \in x .. y PROVE u[k] # "newline"
      <3>1. PICK m \in i .. j : k = b + m - 1
        <4>1. k - b + 1 \in i .. j /\ k = b + (k - b + 1) - 1
          BY <1>1, <1>2, <2>1
        <4> QED
          BY <4>1
      <3>2. m \in 1 .. Len(v)
        BY <1>1, <1>2
      <3> QED
        BY <1>2, <1>9, <3>1, <3>2
    <2>3. x <= y /\ y - x = j - i
      BY <1>1, <1>2, <1>9, <2>1
    <2>4. r[y] = r[x] + (y - x)
      BY <2>2, <2>3 DEF Layout
    <2>5. q[i] = r[x] /\ q[j] = r[y]
      BY <1>5, <2>1
    <2> QED
      BY <2>3, <2>4, <2>5
  <1>10. ASSUME NEW p \in 1 .. Len(v), v[p] = "newline"
         PROVE  /\ p \in 2 .. Len(v) - 1
                /\ v[p - 1] # "newline" /\ v[p + 1] = "space"
                /\ q[p] = q[p - 1] /\ q[p + 1] = q[p] + 1
    <2>1. PICK x \in 1 .. Len(u) : x = b + p - 1
      BY <1>4
    <2>2. u[x] = "newline"
      BY <1>2, <1>10, <2>1
    <2>3. /\ x \in 2 .. Len(u) - 1
          /\ u[x - 1] # "newline" /\ u[x + 1] = "space"
          /\ r[x] = r[x - 1] /\ r[x + 1] = r[x] + 1
      BY <2>2 DEF Layout
    <2>4. p # 1
      BY <1>7, <1>10
    <2>5. /\ p \in 2 .. Len(v) - 1 /\ p - 1 \in 1 .. Len(v) /\ p + 1 \in 1 .. Len(v)
          /\ b + (p - 1) - 1 = x - 1 /\ b + (p + 1) - 1 = x + 1
      BY <1>1, <1>2, <2>1, <2>3, <2>4
    <2>6. v[p - 1] = u[x - 1] /\ v[p + 1] = u[x + 1]
      BY <1>2, <2>5
    <2>7. q[p] = r[x] /\ q[p - 1] = r[x - 1] /\ q[p + 1] = r[x + 1]
      BY <1>5, <2>1, <2>5
    <2> QED
      BY <2>3, <2>5, <2>6, <2>7
  <1>11. Layout(v, q, t)
    BY <1>5, <1>6, <1>7, <1>8, <1>9, <1>10 DEF Layout
  <1> QED
    BY <1>11 DEF v, q

\* A piece of a layout without line breaks is a piece of the text.
LEMMA LayoutPiece ==
    ASSUME NEW u \in Text, NEW t \in Text, NEW r, Layout(u, r, t),
           NEW a \in 1 .. Len(u), NEW b \in 1 .. Len(u), a <= b,
           \A i \in a .. b : u[i] # "newline"
    PROVE  SubSeq(u, a, b) = SubSeq(t, r[a], r[b])
  <1>1. Len(u) \in Nat /\ Len(t) \in Nat /\ a \in Nat \ {0} /\ b \in Int /\ b <= Len(u)
    BY TextIs
  <1>2. r \in [1 .. Len(u) -> 1 .. Len(t)]
    BY DEF Layout
  <1>3. PICK x \in 1 .. Len(t), y \in 1 .. Len(t) : x = r[a] /\ y = r[b]
    BY <1>2
  <1>4. y = x + (b - a)
    BY <1>3 DEF Layout
  <1> DEFINE v == SubSeq(u, a, b)
             w == SubSeq(t, x, y)
  <1>5. v \in Text /\ Len(v) = b - a + 1 /\ \A i \in 1 .. Len(v) : v[i] = u[a + i - 1]
    BY <1>1, PieceIs
  <1>6. w \in Text /\ Len(w) = y - x + 1 /\ \A i \in 1 .. Len(w) : w[i] = t[x + i - 1]
    <2>1. x \in Nat \ {0} /\ y \in Int /\ y <= Len(t) /\ x <= y
      BY <1>1, <1>4
    <2> QED
      BY <2>1, PieceIs
  <1> HIDE DEF v, w
  <1>7. ASSUME NEW i \in 1 .. Len(v) PROVE v[i] = w[i]
    <2>1. PICK k \in a .. b : k = a + i - 1
      <3>1. a + i - 1 \in a .. b
        BY <1>1, <1>5
      <3> QED
        BY <3>1
    <2>2. k \in 1 .. Len(u) /\ a <= k /\ \A m \in a .. k : u[m] # "newline"
      BY <1>1, <2>1
    <2>3. r[k] = x + (k - a) /\ u[k] # "newline"
      BY <1>3, <2>2 DEF Layout
    <2>4. u[k] = t[r[k]]
      BY <2>2, <2>3 DEF Layout
    <2>5. i \in 1 .. Len(w) /\ x + (k - a) = x + i - 1
      BY <1>1, <1>4, <1>5, <1>6, <2>1
    <2>6. w[i] = t[x + i - 1] /\ v[i] = u[k]
      BY <1>5, <1>6, <2>1, <2>5
    <2> QED
      BY <2>3, <2>4, <2>5, <2>6
  <1>8. Len(v) = Len(w)
    BY <1>1, <1>4, <1>5, <1>6
  <1>9. v = w
    BY <1>5, <1>6, <1>7, <1>8, SameText
  <1> QED
    BY <1>3, <1>9 DEF v, w

LEMMA LayoutRest ==
    ASSUME NEW u \in Text, NEW t \in Text, NEW r, Layout(u, r, t),
           NEW a \in 1 .. Len(u), \A i \in a .. Len(u) : u[i] # "newline"
    PROVE  SubSeq(u, a, Len(u)) = SubSeq(t, r[a], Len(t))
  <1>1. Len(u) \in 1 .. Len(u) /\ a <= Len(u)
    BY TextIs
  <1>2. r[Len(u)] = Len(t)
    BY DEF Layout
  <1>3. SubSeq(u, a, Len(u)) = SubSeq(t, r[a], r[Len(u)])
    BY <1>1, LayoutPiece, ZenonT(30)
  <1> QED
    BY <1>2, <1>3

\* From m on a text has words with single spaces between them, of which the
\* last has more than one character when it is not the only one.
WordsFrom(t, m) ==
    /\ m \in 1 .. Len(t) /\ t[m] # "space" /\ t[Len(t)] # "space"
    /\ m < Len(t) => t[Len(t) - 1] # "space"
    /\ \A k \in m .. Len(t) : t[k] # "newline" /\ t[k] # "return"
    /\ \A k \in m .. Len(t) - 1 : t[k] # "space" \/ t[k + 1] # "space"

\* Where the text before and after a fold ends and begins: it is a line break
\* and a space.
LEMMA FoldIsBreak ==
    ASSUME NEW h \in Text, NEW t \in Text, NEW r, Layout(h, r, t), WordsFrom(t, r[1]),
           NEW pos \in 1 .. Len(h), h[pos] # "newline",
           NEW mid, NEW b, NEW e, FoldAt(h, pos, mid, b, e)
    PROVE  /\ mid \in pos + 1 .. Len(h) - 2 /\ b = mid - 1 /\ e = mid + 2
           /\ h[e] # "newline" /\ h[e] # "space" /\ e < Len(h)
           /\ r[e] = r[b] + 2 /\ t[r[b] + 1] = "space" /\ \A i \in pos .. b : h[i] # "newline"
  <1>1. /\ Len(h) \in Nat /\ Len(t) \in Nat
        /\ \A i \in 1 .. Len(h) : r[i] \in 1 .. Len(t)
    BY TextIs DEF Layout
  <1>2. /\ mid \in pos .. Len(h) /\ h[mid] = "newline"
        /\ \A i \in pos .. mid - 1 : h[i] # "newline"
        /\ b \in 0 .. mid - 1 /\ (b # 0 => h[b] \notin Space)
        /\ \A i \in b + 1 .. mid - 1 : h[i] \in Space
        /\ e \in mid + 1 .. Len(h) + 1
        /\ \A i \in mid + 1 .. e - 1 : Gone(h, i)
        /\ e <= Len(h) => ~Gone(h, e)
    BY DEF FoldAt
  <1>3. /\ mid \in 2 .. Len(h) - 1
        /\ h[mid - 1] # "newline" /\ h[mid + 1] = "space"
        /\ r[mid] = r[mid - 1] /\ r[mid + 1] = r[mid] + 1
    BY <1>1, <1>2, SMTT(30) DEF Layout
  \* What is behind the first character of the words.
  <1>4. \A i \in 1 .. Len(h) : r[i] \in r[1] .. Len(t)
    <2> DEFINE S == {n \in Nat : n + 1 <= Len(h) => r[n + 1] >= r[1]}
    <2>1. 0 \in S
      BY <1>1
    <2>2. ASSUME NEW n \in S PROVE n + 1 \in S
      <3> SUFFICES ASSUME (n + 1) + 1 <= Len(h) PROVE r[(n + 1) + 1] >= r[1]
        OBVIOUS
      <3>1. PICK x \in 2 .. Len(h) : x = (n + 1) + 1 /\ x - 1 = n + 1
        <4>1. (n + 1) + 1 \in 2 .. Len(h) /\ ((n + 1) + 1) - 1 = n + 1
          BY <1>1
        <4> QED
          BY <4>1
      <3>2. r[x - 1] >= r[1] /\ x \in 1 .. Len(h) /\ x - 1 \in 1 .. Len(h) /\ x - 1 <= x
            /\ x - (x - 1) = 1 /\ (x - 1) + 1 = x
        BY <1>1, <3>1
      <3>3. CASE h[x] = "newline"
        <4>1. r[x] = r[x - 1]
          BY <3>2, <3>3 DEF Layout
        <4> QED
          BY <3>1, <3>2, <4>1
      <3>4. CASE h[x] # "newline"
        <4>1. r[x] = r[x - 1] + 1
          <5>1. CASE h[x - 1] = "newline"
            BY <3>2, <5>1 DEF Layout
          <5>2. CASE h[x - 1] # "newline"
            <6>1. \A k \in x - 1 .. x : h[k] # "newline"
              BY <3>2, <3>4, <5>2
            <6> QED
              BY <3>2, <6>1 DEF Layout
          <5> QED
            BY <5>1, <5>2
        <4>2. r[x - 1] \in Nat /\ r[1] \in Nat
          BY <1>1, <3>2
        <4> QED
          BY <3>1, <3>2, <4>1, <4>2
      <3> QED
        BY <3>3, <3>4
    <2>3. S = Nat
      <3> HIDE DEF S
      <3>1. S \in SUBSET Nat
        BY DEF S
      <3> QED
        BY <2>1, <2>2, <3>1, SetInduction
    <2> SUFFICES ASSUME NEW i \in 1 .. Len(h) PROVE r[i] >= r[1]
      BY <1>1
    <2>4. PICK n \in Nat : i = n + 1
      <3>1. i - 1 \in Nat /\ i = (i - 1) + 1
        BY <1>1
      <3> QED
        BY <3>1
    <2>5. n \in S
      BY <2>3
    <2>6. n + 1 <= Len(h) => r[n + 1] >= r[1]
      BY <2>5
    <2> HIDE DEF S
    <2> QED
      BY <2>4, <2>6
  <1>w. /\ \A k \in r[1] .. Len(t) : t[k] # "newline" /\ t[k] # "return"
        /\ \A k \in r[1] .. Len(t) - 1 : t[k] # "space" \/ t[k + 1] # "space"
        /\ t[Len(t)] # "space" /\ r[1] \in 1 .. Len(t)
        /\ r[1] < Len(t) => t[Len(t) - 1] # "space"
    BY DEF WordsFrom
  <1>l. \A p \in 1 .. Len(h) : h[p] # "newline" => h[p] = t[r[p]]
    BY DEF Layout
  <1>5. PICK x \in r[1] .. Len(t) : x = r[mid - 1]
    BY <1>1, <1>3, <1>4
  <1>6. t[x + 1] = "space" /\ r[mid + 1] = x + 1 /\ x + 1 \in r[1] .. Len(t) /\ h[mid - 1] = t[x]
    <2>1. mid - 1 \in 1 .. Len(h) /\ mid + 1 \in 1 .. Len(h)
      BY <1>1, <1>3
    <2>2. h[mid + 1] = t[r[mid + 1]] /\ h[mid - 1] = t[r[mid - 1]]
      BY <1>3, <1>l, <2>1
    <2>3. r[mid + 1] = x + 1
      BY <1>3, <1>5
    <2> QED
      BY <1>3, <1>4, <1>5, <2>1, <2>2, <2>3
  <1>7. h[mid - 1] \notin Space
    <2>1. x \in r[1] .. Len(t) - 1
      BY <1>1, <1>5, <1>6, <1>w
    <2>2. t[x] # "space" /\ t[x] # "newline" /\ t[x] # "return"
      BY <1>6, <1>w, <2>1
    <2> QED
      BY <1>6, <2>2 DEF Space
  <1>8. b = mid - 1
    <2> SUFFICES ASSUME b # mid - 1 PROVE FALSE
      OBVIOUS
    <2>1. mid - 1 \in b + 1 .. mid - 1
      BY <1>1, <1>2
    <2> QED
      BY <1>2, <1>7, <2>1
  <1>9. x + 1 # Len(t)
    BY <1>6, <1>w
  <1>10. mid + 1 # Len(h)
    <2>1. r[Len(h)] = Len(t)
      BY DEF Layout
    <2> QED
      BY <1>6, <1>9, <2>1
  <1>11. mid + 2 \in 1 .. Len(h) /\ mid + 1 \in 1 .. Len(h)
    BY <1>1, <1>3, <1>10
  <1>12. h[mid + 2] # "newline"
    <2> SUFFICES ASSUME h[mid + 2] = "newline" PROVE FALSE
      OBVIOUS
    <2>1. PICK y \in 1 .. Len(h) : y = mid + 2
      BY <1>11
    <2>2. /\ y \in 2 .. Len(h) - 1 /\ h[y + 1] = "space"
          /\ r[y] = r[y - 1] /\ r[y + 1] = r[y] + 1
      BY <2>1 DEF Layout
    <2>3. y - 1 = mid + 1 /\ y + 1 \in 1 .. Len(h)
      BY <1>1, <1>3, <2>1, <2>2
    <2>4. r[y + 1] = x + 1 + 1
      BY <1>6, <2>2, <2>3
    <2>5. h[y + 1] = t[x + 1 + 1]
      BY <1>l, <2>2, <2>3, <2>4
    <2>6. x + 1 \in r[1] .. Len(t) - 1
      BY <1>1, <1>6, <1>9, <1>w
    <2> QED
      BY <1>6, <1>w, <2>2, <2>5, <2>6
  <1>13. r[mid + 2] = x + 2
    <2>1. mid + 1 <= mid + 2 /\ (mid + 2) - (mid + 1) = 1 /\ \A k \in mid + 1 .. mid + 2 : k = mid + 1 \/ k = mid + 2
      BY <1>1, <1>3
    <2>2. \A k \in mid + 1 .. mid + 2 : h[k] # "newline"
      BY <1>3, <1>12, <2>1
    <2>3. r[mid + 2] = r[mid + 1] + ((mid + 2) - (mid + 1))
      BY <1>11, <2>1, <2>2 DEF Layout
    <2> QED
      BY <1>5, <1>6, <2>1, <2>3
  <1>14. h[mid + 2] \notin Space /\ h[mid + 1] # "newline"
    <2>1. x + 1 \in r[1] .. Len(t) - 1 /\ x + 2 \in r[1] .. Len(t) /\ x + 2 = (x + 1) + 1
      BY <1>1, <1>6, <1>9, <1>w
    <2>2. h[mid + 2] = t[x + 2]
      BY <1>l, <1>11, <1>12, <1>13
    <2>3. t[x + 2] # "space" /\ t[x + 2] # "newline" /\ t[x + 2] # "return"
      BY <1>6, <1>w, <2>1
    <2> QED
      BY <1>3, <2>2, <2>3 DEF Space
  <1>15. ~Gone(h, mid + 2) /\ Gone(h, mid + 1)
    <2>1. (mid + 2) - 1 = mid + 1
      BY <1>1, <1>3
    <2> QED
      BY <1>3, <1>14, <2>1 DEF Gone, Space
  <1>16. e = mid + 2
    <2>1. e # mid + 1
      BY <1>2, <1>11, <1>15
    <2>2. ~(e > mid + 2)
      <3> SUFFICES ASSUME e > mid + 2 PROVE FALSE
        OBVIOUS
      <3>1. mid + 2 \in mid + 1 .. e - 1
        BY <1>1, <1>2
      <3> QED
        BY <1>2, <1>15, <3>1
    <2> QED
      BY <1>1, <1>2, <2>1, <2>2
  <1>17. mid + 2 # Len(h)
    <2>1. r[Len(h)] = Len(t)
      BY DEF Layout
    <2> SUFFICES ASSUME mid + 2 = Len(h) PROVE FALSE
      OBVIOUS
    <2>2. x + 1 = Len(t) - 1 /\ r[1] < Len(t)
      BY <1>1, <1>5, <1>13, <1>w, <2>1
    <2> QED
      BY <1>6, <1>w, <2>2
  <1>18. mid # pos
    BY <1>2
  <1>19. mid \in pos + 1 .. Len(h) - 2
    BY <1>1, <1>2, <1>11, <1>18
  <1>20. e < Len(h) /\ h[e] # "newline" /\ h[e] # "space"
    BY <1>1, <1>11, <1>12, <1>14, <1>16, <1>17 DEF Space
  <1>21. r[e] = r[b] + 2 /\ t[r[b] + 1] = "space"
    BY <1>5, <1>6, <1>8, <1>13, <1>16
  <1> QED
    BY <1>2, <1>8, <1>16, <1>19, <1>20, <1>21

\* The two sides of a space.
LEMMA JoinedBySpace ==
    ASSUME NEW t \in Text, NEW x \in Nat \ {0}, NEW y \in Nat, x <= y, NEW z \in Nat, z = y + 2,
           z <= Len(t), t[y + 1] = "space"
    PROVE  SubSeq(t, x, y) \o <<"space">> \o SubSeq(t, z, Len(t)) = SubSeq(t, x, Len(t))
  <1> DEFINE A == SubSeq(t, x, y)
             B == SubSeq(t, z, Len(t))
             C == SubSeq(t, x, Len(t))
             S == A \o <<"space">>
  <1>1. Len(t) \in Nat /\ Len(t) \in Int /\ y \in Int /\ y <= Len(t) /\ z \in Nat \ {0}
        /\ x <= Len(t)
    BY TextIs
  <1>2. A \in Text /\ Len(A) = y - x + 1 /\ \A i \in 1 .. Len(A) : A[i] = t[x + i - 1]
    BY <1>1, PieceIs
  <1>3. B \in Text /\ Len(B) = Len(t) - z + 1 /\ \A i \in 1 .. Len(B) : B[i] = t[z + i - 1]
    BY <1>1, PieceIs
  <1>4. C \in Text /\ Len(C) = Len(t) - x + 1 /\ \A i \in 1 .. Len(C) : C[i] = t[x + i - 1]
    BY <1>1, PieceIs
  <1>5. S \in Text /\ Len(S) = Len(A) + 1 /\ S[Len(A) + 1] = "space"
        /\ \A i \in 1 .. Len(A) : S[i] = A[i]
    <2>1. "space" \in Symbol
      BY DEF Symbol
    <2>2. <<"space">> \in Text /\ Len(<<"space">>) = 1 /\ <<"space">>[1] = "space"
      BY <2>1, OneCharacter
    <2> HIDE DEF A
    <2>3. 1 \in 1 .. Len(<<"space">>)
      BY <2>2
    <2> DEFINE P == <<"space">>
    <2> HIDE DEF P
    <2>4. /\ A \o P \in Text /\ Len(A \o P) = Len(A) + Len(P)
          /\ \A i \in 1 .. Len(A) : (A \o P)[i] = A[i]
          /\ \A i \in 1 .. Len(P) : (A \o P)[Len(A) + i] = P[i]
      BY <1>2, <2>2, JoinIs DEF P
    <2> QED
      BY <2>2, <2>3, <2>4 DEF P
  <1> HIDE DEF A, B, C, S
  <1> DEFINE k == Len(A)
             l == Len(B)
             m == Len(S)
             n == Len(C)
             o == Len(t)
  <1>6. k \in Nat /\ l \in Nat /\ m \in Nat /\ n \in Nat
    BY <1>2, <1>3, <1>4, <1>5, TextIs
  <1>7. k = y - x + 1 /\ l = o - z + 1 /\ n = o - x + 1 /\ m = k + 1 /\ o \in Nat
    BY <1>1, <1>2, <1>3, <1>4, <1>5
  <1>8. ASSUME NEW i \in 1 .. m PROVE C[i] = S[i]
    <2>1. /\ i \in 1 .. n /\ (i = k + 1 => x + i - 1 = y + 1) /\ (i # k + 1 => i \in 1 .. k)
      <3> HIDE DEF k, l, m, n, o
      <3> QED
        BY <1>1, <1>6, <1>7
    <2>2. C[i] = t[x + i - 1]
      BY <1>4, <2>1
    <2>3. CASE i = k + 1
      BY <1>5, <2>1, <2>2, <2>3
    <2>4. CASE i # k + 1
      <3>1. i \in 1 .. Len(A)
        BY <2>1, <2>4
      <3> QED
        BY <1>2, <1>5, <2>2, <3>1
    <2> QED
      BY <2>3, <2>4
  <1>9. ASSUME NEW i \in 1 .. l PROVE C[m + i] = B[i]
    <2>1. m + i \in 1 .. n /\ x + (m + i) - 1 = z + i - 1
      <3> HIDE DEF k, l, m, n, o
      <3> QED
        BY <1>1, <1>6, <1>7
    <2>2. C[m + i] = t[x + (m + i) - 1]
      BY <1>4, <2>1
    <2>3. B[i] = t[z + i - 1]
      BY <1>3
    <2> QED
      BY <2>1, <2>2, <2>3
  <1>10. n = m + l
    <2> HIDE DEF k, l, m, n, o
    <2> QED
      BY <1>6, <1>7
  <1>11. C = S \o B
    BY <1>3, <1>4, <1>5, <1>8, <1>9, <1>10, JoinSame
  <1> QED
    BY <1>11 DEF A, B, C, S

\* Unfolding a layout gives the text.
LEMMA LayoutUnfolds ==
    ASSUME NEW h \in Text, NEW t \in Text, NEW r, Layout(h, r, t), WordsFrom(t, r[1])
    PROVE  UnfoldHeader(h) = SubSeq(t, r[1], Len(t))
  <1> DEFINE D == Nat \ {0}
             Stop == {pos \in D : Folds(h, pos) = {}}
             next == [pos \in D |-> RestBegin(h, pos)]
             m == [pos \in D |-> IF pos <= Len(h) THEN Len(h) + 1 - pos ELSE 0]
  <1>0. Ends(D, Stop, next, m)
    BY UnfoldingEnds
  <1>1. PICK u : Unfolds(h, u) /\ UnfoldHeader(h) = u[1]
    BY UnfoldHeaderIs
  <1>2. /\ Len(h) \in Nat /\ Len(t) \in Nat /\ DOMAIN h = 1 .. Len(h)
        /\ \A i \in 1 .. Len(h) : r[i] \in 1 .. Len(t)
        /\ r[Len(h)] = Len(t) /\ Len(h) \in 1 .. Len(h)
    <2>1. Len(h) \in Nat /\ Len(t) \in Nat /\ DOMAIN h = 1 .. Len(h)
      BY TextIs
    <2>2. r \in [1 .. Len(h) -> 1 .. Len(t)] /\ r[Len(h)] = Len(t) /\ Len(h) >= 1
      BY DEF Layout
    <2> QED
      BY <2>1, <2>2
  <1> DEFINE U == {pos \in D : pos <= Len(h) /\ h[pos] # "newline" /\ h[pos] # "space" =>
                                  u[pos] = SubSeq(t, r[pos], Len(t))}
  <1>3. Inherits(U, D, Stop, next)
    <2> SUFFICES ASSUME NEW pos \in D, pos \in Stop \/ next[pos] \in U,
                        pos <= Len(h), h[pos] # "newline", h[pos] # "space"
                 PROVE  u[pos] = SubSeq(t, r[pos], Len(t))
      BY DEF Inherits
    <2>0. pos \in 1 .. Len(h)
      BY <1>2
    <2>1. CASE Folds(h, pos) = {}
      <3>1. u[pos] = SubSeq(h, pos, Len(h))
        BY <1>1, <2>1 DEF Unfolds
      <3>2. \A i \in pos .. Len(h) : h[i] # "newline"
        BY <1>2, <2>1 DEF Folds, Positions
      <3>3. SubSeq(h, pos, Len(h)) = SubSeq(t, r[pos], r[Len(h)])
        <4>1. Len(h) \in 1 .. Len(h) /\ pos <= Len(h)
          BY <1>2
        <4> HIDE DEF D, Stop, next, m, U
        <4> QED
          BY <2>0, <3>2, <4>1, LayoutPiece, ZenonT(30)
      <3> QED
        BY <1>2, <3>1, <3>3
    <2>2. CASE Folds(h, pos) # {}
      <3> DEFINE mid == Min(Folds(h, pos))
                 b == KeptEnd(h, pos)
                 e == RestBegin(h, pos)
                 K == SubSeq(h, pos, b)
                 R == SubSeq(h, e, Len(h))
      <3>1. FoldAt(h, pos, mid, b, e)
        BY <2>2, FoldsAre
      <3>2. u[pos] = K \o Separator(K, R) \o u[e]
        BY <1>1, <2>2 DEF Unfolds
      <3>3. e \in U
        BY <2>2
      <3> HIDE DEF mid, b, e
      <3>4. /\ mid \in pos + 1 .. Len(h) - 2 /\ b = mid - 1 /\ e = mid + 2
            /\ h[e] # "newline" /\ h[e] # "space" /\ e < Len(h)
            /\ r[e] = r[b] + 2 /\ t[r[b] + 1] = "space" /\ \A i \in pos .. b : h[i] # "newline"
        BY <2>0, <3>1, FoldIsBreak
      <3>5. /\ b \in 1 .. Len(h) /\ pos <= b /\ e \in 1 .. Len(h)
            /\ b \in Int /\ e \in Nat \ {0} /\ b <= Len(h) /\ Len(h) \in Int /\ pos \in Nat \ {0}
        BY <1>2, <2>0, <3>4
      <3>6. u[e] = SubSeq(t, r[e], Len(t))
        BY <3>3, <3>4
      <3>7. K = SubSeq(t, r[pos], r[b])
        <4>1. \A i \in pos .. b : h[i] # "newline"
          BY <3>4
        <4>2. b \in 1 .. Len(h) /\ pos <= b
          BY <3>5
        <4> HIDE DEF D, Stop, next, m, U
        <4> QED
          BY <2>0, <4>1, <4>2, LayoutPiece, ZenonT(30)
      <3>8. Separator(K, R) = <<"space">>
        <4>1. K \in Text /\ Len(K) = b - pos + 1
          BY <3>5, PieceIs
        <4>2. Len(R) = Len(h) - e + 1
          BY <3>4, <3>5, PieceIs
        <4> HIDE DEF K, R
        <4>3. K # <<>> /\ Len(R) > 1
          BY <1>2, <3>4, <3>5, <4>1, <4>2, TextIs
        <4> QED
          BY <4>3 DEF Separator
      <3>9. PICK x \in 1 .. Len(t), y \in 1 .. Len(t), z \in 1 .. Len(t) :
               x = r[pos] /\ y = r[b] /\ z = r[e]
        BY <1>2, <2>0, <3>5
      <3>10. y = x + (b - pos) /\ z = y + 2 /\ t[y + 1] = "space"
        BY <2>0, <3>4, <3>5, <3>9 DEF Layout
      <3>11. x <= y /\ x \in Nat \ {0} /\ y \in Int /\ y <= Len(t) /\ z \in Nat \ {0}
             /\ Len(t) \in Int /\ z <= Len(t) /\ y \in Nat /\ z \in Nat
        <4>1. Len(t) \in Nat /\ pos \in Nat /\ b \in Nat /\ pos <= b /\ y = x + (b - pos)
          BY <1>2, <3>5, <3>10
        <4> HIDE DEF D, Stop, next, m, U
        <4> QED
          BY <4>1
      <3>12. u[pos] = SubSeq(t, x, y) \o <<"space">> \o SubSeq(t, z, Len(t))
        BY <3>2, <3>6, <3>7, <3>8, <3>9
      <3>13. SubSeq(t, x, y) \o <<"space">> \o SubSeq(t, z, Len(t)) = SubSeq(t, x, Len(t))
        <4>1. /\ x \in Nat \ {0} /\ y \in Nat /\ x <= y /\ z \in Nat /\ z = y + 2
              /\ z <= Len(t) /\ t[y + 1] = "space"
          BY <3>10, <3>11
        <4> QED
          BY <4>1, JoinedBySpace, ZenonT(30)
      <3> QED
        BY <3>9, <3>12, <3>13
    <2> QED
      BY <2>1, <2>2
  <1>4. \A pos \in D : pos \in U
    <2> HIDE DEF D, Stop, next, m, U
    <2> QED
      BY <1>0, <1>3, MeasureInduction
  <1>5. 1 \in U
    BY <1>4
  <1>6. 1 <= Len(h) /\ h[1] # "newline" /\ h[1] # "space"
    BY <1>2 DEF Layout, WordsFrom
  <1> QED
    BY <1>1, <1>5, <1>6

\* The text of a header with a plain name and value.
LEMMA PlainHeaderIs ==
    ASSUME NEW h \in Header, PlainName(h.name), Plain(h.value)
    PROVE  LET t == HeaderText(h)
               n == Len(h.name)
               v == Len(h.value)
           IN  /\ t \in Text /\ n \in Nat \ {0} /\ v \in Nat \ {0} /\ Len(t) = n + 2 + v
               /\ \A i \in 1 .. n : t[i] = "text" /\ h.name[i] = "text"
               /\ t[n + 1] = "colon" /\ t[n + 2] = "space"
               /\ \A i \in 1 .. v : t[n + 2 + i] = h.value[i]
               /\ IsLine(t) /\ Min(Positions(t, "colon")) = n + 1
  <1> DEFINE t == HeaderText(h)
             n == Len(h.name)
             v == Len(h.value)
  <1>1. /\ t \in Text /\ n \in Nat /\ v \in Nat
        /\ Len(t) = n + 2 + v
        /\ \A i \in 1 .. n : t[i] = h.name[i]
        /\ t[n + 1] = "colon" /\ t[n + 2] = "space"
        /\ \A i \in 1 .. v : t[n + 2 + i] = h.value[i]
    BY HeaderTextIs
  <1>2. \A i \in 1 .. n : h.name[i] = "text"
    BY TextIs DEF PlainName, Header
  <1>3. \A i \in 1 .. v : h.value[i] # "newline"
    <2>1. DOMAIN h.value = 1 .. v
      BY TextIs DEF Header
    <2> QED
      BY <2>1 DEF Plain, Positions
  <1>4. n # 0 /\ v # 0
    <2>1. h.name # <<>> /\ h.name \in Text /\ h.value # <<>> /\ h.value \in Text
      BY DEF PlainName, Plain, Header
    <2> QED
      BY <2>1, TextIs
  <1> HIDE DEF n, v, t
  <1>5. \A i \in 1 .. n : t[i] = "text"
    BY <1>1, <1>2
  <1>6. ASSUME NEW j \in 1 .. Len(t) PROVE t[j] # "newline"
    <2>1. CASE j <= n + 2
      <3>1. j \in 1 .. n \/ j = n + 1 \/ j = n + 2
        BY <1>1, <2>1
      <3> QED
        BY <1>1, <1>5, <3>1
    <2>2. CASE j > n + 2
      <3>1. PICK i \in 1 .. v : j = n + 2 + i
        <4>1. j - (n + 2) \in 1 .. v /\ j = n + 2 + (j - (n + 2))
          BY <1>1, <2>2
        <4> QED
          BY <4>1
      <3> QED
        BY <1>1, <1>3, <3>1
    <2> QED
      BY <1>1, <2>1, <2>2
  <1>7. Min(Positions(t, "colon")) = n + 1
    <2> DEFINE c == Min(Positions(t, "colon"))
    <2>1. n + 1 \in 1 .. Len(t) /\ DOMAIN t = 1 .. Len(t)
      BY <1>1, TextIs
    <2>2. n + 1 \in Positions(t, "colon")
      BY <1>1, <2>1 DEF Positions
    <2>3. c \in 1 .. Len(t) /\ t[c] = "colon" /\ \A i \in 1 .. c - 1 : t[i] # "colon"
      BY <1>1, <2>2, FirstColon
    <2> HIDE DEF c
    <2>4. ~(c <= n)
      <3> SUFFICES ASSUME c <= n PROVE FALSE
        OBVIOUS
      <3>1. c \in 1 .. n
        BY <1>1, <2>3
      <3> QED
        BY <1>5, <2>3, <3>1
    <2>5. ~(c > n + 1)
      <3> SUFFICES ASSUME c > n + 1 PROVE FALSE
        OBVIOUS
      <3>1. n + 1 \in 1 .. c - 1
        BY <1>1, <2>3
      <3> QED
        BY <1>1, <2>3, <3>1
    <2>6. c = n + 1
      BY <1>1, <2>3, <2>4, <2>5
    <2> QED
      BY <2>6 DEF c
  <1>8. IsLine(t)
    BY <1>6 DEF IsLine
  <1> QED
    BY <1>1, <1>2, <1>4, <1>5, <1>7, <1>8 DEF t, n, v

\* Such a text has words from the value on.
LEMMA FoldableHasWords ==
    ASSUME NEW h \in Header, PlainName(h.name), Foldable(h.value)
    PROVE  WordsFrom(HeaderText(h), Len(h.name) + 3)
  <1> DEFINE t == HeaderText(h)
             n == Len(h.name)
             w == h.value
             v == Len(w)
  <1>1. /\ t \in Text /\ n \in Nat \ {0} /\ v \in Nat \ {0} /\ Len(t) = n + 2 + v
        /\ \A i \in 1 .. v : t[n + 2 + i] = w[i]
    BY PlainHeaderIs DEF Foldable
  <1>2. w \in Text /\ DOMAIN w = 1 .. v
    BY TextIs DEF Header
  <1>3. /\ w[1] # "space" /\ w[v] # "space"
        /\ v = 1 \/ w[v - 1] # "space"
        /\ \A i \in 1 .. v - 1 : w[i] # "space" \/ w[i + 1] # "space"
    BY DEF Foldable, Plain, Last
  <1>4. \A i \in 1 .. v : w[i] # "newline" /\ w[i] # "return"
    BY <1>2 DEF Foldable, Plain, Positions
  <1> HIDE DEF n, v, t, w
  <1> DEFINE m == n + 3
             l == Len(t)
  <1>5. /\ m \in 1 .. l /\ l = n + 2 + v /\ m = n + 2 + 1 /\ l \in Nat
        /\ 1 \in 1 .. v /\ v \in 1 .. v
        /\ m < l => v # 1 /\ v - 1 \in 1 .. v /\ l - 1 = n + 2 + (v - 1)
    BY <1>1
  <1>6. t[m] # "space" /\ t[l] # "space" /\ (m < l => t[l - 1] # "space")
    BY <1>1, <1>3, <1>5
  <1>7. ASSUME NEW k \in m .. l
        PROVE  /\ t[k] # "newline" /\ t[k] # "return"
               /\ k <= l - 1 => t[k] # "space" \/ t[k + 1] # "space"
    <2>1. PICK i \in 1 .. v : k = n + 2 + i
      <3>1. k - (n + 2) \in 1 .. v /\ k = n + 2 + (k - (n + 2))
        BY <1>1, <1>5
      <3> QED
        BY <3>1
    <2>2. t[k] = w[i]
      BY <1>1, <2>1
    <2>3. CASE k <= l - 1
      <3>1. i \in 1 .. v - 1 /\ i + 1 \in 1 .. v /\ k + 1 = n + 2 + (i + 1)
        BY <1>1, <1>5, <2>1, <2>3
      <3>2. t[k + 1] = w[i + 1]
        BY <1>1, <3>1
      <3> QED
        BY <1>3, <1>4, <2>2, <3>1, <3>2
    <2>4. CASE ~(k <= l - 1)
      BY <1>4, <2>2, <2>4
    <2> QED
      BY <2>3, <2>4
  <1>8. \A k \in m .. l - 1 : k \in m .. l /\ k <= l - 1
    BY <1>1, <1>5
  <1>9. WordsFrom(t, m)
    <2> HIDE DEF m, l
    <2>1. /\ \A k \in m .. l : t[k] # "newline" /\ t[k] # "return"
          /\ \A k \in m .. l - 1 : t[k] # "space" \/ t[k + 1] # "space"
      BY <1>7, <1>8
    <2> QED
      BY <1>5, <1>6, <2>1 DEF WordsFrom, l
  <1> QED
    BY <1>9 DEF t, n

\* The states of the loop that folds t after the colon at n + 1: lines may be
\* broken where there is a space.
AtSpace(u, n, e) == e \in n + 2 .. Len(u) /\ u[e] = "space" /\ u[e - 1] # "newline"

LaidOut(u, t, n) ==
    \E r : Layout(u, r, t) /\ r[1] = 1 /\ \A p \in 1 .. n + 1 : p <= Len(u) => u[p] # "newline"

LaidOutState(t, n) ==
    {s \in FoldState : /\ LaidOut(s.header, t, n) /\ s.pos >= n + 2
                       /\ s.eligible # 0 => AtSpace(s.header, n, s.eligible)
                       /\ s.recommended # 0 => AtSpace(s.header, n, s.recommended)}

LEMMA LaidOutBroken ==
    ASSUME NEW t \in Text, NEW n \in Nat \ {0}, NEW u \in Text, LaidOut(u, t, n),
           NEW f, AtSpace(u, n, f)
    PROVE  LET v == InsertAt(u, f, "newline")
           IN  /\ LaidOut(v, t, n)
               /\ \A e \in Nat : e > f /\ AtSpace(u, n, e) => AtSpace(v, n, e + 1)
  <1> DEFINE v == InsertAt(u, f, "newline")
  <1>1. PICK r : Layout(u, r, t) /\ r[1] = 1 /\ \A p \in 1 .. n + 1 : p <= Len(u) => u[p] # "newline"
    BY DEF LaidOut
  <1>2. Len(u) \in Nat /\ f \in n + 2 .. Len(u) /\ f \in 2 .. Len(u) /\ u[f] = "space"
        /\ u[f - 1] # "newline" /\ f \in 1 .. Len(u) + 1
    BY TextIs DEF AtSpace
  <1>3. "newline" \in Symbol
    BY DEF Symbol
  <1>4. /\ Len(v) = Len(u) + 1 /\ v[f] = "newline"
        /\ \A j \in 1 .. f - 1 : v[j] = u[j]
        /\ \A j \in f .. Len(u) : v[j + 1] = u[j]
    BY <1>2, <1>3, InsertIs
  <1> DEFINE q == [p \in 1 .. Len(v) |-> IF p < f THEN r[p] ELSE r[p - 1]]
  <1>5. Layout(v, q, t)
    BY <1>1, <1>2, LayoutBroken
  <1>6. q[1] = 1
    BY <1>1, <1>2, <1>4
  <1> HIDE DEF v, q
  <1>7. ASSUME NEW p \in 1 .. n + 1, p <= Len(v) PROVE v[p] # "newline"
    <2>1. p \in 1 .. f - 1 /\ p <= Len(u)
      BY <1>2
    <2> QED
      BY <1>1, <1>4, <2>1
  <1>8. LaidOut(v, t, n)
    BY <1>5, <1>6, <1>7 DEF LaidOut
  <1>9. ASSUME NEW e \in Nat, e > f, AtSpace(u, n, e) PROVE AtSpace(v, n, e + 1)
    <2>1. e \in f .. Len(u) /\ e \in n + 2 .. Len(u) /\ u[e] = "space" /\ u[e - 1] # "newline"
      BY <1>2, <1>9 DEF AtSpace
    <2>2. PICK x \in f .. Len(u) : e = x + 1
      <3>1. e - 1 \in f .. Len(u) /\ e = (e - 1) + 1
        BY <1>2, <1>9, <2>1
      <3> QED
        BY <3>1
    <2>3. v[x + 1] = u[x] /\ v[e + 1] = u[e] /\ e - 1 = x /\ (e + 1) - 1 = e
      BY <1>4, <2>1, <2>2
    <2>4. e + 1 \in n + 2 .. Len(v)
      BY <1>2, <1>4, <2>1
    <2> QED
      BY <2>1, <2>2, <2>3, <2>4 DEF AtSpace
  <1> QED
    BY <1>8, <1>9 DEF v

LEMMA LaidOutLoops ==
    ASSUME NEW t \in Text, NEW n \in Nat \ {0}
    PROVE  Loops(LaidOutState(t, n))
  <1>1. ASSUME NEW s \in LaidOutState(t, n), MustFold(s) PROVE FoldLine(s) \in LaidOutState(t, n)
    <2> DEFINE h == s.header
               f == IF s.recommended # 0 THEN s.recommended ELSE s.eligible
               g == InsertAt(h, f, "newline")
               w == FoldLine(s)
    <2>1. /\ s \in FoldState /\ LaidOut(h, t, n) /\ s.pos >= n + 2
          /\ s.eligible # 0 => AtSpace(h, n, s.eligible)
          /\ s.recommended # 0 => AtSpace(h, n, s.recommended)
      BY DEF LaidOutState
    <2>2. h \in Text /\ s.pos \in Nat /\ s.eligible \in Nat
      BY <2>1, FoldStateIs
    <2>3. AtSpace(h, n, f) /\ f \in Nat
      <3>1. AtSpace(h, n, f)
        BY <1>1, <2>1 DEF MustFold
      <3> QED
        BY <2>1, <3>1, FoldStateIs
    <2>4. /\ w \in FoldState /\ w.header = g /\ w.pos = s.pos + 1 /\ w.recommended = 0
          /\ w.eligible = IF s.eligible <= f THEN 0 ELSE s.eligible + 1
      BY <1>1, <2>1, FoldLineIs
    <2> HIDE DEF f
    <2>5. LaidOut(g, t, n) /\ \A e \in Nat : e > f /\ AtSpace(h, n, e) => AtSpace(g, n, e + 1)
      BY <2>1, <2>2, <2>3, LaidOutBroken
    <2> HIDE DEF g, w, h
    <2>6. w.eligible # 0 => AtSpace(g, n, w.eligible)
      <3> SUFFICES ASSUME ~(s.eligible <= f) PROVE AtSpace(g, n, s.eligible + 1)
        BY <2>4
      <3>1. s.eligible > f /\ s.eligible # 0
        BY <2>2, <2>3
      <3> QED
        BY <2>1, <2>2, <2>5, <3>1
    <2>7. w.pos >= n + 2
      BY <2>1, <2>2, <2>4
    <2>8. w \in LaidOutState(t, n)
      BY <2>4, <2>5, <2>6, <2>7 DEF LaidOutState
    <2> QED
      BY <2>8 DEF w
  <1>2. ASSUME NEW s \in LaidOutState(t, n), ~MustFold(s), ~Folded(s)
        PROVE  ReadCharacter(s) \in LaidOutState(t, n)
    <2> DEFINE h == s.header
               w == ReadCharacter(s)
               c == h[s.pos]
               last == h[s.pos - 1]
               here == c = "space" /\ ~s.escaped /\ last # "newline"
    <2>1. /\ s \in FoldState /\ LaidOut(h, t, n) /\ s.pos >= n + 2
          /\ s.eligible # 0 => AtSpace(h, n, s.eligible)
          /\ s.recommended # 0 => AtSpace(h, n, s.recommended)
      BY DEF LaidOutState
    <2>2. h \in Text /\ s.pos \in Nat /\ Len(h) \in Nat
      BY <2>1, FoldStateIs
    <2>3. /\ s.pos <= Len(h) /\ w \in FoldState /\ w.header = h /\ w.pos = s.pos + 1
          /\ w.eligible = (IF here THEN s.pos ELSE IF c = "newline" THEN 0 ELSE s.eligible)
          /\ w.recommended = (IF here /\ last = "comma" /\ ~s.quoted THEN s.pos
                              ELSE IF c = "newline" THEN 0 ELSE s.recommended)
      BY <1>2, <2>1, ReadCharacterIs
    <2>4. here => AtSpace(h, n, s.pos)
      <3>1. s.pos \in n + 2 .. Len(h)
        BY <2>1, <2>2, <2>3
      <3> QED
        BY <3>1 DEF AtSpace
    <2> HIDE DEF w, h, c, here, last
    <2>5. /\ w.eligible # 0 => AtSpace(h, n, w.eligible)
          /\ w.recommended # 0 => AtSpace(h, n, w.recommended)
      BY <2>1, <2>3, <2>4
    <2>6. w.pos >= n + 2
      BY <2>1, <2>2, <2>3
    <2>7. w \in LaidOutState(t, n)
      BY <2>1, <2>3, <2>5, <2>6 DEF LaidOutState
    <2> QED
      BY <2>7 DEF w
  <1>3. LaidOutState(t, n) \subseteq FoldState
    BY DEF LaidOutState
  <1> QED
    BY <1>1, <1>2, <1>3 DEF Loops, FoldStep

\* A folded header is its text on lines.
LEMMA FoldedIsLaidOut ==
    ASSUME NEW h \in Header, PlainName(h.name), Plain(h.value)
    PROVE  LaidOut(FoldHeader(HeaderText(h)), HeaderText(h), Len(h.name))
  <1> DEFINE t == HeaderText(h)
             n == Len(h.name)
             v == Len(h.value)
             T == LaidOutState(t, n)
             s == FoldStart(t)
  <1>1. /\ t \in Text /\ n \in Nat \ {0} /\ v \in Nat \ {0} /\ Len(t) = n + 2 + v
        /\ t[n + 1] = "colon" /\ t[n + 2] = "space"
        /\ IsLine(t) /\ Min(Positions(t, "colon")) = n + 1
    BY PlainHeaderIs
  <1> HIDE DEF t, n, v
  <1>2. n + 1 \in 1 .. Len(t) /\ n + 2 \in n + 2 .. Len(t) /\ (n + 2) - 1 = n + 1 /\ Len(t) >= 1
        /\ n + 1 + 1 = n + 2 /\ n + 2 >= n + 2
    BY <1>1
  <1>3. LaidOut(t, t, n)
    <2> DEFINE r == [p \in 1 .. Len(t) |-> p]
    <2>1. Layout(t, r, t)
      BY <1>1, <1>2, SameLayout
    <2>2. r[1] = 1
      BY <1>1, <1>2
    <2>3. ASSUME NEW p \in 1 .. n + 1, p <= Len(t) PROVE t[p] # "newline"
      <3>1. p \in 1 .. Len(t)
        BY <1>1, <2>3
      <3> QED
        BY <1>1, <3>1 DEF IsLine
    <2> HIDE DEF r
    <2> QED
      BY <2>1, <2>2, <2>3 DEF LaidOut
  <1>4. AtSpace(t, n, n + 2)
    BY <1>1, <1>2 DEF AtSpace
  <1>5. Loops(T)
    BY <1>1, LaidOutLoops
  <1>6. IsFolded(t) => s \in T
    <2> SUFFICES ASSUME IsFolded(t) PROVE s \in T
      OBVIOUS
    <2>1. /\ s \in FoldState /\ s.header = t /\ s.pos = n + 2
          /\ s.eligible = n + 2 /\ s.recommended = n + 2
      BY <1>1, <1>2, FoldStarts
    <2> HIDE DEF s
    <2> QED
      BY <1>2, <1>3, <1>4, <2>1 DEF LaidOutState
  <1>7. IF IsFolded(t) THEN \E x \in T : Folded(x) /\ FoldHeader(t) = x.header
        ELSE FoldHeader(t) = t
    <2> HIDE DEF T, s
    <2> QED
      BY <1>1, <1>5, <1>6, FoldHeaderIs, Zenon DEF s
  <1>8. LaidOut(FoldHeader(t), t, n)
    BY <1>3, <1>7 DEF LaidOutState
  <1> QED
    BY <1>8 DEF t, n

\* Where the value begins in the lines of a header: behind the space after the
\* colon, on the first line or on the second.
ValueAt(u, r, t, n, b) ==
    /\ Layout(u, r, t) /\ b \in n + 3 .. Len(u) /\ r[b] = n + 3 /\ u[b] # "newline" /\ u[b] # "space"
    /\ \A p \in 1 .. n + 1 : p \in 1 .. Len(u) /\ u[p] = t[p]
    /\ \/ b = n + 3 /\ u[n + 2] = "space"
       \/ b = n + 4 /\ u[n + 2] = "newline" /\ u[n + 3] = "space"

LEMMA ValueIsLaidOut ==
    ASSUME NEW h \in Header, PlainName(h.name), Foldable(h.value)
    PROVE  \E r, b : ValueAt(FoldHeader(HeaderText(h)), r, HeaderText(h), Len(h.name), b)
  <1> DEFINE t == HeaderText(h)
             n == Len(h.name)
             v == Len(h.value)
             u == FoldHeader(t)
             L == Len(u)
  <1>1. /\ t \in Text /\ n \in Nat \ {0} /\ v \in Nat \ {0} /\ Len(t) = n + 2 + v
        /\ t[n + 2] = "space"
    BY PlainHeaderIs DEF Foldable
  <1>2. WordsFrom(t, n + 3)
    BY FoldableHasWords
  <1>3. LaidOut(u, t, n)
    BY FoldedIsLaidOut DEF Foldable
  <1>4. u \in Text
    BY <1>1, FoldedIsText
  <1> HIDE DEF t, n, v, u
  <1>5. PICK r : Layout(u, r, t) /\ r[1] = 1 /\ \A p \in 1 .. n + 1 : p <= L => u[p] # "newline"
    BY <1>3 DEF LaidOut
  <1>6. L \in Nat /\ L >= 1 /\ \A p \in 1 .. L : r[p] \in 1 .. Len(t)
    BY <1>4, <1>5, TextIs DEF Layout
  <1>a. \A i, j \in 1 .. L : i <= j /\ (\A k \in i .. j : u[k] # "newline") => r[j] = r[i] + (j - i)
    BY <1>5 DEF Layout
  <1>b. \A p \in 1 .. L : u[p] # "newline" => u[p] = t[r[p]]
    BY <1>5 DEF Layout
  <1>c. \A p \in 1 .. L : u[p] = "newline" => /\ p \in 2 .. L - 1
                                              /\ u[p - 1] # "newline" /\ u[p + 1] = "space"
                                              /\ r[p] = r[p - 1] /\ r[p + 1] = r[p] + 1
    BY <1>5 DEF Layout
  <1>d. r[L] = n + 2 + v
    BY <1>1, <1>5 DEF Layout
  <1> HIDE DEF L
  <1>7. ASSUME NEW p \in 1 .. n + 1, p <= L PROVE r[p] = p /\ u[p] = t[p]
    <2>1. p \in 1 .. L /\ 1 \in 1 .. L /\ 1 <= p
      BY <1>1, <1>6, <1>7
    <2>2. \A k \in 1 .. p : u[k] # "newline"
      BY <1>1, <1>5, <1>7 DEF L
    <2>3. r[p] = r[1] + (p - 1)
      BY <1>a, <2>1, <2>2
    <2>4. r[p] = p
      BY <1>1, <1>5, <2>3
    <2> QED
      BY <1>b, <2>1, <2>2, <2>4
  <1>8. L >= n + 2
    <2> SUFFICES ASSUME L <= n + 1 PROVE FALSE
      BY <1>1, <1>6
    <2>1. L \in 1 .. n + 1 /\ L <= L
      BY <1>6
    <2>2. r[L] = L
      BY <1>7, <2>1
    <2> QED
      BY <1>1, <1>6, <1>d, <2>2
  <1>9. r[n + 1] = n + 1 /\ u[n + 1] # "newline" /\ n + 1 \in 1 .. L /\ n + 2 \in 1 .. L
    <2>1. n + 1 \in 1 .. n + 1 /\ n + 1 <= L /\ n + 1 \in 1 .. L /\ n + 2 \in 1 .. L
      BY <1>1, <1>6, <1>8
    <2> QED
      BY <1>5, <1>7, <2>1 DEF L
  \* The space after the colon.
  <1>10. \E s \in n + 2 .. L : /\ r[s] = n + 2 /\ u[s] = "space"
                               /\ s = n + 2 \/ (s = n + 3 /\ u[n + 2] = "newline")
    <2>1. CASE u[n + 2] = "newline"
      <3>1. PICK p \in 1 .. L : p = n + 2
        BY <1>9
      <3>2. p \in 2 .. L - 1 /\ u[p + 1] = "space" /\ r[p] = r[p - 1] /\ r[p + 1] = r[p] + 1
        BY <1>c, <2>1, <3>1
      <3>3. p - 1 = n + 1 /\ p + 1 = n + 3 /\ n + 3 \in n + 2 .. L /\ n + 1 + 1 = n + 2
        BY <1>1, <1>6, <3>1, <3>2
      <3> QED
        BY <1>9, <2>1, <3>1, <3>2, <3>3
    <2>2. CASE u[n + 2] # "newline"
      <3>1. n + 1 <= n + 2 /\ (n + 2) - (n + 1) = 1 /\ n + 1 + 1 = n + 2 /\ n + 2 \in n + 2 .. L
            /\ \A k \in n + 1 .. n + 2 : k = n + 1 \/ k = n + 2
        BY <1>1, <1>6, <1>8
      <3>2. \A k \in n + 1 .. n + 2 : u[k] # "newline"
        BY <1>9, <2>2, <3>1
      <3>3. r[n + 2] = r[n + 1] + ((n + 2) - (n + 1))
        BY <1>9, <1>a, <3>1, <3>2
      <3>4. r[n + 2] = n + 2
        BY <1>9, <3>1, <3>3
      <3>5. u[n + 2] = t[n + 2]
        BY <1>9, <1>b, <2>2, <3>4
      <3> QED
        BY <1>1, <3>1, <3>4, <3>5
    <2> QED
      BY <2>1, <2>2
  <1>11. PICK s \in n + 2 .. L : /\ r[s] = n + 2 /\ u[s] = "space"
                                 /\ s = n + 2 \/ (s = n + 3 /\ u[n + 2] = "newline")
    BY <1>10
  <1>12. s # L
    BY <1>1, <1>11, <1>d
  <1> DEFINE b == s + 1
  <1>13. b \in n + 3 .. L /\ b \in 1 .. L /\ s \in 1 .. L /\ b - 1 = s /\ s <= b /\ b - s = 1
    BY <1>1, <1>6, <1>12
  <1>14. \A k \in s .. b : k = s \/ k = b
    BY <1>1
  <1>w. t[n + 3] # "space" /\ t[n + 3] # "newline"
    BY <1>1, <1>2 DEF WordsFrom
  <1>e. b = n + 3 \/ b = n + 4
    BY <1>1, <1>11
  <1> HIDE DEF b
  <1>15. u[b] # "newline"
    <2> SUFFICES ASSUME u[b] = "newline" PROVE FALSE
      OBVIOUS
    <2>1. /\ b \in 2 .. L - 1 /\ u[b + 1] = "space" /\ r[b] = r[b - 1] /\ r[b + 1] = r[b] + 1
      BY <1>13, <1>c
    <2>2. b + 1 \in 1 .. L /\ n + 2 + 1 = n + 3
      BY <1>1, <1>6, <2>1
    <2>3. r[b + 1] = n + 3
      BY <1>11, <1>13, <2>1, <2>2
    <2>4. u[b + 1] = t[n + 3]
      BY <1>b, <2>1, <2>2, <2>3
    <2> QED
      BY <1>w, <2>1, <2>4
  <1>16. r[b] = n + 3
    <2>1. \A k \in s .. b : u[k] # "newline"
      BY <1>11, <1>14, <1>15
    <2>2. r[b] = r[s] + (b - s)
      BY <1>13, <1>a, <2>1
    <2> QED
      BY <1>1, <1>11, <1>13, <2>2
  <1>17. u[b] # "space"
    BY <1>13, <1>15, <1>16, <1>b, <1>w
  <1>18. \A p \in 1 .. n + 1 : p \in 1 .. L /\ u[p] = t[p]
    <2>1. \A p \in 1 .. n + 1 : p \in 1 .. L /\ p <= L
      BY <1>1, <1>6, <1>8
    <2> QED
      BY <1>7, <2>1
  <1>19. (b = n + 3 /\ u[n + 2] = "space") \/ (b = n + 4 /\ u[n + 2] = "newline" /\ u[n + 3] = "space")
    <2>1. CASE s = n + 2
      <3>1. b = n + 3
        BY <1>1, <1>13, <1>e, <2>1
      <3> QED
        BY <1>11, <2>1, <3>1
    <2>2. CASE s = n + 3 /\ u[n + 2] = "newline"
      <3>1. b = n + 4
        BY <1>1, <1>13, <1>e, <2>2
      <3> QED
        BY <1>11, <2>2, <3>1
    <2> QED
      BY <1>11, <2>1, <2>2
  <1>20. ValueAt(u, r, t, n, b)
    BY <1>5, <1>13, <1>15, <1>16, <1>17, <1>18, <1>19 DEF ValueAt, L
  <1> QED
    BY <1>20 DEF u, t, n

\* The lines u are in s behind o, and nothing continues them.
LinesAt(s, o, u) ==
    /\ o \in Nat /\ o + Len(u) + 1 <= Len(s)
    /\ \A i \in 1 .. Len(u) : s[o + i] = u[i]
    /\ s[o + Len(u) + 1] = "newline"
    /\ o + Len(u) + 2 <= Len(s) => s[o + Len(u) + 2] \notin {"space", "encoded"}

\* The colon, the value and the end that a search finds there.
LEMMA ValueIsFound ==
    ASSUME NEW t \in Text, NEW n \in Nat \ {0}, t[n + 1] = "colon", \A i \in 1 .. n : t[i] = "text",
           NEW u \in Text, NEW r, NEW b, ValueAt(u, r, t, n, b),
           NEW s \in Text, NEW o, LinesAt(s, o, u),
           NEW c \in Nat, NEW d \in Nat, NEW e \in Nat, HeaderSpan(s, o + 1, c, d, e)
    PROVE  c = o + n + 1 /\ d = o + b
  <1> DEFINE L == Len(u)
             N == Len(s)
  <1>1. /\ L \in Nat /\ N \in Nat /\ o \in Nat /\ o + L + 1 <= N /\ b \in n + 3 .. L
        /\ b = n + 3 \/ b = n + 4
    BY TextIs DEF LinesAt, ValueAt
  <1>2. \A i \in 1 .. L : s[o + i] = u[i]
    BY DEF LinesAt
  <1>3. /\ u[b] # "newline" /\ u[b] # "space"
        /\ \A p \in 1 .. n + 1 : u[p] = t[p]
        /\ \/ b = n + 3 /\ u[n + 2] = "space"
           \/ b = n + 4 /\ u[n + 2] = "newline" /\ u[n + 3] = "space"
    BY DEF ValueAt
  <1>4. /\ c \in o + 1 .. N /\ s[c] = "colon" /\ \A i \in o + 1 .. c - 1 : s[i] # "colon"
        /\ d = ValueBegin(s, IF c + 1 < N /\ s[c + 1] = "space" THEN c + 2 ELSE c + 1)
    BY DEF HeaderSpan
  <1> HIDE DEF L, N
  <1>5. \A i \in 1 .. n : s[o + i] = "text"
    <2>1. \A i \in 1 .. n : i \in 1 .. L /\ i \in 1 .. n + 1
      BY <1>1
    <2> QED
      BY <1>2, <1>3, <2>1
  <1>6. s[o + (n + 1)] = "colon"
    <2>1. n + 1 \in 1 .. L /\ n + 1 \in 1 .. n + 1
      BY <1>1
    <2> QED
      BY <1>2, <1>3, <2>1
  <1>7. c = o + n + 1
    <2>1. ~(c < o + n + 1)
      <3> SUFFICES ASSUME c < o + n + 1 PROVE FALSE
        OBVIOUS
      <3>1. PICK i \in 1 .. n : c = o + i
        <4>1. c - o \in 1 .. n /\ c = o + (c - o)
          BY <1>1, <1>4
        <4> QED
          BY <4>1
      <3> QED
        BY <1>4, <1>5, <3>1
    <2>2. ~(c > o + n + 1)
      <3> SUFFICES ASSUME c > o + n + 1 PROVE FALSE
        OBVIOUS
      <3>1. o + (n + 1) \in o + 1 .. c - 1
        BY <1>1, <1>4
      <3> QED
        BY <1>4, <1>6, <3>1
    <2> QED
      BY <1>1, <2>1, <2>2
  <1>8. s[o + b] = u[b]
    <2>1. b \in 1 .. L
      BY <1>1
    <2> QED
      BY <1>2, <2>1
  <1>9. CASE b = n + 3 /\ u[n + 2] = "space"
    <2>1. n + 2 \in 1 .. L /\ c + 1 < N /\ c + 1 = o + (n + 2) /\ c + 2 = o + b
      BY <1>1, <1>7, <1>9
    <2>2. s[c + 1] = "space"
      BY <1>2, <1>9, <2>1
    <2>3. d = ValueBegin(s, o + b)
      BY <1>4, <2>1, <2>2
    <2> QED
      BY <1>3, <1>7, <1>8, <2>3 DEF ValueBegin
  <1>10. CASE b = n + 4 /\ u[n + 2] = "newline" /\ u[n + 3] = "space"
    <2>1. /\ n + 2 \in 1 .. L /\ n + 3 \in 1 .. L /\ c + 1 = o + (n + 2) /\ c + 1 + 1 = o + (n + 3)
          /\ c + 1 + 2 = o + b /\ c + 1 + 1 < N
      BY <1>1, <1>7, <1>10
    <2>2. s[c + 1] = "newline" /\ s[c + 1 + 1] = "space"
      BY <1>2, <1>10, <2>1
    <2>3. d = ValueBegin(s, c + 1)
      BY <1>4, <2>2
    <2>4. d = c + 1 + 2
      BY <2>1, <2>2, <2>3 DEF ValueBegin, N
    <2> QED
      BY <1>7, <2>1, <2>4
  <1> QED
    BY <1>3, <1>9, <1>10

LEMMA EndIsFound ==
    ASSUME NEW t \in Text, NEW n \in Nat \ {0},
           NEW u \in Text, NEW r, NEW b, ValueAt(u, r, t, n, b),
           NEW s \in Text, NEW o, LinesAt(s, o, u),
           NEW c \in Nat, NEW d \in Nat, NEW e \in Nat, HeaderSpan(s, o + 1, c, d, e), d = o + b
    PROVE  e = o + Len(u) + 1
  <1> DEFINE L == Len(u)
             N == Len(s)
             E == o + L + 1
  <1>1. /\ L \in Nat /\ N \in Nat /\ o \in Nat /\ E <= N /\ b \in n + 3 .. L /\ b \in 1 .. L
        /\ E \in Nat
    BY TextIs DEF LinesAt, ValueAt
  <1>2. /\ \A i \in 1 .. L : s[o + i] = u[i]
        /\ s[E] = "newline"
        /\ o + L + 2 <= N => s[o + L + 2] \notin {"space", "encoded"}
    BY DEF LinesAt
  <1>3. u[b] # "newline" /\ Layout(u, r, t)
    BY DEF ValueAt
  <1>4. s[d] # "newline" /\ d <= N
    BY <1>1, <1>2, <1>3
  <1>5. /\ e \in d .. N + 1
        /\ e <= N => s[e] = "newline" /\ ~Continued(s, e)
        /\ \A i \in d + 1 .. e - 1 : s[i] = "newline" => Continued(s, i)
    BY <1>4 DEF HeaderSpan
  <1>6. ~(e > E)
    <2> SUFFICES ASSUME e > E PROVE FALSE
      OBVIOUS
    <2>1. E \in d + 1 .. e - 1
      BY <1>1, <1>5
    <2>2. E < N /\ s[E + 1] \in {"space", "encoded"}
      BY <1>2, <1>5, <2>1 DEF Continued
    <2>3. E + 1 = o + L + 2
      BY <1>1
    <2>4. o + L + 2 <= N
      BY <1>1, <2>2
    <2> QED
      BY <1>2, <2>2, <2>3, <2>4
  <1>7. ~(e < E)
    <2> SUFFICES ASSUME e < E PROVE FALSE
      OBVIOUS
    <2>1. PICK i \in 1 .. L : e = o + i
      <3>1. e - o \in 1 .. L /\ e = o + (e - o)
        BY <1>1, <1>5
      <3> QED
        BY <3>1
    <2>2. e <= N
      BY <1>1
    <2>3. u[i] = "newline"
      BY <1>2, <1>5, <2>1, <2>2
    <2>4. i \in 2 .. L - 1 /\ u[i + 1] = "space"
      BY <1>3, <2>3 DEF Layout
    <2>5. i + 1 \in 1 .. L /\ e + 1 = o + (i + 1) /\ e < N
      BY <1>1, <2>1, <2>4
    <2>6. s[e + 1] = "space"
      BY <1>2, <2>4, <2>5
    <2> QED
      BY <1>5, <2>2, <2>5, <2>6 DEF Continued
  <1> HIDE DEF E
  <1>8. e = E
    BY <1>1, <1>6, <1>7
  <1> QED
    BY <1>8 DEF E

\* The header of those lines.
LEMMA HeaderIsFound ==
    ASSUME NEW h \in Header, PlainName(h.name), Foldable(h.value), NEW s \in Text, NEW o,
           LinesAt(s, o, FoldHeader(HeaderText(h)))
    PROVE  /\ IsHeaderAt(s, o + 1)
           /\ ExtractHeader(s, o + 1) =
                [header |-> h, end |-> o + Len(FoldHeader(HeaderText(h))) + 1]
  <1> DEFINE t == HeaderText(h)
             n == Len(h.name)
             v == Len(h.value)
             u == FoldHeader(t)
             L == Len(u)
  <1>1. /\ t \in Text /\ n \in Nat \ {0} /\ v \in Nat \ {0} /\ Len(t) = n + 2 + v
        /\ \A i \in 1 .. n : t[i] = "text" /\ h.name[i] = "text"
        /\ t[n + 1] = "colon"
        /\ \A i \in 1 .. v : t[n + 2 + i] = h.value[i]
    BY PlainHeaderIs DEF Foldable
  <1>2. WordsFrom(t, n + 3)
    BY FoldableHasWords
  <1>3. u \in Text
    BY <1>1, FoldedIsText
  <1>4. PICK r, b : ValueAt(u, r, t, n, b)
    BY ValueIsLaidOut
  <1>5. LinesAt(s, o, u)
    OBVIOUS
  <1>h. h.name \in Text /\ h.value \in Text /\ h = [name |-> h.name, value |-> h.value]
    BY DEF Header
  <1> HIDE DEF t, n, v, u
  <1>6. /\ L \in Nat /\ Len(s) \in Nat /\ o \in Nat /\ o + L + 1 <= Len(s) /\ b \in n + 3 .. L
        /\ b \in 1 .. L /\ L \in 1 .. L /\ DOMAIN s = 1 .. Len(s)
        /\ \A i \in 1 .. L : s[o + i] = u[i]
    <2>1. L \in Nat /\ Len(s) \in Nat /\ DOMAIN s = 1 .. Len(s)
      BY <1>3, TextIs
    <2>2. o \in Nat /\ o + L + 1 <= Len(s) /\ \A i \in 1 .. L : s[o + i] = u[i]
      BY <1>5 DEF LinesAt
    <2>3. b \in n + 3 .. L
      BY <1>4 DEF ValueAt
    <2> QED
      BY <1>1, <2>1, <2>2, <2>3
  <1>7. /\ Layout(u, r, t) /\ r[b] = n + 3 /\ u[b] # "newline"
        /\ \A p \in 1 .. n + 1 : p \in 1 .. L /\ u[p] = t[p]
    BY <1>4 DEF ValueAt
  <1> HIDE DEF L
  <1>8. IsHeaderAt(s, o + 1)
    <2>1. n + 1 \in 1 .. n + 1 /\ 1 \in 1 .. n + 1 /\ 1 \in 1 .. n /\ n + 1 \in 1 .. L /\ 1 \in 1 .. L
      BY <1>1, <1>6
    <2>2. s[o + (n + 1)] = "colon" /\ s[o + 1] = "text"
      BY <1>1, <1>6, <1>7, <2>1
    <2>3. o + (n + 1) \in 1 .. Len(s) /\ o + (n + 1) >= o + 1 /\ ~(o + 1 > Len(s))
      <3>1. n \in Nat /\ n + 1 <= L /\ L \in Nat /\ o \in Nat /\ Len(s) \in Nat /\ o + L + 1 <= Len(s)
        BY <1>1, <1>6, <2>1
      <3> QED
        BY <3>1
    <2>4. o + (n + 1) \in Positions(s, "colon")
      BY <1>6, <2>2, <2>3 DEF Positions
    <2> QED
      BY <2>2, <2>3, <2>4 DEF IsHeaderAt, NoHeaderAt
  <1>9. PICK c \in Nat, d \in Nat, e \in Nat :
           /\ HeaderSpan(s, o + 1, c, d, e)
           /\ ExtractHeader(s, o + 1) = HeaderIn(s, o + 1, c, d, e)
    <2>1. o + 1 \in Nat \ {0}
      BY <1>6
    <2> QED
      BY <1>8, <2>1, ExtractHeaderIs
  <1>10. c = o + n + 1 /\ d = o + b
    <2>1. /\ t \in Text /\ n \in Nat \ {0} /\ t[n + 1] = "colon" /\ u \in Text
          /\ ValueAt(u, r, t, n, b) /\ LinesAt(s, o, u) /\ HeaderSpan(s, o + 1, c, d, e)
      BY <1>1, <1>3, <1>4, <1>5, <1>9
    <2>2. \A i \in 1 .. n : t[i] = "text"
      BY <1>1
    <2> QED
      BY <2>1, <2>2, ValueIsFound
  <1>11. e = o + L + 1
    BY <1>1, <1>3, <1>4, <1>5, <1>9, <1>10, EndIsFound DEF L
  <1>12. SubSeq(s, o + 1, c - 1) = h.name
    <2> DEFINE w == SubSeq(s, o + 1, c - 1)
               x == o + 1
               y == c - 1
    <2>1. x \in Nat \ {0} /\ y \in Int /\ y <= Len(s) /\ x <= y /\ y - x + 1 = n
      BY <1>1, <1>6, <1>7, <1>10
    <2>2. w \in Text /\ Len(w) = y - x + 1 /\ \A i \in 1 .. Len(w) : w[i] = s[x + i - 1]
      <3> HIDE DEF x, y
      <3>1. SubSeq(s, x, y) \in Text /\ Len(SubSeq(s, x, y)) = y - x + 1
            /\ \A i \in 1 .. Len(SubSeq(s, x, y)) : SubSeq(s, x, y)[i] = s[x + i - 1]
        BY <2>1, PieceIs
      <3> QED
        BY <3>1 DEF x, y
    <2>3. ASSUME NEW i \in 1 .. n PROVE w[i] = h.name[i]
      <3>1. i \in 1 .. n + 1 /\ i \in 1 .. L /\ x + i - 1 = o + i
        BY <1>1, <1>6, <1>7
      <3>2. s[o + i] = u[i] /\ u[i] = t[i]
        BY <1>6, <1>7, <3>1
      <3>3. w[i] = s[x + i - 1]
        BY <2>1, <2>2
      <3> QED
        BY <1>1, <3>1, <3>2, <3>3
    <2> HIDE DEF w, x, y
    <2>4. w = h.name
      BY <1>h, <2>1, <2>2, <2>3, SameText DEF n
    <2> QED
      BY <2>4 DEF w
  <1> DEFINE w == SubSeq(u, b, L)
  <1>13. SubSeq(s, d, e - 1) = w
    <2> DEFINE z == SubSeq(s, d, e - 1)
               y == e - 1
    <2>1. d \in Nat \ {0} /\ y \in Int /\ y <= Len(s) /\ d <= y /\ y - d + 1 = L - b + 1
          /\ b \in Nat \ {0} /\ L \in Int /\ L <= Len(u) /\ b <= L
      BY <1>1, <1>6, <1>10, <1>11 DEF L
    <2> HIDE DEF y
    <2>2. z \in Text /\ Len(z) = y - d + 1 /\ \A i \in 1 .. Len(z) : z[i] = s[d + i - 1]
      BY <2>1, PieceIs DEF y
    <2>3. w \in Text /\ Len(w) = L - b + 1 /\ \A i \in 1 .. Len(w) : w[i] = u[b + i - 1]
      BY <1>3, <2>1, PieceIs
    <2> HIDE DEF z, w
    <2>4. ASSUME NEW i \in 1 .. Len(z) PROVE z[i] = w[i]
      <3>1. b + i - 1 \in 1 .. L /\ d + i - 1 = o + (b + i - 1) /\ i \in 1 .. Len(w)
        BY <1>6, <1>10, <2>1, <2>2, <2>3
      <3>2. s[o + (b + i - 1)] = u[b + i - 1]
        BY <1>6, <3>1
      <3> QED
        BY <2>2, <2>3, <3>1, <3>2
    <2>5. z = w
      BY <2>1, <2>2, <2>3, <2>4, SameText
    <2> QED
      BY <2>5 DEF z, y
  <1>14. SubSeq(t, n + 3, Len(t)) = h.value
    <2> DEFINE z == SubSeq(t, n + 3, Len(t))
               x == n + 3
    <2>1. x \in Nat \ {0} /\ Len(t) \in Int /\ Len(t) <= Len(t) /\ x <= Len(t) /\ Len(t) - x + 1 = v
      BY <1>1
    <2>2. z \in Text /\ Len(z) = v /\ \A i \in 1 .. Len(z) : z[i] = t[x + i - 1]
      <3> HIDE DEF x
      <3> QED
        BY <1>1, <2>1, PieceIs DEF x
    <2>3. ASSUME NEW i \in 1 .. Len(z) PROVE z[i] = h.value[i]
      <3>1. i \in 1 .. v /\ x + i - 1 = n + 2 + i
        BY <1>1, <2>2
      <3> QED
        BY <1>1, <2>2, <3>1
    <2> HIDE DEF z
    <2>4. z = h.value
      BY <1>h, <2>2, <2>3, SameText DEF v
    <2> QED
      BY <2>4 DEF z
  <1>15. r[L] = Len(t)
    BY <1>7 DEF Layout, L
  <1>16. CASE \E i \in d + 1 .. e - 1 : s[i] = "newline"
    <2> DEFINE q == [p \in 1 .. Len(w) |-> r[b + p - 1]]
    <2>1. Layout(w, q, t)
      BY <1>1, <1>3, <1>6, <1>7, LayoutEnd DEF L
    <2>2. q[1] = n + 3
      <3>1. 1 \in 1 .. Len(w) /\ b + 1 - 1 = b
        <4>1. b \in Nat \ {0} /\ L \in Int /\ L <= Len(u) /\ b <= L
          BY <1>1, <1>6 DEF L
        <4>2. Len(w) = L - b + 1
          BY <1>3, <4>1, PieceIs
        <4> QED
          BY <1>6, <4>2
      <3> QED
        BY <1>7, <3>1
    <2>3. w \in Text
      <3>1. b \in Nat \ {0} /\ L \in Int /\ L <= Len(u)
        BY <1>1, <1>6 DEF L
      <3> QED
        BY <1>3, <3>1, PieceIs
    <2> HIDE DEF w, q
    <2>4. UnfoldHeader(w) = SubSeq(t, n + 3, Len(t))
      <3>1. w \in Text /\ t \in Text /\ Layout(w, q, t) /\ WordsFrom(t, q[1])
        BY <1>1, <1>2, <2>1, <2>2, <2>3
      <3>2. UnfoldHeader(w) = SubSeq(t, q[1], Len(t))
        BY <3>1, LayoutUnfolds, Zenon
      <3> QED
        BY <2>2, <3>2
    <2>5. HeaderIn(s, o + 1, c, d, e) =
            [header |-> [name |-> h.name, value |-> h.value], end |-> o + L + 1]
      BY <1>11, <1>12, <1>13, <1>14, <1>16, <2>4 DEF HeaderIn
    <2> QED
      BY <1>8, <1>9, <1>h, <2>5 DEF L, u, t
  <1>17. CASE ~(\E i \in d + 1 .. e - 1 : s[i] = "newline")
    <2>1. ASSUME NEW i \in b .. L PROVE u[i] # "newline"
      <3>1. CASE i = b
        BY <1>7, <3>1
      <3>2. CASE i # b
        <4>1. o + i \in d + 1 .. e - 1 /\ i \in 1 .. L
          BY <1>6, <1>10, <1>11, <3>2
        <4> QED
          BY <1>6, <1>17, <4>1
      <3> QED
        BY <3>1, <3>2
    <2>2. b <= L /\ L \in 1 .. Len(u) /\ b \in 1 .. Len(u)
      BY <1>6 DEF L
    <2>3. w = SubSeq(t, r[b], Len(t))
      <3>1. /\ u \in Text /\ t \in Text /\ Layout(u, r, t) /\ b \in 1 .. Len(u)
            /\ \A i \in b .. Len(u) : u[i] # "newline"
        BY <1>1, <1>3, <1>7, <2>1, <2>2 DEF L
      <3>2. SubSeq(u, b, Len(u)) = SubSeq(t, r[b], Len(t))
        BY <3>1, LayoutRest, ZenonT(30)
      <3> QED
        BY <3>2 DEF L
    <2>4. w = h.value
      BY <1>7, <1>14, <1>15, <2>3
    <2> HIDE DEF w
    <2>5. HeaderIn(s, o + 1, c, d, e) =
            [header |-> [name |-> h.name, value |-> h.value], end |-> o + L + 1]
      BY <1>11, <1>12, <1>13, <1>17, <2>4 DEF HeaderIn
    <2> QED
      BY <1>8, <1>9, <1>h, <2>5 DEF L, u, t
  <1> QED
    BY <1>16, <1>17

\* Where the lines of the i-th header are in the head that is assembled.
LEMMA LinesAreThere ==
    ASSUME NEW hs \in Seq(Header),
           \A i \in 1 .. Len(hs) : PlainName(hs[i].name) /\ Foldable(hs[i].value),
           NEW g, PutTogether([i \in 1 .. Len(hs) |-> AssembledLine(hs[i])], Len(hs), g),
           NEW i \in 1 .. Len(hs)
    PROVE  /\ LinesAt(AssembledHead(hs), Len(g[i - 1]), FoldHeader(HeaderText(hs[i])))
           /\ Len(g[i]) = Len(g[i - 1]) + Len(FoldHeader(HeaderText(hs[i]))) + 1
           /\ Len(g[i]) <= Len(AssembledHead(hs))
  <1> DEFINE N == Len(hs)
             B == [j \in 1 .. N |-> AssembledLine(hs[j])]
             A == AssembledHead(hs)
             F(j) == FoldHeader(HeaderText(hs[j]))
  <1>1. N \in Nat /\ B \in [1 .. N -> Text] /\ A = FlattenSeq(B)
    BY AssembledLinesAre
  <1>2. PutTogether(B, N, g)
    OBVIOUS
  <1>3. \A j \in 1 .. N : hs[j] \in Header /\ PlainName(hs[j].name) /\ Foldable(hs[j].value)
    OBVIOUS
  <1>4. ASSUME NEW j \in 1 .. N
        PROVE  F(j) \in Text /\ Len(F(j)) >= 1 /\ F(j)[1] = "text" /\ B[j] = F(j) \o <<"newline">>
    <2> DEFINE h == hs[j]
               t == HeaderText(h)
               n == Len(h.name)
    <2>1. h \in Header /\ PlainName(h.name) /\ Foldable(h.value)
      BY <1>3
    <2> HIDE DEF h
    <2>2. t \in Text /\ n \in Nat \ {0} /\ \A k \in 1 .. n : t[k] = "text"
      BY <2>1, PlainHeaderIs DEF Foldable
    <2>3. PICK r, b : ValueAt(FoldHeader(t), r, t, n, b)
      BY <2>1, ValueIsLaidOut
    <2>4. FoldHeader(t) \in Text
      BY <2>2, FoldedIsText
    <2>5. 1 \in 1 .. n + 1 /\ 1 \in 1 .. n
      BY <2>2
    <2>6. FoldHeader(t)[1] = "text" /\ 1 \in 1 .. Len(FoldHeader(t))
      BY <2>2, <2>3, <2>5 DEF ValueAt
    <2>7. h.value # <<>>
      BY <2>1 DEF Foldable, Plain
    <2>8. AssembledLine(h) = FoldHeader(t) \o <<"newline">>
      BY <2>7 DEF AssembledLine
    <2> QED
      BY <2>4, <2>6, <2>8, TextIs DEF h
  <1>5. /\ \A j \in 0 .. N : g[j] \in Text
        /\ g[N] = A /\ \A j \in 1 .. N : g[j] = g[j - 1] \o B[j]
    BY <1>1, <1>2 DEF PutTogether
  <1>6. ASSUME NEW k \in 0 .. N
        PROVE  Len(g[k]) <= Len(A) /\ \A x \in 1 .. Len(g[k]) : A[x] = g[k][x]
    <2> HIDE DEF A, B, N
    <2>1. Len(g[k]) <= Len(g[N]) /\ \A x \in 1 .. Len(g[k]) : g[N][x] = g[k][x]
      BY <1>1, <1>2, StaysInFront
    <2> QED
      BY <1>5, <2>1
  <1> HIDE DEF A, B, N
  <1>7. ASSUME NEW j \in 1 .. N
        PROVE  /\ Len(g[j - 1]) \in Nat /\ Len(F(j)) \in Nat
               /\ Len(g[j]) = Len(g[j - 1]) + Len(F(j)) + 1
               /\ \A x \in 1 .. Len(F(j)) : g[j][Len(g[j - 1]) + x] = F(j)[x]
               /\ g[j][Len(g[j - 1]) + Len(F(j)) + 1] = "newline"
    <2> DEFINE f == F(j)
               a == g[j - 1]
               z == <<"newline">>
    <2>1. f \in Text /\ B[j] = f \o z
      BY <1>4
    <2>2. j - 1 \in 0 .. N
      BY <1>1
    <2>3. a \in Text /\ g[j] = a \o B[j]
      BY <1>5, <2>2
    <2>4. z \in Text /\ Len(z) = 1 /\ z[1] = "newline" /\ 1 \in 1 .. Len(z)
      <3>1. "newline" \in Symbol
        BY DEF Symbol
      <3> QED
        BY <3>1, OneCharacter
    <2> HIDE DEF f, a, z
    <2>5. /\ f \o z \in Text /\ Len(f \o z) = Len(f) + Len(z)
          /\ \A x \in 1 .. Len(f) : (f \o z)[x] = f[x]
          /\ \A x \in 1 .. Len(z) : (f \o z)[Len(f) + x] = z[x]
      BY <2>1, <2>4, JoinIs
    <2> DEFINE w == f \o z
    <2> HIDE DEF w
    <2>6. /\ Len(a \o w) = Len(a) + Len(w)
          /\ \A x \in 1 .. Len(w) : (a \o w)[Len(a) + x] = w[x]
      BY <2>3, <2>5, JoinIs DEF w
    <2>7. Len(a) \in Nat /\ Len(f) \in Nat /\ Len(w) = Len(f) + 1
      BY <2>1, <2>3, <2>4, <2>5, TextIs DEF w
    <2>8. Len(f) + 1 \in 1 .. Len(w) /\ Len(a) + (Len(f) + 1) = Len(a) + Len(f) + 1
          /\ \A x \in 1 .. Len(f) : x \in 1 .. Len(w)
      BY <2>7
    <2>9. g[j] = a \o w
      BY <2>1, <2>3 DEF w
    <2>10. \A x \in 1 .. Len(f) : g[j][Len(a) + x] = f[x]
      BY <2>5, <2>6, <2>8, <2>9 DEF w
    <2>11. g[j][Len(a) + Len(f) + 1] = "newline"
      BY <2>4, <2>5, <2>6, <2>8, <2>9 DEF w
    <2>12. Len(g[j]) = Len(a) + Len(f) + 1
      BY <2>6, <2>7, <2>9
    <2> QED
      BY <2>7, <2>10, <2>11, <2>12 DEF a, f
  <1> DEFINE o == Len(g[i - 1])
             L == Len(F(i))
  <1>8. i \in 1 .. N /\ i \in 0 .. N
    BY <1>1 DEF N
  <1>9. /\ o \in Nat /\ L \in Nat /\ Len(g[i]) = o + L + 1
        /\ \A x \in 1 .. L : g[i][o + x] = F(i)[x]
        /\ g[i][o + L + 1] = "newline"
    BY <1>7, <1>8
  <1> HIDE DEF o, L
  <1>10. Len(g[i]) <= Len(A) /\ \A x \in 1 .. Len(g[i]) : A[x] = g[i][x]
    BY <1>6, <1>8
  <1>l. Len(A) \in Nat
    <2>1. N \in 0 .. N
      BY <1>1
    <2> QED
      BY <1>5, <2>1, TextIs
  <1>11. ASSUME o + L + 2 <= Len(A) PROVE A[o + L + 2] \notin {"space", "encoded"}
    <2>1. i # N
      <3> SUFFICES ASSUME i = N PROVE FALSE
        OBVIOUS
      <3>1. Len(A) = o + L + 1
        BY <1>5, <1>9
      <3> QED
        BY <1>9, <1>11, <3>1
    <2>2. PICK j \in 1 .. N : j = i + 1 /\ j - 1 = i /\ j \in 0 .. N
      <3>1. i + 1 \in 1 .. N /\ (i + 1) - 1 = i /\ i + 1 \in 0 .. N
        BY <1>1, <1>8, <2>1
      <3> QED
        BY <3>1
    <2>3. /\ Len(F(j)) \in Nat /\ Len(g[j]) = Len(g[i]) + Len(F(j)) + 1
          /\ \A x \in 1 .. Len(F(j)) : g[j][Len(g[i]) + x] = F(j)[x]
      BY <1>7, <2>2
    <2>4. Len(F(j)) >= 1 /\ F(j)[1] = "text"
      BY <1>4
    <2>5. Len(g[i]) + 1 \in 1 .. Len(g[j]) /\ 1 \in 1 .. Len(F(j)) /\ Len(g[i]) + 1 = o + L + 2
      <3> DEFINE u == Len(g[i])
                 v == Len(g[j])
                 w == Len(F(j))
      <3>1. o \in Nat /\ L \in Nat /\ u = o + L + 1
        BY <1>9 DEF u
      <3>2. w \in Nat /\ v = u + w + 1 /\ w >= 1
        BY <2>3, <2>4
      <3> HIDE DEF u, v, w
      <3>3. u + 1 \in 1 .. v /\ 1 \in 1 .. w /\ u + 1 = o + L + 2
        BY <3>1, <3>2
      <3> QED
        BY <3>3 DEF u, v, w
    <2>6. A[Len(g[i]) + 1] = g[j][Len(g[i]) + 1]
      BY <1>6, <2>2, <2>5
    <2>7. A[o + L + 2] = "text"
      BY <2>3, <2>4, <2>5, <2>6
    <2> QED
      BY <2>7
  <1>12. \A x \in 1 .. L : A[o + x] = F(i)[x]
    <2>1. \A x \in 1 .. L : o + x \in 1 .. Len(g[i])
      BY <1>9
    <2> QED
      BY <1>9, <1>10, <2>1
  <1>13. A[o + L + 1] = "newline"
    <2>1. o + L + 1 \in 1 .. Len(g[i])
      BY <1>9
    <2> QED
      BY <1>9, <1>10, <2>1
  <1>14. LinesAt(A, o, F(i))
    BY <1>9, <1>10, <1>11, <1>12, <1>13 DEF LinesAt, L
  <1> QED
    BY <1>9, <1>10, <1>14 DEF A, o, L

\* A list is its i-th element and what is behind it.
LEMMA FromElement ==
    ASSUME NEW S, NEW s \in Seq(S), NEW i \in 1 .. Len(s)
    PROVE  /\ <<s[i]>> \o SubSeq(s, i + 1, Len(s)) = SubSeq(s, i, Len(s))
           /\ SubSeq(s, 1, Len(s)) = s
           /\ SubSeq(s, Len(s) + 1, Len(s)) = <<>>
  <1> DEFINE n == Len(s)
             a == <<s[i]>>
             b == SubSeq(s, i + 1, n)
             c == SubSeq(s, i, n)
             d == SubSeq(s, 1, n)
  <1>1. n \in Nat /\ i \in Int /\ i + 1 \in Int /\ n \in Int /\ \A k \in 1 .. n : s[k] \in S
    OBVIOUS
  <1>2. a \in Seq(S) /\ Len(a) = 1 /\ a[1] = s[i]
    BY <1>1
  <1>3. /\ b \in Seq(S) /\ Len(b) = (IF i + 1 <= n THEN n - (i + 1) + 1 ELSE 0)
        /\ \A k \in 1 .. n - (i + 1) + 1 : b[k] = s[i + 1 + k - 1]
    <2>1. \A k \in i + 1 .. n : s[k] \in S
      BY <1>1
    <2> HIDE DEF n
    <2> QED
      BY <1>1, <2>1, SubSeqProperties
  <1>4. /\ c \in Seq(S) /\ Len(c) = (IF i <= n THEN n - i + 1 ELSE 0)
        /\ \A k \in 1 .. n - i + 1 : c[k] = s[i + k - 1]
    <2>1. \A k \in i .. n : s[k] \in S
      BY <1>1
    <2> HIDE DEF n
    <2> QED
      BY <1>1, <2>1, SubSeqProperties
  <1>5. /\ d \in Seq(S) /\ Len(d) = (IF 1 <= n THEN n - 1 + 1 ELSE 0)
        /\ \A k \in 1 .. n - 1 + 1 : d[k] = s[1 + k - 1]
    <2> HIDE DEF n
    <2> QED
      BY <1>1, SubSeqProperties
  <1>6. /\ a \o b \in Seq(S) /\ Len(a \o b) = Len(a) + Len(b)
        /\ \A k \in 1 .. Len(a) + Len(b) :
              (a \o b)[k] = IF k <= Len(a) THEN a[k] ELSE b[k - Len(a)]
    <2> HIDE DEF a, b
    <2> QED
      BY <1>2, <1>3, ConcatProperties
  <1> DEFINE e == a \o b
  <1>i. i <= n /\ i >= 1
    BY <1>1
  <1> HIDE DEF n, a, b, c, d
  <1>7. e = c
    <2>1. Len(e) = n - i + 1 /\ Len(c) = n - i + 1
      BY <1>1, <1>2, <1>3, <1>4, <1>6, <1>i
    <2>2. ASSUME NEW k \in 1 .. n - i + 1 PROVE e[k] = c[k]
      <3>1. k \in 1 .. Len(a) + Len(b) /\ c[k] = s[i + k - 1]
        BY <1>1, <1>2, <1>4, <1>6, <2>1
      <3>2. CASE k = 1
        <4>1. i + k - 1 = i
          BY <1>1, <3>2
        <4> QED
          BY <1>2, <1>6, <3>1, <3>2, <4>1
      <3>3. CASE k # 1
        <4>1. k - 1 \in 1 .. n - (i + 1) + 1 /\ i + 1 + (k - 1) - 1 = i + k - 1 /\ ~(k <= 1)
          BY <1>1, <3>3
        <4>2. e[k] = b[k - 1] /\ b[k - 1] = s[i + 1 + (k - 1) - 1]
          BY <1>2, <1>3, <1>6, <3>1, <4>1
        <4> QED
          BY <3>1, <4>1, <4>2
      <3> QED
        BY <3>2, <3>3
    <2> HIDE DEF e
    <2>3. e \in Seq(S) /\ c \in Seq(S)
      BY <1>4, <1>6 DEF e
    <2> QED
      BY <2>1, <2>2, <2>3, SeqEqual
  <1>8. d = s
    <2>1. Len(d) = n /\ Len(s) = n
      BY <1>1, <1>5, <1>i DEF n
    <2>2. ASSUME NEW k \in 1 .. n PROVE d[k] = s[k]
      <3>1. k \in 1 .. n - 1 + 1 /\ 1 + k - 1 = k
        BY <1>1
      <3> QED
        BY <1>5, <3>1
    <2> QED
      BY <1>5, <2>1, <2>2, SeqEqual
  <1>9. SubSeq(s, n + 1, n) = <<>>
    <2>1. n + 1 \in Int /\ n < n + 1
      BY <1>1
    <2> QED
      BY <1>1, <2>1, SubSeqEmpty
  <1> QED
    BY <1>7, <1>8, <1>9 DEF n, a, b, c, d

-----------------------------------------------------------------------------
\* The headers behind the i-th are what parseHeaders() finds behind its lines.
Found(hs, g, p, i) == p[Len(g[i]) + 1] = SubSeq(hs, i + 1, Len(hs))

LEMMA LastIsFound ==
    ASSUME NEW hs \in Seq(Header), NEW s \in Text, NEW p, Parses(s, p), NEW g,
           g[Len(hs)] = s
    PROVE  Found(hs, g, p, Len(hs))
  <1> DEFINE n == Len(s)
  <1>1. n \in Nat
    BY TextIs
  <1>2. n + 1 \in Nat \ {0} /\ n + 1 > n
    BY <1>1
  <1>3. ~IsHeaderAt(s, n + 1)
    BY <1>2 DEF IsHeaderAt, NoHeaderAt
  <1>4. p[n + 1] = <<>>
    <2> HIDE DEF n
    <2> QED
      BY <1>2, <1>3 DEF Parses
  <1>5. SubSeq(hs, Len(hs) + 1, Len(hs)) = <<>>
    <2>1. Len(hs) \in Nat
      OBVIOUS
    <2>2. Len(hs) + 1 \in Int /\ Len(hs) \in Int /\ Len(hs) < Len(hs) + 1
      BY <2>1
    <2> QED
      BY <2>2, SubSeqEmpty
  <1> QED
    BY <1>4, <1>5 DEF Found

LEMMA OneMoreIsFound ==
    ASSUME NEW hs \in Seq(Header),
           \A i \in 1 .. Len(hs) : PlainName(hs[i].name) /\ Foldable(hs[i].value),
           NEW g, PutTogether([i \in 1 .. Len(hs) |-> AssembledLine(hs[i])], Len(hs), g),
           NEW p, Parses(AssembledHead(hs), p), AssembledHead(hs) \in Text,
           NEW i \in 1 .. Len(hs), Found(hs, g, p, i)
    PROVE  Found(hs, g, p, i - 1)
  <1> DEFINE A == AssembledHead(hs)
             h == hs[i]
             f == FoldHeader(HeaderText(h))
             o == Len(g[i - 1])
             L == Len(f)
  <1>1. LinesAt(A, o, f) /\ Len(g[i]) = o + L + 1
    BY LinesAreThere
  <1>2. h \in Header /\ PlainName(h.name) /\ Foldable(h.value)
    OBVIOUS
  <1>3. o \in Nat
    BY <1>1 DEF LinesAt
  <1>4. IsHeaderAt(A, o + 1) /\ ExtractHeader(A, o + 1) = [header |-> h, end |-> o + L + 1]
    <2>1. A \in Text
      OBVIOUS
    <2> HIDE DEF A, h, o
    <2>2. LinesAt(A, o, FoldHeader(HeaderText(h)))
      BY <1>1
    <2>3. /\ IsHeaderAt(A, o + 1)
          /\ ExtractHeader(A, o + 1) =
               [header |-> h, end |-> o + Len(FoldHeader(HeaderText(h))) + 1]
      BY <1>2, <2>1, <2>2, HeaderIsFound
    <2> QED
      BY <2>3
  <1>5. ExtractHeader(A, o + 1).header = h /\ NextCursor(A, o + 1) = Len(g[i]) + 1
    <2> HIDE DEF A, h, o, L
    <2> QED
      BY <1>1, <1>4 DEF NextCursor
  <1>6. p[o + 1] = <<h>> \o p[Len(g[i]) + 1]
    <2>1. o + 1 \in Nat \ {0}
      BY <1>3
    <2> HIDE DEF A, h, o, L
    <2> QED
      BY <2>1, <1>4, <1>5 DEF Parses, A
  <1>7. p[Len(g[i]) + 1] = SubSeq(hs, i + 1, Len(hs))
    BY DEF Found
  <1>8. <<h>> \o SubSeq(hs, i + 1, Len(hs)) = SubSeq(hs, i, Len(hs))
    BY FromElement
  <1>9. (i - 1) + 1 = i
    OBVIOUS
  <1>10. p[o + 1] = SubSeq(hs, i, Len(hs))
    BY <1>6, <1>7, <1>8
  <1> QED
    BY <1>9, <1>10 DEF Found

\* parseHeaders() of what assemble() makes.
LEMMA AssembledIsParsed ==
    ASSUME NEW hs \in Seq(Header),
           \A i \in 1 .. Len(hs) : PlainName(hs[i].name) /\ Foldable(hs[i].value)
    PROVE  ParseHeaders(AssembledHead(hs)) = hs
  <1> DEFINE N == Len(hs)
             B == [i \in 1 .. N |-> AssembledLine(hs[i])]
             A == AssembledHead(hs)
  <1>1. N \in Nat /\ B \in [1 .. N -> Text] /\ A = FlattenSeq(B)
    BY AssembledLinesAre
  <1>2. PICK g : PutTogether(B, N, g)
    <2> HIDE DEF B, N
    <2> QED
      BY <1>1, FlattenIs
  <1>3. g \in [0 .. N -> Text] /\ g[0] = <<>> /\ g[N] = A
    BY <1>1, <1>2 DEF PutTogether
  <1>4. A \in Text
    BY <1>1, <1>3
  <1>5. PICK p : Parses(A, p) /\ ParseHeaders(A) = p[1]
    BY <1>4, ParseHeadersIs
  <1> DEFINE S == {k \in Nat : k <= N => Found(hs, g, p, N - k)}
  <1>6. 0 \in S
    <2>1. Found(hs, g, p, N)
      BY <1>3, <1>4, <1>5, LastIsFound
    <2>2. N - 0 = N
      BY <1>1
    <2> QED
      BY <2>1, <2>2
  <1>7. ASSUME NEW k \in S PROVE k + 1 \in S
    <2> SUFFICES ASSUME k + 1 <= N PROVE Found(hs, g, p, N - (k + 1))
      OBVIOUS
    <2>1. k \in Nat
      OBVIOUS
    <2>2. PICK i \in 1 .. N : i = N - k
      <3>1. N - k \in 1 .. N
        BY <1>1, <2>1
      <3> QED
        BY <3>1
    <2>3. Found(hs, g, p, i)
      BY <2>1, <2>2, <1>1
    <2>4. Found(hs, g, p, i - 1)
      BY <1>2, <1>4, <1>5, <2>3, OneMoreIsFound
    <2>5. i - 1 = N - (k + 1)
      BY <1>1, <2>1, <2>2
    <2> QED
      BY <2>4, <2>5
  <1>8. Found(hs, g, p, 0)
    <2>1. S = Nat
      <3>1. S \in SUBSET Nat
        OBVIOUS
      <3> HIDE DEF S
      <3> QED
        BY <1>6, <1>7, <3>1, SetInduction
    <2>2. N \in S
      BY <1>1, <2>1
    <2>3. N <= N /\ N - N = 0
      BY <1>1
    <2> QED
      BY <2>2, <2>3
  <1>9. p[1] = SubSeq(hs, 1, N)
    <2>1. Len(g[0]) + 1 = 1 /\ 0 + 1 = 1
      BY <1>3
    <2> QED
      BY <1>8, <2>1 DEF Found
  <1>10. SubSeq(hs, 1, N) = hs
    <2>1. CASE N = 0
      <3>1. hs = <<>>
        BY <2>1
      <3>2. SubSeq(hs, 1, 0) = <<>>
        BY SubSeqEmpty
      <3> QED
        BY <2>1, <3>1, <3>2
    <2>2. CASE N # 0
      <3>1. 1 \in 1 .. Len(hs)
        BY <1>1, <2>2
      <3> QED
        BY <3>1, FromElement
    <2> QED
      BY <2>1, <2>2
  <1> QED
    BY <1>5, <1>9, <1>10

\* The headers that assemble() folds are the headers that parse() finds in the
\* head, in their order and with their values, for every number of headers and
\* every length of a line, name and value.
THEOREM FoldedHeadersArrive == Spec => []HeadersArrive
  <1>1. Init => AsGiven
    BY InitIsAsGiven
  <1>2. AsGiven /\ [Next]_vars => AsGiven'
    BY StepKeepsGiven
  <1>3. AsGiven => HeadersArrive
    <2> SUFFICES ASSUME AsGiven,
                        \A i \in DOMAIN headers :
                           PlainName(headers[i].name) /\ Foldable(headers[i].value)
                 PROVE  ParseHeaders(AssembledHead(headers)) = headers
      BY DEF HeadersArrive
    <2>1. headers \in Seq(Header)
      BY DEF AsGiven
    <2>2. \A i \in 1 .. Len(headers) :
             PlainName(headers[i].name) /\ Foldable(headers[i].value)
      BY <2>1
    <2> QED
      BY <2>1, <2>2, AssembledIsParsed
  <1> QED
    BY <1>1, <1>2, <1>3, PTL DEF Spec

-----------------------------------------------------------------------------
(* The words of a text.                                                    *)

\* What a number N has, and every smaller one when the greater ones have it, all have.
LEMMA DownFrom ==
    ASSUME NEW N \in Nat, NEW T,
           \A i \in 1 .. N : (\A j \in i + 1 .. N : j \in T) => i \in T
    PROVE  \A i \in 1 .. N : i \in T
  <1> DEFINE S == {k \in Nat : \A i \in 1 .. N : i > N - k => i \in T}
  <1>1. 0 \in S
    OBVIOUS
  <1>2. ASSUME NEW k \in S PROVE k + 1 \in S
    <2> SUFFICES ASSUME NEW i \in 1 .. N, i > N - (k + 1) PROVE i \in T
      OBVIOUS
    <2>1. \A j \in i + 1 .. N : j \in T
      OBVIOUS
    <2> QED
      BY <2>1
  <1>3. S = Nat
    <2>1. S \in SUBSET Nat
      OBVIOUS
    <2> HIDE DEF S
    <2> QED
      BY <1>1, <1>2, <2>1, SetInduction
  <1>4. N \in S
    BY <1>3
  <1> QED
    BY <1>4

\* The word that i is in ends before e.
EndsAt(t, i, e) ==
    /\ e \in i + 1 .. Len(t) + 1
    /\ \A j \in i .. e - 1 : ~Blank(t, j)
    /\ e <= Len(t) => Blank(t, e)

LEMMA WordEndIs ==
    ASSUME NEW t \in Text, NEW i \in 1 .. Len(t), ~Blank(t, i)
    PROVE  EndsAt(t, i, WordEnd(t, i))
  <1> DEFINE E == {Len(t) + 1} \cup {j \in i .. Len(t) : Blank(t, j)}
             e == Min(E)
  <1>1. Len(t) \in Nat /\ E \in SUBSET Nat /\ E # {}
    BY TextIs
  <1>2. e \in E /\ \A j \in E : e <= j
    <2> HIDE DEF E
    <2> QED
      BY <1>1, LeastNat
  <1>3. WordEnd(t, i) = e
    BY DEF WordEnd
  <1> HIDE DEF e
  <1>4. e \in i .. Len(t) + 1 /\ (e <= Len(t) => Blank(t, e))
    BY <1>1, <1>2
  <1>5. \A j \in i .. e - 1 : ~Blank(t, j)
    BY <1>1, <1>2, <1>4
  <1>6. e # i
    BY <1>1, <1>4
  <1> QED
    BY <1>1, <1>3, <1>4, <1>5, <1>6 DEF EndsAt

LEMMA OneWordEnd ==
    ASSUME NEW t \in Text, NEW i \in 1 .. Len(t), NEW e, EndsAt(t, i, e)
    PROVE  WordEnd(t, i) = e
  <1> DEFINE f == WordEnd(t, i)
  <1>1. /\ e \in i + 1 .. Len(t) + 1
        /\ \A j \in i .. e - 1 : ~Blank(t, j)
        /\ e <= Len(t) => Blank(t, e)
    BY DEF EndsAt
  <1>2. ~Blank(t, i) /\ Len(t) \in Nat
    BY <1>1, TextIs
  <1>3. /\ f \in i + 1 .. Len(t) + 1
        /\ \A j \in i .. f - 1 : ~Blank(t, j)
        /\ f <= Len(t) => Blank(t, f)
    BY <1>2, WordEndIs DEF EndsAt
  <1> HIDE DEF f
  <1>4. ~(f < e)
    <2> SUFFICES ASSUME f < e PROVE FALSE
      OBVIOUS
    <2>1. f \in i .. e - 1 /\ f <= Len(t)
      BY <1>1, <1>2, <1>3
    <2> QED
      BY <1>1, <1>3, <2>1
  <1>5. ~(e < f)
    <2> SUFFICES ASSUME e < f PROVE FALSE
      OBVIOUS
    <2>1. e \in i .. f - 1 /\ e <= Len(t)
      BY <1>1, <1>2, <1>3
    <2> QED
      BY <1>1, <1>3, <2>1
  <1>6. f = e
    BY <1>1, <1>2, <1>3, <1>4, <1>5
  <1> QED
    BY <1>6 DEF f

\* The word that starts at i.
WordAt(t, i) == SubSeq(t, i, WordEnd(t, i) - 1)

LEMMA WordIsText ==
    ASSUME NEW t \in Text, NEW i \in 1 .. Len(t), ~Blank(t, i)
    PROVE  WordAt(t, i) \in Text
  <1> DEFINE e == WordEnd(t, i)
  <1>1. e \in i + 1 .. Len(t) + 1 /\ Len(t) \in Nat
    BY WordEndIs, TextIs DEF EndsAt
  <1> HIDE DEF e
  <1>2. e - 1 \in Int /\ e - 1 <= Len(t) /\ i \in Nat \ {0}
    BY <1>1
  <1>3. SubSeq(t, i, e - 1) \in Text
    BY <1>2, PieceIs
  <1> QED
    BY <1>3 DEF WordAt, e

\* The words from i on.
WordsIn(t, w) ==
    /\ w \in [Nat \ {0} -> Seq(Text)]
    /\ \A i \in Nat \ {0} :
          w[i] = IF i > Len(t) THEN <<>>
                 ELSE IF Blank(t, i) THEN w[i + 1]
                 ELSE <<WordAt(t, i)>> \o w[WordEnd(t, i)]

LEMMA WordsAre ==
    ASSUME NEW t \in Text
    PROVE  \E w : WordsIn(t, w) /\ Words(t) = w[1]
  <1> DEFINE D == Nat \ {0}
             Stop == {i \in D : i > Len(t)}
             Goes(i) == IF Blank(t, i) THEN i + 1 ELSE WordEnd(t, i)
             next == [i \in D |-> Goes(i)]
             m == [i \in D |-> IF i <= Len(t) THEN Len(t) + 1 - i ELSE 0]
             Add(i, r) == IF Blank(t, i) THEN r ELSE <<WordAt(t, i)>> \o r
             last == [i \in D |-> <<>>]
             step == [i \in D |-> [r \in Seq(Text) |-> Add(i, r)]]
             Is(f) == f = [i \in D |-> IF i > Len(t) THEN <<>>
                                       ELSE IF Blank(t, i) THEN f[i + 1]
                                       ELSE <<WordAt(t, i)>> \o f[WordEnd(t, i)]]
  <1>0. Len(t) \in Nat /\ <<>> \in Seq(Text)
    BY TextIs
  <1>1. \A i \in D \ Stop : Goes(i) \in i + 1 .. Len(t) + 1
    <2> SUFFICES ASSUME NEW i \in D \ Stop PROVE Goes(i) \in i + 1 .. Len(t) + 1
      OBVIOUS
    <2>1. i \in 1 .. Len(t)
      BY <1>0
    <2>2. ~Blank(t, i) => WordEnd(t, i) \in i + 1 .. Len(t) + 1
      BY <2>1, WordEndIs DEF EndsAt
    <2> QED
      BY <1>0, <2>1, <2>2
  <1>2. Ends(D, Stop, next, m)
    <2>1. m \in [D -> Nat]
      BY <1>0
    <2>2. ASSUME NEW i \in D \ Stop PROVE next[i] \in D /\ m[next[i]] < m[i]
      <3>1. Goes(i) \in i + 1 .. Len(t) + 1
        BY <1>1
      <3>2. PICK n \in D : n = Goes(i) /\ n > i
        <4> HIDE DEF Goes
        <4> QED
          BY <3>1
      <3>3. next[i] = n
        BY <3>2
      <3>4. m[n] < m[i]
        BY <1>0, <3>2
      <3> QED
        BY <3>3, <3>4
    <2> QED
      BY <2>1, <2>2 DEF Ends
  <1>3. \A i \in D \ Stop : \A r \in Seq(Text) : Add(i, r) \in Seq(Text)
    <2> SUFFICES ASSUME NEW i \in D \ Stop, NEW r \in Seq(Text) PROVE Add(i, r) \in Seq(Text)
      OBVIOUS
    <2>1. CASE Blank(t, i)
      BY <2>1
    <2>2. CASE ~Blank(t, i)
      <3>1. i \in 1 .. Len(t)
        BY <1>0
      <3>2. WordAt(t, i) \in Text
        BY <2>2, <3>1, WordIsText
      <3>3. <<WordAt(t, i)>> \in Seq(Text)
        BY <3>2
      <3>4. <<WordAt(t, i)>> \o r \in Seq(Text)
        BY <3>3, ConcatProperties
      <3> QED
        BY <2>2, <3>4
    <2> QED
      BY <2>1, <2>2
  <1>4. Words(t) = (CHOOSE f : Is(f))[1]
    BY DEF Words, WordAt
  <1>5. \A f : Is(f) => /\ \A i \in D \ Stop : f[i] = Add(i, f[next[i]])
                        /\ \A i \in Stop : f[i] = <<>>
    <2> SUFFICES ASSUME NEW f, Is(f)
                 PROVE  /\ \A i \in D \ Stop : f[i] = Add(i, f[next[i]])
                        /\ \A i \in Stop : f[i] = <<>>
      OBVIOUS
    <2>1. \A i \in D : f[i] = IF i > Len(t) THEN <<>>
                              ELSE IF Blank(t, i) THEN f[i + 1]
                              ELSE <<WordAt(t, i)>> \o f[WordEnd(t, i)]
      OBVIOUS
    <2> QED
      BY <2>1
  <1>6. \A f : Is(f) => f \in [D -> Seq(Text)]
    <2> SUFFICES ASSUME NEW f, Is(f) PROVE f \in [D -> Seq(Text)]
      OBVIOUS
    <2> DEFINE U == {i \in D : f[i] \in Seq(Text)}
    <2>1. Inherits(U, D, Stop, next)
      <3> SUFFICES ASSUME NEW i \in D, i \in Stop \/ next[i] \in U PROVE f[i] \in Seq(Text)
        BY DEF Inherits
      <3> HIDE DEF Add, next, Is
      <3>1. CASE i \in Stop
        BY <1>0, <1>5, <3>1
      <3>2. CASE i \notin Stop
        <4>1. f[next[i]] \in Seq(Text)
          BY <3>2
        <4> QED
          BY <1>3, <1>5, <3>2, <4>1
      <3> QED
        BY <3>1, <3>2
    <2>2. \A i \in D : i \in U
      <3> HIDE DEF U, D, Stop, next, m
      <3> QED
        BY <1>2, <2>1, MeasureInduction
    <2>3. f = [i \in D |-> f[i]]
      OBVIOUS
    <2> HIDE DEF Is
    <2> QED
      BY <2>2, <2>3
  <1>7. \E f : Is(f)
    <2>1. PICK f : Unrolled(f, D, Stop, last, step, next)
      <3> HIDE DEF D, Stop, last, step, next, m
      <3> QED
        BY <1>2, RecursionIsDefined
    <2>2. f = [i \in D |-> IF i \in Stop THEN last[i] ELSE step[i][f[next[i]]]]
      BY <2>1 DEF Unrolled
    <2>3. \A i \in D : f[i] = IF i \in Stop THEN <<>> ELSE step[i][f[next[i]]]
      BY <2>2
    <2> DEFINE U == {i \in D : f[i] \in Seq(Text)}
    <2>4. Inherits(U, D, Stop, next)
      <3> SUFFICES ASSUME NEW i \in D, i \in Stop \/ next[i] \in U PROVE f[i] \in Seq(Text)
        BY DEF Inherits
      <3> HIDE DEF Add, next
      <3>1. CASE i \in Stop
        BY <1>0, <2>3, <3>1
      <3>2. CASE i \notin Stop
        <4>1. f[next[i]] \in Seq(Text)
          BY <3>2
        <4>2. f[i] = Add(i, f[next[i]])
          BY <2>3, <3>2, <4>1
        <4> QED
          BY <1>3, <3>2, <4>1, <4>2
      <3> QED
        BY <3>1, <3>2
    <2>5. \A i \in D : i \in U
      <3> HIDE DEF U, D, Stop, next, m
      <3> QED
        BY <1>2, <2>4, MeasureInduction
    <2>6. ASSUME NEW i \in D
          PROVE  f[i] = IF i > Len(t) THEN <<>>
                        ELSE IF Blank(t, i) THEN f[i + 1]
                        ELSE <<WordAt(t, i)>> \o f[WordEnd(t, i)]
      <3>1. CASE i \in Stop
        BY <2>3, <3>1
      <3>2. CASE i \notin Stop
        <4>1. next[i] \in D /\ next[i] = Goes(i)
          BY <1>2, <3>2 DEF Ends
        <4>2. f[Goes(i)] \in Seq(Text)
          BY <2>5, <4>1
        <4>3. f[i] = Add(i, f[Goes(i)])
          BY <2>3, <3>2, <4>1, <4>2
        <4> QED
          BY <3>2, <4>3
      <3> QED
        BY <3>1, <3>2
    <2>7. Is(f)
      BY <2>2, <2>6
    <2> QED
      BY <2>7
  <1> DEFINE w == CHOOSE f : Is(f)
  <1>8. Is(w)
    <2> HIDE DEF Is
    <2> QED
      BY <1>7
  <1>9. Words(t) = w[1]
    BY <1>4
  <1> HIDE DEF w
  <1>10. w \in [D -> Seq(Text)]
    <2> HIDE DEF Is
    <2> QED
      BY <1>6, <1>8
  <1>11. WordsIn(t, w)
    BY <1>8, <1>10 DEF WordsIn
  <1> QED
    BY <1>9, <1>11

\* White space in front of words does not matter.
LEMMA SkipBlanks ==
    ASSUME NEW t \in Text, NEW w, WordsIn(t, w),
           NEW i \in 1 .. Len(t) + 1, NEW j \in i .. Len(t) + 1,
           \A k \in i .. j - 1 : Blank(t, k)
    PROVE  w[i] = w[j]
  <1>0. Len(t) \in Nat
    BY TextIs
  <1>1. \A k \in Nat \ {0} : k <= Len(t) /\ Blank(t, k) => w[k] = w[k + 1]
    <2> SUFFICES ASSUME NEW k \in Nat \ {0}, k <= Len(t), Blank(t, k) PROVE w[k] = w[k + 1]
      OBVIOUS
    <2>1. w[k] = IF k > Len(t) THEN <<>>
                 ELSE IF Blank(t, k) THEN w[k + 1]
                 ELSE <<WordAt(t, k)>> \o w[WordEnd(t, k)]
      BY DEF WordsIn
    <2>2. ~(k > Len(t))
      BY <1>0
    <2> QED
      BY <2>1, <2>2
  <1> DEFINE T == {k \in i .. j : w[k] = w[j]}
  <1>2. ASSUME NEW k \in 1 .. j, \A l \in k + 1 .. j : l \in i .. j => l \in T, k \in i .. j PROVE k \in T
    <2>1. CASE k = j
      BY <1>2, <2>1
    <2>2. CASE k # j
      <3>1. k + 1 \in k + 1 .. j /\ k + 1 \in i .. j /\ k \in i .. j - 1 /\ k <= Len(t) /\ k \in Nat \ {0}
        BY <1>0, <1>1, <1>2, <2>2
      <3>2. w[k + 1] = w[j] /\ w[k] = w[k + 1]
        BY <1>0, <1>1, <1>2, <3>1
      <3> QED
        BY <1>2, <3>2
    <2> QED
      BY <2>1, <2>2
  <1> DEFINE U == {k \in 1 .. j : k \in i .. j => k \in T}
  <1>3. \A k \in 1 .. j : (\A l \in k + 1 .. j : l \in U) => k \in U
    BY <1>2
  <1>4. j \in Nat
    BY <1>0, <1>1
  <1>5. \A k \in 1 .. j : k \in U
    <2> HIDE DEF U, T
    <2> QED
      BY <1>3, <1>4, DownFrom
  <1>6. i \in 1 .. j /\ i \in i .. j
    BY <1>0, <1>1
  <1> QED
    BY <1>5, <1>6

LEMMA WordsFromHere ==
    ASSUME NEW t \in Text, NEW w, WordsIn(t, w), NEW i \in 1 .. Len(t) + 1
    PROVE  /\ w[i] \in Seq(Text)
           /\ i = Len(t) + 1 => w[i] = <<>>
           /\ i <= Len(t) /\ Blank(t, i) => w[i] = w[i + 1]
           /\ i <= Len(t) /\ ~Blank(t, i) =>
                 /\ WordAt(t, i) \in Text
                 /\ w[i] = <<WordAt(t, i)>> \o w[WordEnd(t, i)]
  <1>1. Len(t) \in Nat /\ i \in Nat \ {0}
    BY TextIs
  <1>2. /\ w[i] \in Seq(Text)
        /\ w[i] = IF i > Len(t) THEN <<>>
                  ELSE IF Blank(t, i) THEN w[i + 1]
                  ELSE <<WordAt(t, i)>> \o w[WordEnd(t, i)]
    BY <1>1 DEF WordsIn
  <1>3. i <= Len(t) /\ ~Blank(t, i) => WordAt(t, i) \in Text
    BY <1>1, WordIsText
  <1> QED
    BY <1>1, <1>2, <1>3

\* The text u has from d on what t has from a on.
SameTail(t, u, a, d) ==
    /\ d \in Int /\ a \in 1 .. Len(t) + 1 /\ a + d >= 1
    /\ Len(u) = Len(t) + d
    /\ \A i \in a .. Len(t) : u[i + d] = t[i] /\ (Blank(u, i + d) <=> Blank(t, i))

\* ... so it has the same words.
LEMMA SameTailSameWords ==
    ASSUME NEW t \in Text, NEW u \in Text, NEW w, NEW v, WordsIn(t, w), WordsIn(u, v),
           NEW a, NEW d, SameTail(t, u, a, d)
    PROVE  \A i \in a .. Len(t) + 1 : w[i] = v[i + d]
  <1>1. /\ Len(t) \in Nat /\ Len(u) \in Nat
        /\ d \in Int /\ a \in 1 .. Len(t) + 1 /\ a + d >= 1
        /\ Len(u) = Len(t) + d
    BY TextIs DEF SameTail
  <1>2. \A i \in a .. Len(t) : u[i + d] = t[i] /\ (Blank(u, i + d) <=> Blank(t, i))
    BY DEF SameTail
  <1> DEFINE N == Len(t) + 1
             T == {i \in 1 .. N : i >= a => w[i] = v[i + d]}
  <1>3. ASSUME NEW i \in 1 .. N, \A j \in i + 1 .. N : j \in T PROVE i \in T
    <2> SUFFICES ASSUME i >= a PROVE w[i] = v[i + d]
      OBVIOUS
    <2>1. i \in 1 .. Len(t) + 1 /\ i + d \in 1 .. Len(u) + 1
      BY <1>1
    <2>2. CASE i = Len(t) + 1
      <3>1. i + d = Len(u) + 1
        BY <1>1, <2>2
      <3>2. w[i] = <<>>
        BY <2>1, <2>2, WordsFromHere
      <3>3. v[i + d] = <<>>
        BY <2>1, <3>1, WordsFromHere
      <3> QED
        BY <3>2, <3>3
    <2>3. CASE i <= Len(t) /\ Blank(t, i)
      <3>1. i \in a .. Len(t) /\ i + 1 \in i + 1 .. N /\ i + 1 >= a /\ (i + 1) + d = (i + d) + 1
            /\ i + d <= Len(u)
        BY <1>1, <2>3
      <3>2. Blank(u, i + d)
        BY <1>2, <2>3, <3>1
      <3>3. w[i] = w[i + 1]
        BY <2>1, <2>3, WordsFromHere
      <3>4. v[i + d] = v[(i + d) + 1]
        BY <2>1, <3>1, <3>2, WordsFromHere
      <3>5. w[i + 1] = v[(i + 1) + d]
        BY <1>3, <3>1
      <3> QED
        BY <3>1, <3>3, <3>4, <3>5
    <2>4. CASE i <= Len(t) /\ ~Blank(t, i)
      <3> DEFINE e == WordEnd(t, i)
      <3>0. i \in a .. Len(t) /\ i \in 1 .. Len(t) /\ i + d \in 1 .. Len(u)
        BY <1>1, <2>4
      <3>1. /\ e \in i + 1 .. Len(t) + 1
            /\ \A j \in i .. e - 1 : ~Blank(t, j)
            /\ e <= Len(t) => Blank(t, e)
        BY <2>4, <3>0, WordEndIs DEF EndsAt
      <3>2. ~Blank(u, i + d)
        BY <1>2, <2>4, <3>0
      <3> HIDE DEF e
      <3>3. EndsAt(u, i + d, e + d)
        <4>1. e + d \in (i + d) + 1 .. Len(u) + 1
          BY <1>1, <3>1
        <4>2. ASSUME NEW k \in i + d .. (e + d) - 1 PROVE ~Blank(u, k)
          <5>1. PICK j \in i .. e - 1 : k = j + d
            <6>1. k - d \in i .. e - 1 /\ k = (k - d) + d
              BY <1>1, <3>0, <3>1
            <6> QED
              BY <6>1
          <5>2. j \in a .. Len(t)
            BY <1>1, <3>0, <3>1
          <5>3. ~Blank(t, j)
            BY <3>1
          <5> QED
            BY <1>2, <5>1, <5>2, <5>3
        <4>3. e + d <= Len(u) => Blank(u, e + d)
          <5> SUFFICES ASSUME e + d <= Len(u) PROVE Blank(u, e + d)
            OBVIOUS
          <5>1. e \in a .. Len(t)
            BY <1>1, <3>0, <3>1
          <5>2. Blank(t, e)
            BY <3>1, <5>1
          <5> QED
            BY <1>2, <5>1, <5>2
        <4> QED
          BY <4>1, <4>2, <4>3 DEF EndsAt
      <3>4. WordEnd(u, i + d) = e + d
        BY <3>0, <3>3, OneWordEnd
      <3>5. SubSeq(t, i, e - 1) = SubSeq(u, i + d, (e + d) - 1)
        <4> DEFINE x == SubSeq(t, i, e - 1)
                   y == SubSeq(u, i + d, (e + d) - 1)
        <4>0. /\ i \in Nat \ {0} /\ e - 1 \in Int /\ e - 1 <= Len(t) /\ i <= e - 1
              /\ i + d \in Nat \ {0} /\ (e + d) - 1 \in Int /\ (e + d) - 1 <= Len(u) /\ i + d <= (e + d) - 1
          BY <1>1, <3>0, <3>1
        <4>1. x \in Text /\ Len(x) = (e - 1) - i + 1 /\ \A k \in 1 .. Len(x) : x[k] = t[i + k - 1]
          BY <4>0, PieceIs
        <4>2. y \in Text /\ Len(y) = ((e + d) - 1) - (i + d) + 1 /\ \A k \in 1 .. Len(y) : y[k] = u[(i + d) + k - 1]
          BY <4>0, PieceIs
        <4> HIDE DEF x, y
        <4>3. Len(x) = Len(y)
          BY <1>1, <3>1, <3>0, <4>1, <4>2
        <4>4. ASSUME NEW k \in 1 .. Len(x) PROVE x[k] = y[k]
          <5>1. PICK j \in a .. Len(t) : j = i + k - 1 /\ j + d = (i + d) + k - 1
            <6>1. i + k - 1 \in a .. Len(t) /\ (i + k - 1) + d = (i + d) + k - 1
              BY <1>1, <3>0, <3>1, <4>1
            <6> QED
              BY <6>1
          <5>2. x[k] = t[j] /\ y[k] = u[j + d]
            BY <4>1, <4>2, <4>3, <5>1
          <5> QED
            BY <1>2, <5>2
        <4>5. x = y
          BY <4>1, <4>2, <4>3, <4>4, SameText
        <4> QED
          BY <4>5 DEF x, y
      <3>6. WordAt(t, i) = WordAt(u, i + d)
        BY <3>4, <3>5 DEF WordAt, e
      <3>7. w[i] = <<WordAt(t, i)>> \o w[e]
        BY <2>1, <2>4, WordsFromHere DEF e
      <3>8. v[i + d] = <<WordAt(u, i + d)>> \o v[e + d]
        <4>1. i + d <= Len(u)
          BY <3>0
        <4>2. v[i + d] = <<WordAt(u, i + d)>> \o v[WordEnd(u, i + d)]
          BY <2>1, <3>2, <4>1, WordsFromHere
        <4> QED
          BY <3>4, <4>2
      <3>9. w[e] = v[e + d]
        <4>1. e \in i + 1 .. N /\ e >= a
          BY <1>1, <3>0, <3>1
        <4> QED
          BY <1>3, <4>1
      <3> QED
        BY <3>6, <3>7, <3>8, <3>9
    <2> QED
      BY <1>1, <2>1, <2>2, <2>3, <2>4
  <1>4. N \in Nat
    BY <1>1
  <1>5. \A i \in 1 .. N : i \in T
    <2> HIDE DEF N, T
    <2> QED
      BY <1>3, <1>4, DownFrom
  <1> SUFFICES ASSUME NEW i \in a .. Len(t) + 1 PROVE w[i] = v[i + d]
    OBVIOUS
  <1>6. i \in 1 .. N /\ i >= a
    BY <1>1
  <1> QED
    BY <1>5, <1>6

LEMMA SameJoin ==
    ASSUME NEW x \in Seq(Text), NEW y \in Seq(Text), NEW z \in Seq(Text)
    PROVE  x \o (y \o z) = (x \o y) \o z
BY ConcatAssociative, SMTT(30)

\* The text t is h and nothing more or white space.
IsBefore(h, t) ==
    /\ Len(h) <= Len(t)
    /\ \A i \in 1 .. Len(h) : h[i] = t[i]
    /\ Len(h) = Len(t) \/ Blank(t, Len(h) + 1)

\* The words up to white space, and those behind it.
LEMMA WordsBefore ==
    ASSUME NEW t \in Text, NEW h \in Text, NEW w, NEW v, WordsIn(t, w), WordsIn(h, v),
           IsBefore(h, t)
    PROVE  w[1] = v[1] \o w[Len(h) + 1]
  <1> DEFINE n == Len(h)
             N == n + 1
             T == {i \in 1 .. N : w[i] = v[i] \o w[n + 1]}
  <1>1. n \in Nat /\ Len(t) \in Nat /\ n <= Len(t) /\ (n = Len(t) \/ Blank(t, n + 1))
    BY TextIs DEF IsBefore
  <1>0. \A i \in 1 .. n : h[i] = t[i]
    BY DEF IsBefore
  <1>2. ASSUME NEW i \in 1 .. n PROVE Blank(h, i) <=> Blank(t, i)
    <2>1. h[i] = t[i]
      BY <1>0
    <2>2. i > 1 => h[i - 1] = t[i - 1]
      <3> SUFFICES ASSUME i > 1 PROVE h[i - 1] = t[i - 1]
        OBVIOUS
      <3>1. i - 1 \in 1 .. n
        BY <1>1
      <3> QED
        BY <1>0, <3>1
    <2> QED
      BY <2>1, <2>2 DEF Blank
  <1> HIDE DEF n
  <1>3. ASSUME NEW i \in 1 .. N, \A j \in i + 1 .. N : j \in T PROVE i \in T
    <2> SUFFICES w[i] = v[i] \o w[n + 1]
      OBVIOUS
    <2>0. /\ w[n + 1] \in Seq(Text)
          /\ v[n + 1] = <<>>
      <3>1. n + 1 \in 1 .. Len(t) + 1 /\ n + 1 \in 1 .. Len(h) + 1 /\ n + 1 = Len(h) + 1
        BY <1>1 DEF n
      <3> QED
        BY <3>1, WordsFromHere
    <2>1. i \in 1 .. Len(t) + 1 /\ i \in 1 .. Len(h) + 1
      BY <1>1 DEF n
    <2>2. CASE i = n + 1
      <3>1. w[n + 1] = <<>> \o w[n + 1]
        BY <2>0, ConcatEmptySeq
      <3> QED
        BY <2>0, <2>2, <3>1
    <2>3. CASE i <= n /\ Blank(t, i)
      <3>1. i \in 1 .. n /\ i <= Len(t) /\ i <= Len(h) /\ i + 1 \in i + 1 .. N
        BY <1>1, <2>3 DEF n
      <3>2. Blank(h, i)
        BY <1>2, <2>3, <3>1
      <3>3. w[i] = w[i + 1] /\ v[i] = v[i + 1]
        BY <2>1, <2>3, <3>1, <3>2, WordsFromHere
      <3>4. w[i + 1] = v[i + 1] \o w[n + 1]
        BY <1>3, <3>1
      <3> QED
        BY <3>3, <3>4
    <2>4. CASE i <= n /\ ~Blank(t, i)
      <3> DEFINE e == WordEnd(h, i)
      <3>1. i \in 1 .. n /\ i \in 1 .. Len(t) /\ i \in 1 .. Len(h)
        BY <1>1, <2>4 DEF n
      <3>2. ~Blank(h, i)
        BY <1>2, <2>4, <3>1
      <3>3. /\ e \in i + 1 .. n + 1
            /\ \A j \in i .. e - 1 : ~Blank(h, j)
            /\ e <= n => Blank(h, e)
        BY <3>1, <3>2, WordEndIs DEF EndsAt, n
      <3> HIDE DEF e
      <3>4. EndsAt(t, i, e)
        <4>1. e \in i + 1 .. Len(t) + 1
          BY <1>1, <3>3
        <4>2. ASSUME NEW j \in i .. e - 1 PROVE ~Blank(t, j)
          <5>1. j \in 1 .. n
            BY <1>1, <3>1, <3>3
          <5> QED
            BY <1>2, <3>3, <5>1
        <4>3. e <= Len(t) => Blank(t, e)
          <5> SUFFICES ASSUME e <= Len(t) PROVE Blank(t, e)
            OBVIOUS
          <5>1. CASE e <= n
            <6>1. e \in 1 .. n
              BY <3>1, <3>3, <5>1
            <6> QED
              BY <1>2, <3>3, <5>1, <6>1
          <5>2. CASE ~(e <= n)
            <6>1. e = n + 1 /\ n # Len(t)
              BY <1>1, <3>3, <5>2
            <6> QED
              BY <1>1, <6>1
          <5> QED
            BY <5>1, <5>2
        <4> QED
          BY <4>1, <4>2, <4>3 DEF EndsAt
      <3>5. WordEnd(t, i) = e
        BY <3>1, <3>4, OneWordEnd
      <3>6. SubSeq(t, i, e - 1) = SubSeq(h, i, e - 1)
        <4> DEFINE x == SubSeq(t, i, e - 1)
                   y == SubSeq(h, i, e - 1)
        <4>0. i \in Nat \ {0} /\ e - 1 \in Int /\ e - 1 <= Len(t) /\ e - 1 <= Len(h) /\ i <= e - 1
          BY <1>1, <3>1, <3>3 DEF n
        <4>1. x \in Text /\ Len(x) = (e - 1) - i + 1 /\ \A k \in 1 .. Len(x) : x[k] = t[i + k - 1]
          BY <4>0, PieceIs
        <4>2. y \in Text /\ Len(y) = (e - 1) - i + 1 /\ \A k \in 1 .. Len(y) : y[k] = h[i + k - 1]
          BY <4>0, PieceIs
        <4> HIDE DEF x, y
        <4>3. ASSUME NEW k \in 1 .. Len(x) PROVE x[k] = y[k]
          <5>1. i + k - 1 \in 1 .. n
            BY <1>1, <3>1, <3>3, <4>1
          <5>2. x[k] = t[i + k - 1] /\ y[k] = h[i + k - 1]
            BY <4>1, <4>2
          <5> QED
            BY <1>0, <5>1, <5>2
        <4>4. x = y
          BY <4>1, <4>2, <4>3, SameText
        <4> QED
          BY <4>4 DEF x, y
      <3>7. w[i] = <<WordAt(t, i)>> \o w[e] /\ WordAt(t, i) \in Text
        <4>1. i <= Len(t)
          BY <3>1
        <4> QED
          BY <2>1, <2>4, <3>5, <4>1, WordsFromHere
      <3>8. v[i] = <<WordAt(t, i)>> \o v[e]
        <4>1. i <= Len(h)
          BY <3>1
        <4>2. WordAt(t, i) = WordAt(h, i)
          BY <3>5, <3>6 DEF WordAt, e
        <4> QED
          <5>1. /\ WordAt(h, i) \in Text
                /\ v[i] = <<WordAt(h, i)>> \o v[WordEnd(h, i)]
            BY <2>1, <3>1, <3>2, WordsFromHere
          <5> QED
            BY <4>2, <5>1 DEF e
      <3>9. w[e] = v[e] \o w[n + 1] /\ v[e] \in Seq(Text)
        <4>1. e \in i + 1 .. N /\ e \in 1 .. Len(h) + 1
          BY <1>1, <3>1, <3>3 DEF n
        <4> QED
          BY <1>3, <4>1, WordsFromHere
      <3>10. <<WordAt(t, i)>> \in Seq(Text)
        BY <3>7
      <3>11. <<WordAt(t, i)>> \o (v[e] \o w[n + 1]) = (<<WordAt(t, i)>> \o v[e]) \o w[n + 1]
        BY <2>0, <3>9, <3>10, SameJoin
      <3> QED
        BY <3>7, <3>8, <3>9, <3>11
    <2>5. i = n + 1 \/ i <= n
      BY <1>1
    <2> QED
      BY <2>2, <2>3, <2>4, <2>5
  <1>4. N \in Nat /\ 1 \in 1 .. N
    BY <1>1
  <1>5. \A i \in 1 .. N : i \in T
    <2> HIDE DEF N, T
    <2> QED
      BY <1>3, <1>4, DownFrom
  <1> QED
    BY <1>4, <1>5 DEF n

\* A text of white space has no words.
LEMMA BlankText ==
    ASSUME NEW t \in Text, \A i \in 1 .. Len(t) : Blank(t, i)
    PROVE  Words(t) = <<>>
  <1>1. PICK w : WordsIn(t, w) /\ Words(t) = w[1]
    BY WordsAre
  <1>2. Len(t) \in Nat
    BY TextIs
  <1>3. 1 \in 1 .. Len(t) + 1 /\ Len(t) + 1 \in 1 .. Len(t) + 1
    BY <1>2
  <1>4. \A k \in 1 .. (Len(t) + 1) - 1 : Blank(t, k)
    BY <1>2
  <1>5. w[1] = w[Len(t) + 1]
    BY <1>1, <1>3, <1>4, SkipBlanks
  <1>6. w[Len(t) + 1] = <<>>
    BY <1>1, <1>3, WordsFromHere
  <1> QED
    BY <1>1, <1>5, <1>6

\* What is left of a text from a on.
LEMMA TailIs ==
    ASSUME NEW t \in Text, NEW a \in 1 .. Len(t) + 1,
           a <= Len(t) /\ Blank(t, a) => t[a] \in Space
    PROVE  LET x == SubSeq(t, a, Len(t))
           IN  x \in Text /\ Len(x) = Len(t) + 1 - a /\ SameTail(t, x, a, 1 - a)
  <1> DEFINE x == SubSeq(t, a, Len(t))
             n == Len(t)
  <1>1. n \in Nat /\ a \in Nat \ {0} /\ n \in Int /\ n <= Len(t) /\ a \in 1 .. n + 1
    BY TextIs
  <1>2. /\ x \in Text /\ Len(x) = IF a <= n THEN n - a + 1 ELSE 0
        /\ \A i \in 1 .. Len(x) : x[i] = t[a + i - 1]
    BY <1>1, PieceIs
  <1>c. a <= n /\ Blank(t, a) => t[a] \in Space
    OBVIOUS
  <1>d. 1 - a \in Int /\ a + (1 - a) >= 1
    BY <1>1
  <1> HIDE DEF x, n
  <1>3. Len(x) = n + 1 - a
    BY <1>1, <1>2
  <1>4. ASSUME NEW i \in a .. n
        PROVE  x[i + (1 - a)] = t[i] /\ (Blank(x, i + (1 - a)) <=> Blank(t, i))
    <2>1. PICK j \in 1 .. Len(x) : j = i + (1 - a) /\ i = a + j - 1
      <3>1. i + (1 - a) \in 1 .. Len(x) /\ i = a + (i + (1 - a)) - 1
        BY <1>1, <1>3
      <3> QED
        BY <3>1
    <2>2. x[j] = t[i]
      BY <1>2, <2>1
    <2>3. CASE i = a
      <3>1. j = 1 /\ a <= n
        BY <1>1, <2>1, <2>3
      <3>2. ~(j > 1)
        BY <3>1
      <3> QED
        BY <1>c, <2>1, <2>2, <2>3, <3>1, <3>2 DEF Blank
    <2>4. CASE i # a
      <3>1. j - 1 \in 1 .. Len(x) /\ a + (j - 1) - 1 = i - 1 /\ j > 1 /\ i > 1
        BY <1>1, <1>3, <2>1, <2>4
      <3>2. x[j - 1] = t[i - 1]
        BY <1>2, <3>1
      <3>3. Blank(x, j) <=> Blank(t, i)
        BY <2>2, <3>1, <3>2 DEF Blank
      <3> QED
        BY <2>1, <2>2, <3>3
    <2> QED
      BY <2>3, <2>4
  <1>5. SameTail(t, x, a, 1 - a)
    <2>1. /\ a \in 1 .. Len(t) + 1 /\ Len(x) = Len(t) + (1 - a)
          /\ \A i \in a .. Len(t) : x[i + (1 - a)] = t[i] /\ (Blank(x, i + (1 - a)) <=> Blank(t, i))
      <3>1. n + 1 - a = n + (1 - a)
        BY <1>1
      <3> QED
        BY <1>1, <1>3, <1>4, <3>1 DEF n
    <2> QED
      BY <1>d, <2>1 DEF SameTail
  <1> QED
    BY <1>2, <1>3, <1>5 DEF x, n

LEMMA TailWords ==
    ASSUME NEW t \in Text, NEW a \in 1 .. Len(t) + 1,
           a <= Len(t) /\ Blank(t, a) => t[a] \in Space,
           NEW w, WordsIn(t, w)
    PROVE  Words(SubSeq(t, a, Len(t))) = w[a]
  <1> DEFINE x == SubSeq(t, a, Len(t))
  <1>1. x \in Text /\ SameTail(t, x, a, 1 - a)
    BY TailIs
  <1> HIDE DEF x
  <1>2. PICK v : WordsIn(x, v) /\ Words(x) = v[1]
    BY <1>1, WordsAre
  <1>3. \A i \in a .. Len(t) + 1 : w[i] = v[i + (1 - a)]
    BY <1>1, <1>2, SameTailSameWords
  <1>4. a \in a .. Len(t) + 1 /\ a + (1 - a) = 1
    BY TextIs
  <1>5. w[a] = v[1]
    BY <1>3, <1>4
  <1> QED
    BY <1>2, <1>5 DEF x

\* The words are those from the first character on.
LEMMA AllWords ==
    ASSUME NEW t \in Text, NEW w, WordsIn(t, w)
    PROVE  Words(t) = w[1]
  <1>1. 1 \in 1 .. Len(t) + 1 /\ (Blank(t, 1) => t[1] \in Space)
    BY TextIs DEF Blank
  <1>2. SubSeq(t, 1, Len(t)) = t
    BY SubSeqFull DEF Text
  <1>3. Words(SubSeq(t, 1, Len(t))) = w[1]
    BY <1>1, TailWords
  <1> QED
    BY <1>2, <1>3

\* The last character is a word of its own.
Alone(t) == Len(t) > 1 /\ Blank(t, Len(t) - 1) /\ ~Blank(t, Len(t))

LEMMA AloneIsWord ==
    ASSUME NEW t \in Text, Alone(t)
    PROVE  Len(Last(Words(t))) = 1
  <1> DEFINE n == Len(t)
             h == SubSeq(t, 1, n - 2)
  <1>1. n \in Nat /\ n > 1 /\ Blank(t, n - 1) /\ ~Blank(t, n)
    BY TextIs DEF Alone
  <1>2. h \in Text /\ Len(h) = n - 2 /\ \A i \in 1 .. Len(h) : h[i] = t[i]
    <2>1. 1 \in Nat \ {0} /\ n - 2 \in Int /\ n - 2 <= Len(t)
      BY <1>1
    <2>2. /\ h \in Text /\ Len(h) = IF 1 <= n - 2 THEN (n - 2) - 1 + 1 ELSE 0
          /\ \A i \in 1 .. Len(h) : h[i] = t[1 + i - 1]
      BY <2>1, PieceIs
    <2> HIDE DEF h, n
    <2>3. Len(h) = n - 2
      <3>1. (IF 1 <= n - 2 THEN (n - 2) - 1 + 1 ELSE 0) = n - 2
        BY <1>1
      <3> QED
        BY <2>2, <3>1
    <2>4. \A i \in 1 .. Len(h) : 1 + i - 1 = i
      BY <1>1, <2>3
    <2> QED
      BY <2>2, <2>3, <2>4
  <1>3. PICK w : WordsIn(t, w) /\ Words(t) = w[1]
    BY WordsAre
  <1> HIDE DEF h
  <1>4. PICK v : WordsIn(h, v) /\ Words(h) = v[1]
    BY <1>2, WordsAre
  <1>5. w[1] = v[1] \o w[n - 1]
    <2>1. Len(h) <= Len(t) /\ Len(h) + 1 = n - 1
      BY <1>1, <1>2
    <2>2. Blank(t, Len(h) + 1)
      BY <1>1, <2>1
    <2>3. IsBefore(h, t)
      BY <1>2, <2>1, <2>2 DEF IsBefore
    <2>4. w[1] = v[1] \o w[Len(h) + 1]
      <3>1. h \in Text /\ WordsIn(t, w) /\ WordsIn(h, v)
        BY <1>2, <1>3, <1>4
      <3> QED
        BY <2>3, <3>1, WordsBefore, ZenonT(30)
    <2> QED
      BY <2>1, <2>4
  <1>6. w[n - 1] = w[n]
    <2>1. n - 1 \in 1 .. Len(t) + 1 /\ n - 1 <= Len(t) /\ (n - 1) + 1 = n
      BY <1>1
    <2>2. w[n - 1] = w[(n - 1) + 1]
      BY <1>1, <1>3, <2>1, WordsFromHere
    <2> QED
      BY <2>1, <2>2
  <1> DEFINE x == WordAt(t, n)
  <1>7. w[n] = <<x>> \o w[n + 1] /\ x \in Text /\ Len(x) = 1 /\ w[n + 1] = <<>>
    <2>1. n \in 1 .. Len(t) + 1 /\ n \in 1 .. Len(t) /\ n <= Len(t) /\ n + 1 \in 1 .. Len(t) + 1
      BY <1>1
    <2>2. EndsAt(t, n, n + 1)
      <3>1. n + 1 \in n + 1 .. Len(t) + 1 /\ ~(n + 1 <= Len(t)) /\ \A j \in n .. (n + 1) - 1 : j = n
        BY <1>1
      <3> QED
        BY <1>1, <3>1 DEF EndsAt
    <2>3. WordEnd(t, n) = n + 1
      BY <2>1, <2>2, OneWordEnd
    <2>4. w[n] = <<x>> \o w[n + 1] /\ x \in Text
      <3>1. WordsIn(t, w) /\ ~Blank(t, n)
        BY <1>1, <1>3
      <3>2. /\ WordAt(t, n) \in Text
            /\ w[n] = <<WordAt(t, n)>> \o w[WordEnd(t, n)]
        BY <2>1, <3>1, WordsFromHere, ZenonT(30)
      <3> QED
        BY <2>3, <3>2
    <2>5. w[n + 1] = <<>>
      BY <1>3, <2>1, WordsFromHere
    <2>6. x = SubSeq(t, n, (n + 1) - 1)
      BY <2>3 DEF WordAt
    <2>7. Len(SubSeq(t, n, (n + 1) - 1)) = 1
      <3>1. n \in Nat \ {0} /\ (n + 1) - 1 \in Int /\ (n + 1) - 1 <= Len(t) /\ n <= (n + 1) - 1
            /\ ((n + 1) - 1) - n + 1 = 1
        BY <1>1
      <3> QED
        BY <3>1, PieceIs
    <2> QED
      BY <2>4, <2>5, <2>6, <2>7
  <1> HIDE DEF x, n
  <1>8. <<x>> \o w[n + 1] = <<x>>
    <2>1. <<x>> \in Seq(Text)
      BY <1>7
    <2> QED
      BY <1>7, <2>1, ConcatEmptySeq
  <1>9. v[1] \in Seq(Text)
    BY <1>4 DEF WordsIn
  <1> DEFINE y == v[1]
  <1>10. w[1] = y \o <<x>> /\ y \in Seq(Text)
    BY <1>5, <1>6, <1>7, <1>8, <1>9
  <1> HIDE DEF y
  <1>11. Last(w[1]) = x
    <2>1. <<x>> \in Seq(Text) /\ Len(<<x>>) = 1 /\ <<x>>[1] = x
      BY <1>7
    <2>2. /\ Len(y \o <<x>>) = Len(y) + 1
          /\ \A i \in 1 .. Len(y) + 1 : (y \o <<x>>)[i] = IF i <= Len(y) THEN y[i] ELSE <<x>>[i - Len(y)]
      BY <1>10, <2>1, ConcatProperties
    <2>3. Len(y) \in Nat
      BY <1>10, LenProperties
    <2>4. (y \o <<x>>)[Len(y) + 1] = x
      <3>1. Len(y) + 1 \in 1 .. Len(y) + 1 /\ ~(Len(y) + 1 <= Len(y)) /\ (Len(y) + 1) - Len(y) = 1
        BY <2>3
      <3> QED
        BY <2>1, <2>2, <3>1
    <2> QED
      BY <1>10, <2>2, <2>4 DEF Last
  <1> QED
    BY <1>3, <1>7, <1>11

-----------------------------------------------------------------------------
(* unfoldHeader() keeps the words.                                         *)

\* Every line but the first has a character that is no white space.
Solid(t) ==
    \A mid \in Positions(t, "newline") :
        \E i \in mid + 1 .. Len(t) : /\ t[i] \notin Space \cup {"encoded"}
                                     /\ \A k \in mid + 1 .. i : t[k] # "newline"

\* Unfolding goes on with the first word of the next line.
LEMMA FoldEnds ==
    ASSUME NEW h \in Text, Solid(h), ~Alone(h),
           NEW pos \in Nat \ {0}, NEW mid, NEW b, NEW e, FoldAt(h, pos, mid, b, e)
    PROVE  e < Len(h) /\ ~Blank(h, e) /\ \A i \in mid .. e - 1 : Blank(h, i)
  <1>1. /\ Len(h) \in Nat /\ DOMAIN h = 1 .. Len(h)
        /\ mid \in pos .. Len(h) /\ h[mid] = "newline"
        /\ e \in mid + 1 .. Len(h) + 1
        /\ \A i \in mid + 1 .. e - 1 : Gone(h, i)
        /\ e <= Len(h) => ~Gone(h, e)
    BY TextIs DEF FoldAt
  <1>2. mid \in Positions(h, "newline")
    BY <1>1 DEF Positions
  <1>3. PICK i \in mid + 1 .. Len(h) : /\ h[i] \notin Space \cup {"encoded"}
                                       /\ \A k \in mid + 1 .. i : h[k] # "newline"
    BY <1>2 DEF Solid
  <1>4. ~Gone(h, i)
    BY <1>3 DEF Gone
  <1>5. e <= i
    <2> SUFFICES ASSUME e > i PROVE FALSE
      BY <1>1
    <2>1. i \in mid + 1 .. e - 1
      BY <1>1
    <2> QED
      BY <1>1, <1>4, <2>1
  <1>6. e <= Len(h) /\ e > 1 /\ ~Gone(h, e)
    BY <1>1, <1>5
  <1>7. \A k \in mid .. e - 1 : Blank(h, k)
    <2> SUFFICES ASSUME NEW k \in mid .. e - 1 PROVE Blank(h, k)
      OBVIOUS
    <2>1. CASE k = mid
      BY <1>1, <2>1 DEF Blank, Space
    <2>2. CASE k # mid
      <3>1. k \in mid + 1 .. e - 1 /\ k > 1
        BY <1>1, <2>2
      <3>2. Gone(h, k)
        BY <1>1, <3>1
      <3> QED
        BY <3>1, <3>2 DEF Gone, Blank
    <2> QED
      BY <2>1, <2>2
  <1>8. ~Blank(h, e)
    <2> SUFFICES ASSUME Blank(h, e) PROVE FALSE
      OBVIOUS
    <2>1. h[e] = "encoded" /\ ~(e < Len(h))
      BY <1>6 DEF Blank, Gone
    <2>2. e = i
      BY <1>1, <1>5, <2>1
    <2> QED
      BY <1>3, <2>1, <2>2
  <1>9. e # Len(h)
    <2> SUFFICES ASSUME e = Len(h) PROVE FALSE
      OBVIOUS
    <2>1. e - 1 \in mid .. e - 1 /\ Len(h) > 1
      BY <1>1, <1>6
    <2>2. Blank(h, Len(h) - 1)
      BY <1>7, <2>1
    <2> QED
      BY <1>8, <2>1, <2>2 DEF Alone
  <1>10. e < Len(h)
    <2> DEFINE n == Len(h)
    <2>0. mid \in Nat /\ n \in Nat
      BY <1>1
    <2>1. e \in Nat /\ n \in Nat /\ e <= n /\ e # n
      <3>1. e \in Nat
        BY <1>1, <2>0
      <3>2. e <= n /\ e # n
        BY <1>6, <1>9
      <3> QED
        BY <2>0, <3>1, <3>2
    <2> HIDE DEF n
    <2>2. e < n
      BY <2>1
    <2> QED
      BY <2>2 DEF n
  <1> QED
    BY <1>7, <1>8, <1>10

\* No =20 that is white space is at i.
Plainly(h, i) == Blank(h, i) => h[i] \in Space

\* What is kept before a fold, and its words.
LEMMA KeptWords ==
    ASSUME NEW h \in Text, Solid(h), ~Alone(h), NEW w, WordsIn(h, w),
           NEW pos \in Nat \ {0}, NEW mid, NEW b, NEW e, FoldAt(h, pos, mid, b, e),
           Plainly(h, pos)
    PROVE  w[pos] = Words(SubSeq(h, pos, b)) \o w[e]
  <1> DEFINE n == Len(h)
             x == SubSeq(h, pos, b)
             y == SubSeq(h, pos, n)
  <1>1. /\ n \in Nat
        /\ mid \in pos .. n /\ h[mid] = "newline"
        /\ \A i \in pos .. mid - 1 : h[i] # "newline"
        /\ b \in 0 .. mid - 1
        /\ \A i \in b + 1 .. mid - 1 : h[i] \in Space
        /\ e \in mid + 1 .. n + 1
    BY TextIs DEF FoldAt
  <1>2. \A i \in mid .. e - 1 : Blank(h, i)
    BY FoldEnds
  <1>p. Blank(h, pos) => h[pos] \in Space
    BY DEF Plainly
  <1>3. /\ x \in Text /\ Len(x) = IF pos <= b THEN b - pos + 1 ELSE 0
        /\ \A i \in 1 .. Len(x) : x[i] = h[pos + i - 1]
    <2>1. b \in Int /\ b <= Len(h)
      BY <1>1
    <2> QED
      BY <2>1, PieceIs
  <1>4. /\ y \in Text /\ Len(y) = n + 1 - pos /\ SameTail(h, y, pos, 1 - pos)
    <2>1. pos \in 1 .. Len(h) + 1
      BY <1>1
    <2> QED
      BY <1>p, <2>1, TailIs
  <1> HIDE DEF x, y, n
  <1>5. \A i \in pos .. n : y[i + (1 - pos)] = h[i] /\ (Blank(y, i + (1 - pos)) <=> Blank(h, i))
    BY <1>4 DEF SameTail, n
  <1> DEFINE m == Len(x)
  <1>7. m \in Nat /\ pos + m \in pos .. mid /\ pos + m \in b + 1 .. mid
    <2>1. m = IF pos <= b THEN b - pos + 1 ELSE 0
      BY <1>3
    <2> HIDE DEF m
    <2>2. CASE pos <= b
      BY <1>1, <2>1, <2>2
    <2>3. CASE ~(pos <= b)
      BY <1>1, <2>1, <2>3
    <2> QED
      BY <2>2, <2>3
  <1> HIDE DEF m
  <1>9. \A i \in pos + m .. e - 1 : Blank(h, i)
    <2> SUFFICES ASSUME NEW i \in pos + m .. e - 1 PROVE Blank(h, i)
      OBVIOUS
    <2>1. CASE i < mid
      <3>1. i \in b + 1 .. mid - 1
        BY <1>1, <1>7, <2>1
      <3> QED
        BY <1>1, <3>1 DEF Blank
    <2>2. CASE ~(i < mid)
      <3>1. i \in mid .. e - 1
        BY <1>1, <1>7, <2>2
      <3> QED
        BY <1>2, <3>1
    <2> QED
      BY <2>1, <2>2
  <1>10. PICK v : WordsIn(y, v) /\ Words(y) = v[1]
    BY <1>4, WordsAre
  <1>11. PICK z : WordsIn(x, z) /\ Words(x) = z[1]
    BY <1>3, WordsAre
  <1>12. \A i \in pos .. n + 1 : w[i] = v[i + (1 - pos)]
    BY <1>4, <1>10, SameTailSameWords DEF n
  <1>13. v[1] = z[1] \o v[m + 1]
    <2>1. Len(x) <= Len(y)
      <3>1. m <= n + 1 - pos
        BY <1>1, <1>7
      <3> QED
        BY <1>4, <3>1 DEF m
    <2>2. ASSUME NEW i \in 1 .. Len(x) PROVE x[i] = y[i]
      <3>1. PICK j \in pos .. n : j = pos + i - 1 /\ j + (1 - pos) = i
        <4>1. i \in 1 .. m
          BY DEF m
        <4>2. pos + i - 1 \in pos .. n /\ (pos + i - 1) + (1 - pos) = i
          BY <1>1, <1>7, <4>1
        <4> QED
          BY <4>2
      <3>2. x[i] = h[j]
        BY <1>3, <3>1
      <3> QED
        BY <1>5, <3>1, <3>2
    <2>3. Blank(y, Len(x) + 1)
      <3>1. /\ pos + m \in pos .. n /\ (pos + m) + (1 - pos) = m + 1
            /\ pos + m \in pos + m .. e - 1
        BY <1>1, <1>7
      <3>2. Blank(h, pos + m)
        BY <1>9, <3>1
      <3> QED
        BY <1>5, <3>1, <3>2 DEF m
    <2>4. x \in Text /\ y \in Text /\ WordsIn(y, v) /\ WordsIn(x, z)
      BY <1>3, <1>4, <1>10, <1>11
    <2>5. IsBefore(x, y)
      BY <2>1, <2>2, <2>3 DEF IsBefore
    <2>6. v[1] = z[1] \o v[Len(x) + 1]
      <3>1. x \in Text
        BY <2>4
      <3>2. y \in Text
        BY <2>4
      <3>3. WordsIn(y, v)
        BY <2>4
      <3>4. WordsIn(x, z)
        BY <2>4
      <3> QED
        BY <2>5, <3>1, <3>2, <3>3, <3>4, WordsBefore, ZenonT(30)
    <2> QED
      BY <2>6 DEF m
  <1>14. v[m + 1] = v[e + (1 - pos)]
    <2>1. m + 1 \in 1 .. Len(y) + 1 /\ e + (1 - pos) \in m + 1 .. Len(y) + 1
      BY <1>1, <1>4, <1>7
    <2>2. ASSUME NEW k \in m + 1 .. (e + (1 - pos)) - 1 PROVE Blank(y, k)
      <3>1. PICK i \in pos .. n : i \in pos + m .. e - 1 /\ i + (1 - pos) = k
        <4>1. k + pos - 1 \in pos .. n /\ k + pos - 1 \in pos + m .. e - 1 /\ (k + pos - 1) + (1 - pos) = k
          BY <1>1, <1>7
        <4> QED
          BY <4>1
      <3>2. Blank(h, i)
        BY <1>9, <3>1
      <3> QED
        BY <1>5, <3>1, <3>2
    <2> QED
      <3>1. y \in Text /\ WordsIn(y, v)
        BY <1>4, <1>10
      <3> QED
        BY <2>1, <2>2, <3>1, SkipBlanks, ZenonT(30)
  <1>15. /\ w[pos] = v[1] /\ w[e] = v[e + (1 - pos)]
    <2>1. pos \in pos .. n + 1 /\ pos + (1 - pos) = 1 /\ e \in pos .. n + 1
      BY <1>1
    <2> QED
      BY <1>12, <2>1
  <1>16. w[pos] = Words(x) \o w[e]
    BY <1>11, <1>13, <1>14, <1>15
  <1> QED
    BY <1>16 DEF x

\* The words of a text with another in front of it, and nothing or a space between.
LEMMA JoinedWords ==
    ASSUME NEW x \in Text, NEW y \in Text,
           \A i \in 1 .. Len(x) : x[i] # "newline",
           \A i \in 1 .. Len(y) : y[i] # "newline"
    PROVE  LET r == (x \o <<"space">>) \o y
           IN  /\ r \in Text /\ \A i \in 1 .. Len(r) : r[i] # "newline"
               /\ Words(r) = Words(x) \o Words(y)
  <1> DEFINE q == x \o <<"space">>
             r == q \o y
             n == Len(x)
  <1>0. n \in Nat /\ Len(y) \in Nat
    BY TextIs
  <1>1. <<"space">> \in Text /\ Len(<<"space">>) = 1 /\ <<"space">>[1] = "space"
    BY OneCharacter DEF Symbol
  <1>2. /\ q \in Text /\ Len(q) = n + 1
        /\ \A i \in 1 .. n : q[i] = x[i]
        /\ q[n + 1] = "space"
    <2>1. /\ q \in Text /\ Len(q) = n + Len(<<"space">>)
          /\ \A i \in 1 .. n : q[i] = x[i]
          /\ \A i \in 1 .. Len(<<"space">>) : q[n + i] = <<"space">>[i]
      BY <1>1, JoinIs
    <2> HIDE DEF q
    <2>2. 1 \in 1 .. Len(<<"space">>)
      BY <1>1
    <2> QED
      BY <1>1, <2>1, <2>2
  <1> HIDE DEF q
  <1>3. /\ r \in Text /\ Len(r) = n + 1 + Len(y)
        /\ \A i \in 1 .. n + 1 : r[i] = q[i]
        /\ \A i \in 1 .. Len(y) : r[n + 1 + i] = y[i]
    <2>1. /\ r \in Text /\ Len(r) = Len(q) + Len(y)
          /\ \A i \in 1 .. Len(q) : r[i] = q[i]
          /\ \A i \in 1 .. Len(y) : r[Len(q) + i] = y[i]
      BY <1>2, JoinIs
    <2>2. Len(q) = n + 1
      BY <1>2
    <2> HIDE DEF r
    <2> QED
      BY <2>1, <2>2
  <1> HIDE DEF r
  <1>4. /\ \A i \in 1 .. n : r[i] = x[i]
        /\ r[n + 1] = "space"
    <2>1. \A i \in 1 .. n : i \in 1 .. n + 1
      BY <1>0
    <2>2. n + 1 \in 1 .. n + 1
      BY <1>0
    <2> QED
      BY <1>2, <1>3, <2>1, <2>2
  <1>x. \A i \in 1 .. n : x[i] # "newline"
    OBVIOUS
  <1>y. \A i \in 1 .. Len(y) : y[i] # "newline"
    OBVIOUS
  <1>5. ASSUME NEW i \in 1 .. Len(r) PROVE r[i] # "newline"
    <2>1. CASE i <= n
      <3>1. i \in 1 .. n
        BY <1>0, <2>1
      <3> QED
        BY <1>4, <1>x, <3>1
    <2>2. CASE i = n + 1
      BY <1>4, <2>2
    <2>3. CASE i > n + 1
      <3>1. PICK j \in 1 .. Len(y) : i = n + 1 + j
        <4>1. i - (n + 1) \in 1 .. Len(y) /\ i = n + 1 + (i - (n + 1))
          BY <1>0, <1>3, <2>3
        <4> QED
          BY <4>1
      <3> QED
        BY <1>3, <1>y, <3>1
    <2> QED
      BY <1>0, <1>3, <2>1, <2>2, <2>3
  <1>6. PICK w : WordsIn(r, w) /\ Words(r) = w[1]
    BY <1>3, WordsAre
  <1>7. PICK v : WordsIn(x, v) /\ Words(x) = v[1]
    BY WordsAre
  <1>8. PICK u : WordsIn(y, u) /\ Words(y) = u[1]
    BY WordsAre
  <1>9. IsBefore(x, r)
    <2>1. Len(x) <= Len(r)
      BY <1>0, <1>3
    <2>2. Blank(r, Len(x) + 1)
      BY <1>4 DEF Blank, Space
    <2>3. \A i \in 1 .. Len(x) : x[i] = r[i]
      BY <1>4
    <2> QED
      BY <2>1, <2>2, <2>3 DEF IsBefore
  <1>10. w[1] = v[1] \o w[n + 1]
    <2>1. r \in Text
      BY <1>3
    <2>2. WordsIn(r, w)
      BY <1>6
    <2>3. WordsIn(x, v)
      BY <1>7
    <2>4. w[1] = v[1] \o w[Len(x) + 1]
      BY <1>9, <2>1, <2>2, <2>3, WordsBefore, ZenonT(30)
    <2> QED
      BY <2>4
  <1>11. w[n + 1] = w[n + 2]
    <2>1. n + 1 \in 1 .. Len(r) + 1 /\ n + 1 <= Len(r) /\ (n + 1) + 1 = n + 2
      BY <1>0, <1>3
    <2>2. Blank(r, n + 1)
      BY <1>4 DEF Blank, Space
    <2>3. w[n + 1] = w[(n + 1) + 1]
      <3>1. r \in Text
        BY <1>3
      <3>2. WordsIn(r, w)
        BY <1>6
      <3> QED
        BY <2>1, <2>2, <3>1, <3>2, WordsFromHere, ZenonT(30)
    <2> QED
      BY <2>1, <2>3
  <1>12. SameTail(y, r, 1, n + 1)
    <2>1. /\ n + 1 \in Int /\ 1 \in 1 .. Len(y) + 1 /\ 1 + (n + 1) >= 1
          /\ Len(r) = Len(y) + (n + 1)
      BY <1>0, <1>3
    <2>2. ASSUME NEW i \in 1 .. Len(y)
          PROVE  r[i + (n + 1)] = y[i] /\ (Blank(r, i + (n + 1)) <=> Blank(y, i))
      <3>1. i + (n + 1) = n + 1 + i /\ i + (n + 1) \in 1 .. Len(r) /\ (i + (n + 1)) - 1 \in 1 .. Len(r)
        BY <1>0, <1>3
      <3>2. r[i + (n + 1)] = y[i]
        BY <1>3, <3>1
      <3>3. r[(i + (n + 1)) - 1] # "newline"
        BY <1>5, <3>1
      <3>4. i > 1 => y[i - 1] # "newline"
        <4> SUFFICES ASSUME i > 1 PROVE y[i - 1] # "newline"
          OBVIOUS
        <4>1. i - 1 \in 1 .. Len(y)
          BY <1>0
        <4> QED
          BY <1>y, <4>1
      <3> QED
        BY <3>2, <3>3, <3>4 DEF Blank
    <2> QED
      BY <2>1, <2>2 DEF SameTail
  <1>13. \A i \in 1 .. Len(y) + 1 : u[i] = w[i + (n + 1)]
    BY <1>3, <1>6, <1>8, <1>12, SameTailSameWords
  <1>14. u[1] = w[n + 2]
    <2>1. 1 \in 1 .. Len(y) + 1 /\ 1 + (n + 1) = n + 2
      BY <1>0
    <2> QED
      BY <1>13, <2>1
  <1>15. Words(r) = Words(x) \o Words(y)
    BY <1>6, <1>7, <1>8, <1>10, <1>11, <1>14
  <1>16. r \in Text /\ (\A i \in 1 .. Len(r) : r[i] # "newline") /\ Words(r) = Words(x) \o Words(y)
    BY <1>3, <1>5, <1>15
  <1> QED
    BY <1>16 DEF r, q

\* What unfolding makes of the text from pos on.
Unfolded(h, w, u, pos) ==
    /\ u[pos] \in Text
    /\ \A i \in 1 .. Len(u[pos]) : u[pos][i] # "newline"
    /\ pos <= Len(h) + 1 /\ Plainly(h, pos) => Words(u[pos]) = w[pos]

LEMMA UnfoldedOnce ==
    ASSUME NEW h \in Text, Solid(h), ~Alone(h), NEW w, WordsIn(h, w), NEW u, Unfolds(h, u),
           NEW pos \in Nat \ {0}, Folds(h, pos) # {}, Unfolded(h, w, u, RestBegin(h, pos))
    PROVE  Unfolded(h, w, u, pos)
  <1> DEFINE mid == Min(Folds(h, pos))
             b == KeptEnd(h, pos)
             e == RestBegin(h, pos)
             x == SubSeq(h, pos, b)
             rest == SubSeq(h, e, Len(h))
             S == Separator(x, rest)
             y == u[e]
             r == u[pos]
  <1>1. FoldAt(h, pos, mid, b, e)
    BY FoldsAre
  <1>2. Len(h) \in Nat /\ pos \in Nat \ {0} /\ mid \in pos .. Len(h) /\ b \in 0 .. mid - 1 /\ e \in mid + 1 .. Len(h) + 1
    BY <1>1, TextIs DEF FoldAt
  <1> HIDE DEF mid, e
  <1>3. e < Len(h) /\ ~Blank(h, e)
    BY <1>1, FoldEnds
  <1>4. /\ y \in Text
        /\ \A i \in 1 .. Len(y) : y[i] # "newline"
        /\ Words(y) = w[e]
    <2>1. Unfolded(h, w, u, e)
      BY DEF e
    <2>2. e <= Len(h) + 1
      BY <1>2
    <2> QED
      BY <1>3, <2>1, <2>2 DEF Unfolded, Plainly
  <1>5. r = x \o S \o y
    BY DEF Unfolds, e
  <1>x. x \in Text /\ \A i \in 1 .. Len(x) : x[i] # "newline"
    <2>1. /\ x \in Text /\ Len(x) = IF pos <= b THEN b - pos + 1 ELSE 0
          /\ \A i \in 1 .. Len(x) : x[i] = h[pos + i - 1]
      <3>1. b \in Int /\ b <= Len(h)
        BY <1>2
      <3> QED
        BY <1>2, <3>1, PieceIs
    <2>2. \A i \in pos .. mid - 1 : h[i] # "newline"
      BY <1>1 DEF FoldAt
    <2> HIDE DEF x, b
    <2>3. ASSUME NEW i \in 1 .. Len(x) PROVE x[i] # "newline"
      <3>1. pos + i - 1 \in pos .. mid - 1
        <4>1. CASE pos <= b
          BY <1>2, <2>1, <4>1
        <4>2. CASE ~(pos <= b)
          BY <1>2, <2>1, <4>2
        <4> QED
          BY <4>1, <4>2
      <3> QED
        BY <2>1, <2>2, <3>1
    <2> QED
      BY <2>1, <2>3
  <1>6. Plainly(h, pos) => w[pos] = Words(x) \o w[e]
    <2>1. \A m, k, f : FoldAt(h, pos, m, k, f) =>
             (Plainly(h, pos) => w[pos] = Words(SubSeq(h, pos, k)) \o w[f])
      BY KeptWords, Zenon
    <2> HIDE DEF b
    <2> QED
      BY <1>1, <2>1, Zenon
  <1>7. x = <<>> \/ S = <<"space">>
    <2>1. Len(rest) = Len(h) - e + 1
      <3>1. e \in Nat \ {0} /\ Len(h) \in Int /\ Len(h) <= Len(h) /\ e <= Len(h)
        BY <1>2, <1>3
      <3> QED
        BY <3>1, PieceIs
    <2> HIDE DEF rest, x
    <2>2. Len(rest) > 1
      BY <1>2, <1>3, <2>1
    <2> QED
      BY <2>2 DEF Separator
  <1>s. S = <<>> \/ S = <<"space">>
    BY SeparatorIs
  <1> HIDE DEF x, S, y, rest
  <1>8. CASE S = <<"space">>
    <2>1. r = (x \o <<"space">>) \o y
      BY <1>5, <1>8
    <2>2. /\ r \in Text /\ \A i \in 1 .. Len(r) : r[i] # "newline"
          /\ Words(r) = Words(x) \o Words(y)
      <3> HIDE DEF r
      <3> QED
        BY <1>4, <1>x, <2>1, JoinedWords
    <2> QED
      BY <1>4, <1>6, <2>2 DEF Unfolded
  <1>9. CASE S # <<"space">>
    <2>1. x = <<>> /\ S = <<>>
      BY <1>7, <1>9, <1>s
    <2>2. r = y
      <3>1. <<>> \o <<>> = <<>> /\ <<>> \o y = y
        BY <1>4, ConcatEmptySeq, EmptySeq DEF Text
      <3> QED
        BY <1>5, <2>1, <3>1
    <2>3. Words(x) = <<>>
      <3>1. <<>> \in Text /\ \A i \in 1 .. Len(<<>>) : Blank(<<>>, i)
        BY EmptySeq DEF Text
      <3> QED
        BY <2>1, <3>1, BlankText
    <2>4. <<>> \o w[e] = w[e]
      <3>1. w[e] \in Seq(Text)
        BY <1>2 DEF WordsIn
      <3> QED
        BY <3>1, ConcatEmptySeq
    <2> QED
      BY <1>4, <1>6, <2>2, <2>3, <2>4 DEF Unfolded
  <1> QED
    BY <1>8, <1>9

LEMMA UnfoldedLast ==
    ASSUME NEW h \in Text, NEW w, WordsIn(h, w), NEW u, Unfolds(h, u),
           NEW pos \in Nat \ {0}, Folds(h, pos) = {}
    PROVE  Unfolded(h, w, u, pos)
  <1> DEFINE r == u[pos]
             n == Len(h)
  <1>1. n \in Nat /\ n \in Int /\ n <= Len(h)
    BY TextIs
  <1>2. r = SubSeq(h, pos, n)
    BY DEF Unfolds
  <1>3. /\ r \in Text /\ Len(r) = IF pos <= n THEN n - pos + 1 ELSE 0
        /\ \A i \in 1 .. Len(r) : r[i] = h[pos + i - 1]
    <2> DEFINE x == SubSeq(h, pos, n)
    <2>1. /\ x \in Text /\ Len(x) = IF pos <= n THEN n - pos + 1 ELSE 0
          /\ \A i \in 1 .. Len(x) : x[i] = h[pos + i - 1]
      BY <1>1, PieceIs
    <2>2. r = x
      BY <1>2
    <2> HIDE DEF x, r
    <2> QED
      BY <2>1, <2>2
  <1>4. \A i \in pos .. n : h[i] # "newline"
    BY TextIs DEF Folds, Positions
  <1> HIDE DEF r, n
  <1>5. ASSUME NEW i \in 1 .. Len(r) PROVE r[i] # "newline"
    <2>1. pos + i - 1 \in pos .. n
      <3>1. CASE pos <= n
        BY <1>1, <1>3, <3>1
      <3>2. CASE ~(pos <= n)
        BY <1>1, <1>3, <3>2
      <3> QED
        BY <3>1, <3>2
    <2> QED
      BY <1>3, <1>4, <2>1
  <1>6. ASSUME pos <= Len(h) + 1, Plainly(h, pos)
        PROVE  Words(r) = w[pos]
    <2>1. pos \in 1 .. Len(h) + 1
      BY <1>1, <1>6 DEF n
    <2> QED
      BY <1>2, <1>6, <2>1, TailWords DEF n, Plainly
  <1> QED
    BY <1>3, <1>5, <1>6 DEF Unfolded, r

LEMMA UnfoldedWords ==
    ASSUME NEW h \in Text, Solid(h), ~Alone(h)
    PROVE  Words(UnfoldHeader(h)) = Words(h)
  <1> DEFINE D == Nat \ {0}
             Stop == {pos \in D : Folds(h, pos) = {}}
             next == [pos \in D |-> RestBegin(h, pos)]
             m == [pos \in D |-> IF pos <= Len(h) THEN Len(h) + 1 - pos ELSE 0]
  <1>1. Ends(D, Stop, next, m)
    BY UnfoldingEnds
  <1>2. PICK u : Unfolds(h, u) /\ UnfoldHeader(h) = u[1]
    BY UnfoldHeaderIs
  <1>3. PICK w : WordsIn(h, w) /\ Words(h) = w[1]
    BY WordsAre
  <1> DEFINE U == {pos \in D : Unfolded(h, w, u, pos)}
  <1>4. Inherits(U, D, Stop, next)
    <2> SUFFICES ASSUME NEW pos \in D, pos \in Stop \/ next[pos] \in U PROVE Unfolded(h, w, u, pos)
      BY DEF Inherits
    <2>1. CASE Folds(h, pos) = {}
      BY <1>2, <1>3, <2>1, UnfoldedLast
    <2>2. CASE Folds(h, pos) # {}
      <3>1. Unfolded(h, w, u, RestBegin(h, pos))
        BY <2>2
      <3> QED
        BY <1>2, <1>3, <2>2, <3>1, UnfoldedOnce
    <2> QED
      BY <2>1, <2>2
  <1>5. \A pos \in D : pos \in U
    <2> HIDE DEF U, D, Stop, next, m
    <2> QED
      BY <1>1, <1>4, MeasureInduction
  <1>6. Unfolded(h, w, u, 1)
    BY <1>5
  <1>7. 1 <= Len(h) + 1 /\ Plainly(h, 1)
    BY TextIs DEF Blank, Plainly
  <1> QED
    BY <1>2, <1>3, <1>6, <1>7 DEF Unfolded

-----------------------------------------------------------------------------
(* The lines of a head. *)

\* The line that starts at "start".
LineFrom(s, start) == SubSeq(s, start, LineEnd(s, start) - 1)

\* It ends before n.
EndsLine(s, start, n) ==
    /\ n \in start .. Len(s) + 1
    /\ n <= Len(s) => s[n] = "newline" /\ ~Continued(s, n)
    /\ \A i \in start .. n - 1 : s[i] = "newline" => Continued(s, i)

LEMMA LineEndIs ==
    ASSUME NEW s \in Text, NEW start \in 1 .. Len(s)
    PROVE  EndsLine(s, start, LineEnd(s, start))
  <1> DEFINE T == {i \in Positions(s, "newline") : i >= start /\ ~Continued(s, i)}
             E == {Len(s) + 1} \cup T
             n == Min(E)
  <1>1. Len(s) \in Nat /\ start \in Nat /\ start <= Len(s)
    BY TextIs
  <1>2. \A i : i \in T <=> i \in start .. Len(s) /\ s[i] = "newline" /\ ~Continued(s, i)
    BY <1>1, TextIs DEF Positions
  <1> HIDE DEF T
  <1>3. E \in SUBSET Nat /\ E # {}
    BY <1>1, <1>2
  <1>4. n \in E /\ \A i \in E : n <= i
    <2> HIDE DEF E
    <2> QED
      BY <1>3, LeastNat
  <1>5. LineEnd(s, start) = n
    BY DEF LineEnd, T
  <1> HIDE DEF n
  <1>6. n \in start .. Len(s) + 1 /\ (n <= Len(s) => n \in T)
    BY <1>1, <1>2, <1>4
  <1>7. ASSUME NEW i \in start .. n - 1, s[i] = "newline", ~Continued(s, i) PROVE FALSE
    <2>1. i \in T
      BY <1>1, <1>2, <1>6, <1>7
    <2>2. n <= i
      BY <1>4, <2>1
    <2> QED
      BY <1>1, <1>6, <2>2
  <1>8. EndsLine(s, start, n)
    BY <1>2, <1>6, <1>7 DEF EndsLine
  <1> QED
    BY <1>5, <1>8

\* Behind every newline in it the line goes on.
Unbroken(t) ==
    \A i \in 1 .. Len(t) :
        t[i] = "newline" => i + 1 \in 1 .. Len(t) /\ t[i + 1] \in {"space", "encoded"}

LEMMA LineIs ==
    ASSUME NEW s \in Text, NEW start \in 1 .. Len(s), NEW n, EndsLine(s, start, n)
    PROVE  LET t == SubSeq(s, start, n - 1)
           IN  /\ t \in Text /\ Len(t) = n - start
               /\ \A i \in 1 .. Len(t) : t[i] = s[start + i - 1]
               /\ Unbroken(t)
  <1> DEFINE t == SubSeq(s, start, n - 1)
  <1>1. Len(s) \in Nat /\ start \in Nat \ {0} /\ start <= Len(s) /\ n \in start .. Len(s) + 1
    BY TextIs DEF EndsLine
  <1>2. n <= Len(s) => s[n] = "newline" /\ ~Continued(s, n)
    BY DEF EndsLine
  <1>3. \A i \in start .. n - 1 : s[i] = "newline" => Continued(s, i)
    BY DEF EndsLine
  <1>4. /\ t \in Text /\ Len(t) = IF start <= n - 1 THEN n - 1 - start + 1 ELSE 0
        /\ \A i \in 1 .. Len(t) : t[i] = s[start + i - 1]
    <2>1. n - 1 \in Int /\ n - 1 <= Len(s)
      BY <1>1
    <2> QED
      BY <1>1, <2>1, PieceIs
  <1> HIDE DEF t
  <1>5. Len(t) = n - start
    BY <1>1, <1>4
  <1>6. ASSUME NEW i \in 1 .. Len(t), t[i] = "newline"
        PROVE  i + 1 \in 1 .. Len(t) /\ t[i + 1] \in {"space", "encoded"}
    <2>1. start + i - 1 \in start .. n - 1 /\ s[start + i - 1] = "newline"
      BY <1>1, <1>4, <1>5, <1>6
    <2> DEFINE j == start + i - 1
    <2>2. j < Len(s) /\ s[j + 1] \in {"space", "encoded"}
      BY <1>3, <2>1 DEF Continued
    <2>3. j + 1 # n
      <3> SUFFICES ASSUME j + 1 = n PROVE FALSE
        OBVIOUS
      <3>0. j \in Int
        BY <1>1, <2>1
      <3> HIDE DEF j
      <3>1. n <= Len(s)
        BY <1>1, <2>2, <3>0
      <3>2. s[n] = "newline" /\ s[n] \in {"space", "encoded"}
        BY <1>2, <2>2, <3>1
      <3> QED
        BY <3>2
    <2>4. i + 1 \in 1 .. Len(t) /\ start + (i + 1) - 1 = j + 1
      BY <1>1, <1>5, <2>1, <2>3
    <2>5. t[i + 1] = s[j + 1]
      <3> HIDE DEF j
      <3> QED
        BY <1>4, <2>4
    <2> QED
      BY <2>2, <2>4, <2>5
  <1>7. Unbroken(t)
    BY <1>6 DEF Unbroken
  <1> QED
    BY <1>4, <1>5, <1>7 DEF t

\* What IsProper says of the physical lines.
NoBlankPiece(t) ==
    \A piece \in PhysicalLines(t) : \E i \in DOMAIN piece : piece[i] \notin Space \cup {"encoded"}

LEMMA ProperIsSolid ==
    ASSUME NEW t \in Text, Unbroken(t), NoBlankPiece(t)
    PROVE  Solid(t)
  <1> SUFFICES ASSUME NEW m \in Positions(t, "newline")
               PROVE  \E i \in m + 1 .. Len(t) : /\ t[i] \notin Space \cup {"encoded"}
                                                 /\ \A k \in m + 1 .. i : t[k] # "newline"
    BY DEF Solid
  <1>1. Len(t) \in Nat /\ DOMAIN t = 1 .. Len(t)
    BY TextIs
  <1>2. m \in 1 .. Len(t) /\ t[m] = "newline"
    BY <1>1 DEF Positions
  <1>3. m + 1 \in 1 .. Len(t) /\ t[m + 1] # "newline"
    BY <1>2 DEF Unbroken
  <1> DEFINE E == {Len(t) + 1} \cup {q \in m + 1 .. Len(t) : t[q] = "newline"}
             e == Min(E)
  <1>4. E \in SUBSET Nat /\ E # {}
    BY <1>1, <1>3
  <1>5. e \in E /\ \A i \in E : e <= i
    <2> HIDE DEF E
    <2> QED
      BY <1>4, LeastNat
  <1> HIDE DEF e
  <1>6. e \in m + 2 .. Len(t) + 1 /\ (e <= Len(t) => t[e] = "newline")
    BY <1>1, <1>2, <1>3, <1>5
  <1>7. \A q \in m + 1 .. e - 1 : t[q] # "newline"
    <2> SUFFICES ASSUME NEW q \in m + 1 .. e - 1, t[q] = "newline" PROVE FALSE
      OBVIOUS
    <2>1. q \in E /\ ~(e <= q)
      BY <1>1, <1>2, <1>6
    <2> QED
      BY <1>5, <2>1
  <1> DEFINE piece == SubSeq(t, m + 1, e - 1)
  <1>8. piece \in PhysicalLines(t)
    <2> DEFINE a == m + 1
               b == e - 1
    <2>1. /\ a \in 1 .. Len(t) /\ b \in 1 .. Len(t) /\ a <= b
          /\ a = 1 \/ t[a - 1] = "newline"
          /\ b = Len(t) \/ t[b + 1] = "newline"
      <3>1. a - 1 = m /\ b + 1 = e
        BY <1>2, <1>6
      <3>2. a \in 1 .. Len(t) /\ b \in 1 .. Len(t) /\ a <= b
        BY <1>1, <1>2, <1>3, <1>6
      <3>3. e = Len(t) + 1 => b = Len(t)
        BY <1>1
      <3>4. e <= Len(t) \/ e = Len(t) + 1
        BY <1>1, <1>6
      <3> QED
        BY <1>2, <1>6, <3>1, <3>2, <3>3, <3>4
    <2>2. \A k \in a .. b : t[k] # "newline"
      BY <1>7
    <2> HIDE DEF a, b
    <2>3. <<a, b>> \in (DOMAIN t) \X (DOMAIN t) /\ <<a, b>>[1] = a /\ <<a, b>>[2] = b
      BY <1>1, <2>1
    <2>4. SubSeq(t, a, b) \in PhysicalLines(t)
      BY <2>1, <2>2, <2>3 DEF PhysicalLines
    <2> QED
      BY <2>4 DEF a, b
  <1>9. /\ piece \in Text /\ Len(piece) = e - 1 - m
        /\ \A i \in 1 .. Len(piece) : piece[i] = t[m + i]
    <2>1. m + 1 \in Nat \ {0} /\ e - 1 \in Int /\ e - 1 <= Len(t) /\ m + 1 <= e - 1
      BY <1>1, <1>2, <1>6
    <2>2. /\ piece \in Text /\ Len(piece) = IF m + 1 <= e - 1 THEN (e - 1) - (m + 1) + 1 ELSE 0
          /\ \A i \in 1 .. Len(piece) : piece[i] = t[(m + 1) + i - 1]
      BY <2>1, PieceIs
    <2> HIDE DEF piece
    <2>3. Len(piece) = e - 1 - m
      BY <1>2, <1>6, <2>1, <2>2
    <2>4. \A i \in 1 .. Len(piece) : (m + 1) + i - 1 = m + i
      BY <1>2, <1>6, <2>3
    <2> QED
      BY <2>2, <2>3, <2>4
  <1>10. PICK i \in DOMAIN piece : piece[i] \notin Space \cup {"encoded"}
    BY <1>8 DEF NoBlankPiece
  <1> HIDE DEF piece
  <1>11. i \in 1 .. Len(piece)
    BY <1>9, <1>10, TextIs
  <1>12. m + i \in m + 1 .. Len(t) /\ m + i <= e - 1
    BY <1>1, <1>2, <1>6, <1>9, <1>11
  <1>13. t[m + i] \notin Space \cup {"encoded"}
    BY <1>9, <1>10, <1>11
  <1>14. \A k \in m + 1 .. m + i : t[k] # "newline"
    <2> SUFFICES ASSUME NEW k \in m + 1 .. m + i PROVE t[k] # "newline"
      OBVIOUS
    <2>1. k \in m + 1 .. e - 1
      BY <1>2, <1>6, <1>11, <1>12
    <2> QED
      BY <1>7, <2>1
  <1> QED
    BY <1>12, <1>13, <1>14

\* What is left of such a text.
LEMMA SolidTail ==
    ASSUME NEW t \in Text, Solid(t), NEW a \in 1 .. Len(t) + 1
    PROVE  Solid(SubSeq(t, a, Len(t)))
  <1> DEFINE x == SubSeq(t, a, Len(t))
             n == Len(t)
  <1>1. n \in Nat /\ a \in Nat \ {0} /\ n \in Int /\ n <= Len(t) /\ a \in 1 .. n + 1 /\ DOMAIN t = 1 .. n
    BY TextIs
  <1>2. /\ x \in Text /\ Len(x) = IF a <= n THEN n - a + 1 ELSE 0
        /\ \A i \in 1 .. Len(x) : x[i] = t[a + i - 1]
    BY <1>1, PieceIs
  <1> HIDE DEF x, n
  <1>3. Len(x) = n + 1 - a
    BY <1>1, <1>2
  <1>4. ASSUME NEW m \in Positions(x, "newline")
        PROVE  \E i \in m + 1 .. Len(x) : /\ x[i] \notin Space \cup {"encoded"}
                                          /\ \A k \in m + 1 .. i : x[k] # "newline"
    <2>1. m \in 1 .. Len(x) /\ x[m] = "newline"
      BY <1>2, TextIs DEF Positions
    <2>2. PICK p \in 1 .. n : p = a + m - 1
      <3>1. a + m - 1 \in 1 .. n
        BY <1>1, <1>3, <2>1
      <3> QED
        BY <3>1
    <2>3. p \in Positions(t, "newline")
      BY <1>1, <1>2, <2>1, <2>2 DEF Positions
    <2>4. PICK q \in p + 1 .. Len(t) : /\ t[q] \notin Space \cup {"encoded"}
                                       /\ \A k \in p + 1 .. q : t[k] # "newline"
      BY <2>3 DEF Solid
    <2>5. PICK i \in m + 1 .. Len(x) : q = a + i - 1
      <3>1. q - a + 1 \in m + 1 .. Len(x) /\ q = a + (q - a + 1) - 1
        BY <1>1, <1>3, <2>1, <2>2, <2>4 DEF n
      <3> QED
        BY <3>1
    <2>6. x[i] = t[q]
      BY <1>1, <1>2, <2>1, <2>5
    <2>7. ASSUME NEW k \in m + 1 .. i PROVE x[k] # "newline"
      <3>1. a + k - 1 \in p + 1 .. q /\ k \in 1 .. Len(x)
        BY <1>1, <1>3, <2>1, <2>2, <2>5
      <3>2. x[k] = t[a + k - 1]
        BY <1>2, <3>1
      <3> QED
        BY <2>4, <3>1, <3>2
    <2> QED
      BY <2>4, <2>6, <2>7
  <1>5. Solid(x)
    BY <1>4 DEF Solid
  <1> QED
    BY <1>5 DEF x, n

LEMMA AloneTail ==
    ASSUME NEW t \in Text, NEW a \in 1 .. Len(t) + 1, Alone(SubSeq(t, a, Len(t)))
    PROVE  Alone(t)
  <1> DEFINE x == SubSeq(t, a, Len(t))
             n == Len(t)
             m == Len(x)
  <1>1. n \in Nat /\ a \in Nat \ {0} /\ n \in Int /\ n <= Len(t) /\ a \in 1 .. n + 1
    BY TextIs
  <1>2. /\ x \in Text /\ m = IF a <= n THEN n - a + 1 ELSE 0
        /\ \A i \in 1 .. m : x[i] = t[a + i - 1]
    BY <1>1, PieceIs
  <1>3. m > 1 /\ Blank(x, m - 1) /\ ~Blank(x, m)
    BY DEF Alone
  <1> HIDE DEF x, n, m
  <1>4. m = n + 1 - a
    BY <1>1, <1>2
  <1>5. ASSUME NEW i \in 1 .. m PROVE i > 1 => x[i - 1] = t[(a + i - 1) - 1]
    <2> SUFFICES ASSUME i > 1 PROVE x[i - 1] = t[(a + i - 1) - 1]
      OBVIOUS
    <2>1. i - 1 \in 1 .. m /\ a + (i - 1) - 1 = (a + i - 1) - 1
      BY <1>1, <1>4
    <2> QED
      BY <1>2, <2>1
  <1>6. Blank(t, n - 1)
    <2>1. m - 1 \in 1 .. m /\ a + (m - 1) - 1 = n - 1
      BY <1>1, <1>3, <1>4
    <2>2. x[m - 1] = t[n - 1]
      BY <1>2, <2>1
    <2>3. m - 1 > 1 => x[(m - 1) - 1] = t[(n - 1) - 1] /\ n - 1 > 1
      <3> SUFFICES ASSUME m - 1 > 1 PROVE x[(m - 1) - 1] = t[(n - 1) - 1] /\ n - 1 > 1
        OBVIOUS
      <3>1. x[(m - 1) - 1] = t[(a + (m - 1) - 1) - 1]
        BY <1>5, <2>1
      <3>2. n - 1 > 1
        BY <1>1, <1>4
      <3> QED
        BY <2>1, <3>1, <3>2
    <2> QED
      BY <1>3, <2>2, <2>3 DEF Blank
  <1>7. ~Blank(t, n)
    <2>1. m \in 1 .. m /\ a + m - 1 = n /\ n > 1
      BY <1>1, <1>3, <1>4
    <2>2. x[m] = t[n]
      BY <1>2, <2>1
    <2>3. x[m - 1] = t[n - 1]
      BY <1>3, <1>5, <2>1
    <2> QED
      BY <1>3, <2>1, <2>2, <2>3 DEF Blank
  <1>8. n > 1
    BY <1>1, <1>3, <1>4
  <1> QED
    BY <1>6, <1>7, <1>8 DEF Alone, n

\* A header is where a proper line starts, and ends where the line does.
LineHeader(s, start, n, c, b) ==
    /\ HeaderSpan(s, start, c, b, n)
    /\ b <= n
    /\ \A i \in c + 1 .. b - 1 : s[i] \in {"space", "newline"}
    /\ s[b - 1] # "newline"

LEMMA HeaderOfLine ==
    ASSUME NEW s \in Text, NEW start \in 1 .. Len(s), NEW n, EndsLine(s, start, n),
           IsProper(SubSeq(s, start, n - 1))
    PROVE  /\ IsHeaderAt(s, start)
           /\ \A c, b, e \in Nat : HeaderSpan(s, start, c, b, e) => e = n /\ LineHeader(s, start, n, c, b)
  <1> DEFINE t == SubSeq(s, start, n - 1)
             k == Min(Positions(t, "colon"))
  <1>1. /\ Len(s) \in Nat /\ start \in Nat \ {0} /\ start <= Len(s) /\ n \in start .. Len(s) + 1
        /\ n <= Len(s) => s[n] = "newline" /\ ~Continued(s, n)
    BY TextIs DEF EndsLine
  <1>2. \A i \in start .. n - 1 : s[i] = "newline" => Continued(s, i)
    BY DEF EndsLine
  <1>3. /\ t \in Text /\ Len(t) = n - start
        /\ \A i \in 1 .. Len(t) : t[i] = s[start + i - 1]
        /\ Unbroken(t)
    BY LineIs
  <1>4. /\ Positions(t, "colon") # {} /\ t[1] # "colon"
        /\ NoBlankPiece(t)
        /\ \A i \in Positions(t, "encoded") :
              i > 1 /\ t[i - 1] = "newline" => Words(SubSeq(t, k + 1, i - 2)) # <<>>
    BY DEF IsProper, NoBlankPiece
  <1>5. /\ k \in 1 .. Len(t) /\ t[k] = "colon" /\ \A i \in 1 .. k - 1 : t[i] # "colon"
    BY <1>3, <1>4, FirstColon
  <1>6. Solid(t)
    BY <1>3, <1>4, ProperIsSolid
  <1> HIDE DEF t, k
  <1>7. DOMAIN s = 1 .. Len(s) /\ start + k - 1 \in start .. n - 1 /\ s[start + k - 1] = "colon"
    BY <1>1, <1>3, <1>5, TextIs
  <1>8. IsHeaderAt(s, start)
    <2>1. start + k - 1 \in Positions(s, "colon") /\ start + k - 1 >= start
      BY <1>1, <1>5, <1>7 DEF Positions
    <2>2. t[1] = s[start]
      BY <1>1, <1>3, <1>5
    <2> QED
      BY <1>1, <1>4, <2>1, <2>2 DEF IsHeaderAt, NoHeaderAt
  <1> SUFFICES ASSUME NEW c \in Nat, NEW b \in Nat, NEW e \in Nat, HeaderSpan(s, start, c, b, e)
               PROVE  e = n /\ LineHeader(s, start, n, c, b)
    BY <1>8
  <1> DEFINE d == IF c + 1 < Len(s) /\ s[c + 1] = "space" THEN c + 2 ELSE c + 1
  <1>9. /\ c \in start .. Len(s) /\ s[c] = "colon"
        /\ \A i \in start .. c - 1 : s[i] # "colon"
        /\ b \in c + 1 .. Len(s) + 1
        /\ b = ValueBegin(s, d)
        /\ e \in b .. Len(s) + 1
    BY DEF HeaderSpan
  <1>10. /\ e <= Len(s) => s[e] = "newline"
         /\ b <= Len(s) /\ s[b] = "newline" => e = b
         /\ ~(b <= Len(s) /\ s[b] = "newline") =>
               /\ e <= Len(s) => ~Continued(s, e)
               /\ \A i \in b + 1 .. e - 1 : s[i] = "newline" => Continued(s, i)
    BY DEF HeaderSpan
  <1>11. c = start + k - 1
    <2>1. ~(c < start + k - 1)
      <3> SUFFICES ASSUME c < start + k - 1 PROVE FALSE
        OBVIOUS
      <3>1. c - start + 1 \in 1 .. k - 1 /\ start + (c - start + 1) - 1 = c /\ c - start + 1 \in 1 .. Len(t)
        BY <1>1, <1>5, <1>9
      <3>2. t[c - start + 1] = s[c]
        BY <1>3, <3>1
      <3> QED
        BY <1>5, <1>9, <3>1, <3>2
    <2>2. ~(c > start + k - 1)
      <3> SUFFICES ASSUME c > start + k - 1 PROVE FALSE
        OBVIOUS
      <3>1. start + k - 1 \in start .. c - 1
        BY <1>1, <1>5, <1>7
      <3> QED
        BY <1>7, <1>9, <3>1
    <2> QED
      BY <1>1, <1>5, <1>9, <2>1, <2>2
  <1>12. c < n /\ c >= start
    BY <1>1, <1>7, <1>11
  \* A character that is no newline is not the end.
  <1>13. ASSUME NEW i \in start .. n, i <= Len(s), s[i] # "newline" PROVE i + 1 <= n
    BY <1>1, <1>13
  <1>14. d \in c + 1 .. n /\ d <= c + 2 /\ (d = c + 2 => s[c + 1] = "space")
    <2>1. CASE c + 1 < Len(s) /\ s[c + 1] = "space"
      <3>1. c + 1 \in start .. n /\ c + 1 <= Len(s) /\ s[c + 1] # "newline"
        BY <1>1, <1>12, <2>1
      <3>2. (c + 1) + 1 <= n
        BY <1>13, <3>1
      <3> QED
        BY <1>1, <1>12, <2>1, <3>2
    <2>2. CASE ~(c + 1 < Len(s) /\ s[c + 1] = "space")
      BY <1>1, <1>12, <2>2
    <2> QED
      BY <2>1, <2>2
  <1> HIDE DEF d
  \* A line break before the end: a text follows.
  <1>15. ASSUME NEW i \in start .. n - 1, s[i] = "newline"
         PROVE  \E q \in i + 1 .. n - 1 : /\ s[q] \notin Space \cup {"encoded"}
                                          /\ \A x \in i + 1 .. q : s[x] # "newline"
    <2>1. PICK m \in 1 .. Len(t) : i = start + m - 1
      <3>1. i - start + 1 \in 1 .. Len(t) /\ i = start + (i - start + 1) - 1
        BY <1>1, <1>3
      <3> QED
        BY <3>1
    <2>2. m \in Positions(t, "newline")
      BY <1>3, <1>15, <2>1, TextIs DEF Positions
    <2>3. PICK q \in m + 1 .. Len(t) : /\ t[q] \notin Space \cup {"encoded"}
                                       /\ \A x \in m + 1 .. q : t[x] # "newline"
      BY <1>6, <2>2 DEF Solid
    <2>4. PICK p \in i + 1 .. n - 1 : p = start + q - 1
      <3>1. start + q - 1 \in i + 1 .. n - 1
        BY <1>1, <1>3, <2>1
      <3> QED
        BY <3>1
    <2>5. s[p] = t[q]
      BY <1>1, <1>3, <2>1, <2>4
    <2>6. ASSUME NEW x \in i + 1 .. p PROVE s[x] # "newline"
      <3>1. PICK y \in m + 1 .. q : x = start + y - 1
        <4>1. x - start + 1 \in m + 1 .. q /\ x = start + (x - start + 1) - 1
          BY <1>1, <2>1, <2>4
        <4> QED
          BY <4>1
      <3>2. s[x] = t[y]
        BY <1>1, <1>3, <2>1, <3>1
      <3> QED
        BY <2>3, <3>1, <3>2
    <2> QED
      BY <2>3, <2>5, <2>6
  <1> DEFINE Begins ==
               /\ b <= n /\ (b < n => s[b] # "newline")
               /\ \A i \in c + 1 .. b - 1 : s[i] \in {"space", "newline"}
               /\ s[b - 1] # "newline"
  <1>16. ASSUME d + 1 < Len(s), s[d] = "newline", s[d + 1] = "space"
         PROVE  Begins
    <2>1. b = d + 2
      BY <1>9, <1>16 DEF ValueBegin
    <2>2. d # n
      <3> SUFFICES ASSUME d = n PROVE FALSE
        OBVIOUS
      <3>1. Continued(s, n) /\ n <= Len(s)
        BY <1>1, <1>16 DEF Continued
      <3> QED
        BY <1>1, <3>1
    <2>3. d \in start .. n - 1 /\ d + 1 \in start .. n /\ d + 1 <= Len(s) /\ d \in Nat
      BY <1>1, <1>12, <1>14, <1>16, <2>2
    <2>4. PICK q \in d + 1 .. n - 1 : /\ s[q] \notin Space \cup {"encoded"}
                                      /\ \A x \in d + 1 .. q : s[x] # "newline"
      BY <1>15, <1>16, <2>3
    <2>5. q # d + 1
      BY <1>16, <2>4 DEF Space
    <2>6. d + 2 \in d + 1 .. q
      BY <2>3, <2>4, <2>5
    <2>7. s[b] # "newline" /\ b <= n
      BY <1>1, <2>1, <2>3, <2>4, <2>6
    <2>8. s[b - 1] # "newline"
      <3>1. b - 1 = d + 1
        BY <2>1, <2>3
      <3> QED
        BY <1>16, <3>1
    <2>9. \A i \in c + 1 .. b - 1 : s[i] \in {"space", "newline"}
      <3> SUFFICES ASSUME NEW i \in c + 1 .. b - 1 PROVE s[i] \in {"space", "newline"}
        OBVIOUS
      <3>1. i = d + 1 \/ i = d \/ (i = c + 1 /\ d = c + 2)
        BY <1>14, <2>1, <2>3
      <3> QED
        BY <1>14, <1>16, <3>1
    <2> QED
      BY <2>7, <2>8, <2>9
  <1>17. ASSUME ~(d + 1 < Len(s) /\ s[d] = "newline" /\ s[d + 1] = "space")
         PROVE  Begins
    <2>1. b = d
      BY <1>9, <1>17 DEF ValueBegin
    <2>2. d - 1 = c \/ (d - 1 = c + 1 /\ d = c + 2)
      BY <1>14
    <2>3. s[b - 1] # "newline"
      BY <1>9, <1>14, <2>1, <2>2
    <2>4. \A i \in c + 1 .. b - 1 : s[i] \in {"space", "newline"}
      <3> SUFFICES ASSUME NEW i \in c + 1 .. b - 1 PROVE s[i] \in {"space", "newline"}
        OBVIOUS
      <3>1. i = c + 1 /\ d = c + 2
        BY <1>14, <2>1
      <3> QED
        BY <1>14, <3>1
    <2>5. b <= n
      BY <1>14, <2>1
    <2>6. ASSUME b < n, s[b] = "newline" PROVE FALSE
      <3>1. d \in start .. n - 1 /\ s[d] = "newline" /\ d \in Nat
        BY <1>1, <1>12, <1>14, <2>1, <2>6
      <3>2. s[d + 1] \in {"space", "encoded"}
        BY <1>2, <3>1 DEF Continued
      <3>3. PICK q \in d + 1 .. n - 1 : s[q] \notin Space \cup {"encoded"}
        BY <1>15, <3>1
      <3>4. q # d + 1
        BY <3>2, <3>3 DEF Space
      <3>5. d + 1 < Len(s) /\ d + 1 <= n - 1
        BY <1>1, <3>1, <3>3, <3>4
      <3>6. s[d + 1] = "encoded"
        BY <1>17, <3>1, <3>2, <3>5
      <3> DEFINE i == d - start + 2
                 y == SubSeq(t, k + 1, i - 2)
      <3>7. /\ i \in 1 .. Len(t) /\ start + i - 1 = d + 1 /\ i > 1
            /\ i - 1 \in 1 .. Len(t) /\ start + (i - 1) - 1 = d /\ i - 2 \in Nat /\ i - 2 <= Len(t)
        BY <1>1, <1>3, <3>1, <3>5
      <3> HIDE DEF i
      <3>8. t[i] = "encoded" /\ t[i - 1] = "newline"
        BY <1>3, <3>1, <3>6, <3>7
      <3>9. i \in Positions(t, "encoded")
        BY <1>3, <3>7, <3>8, TextIs DEF Positions
      <3>10. Words(y) # <<>>
        BY <1>4, <3>7, <3>8, <3>9
      <3>11. /\ y \in Text /\ Len(y) = IF k + 1 <= i - 2 THEN (i - 2) - (k + 1) + 1 ELSE 0
             /\ \A x \in 1 .. Len(y) : y[x] = t[(k + 1) + x - 1]
        <4>1. k + 1 \in Nat \ {0} /\ i - 2 \in Int
          BY <1>5, <3>7
        <4> QED
          <5>1. t \in Text /\ i - 2 <= Len(t)
            BY <1>3, <3>7
          <5> HIDE DEF y
          <5>2. SubSeq(t, k + 1, i - 2) = y
            BY DEF y
          <5> QED
            BY <4>1, <5>1, <5>2, PieceIs
      <3> HIDE DEF y
      <3>12. ASSUME NEW x \in 1 .. Len(y) PROVE Blank(y, x)
        <4>1. c + x \in c + 1 .. b - 1 /\ k + x \in 1 .. Len(t) /\ start + (k + x) - 1 = c + x
              /\ (k + 1) + x - 1 = k + x /\ c + x # d
          <5>1. i - 2 = d - start /\ k = c - start + 1
            BY <1>1, <1>5, <1>11, <3>1 DEF i
          <5> QED
            BY <1>1, <1>3, <1>5, <1>12, <1>14, <2>1, <3>1, <3>11, <5>1, SMTT(30)
        <4>2. y[x] = s[c + x]
          BY <1>3, <3>11, <4>1
        <4> QED
          BY <2>4, <4>1, <4>2 DEF Blank, Space
      <3> QED
        BY <3>10, <3>11, <3>12, BlankText
    <2> QED
      BY <2>3, <2>4, <2>5, <2>6
  <1>18. Begins
    BY <1>16, <1>17
  <1>19. e = n
    <2>1. CASE b = n
      BY <1>1, <1>9, <1>10, <2>1
    <2>2. CASE b # n
      <3>1. b < n /\ b <= Len(s) /\ s[b] # "newline"
        BY <1>1, <1>18, <2>2
      <3>2. e <= Len(s) => ~Continued(s, e)
        BY <1>10, <3>1
      <3>3. \A i \in b + 1 .. e - 1 : s[i] = "newline" => Continued(s, i)
        BY <1>10, <3>1
      <3>4. ~(e < n)
        <4> SUFFICES ASSUME e < n PROVE FALSE
          OBVIOUS
        <4>1. e \in start .. n - 1 /\ e <= Len(s)
          BY <1>1, <1>9, <1>12
        <4> QED
          BY <1>2, <1>10, <3>2, <4>1
      <3>5. ~(e > n)
        <4> SUFFICES ASSUME e > n PROVE FALSE
          OBVIOUS
        <4>1. n \in b + 1 .. e - 1 /\ n <= Len(s)
          BY <1>1, <1>9, <3>1
        <4> QED
          BY <1>1, <3>3, <4>1
      <3> QED
        BY <1>1, <1>9, <3>4, <3>5
    <2> QED
      BY <2>1, <2>2
  <1> HIDE DEF Begins
  <1>20. LineHeader(s, start, n, c, b)
    <2>1. HeaderSpan(s, start, c, b, n)
      BY <1>19
    <2> QED
      BY <1>18, <2>1 DEF LineHeader, Begins
  <1> QED
    BY <1>19, <1>20

\* A piece of a piece.
LEMMA PieceOfPiece ==
    ASSUME NEW s \in Text, NEW a \in 1 .. Len(s), NEW n \in a .. Len(s) + 1,
           NEW i \in 1 .. n - a + 1, NEW j \in i - 1 .. n - a
    PROVE  SubSeq(SubSeq(s, a, n - 1), i, j) = SubSeq(s, a + i - 1, a + j - 1)
  <1> DEFINE t == SubSeq(s, a, n - 1)
             x == SubSeq(t, i, j)
             y == SubSeq(s, a + i - 1, a + j - 1)
  <1>1. /\ Len(s) \in Nat /\ a \in Nat \ {0} /\ n \in Nat /\ i \in Nat \ {0} /\ j \in Int
        /\ n - 1 \in Int /\ n - 1 <= Len(s)
        /\ a + i - 1 \in Nat \ {0} /\ a + j - 1 \in Int /\ a + j - 1 <= Len(s)
    BY TextIs
  <1>2. /\ t \in Text /\ Len(t) = IF a <= n - 1 THEN n - 1 - a + 1 ELSE 0
        /\ \A k \in 1 .. Len(t) : t[k] = s[a + k - 1]
    BY <1>1, PieceIs
  <1> HIDE DEF t
  <1>3. Len(t) = n - a
    BY <1>1, <1>2
  <1>4. /\ x \in Text /\ Len(x) = IF i <= j THEN j - i + 1 ELSE 0
        /\ \A k \in 1 .. Len(x) : x[k] = t[i + k - 1]
    <2>1. j <= Len(t)
      BY <1>1, <1>3
    <2> QED
      BY <1>1, <1>2, <2>1, PieceIs
  <1>5. /\ y \in Text /\ Len(y) = IF a + i - 1 <= a + j - 1 THEN (a + j - 1) - (a + i - 1) + 1 ELSE 0
        /\ \A k \in 1 .. Len(y) : y[k] = s[(a + i - 1) + k - 1]
    BY <1>1, PieceIs
  <1> HIDE DEF x, y
  <1>6. Len(x) = Len(y)
    BY <1>1, <1>4, <1>5
  <1>7. ASSUME NEW k \in 1 .. Len(x) PROVE x[k] = y[k]
    <2>0. Len(x) = j - i + 1
      BY <1>1, <1>4
    <2>1. i + k - 1 \in 1 .. Len(t) /\ a + (i + k - 1) - 1 = (a + i - 1) + k - 1
      BY <1>1, <1>3, <2>0
    <2> QED
      BY <1>2, <1>4, <1>5, <1>6, <2>1
  <1>8. x = y
    BY <1>4, <1>5, <1>6, <1>7, SameText
  <1> QED
    BY <1>8 DEF x, y, t

\* The value has the words of what follows the colon.
LEMMA ValueWords ==
    ASSUME NEW s \in Text, NEW start \in 1 .. Len(s), NEW n, EndsLine(s, start, n),
           IsProper(SubSeq(s, start, n - 1)), NEW c \in Nat, NEW b \in Nat, LineHeader(s, start, n, c, b)
    PROVE  LET t == SubSeq(s, start, n - 1)
               h == HeaderIn(s, start, c, b, n).header
           IN  Readable(t) => IsHeaderOf(h, t)
  <1> DEFINE t == SubSeq(s, start, n - 1)
             k == Min(Positions(t, "colon"))
             a == b - start + 1
             raw == SubSeq(t, a, Len(t))
             behind == SubSeq(t, k + 1, Len(t))
             h == HeaderIn(s, start, c, b, n).header
  <1>1. /\ Len(s) \in Nat /\ start \in Nat \ {0} /\ start <= Len(s) /\ n \in start .. Len(s) + 1
    BY TextIs DEF EndsLine
  <1>2. /\ c \in start .. Len(s) /\ s[c] = "colon" /\ \A i \in start .. c - 1 : s[i] # "colon"
        /\ b \in c + 1 .. n
    BY DEF LineHeader, HeaderSpan
  <1>3. /\ \A i \in c + 1 .. b - 1 : s[i] \in {"space", "newline"}
        /\ s[b - 1] # "newline"
    BY DEF LineHeader
  <1>4. /\ t \in Text /\ Len(t) = n - start
        /\ \A i \in 1 .. Len(t) : t[i] = s[start + i - 1]
        /\ Unbroken(t)
    BY LineIs
  <1>5. Positions(t, "colon") # {} /\ NoBlankPiece(t)
    BY DEF IsProper, NoBlankPiece
  <1>6. k \in 1 .. Len(t) /\ t[k] = "colon" /\ \A i \in 1 .. k - 1 : t[i] # "colon"
    BY <1>4, <1>5, FirstColon
  <1>7. Solid(t)
    BY <1>4, <1>5, ProperIsSolid
  <1>n. SubSeq(t, 1, k - 1) = SubSeq(s, start, start + k - 2)
    <2> DEFINE j == k - 1
    <2>1. 1 \in 1 .. n - start + 1 /\ j \in 1 - 1 .. n - start
      BY <1>1, <1>4, <1>6
    <2>2. start + 1 - 1 = start /\ start + j - 1 = start + k - 2
      BY <1>1, <1>4, <1>6
    <2> HIDE DEF j, k
    <2>3. SubSeq(t, 1, j) = SubSeq(s, start + 1 - 1, start + j - 1)
      BY <1>1, <2>1, PieceOfPiece
    <2> QED
      BY <2>2, <2>3 DEF j
  <1>r. raw = SubSeq(s, b, n - 1)
    <2> DEFINE j == n - start
    <2>1. a \in 1 .. n - start + 1 /\ j \in a - 1 .. n - start
      BY <1>1, <1>2
    <2>2. start + a - 1 = b /\ start + j - 1 = n - 1 /\ Len(t) = j
      BY <1>1, <1>2, <1>4
    <2> HIDE DEF j, a
    <2>3. SubSeq(t, a, j) = SubSeq(s, start + a - 1, start + j - 1)
      BY <1>1, <2>1, PieceOfPiece
    <2> QED
      BY <2>2, <2>3
  <1>t. DOMAIN t = 1 .. Len(t) /\ Len(t) \in Nat
    BY <1>4, TextIs
  <1>h. /\ h.name = SubSeq(s, start, c - 1)
        /\ h.value = IF \E i \in b + 1 .. n - 1 : s[i] = "newline"
                     THEN UnfoldHeader(SubSeq(s, b, n - 1)) ELSE SubSeq(s, b, n - 1)
    BY DEF HeaderIn
  <1> HIDE DEF t, k, h
  <1>8. k = c - start + 1
    <2>1. ~(c < start + k - 1)
      <3> SUFFICES ASSUME c < start + k - 1 PROVE FALSE
        OBVIOUS
      <3>1. c - start + 1 \in 1 .. k - 1 /\ start + (c - start + 1) - 1 = c /\ c - start + 1 \in 1 .. Len(t)
        BY <1>1, <1>2, <1>6
      <3>2. t[c - start + 1] = s[c]
        BY <1>4, <3>1
      <3> QED
        BY <1>2, <1>6, <3>1, <3>2
    <2>2. ~(c > start + k - 1)
      <3> SUFFICES ASSUME c > start + k - 1 PROVE FALSE
        OBVIOUS
      <3>1. start + k - 1 \in start .. c - 1
        BY <1>1, <1>6
      <3>2. s[start + k - 1] = "colon"
        BY <1>4, <1>6
      <3> QED
        BY <1>2, <3>1, <3>2
    <2> QED
      BY <1>1, <1>2, <1>6, <2>1, <2>2
  <1>9. /\ a \in k + 1 .. Len(t) + 1 /\ a \in 1 .. Len(t) + 1 /\ k + 1 \in 1 .. Len(t) + 1
        /\ a - 1 \in 1 .. Len(t) /\ start + (a - 1) - 1 = b - 1
    BY <1>1, <1>2, <1>4, <1>6, <1>8
  <1>10. \A i \in k + 1 .. a - 1 : Blank(t, i)
    <2> SUFFICES ASSUME NEW i \in k + 1 .. a - 1 PROVE Blank(t, i)
      OBVIOUS
    <2>1. start + i - 1 \in c + 1 .. b - 1 /\ i \in 1 .. Len(t)
      BY <1>1, <1>2, <1>4, <1>6, <1>8
    <2>2. t[i] \in {"space", "newline"}
      BY <1>3, <1>4, <2>1
    <2> QED
      BY <2>2 DEF Blank, Space
  <1>11. t[a - 1] # "newline"
    BY <1>3, <1>4, <1>9
  <1> HIDE DEF a
  <1>12. PICK w : WordsIn(t, w) /\ Words(t) = w[1]
    BY <1>4, WordsAre
  <1>13. w[k + 1] = w[a]
    <2>1. \A i \in k + 1 .. a - 1 : Blank(t, i)
      BY <1>10
    <2>2. WordsIn(t, w)
      BY <1>12
    <2>3. t \in Text
      BY <1>4
    <2>4. k + 1 \in 1 .. Len(t) + 1
      BY <1>9
    <2>5. a \in k + 1 .. Len(t) + 1
      BY <1>9
    <2> QED
      BY <2>1, <2>2, <2>3, <2>4, <2>5, SkipBlanks
  <1>14. Words(raw) = w[a]
    <2>1. a <= Len(t) /\ Blank(t, a) => t[a] \in Space
      BY <1>11 DEF Blank
    <2> QED
      BY <1>4, <1>9, <1>12, <2>1, TailWords
  <1>15. Words(behind) = w[k + 1]
    <2>1. t[(k + 1) - 1] # "newline"
      <3>1. (k + 1) - 1 = k
        BY <1>6, <1>t
      <3> QED
        BY <1>6, <3>1
    <2>2. k + 1 <= Len(t) /\ Blank(t, k + 1) => t[k + 1] \in Space
      BY <2>1 DEF Blank
    <2> QED
      BY <1>4, <1>9, <1>12, <2>2, TailWords
  <1> SUFFICES ASSUME Readable(t) PROVE IsHeaderOf(h, t)
    BY DEF t, h
  <1>16. raw \in Text /\ Solid(raw)
    <2>1. a \in Nat \ {0} /\ Len(t) \in Int /\ Len(t) <= Len(t)
      BY <1>9, <1>t
    <2>2. raw \in Text
      BY <1>4, <2>1, PieceIs
    <2> QED
      BY <1>4, <1>7, <1>9, <2>2, SolidTail
  <1>17. Words(h.value) = Words(raw)
    <2>1. CASE \E i \in b + 1 .. n - 1 : s[i] = "newline"
      <3>1. PICK i \in b + 1 .. n - 1 : s[i] = "newline"
        BY <2>1
      <3>2. i - start + 1 \in 1 .. Len(t) /\ start + (i - start + 1) - 1 = i
        BY <1>1, <1>2, <1>4
      <3>3. i - start + 1 \in Positions(t, "newline")
        BY <1>4, <1>t, <3>1, <3>2 DEF Positions
      <3> DEFINE last == Len(Last(Words(t)))
      <3>4. last # 1
        <4>1. last > 1
          <5>1. Positions(t, "newline") # {}
            BY <3>3
          <5> QED
            BY <5>1, Zenon DEF Readable
        <4> HIDE DEF last
        <4> QED
          BY <4>1
      <3>5. ~Alone(t)
        BY <1>4, <3>4, AloneIsWord
      <3>6. ~Alone(raw)
        BY <1>4, <1>9, <3>5, AloneTail
      <3>7. h.value = UnfoldHeader(raw)
        BY <1>h, <1>r, <2>1
      <3> HIDE DEF raw
      <3>8. Words(UnfoldHeader(raw)) = Words(raw)
        BY <1>16, <3>6, UnfoldedWords
      <3> QED
        BY <3>7, <3>8
    <2>2. CASE ~(\E i \in b + 1 .. n - 1 : s[i] = "newline")
      BY <1>h, <1>r, <2>2
    <2> QED
      BY <2>1, <2>2
  <1>18. h.name = SubSeq(t, 1, k - 1)
    <2>1. start + k - 2 = c - 1
      BY <1>1, <1>2, <1>8
    <2> QED
      BY <1>h, <1>n, <2>1
  <1>19. Words(h.value) = Words(behind)
    BY <1>13, <1>14, <1>15, <1>17
  <1> QED
    BY <1>18, <1>19 DEF IsHeaderOf, k

\* parse() finds the header of a line.
LEMMA HeaderIsLine ==
    ASSUME NEW s \in Text, NEW start \in 1 .. Len(s), IsProper(LineFrom(s, start))
    PROVE  /\ IsHeaderAt(s, start)
           /\ NextCursor(s, start) = LineEnd(s, start) + 1
           /\ Readable(LineFrom(s, start)) =>
                 IsHeaderOf(ExtractHeader(s, start).header, LineFrom(s, start))
  <1> DEFINE n == LineEnd(s, start)
             x == ExtractHeader(s, start)
  <1>1. EndsLine(s, start, n) /\ IsProper(SubSeq(s, start, n - 1)) /\ start \in Nat \ {0}
    BY LineEndIs DEF LineFrom
  <1> HIDE DEF n
  <1>2. IsHeaderAt(s, start)
    BY <1>1, HeaderOfLine
  <1>3. \A c, b, e \in Nat : HeaderSpan(s, start, c, b, e) => e = n /\ LineHeader(s, start, n, c, b)
    BY <1>1, HeaderOfLine
  <1>4. PICK c, b, e \in Nat : HeaderSpan(s, start, c, b, e) /\ x = HeaderIn(s, start, c, b, e)
    BY <1>1, <1>2, ExtractHeaderIs
  <1>5. e = n /\ LineHeader(s, start, n, c, b)
    BY <1>3, <1>4
  <1>6. x = HeaderIn(s, start, c, b, n)
    BY <1>4, <1>5
  <1>7. x.end = n
    BY <1>6 DEF HeaderIn
  <1> DEFINE t == SubSeq(s, start, n - 1)
  <1>8. Readable(t) => IsHeaderOf(x.header, t)
    <2>1. Readable(t) => IsHeaderOf(HeaderIn(s, start, c, b, n).header, t)
      BY <1>1, <1>5, ValueWords
    <2> HIDE DEF t, x
    <2> QED
      BY <1>6, <2>1
  <1> QED
    BY <1>2, <1>7, <1>8 DEF NextCursor, LineFrom, n

\* The lines from "start" on.
LinesIn(s, l) ==
    /\ l \in [Nat \ {0} -> Seq(Text)]
    /\ \A start \in Nat \ {0} :
          l[start] = IF start > Len(s) THEN <<>>
                     ELSE <<LineFrom(s, start)>> \o l[LineEnd(s, start) + 1]

LEMMA LinesAre ==
    ASSUME NEW s \in Text
    PROVE  \E l : LinesIn(s, l) /\ LogicalLines(s) = l[1]
  <1> DEFINE D == Nat \ {0}
             Stop == {i \in D : i > Len(s)}
             Goes(i) == LineEnd(s, i) + 1
             next == [i \in D |-> Goes(i)]
             m == [i \in D |-> IF i <= Len(s) THEN Len(s) + 1 - i ELSE 0]
             Add(i, r) == <<LineFrom(s, i)>> \o r
             last == [i \in D |-> <<>>]
             step == [i \in D |-> [r \in Seq(Text) |-> Add(i, r)]]
             Is(f) == f = [i \in D |-> IF i > Len(s) THEN <<>>
                                       ELSE <<LineFrom(s, i)>> \o f[LineEnd(s, i) + 1]]
  <1>0. Len(s) \in Nat /\ <<>> \in Seq(Text)
    BY TextIs
  <1>1. ASSUME NEW i \in D \ Stop PROVE EndsLine(s, i, LineEnd(s, i)) /\ i \in 1 .. Len(s)
    <2>1. i \in 1 .. Len(s)
      BY <1>0
    <2> QED
      BY <2>1, LineEndIs
  <1>2. Ends(D, Stop, next, m)
    <2>1. m \in [D -> Nat]
      BY <1>0
    <2>2. ASSUME NEW i \in D \ Stop PROVE next[i] \in D /\ m[next[i]] < m[i]
      <3>1. LineEnd(s, i) \in i .. Len(s) + 1 /\ i \in 1 .. Len(s)
        BY <1>1 DEF EndsLine
      <3>2. PICK n \in D : n = Goes(i) /\ n > i
        BY <3>1
      <3>3. next[i] = n
        BY <3>2
      <3>4. m[n] < m[i]
        BY <1>0, <3>1, <3>2
      <3> QED
        BY <3>3, <3>4
    <2> QED
      BY <2>1, <2>2 DEF Ends
  <1>3. ASSUME NEW i \in D \ Stop, NEW r \in Seq(Text) PROVE Add(i, r) \in Seq(Text)
    <2>1. LineFrom(s, i) \in Text
      BY <1>1, LineIs DEF LineFrom
    <2>2. <<LineFrom(s, i)>> \in Seq(Text)
      BY <2>1
    <2> QED
      BY <2>2, ConcatProperties
  <1>4. LogicalLines(s) = (CHOOSE f : Is(f))[1]
    BY DEF LogicalLines, LineFrom
  <1>5. \E f : Is(f)
    <2>1. PICK f : Unrolled(f, D, Stop, last, step, next)
      <3> HIDE DEF D, Stop, last, step, next, m
      <3> QED
        BY <1>2, RecursionIsDefined
    <2>2. f = [i \in D |-> IF i \in Stop THEN last[i] ELSE step[i][f[next[i]]]]
      BY <2>1 DEF Unrolled
    <2>3. \A i \in D : f[i] = IF i \in Stop THEN <<>> ELSE step[i][f[next[i]]]
      BY <2>2
    <2> DEFINE U == {i \in D : f[i] \in Seq(Text)}
    <2>4. Inherits(U, D, Stop, next)
      <3> SUFFICES ASSUME NEW i \in D, i \in Stop \/ next[i] \in U PROVE f[i] \in Seq(Text)
        BY DEF Inherits
      <3> HIDE DEF Add, next
      <3>1. CASE i \in Stop
        BY <1>0, <2>3, <3>1
      <3>2. CASE i \notin Stop
        <4>1. f[next[i]] \in Seq(Text)
          BY <3>2
        <4>2. f[i] = Add(i, f[next[i]])
          BY <2>3, <3>2, <4>1
        <4> QED
          BY <1>3, <3>2, <4>1, <4>2
      <3> QED
        BY <3>1, <3>2
    <2>5. \A i \in D : i \in U
      <3> HIDE DEF U, D, Stop, next, m
      <3> QED
        BY <1>2, <2>4, MeasureInduction
    <2>6. ASSUME NEW i \in D
          PROVE  f[i] = IF i > Len(s) THEN <<>> ELSE <<LineFrom(s, i)>> \o f[LineEnd(s, i) + 1]
      <3>1. CASE i \in Stop
        BY <2>3, <3>1
      <3>2. CASE i \notin Stop
        <4>1. next[i] \in D /\ next[i] = Goes(i)
          BY <1>2, <3>2 DEF Ends
        <4>2. f[Goes(i)] \in Seq(Text)
          BY <2>5, <4>1
        <4>3. f[i] = Add(i, f[Goes(i)])
          BY <2>3, <3>2, <4>1, <4>2
        <4> QED
          BY <3>2, <4>3
      <3> QED
        BY <3>1, <3>2
    <2>7. Is(f)
      BY <2>2, <2>6
    <2> QED
      BY <2>7
  <1> DEFINE w == CHOOSE f : Is(f)
  <1>6. Is(w)
    <2> HIDE DEF Is
    <2> QED
      BY <1>5
  <1>7. LogicalLines(s) = w[1]
    BY <1>4
  <1> HIDE DEF w
  <1>8. \A i \in D : w[i] = IF i > Len(s) THEN <<>> ELSE <<LineFrom(s, i)>> \o w[LineEnd(s, i) + 1]
    BY <1>6
  <1> DEFINE U == {i \in D : w[i] \in Seq(Text)}
  <1>9. Inherits(U, D, Stop, next)
    <2> SUFFICES ASSUME NEW i \in D, i \in Stop \/ next[i] \in U PROVE w[i] \in Seq(Text)
      BY DEF Inherits
    <2>1. CASE i \in Stop
      BY <1>0, <1>8, <2>1
    <2>2. CASE i \notin Stop
      <3>1. w[LineEnd(s, i) + 1] \in Seq(Text)
        BY <2>2
      <3>2. w[i] = Add(i, w[LineEnd(s, i) + 1])
        BY <1>8, <2>2
      <3> HIDE DEF Add
      <3> QED
        BY <1>3, <2>2, <3>1, <3>2
    <2> QED
      BY <2>1, <2>2
  <1>10. \A i \in D : i \in U
    <2> HIDE DEF U, D, Stop, next, m
    <2> QED
      BY <1>2, <1>9, MeasureInduction
  <1>11. w = [i \in D |-> w[i]]
    BY <1>6
  <1>12. w \in [D -> Seq(Text)]
    <2> HIDE DEF Is
    <2> QED
      BY <1>10, <1>11
  <1>13. LinesIn(s, w)
    BY <1>8, <1>12 DEF LinesIn
  <1> QED
    BY <1>7, <1>13

\* A line, not a continuation line, starts at i.
BeginsLine(s, i) ==
    i \in 1 .. Len(s) /\ (i = 1 \/ (s[i - 1] = "newline" /\ s[i] \notin {"space", "encoded"}))

\* Behind a line is the end or another line, and none starts in it.
LEMMA NextLine ==
    ASSUME NEW s \in Text, NEW start \in 1 .. Len(s)
    PROVE  LET next == LineEnd(s, start) + 1
           IN  /\ next \in start + 1 .. Len(s) + 2
               /\ next > Len(s) \/ BeginsLine(s, next)
               /\ \A i \in Nat : BeginsLine(s, i) /\ i >= start => i = start \/ i >= next
  <1> DEFINE n == LineEnd(s, start)
  <1>1. /\ Len(s) \in Nat /\ start \in Nat \ {0} /\ n \in start .. Len(s) + 1
        /\ n <= Len(s) => s[n] = "newline" /\ ~Continued(s, n)
        /\ \A i \in start .. n - 1 : s[i] = "newline" => Continued(s, i)
    BY LineEndIs, TextIs DEF EndsLine
  <1> HIDE DEF n
  <1>2. n + 1 > Len(s) \/ BeginsLine(s, n + 1)
    <2> SUFFICES ASSUME ~(n + 1 > Len(s)) PROVE BeginsLine(s, n + 1)
      OBVIOUS
    <2>1. n <= Len(s) /\ n < Len(s) /\ n + 1 \in 1 .. Len(s) /\ (n + 1) - 1 = n
      BY <1>1
    <2>2. s[n] = "newline" /\ s[n + 1] \notin {"space", "encoded"}
      BY <1>1, <2>1 DEF Continued
    <2> QED
      BY <2>1, <2>2 DEF BeginsLine
  <1>3. ASSUME NEW i \in Nat, BeginsLine(s, i), i >= start, i # start PROVE i >= n + 1
    <2> SUFFICES ASSUME ~(i >= n + 1) PROVE FALSE
      OBVIOUS
    <2>1. i \in 1 .. Len(s) /\ i - 1 \in start .. n - 1 /\ i # 1
      BY <1>1, <1>3 DEF BeginsLine
    <2>2. s[i - 1] = "newline" /\ s[i] \notin {"space", "encoded"}
      BY <1>3, <2>1 DEF BeginsLine
    <2>3. Continued(s, i - 1)
      BY <1>1, <2>1, <2>2
    <2>4. (i - 1) + 1 = i
      BY <2>1
    <2> QED
      BY <2>2, <2>3, <2>4 DEF Continued
  <1>4. n + 1 \in start + 1 .. Len(s) + 2
    BY <1>1
  <1> QED
    BY <1>2, <1>3, <1>4 DEF n

\* One more in front.
LEMMA OneInFront ==
    ASSUME NEW S, NEW x \in S, NEW r \in Seq(S)
    PROVE  /\ <<x>> \o r \in Seq(S) /\ Len(<<x>> \o r) = Len(r) + 1
           /\ (<<x>> \o r)[1] = x
           /\ \A k \in 1 .. Len(r) : (<<x>> \o r)[k + 1] = r[k]
  <1>1. <<x>> \in Seq(S) /\ Len(<<x>>) = 1 /\ <<x>>[1] = x /\ Len(r) \in Nat
    BY LenProperties
  <1>2. /\ <<x>> \o r \in Seq(S)
        /\ Len(<<x>> \o r) = Len(<<x>>) + Len(r)
        /\ \A k \in 1 .. Len(<<x>>) + Len(r) :
              (<<x>> \o r)[k] = IF k <= Len(<<x>>) THEN <<x>>[k] ELSE r[k - Len(<<x>>)]
    BY <1>1, ConcatProperties
  <1> DEFINE y == <<x>> \o r
  <1> HIDE DEF y
  <1>3. /\ y \in Seq(S) /\ Len(y) = Len(r) + 1
        /\ \A k \in 1 .. 1 + Len(r) : y[k] = IF k <= 1 THEN x ELSE r[k - 1]
    <2>1. \A k \in 1 .. 1 : <<x>>[k] = x
      BY <1>1
    <2>2. \A k \in 1 .. 1 + Len(r) : y[k] = IF k <= 1 THEN <<x>>[k] ELSE r[k - 1]
      BY <1>1, <1>2 DEF y
    <2>3. \A k \in 1 .. 1 + Len(r) : k <= 1 => k \in 1 .. 1
      BY <1>1
    <2>4. \A k \in 1 .. 1 + Len(r) : y[k] = IF k <= 1 THEN x ELSE r[k - 1]
      BY <2>1, <2>2, <2>3
    <2>5. y \in Seq(S) /\ Len(y) = Len(r) + 1
      BY <1>1, <1>2 DEF y
    <2> QED
      BY <2>4, <2>5
  <1>4. y[1] = x
    <2>1. 1 \in 1 .. 1 + Len(r) /\ 1 <= 1
      BY <1>1
    <2> QED
      BY <1>3, <2>1
  <1>5. ASSUME NEW k \in 1 .. Len(r) PROVE y[k + 1] = r[k]
    <2>1. k + 1 \in 1 .. 1 + Len(r) /\ ~(k + 1 <= 1) /\ (k + 1) - 1 = k
      BY <1>1
    <2> QED
      BY <1>3, <2>1
  <1> QED
    BY <1>3, <1>4, <1>5 DEF y

\* The lines q and the headers h from "start" on begin where f says.
Lists(s, start, q, h, f) ==
    /\ f \in Seq(Nat) /\ Len(q) = Len(f) /\ Len(h) = Len(f)
    /\ \A k \in 1 .. Len(f) : /\ BeginsLine(s, f[k]) /\ f[k] >= start
                              /\ q[k] = LineFrom(s, f[k])
                              /\ h[k] = ExtractHeader(s, f[k]).header
    /\ \A i \in Nat : BeginsLine(s, i) /\ i >= start => \E k \in 1 .. Len(f) : f[k] = i
    /\ \A k \in 1 .. Len(f) : \A j \in 1 .. k - 1 : f[j] < f[k]

LEMMA ListOneMore ==
    ASSUME NEW s \in Text, NEW start \in 1 .. Len(s), BeginsLine(s, start), IsHeaderAt(s, start),
           NEW q \in Seq(Text), NEW h \in Seq(Header), NEW f,
           Lists(s, LineEnd(s, start) + 1, q, h, f)
    PROVE  Lists(s, start, <<LineFrom(s, start)>> \o q,
                 <<ExtractHeader(s, start).header>> \o h, <<start>> \o f)
  <1> DEFINE n == LineEnd(s, start) + 1
             t == LineFrom(s, start)
             x == ExtractHeader(s, start).header
             qq == <<t>> \o q
             hh == <<x>> \o h
             ff == <<start>> \o f
  <1>1. /\ n \in start + 1 .. Len(s) + 2
        /\ \A i \in Nat : BeginsLine(s, i) /\ i >= start => i = start \/ i >= n
    BY NextLine
  <1>2. t \in Text
    BY LineEndIs, LineIs DEF LineFrom
  <1>3. x \in Header
    BY ExtractedIsHeader
  <1>4. start \in Nat /\ Len(s) \in Nat
    BY TextIs
  <1>5. Lists(s, n, q, h, f)
    OBVIOUS
  <1>b. BeginsLine(s, start)
    OBVIOUS
  <1>6. t = LineFrom(s, start) /\ x = ExtractHeader(s, start).header
    OBVIOUS
  <1> HIDE DEF n, t, x
  <1>7. /\ f \in Seq(Nat) /\ Len(q) = Len(f) /\ Len(h) = Len(f)
        /\ \A k \in 1 .. Len(f) : /\ BeginsLine(s, f[k]) /\ f[k] >= n
                                  /\ q[k] = LineFrom(s, f[k])
                                  /\ h[k] = ExtractHeader(s, f[k]).header
    BY <1>5 DEF Lists
  <1>8. \A i \in Nat : BeginsLine(s, i) /\ i >= n => \E k \in 1 .. Len(f) : f[k] = i
    BY <1>5 DEF Lists
  <1>9. \A k \in 1 .. Len(f) : \A j \in 1 .. k - 1 : f[j] < f[k]
    BY <1>5 DEF Lists
  <1>10. /\ qq \in Seq(Text) /\ Len(qq) = Len(q) + 1 /\ qq[1] = t
         /\ \A k \in 1 .. Len(q) : qq[k + 1] = q[k]
    BY <1>2, OneInFront
  <1>11. /\ hh \in Seq(Header) /\ Len(hh) = Len(h) + 1 /\ hh[1] = x
         /\ \A k \in 1 .. Len(h) : hh[k + 1] = h[k]
    BY <1>3, OneInFront
  <1>12. /\ ff \in Seq(Nat) /\ Len(ff) = Len(f) + 1 /\ ff[1] = start
         /\ \A k \in 1 .. Len(f) : ff[k + 1] = f[k]
    BY <1>4, <1>7, OneInFront
  <1> HIDE DEF qq, hh, ff
  <1>13. Len(f) \in Nat /\ \A k \in 1 .. Len(f) : f[k] \in Nat
    BY <1>7, LenProperties, ElementOfSeq
  <1>14. \A k \in 1 .. Len(ff) : k = 1 \/ (k - 1 \in 1 .. Len(f) /\ k = (k - 1) + 1)
    BY <1>12, <1>13
  <1>15. ASSUME NEW k \in 1 .. Len(ff)
         PROVE  /\ BeginsLine(s, ff[k]) /\ ff[k] >= start
                /\ qq[k] = LineFrom(s, ff[k])
                /\ hh[k] = ExtractHeader(s, ff[k]).header
    <2>1. CASE k = 1
      <3>1. start >= start
        BY <1>4
      <3> QED
        BY <1>b, <1>6, <1>10, <1>11, <1>12, <2>1, <3>1
    <2>2. CASE k # 1
      <3>1. PICK j \in 1 .. Len(f) : k = j + 1
        BY <1>14, <2>2
      <3>2. ff[k] = f[j] /\ qq[k] = q[j] /\ hh[k] = h[j]
        BY <1>7, <1>10, <1>11, <1>12, <3>1
      <3>3. f[j] >= start
        <4>1. f[j] >= n /\ f[j] \in Nat
          BY <1>7, <1>13
        <4> QED
          BY <1>1, <1>4, <4>1
      <3> QED
        BY <1>7, <3>2, <3>3
    <2> QED
      BY <2>1, <2>2
  <1>16. ASSUME NEW i \in Nat, BeginsLine(s, i), i >= start PROVE \E k \in 1 .. Len(ff) : ff[k] = i
    <2>1. CASE i = start
      <3>1. 1 \in 1 .. Len(ff)
        BY <1>12, <1>13
      <3> QED
        BY <1>12, <2>1, <3>1
    <2>2. CASE i # start
      <3>1. i >= n
        BY <1>1, <1>16, <2>2
      <3>2. PICK j \in 1 .. Len(f) : f[j] = i
        BY <1>8, <1>16, <3>1
      <3>3. j + 1 \in 1 .. Len(ff) /\ ff[j + 1] = i
        BY <1>12, <1>13, <3>2
      <3> QED
        BY <3>3
    <2> QED
      BY <2>1, <2>2
  <1>17. ASSUME NEW k \in 1 .. Len(ff), NEW j \in 1 .. k - 1 PROVE ff[j] < ff[k]
    <2>1. PICK m \in 1 .. Len(f) : k = m + 1
      BY <1>14, <1>12, <1>13
    <2>2. ff[k] = f[m] /\ f[m] >= n /\ f[m] \in Nat
      BY <1>7, <1>12, <1>13, <2>1
    <2>3. CASE j = 1
      <3>1. ff[j] = start
        BY <1>12, <2>3
      <3> QED
        BY <1>1, <1>4, <2>2, <3>1
    <2>4. CASE j # 1
      <3>1. PICK i \in 1 .. m - 1 : j = i + 1
        <4>1. j - 1 \in 1 .. m - 1 /\ j = (j - 1) + 1
          BY <1>13, <2>1, <2>4
        <4> QED
          BY <4>1
      <3>2. i \in 1 .. Len(f)
        BY <1>13, <2>1, <3>1
      <3>3. ff[j] = f[i]
        BY <1>12, <3>1, <3>2
      <3> QED
        BY <1>9, <2>2, <3>1, <3>3
    <2> QED
      BY <2>3, <2>4
  <1>18. Len(qq) = Len(ff) /\ Len(hh) = Len(ff)
    BY <1>7, <1>10, <1>11, <1>12
  <1>19. Lists(s, start, qq, hh, ff)
    BY <1>12, <1>15, <1>16, <1>17, <1>18 DEF Lists
  <1> QED
    BY <1>19 DEF qq, hh, ff, t, x

AllProper(q) == \A k \in 1 .. Len(q) : IsProper(q[k])

\* Where every line is proper, parse() finds the lines one after the other.
LEMMA LinesListed ==
    ASSUME NEW s \in Text, NEW l, LinesIn(s, l), NEW p, Parses(s, p), AllProper(l[1])
    PROVE  \E f : Lists(s, 1, l[1], p[1], f)
  <1> DEFINE D == Nat \ {0}
             Stop == {i \in D : i > Len(s)}
             next == [i \in D |-> LineEnd(s, i) + 1]
             m == [i \in D |-> IF i <= Len(s) THEN Len(s) + 1 - i ELSE 0]
             Starts(i) == i > Len(s) \/ BeginsLine(s, i)
             U == {i \in D : Starts(i) /\ AllProper(l[i]) => \E f : Lists(s, i, l[i], p[i], f)}
  <1>0. Len(s) \in Nat
    BY TextIs
  <1>1. ASSUME NEW i \in D \ Stop
        PROVE  i \in 1 .. Len(s) /\ LineEnd(s, i) + 1 \in i + 1 .. Len(s) + 2
               /\ Starts(LineEnd(s, i) + 1)
    <2>1. i \in 1 .. Len(s)
      BY <1>0
    <2> QED
      BY <2>1, NextLine
  <1>2. Ends(D, Stop, next, m)
    <2>1. m \in [D -> Nat]
      BY <1>0
    <2>2. ASSUME NEW i \in D \ Stop PROVE next[i] \in D /\ m[next[i]] < m[i]
      <3>1. PICK n \in D : n = LineEnd(s, i) + 1 /\ n > i /\ i <= Len(s)
        BY <1>1
      <3>2. next[i] = n
        BY <3>1
      <3>3. m[n] < m[i]
        BY <1>0, <3>1
      <3> QED
        BY <3>2, <3>3
    <2> QED
      BY <2>1, <2>2 DEF Ends
  <1>3. \A i \in D : l[i] \in Seq(Text) /\ p[i] \in Seq(Header)
    BY DEF LinesIn, Parses
  <1>4. \A i \in D : l[i] = IF i > Len(s) THEN <<>>
                            ELSE <<LineFrom(s, i)>> \o l[LineEnd(s, i) + 1]
    BY DEF LinesIn
  <1>5. \A i \in D : p[i] = IF ~IsHeaderAt(s, i) THEN <<>>
                            ELSE <<ExtractHeader(s, i).header>> \o p[NextCursor(s, i)]
    BY DEF Parses
  <1>6. Inherits(U, D, Stop, next)
    <2> SUFFICES ASSUME NEW i \in D, i \in Stop \/ next[i] \in U, Starts(i), AllProper(l[i])
                 PROVE  \E f : Lists(s, i, l[i], p[i], f)
      BY DEF Inherits
    <2>1. CASE i \in Stop
      <3>1. ~IsHeaderAt(s, i)
        BY <2>1 DEF IsHeaderAt, NoHeaderAt
      <3>2. l[i] = <<>> /\ p[i] = <<>>
        BY <1>4, <1>5, <2>1, <3>1
      <3>3. \A j \in Nat : j >= i => ~BeginsLine(s, j)
        BY <1>0, <2>1 DEF BeginsLine
      <3>4. <<>> \in Seq(Nat) /\ Len(<<>>) = 0 /\ 1 .. 0 = {}
        OBVIOUS
      <3>5. Lists(s, i, <<>>, <<>>, <<>>)
        BY <3>3, <3>4 DEF Lists
      <3> QED
        BY <3>2, <3>5
    <2>2. CASE i \notin Stop
      <3> DEFINE n == LineEnd(s, i) + 1
                 t == LineFrom(s, i)
      <3>1. i \in 1 .. Len(s) /\ n \in D /\ Starts(n) /\ next[i] = n
        BY <1>1, <2>2
      <3>2. t \in Text
        BY <3>1, LineEndIs, LineIs DEF LineFrom
      <3>3. l[n] \in Seq(Text) /\ p[n] \in Seq(Header)
        BY <1>3, <3>1
      <3>4. l[i] = <<t>> \o l[n]
        BY <1>4, <2>2
      <3>u. n \in U
        BY <2>2, <3>1
      <3> HIDE DEF n, t
      <3>5. /\ Len(l[i]) = Len(l[n]) + 1 /\ l[i][1] = t
            /\ \A k \in 1 .. Len(l[n]) : l[i][k + 1] = l[n][k]
        BY <3>2, <3>3, <3>4, OneInFront
      <3>6. Len(l[n]) \in Nat
        BY <3>3, LenProperties
      <3>7. IsProper(t)
        <4>1. 1 \in 1 .. Len(l[i])
          BY <3>5, <3>6
        <4> QED
          BY <3>5, <4>1 DEF AllProper
      <3>8. AllProper(l[n])
        <4> SUFFICES ASSUME NEW k \in 1 .. Len(l[n]) PROVE IsProper(l[n][k])
          BY DEF AllProper
        <4>1. k + 1 \in 1 .. Len(l[i]) /\ l[i][k + 1] = l[n][k]
          BY <3>5, <3>6
        <4> QED
          BY <4>1 DEF AllProper
      <3>9. PICK f : Lists(s, n, l[n], p[n], f)
        BY <3>u, <3>1, <3>8
      <3>10. IsHeaderAt(s, i) /\ NextCursor(s, i) = n
        BY <3>1, <3>7, HeaderIsLine DEF n, t
      <3>11. p[i] = <<ExtractHeader(s, i).header>> \o p[n]
        BY <1>5, <3>10
      <3>12. BeginsLine(s, i)
        BY <1>0, <3>1
      <3>13. Lists(s, i, <<t>> \o l[n], <<ExtractHeader(s, i).header>> \o p[n], <<i>> \o f)
        BY <3>1, <3>3, <3>9, <3>10, <3>12, ListOneMore DEF n, t
      <3> QED
        BY <3>4, <3>11, <3>13
    <2> QED
      BY <2>1, <2>2
  <1>7. \A i \in D : i \in U
    <2> HIDE DEF U, D, Stop, next, m
    <2> QED
      BY <1>2, <1>6, MeasureInduction
  <1>8. 1 > Len(s) \/ BeginsLine(s, 1)
    BY <1>0 DEF BeginsLine
  <1> QED
    BY <1>7, <1>8

-----------------------------------------------------------------------------
(* A search by name finds the first line with that name.                   *)

LEMMA PrefixIs ==
    ASSUME NEW p \in Text, NEW t \in Text
    PROVE  IsPrefix(p, t) <=> Len(p) <= Len(t) /\ \A i \in 1 .. Len(p) : t[i] = p[i]
  <1>0. Len(p) \in Nat /\ Len(p) \in Int /\ 1 \in Nat \ {0} /\ Len(p) <= Len(p)
    BY TextIs
  <1>1. CASE ~(Len(p) <= Len(t))
    BY <1>1 DEF IsPrefix
  <1>2. CASE Len(p) <= Len(t)
    <2> DEFINE a == SubSeq(p, 1, Len(p))
               b == SubSeq(t, 1, Len(p))
    <2>1. a = p
      BY SubSeqFull DEF Text
    <2>2. b \in Text /\ Len(b) = Len(p) /\ \A i \in 1 .. Len(p) : b[i] = t[i]
      <3>1. /\ b \in Text /\ Len(b) = IF 1 <= Len(p) THEN Len(p) - 1 + 1 ELSE 0
            /\ \A i \in 1 .. Len(b) : b[i] = t[1 + i - 1]
        BY <1>0, <1>2, PieceIs
      <3> HIDE DEF b
      <3>2. Len(b) = Len(p)
        BY <1>0, <3>1
      <3>3. \A i \in 1 .. Len(b) : 1 + i - 1 = i
        BY <1>0, <3>2
      <3> QED
        BY <3>1, <3>2, <3>3
    <2>3. IsPrefix(p, t) <=> a = b
      BY <1>2 DEF IsPrefix
    <2> HIDE DEF a, b
    <2>4. p = b <=> \A i \in 1 .. Len(p) : t[i] = p[i]
      <3>1. ASSUME \A i \in 1 .. Len(p) : t[i] = p[i] PROVE p = b
        BY <2>2, <3>1, SameText
      <3>2. ASSUME p = b PROVE \A i \in 1 .. Len(p) : t[i] = p[i]
        BY <2>2, <3>2
      <3> QED
        BY <3>1, <3>2
    <2> QED
      BY <1>2, <2>1, <2>3, <2>4
  <1> QED
    BY <1>1, <1>2

\* The name and a colon are at i.
Named(s, name, i) ==
    /\ i + Len(name) <= Len(s) /\ s[i + Len(name)] = "colon"
    /\ \A k \in 1 .. Len(name) : s[i + k - 1] = name[k]

LEMMA NamedIs ==
    ASSUME NEW s \in Text, NEW name \in Text, NEW i \in 1 .. Len(s)
    PROVE  IsPrefix(Append(name, "colon"), SubSeq(s, i, Len(s))) <=> Named(s, name, i)
  <1> DEFINE p == Append(name, "colon")
             t == SubSeq(s, i, Len(s))
             n == Len(name)
  <1>1. Len(s) \in Nat /\ n \in Nat /\ i \in Nat \ {0} /\ Len(s) \in Int /\ Len(s) <= Len(s)
    BY TextIs
  <1>2. /\ p \in Text /\ Len(p) = n + 1 /\ p[n + 1] = "colon"
        /\ \A k \in 1 .. n : p[k] = name[k]
    <2>1. "colon" \in Symbol
      BY DEF Symbol
    <2> QED
      BY <2>1, AppendProperties DEF Text
  <1>3. /\ t \in Text /\ Len(t) = IF i <= Len(s) THEN Len(s) - i + 1 ELSE 0
        /\ \A k \in 1 .. Len(t) : t[k] = s[i + k - 1]
    BY <1>1, PieceIs
  <1> HIDE DEF p, t, n
  <1>4. Len(t) = Len(s) - i + 1
    BY <1>1, <1>3
  <1>5. IsPrefix(p, t) <=> Len(p) <= Len(t) /\ \A k \in 1 .. Len(p) : t[k] = p[k]
    BY <1>2, <1>3, PrefixIs
  <1>6. ASSUME IsPrefix(p, t) PROVE Named(s, name, i)
    <2>1. n + 1 <= Len(t) /\ \A k \in 1 .. n + 1 : t[k] = p[k]
      BY <1>2, <1>5, <1>6
    <2>2. i + n <= Len(s) /\ n + 1 \in 1 .. n + 1 /\ n + 1 \in 1 .. Len(t) /\ i + (n + 1) - 1 = i + n
      BY <1>1, <1>4, <2>1
    <2>3. s[i + n] = "colon"
      BY <1>2, <1>3, <2>1, <2>2
    <2>4. ASSUME NEW k \in 1 .. n PROVE s[i + k - 1] = name[k]
      <3>1. k \in 1 .. n + 1 /\ k \in 1 .. Len(t)
        BY <1>1, <2>1, <1>4
      <3> QED
        BY <1>2, <1>3, <2>1, <3>1
    <2> QED
      BY <2>2, <2>3, <2>4 DEF Named, n
  <1>7. ASSUME Named(s, name, i) PROVE IsPrefix(p, t)
    <2>1. i + n <= Len(s) /\ s[i + n] = "colon" /\ \A k \in 1 .. n : s[i + k - 1] = name[k]
      BY <1>7 DEF Named, n
    <2>2. Len(p) <= Len(t)
      BY <1>1, <1>2, <1>4, <2>1
    <2>3. ASSUME NEW k \in 1 .. Len(p) PROVE t[k] = p[k]
      <3>1. k \in 1 .. Len(t)
        BY <1>1, <1>2, <1>4, <2>2
      <3>2. t[k] = s[i + k - 1]
        BY <1>3, <3>1
      <3>3. CASE k = n + 1
        <4>1. i + k - 1 = i + n
          BY <1>1, <3>3
        <4> QED
          BY <1>2, <2>1, <3>2, <3>3, <4>1
      <3>4. CASE k # n + 1
        <4>1. k \in 1 .. n
          BY <1>1, <1>2, <3>4
        <4> QED
          BY <1>2, <2>1, <3>2, <4>1
      <3> QED
        BY <3>3, <3>4
    <2> QED
      BY <1>5, <2>2, <2>3
  <1> QED
    BY <1>6, <1>7 DEF p, t

LEMMA ColonIs ==
    ASSUME NEW s \in Text, NEW i \in 1 .. Len(s), NEW c \in i .. Len(s), s[c] = "colon",
           \A j \in i .. c - 1 : s[j] # "colon"
    PROVE  Min({j \in Positions(s, "colon") : j >= i}) = c
  <1> DEFINE T == {j \in Positions(s, "colon") : j >= i}
             m == Min(T)
  <1>1. Len(s) \in Nat /\ DOMAIN s = 1 .. Len(s)
    BY TextIs
  <1>2. \A j : j \in T <=> j \in i .. Len(s) /\ s[j] = "colon"
    BY <1>1 DEF Positions
  <1> HIDE DEF T
  <1>3. T \in SUBSET Nat /\ c \in T
    BY <1>1, <1>2
  <1>4. m \in T /\ \A j \in T : m <= j
    BY <1>3, LeastNat
  <1> HIDE DEF m
  <1>5. m \in i .. Len(s) /\ s[m] = "colon" /\ m <= c
    BY <1>2, <1>3, <1>4
  <1>6. ~(m < c)
    <2> SUFFICES ASSUME m < c PROVE FALSE
      OBVIOUS
    <2>1. m \in i .. c - 1
      BY <1>1, <1>5
    <2> QED
      BY <1>5, <2>1
  <1>7. m = c
    BY <1>1, <1>5, <1>6
  <1> QED
    BY <1>7 DEF m, T

\* Where the text behind a colon at c begins, and the value that ends there.
Behind(s, c) == IF c + 1 < Len(s) /\ s[c + 1] = "space" THEN c + 2 ELSE c + 1

ValueAfter(s, d) ==
    LET line == FindHeaderLineEnd(s, d)
        text == SubSeq(s, line.begin, line.end - 1)
    IN  IF line.folded THEN UnfoldHeader(text) ELSE text

LEMMA HeaderAtColon ==
    ASSUME NEW s \in Text, NEW i \in 1 .. Len(s), NEW c \in i .. Len(s), s[c] = "colon",
           \A j \in i .. c - 1 : s[j] # "colon"
    PROVE  /\ ExtractHeader(s, i).header.name = SubSeq(s, i, c - 1)
           /\ ExtractHeader(s, i).header.value = ValueAfter(s, Behind(s, c))
  <1> DEFINE m == Min({j \in Positions(s, "colon") : j >= i})
  <1>1. m = c
    BY ColonIs
  <1>2. /\ ExtractHeader(s, i).header.name = SubSeq(s, i, m - 1)
        /\ ExtractHeader(s, i).header.value = ValueAfter(s, Behind(s, m))
    BY DEF ExtractHeader, ValueAfter, Behind
  <1> QED
    BY <1>1, <1>2

\* The name of a line, and where its colon is.
LEMMA NameOfLine ==
    ASSUME NEW s \in Text, NEW start \in 1 .. Len(s), IsProper(LineFrom(s, start))
    PROVE  LET name == ExtractHeader(s, start).header.name
               c == start + Len(name)
           IN  /\ name \in Text /\ Len(name) >= 1
               /\ Named(s, name, start)
               /\ c \in start .. LineEnd(s, start) - 1
               /\ \A j \in start .. c - 1 : s[j] # "colon"
               /\ \A j \in 1 .. Len(name) : name[j] # "colon"
  <1> DEFINE n == LineEnd(s, start)
             x == ExtractHeader(s, start)
  <1>0. Len(s) \in Nat /\ start \in Nat \ {0} /\ start <= Len(s)
    BY TextIs
  <1>1. EndsLine(s, start, n) /\ IsProper(SubSeq(s, start, n - 1))
    BY LineEndIs DEF LineFrom
  <1> HIDE DEF n
  <1>2. IsHeaderAt(s, start)
    BY <1>1, HeaderOfLine
  <1>3. \A c, b, e \in Nat : HeaderSpan(s, start, c, b, e) => e = n /\ LineHeader(s, start, n, c, b)
    BY <1>1, HeaderOfLine
  <1>4. PICK c, b, e \in Nat : HeaderSpan(s, start, c, b, e) /\ x = HeaderIn(s, start, c, b, e)
    BY <1>0, <1>2, ExtractHeaderIs
  <1>5. /\ c \in start .. Len(s) /\ s[c] = "colon" /\ (\A i \in start .. c - 1 : s[i] # "colon")
        /\ b >= c + 1 /\ b <= n
    <2>1. b <= n
      BY <1>3, <1>4 DEF LineHeader
    <2> QED
      BY <1>0, <1>4, <2>1 DEF HeaderSpan
  <1> DEFINE name == x.header.name
  <1>6. name = SubSeq(s, start, c - 1)
    BY <1>4 DEF HeaderIn
  <1> HIDE DEF name, x
  <1>7. /\ name \in Text /\ Len(name) = IF start <= c - 1 THEN c - 1 - start + 1 ELSE 0
        /\ \A i \in 1 .. Len(name) : name[i] = s[start + i - 1]
    <2>1. c - 1 \in Int /\ c - 1 <= Len(s)
      BY <1>0, <1>5
    <2> QED
      BY <1>0, <1>6, <2>1, PieceIs
  <1>8. Len(name) = c - start
    BY <1>0, <1>5, <1>7
  <1>9. c # start
    <2> DEFINE t == SubSeq(s, start, n - 1)
    <2>1. t[1] # "colon"
      BY <1>1 DEF IsProper
    <2>2. /\ t \in Text /\ Len(t) = n - start
          /\ \A i \in 1 .. Len(t) : t[i] = s[start + i - 1]
          /\ Unbroken(t)
      <3>1. EndsLine(s, start, n)
        BY <1>1
      <3> QED
        BY <3>1, LineIs
    <2>3. n \in Nat /\ start < n
      BY <1>0, <1>1, <1>5 DEF EndsLine
    <2>4. 1 \in 1 .. Len(t) /\ start + 1 - 1 = start
      BY <1>0, <2>2, <2>3
    <2> HIDE DEF t
    <2>5. s[start] # "colon"
      BY <2>1, <2>2, <2>4
    <2> QED
      BY <1>5, <2>5
  <1>10. start + Len(name) = c
    BY <1>0, <1>5, <1>8
  <1>11. c \in start .. n - 1 /\ Len(name) >= 1
    <2>1. n \in Nat
      BY <1>0, <1>1 DEF EndsLine
    <2> QED
      BY <1>0, <1>5, <1>8, <1>9, <2>1
  <1>12. ASSUME NEW j \in 1 .. Len(name) PROVE name[j] # "colon"
    <2>1. start + j - 1 \in start .. c - 1
      BY <1>0, <1>5, <1>8
    <2> QED
      BY <1>5, <1>7, <2>1
  <1>13. Named(s, name, start)
    BY <1>5, <1>7, <1>10 DEF Named
  <1> QED
    BY <1>5, <1>7, <1>10, <1>11, <1>12, <1>13 DEF name, x, n

\* The first line with a name is found.
LEMMA FirstIsFound ==
    ASSUME NEW s \in Text, NEW start \in 1 .. Len(s), IsProper(LineFrom(s, start)), BeginsLine(s, start),
           \A i \in 1 .. start - 1 : BeginsLine(s, i) =>
               /\ IsProper(LineFrom(s, i))
               /\ ExtractHeader(s, i).header.name # ExtractHeader(s, start).header.name
    PROVE  LET name == ExtractHeader(s, start).header.name
               after == start + Len(name) + 1
           IN  IndexOfHeader(s, name) =
                   IF after <= Len(s) /\ s[after] = "space" THEN after + 1 ELSE after
  <1> DEFINE name == ExtractHeader(s, start).header.name
             found == {i \in DOMAIN s : /\ i = 1 \/ s[i - 1] = "newline"
                                        /\ IsPrefix(Append(name, "colon"), SubSeq(s, i, Len(s)))}
             m == Min(found)
  <1>0. Len(s) \in Nat /\ DOMAIN s = 1 .. Len(s)
    BY TextIs
  <1>1. /\ name \in Text /\ Len(name) >= 1
        /\ Named(s, name, start)
        /\ \A j \in 1 .. Len(name) : name[j] # "colon"
    BY NameOfLine
  <1>2. \A i \in 1 .. start - 1 : BeginsLine(s, i) =>
            IsProper(LineFrom(s, i)) /\ ExtractHeader(s, i).header.name # name
    OBVIOUS
  <1>i. IndexOfHeader(s, name) =
            IF found = {} THEN 0
            ELSE IF m + Len(Append(name, "colon")) <= Len(s) /\ s[m + Len(Append(name, "colon"))] = "space"
                 THEN m + Len(Append(name, "colon")) + 1 ELSE m + Len(Append(name, "colon"))
    BY DEF IndexOfHeader
  <1> HIDE DEF name
  <1>3. \A i : i \in found <=> /\ i \in 1 .. Len(s) /\ (i = 1 \/ s[i - 1] = "newline")
                               /\ Named(s, name, i)
    BY <1>0, <1>1, NamedIs
  <1> HIDE DEF found
  <1>4. start \in found
    BY <1>1, <1>3 DEF BeginsLine
  <1>5. found \in SUBSET Nat
    BY <1>0, <1>3
  <1>6. m \in found /\ \A j \in found : m <= j
    BY <1>4, <1>5, LeastNat
  <1> HIDE DEF m
  <1>7. m \in 1 .. Len(s) /\ m <= start /\ (m = 1 \/ s[m - 1] = "newline") /\ Named(s, name, m)
    BY <1>3, <1>4, <1>6
  <1>l. Len(name) \in Nat /\ 1 \in 1 .. Len(name)
    BY <1>1, TextIs
  <1>8. m = start
    <2> SUFFICES ASSUME m # start PROVE FALSE
      OBVIOUS
    <2>1. m \in 1 .. start - 1 /\ start # 1
      BY <1>0, <1>7
    <2>2. s[start] = name[1] /\ s[m] = name[1]
      <3>1. \A k \in 1 .. Len(name) : s[start + k - 1] = name[k] /\ s[m + k - 1] = name[k]
        BY <1>1, <1>7 DEF Named
      <3>2. s[start + 1 - 1] = name[1] /\ s[m + 1 - 1] = name[1]
        BY <1>l, <3>1
      <3>3. start + 1 - 1 = start /\ m + 1 - 1 = m
        BY <1>0, <2>1
      <3> QED
        BY <3>2, <3>3
    <2>3. s[start] \notin {"space", "encoded"}
      BY <2>1 DEF BeginsLine
    <2>4. BeginsLine(s, m)
      BY <1>7, <2>2, <2>3 DEF BeginsLine
    <2>5. IsProper(LineFrom(s, m)) /\ ExtractHeader(s, m).header.name # name
      BY <1>2, <2>1, <2>4
    <2> DEFINE c == m + Len(name)
    <2>6. c <= Len(s) /\ s[c] = "colon" /\ \A k \in 1 .. Len(name) : s[m + k - 1] = name[k]
      BY <1>7 DEF Named
    <2>7. c \in m .. Len(s) /\ c - 1 \in Int /\ c - 1 <= Len(s) /\ m \in Nat \ {0}
      BY <1>0, <1>7, <1>l, <2>6
    <2>8. ASSUME NEW j \in m .. c - 1 PROVE s[j] # "colon"
      <3>1. PICK k \in 1 .. Len(name) : j = m + k - 1
        <4>1. j - m + 1 \in 1 .. Len(name) /\ j = m + (j - m + 1) - 1
          BY <1>l, <1>7
        <4> QED
          BY <4>1
      <3> QED
        BY <1>1, <2>6, <3>1
    <2>9. ExtractHeader(s, m).header.name = SubSeq(s, m, c - 1)
      <3> HIDE DEF c
      <3> QED
        BY <1>7, <2>6, <2>7, <2>8, HeaderAtColon
    <2> DEFINE x == SubSeq(s, m, c - 1)
    <2>10. /\ x \in Text /\ Len(x) = IF m <= c - 1 THEN c - 1 - m + 1 ELSE 0
           /\ \A k \in 1 .. Len(x) : x[k] = s[m + k - 1]
      <3> HIDE DEF c
      <3> QED
        BY <2>7, PieceIs
    <2> HIDE DEF x
    <2>11. Len(x) = Len(name)
      BY <1>l, <1>7, <2>10
    <2>12. x = name
      BY <1>1, <2>6, <2>10, <2>11, SameText
    <2> QED
      BY <2>5, <2>9, <2>12 DEF x
  <1>9. Len(Append(name, "colon")) = Len(name) + 1
    <2>1. "colon" \in Symbol
      BY DEF Symbol
    <2> QED
      BY <1>1, <2>1, AppendProperties DEF Text
  <1>10. m + (Len(name) + 1) = start + Len(name) + 1
    BY <1>8, <1>l, <1>0
  <1> DEFINE after == start + Len(name) + 1
  <1>11. IndexOfHeader(s, name) = IF after <= Len(s) /\ s[after] = "space" THEN after + 1 ELSE after
    <2> HIDE DEF after
    <2> QED
      BY <1>i, <1>4, <1>9, <1>10 DEF after
  <1> QED
    BY <1>11 DEF name

\* Behind the last character, or a space that is the last one, no words are.
LEMMA SpaceAtEnd ==
    ASSUME NEW s \in Text, Len(s) >= 2, s[Len(s)] = "space", NEW i \in Len(s) .. Len(s) + 1
    PROVE  Words(ValueAfter(s, i)) = <<>>
  <1> DEFINE line == FindHeaderLineEnd(s, i)
             b == ValueBegin(s, i)
             e == line.end
             text == SubSeq(s, line.begin, line.end - 1)
  <1>1. Len(s) \in Nat /\ i \in 2 .. Len(s) + 1 /\ i >= Len(s) /\ i \in Nat \ {0}
    BY TextIs
  <1>2. /\ line.begin = b
        /\ e \in b .. Len(s) + 1
        /\ line.folded <=> \E j \in b + 1 .. e - 1 : s[j] = "newline"
    BY <1>1, HeaderLineEnds
  <1>3. b = i
    <2>1. ~(i + 1 < Len(s))
      BY <1>1
    <2> QED
      BY <2>1 DEF ValueBegin
  <1>v. ValueAfter(s, i) = IF line.folded THEN UnfoldHeader(text) ELSE text
    BY DEF ValueAfter
  <1> HIDE DEF line, b
  <1>e. e \in Nat /\ e <= Len(s) + 1
    BY <1>1, <1>2, <1>3
  <1>4. ~line.folded
    <2>1. \A j : ~(j \in i + 1 .. e - 1)
      BY <1>1, <1>e
    <2> QED
      BY <1>2, <1>3, <2>1
  <1>5. /\ text \in Text /\ Len(text) = IF i <= e - 1 THEN e - 1 - i + 1 ELSE 0
        /\ \A j \in 1 .. Len(text) : text[j] = s[i + j - 1]
    <2>1. e - 1 \in Int /\ e - 1 <= Len(s)
      BY <1>1, <1>e
    <2> QED
      BY <1>1, <1>2, <1>3, <2>1, PieceIs
  <1> HIDE DEF text, e
  <1>6. ASSUME NEW j \in 1 .. Len(text) PROVE Blank(text, j)
    <2>1. i + j - 1 = Len(s)
      BY <1>1, <1>5, <1>e
    <2>2. text[j] = "space"
      BY <1>5, <2>1
    <2> QED
      BY <2>2 DEF Blank, Space
  <1> QED
    BY <1>4, <1>5, <1>6, <1>v, BlankText

\* ... and its value is that of the header there, word by word.
LEMMA FirstValue ==
    ASSUME NEW s \in Text, NEW start \in 1 .. Len(s), IsProper(LineFrom(s, start)), BeginsLine(s, start),
           \A i \in 1 .. start - 1 : BeginsLine(s, i) =>
               /\ IsProper(LineFrom(s, i))
               /\ ExtractHeader(s, i).header.name # ExtractHeader(s, start).header.name
    PROVE  LET h == ExtractHeader(s, start).header
           IN  Words(ValueOfHeader(s, h.name)) = Words(h.value)
  <1> DEFINE h == ExtractHeader(s, start).header
             name == h.name
             c == start + Len(name)
             d == Behind(s, c)
             after == start + Len(name) + 1
             index == IndexOfHeader(s, name)
  <1>0. Len(s) \in Nat /\ start \in Nat \ {0} /\ DOMAIN s = 1 .. Len(s)
    BY TextIs
  <1>1. /\ name \in Text /\ Len(name) \in Nat
        /\ c <= Len(s) /\ s[c] = "colon" /\ c \in start .. Len(s)
        /\ \A j \in start .. c - 1 : s[j] # "colon"
    <2>1. /\ name \in Text /\ Named(s, name, start)
          /\ \A j \in start .. c - 1 : s[j] # "colon"
      BY NameOfLine
    <2>2. Len(name) \in Nat /\ c <= Len(s) /\ s[c] = "colon"
      BY <2>1, TextIs DEF Named
    <2> QED
      BY <1>0, <2>1, <2>2
  <1>2. index = IF after <= Len(s) /\ s[after] = "space" THEN after + 1 ELSE after
    BY FirstIsFound
  <1>3. h.value = ValueAfter(s, d)
    <2> HIDE DEF c
    <2>1. \A j \in start .. c - 1 : s[j] # "colon"
      BY <1>1
    <2> QED
      BY <1>1, <2>1, HeaderAtColon
  <1>4. index # 0 => ValueOfHeader(s, name) = ValueAfter(s, index)
    BY DEF ValueOfHeader, ValueAfter
  <1> HIDE DEF h, index
  <1>5. after = c + 1 /\ after \in Nat \ {0}
    BY <1>0, <1>1
  <1> HIDE DEF c, after
  <1>6. index \in Nat \ {0}
    BY <1>2, <1>5
  <1>c. c \in Nat /\ c <= Len(s)
    <2>1. c \in start .. Len(s)
      BY <1>1
    <2> QED
      BY <1>0, <2>1
  <1>d. d = IF c + 1 < Len(s) /\ s[c + 1] = "space" THEN c + 2 ELSE c + 1
    BY DEF Behind
  <1> HIDE DEF d, name
  <1>7. ASSUME ~(c + 1 = Len(s) /\ s[c + 1] = "space")
        PROVE  Words(ValueOfHeader(s, name)) = Words(h.value)
    <2> DEFINE N == Len(s)
    <2>0. N \in Nat /\ (s[c + 1] = "space" => c + 1 # N)
      BY <1>0, <1>7
    <2>1. c + 1 <= Len(s) /\ s[c + 1] = "space" <=> c + 1 < Len(s) /\ s[c + 1] = "space"
      <3>1. CASE s[c + 1] = "space"
        <4>1. c + 1 # N
          BY <2>0, <3>1
        <4> HIDE DEF N
        <4>2. c + 1 <= N <=> c + 1 < N
          BY <1>c, <2>0, <4>1
        <4> QED
          BY <3>1, <4>2 DEF N
      <3>2. CASE s[c + 1] # "space"
        BY <3>2
      <3> QED
        BY <3>1, <3>2
    <2>2. (c + 1) + 1 = c + 2
      BY <1>c
    <2>3. index = d
      BY <1>2, <1>5, <1>d, <2>1, <2>2
    <2> QED
      BY <1>3, <1>4, <1>6, <2>3
  <1>8. ASSUME c + 1 = Len(s), s[c + 1] = "space"
        PROVE  Words(ValueOfHeader(s, name)) = Words(h.value)
    <2>1. index = Len(s) + 1 /\ d = Len(s)
      <3> DEFINE N == Len(s)
      <3>1. N \in Nat /\ c \in Nat /\ c + 1 = N /\ s[c + 1] = "space"
        BY <1>0, <1>c, <1>8
      <3>2. index = IF c + 1 <= N /\ s[c + 1] = "space" THEN (c + 1) + 1 ELSE c + 1
        BY <1>2, <1>5
      <3>3. d = IF c + 1 < N /\ s[c + 1] = "space" THEN c + 2 ELSE c + 1
        BY <1>d
      <3> HIDE DEF N
      <3>4. c + 1 <= N /\ ~(c + 1 < N)
        BY <3>1
      <3>5. index = (c + 1) + 1 /\ d = c + 1
        BY <3>1, <3>2, <3>3, <3>4
      <3> QED
        BY <3>1, <3>5 DEF N
    <2>2. Len(s) >= 2 /\ s[Len(s)] = "space"
      <3>1. c >= 1
        BY <1>0, <1>1
      <3> QED
        BY <1>0, <1>c, <1>8, <3>1
    <2>3. Words(ValueAfter(s, index)) = <<>> /\ Words(ValueAfter(s, d)) = <<>>
      <3>1. Len(s) \in Nat /\ Len(s) + 1 \in Nat /\ Len(s) + 1 \in Len(s) .. Len(s) + 1
            /\ Len(s) \in Len(s) .. Len(s) + 1
        BY <1>0
      <3> QED
        BY <2>1, <2>2, <3>1, SpaceAtEnd
    <2> QED
      BY <1>3, <1>4, <1>6, <2>3
  <1>9. Words(ValueOfHeader(s, name)) = Words(h.value)
    BY <1>7, <1>8
  <1> QED
    BY <1>9 DEF h, name

\* The property, of one head.
LEMMA LinesAreHeaders ==
    ASSUME NEW s \in Text,
           LET lines == LogicalLines(s) IN \A k \in DOMAIN lines : IsProper(lines[k])
    PROVE  LET lines == LogicalLines(s)
               found == ParseHeaders(s)
               First(k) == \A j \in 1 .. k - 1 : found[j].name # found[k].name
               ByName(k) == [found[k] EXCEPT !.value = ValueOfHeader(s, found[k].name)]
           IN  /\ Len(found) = Len(lines)
               /\ \A k \in DOMAIN lines : Readable(lines[k]) =>
                     /\ IsHeaderOf(found[k], lines[k])
                     /\ First(k) => IsHeaderOf(ByName(k), lines[k])
  <1> DEFINE lines == LogicalLines(s)
             found == ParseHeaders(s)
             First(k) == \A j \in 1 .. k - 1 : found[j].name # found[k].name
             ByName(k) == [found[k] EXCEPT !.value = ValueOfHeader(s, found[k].name)]
  <1>1. PICK l : LinesIn(s, l) /\ lines = l[1]
    BY LinesAre
  <1>2. PICK p : Parses(s, p) /\ found = p[1]
    BY ParseHeadersIs
  <1>3. \A k \in DOMAIN lines : IsProper(lines[k])
    OBVIOUS
  <1> HIDE DEF lines, found
  <1>4. lines \in Seq(Text) /\ DOMAIN lines = 1 .. Len(lines)
    BY <1>1 DEF LinesIn
  <1>5. AllProper(lines)
    BY <1>3, <1>4 DEF AllProper
  <1>6. PICK f : Lists(s, 1, lines, found, f)
    BY <1>1, <1>2, <1>5, LinesListed
  <1>7. /\ f \in Seq(Nat) /\ Len(lines) = Len(f) /\ Len(found) = Len(f)
        /\ \A k \in 1 .. Len(f) : /\ BeginsLine(s, f[k])
                                  /\ lines[k] = LineFrom(s, f[k])
                                  /\ found[k] = ExtractHeader(s, f[k]).header
    BY <1>6 DEF Lists
  <1>8. \A i \in Nat : BeginsLine(s, i) /\ i >= 1 => \E k \in 1 .. Len(f) : f[k] = i
    BY <1>6 DEF Lists
  <1>9. \A k \in 1 .. Len(f) : \A j \in 1 .. k - 1 : f[j] < f[k]
    BY <1>6 DEF Lists
  <1> SUFFICES ASSUME NEW k \in 1 .. Len(f), Readable(lines[k])
               PROVE  IsHeaderOf(found[k], lines[k]) /\ (First(k) => IsHeaderOf(ByName(k), lines[k]))
    BY <1>4, <1>7 DEF lines, found
  <1> DEFINE start == f[k]
             t == LineFrom(s, start)
             x == ExtractHeader(s, start).header
  <1>10. start \in 1 .. Len(s) /\ BeginsLine(s, start) /\ lines[k] = t /\ found[k] = x
    BY <1>7 DEF BeginsLine
  <1>11. IsProper(t) /\ Readable(t)
    BY <1>3, <1>4, <1>7, <1>10
  <1>s. Len(f) \in Nat /\ Len(s) \in Nat
    BY <1>7, LenProperties, TextIs
  <1> HIDE DEF start
  <1>12. IsHeaderOf(x, t)
    BY <1>10, <1>11, HeaderIsLine
  <1>13. ASSUME First(k) PROVE IsHeaderOf(ByName(k), t)
    <2> DEFINE v == ValueOfHeader(s, x.name)
    <2>1. ASSUME NEW i \in 1 .. start - 1, BeginsLine(s, i)
          PROVE  IsProper(LineFrom(s, i)) /\ ExtractHeader(s, i).header.name # x.name
      <3>1. i \in Nat /\ i >= 1 /\ i < start
        BY <1>10
      <3>2. PICK j \in 1 .. Len(f) : f[j] = i
        BY <1>8, <2>1, <3>1
      <3>3. j < k
        <4> SUFFICES ASSUME ~(j < k) PROVE FALSE
          OBVIOUS
        <4>1. j # k
          <5>1. f[j] # f[k]
            BY <3>1, <3>2, <1>10, <1>s DEF start
          <5> QED
            BY <5>1
        <4>2. k \in 1 .. j - 1
          BY <1>s, <4>1
        <4>3. f[k] < f[j]
          BY <1>9, <4>2
        <4>4. start < i
          BY <3>2, <4>3 DEF start
        <4> QED
          BY <1>10, <1>s, <3>1, <4>4
      <3>4. j \in 1 .. k - 1
        BY <1>s, <3>3
      <3>5. lines[j] = LineFrom(s, i) /\ found[j] = ExtractHeader(s, i).header
        BY <1>7, <3>2
      <3>6. IsProper(lines[j])
        BY <1>3, <1>4, <1>7
      <3>7. found[j].name # found[k].name
        BY <1>13, <3>4
      <3> QED
        BY <1>10, <3>5, <3>6, <3>7
    <2>2. Words(v) = Words(x.value)
      BY <1>10, <1>11, <2>1, FirstValue
    <2>3. x \in Header
      <3>1. IsHeaderAt(s, start) /\ start \in Nat \ {0}
        BY <1>10, <1>11, HeaderIsLine
      <3> QED
        BY <3>1, ExtractedIsHeader
    <2>4. ByName(k) = [x EXCEPT !.value = v]
      BY <1>10
    <2> HIDE DEF x, v, t
    <2>5. [x EXCEPT !.value = v].name = x.name /\ [x EXCEPT !.value = v].value = v
      BY <2>3 DEF Header
    <2> QED
      BY <1>12, <2>2, <2>4, <2>5 DEF IsHeaderOf
  <1> QED
    BY <1>10, <1>12, <1>13

\* A head is taken apart at its lines: every proper line is a header with the
\* line's name and words, found by parse() in its place and by a search for its
\* name when it is the first of that name; for heads of every length.
THEOREM HeadersAlwaysTheLines == Spec => []HeadersAreTheLines
  <1>1. Init => AsGiven
    BY InitIsAsGiven
  <1>2. AsGiven /\ [Next]_vars => AsGiven'
    BY StepKeepsGiven
  <1>3. AsGiven => HeadersAreTheLines
    BY LinesAreHeaders DEF AsGiven, HeadersAreTheLines
  <1> QED
    BY <1>1, <1>2, <1>3, PTL DEF Spec

=============================================================================
