---------------------------- MODULE SequenceLemmas ----------------------------
(***************************************************************************)
(* Lemmas about sequences that the proofs of several components rest on.   *)
(***************************************************************************)
EXTENDS Integers, Sequences, SequencesExt, SequenceTheorems, WellFoundedInduction, TLAPS

(***************************************************************************)
(* A stack: pushing, popping and looking at the top of it.                 *)
(***************************************************************************)
(* What Front and Last return. *)
LEMMA FrontLast ==
  ASSUME NEW S, NEW s \in Seq(S), s # <<>>
  PROVE  /\ Front(s) \in Seq(S)
         /\ Len(Front(s)) = Len(s) - 1
         /\ \A i \in 1..(Len(s) - 1) : Front(s)[i] = s[i]
         /\ Last(s) \in S
         /\ Last(s) = s[Len(s)]
         /\ Len(s) \in Nat \ {0}
<1> DEFINE n == Len(s)
           f == Front(s)
<1>1. n \in Nat \ {0} /\ \A i \in 1..n : s[i] \in S
  BY EmptySeq, ElementOfSeq
<1>2. f = SubSeq(s, 1, n - 1)
  BY DEF Front
<1>3. Last(s) = s[n]
  BY DEF Last
<1> HIDE DEF n, f
<1>4. \A i \in 1..(n - 1) : s[i] \in S
  BY <1>1
<1>5. /\ f \in Seq(S)
      /\ Len(f) = IF 1 <= n - 1 THEN (n - 1) - 1 + 1 ELSE 0
      /\ \A i \in 1..((n - 1) - 1 + 1) : f[i] = s[1 + i - 1]
  BY <1>1, <1>2, <1>4, SubSeqProperties
<1>6. Len(f) = n - 1 /\ \A i \in 1..(n - 1) : f[i] = s[i]
  BY <1>1, <1>5
<1> QED
  BY <1>1, <1>3, <1>5, <1>6 DEF n, f

(* What Append returns. *)
LEMMA AppendFacts ==
  ASSUME NEW S, NEW s \in Seq(S), NEW e \in S
  PROVE  /\ Append(s, e) \in Seq(S)
         /\ Len(Append(s, e)) = Len(s) + 1
         /\ \A i \in 1..Len(s) : Append(s, e)[i] = s[i]
         /\ Append(s, e)[Len(s) + 1] = e
         /\ Append(s, e) # <<>>
         /\ Len(s) \in Nat
  BY AppendProperties, LenProperties

(* The elements of a sequence.                                              *)
LEMMA SeqElements ==
  ASSUME NEW S, NEW s \in Seq(S)
  PROVE  \A i \in 1..Len(s) : s[i] \in S
  OBVIOUS

(* One sequence after another.                                              *)
LEMMA ConcatFacts ==
  ASSUME NEW S, NEW s \in Seq(S), NEW t \in Seq(S)
  PROVE  /\ s \o t \in Seq(S)
         /\ Len(s \o t) = Len(s) + Len(t)
         /\ \A i \in 1..Len(s) : (s \o t)[i] = s[i]
         /\ \A i \in 1..Len(t) : (s \o t)[Len(s) + i] = t[i]
  OBVIOUS

(* One element, then those of a sequence.                                   *)
LEMMA FirstAndRest ==
  ASSUME NEW S, NEW e \in S, NEW s \in Seq(S)
  PROVE  /\ <<e>> \o s \in Seq(S)
         /\ Len(<<e>> \o s) = Len(s) + 1
         /\ (<<e>> \o s)[1] = e
         /\ \A i \in 1..Len(s) : (<<e>> \o s)[1 + i] = s[i]
  OBVIOUS

(* Popping what was pushed. *)
LEMMA FrontOfAppend ==
  ASSUME NEW S, NEW s \in Seq(S), NEW e \in S
  PROVE  Front(Append(s, e)) = s /\ Last(Append(s, e)) = e
<1> DEFINE n == Len(s)
           t == Append(s, e)
<1>1. /\ t \in Seq(S) /\ Len(t) = n + 1 /\ t # <<>> /\ n \in Nat
      /\ \A i \in 1..n : t[i] = s[i]
      /\ t[n + 1] = e
  BY AppendFacts
<1> HIDE DEF t, n
<1>2. /\ Front(t) \in Seq(S) /\ Len(Front(t)) = Len(t) - 1
      /\ \A i \in 1..(Len(t) - 1) : Front(t)[i] = t[i]
      /\ Last(t) = t[Len(t)]
  BY <1>1, FrontLast
<1>3. Len(Front(t)) = n /\ \A i \in 1..n : Front(t)[i] = s[i]
  BY <1>1, <1>2
<1>4. Len(s) = n
  BY DEF n
<1>5. Front(t) = s
  BY <1>2, <1>3, <1>4, SeqEqual
<1> QED
  BY <1>1, <1>2, <1>5 DEF t

(* Pushing what was popped. *)
LEMMA AppendOfFront ==
  ASSUME NEW S, NEW s \in Seq(S), s # <<>>
  PROVE  s = Append(Front(s), Last(s))
<1> DEFINE f == Front(s)
           e == Last(s)
           n == Len(s)
           t == Append(f, e)
<1>1. /\ f \in Seq(S) /\ Len(f) = n - 1 /\ n \in Nat \ {0}
      /\ \A i \in 1..(n - 1) : f[i] = s[i]
      /\ e \in S /\ e = s[n]
  BY FrontLast
<1> HIDE DEF f, e
<1>2. /\ t \in Seq(S) /\ Len(t) = Len(f) + 1
      /\ \A i \in 1..Len(f) : t[i] = f[i]
      /\ t[Len(f) + 1] = e
  BY <1>1, AppendFacts
<1> HIDE DEF t
<1>3. Len(t) = n /\ \A i \in 1..n : t[i] = s[i]
  BY <1>1, <1>2
<1>4. s = t
  BY <1>2, <1>3, SeqEqual
<1> QED
  BY <1>4 DEF t, f, e

(* The empty sequence is the one of length zero. *)
LEMMA EmptyIffZero ==
  ASSUME NEW S, NEW s \in Seq(S)
  PROVE  Len(s) \in Nat /\ ((s = <<>>) <=> (Len(s) = 0))
  BY EmptySeq, LenProperties

(* A pair, in two parts. *)
LEMMA PairIsConcat ==
  ASSUME NEW S, NEW a \in S, NEW b \in S
  PROVE  <<a, b>> = <<a>> \o <<b>>
<1> DEFINE x == <<a>>
           y == <<b>>
           z == <<a, b>>
<1>1. x \in Seq(S) /\ Len(x) = 1 /\ x[1] = a
  OBVIOUS
<1>2. y \in Seq(S) /\ Len(y) = 1 /\ y[1] = b
  OBVIOUS
<1>3. z \in Seq(S) /\ Len(z) = 2 /\ z[1] = a /\ z[2] = b
  OBVIOUS
<1> HIDE DEF x, y, z
<1> DEFINE xy == x \o y
<1>4. /\ xy \in Seq(S) /\ Len(xy) = Len(x) + Len(y)
      /\ \A i \in 1..(Len(x) + Len(y)) : xy[i] = IF i <= Len(x) THEN x[i] ELSE y[i - Len(x)]
  BY <1>1, <1>2, ConcatProperties
<1> HIDE DEF xy
<1>5. xy \in Seq(S) /\ Len(xy) = 2 /\ xy[1] = a /\ xy[2] = b
  BY <1>1, <1>2, <1>4
<1>6. z = xy
  BY <1>3, <1>5, SeqEqual
<1> QED
  BY <1>6 DEF x, y, z, xy

(* One element, and none, after a sequence. *)
LEMMA ConcatOfOne ==
  ASSUME NEW S, NEW s \in Seq(S), NEW e \in S
  PROVE  s \o <<e>> = Append(s, e)
<1> DEFINE u == <<e>>
           c == s \o u
           a == Append(s, e)
           n == Len(s)
<1>1. u \in Seq(S) /\ Len(u) = 1 /\ u[1] = e
  OBVIOUS
<1>2. /\ a \in Seq(S) /\ Len(a) = n + 1 /\ n \in Nat
      /\ \A i \in 1..n : a[i] = s[i]
      /\ a[n + 1] = e
  BY AppendFacts
<1> HIDE DEF u, a
<1>3. /\ c \in Seq(S) /\ Len(c) = n + Len(u)
      /\ \A i \in 1..n : c[i] = s[i]
      /\ \A i \in 1..Len(u) : c[n + i] = u[i]
  BY <1>1, ConcatFacts
<1> HIDE DEF c, n
<1>4. c[n + 1] = e
  BY <1>1, <1>3
<1>5. Len(a) = Len(c) /\ \A i \in 1..Len(c) : c[i] = a[i]
  BY <1>1, <1>2, <1>3, <1>4
<1>6. c = a
  BY <1>2, <1>3, <1>5, SeqEqual
<1> QED
  BY <1>6 DEF c, a, u

LEMMA ConcatOfNone ==
  ASSUME NEW S, NEW s \in Seq(S)
  PROVE  s \o <<>> = s
<1> DEFINE e == <<>>
           c == s \o e
           n == Len(s)
<1>1. e \in Seq(S) /\ Len(e) = 0 /\ n \in Nat
  BY EmptySeq, LenProperties
<1> HIDE DEF e
<1>2. /\ c \in Seq(S) /\ Len(c) = n + Len(e)
      /\ \A i \in 1..n : c[i] = s[i]
  BY <1>1, ConcatFacts
<1> HIDE DEF c
<1>3. Len(c) = n /\ \A i \in 1..Len(c) : c[i] = s[i]
  BY <1>1, <1>2
<1>4. c = s
  BY <1>2, <1>3, SeqEqual DEF n
<1> QED
  BY <1>4 DEF c, e

(* It does not matter which of two concatenations comes first.              *)
LEMMA ConcatAssociates ==
  ASSUME NEW S, NEW s \in Seq(S), NEW t \in Seq(S), NEW u \in Seq(S)
  PROVE  (s \o t) \o u = s \o (t \o u)
<1> DEFINE a == s \o t
           b == t \o u
           x == a \o u
           y == s \o b
           k == Len(s)
           m == Len(t)
           n == Len(u)
<1>1. k \in Nat /\ m \in Nat /\ n \in Nat
  BY LenProperties
<1>2. /\ a \in Seq(S) /\ Len(a) = k + m
      /\ \A i \in 1..(k + m) : a[i] = IF i <= k THEN s[i] ELSE t[i - k]
  BY ConcatProperties
<1>3. /\ b \in Seq(S) /\ Len(b) = m + n
      /\ \A i \in 1..(m + n) : b[i] = IF i <= m THEN t[i] ELSE u[i - m]
  BY ConcatProperties
<1> HIDE DEF a, b
<1>4. a \in Seq(S) /\ b \in Seq(S)
  BY <1>2, <1>3
<1>5. /\ x \in Seq(S) /\ Len(x) = Len(a) + n
      /\ \A i \in 1..(Len(a) + n) : x[i] = IF i <= Len(a) THEN a[i] ELSE u[i - Len(a)]
  BY <1>4, ConcatProperties
<1>6. /\ y \in Seq(S) /\ Len(y) = k + Len(b)
      /\ \A i \in 1..(k + Len(b)) : y[i] = IF i <= k THEN s[i] ELSE b[i - k]
  BY <1>4, ConcatProperties
<1> HIDE DEF x, y, k, m, n
<1>7. Len(x) = (k + m) + n /\ Len(y) = k + (m + n) /\ Len(x) = Len(y)
  BY <1>1, <1>2, <1>3, <1>5, <1>6
<1>8. ASSUME NEW i \in 1..Len(x)
      PROVE  x[i] = y[i]
  <2>1. i \in 1..((k + m) + n)
    BY <1>7
  <2>2. CASE i <= k
    <3>1. i \in 1..(k + m) /\ i <= k + m
      BY <1>1, <2>1, <2>2
    <3>2. x[i] = a[i] /\ a[i] = s[i] /\ y[i] = s[i]
      BY <1>2, <1>3, <1>5, <1>6, <1>7, <2>1, <2>2, <3>1
    <3> QED
      BY <3>2
  <2>3. CASE i > k /\ i <= k + m
    <3>1. i \in 1..(k + m) /\ ~(i <= k) /\ i - k \in 1..(m + n) /\ i - k <= m
      BY <1>1, <2>1, <2>3
    <3>2. x[i] = a[i] /\ a[i] = t[i - k]
      BY <1>2, <1>5, <2>1, <2>3, <3>1
    <3>3. y[i] = b[i - k] /\ b[i - k] = t[i - k]
      BY <1>3, <1>6, <1>7, <2>1, <3>1
    <3> QED
      BY <3>2, <3>3
  <2>4. CASE i > k + m
    <3>1. ~(i <= k + m) /\ ~(i <= k) /\ i - k \in 1..(m + n) /\ ~(i - k <= m)
      BY <1>1, <2>1, <2>4
    <3>2. x[i] = u[i - (k + m)]
      BY <1>2, <1>5, <2>1, <3>1
    <3>3. y[i] = b[i - k] /\ b[i - k] = u[(i - k) - m]
      BY <1>3, <1>6, <1>7, <2>1, <3>1
    <3>4. i - (k + m) = (i - k) - m
      BY <1>1, <2>1
    <3> QED
      BY <3>2, <3>3, <3>4
  <2> QED
    BY <1>1, <2>1, <2>2, <2>3, <2>4
<1>9. x = y
  BY <1>5, <1>6, <1>7, <1>8, SeqEqual
<1> QED
  BY <1>9 DEF x, y, a, b

(* Three elements, one by one. *)
LEMMA TripleIsConcat ==
  ASSUME NEW S, NEW a \in S, NEW b \in S, NEW c \in S
  PROVE  <<a, b, c>> = (<<a>> \o <<b>>) \o <<c>>
<1> DEFINE p == <<a, b>>
           t == <<a, b, c>>
           u == Append(p, c)
<1>1. p \in Seq(S) /\ Len(p) = 2 /\ p[1] = a /\ p[2] = b
  OBVIOUS
<1>2. t \in Seq(S) /\ Len(t) = 3 /\ t[1] = a /\ t[2] = b /\ t[3] = c
  OBVIOUS
<1>3. p = <<a>> \o <<b>>
  BY PairIsConcat
<1> HIDE DEF p, t
<1>4. /\ u \in Seq(S) /\ Len(u) = Len(p) + 1
      /\ \A i \in 1..Len(p) : u[i] = p[i]
      /\ u[Len(p) + 1] = c
  <2>1. p \in Seq(S)
    BY <1>1
  <2> QED
    BY <2>1, AppendFacts
<1>5. p \o <<c>> = u
  <2>1. p \in Seq(S)
    BY <1>1
  <2> QED
    BY <2>1, ConcatOfOne
<1> HIDE DEF u
<1>6. Len(u) = 3 /\ u[1] = a /\ u[2] = b /\ u[3] = c
  BY <1>1, <1>4
<1>7. \A i \in 1..Len(t) : t[i] = u[i]
  <2>1. \A i \in 1..3 : i = 1 \/ i = 2 \/ i = 3
    OBVIOUS
  <2> QED
    BY <1>2, <1>6, <2>1
<1>8. t = u
  BY <1>2, <1>4, <1>6, <1>7, SeqEqual
<1> QED
  BY <1>3, <1>5, <1>8 DEF t

(***************************************************************************)
(* Induction over the natural numbers, as a fact about sets of them.       *)
(***************************************************************************)
(* A set of numbers that is not empty has a least one.                      *)
LEMMA LeastNumber ==
  ASSUME NEW U, U \subseteq Nat, U # {}
  PROVE  \E x \in U : \A y \in U : x <= y
<1> DEFINE R == {ss \in Nat \X Nat : ss[1] < ss[2]}
<1>1. IsWellFoundedOn(R, Nat)
  BY NatLessThanWellFounded DEF OpToRel
<1> HIDE DEF R
<1>2. PICK x \in U : \A y \in U : ~(<<y, x>> \in R)
  BY <1>1, WFMin
<1>3. ASSUME NEW y \in U
      PROVE  x <= y
  <2>1. x \in Nat /\ y \in Nat
    OBVIOUS
  <2>2. y < x => <<y, x>> \in R
    BY <2>1 DEF R
  <2> QED
    BY <1>2, <2>1, <2>2
<1> QED
  BY <1>3

(* The principle itself. *)
LEMMA SetInduction ==
  ASSUME NEW T, 0 \in T, \A n \in Nat : n \in T => n + 1 \in T
  PROVE  Nat \subseteq T
<1> DEFINE U == Nat \ T
<1>1. SUFFICES ASSUME U # {}
               PROVE  FALSE
  OBVIOUS
<1>2. U \subseteq Nat
  OBVIOUS
<1>3. PICK x \in U : \A y \in U : x <= y
  <2> HIDE DEF U
  <2> QED
    BY <1>1, <1>2, LeastNumber
<1>4. x \in Nat /\ x # 0
  OBVIOUS
<1>5. x - 1 \in Nat /\ x = (x - 1) + 1
  BY <1>4
<1>6. x - 1 \in U
  BY <1>5
<1> QED
  BY <1>3, <1>4, <1>6

(* The same up to a bound. *)
LEMMA BoundedInduction ==
  ASSUME NEW n \in Nat, NEW T, 0 \in T,
         \A i \in 1..n : i - 1 \in T => i \in T
  PROVE  0..n \subseteq T
<1> DEFINE U == {i \in Nat : i <= n => i \in T}
<1>1. 0 \in U
  OBVIOUS
<1>2. \A i \in Nat : i \in U => i + 1 \in U
  <2> SUFFICES ASSUME NEW i \in Nat, i \in U, i + 1 <= n
               PROVE  i + 1 \in T
    OBVIOUS
  <2>1. i \in T
    OBVIOUS
  <2>2. i + 1 \in 1..n /\ (i + 1) - 1 = i
    OBVIOUS
  <2> QED
    BY <2>1, <2>2
<1>3. Nat \subseteq U
  <2> HIDE DEF U
  <2> QED
    BY <1>1, <1>2, SetInduction
<1> QED
  BY <1>3

(* g follows the sequence s step by step: h says what each element makes of *)
(* what the ones before it have led to.                                     *)
Scans(g, s, base, h) ==
  g[0] = base /\ \A i \in 1..Len(s) : g[i] = h[<<g[i - 1], s[i]>>]

(* Every sequence can be followed. *)
LEMMA ScanExists ==
  ASSUME NEW V, NEW E, NEW base, base \in V, NEW h, h \in [V \X E -> V],
         NEW s, s \in Seq(E)
  PROVE  \E g \in [0..Len(s) -> V] : Scans(g, s, base, h)
<1> DEFINE n == Len(s)
           IsScan(m, g) == g[0] = base /\ \A i \in 1..m : g[i] = h[<<g[i - 1], s[i]>>]
           T == {m \in 0..n : \E g \in [0..m -> V] : IsScan(m, g)}
<1>1. n \in Nat /\ \A i \in 1..n : s[i] \in E
  BY LenProperties, ElementOfSeq
<1> HIDE DEF n
<1>2. 0 \in T
  <2> DEFINE g == [i \in 0..0 |-> base]
  <2>1. g \in [0..0 -> V] /\ IsScan(0, g)
    OBVIOUS
  <2> HIDE DEF g, IsScan
  <2> QED
    BY <1>1, <2>1
<1>3. \A m \in 1..n : m - 1 \in T => m \in T
  <2> SUFFICES ASSUME NEW m \in 1..n, m - 1 \in T
               PROVE  m \in T
    OBVIOUS
  <2>1. PICK g \in [0..(m - 1) -> V] : IsScan(m - 1, g)
    OBVIOUS
  <2> DEFINE f == [i \in 0..m |-> IF i < m THEN g[i] ELSE h[<<g[m - 1], s[m]>>]]
  <2>2. g[m - 1] \in V /\ s[m] \in E
    BY <1>1, <2>1
  <2>3. h[<<g[m - 1], s[m]>>] \in V
    BY <2>2
  <2>4. f \in [0..m -> V]
    BY <1>1, <2>1, <2>3
  <2>5. f[0] = base
    BY <1>1, <2>1
  <2>6. ASSUME NEW i \in 1..m
        PROVE  f[i] = h[<<f[i - 1], s[i]>>]
    <3>1. CASE i = m
      <4>1. f[m] = h[<<g[m - 1], s[m]>>] /\ f[m - 1] = g[m - 1]
        BY <1>1, <3>1
      <4> QED
        BY <3>1, <4>1
    <3>2. CASE i # m
      <4>1. i \in 1..(m - 1)
        BY <1>1, <3>2
      <4>2. f[i] = g[i] /\ f[i - 1] = g[i - 1]
        BY <1>1, <4>1
      <4>3. g[i] = h[<<g[i - 1], s[i]>>]
        BY <2>1, <4>1
      <4> QED
        BY <4>2, <4>3
    <3> QED
      BY <3>1, <3>2
  <2> HIDE DEF f
  <2>7. IsScan(m, f)
    BY <2>5, <2>6
  <2> QED
    BY <1>1, <2>4, <2>7
<1>4. n \in T
  <2> HIDE DEF T
  <2>1. 0..n \subseteq T
    BY <1>1, <1>2, <1>3, BoundedInduction
  <2> QED
    BY <1>1, <2>1
<1> QED
  BY <1>4 DEF n, Scans

(* f follows the sequence as long as it stays among the values.             *)
StaysAmong(f, s, base, h, V) ==
  f[0] = base /\ \A i \in 1..Len(s) : f[i - 1] \in V => f[i] = h[<<f[i - 1], s[i]>>]

(* It does stay there, and follows the sequence to its end.                 *)
LEMMA ScanOfValues ==
  ASSUME NEW V, NEW E, NEW base, base \in V, NEW h, h \in [V \X E -> V],
         NEW s, s \in Seq(E), NEW f, StaysAmong(f, s, base, h, V)
  PROVE  Scans(f, s, base, h) /\ f[Len(s)] \in V
<1> DEFINE n == Len(s)
           T == {i \in 0..n : f[i] \in V}
<1>1. n \in Nat /\ \A i \in 1..n : s[i] \in E
  BY LenProperties, ElementOfSeq
<1> HIDE DEF n
<1>2. f[0] = base /\ \A i \in 1..n : f[i - 1] \in V => f[i] = h[<<f[i - 1], s[i]>>]
  BY DEF n, StaysAmong
<1>3. 0 \in T
  BY <1>1, <1>2
<1>4. ASSUME NEW i \in 1..n, i - 1 \in T
      PROVE  i \in T
  <2>1. i \in 0..n /\ f[i - 1] \in V /\ s[i] \in E
    BY <1>1, <1>4
  <2>2. f[i] = h[<<f[i - 1], s[i]>>]
    BY <1>2, <2>1
  <2>3. f[i] \in V
    BY <2>1, <2>2
  <2> QED
    BY <2>1, <2>3
<1> HIDE DEF T
<1>5. 0..n \subseteq T
  BY <1>1, <1>3, <1>4, BoundedInduction
<1>6. \A i \in 0..n : f[i] \in V
  BY <1>5 DEF T
<1>7. \A i \in 1..n : i - 1 \in 0..n
  BY <1>1
<1>8. \A i \in 1..n : f[i] = h[<<f[i - 1], s[i]>>]
  BY <1>2, <1>6, <1>7
<1> QED
  BY <1>1, <1>2, <1>6, <1>8 DEF n, Scans

(* What following the sequence s leads to. *)
Outcome(x, s, base, h) == \E g : Scans(g, s, base, h) /\ x = g[Len(s)]

(* The empty sequence leads nowhere. *)
LEMMA OutcomeOfEmpty ==
  ASSUME NEW x, NEW base, NEW h, NEW s, s = <<>>, Outcome(x, s, base, h)
  PROVE  x = base
  BY DEF Outcome, Scans

(* One element more. *)
LEMMA OutcomeOfAppend ==
  ASSUME NEW E, NEW s \in Seq(E), NEW e \in E, NEW base, NEW h,
         NEW x, Outcome(x, s, base, h), NEW y, Outcome(y, Append(s, e), base, h)
  PROVE  y = h[<<x, e>>]
<1> DEFINE n == Len(s)
           t == Append(s, e)
<1>1. /\ n \in Nat /\ Len(t) = n + 1 /\ t[n + 1] = e
      /\ \A i \in 1..n : t[i] = s[i]
  BY AppendFacts
<1>2. PICK g : Scans(g, s, base, h) /\ x = g[n]
  BY DEF Outcome
<1>3. PICK f : Scans(f, t, base, h) /\ y = f[Len(t)]
  BY DEF Outcome
<1>4. g[0] = base /\ \A i \in 1..n : g[i] = h[<<g[i - 1], s[i]>>]
  BY <1>2 DEF Scans
<1> HIDE DEF t, n
<1>5. f[0] = base /\ \A i \in 1..(n + 1) : f[i] = h[<<f[i - 1], t[i]>>]
  BY <1>1, <1>3 DEF Scans
<1> DEFINE T == {i \in 0..n : f[i] = g[i]}
<1>6. 0 \in T
  BY <1>1, <1>4, <1>5
<1>7. ASSUME NEW i \in 1..n, i - 1 \in T
      PROVE  i \in T
  <2>1. i \in 1..(n + 1) /\ i \in 0..n /\ t[i] = s[i]
    BY <1>1
  <2>2. f[i - 1] = g[i - 1]
    BY <1>7
  <2>3. f[i] = h[<<f[i - 1], t[i]>>] /\ g[i] = h[<<g[i - 1], s[i]>>]
    BY <1>4, <1>5, <2>1
  <2> QED
    BY <2>1, <2>2, <2>3
<1> HIDE DEF T
<1>8. 0..n \subseteq T
  BY <1>1, <1>6, <1>7, BoundedInduction
<1>9. f[n] = g[n]
  BY <1>1, <1>8 DEF T
<1>10. f[n + 1] = h[<<f[n], e>>]
  <2>1. n + 1 \in 1..(n + 1) /\ (n + 1) - 1 = n
    BY <1>1
  <2> QED
    BY <1>1, <1>5, <2>1
<1> QED
  BY <1>1, <1>2, <1>3, <1>9, <1>10

(***************************************************************************)
(* A call stack: the innermost call is replaced by others, the first of    *)
(* which is carried out first.                                             *)
(***************************************************************************)
Replace(s, fs) == Front(s) \o Reverse(fs)

(* A stack whose innermost element is replaced by others.                   *)
LEMMA Replaced ==
  ASSUME NEW S, NEW s \in Seq(S), s # <<>>, NEW fs \in Seq(S)
  PROVE  /\ Replace(s, fs) \in Seq(S)
         /\ Len(Replace(s, fs)) = Len(s) - 1 + Len(fs)
         /\ Len(s) \in Nat \ {0} /\ Len(fs) \in Nat
         /\ \A i \in 1..(Len(s) - 1) : Replace(s, fs)[i] = s[i]
         /\ \A i \in Len(s)..(Len(s) - 1 + Len(fs)) :
              Replace(s, fs)[i] = fs[Len(fs) + Len(s) - i]
<1> DEFINE f == Front(s)
           v == Reverse(fs)
           r == Replace(s, fs)
           k == Len(s)
           n == Len(fs)
<1>0. r = f \o v
  BY DEF Replace
<1> HIDE DEF r
<1>1. /\ f \in Seq(S) /\ Len(f) = k - 1 /\ k \in Nat \ {0}
      /\ \A i \in 1..(k - 1) : f[i] = s[i]
  BY FrontLast
<1>2. n \in Nat /\ \A i \in 1..n : fs[i] \in S
  BY LenProperties, ElementOfSeq
<1>3. v = [i \in 1..n |-> fs[(n - i) + 1]]
  BY DEF Reverse
<1> HIDE DEF k, n, f
<1>4. v \in Seq(S) /\ Len(v) = n
  <2>1. \A i \in 1..n : v[i] \in S
    BY <1>2, <1>3
  <2>2. v \in [1..n -> S] /\ DOMAIN v = 1..n
    BY <1>3, <2>1
  <2>3. v \in Seq(S)
    BY <1>2, <2>2, SeqDef
  <2> QED
    BY <1>2, <2>2, <2>3, LenProperties
<1> HIDE DEF v
<1>5. f \in Seq(S) /\ v \in Seq(S)
  BY <1>1, <1>4
<1>6. /\ r \in Seq(S) /\ Len(r) = (k - 1) + n
      /\ \A i \in 1..((k - 1) + n) : r[i] = IF i <= k - 1 THEN f[i] ELSE v[i - (k - 1)]
  <2>1. /\ r \in Seq(S)
        /\ Len(r) = Len(f) + Len(v)
        /\ \A i \in 1..(Len(f) + Len(v)) :
             r[i] = IF i <= Len(f) THEN f[i] ELSE v[i - Len(f)]
    BY <1>0, <1>5, ConcatProperties
  <2>2. Len(f) = k - 1 /\ Len(v) = n
    BY <1>1, <1>4
  <2> QED
    BY <2>1, <2>2
<1>7. ASSUME NEW i \in 1..(k - 1)
      PROVE  r[i] = s[i]
  <2>1. i \in 1..((k - 1) + n) /\ i <= k - 1
    BY <1>1, <1>2
  <2>2. r[i] = f[i]
    BY <1>6, <2>1
  <2>3. f[i] = s[i]
    BY <1>1
  <2> QED
    BY <2>2, <2>3
<1>8. ASSUME NEW i \in k..(k - 1 + n)
      PROVE  r[i] = fs[n + k - i]
  <2>1. r[i] = v[i - (k - 1)]
    BY <1>1, <1>2, <1>6
  <2>2. i - (k - 1) \in 1..n /\ (n - (i - (k - 1))) + 1 = n + k - i
    BY <1>1, <1>2
  <2> QED
    BY <1>3, <2>1, <2>2
<1> QED
  BY <1>1, <1>2, <1>6, <1>7, <1>8 DEF r, k, n

(* The innermost call returns. *)
LEMMA Returned ==
  ASSUME NEW S, NEW s \in Seq(S), s # <<>>
  PROVE  /\ Replace(s, <<>>) \in Seq(S)
         /\ Len(Replace(s, <<>>)) = Len(s) - 1
         /\ Len(s) \in Nat \ {0}
         /\ \A i \in 1..(Len(s) - 1) : Replace(s, <<>>)[i] = s[i]
<1> DEFINE e == <<>>
<1>1. e \in Seq(S) /\ Len(e) = 0
  BY EmptySeq
<1> HIDE DEF e
<1>2. /\ Replace(s, e) \in Seq(S)
      /\ Len(Replace(s, e)) = Len(s) - 1 + Len(e)
      /\ Len(s) \in Nat \ {0}
      /\ \A i \in 1..(Len(s) - 1) : Replace(s, e)[i] = s[i]
  BY <1>1, Replaced, ZenonT(60)
<1>3. Len(Replace(s, e)) = Len(s) - 1
  BY <1>1, <1>2
<1> QED
  BY <1>2, <1>3 DEF e

(***************************************************************************)
(* What a call stack has saved: the outermost call that restores something *)
(* holds what it was at the root, and without such a call it still is.     *)
(***************************************************************************)
Outermost(s, o, i) == s[i].op = o /\ \A j \in 1..(i - 1) : s[j].op # o
Without(s, o) == \A i \in 1..Len(s) : s[i].op # o

(* The innermost call, and the last of those that are to be carried out.    *)
InnermostIs(s, o) == Last(s).op = o
EndsWith(fs, o) == fs[Len(fs)].op = o

(* A call is replaced, and no call that restores is among the new ones.     *)
LEMMA Keeping ==
  ASSUME NEW S, NEW s \in Seq(S), s # <<>>, NEW fs \in Seq(S), NEW o,
         ~InnermostIs(s, o), Without(fs, o), NEW r, r = Replace(s, fs)
  PROVE  /\ Without(r, o) => Without(s, o)
         /\ \A i \in 1..Len(r) :
              Outermost(r, o, i) => i \in 1..Len(s) /\ Outermost(s, o, i) /\ r[i] = s[i]
<1>1. /\ Len(r) = Len(s) - 1 + Len(fs)
      /\ Len(s) \in Nat \ {0} /\ Len(fs) \in Nat
      /\ \A i \in 1..(Len(s) - 1) : r[i] = s[i]
      /\ \A i \in Len(s)..(Len(s) - 1 + Len(fs)) : r[i] = fs[Len(fs) + Len(s) - i]
  BY Replaced, ZenonT(60)
<1>2. Last(s) = s[Len(s)]
  BY FrontLast
<1>3. ASSUME Without(r, o)
      PROVE  Without(s, o)
  BY <1>1, <1>2, <1>3, SMTT(40) DEF Without, InnermostIs
<1>4. ASSUME NEW i \in 1..Len(r), Outermost(r, o, i)
      PROVE  i \in 1..Len(s) /\ Outermost(s, o, i) /\ r[i] = s[i]
  <2>1. i < Len(s)
    <3> SUFFICES ASSUME i >= Len(s)
                 PROVE  FALSE
      BY <1>1
    <3>1. i \in Len(s)..(Len(s) - 1 + Len(fs))
      BY <1>1
    <3>2. r[i] = fs[Len(fs) + Len(s) - i]
      BY <1>1, <3>1
    <3>3. Len(fs) + Len(s) - i \in 1..Len(fs)
      BY <1>1, <3>1
    <3> QED
      BY <1>4, <3>2, <3>3 DEF Outermost, Without
  <2>2. r[i] = s[i] /\ \A j \in 1..(i - 1) : r[j] = s[j]
    BY <1>1, <2>1
  <2> QED
    BY <1>1, <1>4, <2>1, <2>2 DEF Outermost
<1> QED
  BY <1>3, <1>4

(* A call is replaced, and the last of the new ones restores.               *)
LEMMA Saving ==
  ASSUME NEW S, NEW s \in Seq(S), s # <<>>, NEW fs \in Seq(S), NEW o,
         fs # <<>>, ~InnermostIs(s, o), EndsWith(fs, o),
         NEW r, r = Replace(s, fs)
  PROVE  /\ ~Without(r, o)
         /\ \A i \in 1..Len(r) :
              Outermost(r, o, i) =>
                \/ i \in 1..Len(s) /\ Outermost(s, o, i) /\ r[i] = s[i]
                \/ Without(s, o) /\ r[i] = fs[Len(fs)]
<1>1. /\ Len(r) = Len(s) - 1 + Len(fs)
      /\ Len(s) \in Nat \ {0} /\ Len(fs) \in Nat
      /\ \A i \in 1..(Len(s) - 1) : r[i] = s[i]
      /\ \A i \in Len(s)..(Len(s) - 1 + Len(fs)) : r[i] = fs[Len(fs) + Len(s) - i]
  BY Replaced, ZenonT(60)
<1>2. Last(s) = s[Len(s)] /\ Len(fs) # 0
  BY FrontLast, EmptyIffZero
<1>3. Len(s) \in 1..Len(r) /\ r[Len(s)] = fs[Len(fs)]
  <2>1. Len(s) \in Len(s)..(Len(s) - 1 + Len(fs)) /\ Len(fs) + Len(s) - Len(s) = Len(fs)
    BY <1>1, <1>2
  <2> QED
    BY <1>1, <1>2, <2>1
<1>4. ~Without(r, o)
  BY <1>3 DEF Without, EndsWith
<1>5. ASSUME NEW i \in 1..Len(r), Outermost(r, o, i)
      PROVE  \/ i \in 1..Len(s) /\ Outermost(s, o, i) /\ r[i] = s[i]
             \/ Without(s, o) /\ r[i] = fs[Len(fs)]
  <2>1. i <= Len(s)
    BY <1>1, <1>3, <1>5 DEF Outermost, EndsWith
  <2>2. CASE i < Len(s)
    <3>1. r[i] = s[i] /\ \A j \in 1..(i - 1) : r[j] = s[j]
      BY <1>1, <2>2
    <3> QED
      BY <1>1, <1>5, <2>2, <3>1 DEF Outermost
  <2>3. CASE i = Len(s)
    <3>1. \A j \in 1..(Len(s) - 1) : s[j].op # o
      BY <1>1, <1>5, <2>3 DEF Outermost
    <3> QED
      BY <1>1, <1>2, <1>3, <2>3, <3>1 DEF Without, InnermostIs
  <2> QED
    BY <1>1, <2>1, <2>2, <2>3
<1> QED
  BY <1>4, <1>5

(* A call that restores returns.                                            *)
LEMMA Leaving ==
  ASSUME NEW S, NEW s \in Seq(S), s # <<>>, NEW o, InnermostIs(s, o),
         NEW r, r = Replace(s, <<>>)
  PROVE  /\ Without(r, o) => Outermost(s, o, Len(s))
         /\ \A i \in 1..Len(r) :
              Outermost(r, o, i) => i \in 1..Len(s) /\ Outermost(s, o, i) /\ r[i] = s[i]
<1>2. /\ Len(r) = Len(s) - 1
      /\ Len(s) \in Nat \ {0}
      /\ \A i \in 1..(Len(s) - 1) : r[i] = s[i]
  BY Returned
<1>3. Last(s) = s[Len(s)]
  BY FrontLast
<1>4. ASSUME Without(r, o)
      PROVE  Outermost(s, o, Len(s))
  BY <1>2, <1>3, <1>4 DEF Without, Outermost, InnermostIs
<1>5. ASSUME NEW i \in 1..Len(r), Outermost(r, o, i)
      PROVE  i \in 1..Len(s) /\ Outermost(s, o, i) /\ r[i] = s[i]
  <2>1. i < Len(s)
    BY <1>2
  <2>2. r[i] = s[i] /\ \A j \in 1..(i - 1) : r[j] = s[j]
    BY <1>2, <2>1
  <2> QED
    BY <1>2, <1>5, <2>1, <2>2 DEF Outermost
<1> QED
  BY <1>4, <1>5

(***************************************************************************)
(* Stacks of anything: whatever is pushed, the sequence is over some set.  *)
(***************************************************************************)
IsStack(s) == \E S : s \in Seq(S)

(* An empty stack has length zero.                                          *)
LEMMA StackEmpty ==
  ASSUME NEW s, IsStack(s)
  PROVE  Len(s) \in Nat /\ ((s = <<>>) <=> (Len(s) = 0))
<1>1. PICK S : s \in Seq(S)
  BY DEF IsStack
<1> QED
  BY <1>1, EmptyIffZero

(* A stack without its last element.                                        *)
LEMMA StackPopped ==
  ASSUME NEW s, IsStack(s), s # <<>>
  PROVE  /\ IsStack(Front(s)) /\ Len(Front(s)) = Len(s) - 1
         /\ \A i \in 1..(Len(s) - 1) : Front(s)[i] = s[i]
         /\ Last(s) = s[Len(s)] /\ Len(s) \in Nat \ {0}
<1>1. PICK S : s \in Seq(S)
  BY DEF IsStack
<1>2. /\ Front(s) \in Seq(S) /\ Len(Front(s)) = Len(s) - 1
      /\ \A i \in 1..(Len(s) - 1) : Front(s)[i] = s[i]
      /\ Last(s) = s[Len(s)] /\ Len(s) \in Nat \ {0}
  BY <1>1, FrontLast
<1>3. IsStack(Front(s))
  BY <1>2 DEF IsStack
<1> QED
  BY <1>2, <1>3

(* A stack with one element more.                                           *)
LEMMA StackPushed ==
  ASSUME NEW s, IsStack(s), NEW e
  PROVE  /\ IsStack(Append(s, e)) /\ Len(Append(s, e)) = Len(s) + 1
         /\ \A i \in 1..Len(s) : Append(s, e)[i] = s[i]
         /\ Append(s, e)[Len(s) + 1] = e
         /\ Append(s, e) # <<>> /\ Len(s) \in Nat
<1>1. PICK S0 : s \in Seq(S0)
  BY DEF IsStack
<1> DEFINE S == S0 \cup {e}
<1>2. S0 \subseteq S /\ e \in S
  OBVIOUS
<1> HIDE DEF S
<1>3. s \in Seq(S)
  BY <1>1, <1>2, SeqMonotonic
<1>4. /\ Append(s, e) \in Seq(S) /\ Len(Append(s, e)) = Len(s) + 1
      /\ \A i \in 1..Len(s) : Append(s, e)[i] = s[i]
      /\ Append(s, e)[Len(s) + 1] = e
      /\ Append(s, e) # <<>> /\ Len(s) \in Nat
  BY <1>2, <1>3, AppendFacts
<1>5. IsStack(Append(s, e))
  BY <1>4 DEF IsStack
<1> QED
  BY <1>4, <1>5

=============================================================================
