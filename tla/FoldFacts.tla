------------------------------- MODULE FoldFacts ------------------------------
(*****************************************************************************)
(* Folds, for every operator, base and sequence: how the loops of a program  *)
(* that goes through a sequence are reasoned about. The recursion is that of *)
(* MapThenFoldSet; the induction is over sets of numbers, from the well-     *)
(* foundedness of their order.                                               *)
(*****************************************************************************)
EXTENDS WellFoundedInduction, SequencesExt, TLAPS

CONSTANT op(_, _)

(* The fold from the left of a sequence (SequencesExt). *)
Fold(base, seq) == FoldLeft(op, base, seq)

(* The order of the natural numbers. *)
Below == {p \in Nat \X Nat : p[1] < p[2]}

(* Induction, as a fact about sets: no operator is its parameter. *)
LEMMA SetInduction ==
    ASSUME NEW S \in SUBSET Nat, 0 \in S, \A n \in S : n + 1 \in S
    PROVE  S = Nat
<1> DEFINE T == Nat \ S
<1>1. SUFFICES ASSUME T # {} PROVE FALSE
  OBVIOUS
<1>2. IsWellFoundedOn(Below, Nat)
  BY NatLessThanWellFounded DEF OpToRel, Below
<1>3. T \subseteq Nat
  OBVIOUS
<1>4. \E x \in T : \A y \in T : ~(<<y, x>> \in Below)
  <2> HIDE DEF T
  <2> QED BY <1>1, <1>2, <1>3, WFMin, Zenon
<1>5. PICK x \in T : \A y \in T : ~(<<y, x>> \in Below)
  BY <1>4
<1>6. x # 0 /\ x - 1 \in Nat /\ x - 1 \notin S
  OBVIOUS
<1>7. <<x - 1, x>> \in Below
  BY <1>6 DEF Below
<1> QED
  BY <1>5, <1>6, <1>7

(* Sets of natural numbers have a least element. *)
LEMMA LeastExists ==
    ASSUME NEW S \in SUBSET Nat, S # {}
    PROVE  \E x \in S : \A y \in S : x <= y
<1>1. IsWellFoundedOn(Below, Nat)
  BY NatLessThanWellFounded DEF OpToRel, Below
<1>2. PICK x \in S : \A y \in S : ~(<<y, x>> \in Below)
  BY <1>1, WFMin, Zenon
<1>3. ASSUME NEW y \in S PROVE x <= y
  <2>1. ~(<<y, x>> \in Below) /\ x \in Nat /\ y \in Nat
    BY <1>2
  <2> QED BY <2>1 DEF Below
<1> QED
  BY <1>2, <1>3

(* Finite sets of numbers have a greatest element. *)
LEMMA MaxExists ==
    ASSUME NEW n \in Nat, NEW s \in SUBSET (1..n), s # {}
    PROVE  Max(s) \in s /\ \A y \in s : y <= Max(s)
<1> DEFINE HasMax(t) == \E x \in t : \A y \in t : y <= x
           K == {m \in Nat : \A t \in SUBSET (1..m) : t # {} => HasMax(t)}
<1>1. 0 \in K
  <2>1. 1..0 = {}
    OBVIOUS
  <2> QED BY <2>1
<1>2. ASSUME NEW m \in K PROVE m + 1 \in K
  <2>1. SUFFICES ASSUME NEW t \in SUBSET (1..(m + 1)), t # {} PROVE HasMax(t)
    OBVIOUS
  <2>2. CASE m + 1 \in t
    BY <2>2
  <2>3. CASE m + 1 \notin t
    <3>1. t \in SUBSET (1..m)
      BY <2>3
    <3> QED BY <3>1, <2>1
  <2> QED BY <2>2, <2>3
<1>3. K = Nat
  <2> HIDE DEF K
  <2>1. K \in SUBSET Nat BY DEF K
  <2> QED BY <1>1, <1>2, <2>1, SetInduction
<1>4. HasMax(s)
  BY <1>3
<1>5. s \subseteq Int
  OBVIOUS
<1>6. \E x \in s : \A y \in s : x >= y
  BY <1>4, <1>5
<1> QED
  BY <1>5, <1>6 DEF Max

(* The greatest element of an interval, and what is left without it. *)
LEMMA MaxInterval ==
    ASSUME NEW k \in Nat
    PROVE  Max(1..(k + 1)) = k + 1 /\ (1..(k + 1)) \ {k + 1} = 1..k
<1>1. Max(1..(k + 1)) \in 1..(k + 1) /\ \A y \in 1..(k + 1) : y <= Max(1..(k + 1))
  <2>1. 1..(k + 1) # {} /\ k + 1 \in Nat OBVIOUS
  <2> QED BY <2>1, MaxExists
<1> QED
  BY <1>1

(* What a fold does to every part of the indices of a sequence. *)
IsIter(g, base, seq, n) ==
    g = [s \in SUBSET (1..n) |->
            IF s = {} THEN base ELSE op(g[s \ {Max(s)}], seq[Max(s)])]

(* There is such a function, by induction on the length, *)
LEMMA IterExists ==
    ASSUME NEW base, NEW seq, NEW n \in Nat
    PROVE  \E g : IsIter(g, base, seq, n)
<1> DEFINE K == {m \in Nat : \E g : IsIter(g, base, seq, m)}
<1>1. 0 \in K
  <2> DEFINE g == [s \in SUBSET (1..0) |-> base]
  <2>1. \A s \in SUBSET (1..0) : s = {}
    OBVIOUS
  <2>2. IsIter(g, base, seq, 0)
    BY <2>1 DEF IsIter
  <2> QED BY <2>2
<1>2. ASSUME NEW m \in K PROVE m + 1 \in K
  <2>1. PICK g : IsIter(g, base, seq, m)
    OBVIOUS
  <2>2. m \in Nat /\ m + 1 \in Nat
    OBVIOUS
  <2> DEFINE h == [s \in SUBSET (1..(m + 1)) |->
                      IF m + 1 \in s THEN op(g[s \ {m + 1}], seq[m + 1]) ELSE g[s]]
             val(f, s) == IF s = {} THEN base ELSE op(f[s \ {Max(s)}], seq[Max(s)])
  <2>3. ASSUME NEW s \in SUBSET (1..(m + 1)) PROVE h[s] = val(h, s)
    <3>1. CASE m + 1 \in s
      <4>1. Max(s) = m + 1
        <5>1. Max(s) \in s /\ \A y \in s : y <= Max(s)
          BY <3>1, <2>2, MaxExists
        <5>2. Max(s) \in 1..(m + 1) /\ m + 1 <= Max(s)
          BY <5>1, <3>1
        <5> QED BY <5>2, <2>2
      <4>2. s \ {m + 1} \in SUBSET (1..(m + 1)) /\ m + 1 \notin s \ {m + 1}
        OBVIOUS
      <4>3. h[s \ {m + 1}] = g[s \ {m + 1}]
        BY <4>2
      <4>4. h[s] = op(g[s \ {m + 1}], seq[m + 1])
        BY <3>1
      <4> QED BY <4>1, <4>3, <4>4, <3>1
    <3>2. CASE m + 1 \notin s
      <4>1. s \in SUBSET (1..m)
        BY <3>2
      <4>2. h[s] = g[s]
        BY <3>2
      <4>3. g[s] = val(g, s)
        BY <4>1, <2>1 DEF IsIter
      <4>4. CASE s # {}
        <5>1. Max(s) \in s
          BY <4>4, <4>1, <2>2, MaxExists
        <5>2. s \ {Max(s)} \in SUBSET (1..(m + 1)) /\ m + 1 \notin s \ {Max(s)}
          BY <3>2
        <5>3. h[s \ {Max(s)}] = g[s \ {Max(s)}]
          BY <5>2
        <5> QED BY <4>2, <4>3, <4>4, <5>3
      <4> QED BY <4>2, <4>3, <4>4
    <3> QED BY <3>1, <3>2
  <2>4. h = [s \in SUBSET (1..(m + 1)) |-> h[s]]
    OBVIOUS
  <2>5. h = [s \in SUBSET (1..(m + 1)) |-> val(h, s)]
    <3> HIDE DEF h, val
    <3> QED BY <2>3, <2>4
  <2>6. IsIter(h, base, seq, m + 1)
    BY <2>5 DEF IsIter
  <2> QED BY <2>6, <2>2
<1>3. K = Nat
  <2> HIDE DEF K
  <2>1. K \in SUBSET Nat BY DEF K
  <2> QED BY <1>1, <1>2, <2>1, SetInduction
<1> QED
  BY <1>3

(* ... it applies op to one element after the other, *)
LEMMA IterValue ==
    ASSUME NEW base, NEW g, NEW seq, NEW n \in Nat, IsIter(g, base, seq, n),
           NEW k \in Nat, k < n
    PROVE  g[1..(k + 1)] = op(g[1..k], seq[k + 1])
<1>1. Max(1..(k + 1)) = k + 1 /\ (1..(k + 1)) \ {k + 1} = 1..k
  BY MaxInterval
<1>2. 1..(k + 1) \in SUBSET (1..n) /\ 1..(k + 1) # {}
  <2>1. \A i \in 1..(k + 1) : i \in 1..n
    OBVIOUS
  <2>2. k + 1 \in 1..(k + 1)
    OBVIOUS
  <2> QED BY <2>1, <2>2
<1>3. ASSUME NEW s \in SUBSET (1..n), s # {} PROVE g[s] = op(g[s \ {Max(s)}], seq[Max(s)])
  BY <1>3 DEF IsIter
<1>4. g[1..(k + 1)] = op(g[(1..(k + 1)) \ {Max(1..(k + 1))}], seq[Max(1..(k + 1))])
  BY <1>2, <1>3
<1> QED
  BY <1>1, <1>4

(* Two sequences that begin alike *)
SamePrefix(s, t, n) == \A i \in 1..n : s[i] = t[i]

(* ... have been treated alike that far. *)
LEMMA IterAgrees ==
    ASSUME NEW base, NEW g, NEW h, NEW s, NEW t, NEW n \in Nat, NEW m \in Nat, n <= m,
           IsIter(g, base, s, n), IsIter(h, base, t, m), SamePrefix(s, t, n)
    PROVE  g[1..n] = h[1..n]
<1> DEFINE K == {k \in Nat : k <= n => g[1..k] = h[1..k]}
<1>1. 0 \in K
  <2>1. 1..0 = {} /\ {} \in SUBSET (1..n) /\ {} \in SUBSET (1..m)
    OBVIOUS
  <2>2. g[{}] = base /\ h[{}] = base
    BY <2>1 DEF IsIter
  <2> QED BY <2>1, <2>2
<1>2. ASSUME NEW k \in K PROVE k + 1 \in K
  <2>1. SUFFICES ASSUME k + 1 <= n PROVE g[1..(k + 1)] = h[1..(k + 1)]
    OBVIOUS
  <2>2. k \in Nat /\ k < n /\ k < m /\ k + 1 \in 1..n
    BY <2>1
  <2>4. g[1..(k + 1)] = op(g[1..k], s[k + 1])
    BY <2>2, IterValue
  <2>5. h[1..(k + 1)] = op(h[1..k], t[k + 1])
    BY <2>2, IterValue
  <2>6. g[1..k] = h[1..k] /\ s[k + 1] = t[k + 1]
    BY <2>2 DEF SamePrefix
  <2> QED BY <2>4, <2>5, <2>6
<1>3. K = Nat
  <2> HIDE DEF K
  <2>1. K \in SUBSET Nat BY DEF K
  <2> QED BY <1>1, <1>2, <2>1, SetInduction
<1> QED
  BY <1>3

(* The fold of a sequence is the value of that function for all of it. *)
LEMMA FoldIsIter ==
    ASSUME NEW base, NEW S, NEW seq \in Seq(S)
    PROVE  \E g : IsIter(g, base, seq, Len(seq)) /\ Fold(base, seq) = g[1..Len(seq)]
<1>1. DOMAIN seq = 1..Len(seq) /\ Len(seq) \in Nat
  OBVIOUS
<1> DEFINE g == CHOOSE iter : IsIter(iter, base, seq, Len(seq))
<1>2. IsIter(g, base, seq, Len(seq))
  BY <1>1, IterExists
<1>3. Fold(base, seq) = g[1..Len(seq)]
  BY <1>1 DEF Fold, FoldLeft, MapThenFoldSet, IsIter
<1> QED
  BY <1>2, <1>3

(* Folding nothing yields the base. *)
LEMMA FoldEmpty ==
    ASSUME NEW base PROVE Fold(base, <<>>) = base
<1>1. PICK g : IsIter(g, base, <<>>, 0) /\ Fold(base, <<>>) = g[1..0]
  <2>1. <<>> \in Seq({}) /\ Len(<<>>) = 0
    OBVIOUS
  <2> QED BY <2>1, FoldIsIter
<1>2. 1..0 = {} /\ {} \in SUBSET (1..0)
  OBVIOUS
<1> QED
  BY <1>1, <1>2 DEF IsIter

(* Folding one element more applies op once more. *)
LEMMA FoldAppend ==
    ASSUME NEW base, NEW S, NEW seq \in Seq(S), NEW x \in S
    PROVE  Fold(base, Append(seq, x)) = op(Fold(base, seq), x)
<1>1. PICK n \in Nat : n = Len(seq)
  OBVIOUS
<1>2. PICK t \in Seq(S) : /\ t = Append(seq, x) /\ Len(t) = n + 1 /\ t[n + 1] = x
                         /\ SamePrefix(seq, t, n)
  <2>1. /\ Append(seq, x) \in Seq(S) /\ Len(Append(seq, x)) = n + 1
        /\ Append(seq, x)[n + 1] = x /\ SamePrefix(seq, Append(seq, x), n)
    BY <1>1 DEF SamePrefix
  <2> QED BY <2>1
<1>3. PICK m \in Nat : m = n + 1 /\ n <= m
  OBVIOUS
<1>4. PICK g : IsIter(g, base, seq, n) /\ Fold(base, seq) = g[1..n]
  BY <1>1, FoldIsIter
<1>5. PICK h : IsIter(h, base, t, m) /\ Fold(base, t) = h[1..m]
  BY <1>2, <1>3, FoldIsIter
<1>6. g[1..n] = h[1..n]
  <2>1. /\ IsIter(g, base, seq, n) /\ IsIter(h, base, t, m)
        /\ n <= m /\ SamePrefix(seq, t, n)
    BY <1>2, <1>3, <1>4, <1>5
  <2> QED BY ONLY <2>1, IterAgrees
<1>7. h[1..(n + 1)] = op(h[1..n], t[n + 1])
  BY <1>3, <1>5, IterValue
<1> QED
  BY <1>2, <1>3, <1>4, <1>5, <1>6, <1>7

(* What op keeps, the fold keeps: the induction that a loop over a sequence*)
(* needs.                                                                  *)
LEMMA FoldInvariant ==
    ASSUME NEW V, NEW S, \A v \in V, x \in S : op(v, x) \in V,
           NEW base \in V, NEW seq \in Seq(S)
    PROVE  Fold(base, seq) \in V
<1> DEFINE K == {n \in Nat : \A s \in Seq(S) : Len(s) = n => Fold(base, s) \in V}
<1>1. 0 \in K
  <2>1. \A s \in Seq(S) : Len(s) = 0 => s = <<>>
    OBVIOUS
  <2> QED BY <2>1, FoldEmpty
<1>2. ASSUME NEW n \in K PROVE n + 1 \in K
  <2>1. SUFFICES ASSUME NEW s \in Seq(S), Len(s) = n + 1 PROVE Fold(base, s) \in V
    OBVIOUS
  <2> DEFINE t == SubSeq(s, 1, n)
             x == s[n + 1]
  <2>2. t \in Seq(S) /\ Len(t) = n /\ x \in S /\ s = Append(t, x)
    BY <2>1
  <2> HIDE DEF t, x
  <2>3. Fold(base, t) \in V
    BY <2>2
  <2> QED BY <2>2, <2>3, FoldAppend
<1>3. K = Nat
  <2> HIDE DEF K
  <2>1. K \in SUBSET Nat BY DEF K
  <2> QED BY <1>1, <1>2, <2>1, SetInduction
<1> QED
  BY <1>3

(* A sequence may be folded in pieces: the loop may be interrupted         *)
(* anywhere.                                                               *)
LEMMA FoldConcat ==
    ASSUME NEW base, NEW S, NEW s \in Seq(S), NEW t \in Seq(S)
    PROVE  Fold(base, s \o t) = Fold(Fold(base, s), t)
<1> DEFINE K == {n \in Nat : \A u \in Seq(S) :
                    Len(u) = n => Fold(base, s \o u) = Fold(Fold(base, s), u)}
<1>1. 0 \in K
  <2>1. \A u \in Seq(S) : Len(u) = 0 => u = <<>> /\ s \o u = s
    OBVIOUS
  <2> QED BY <2>1, FoldEmpty
<1>2. ASSUME NEW n \in K PROVE n + 1 \in K
  <2>1. SUFFICES ASSUME NEW u \in Seq(S), Len(u) = n + 1
                 PROVE  Fold(base, s \o u) = Fold(Fold(base, s), u)
    OBVIOUS
  <2> DEFINE v == SubSeq(u, 1, n)
             x == u[n + 1]
  <2>2. v \in Seq(S) /\ Len(v) = n /\ x \in S /\ u = Append(v, x)
    BY <2>1
  <2>3. s \o u = Append(s \o v, x) /\ s \o v \in Seq(S)
    BY <2>2
  <2> HIDE DEF v, x
  <2>4. Fold(base, s \o v) = Fold(Fold(base, s), v)
    BY <2>2
  <2>5. Fold(base, s \o u) = op(Fold(base, s \o v), x)
    <3>1. Fold(base, Append(s \o v, x)) = op(Fold(base, s \o v), x)
      <4> DEFINE w == s \o v
      <4> HIDE DEF w
      <4>1. w \in Seq(S)
        BY <2>3 DEF w
      <4>2. Fold(base, Append(w, x)) = op(Fold(base, w), x)
        BY <2>2, <4>1, FoldAppend
      <4> QED BY <4>2 DEF w
    <3> QED BY <3>1, <2>3
  <2>6. Fold(Fold(base, s), u) = op(Fold(Fold(base, s), v), x)
    BY <2>2, FoldAppend
  <2> QED BY <2>4, <2>5, <2>6
<1>3. K = Nat
  <2> HIDE DEF K
  <2>1. K \in SUBSET Nat BY DEF K
  <2> QED BY <1>1, <1>2, <2>1, SetInduction
<1> QED
  BY <1>3

(* Appending to what is concatenated. *)
LEMMA ConcatAppend ==
    ASSUME NEW S, NEW s \in Seq(S), NEW v \in Seq(S), NEW x \in S
    PROVE  s \o Append(v, x) = Append(s \o v, x)
<1> QED OBVIOUS

(* What the elements so far and the value have in common, they have in the *)
(* end: a loop that computes something about what it goes through.         *)
LEMMA FoldFollows ==
    ASSUME NEW V, NEW S, NEW R, R \subseteq Seq(S) \X V,
           \A p \in R, x \in S : <<Append(p[1], x), op(p[2], x)>> \in R,
           NEW start \in Seq(S), NEW base \in V, <<start, base>> \in R, NEW seq \in Seq(S)
    PROVE  <<start \o seq, Fold(base, seq)>> \in R
<1> DEFINE Next(p, x) == <<Append(p[1], x), op(p[2], x)>>
<1>0. \A p \in R, x \in S : Next(p, x) \in R
  OBVIOUS
<1> HIDE DEF Next
<1> DEFINE Kept(u) == <<start \o u, Fold(base, u)>> \in R
           K == {n \in Nat : \A u \in Seq(S) : Len(u) = n => Kept(u)}
<1>1. 0 \in K
  <2>1. \A u \in Seq(S) : Len(u) = 0 => u = <<>> /\ start \o u = start
    OBVIOUS
  <2> QED BY <2>1, FoldEmpty
<1>2. ASSUME NEW n \in K PROVE n + 1 \in K
  <2>1. SUFFICES ASSUME NEW u \in Seq(S), Len(u) = n + 1 PROVE Kept(u)
    <3> HIDE DEF Kept
    <3> QED OBVIOUS
  <2> DEFINE v == SubSeq(u, 1, n)
             x == u[n + 1]
  <2>2. v \in Seq(S) /\ Len(v) = n /\ x \in S /\ u = Append(v, x)
    BY <2>1
  <2> HIDE DEF v, x
  <2>3. start \o u = Append(start \o v, x)
    <3>1. start \o Append(v, x) = Append(start \o v, x)
      BY ONLY <2>2, start \in Seq(S), ConcatAppend
    <3> QED BY <2>2, <3>1
  <2>4. <<start \o v, Fold(base, v)>> \in R
    BY <2>2
  <2>5. <<Append(start \o v, x), op(Fold(base, v), x)>> \in R
    <3> DEFINE p == <<start \o v, Fold(base, v)>>
    <3>1. p[1] = start \o v /\ p[2] = Fold(base, v)
      OBVIOUS
    <3>2. p \in R
      BY <2>4
    <3> HIDE DEF p
    <3>3. <<Append(p[1], x), op(p[2], x)>> \in R
      BY <1>0, <2>2, <3>2 DEF Next
    <3> QED BY <3>1, <3>3
  <2>6. Fold(base, u) = op(Fold(base, v), x)
    BY <2>2, FoldAppend
  <2> QED BY <2>3, <2>5, <2>6
<1>3. K = Nat
  <2> HIDE DEF K
  <2>1. K \in SUBSET Nat BY DEF K
  <2> QED BY <1>1, <1>2, <2>1, SetInduction
<1> QED
  BY <1>3

================================================================================
