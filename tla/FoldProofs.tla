----------------------------- MODULE FoldProofs -----------------------------
(***************************************************************************)
(* Lemmas about sets of numbers and about FoldLeft, for the proofs about   *)
(* the modules that fold.  Induction is stated for sets of numbers, so     *)
(* that it needs no operator for a parameter; a fold over a sequence is    *)
(* shown to exist for an operation given as a function.                    *)
(***************************************************************************)
EXTENDS Integers, Sequences, SequencesExt, FiniteSets, FiniteSetTheorems,
        SequenceTheorems, NaturalsInduction, WellFoundedInduction, TLAPS

Below == {pair \in Nat \X Nat : pair[1] < pair[2]}

\* A set of numbers that is not empty has a least element.
LEMMA LeastNatural ==
    ASSUME NEW S, S \subseteq Nat, S # {}
    PROVE  \E x \in S : \A y \in S : x <= y
<1>0. IsWellFoundedOn(Below, Nat)
  BY NatLessThanWellFounded DEF Below, OpToRel
<1>1. PICK x \in S : \A y \in S : ~(<<y, x>> \in Below)
  BY <1>0, WFMin
<1>2. \A y \in S : x <= y
  <2> SUFFICES ASSUME NEW y \in S PROVE x <= y
    OBVIOUS
  <2>1. ~(<<y, x>> \in {pair \in Nat \X Nat : pair[1] < pair[2]})
    BY <1>1 DEF Below
  <2>2. x \in Nat /\ y \in Nat
    OBVIOUS
  <2> HIDE <1>1
  <2> QED
    BY <2>1, <2>2
<1> QED
  BY <1>2

\* A set of numbers that has 0, and with each number below n the next one, has all numbers
\* up to n.
LEMMA UpTo ==
    ASSUME NEW n \in Nat, NEW S, 0 \in S, \A i \in 1 .. n : i - 1 \in S => i \in S
    PROVE  0 .. n \subseteq S
<1> SUFFICES ASSUME ~(0 .. n \subseteq S) PROVE FALSE
  OBVIOUS
<1> DEFINE Missing == {i \in 0 .. n : i \notin S}
<1>1. Missing \subseteq Nat /\ Missing # {}
  OBVIOUS
<1>2. PICK x \in Missing : \A y \in Missing : x <= y
  BY <1>1, LeastNatural
<1> QED
  BY <1>2

\* The number that was added last is the greatest.
LEMMA MaxIsTop ==
    ASSUME NEW n \in Nat, NEW t \in SUBSET (1 .. n), n \in t
    PROVE  Max(t) = n
<1>1. n \in t /\ \A y \in t : n >= y
  OBVIOUS
<1>2. \A x \in t : (\A y \in t : x >= y) => x = n
  <2> TAKE x \in t
  <2> HAVE \A y \in t : x >= y
  <2>1. x >= n /\ x \in 1 .. n
    BY <1>1
  <2> QED
    BY <2>1
<1> QED
  BY <1>1, <1>2 DEF Max

\* A set of numbers up to n that is not empty has a greatest element.
LEMMA MaxOfInterval ==
    ASSUME NEW n \in Nat, NEW t \in SUBSET (1 .. n), t # {}
    PROVE  Max(t) \in t /\ \A x \in t : x <= Max(t)
<1> DEFINE Gap == {n - x : x \in t}
<1>1. Gap \subseteq Nat /\ Gap # {}
  <2>1. \A x \in t : x \in 1 .. n /\ n - x \in Nat
    OBVIOUS
  <2> QED
    BY <2>1
<1>2. PICK y \in Gap : \A z \in Gap : y <= z
  BY <1>1, LeastNatural
<1>3. PICK x \in t : y = n - x
  OBVIOUS
<1>4. \A z \in t : x >= z
  <2> TAKE z \in t
  <2>1. n - z \in Gap /\ z \in 1 .. n /\ x \in 1 .. n
    OBVIOUS
  <2>2. n - x <= n - z
    BY <1>2, <1>3, <2>1
  <2> HIDE DEF Gap
  <2> QED
    BY <2>1, <2>2
<1> QED
  BY <1>4 DEF Max

\* A fold from b over the N elements of s, with an operation F on values of X and
\* elements of Y.
Foldable(X, Y, F, b, N, s) ==
    F \in [X \X Y -> X] /\ b \in X /\ N \in Nat /\ s \in [1 .. N -> Y]

\* The equation that defines the fold, for each set of indices.
IsFold(X, F, b, N, s, g) ==
    /\ g \in [SUBSET (1 .. N) -> X]
    /\ \A t \in SUBSET (1 .. N) :
          g[t] = IF t = {} THEN b ELSE F[<<g[t \ {Max(t)}], s[Max(t)]>>]

\* The equation has a solution.
LEMMA FoldExists ==
    ASSUME NEW X, NEW Y, NEW F, NEW b, NEW N, NEW s, Foldable(X, Y, F, b, N, s)
    PROVE  \E g : IsFold(X, F, b, N, s, g)
<1> USE DEF Foldable, IsFold
<1> DEFINE Solves(n, g) ==
      \A t \in SUBSET (1 .. n) :
         g[t] = IF t = {} THEN b ELSE F[<<g[t \ {Max(t)}], s[Max(t)]>>]
<1> DEFINE Solved == {n \in Nat : \E g \in [SUBSET (1 .. n) -> X] : Solves(n, g)}
<1>1. \A i \in 1 .. N : s[i] \in Y
  OBVIOUS
<1>2. 0 \in Solved
  <2> DEFINE g == [t \in SUBSET (1 .. 0) |-> b]
  <2>1. \A t \in SUBSET (1 .. 0) : t = {} /\ g[t] = b
    OBVIOUS
  <2>2. g \in [SUBSET (1 .. 0) -> X]
    OBVIOUS
  <2>3. Solves(0, g)
    BY <2>1
  <2> QED
    BY <2>2, <2>3
<1>3. ASSUME NEW n \in 1 .. N, n - 1 \in Solved PROVE n \in Solved
  <2>1. PICK g \in [SUBSET (1 .. n - 1) -> X] : Solves(n - 1, g)
    BY <1>3
  <2> DEFINE h == [t \in SUBSET (1 .. n) |->
                     IF n \in t THEN F[<<g[t \ {n}], s[n]>>] ELSE g[t]]
  <2>2. \A t \in SUBSET (1 .. n) : t \ {n} \in SUBSET (1 .. n - 1)
    OBVIOUS
  <2>3. \A t \in SUBSET (1 .. n) : n \notin t => t \in SUBSET (1 .. n - 1)
    BY <2>2
  <2>4. \A t \in SUBSET (1 .. n) : h[t] \in X
    <3> TAKE t \in SUBSET (1 .. n)
    <3>1. CASE n \in t
      <4>1. g[t \ {n}] \in X /\ s[n] \in Y
        BY <1>1, <2>1, <2>2
      <4> QED
        BY <3>1, <4>1
    <3>2. CASE n \notin t
      BY <2>1, <2>3, <3>2
    <3> QED
      BY <3>1, <3>2
  <2>5. h \in [SUBSET (1 .. n) -> X]
    BY <2>4
  <2>6. Solves(n, h)
    <3> SUFFICES ASSUME NEW t \in SUBSET (1 .. n)
                 PROVE h[t] = IF t = {} THEN b ELSE F[<<h[t \ {Max(t)}], s[Max(t)]>>]
      OBVIOUS
    <3>1. CASE n \in t
      <4>1. Max(t) = n /\ t # {}
        BY <3>1, MaxIsTop
      <4>2. h[t \ {n}] = g[t \ {n}]
        BY <2>2
      <4> QED
        BY <3>1, <4>1, <4>2
    <3>2. CASE n \notin t
      <4>1. t \in SUBSET (1 .. n - 1) /\ h[t] = g[t]
        BY <2>3, <3>2
      <4>2. h[t \ {Max(t)}] = g[t \ {Max(t)}]
        BY <3>2, <2>3, t \ {Max(t)} \in SUBSET (1 .. n)
      <4> HIDE DEF h
      <4> QED
        BY <2>1, <4>1, <4>2
    <3> QED
      BY <3>1, <3>2
  <2> HIDE DEF h, Solves
  <2>7. \E f \in [SUBSET (1 .. n) -> X] : Solves(n, f)
    BY <2>5, <2>6
  <2>8. n \in Nat
    BY <1>1
  <2> QED
    BY <2>7, <2>8
<1> HIDE DEF Solved
<1>4. 0 .. N \subseteq Solved
  BY <1>1, <1>2, <1>3, UpTo
<1>5. N \in Solved
  BY <1>1, <1>4
<1> QED
  BY <1>5 DEF Solved

\* What iterates F where it has a value in X goes through the elements one by one.
Iterates(X, F, b, N, s, iter) ==
    /\ iter[{}] = b
    /\ \A t \in SUBSET (1 .. N) :
          t # {} /\ iter[t \ {Max(t)}] \in X =>
             iter[t] = F[<<iter[t \ {Max(t)}], s[Max(t)]>>]

\* A run of the fold: the value after each element.
IsRun(X, F, b, N, s, r) ==
    /\ r \in [0 .. N -> X]
    /\ r[0] = b
    /\ \A k \in 1 .. N : r[k] = F[<<r[k - 1], s[k]>>]

LEMMA FoldSteps ==
    ASSUME NEW X, NEW Y, NEW F, NEW b, NEW N, NEW s, Foldable(X, Y, F, b, N, s),
           NEW iter, Iterates(X, F, b, N, s, iter)
    PROVE  \E r : IsRun(X, F, b, N, s, r) /\ iter[1 .. N] = r[N]
<1> USE DEF Foldable, Iterates
<1> DEFINE r == [k \in 0 .. N |-> iter[1 .. k]]
<1>1. ASSUME NEW k \in 1 .. N, r[k - 1] \in X
      PROVE  r[k] = F[<<r[k - 1], s[k]>>]
  <2>0. 1 \in 1 .. k /\ \A x \in 1 .. k : x \in 1 .. N
    OBVIOUS
  <2>1. k \in Nat /\ 1 .. k # {} /\ 1 .. k \in SUBSET (1 .. N) /\ k - 1 \in 0 .. N
    <3>1. 1 .. k \subseteq 1 .. N
      BY <2>0
    <3>2. 1 .. k # {}
      BY <2>0
    <3> HIDE DEF r
    <3> QED
      BY <3>1, <3>2
  <2>2. Max(1 .. k) = k
    BY <2>1, MaxIsTop
  <2>3. (1 .. k) \ {k} = 1 .. k - 1
    OBVIOUS
  <2>4. r[k] = iter[1 .. k] /\ r[k - 1] = iter[1 .. k - 1]
    BY <2>1
  <2> HIDE DEF r
  <2> QED
    BY <1>1, <2>1, <2>2, <2>3, <2>4
<1>2. r[0] = b /\ 0 \in 0 .. N
  <2>1. 1 .. 0 = {} /\ 0 \in 0 .. N
    OBVIOUS
  <2> QED
    BY <2>1
<1>3. r[N] = iter[1 .. N]
  OBVIOUS
<1>4. \A k \in 0 .. N : r[k] \in X
  <2> HIDE DEF r
  <2> DEFINE Good == {k \in 0 .. N : r[k] \in X}
  <2>1. 0 \in Good
    BY <1>2
  <2>2. \A k \in 1 .. N : k - 1 \in Good => k \in Good
    <3> TAKE k \in 1 .. N
    <3> HAVE k - 1 \in Good
    <3>1. r[k - 1] \in X /\ s[k] \in Y /\ k \in 0 .. N
      OBVIOUS
    <3> QED
      BY <1>1, <3>1
  <2> HIDE DEF Good
  <2>3. 0 .. N \subseteq Good
    BY <2>1, <2>2, UpTo
  <2> QED
    BY <2>3 DEF Good
<1>5. \A k \in 1 .. N : r[k] = F[<<r[k - 1], s[k]>>]
  <2> HIDE DEF r
  <2> TAKE k \in 1 .. N
  <2>1. k - 1 \in 0 .. N
    OBVIOUS
  <2> QED
    BY <1>1, <1>4, <2>1
<1> QED
  BY <1>2, <1>3, <1>4, <1>5 DEF IsRun

-----------------------------------------------------------------------------
(* The elements of a sequence.                                             *)

LEMMA RangeOfAppend ==
    ASSUME NEW S, NEW s \in Seq(S), NEW e \in S
    PROVE  Range(Append(s, e)) = Range(s) \cup {e}
<1> DEFINE t == Append(s, e)
<1>1. Len(s) \in Nat /\ DOMAIN s = 1 .. Len(s) /\ DOMAIN t = 1 .. Len(s) + 1
  OBVIOUS
<1>2. t[Len(s) + 1] = e /\ \A i \in 1 .. Len(s) : t[i] = s[i]
  OBVIOUS
<1> HIDE DEF t
<1>3. \A x \in Range(t) : x \in Range(s) \cup {e}
  BY <1>1, <1>2 DEF Range
<1>4. \A x \in Range(s) \cup {e} : x \in Range(t)
  BY <1>1, <1>2 DEF Range
<1> QED
  BY <1>3, <1>4 DEF t

LEMMA RangeOfConcat ==
    ASSUME NEW S, NEW s \in Seq(S), NEW t \in Seq(S)
    PROVE  Range(s \o t) = Range(s) \cup Range(t)
<1> DEFINE u == s \o t
<1>1. /\ Len(s) \in Nat /\ DOMAIN s = 1 .. Len(s)
      /\ Len(t) \in Nat /\ DOMAIN t = 1 .. Len(t)
      /\ DOMAIN u = 1 .. Len(s) + Len(t)
  OBVIOUS
<1>2. /\ \A i \in 1 .. Len(s) : u[i] = s[i]
      /\ \A i \in 1 .. Len(t) : u[Len(s) + i] = t[i]
  OBVIOUS
<1> HIDE DEF u
<1>3. \A x \in Range(u) : x \in Range(s) \cup Range(t)
  <2> SUFFICES ASSUME NEW i \in DOMAIN u PROVE u[i] \in Range(s) \cup Range(t)
    BY DEF Range
  <2>1. i \in 1 .. Len(s) \/ (i - Len(s) \in 1 .. Len(t) /\ i = Len(s) + (i - Len(s)))
    BY <1>1
  <2> QED
    BY <1>1, <1>2, <2>1 DEF Range
<1>4. \A x \in Range(s) \cup Range(t) : x \in Range(u)
  <2>1. ASSUME NEW i \in DOMAIN s PROVE s[i] \in Range(u)
    BY <1>1, <1>2 DEF Range
  <2>2. ASSUME NEW i \in DOMAIN t PROVE t[i] \in Range(u)
    <3>1. Len(s) + i \in DOMAIN u
      BY <1>1
    <3> QED
      BY <1>1, <1>2, <3>1 DEF Range
  <2> QED
    BY <2>1, <2>2 DEF Range
<1> QED
  BY <1>3, <1>4 DEF u

\* Two lists after one another have no element twice if each has none and they share none.
LEMMA InjectiveConcat ==
    ASSUME NEW S, NEW s \in Seq(S), NEW t \in Seq(S)
    PROVE  IsInjective(s \o t) <=>
              IsInjective(s) /\ IsInjective(t) /\ Range(s) \cap Range(t) = {}
<1> DEFINE u == s \o t
<1>1. /\ Len(s) \in Nat /\ DOMAIN s = 1 .. Len(s)
      /\ Len(t) \in Nat /\ DOMAIN t = 1 .. Len(t)
      /\ DOMAIN u = 1 .. Len(s) + Len(t)
  OBVIOUS
<1>2. /\ \A i \in 1 .. Len(s) : u[i] = s[i]
      /\ \A i \in 1 .. Len(t) : u[Len(s) + i] = t[i]
  OBVIOUS
<1> HIDE DEF u
<1>3. ASSUME IsInjective(u) PROVE IsInjective(s) /\ IsInjective(t)
  <2>1. \A i \in 1 .. Len(s) : i \in DOMAIN u
    BY <1>1
  <2>2. \A i \in 1 .. Len(t) : Len(s) + i \in DOMAIN u
    BY <1>1
  <2>3. IsInjective(s)
    BY <1>1, <1>2, <1>3, <2>1 DEF IsInjective
  <2>4. ASSUME NEW i \in 1 .. Len(t), NEW j \in 1 .. Len(t), t[i] = t[j] PROVE i = j
    <3>1. Len(s) + i = Len(s) + j
      BY <1>2, <1>3, <2>2, <2>4 DEF IsInjective
    <3> QED
      BY <1>1, <3>1
  <2> QED
    BY <1>1, <2>3, <2>4 DEF IsInjective
<1>4. ASSUME IsInjective(u) PROVE Range(s) \cap Range(t) = {}
  <2> SUFFICES ASSUME NEW i \in 1 .. Len(s), NEW j \in 1 .. Len(t), s[i] = t[j] PROVE FALSE
    BY <1>1 DEF Range
  <2>1. i \in DOMAIN u /\ Len(s) + j \in DOMAIN u /\ i # Len(s) + j
    BY <1>1
  <2>2. u[i] = u[Len(s) + j]
    BY <1>2, <2>1
  <2> QED
    BY <1>4, <2>1, <2>2 DEF IsInjective
<1>5. ASSUME IsInjective(s), IsInjective(t), Range(s) \cap Range(t) = {}
      PROVE  IsInjective(u)
  <2> SUFFICES ASSUME NEW i \in DOMAIN u, NEW j \in DOMAIN u, u[i] = u[j] PROVE i = j
    BY DEF IsInjective
  <2>1. ASSUME NEW k \in DOMAIN u
        PROVE  \/ k \in 1 .. Len(s)
               \/ k - Len(s) \in 1 .. Len(t) /\ u[k] = t[k - Len(s)]
    <3>1. CASE k > Len(s)
      <4>1. k - Len(s) \in 1 .. Len(t) /\ Len(s) + (k - Len(s)) = k
        BY <1>1, <3>1
      <4> QED
        BY <1>2, <4>1
    <3>2. CASE ~(k > Len(s))
      BY <1>1, <3>2
    <3> QED
      BY <3>1, <3>2
  <2>2. \A k \in 1 .. Len(s) : u[k] \in Range(s)
    BY <1>1, <1>2 DEF Range
  <2>3. \A k \in 1 .. Len(t) : t[k] \in Range(t)
    BY <1>1 DEF Range
  <2>4. CASE i \in 1 .. Len(s) /\ j \in 1 .. Len(s)
    BY <1>1, <1>2, <1>5, <2>4 DEF IsInjective
  <2>5. CASE ~(i \in 1 .. Len(s)) /\ ~(j \in 1 .. Len(s))
    <3>1. i - Len(s) = j - Len(s)
      BY <1>1, <1>5, <2>1, <2>5 DEF IsInjective
    <3> QED
      BY <1>1, <3>1
  <2>6. CASE i \in 1 .. Len(s) /\ ~(j \in 1 .. Len(s))
    BY <1>5, <2>1, <2>2, <2>3, <2>6
  <2>7. CASE ~(i \in 1 .. Len(s)) /\ j \in 1 .. Len(s)
    BY <1>5, <2>1, <2>2, <2>3, <2>7
  <2> QED
    BY <2>4, <2>5, <2>6, <2>7
<1> QED
  BY <1>3, <1>4, <1>5 DEF u

LEMMA TwoElements ==
    ASSUME NEW S, NEW f \in S, NEW g \in S
    PROVE  <<f>> \o <<g>> = <<f, g>>
<1> DEFINE s == <<f>> \o <<g>>
           t == <<f, g>>
<1>1. s \in Seq(S) /\ t \in Seq(S) /\ Len(s) = 2 /\ Len(t) = 2
  OBVIOUS
<1>2. s[1] = t[1] /\ s[2] = t[2]
  OBVIOUS
<1> HIDE DEF s, t
<1>3. \A i \in 1 .. Len(s) : s[i] = t[i]
  <2> TAKE i \in 1 .. Len(s)
  <2>1. i = 1 \/ i = 2
    BY <1>1
  <2> QED
    BY <1>2, <2>1
<1>4. s = t
  BY <1>1, <1>3, SeqEqual
<1> QED
  BY <1>4 DEF s, t

=============================================================================
