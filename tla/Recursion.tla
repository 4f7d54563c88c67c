----------------------------- MODULE Recursion -----------------------------
(* Lemmas for the recursive functions of the models, and for their           *)
(* sequences: a recursive definition says what its value is once some       *)
(* function satisfies it, and Iteration gives that function.                *)
EXTENDS Integers, SequencesExt, SequenceTheorems, WellFoundedInduction, TLAPS

(* A set of naturals has a least element.                                   *)
LEMMA Least ==
    ASSUME NEW S \in SUBSET Nat, S # {}
    PROVE  \E x \in S : \A y \in S : x =< y
  <1>1. PICK x \in S : \A y \in S : ~(<<y, x>> \in OpToRel(<, Nat))
    BY WFMin, NatLessThanWellFounded, Zenon
  <1>2. \A y \in S : ~(y < x)
    BY <1>1 DEF OpToRel
  <1> QED
    BY <1>2

(* What holds of 0, and of each k up to n if it does of k - 1.              *)
LEMMA NoneBad ==
    ASSUME NEW n \in Nat, NEW Bad \in SUBSET (0 .. n), 0 \notin Bad,
           \A k \in 1 .. n : k \in Bad => k - 1 \in Bad
    PROVE  Bad = {}
  <1> SUFFICES ASSUME Bad # {} PROVE FALSE
    OBVIOUS
  <1>1. Bad \in SUBSET Nat
    OBVIOUS
  <1>2. PICK m \in Bad : \A y \in Bad : m =< y
    BY <1>1, Least
  <1>3. m \in 1 .. n
    BY <1>2
  <1>4. m - 1 \in Bad /\ m \in Nat
    BY <1>2, <1>3
  <1> QED
    BY <1>2, <1>4

(* A function defined from its value one step before exists: the recursive  *)
(* functions of the model have the values their definitions say.            *)
Iterates(f, S, T, first, n) ==
    /\ f \in [0 .. n -> S]
    /\ f[0] = first /\ \A k \in 1 .. n : f[k] = T[k][f[k - 1]]

LEMMA Iteration ==
    ASSUME NEW S, NEW T \in [Nat -> [S -> S]], NEW first \in S, NEW n \in Nat
    PROVE  \E f : Iterates(f, S, T, first, n)
  <1> DEFINE P(m) == \E f : Iterates(f, S, T, first, m)
             Bad == {m \in Nat : ~P(m)}
  <1> SUFFICES ASSUME Bad # {} PROVE FALSE
    OBVIOUS
  <1>1. PICK m \in Bad : \A y \in Bad : m =< y
    BY Least
  <1>2. P(0)
    <2> DEFINE f == [k \in 0 .. 0 |-> first]
    <2>1. Iterates(f, S, T, first, 0)
      BY DEF Iterates
    <2> QED
      BY <2>1
  <1>3. m \in Nat /\ m # 0 /\ ~P(m)
    BY <1>1, <1>2
  <1>4. P(m - 1)
    <2>1. m - 1 \in Nat /\ ~(m =< m - 1)
      BY <1>3
    <2>2. m - 1 \notin Bad
      BY <1>1, <2>1
    <2> HIDE DEF P
    <2> QED
      BY <2>1, <2>2
  <1>5. PICK f : Iterates(f, S, T, first, m - 1)
    BY <1>4
  <1> USE DEF Iterates
  <1> DEFINE g == [k \in 0 .. m |-> IF k = m THEN T[m][f[m - 1]] ELSE f[k]]
  <1>6. T[m][f[m - 1]] \in S
    BY <1>3, <1>5
  <1>7. g \in [0 .. m -> S] /\ g[0] = first
    BY <1>3, <1>5, <1>6
  <1>8. ASSUME NEW k \in 1 .. m PROVE g[k] = T[k][g[k - 1]]
    <2>1. g[k - 1] = f[k - 1]
      BY <1>3
    <2>2. CASE k = m
      BY <1>3, <2>1, <2>2
    <2>3. CASE k # m
      <3>1. k \in 1 .. m - 1 /\ k \in 0 .. m
        BY <1>3, <2>3
      <3>2. g[k] = f[k]
        BY <2>3, <3>1
      <3> QED
        BY <1>5, <2>1, <3>1, <3>2
    <2> QED
      BY <2>2, <2>3
  <1> QED
    BY <1>3, <1>7, <1>8

(* What RemoveAt takes out, and where the others go.                        *)
LEMMA Removed ==
    ASSUME NEW S, NEW s \in Seq(S), NEW n \in DOMAIN s
    PROVE  /\ RemoveAt(s, n) \in Seq(S) /\ Len(RemoveAt(s, n)) = Len(s) - 1
           /\ \A j \in 1 .. Len(s) - 1 :
                  RemoveAt(s, n)[j] = IF j < n THEN s[j] ELSE s[j + 1]
  <1> DEFINE a == SubSeq(s, 1, n - 1)
             b == SubSeq(s, n + 1, Len(s))
  <1>1. n \in 1 .. Len(s) /\ Len(s) \in Nat
    OBVIOUS
  <1>2. a \in Seq(S) /\ Len(a) = n - 1 /\ \A i \in 1 .. n - 1 : a[i] = s[i]
    BY <1>1
  <1>3. /\ b \in Seq(S) /\ Len(b) = Len(s) - n
        /\ \A i \in 1 .. Len(s) - n : b[i] = s[n + i]
    BY <1>1
  <1> HIDE DEF a, b
  <1>4. RemoveAt(s, n) = a \o b
    BY DEF RemoveAt, a, b
  <1>5. /\ a \o b \in Seq(S) /\ Len(a \o b) = Len(a) + Len(b)
        /\ \A j \in 1 .. Len(a) + Len(b) :
               (a \o b)[j] = IF j <= Len(a) THEN a[j] ELSE b[j - Len(a)]
    BY <1>2, <1>3, ConcatProperties
  <1>6. Len(a) + Len(b) = Len(s) - 1
    BY <1>1, <1>2, <1>3
  <1>7. ASSUME NEW j \in 1 .. Len(s) - 1
        PROVE  (a \o b)[j] = IF j < n THEN s[j] ELSE s[j + 1]
    <2>1. CASE j < n
      <3>1. j \in 1 .. n - 1 /\ j <= Len(a)
        BY <1>1, <1>2, <2>1
      <3> QED
        BY <1>2, <1>5, <1>6, <2>1, <3>1
    <2>2. CASE ~(j < n)
      <3>1. /\ ~(j <= Len(a)) /\ j - Len(a) = j - (n - 1)
            /\ j - (n - 1) \in 1 .. Len(s) - n /\ n + (j - (n - 1)) = j + 1
        BY <1>1, <1>2, <2>2
      <3>2. (a \o b)[j] = b[j - (n - 1)]
        BY <1>5, <1>6, <3>1
      <3>3. b[j - (n - 1)] = s[n + (j - (n - 1))]
        BY <1>3, <3>1
      <3> QED
        BY <2>2, <3>1, <3>2, <3>3
    <2> QED
      BY <2>1, <2>2
  <1> QED
    BY <1>4, <1>5, <1>6, <1>7

=============================================================================
