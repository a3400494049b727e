------------------------------ MODULE NumberProof ------------------------------
(***************************************************************************)
(* Lemmas about numbers that the proofs of several modules rest on.         *)
(***************************************************************************)
EXTENDS Integers, WellFoundedInduction, TLAPS

-------------------------------------------------------------------------------
(* Induction, with a set in the place of a predicate. *)

\* A set of natural numbers that is not empty has a least element.
LEMMA LeastElement ==
    ASSUME NEW T, T \subseteq Nat, T # {}
    PROVE  \E n \in T : \A m \in T : n <= m
<1> DEFINE R == {ss \in Nat \X Nat : ss[1] < ss[2]}
<1>1. IsWellFoundedOn(R, Nat)
    BY NatLessThanWellFounded DEF OpToRel
<1>2. \A a, b \in Nat : a < b => <<a, b>> \in R
    OBVIOUS
<1> HIDE DEF R
<1>3. PICK n \in T : \A m \in T : <<m, n>> \notin R
    BY <1>1, WFMin
<1>4. ASSUME NEW m \in T PROVE n <= m
    <2>1. n \in Nat /\ m \in Nat
        OBVIOUS
    <2>2. ~(m < n)
        BY <1>2, <1>3, <2>1
    <2> QED
        BY <2>1, <2>2
<1> QED
    BY <1>4

\* A set that has 0, and with each number the next one, has every natural number.
LEMMA Induction ==
    ASSUME NEW P, 0 \in P, \A n \in Nat : n \in P => n + 1 \in P
    PROVE  Nat \subseteq P
<1> DEFINE T == Nat \ P
<1> SUFFICES ASSUME T # {} PROVE FALSE
    OBVIOUS
<1>1. PICK n \in T : \A m \in T : n <= m
    BY LeastElement
<1>2. n # 0 /\ n - 1 \in Nat /\ n - 1 \notin T
    BY <1>1
<1>3. n - 1 \in P
    BY <1>2
<1> QED
    BY <1>1, <1>2, <1>3

\* A set of integers between two bounds has a least and a greatest element.
LEMMA Extremes ==
    ASSUME NEW lo \in Int, NEW hi \in Int, NEW S, S \subseteq lo..hi, S # {}
    PROVE  /\ \E v \in S : \A w \in S : v <= w
           /\ \E v \in S : \A w \in S : w <= v
<1>1. \E v \in S : \A w \in S : v <= w
    <2> DEFINE T == {v - lo : v \in S}
    <2>1. T \subseteq Nat /\ T # {}
        OBVIOUS
    <2>2. PICK n \in T : \A m \in T : n <= m
        BY <2>1, LeastElement
    <2>3. PICK v \in S : n = v - lo
        BY <2>2
    <2>4. ASSUME NEW w \in S PROVE v <= w
        <3>1. v - lo <= w - lo
            BY <2>2, <2>3
        <3> QED
            BY <3>1
    <2> QED
        BY <2>4
<1>2. \E v \in S : \A w \in S : w <= v
    <2> DEFINE T == {hi - v : v \in S}
    <2>1. T \subseteq Nat /\ T # {}
        OBVIOUS
    <2>2. PICK n \in T : \A m \in T : n <= m
        BY <2>1, LeastElement
    <2>3. PICK v \in S : n = hi - v
        BY <2>2
    <2>4. ASSUME NEW w \in S PROVE w <= v
        <3>1. hi - v <= hi - w
            BY <2>2, <2>3
        <3> QED
            BY <3>1
    <2> QED
        BY <2>4
<1> QED
    BY <1>1, <1>2

\* An injection of 1..n into itself that increases is the identity.
LEMMA Increasing ==
    ASSUME NEW n \in Nat, NEW g \in [1..n -> 1..n], \A i, j \in 1..n : i < j => g[i] < g[j]
    PROVE  \A i \in 1..n : g[i] = i
<1>1. ASSUME NEW h \in [1..n -> 1..n], \A i, j \in 1..n : i < j => h[i] < h[j]
      PROVE  \A i \in 1..n : h[i] >= i
    <2> SUFFICES ASSUME NEW k \in 1..n, ~(h[k] >= k) PROVE FALSE
        OBVIOUS
    <2> DEFINE T == {i \in 1..n : h[i] < i}
    <2>1. h[k] \in 1..n /\ h[k] \in Int /\ k \in Int
        OBVIOUS
    <2>2. h[k] < k
        BY <2>1
    <2>3. k \in T
        BY <2>2
    <2>4. T \subseteq Nat
        OBVIOUS
    <2> HIDE DEF T
    <2>5. PICK i \in T : \A m \in T : i <= m
        BY <2>3, <2>4, LeastElement
    <2> USE DEF T
    <2>6. i \in 1..n /\ h[i] < i /\ h[i] \in 1..n
        BY <1>1, <2>5
    <2>7. i - 1 \in 1..n /\ i - 1 < i
        BY <2>6
    <2>8. i - 1 \notin T
        BY <2>5, <2>7
    <2>9. h[i - 1] >= i - 1 /\ h[i - 1] < h[i] /\ h[i - 1] \in 1..n
        BY <1>1, <2>6, <2>7, <2>8
    <2> QED
        BY <2>6, <2>7, <2>9
<1>2. \A i \in 1..n : g[i] >= i
    BY <1>1
<1> DEFINE h == [i \in 1..n |-> n + 1 - g[n + 1 - i]]
<1>3. \A i \in 1..n : h[i] >= i
    <2>1. \A i \in 1..n : n + 1 - i \in 1..n
        OBVIOUS
    <2>2. \A i \in 1..n : g[n + 1 - i] \in 1..n
        BY <2>1
    <2>3. \A i \in 1..n : n + 1 - g[n + 1 - i] \in 1..n
        BY <2>2
    <2>4. h \in [1..n -> 1..n]
        BY <2>3
    <2>5. ASSUME NEW i \in 1..n, NEW j \in 1..n, i < j PROVE h[i] < h[j]
        <3>1. g[n + 1 - j] < g[n + 1 - i]
            BY <2>1, <2>5
        <3> QED
            BY <2>2, <3>1
    <2> HIDE DEF h
    <2> QED
        BY <1>1, <2>4, <2>5
<1>4. ASSUME NEW i \in 1..n PROVE g[i] <= i
    <2>1. n + 1 - i \in 1..n /\ n + 1 - (n + 1 - i) = i
        OBVIOUS
    <2>2. h[n + 1 - i] = n + 1 - g[i]
        BY <2>1
    <2>3. n + 1 - g[i] >= n + 1 - i
        BY <1>3, <2>1, <2>2
    <2> QED
        BY <2>3
<1> QED
    BY <1>2, <1>4
================================================================================
