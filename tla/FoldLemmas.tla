----------------------------- MODULE FoldLemmas -----------------------------
(* Induction up to a number, and that a fold of the community modules over  *)
(* numbers in ascending order is what its recursion says, both stated over  *)
(* sets and functions: a step that is a function on a set of accumulators   *)
(* has a fold, and a set of numbers that is closed under successors has     *)
(* them all.                                                                *)
EXTENDS Integers, FiniteSetsExt, WellFoundedInduction, TLAPS

\* What holds of 0, and of a number if of the one before it, holds up to n.
LEMMA FiniteInduction ==
  ASSUME NEW n \in Nat, NEW T, 0 \in T, \A i \in 1 .. n : i - 1 \in T => i \in T
  PROVE  0 .. n \subseteq T
<1> DEFINE R == OpToRel(<, Nat)
           Bad == (0 .. n) \ T
<1> SUFFICES ASSUME Bad # {} PROVE FALSE
  OBVIOUS
<1>1. IsWellFoundedOn(R, Nat)
  BY NatLessThanWellFounded
<1>2. Bad \subseteq Nat
  OBVIOUS
<1>3. \A x, y \in Nat : x < y => <<x, y>> \in R
  BY DEF OpToRel
<1> HIDE DEF R
<1>4. PICK m \in Bad : \A y \in Bad : ~ (<<y, m>> \in R)
  <2> HIDE DEF Bad
  <2> QED
    BY <1>1, <1>2, WFMin
<1>5. m \in 1 .. n /\ m - 1 \in Nat /\ m - 1 < m
  OBVIOUS
<1>6. m - 1 \notin Bad
  <2> HIDE DEF Bad
  <2> QED
    BY <1>2, <1>3, <1>4, <1>5
<1> QED
  BY <1>5, <1>6

\* A set of numbers that is bounded and not empty has its Max.
LEMMA MaxIsLargest ==
  ASSUME NEW n \in Nat, NEW s \in SUBSET (0 .. n), s # {}
  PROVE  Max(s) \in s /\ Max(s) \in 0 .. n /\ \A y \in s : y <= Max(s)
<1> DEFINE T == {i \in 0 .. n : (\E y \in s : n - i <= y) =>
                                  \E x \in s : \A y \in s : y <= x}
<1>1. 0 \in T
  OBVIOUS
<1>2. ASSUME NEW i \in 1 .. n, i - 1 \in T PROVE i \in T
  <2> SUFFICES ASSUME NEW y \in s, n - i <= y, \A z \in s : ~(n - (i - 1) <= z)
               PROVE  \E x \in s : \A z \in s : z <= x
    BY <1>2
  <2>1. y = n - i
    OBVIOUS
  <2>2. \A z \in s : z <= y
    BY <2>1
  <2> QED
    BY <2>2
<1>3. 0 .. n \subseteq T
  <2> HIDE DEF T
  <2> QED
    BY <1>1, <1>2, FiniteInduction
<1>4. \E x \in s : \A y \in s : y <= x
  <2>1. n \in T
    <3> HIDE DEF T
    <3> QED
      BY <1>3
  <2>2. \E y \in s : n - n <= y
    <3>1. PICK y \in s : y \in 0 .. n
      OBVIOUS
    <3> QED
      BY <3>1
  <2> QED
    BY <2>1, <2>2
<1>5. \E x \in s : \A y \in s : x >= y
  BY <1>4
<1>6. Max(s) \in s /\ \A y \in s : Max(s) >= y
  BY <1>5 DEF Max
<1> QED
  BY <1>6

\* The numbers up to i, and those below them.
LEMMA UpTo ==
  ASSUME NEW n \in Nat
  PROVE  \A i \in 1 .. n : /\ 1 .. i \in SUBSET (1 .. n) /\ 1 .. i # {}
                           /\ Max(1 .. i) = i /\ (1 .. i) \ {i} = 1 .. i - 1
<1> TAKE i \in 1 .. n
<1>1. 1 .. i \in SUBSET (1 .. n) /\ i \in 1 .. i /\ (1 .. i) \ {i} = 1 .. i - 1
  OBVIOUS
<1>2. Max(1 .. i) \in 1 .. i /\ \A y \in 1 .. i : y <= Max(1 .. i)
  <2>1. 1 .. i \in SUBSET (0 .. n) /\ 1 .. i # {}
    BY <1>1
  <2> QED
    BY <2>1, MaxIsLargest
<1>3. Max(1 .. i) = i
  BY <1>1, <1>2
<1> QED
  BY <1>1, <1>3

\* The fold of the sets of numbers of D: the step with the largest is last.
IsFold(g, D, base, step) ==
  \A s \in SUBSET D : g[s] = IF s = {} THEN base ELSE step[<<Max(s), g[s \ {Max(s)}]>>]

\* A step on the accumulators S has a fold.
LEMMA FoldExists ==
  ASSUME NEW n \in Nat, NEW D \in SUBSET (0 .. n), NEW S, NEW base \in S,
         NEW step \in [D \X S -> S]
  PROVE  \E g \in [SUBSET D -> S] : IsFold(g, D, base, step)
<1> DEFINE Below(m) == {d \in D : d < m}
           FoldBelow(g, m) == \A s \in SUBSET Below(m) :
             g[s] = IF s = {} THEN base ELSE step[<<Max(s), g[s \ {Max(s)}]>>]
           T == {m \in 0 .. n + 1 : \E g \in [SUBSET Below(m) -> S] : FoldBelow(g, m)}
<1>0. /\ Below(0) = {} /\ Below(n + 1) = D
      /\ \A m \in 1 .. n + 1 :
           /\ m - 1 \in Nat /\ m - 1 \notin Below(m - 1) /\ Below(m) \subseteq 0 .. n
           /\ \A d \in Below(m) : d = m - 1 \/ d \in Below(m - 1)
           /\ Below(m - 1) \subseteq Below(m)
           /\ \A d \in Below(m) : d \in D /\ d <= m - 1
  <2>1. \A d \in D : d \in Nat /\ d <= n /\ d < n + 1 /\ ~(d < 0)
    OBVIOUS
  <2>2. Below(0) = {} /\ Below(n + 1) = D
    BY <2>1
  <2>3. ASSUME NEW m \in 1 .. n + 1
        PROVE  /\ m - 1 \in Nat /\ m - 1 \notin Below(m - 1) /\ Below(m) \subseteq 0 .. n
               /\ \A d \in Below(m) : d = m - 1 \/ d \in Below(m - 1)
               /\ Below(m - 1) \subseteq Below(m)
               /\ \A d \in Below(m) : d \in D /\ d <= m - 1
    <3>1. m \in Nat /\ m - 1 \in Nat /\ ~(m - 1 < m - 1)
      OBVIOUS
    <3>2. \A d \in D : d < m <=> d = m - 1 \/ d < m - 1
      BY <2>1, <3>1
    <3>3. \A d \in D : d < m => d \in 0 .. n /\ d <= m - 1
      BY <2>1, <3>1
    <3> QED
      BY <3>1, <3>2, <3>3
  <2> QED
    BY <2>2, <2>3
<1> HIDE DEF Below
<1>1. 0 \in T
  <2> DEFINE g == [s \in SUBSET Below(0) |-> base]
  <2>1. g \in [SUBSET Below(0) -> S] /\ FoldBelow(g, 0)
    BY <1>0
  <2>2. 0 \in 0 .. n + 1
    OBVIOUS
  <2> HIDE DEF FoldBelow, g
  <2> QED
    BY <2>1, <2>2
<1>2. ASSUME NEW m \in 1 .. n + 1, m - 1 \in T PROVE m \in T
  <2> DEFINE last == m - 1
  <2>1. PICK g \in [SUBSET Below(last) -> S] : FoldBelow(g, last)
    BY <1>2
  <2> DEFINE h == [s \in SUBSET Below(m) |->
                     IF last \in s THEN step[<<last, g[s \ {last}]>>] ELSE g[s]]
  <2>2. /\ last \in Nat /\ last \notin Below(last) /\ Below(m) \subseteq 0 .. n
        /\ \A d \in Below(m) : d = last \/ d \in Below(last)
        /\ Below(last) \subseteq Below(m)
        /\ \A d \in Below(m) : d \in D /\ d <= last
    BY <1>0
  <2> HIDE DEF last
  <2>3. \A s \in SUBSET Below(m) :
          /\ last \in s => s \ {last} \in SUBSET Below(last)
          /\ last \notin s => s \in SUBSET Below(last)
    BY <2>2
  <2>4. h \in [SUBSET Below(m) -> S]
    <3> SUFFICES ASSUME NEW s \in SUBSET Below(m) PROVE h[s] \in S
      OBVIOUS
    <3>1. CASE last \in s
      <4>1. g[s \ {last}] \in S /\ last \in D
        BY <2>1, <2>2, <2>3, <3>1
      <4> QED
        BY <3>1, <4>1
    <3>2. CASE last \notin s
      BY <2>1, <2>3, <3>2
    <3> QED
      BY <3>1, <3>2
  <2>5. FoldBelow(h, m)
    <3> SUFFICES ASSUME NEW s \in SUBSET Below(m)
                 PROVE  h[s] = IF s = {} THEN base ELSE step[<<Max(s), h[s \ {Max(s)}]>>]
      OBVIOUS
    <3>1. CASE last \in s
      <4>1. Max(s) \in s /\ Max(s) \in 0 .. n /\ \A y \in s : y <= Max(s)
        <5>1. s \in SUBSET (0 .. n) /\ s # {}
          BY <2>2, <3>1
        <5> QED
          BY <5>1, MaxIsLargest
      <4>2. Max(s) <= last /\ last <= Max(s)
        BY <2>2, <3>1, <4>1
      <4>3. Max(s) = last
        BY <2>2, <4>1, <4>2
      <4>4. h[s \ {last}] = g[s \ {last}]
        BY <2>2, <2>3, <3>1
      <4> QED
        BY <3>1, <4>3, <4>4
    <3>2. CASE last \notin s
      <4>1. s \in SUBSET Below(last) /\ h[s] = g[s]
        BY <2>3, <3>2
      <4>2. g[s] = IF s = {} THEN base ELSE step[<<Max(s), g[s \ {Max(s)}]>>]
        BY <2>1, <4>1
      <4>3. h[s \ {Max(s)}] = g[s \ {Max(s)}]
        BY <3>2
      <4> QED
        BY <4>1, <4>2, <4>3
    <3> QED
      BY <3>1, <3>2
  <2>6. m \in 0 .. n + 1
    OBVIOUS
  <2> HIDE DEF FoldBelow, h
  <2> QED
    BY <2>4, <2>5, <2>6
<1>3. n + 1 \in T
  <2>1. 0 .. n + 1 \subseteq T
    <3> HIDE DEF T
    <3> QED
      BY <1>1, <1>2, FiniteInduction
  <2> HIDE DEF T
  <2> QED
    BY <2>1
<1>4. PICK g \in [SUBSET Below(n + 1) -> S] : FoldBelow(g, n + 1)
  BY <1>3
<1> QED
  BY <1>0, <1>4 DEF IsFold
=============================================================================
