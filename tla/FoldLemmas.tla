----------------------------- MODULE FoldLemmas -----------------------------
(***************************************************************************)
(* What the proofs need of FoldLeft and of functions defined by recursion. *)
(* Both are defined by CHOOSE, as the function that satisfies an equation: *)
(* the lemmas show that there is one, and how to show that all its values  *)
(* have a property.  A set D stands for the property, since a lemma about  *)
(* a predicate could not be used.                                          *)
(***************************************************************************)
EXTENDS Integers, Sequences, SequencesExt, Sublists, FunctionTheorems,
        FiniteSetTheorems, WellFoundedInduction, TLAPS

(* A set of natural numbers that is not empty has a least element.         *)
LEMMA LeastNumber ==
  ASSUME NEW T \in SUBSET Nat, T # {}
  PROVE  \E m \in T : \A k \in T : m <= k
<1>1. PICK m \in T : \A y \in T : <<y, m>> \notin OpToRel(<, Nat)
  BY WFMin, NatLessThanWellFounded
<1>2. \A k \in Nat : k \in T => ~(k < m)
  <2> SUFFICES ASSUME NEW k \in Nat, k \in T, k < m PROVE FALSE
    OBVIOUS
  <2>1. m \in Nat
    OBVIOUS
  <2>2. <<k, m>> \in OpToRel(<, Nat)
    BY <2>1, Zenon DEF OpToRel
  <2> QED BY <1>1, <2>2, Zenon
<1>3. \A k \in T : m <= k
  BY <1>2
<1> QED BY <1>3

(* A set of some of the numbers 1 .. n has a greatest element, which is    *)
(* what Max chooses.                                                       *)
LEMMA MaxOfInterval ==
  ASSUME NEW n \in Nat, NEW S \in SUBSET (1 .. n), S # {}
  PROVE  Max(S) \in S /\ \A y \in S : Max(S) >= y
<1> DEFINE T == {m \in Nat : \A y \in S : m >= y}
<1>1. n \in T
  OBVIOUS
<1>2. PICK m \in T : \A k \in T : m <= k
  BY <1>1, LeastNumber
<1>3. m \in S
  <2> SUFFICES ASSUME m \notin S PROVE FALSE
    OBVIOUS
  <2>1. PICK z \in S : TRUE
    OBVIOUS
  <2>2. m \in Nat /\ \A y \in S : y \in Nat \ {0} /\ m > y
    OBVIOUS
  <2>3. m - 1 \in T
    BY <2>1, <2>2
  <2> QED BY <1>2, <2>2, <2>3
<1>4. \E x \in S : \A y \in S : x >= y
  BY <1>3
<1> QED BY <1>4 DEF Max

(* So has a set of numbers that is bounded.                                *)
LEMMA MaxOfNumbers ==
  ASSUME NEW S \in SUBSET Nat, S # {}, NEW b \in Nat, \A y \in S : y <= b
  PROVE  Max(S) \in S /\ \A y \in S : Max(S) >= y
<1> DEFINE T == {m \in Nat : \A y \in S : m >= y}
<1>1. b \in T
  OBVIOUS
<1>2. PICK m \in T : \A k \in T : m <= k
  BY <1>1, LeastNumber
<1>3. m \in S
  <2> SUFFICES ASSUME m \notin S PROVE FALSE
    OBVIOUS
  <2>1. PICK z \in S : TRUE
    OBVIOUS
  <2>2. m \in Nat /\ \A y \in S : y \in Nat /\ m > y
    OBVIOUS
  <2>3. m - 1 \in T
    BY <2>1, <2>2
  <2> QED BY <1>2, <2>2, <2>3
<1>4. \E x \in S : \A y \in S : x >= y
  BY <1>3
<1> QED BY <1>4 DEF Max

(***************************************************************************)
(* The equation that defines FoldLeft has a solution: F is the operator    *)
(* that is folded, as a function of what was folded so far and an index.   *)
(***************************************************************************)
FoldEquation(g, n, F, base) ==
  \A s \in SUBSET (1 .. n) :
    g[s] = IF s = {} THEN base ELSE F[<<g[s \ {Max(s)}], Max(s)>>]

(* The fold over 1 .. n has a solution of that equation.                   *)
LEMMA FoldExists ==
  ASSUME NEW n \in Nat, NEW D, NEW base \in D, NEW F \in [D \X (1 .. n) -> D]
  PROVE  \E g \in [SUBSET (1 .. n) -> D] : FoldEquation(g, n, F, base)
<1> DEFINE P(m) == \E g \in [SUBSET (1 .. m) -> D] : FoldEquation(g, m, F, base)
           T == {m \in Nat : m <= n /\ ~P(m)}
<1> SUFFICES ASSUME T # {} PROVE FALSE
  <2>1. P(n) => \E g \in [SUBSET (1 .. n) -> D] : FoldEquation(g, n, F, base)
    OBVIOUS
  <2>2. n \notin T => P(n)
    <3> HIDE DEF P
    <3> QED OBVIOUS
  <2> QED BY <2>1, <2>2
<1>1. PICK m \in T : \A k \in T : m <= k
  BY LeastNumber
<1>2. P(0)
  <2> DEFINE g == [s \in SUBSET (1 .. 0) |-> base]
  <2>1. g \in [SUBSET (1 .. 0) -> D]
    OBVIOUS
  <2>2. FoldEquation(g, 0, F, base)
    BY DEF FoldEquation
  <2> QED BY <2>1, <2>2
<1>3. m \in Nat /\ m # 0 /\ m <= n /\ m - 1 \in Nat
  <2> HIDE DEF P
  <2> QED BY <1>1, <1>2
<1>4. P(m - 1)
  <2> HIDE DEF P
  <2> QED BY <1>1, <1>3
<1>5. PICK g \in [SUBSET (1 .. (m - 1)) -> D] : FoldEquation(g, m - 1, F, base)
  BY <1>4
<1> DEFINE h == [s \in SUBSET (1 .. m) |->
                   IF m \in s THEN F[<<g[s \ {m}], m>>] ELSE g[s]]
<1>6. \A s \in SUBSET (1 .. m) : s \ {m} \in SUBSET (1 .. (m - 1))
  BY <1>3
<1>7. \A s \in SUBSET (1 .. m) : m \notin s => s \in SUBSET (1 .. (m - 1))
  BY <1>3
<1>8. h \in [SUBSET (1 .. m) -> D]
  <2> SUFFICES ASSUME NEW s \in SUBSET (1 .. m)
               PROVE  (IF m \in s THEN F[<<g[s \ {m}], m>>] ELSE g[s]) \in D
    OBVIOUS
  <2>1. CASE m \in s
    BY <1>3, <1>5, <1>6, <2>1
  <2>2. CASE m \notin s
    BY <1>5, <1>7, <2>2
  <2> QED BY <2>1, <2>2
<1>9. \A s \in SUBSET (1 .. m) : m \in s => Max(s) = m
  <2> SUFFICES ASSUME NEW s \in SUBSET (1 .. m), m \in s PROVE Max(s) = m
    OBVIOUS
  <2>1. Max(s) \in 1 .. m /\ Max(s) >= m
    BY <1>3, MaxOfInterval
  <2> QED BY <1>3, <2>1
<1>10. FoldEquation(h, m, F, base)
  <2> SUFFICES ASSUME NEW s \in SUBSET (1 .. m)
               PROVE  h[s] = IF s = {} THEN base
                             ELSE F[<<h[s \ {Max(s)}], Max(s)>>]
    BY DEF FoldEquation
  <2>1. CASE m \in s
    <3>1. s \ {m} \in SUBSET (1 .. m) /\ m \notin s \ {m}
      OBVIOUS
    <3>2. h[s \ {m}] = g[s \ {m}]
      BY <3>1
    <3> QED BY <1>9, <2>1, <3>2
  <2>2. CASE m \notin s
    <3>1. h[s] = g[s]
      BY <2>2
    <3>2. s \in SUBSET (1 .. (m - 1))
      BY <1>7, <2>2
    <3>3. CASE s = {}
      BY <1>5, <3>1, <3>2, <3>3 DEF FoldEquation
    <3>4. CASE s # {}
      <4>1. Max(s) \in s
        BY <1>3, <3>4, MaxOfInterval
      <4>2. s \ {Max(s)} \in SUBSET (1 .. m) /\ m \notin s \ {Max(s)}
        BY <2>2
      <4>3. h[s \ {Max(s)}] = g[s \ {Max(s)}]
        BY <4>2
      <4> QED BY <1>5, <3>1, <3>2, <3>4, <4>3 DEF FoldEquation
    <3> QED BY <3>3, <3>4
  <2> QED BY <2>1, <2>2
<1> HIDE DEF h
<1>11. P(m)
  BY <1>8, <1>10
<1> QED BY <1>1, <1>11

(* What the empty fold has and each turn keeps, every value of a fold has. *)
LEMMA FoldRange ==
  ASSUME NEW n \in Nat, NEW D, NEW g, g[{}] \in D,
         \A s \in SUBSET (1 .. n) :
           s # {} /\ g[s \ {Max(s)}] \in D => g[s] \in D
  PROVE  \A s \in SUBSET (1 .. n) : g[s] \in D
<1> DEFINE Bad == {m \in Nat : \E s \in SUBSET (1 .. n) :
                                 Cardinality(s) = m /\ g[s] \notin D}
<1> SUFFICES ASSUME NEW s0 \in SUBSET (1 .. n), g[s0] \notin D PROVE FALSE
  OBVIOUS
<1>1. \A s \in SUBSET (1 .. n) : IsFiniteSet(s) /\ Cardinality(s) \in Nat
  <2>1. IsFiniteSet(1 .. n)
    BY FS_Interval
  <2>2. \A s \in SUBSET (1 .. n) : IsFiniteSet(s)
    BY <2>1, FS_Subset
  <2> QED BY <2>2, FS_CardinalityType
<1>2. Bad # {}
  BY <1>1
<1>3. PICK m \in Bad : \A k \in Bad : m <= k
  BY <1>2, LeastNumber
<1>4. PICK s \in SUBSET (1 .. n) : Cardinality(s) = m /\ g[s] \notin D
  BY <1>3
<1>5. s # {}
  BY <1>4
<1>6. Max(s) \in s
  BY <1>5, MaxOfInterval
<1>7. Cardinality(s \ {Max(s)}) = m - 1
  BY <1>1, <1>4, <1>6, FS_RemoveElement
<1>8. s \ {Max(s)} \in SUBSET (1 .. n) /\ g[s \ {Max(s)}] \notin D
  BY <1>4, <1>5
<1>9. Cardinality(s \ {Max(s)}) \in Nat
  BY <1>1, <1>8
<1>10. m - 1 \in Bad
  BY <1>7, <1>8, <1>9
<1> QED BY <1>3, <1>10

-----------------------------------------------------------------------------
(* Induction up to a bound.                                                *)
LEMMA UpTo ==
  ASSUME NEW n \in Nat, NEW T, 0 \in T, \A i \in 0 .. n - 1 : i \in T => i + 1 \in T
  PROVE  \A i \in 0 .. n : i \in T
<1> DEFINE Bad == {i \in 0 .. n : i \notin T}
<1> SUFFICES ASSUME Bad # {} PROVE FALSE
  OBVIOUS
<1>1. Bad \in SUBSET Nat
  OBVIOUS
<1>2. PICK m \in Bad : \A k \in Bad : m <= k
  BY <1>1, LeastNumber
<1>3. m # 0 /\ m \in 0 .. n
  BY <1>2
<1>4. m - 1 \in 0 .. n - 1 /\ m - 1 \notin Bad
  BY <1>2, <1>3
<1>5. m - 1 \in T
  BY <1>4
<1>6. (m - 1) + 1 \in T
  BY <1>4, <1>5
<1> QED BY <1>2, <1>3, <1>6

(* The numbers a finite index set is mapped to are bounded.                *)
LEMMA Bounded ==
  ASSUME NEW n \in Nat, NEW D \in SUBSET (1 .. n), NEW f, \A d \in D : f[d] \in Nat
  PROVE  \E m \in Nat : \A d \in D : f[d] <= m
<1> DEFINE T == {i \in 0 .. n : \E m \in Nat : \A d \in D : d <= i => f[d] <= m}
<1>1. 0 \in T
  OBVIOUS
<1>2. ASSUME NEW i \in 0 .. n - 1, i \in T PROVE i + 1 \in T
  <2>1. PICK m \in Nat : \A d \in D : d <= i => f[d] <= m
    BY <1>2
  <2>2. CASE i + 1 \notin D
    <3>1. \A d \in D : d <= i + 1 => f[d] <= m
      BY <2>1, <2>2
    <3> QED BY <3>1
  <2>3. CASE i + 1 \in D
    <3> DEFINE k == IF f[i + 1] <= m THEN m ELSE f[i + 1]
    <3>1. k \in Nat /\ k >= m /\ k >= f[i + 1]
      BY <2>3
    <3> HIDE DEF k
    <3>2. \A d \in D : d <= i + 1 => f[d] <= k
      BY <2>1, <3>1
    <3> QED BY <3>1, <3>2
  <2> QED BY <2>2, <2>3
<1>3. n \in T
  <2> HIDE DEF T
  <2> QED BY <1>1, <1>2, UpTo
<1> QED BY <1>3

(* A fold takes one element after the other.                               *)
LEMMA FoldRun ==
  ASSUME NEW n \in Nat, NEW base, NEW F, NEW h, FoldEquation(h, n, F, base)
  PROVE  /\ h[1 .. 0] = base
         /\ \A i \in 1 .. n : h[1 .. i] = F[<<h[1 .. i - 1], i>>]
<1>1. 1 .. 0 = {} /\ h[{}] = base
  <2>1. 1 .. 0 = {} /\ {} \in SUBSET (1 .. n)
    OBVIOUS
  <2>2. h[{}] = IF {} = {} THEN base ELSE F[<<h[{} \ {Max({})}], Max({})>>]
    BY Zenon, <2>1 DEF FoldEquation
  <2> QED BY <2>1, <2>2
<1>2. ASSUME NEW i \in 1 .. n PROVE h[1 .. i] = F[<<h[1 .. i - 1], i>>]
  <2>1. 1 .. i \in SUBSET (1 .. n) /\ 1 .. i # {} /\ i \in 1 .. i
    OBVIOUS
  <2>2. Max(1 .. i) = i
    <3>1. Max(1 .. i) \in 1 .. i /\ \A y \in 1 .. i : Max(1 .. i) >= y
      BY <2>1, MaxOfInterval
    <3> QED BY <2>1, <3>1
  <2>3. (1 .. i) \ {i} = 1 .. i - 1
    OBVIOUS
  <2>4. h[1 .. i] = F[<<h[(1 .. i) \ {Max(1 .. i)}], Max(1 .. i)>>]
    BY <2>1 DEF FoldEquation
  <2> QED BY <2>2, <2>3, <2>4
<1> QED BY <1>1, <1>2

(* h is defined by recursion over 0 .. n, F being a step.                  *)
StepsOver(D, n) == [D \X (1 .. n) -> D]

Recursion(h, D, n, base, F) ==
  /\ h \in [0 .. n -> D] /\ h[0] = base
  /\ \A i \in 1 .. n : h[i] = F[<<h[i - 1], i>>]

(* A function can be defined by recursion over 0 .. n.                     *)
LEMMA RecursionExists ==
  ASSUME NEW n \in Nat, NEW D, NEW base \in D, NEW F \in StepsOver(D, n)
  PROVE  \E h : Recursion(h, D, n, base, F)
<1>1. PICK g \in [SUBSET (1 .. n) -> D] : FoldEquation(g, n, F, base)
  BY FoldExists DEF StepsOver
<1>2. /\ g[1 .. 0] = base
      /\ \A i \in 1 .. n : g[1 .. i] = F[<<g[1 .. i - 1], i>>]
  BY <1>1, FoldRun
<1> DEFINE h == [i \in 0 .. n |-> g[1 .. i]]
<1>3. \A i \in 0 .. n : 1 .. i \in SUBSET (1 .. n)
  OBVIOUS
<1>4. h \in [0 .. n -> D] /\ h[0] = base
  BY <1>1, <1>2, <1>3
<1>5. \A i \in 1 .. n : i \in 0 .. n /\ i - 1 \in 0 .. n
  OBVIOUS
<1>6. \A i \in 1 .. n : h[i] = F[<<h[i - 1], i>>]
  BY <1>2, <1>5
<1> HIDE DEF h
<1> QED BY <1>4, <1>6 DEF Recursion

(* run[i] is what Sublist has kept of the first i elements.                *)
SublistOf(run, s, S) ==
  /\ run[0] = <<>>
  /\ \A i \in 1 .. Len(s) :
       run[i] = IF s[i] \in S THEN Append(run[i - 1], s[i]) ELSE run[i - 1]
  /\ Sublist(s, S) = run[Len(s)]

(* Sublist takes the elements of s one after the other.                    *)
LEMMA SublistRun ==
  ASSUME NEW X, NEW s \in Seq(X), NEW S
  PROVE  \E run \in [0 .. Len(s) -> Seq(X \cap S)] : SublistOf(run, s, S)
<1> DEFINE n == Len(s)
           D == Seq(X \cap S)
           F == [p \in D \X (1 .. n) |->
                   IF s[p[2]] \in S THEN Append(p[1], s[p[2]]) ELSE p[1]]
           Eq(h) == h = [t \in SUBSET (1 .. n) |->
                           IF t = {} THEN <<>>
                           ELSE IF s[Max(t)] \in S
                                  THEN Append(h[t \ {Max(t)}], s[Max(t)])
                                  ELSE h[t \ {Max(t)}]]
           h == CHOOSE g : Eq(g)
<1>1. n \in Nat /\ DOMAIN s = 1 .. n /\ <<>> \in D
  OBVIOUS
<1>2. F \in [D \X (1 .. n) -> D]
  <2> SUFFICES ASSUME NEW q \in D, NEW i \in 1 .. n
               PROVE  (IF s[i] \in S THEN Append(q, s[i]) ELSE q) \in D
    OBVIOUS
  <2>1. CASE s[i] \in S
    <3>1. s[i] \in X \cap S
      BY <2>1
    <3> QED BY <2>1, <3>1
  <2>2. CASE s[i] \notin S
    BY <2>2
  <2> QED BY <2>1, <2>2
<1>3. PICK g \in [SUBSET (1 .. n) -> D] : FoldEquation(g, n, F, <<>>)
  <2> HIDE DEF D, F
  <2> QED BY <1>1, <1>2, FoldExists
<1>4. Eq(g)
  <2> SUFFICES ASSUME NEW t \in SUBSET (1 .. n)
               PROVE  g[t] = IF t = {} THEN <<>>
                             ELSE IF s[Max(t)] \in S
                                    THEN Append(g[t \ {Max(t)}], s[Max(t)])
                                    ELSE g[t \ {Max(t)}]
    BY <1>3
  <2>1. CASE t = {}
    BY <1>3, <2>1 DEF FoldEquation
  <2>2. CASE t # {}
    <3>1. Max(t) \in 1 .. n
      BY <1>1, <2>2, MaxOfInterval
    <3>2. g[t \ {Max(t)}] \in D
      BY <1>3
    <3>3. g[t] = F[<<g[t \ {Max(t)}], Max(t)>>]
      BY <1>3, <2>2 DEF FoldEquation
    <3> QED BY <2>2, <3>1, <3>2, <3>3
  <2> QED BY <2>1, <2>2
<1>5. Eq(h)
  <2> HIDE DEF Eq
  <2> QED BY <1>4
<1>6. Sublist(s, S) = h[1 .. n]
  BY <1>1 DEF Sublist, FoldLeft, MapThenFoldSet
<1> HIDE DEF h
<1>7. \A t \in SUBSET (1 .. n) : h[t] \in D
  <2>1. h[{}] \in D
    BY <1>5
  <2>2. ASSUME NEW t \in SUBSET (1 .. n), t # {}, h[t \ {Max(t)}] \in D
        PROVE  h[t] \in D
    <3>1. Max(t) \in 1 .. n
      BY <1>1, <2>2, MaxOfInterval
    <3>2. h[t] = F[<<h[t \ {Max(t)}], Max(t)>>]
      BY <1>5, <2>2, <3>1
    <3> HIDE DEF D, F
    <3> QED BY <1>2, <2>2, <3>1, <3>2
  <2> HIDE DEF D
  <2> QED BY <1>1, <2>1, <2>2, FoldRange
<1>8. FoldEquation(h, n, F, <<>>)
  <2> SUFFICES ASSUME NEW t \in SUBSET (1 .. n)
               PROVE  h[t] = IF t = {} THEN <<>> ELSE F[<<h[t \ {Max(t)}], Max(t)>>]
    BY DEF FoldEquation
  <2>1. CASE t = {}
    BY <1>5, <2>1
  <2>2. CASE t # {}
    <3>1. Max(t) \in 1 .. n /\ h[t \ {Max(t)}] \in D
      BY <1>1, <1>7, <2>2, MaxOfInterval
    <3> QED BY <1>5, <2>2, <3>1
  <2> QED BY <2>1, <2>2
<1>9. /\ h[1 .. 0] = <<>>
      /\ \A i \in 1 .. n : h[1 .. i] = F[<<h[1 .. i - 1], i>>]
  <2> HIDE DEF n, F, D
  <2> QED BY <1>1, <1>8, FoldRun
<1> DEFINE run == [i \in 0 .. n |-> h[1 .. i]]
<1>10. \A i \in 0 .. n : h[1 .. i] \in D
  BY <1>7
<1>11. ASSUME NEW i \in 1 .. n
       PROVE  run[i] = IF s[i] \in S THEN Append(run[i - 1], s[i]) ELSE run[i - 1]
  <2>1. h[1 .. i - 1] \in D
    BY <1>10
  <2>2. run[i] = h[1 .. i] /\ run[i - 1] = h[1 .. i - 1]
    OBVIOUS
  <2>3. F[<<h[1 .. i - 1], i>>] =
          IF s[i] \in S THEN Append(h[1 .. i - 1], s[i]) ELSE h[1 .. i - 1]
    <3> DEFINE q == h[1 .. i - 1]
    <3> HIDE DEF q, D
    <3> QED BY <2>1
  <2> QED BY <1>9, <2>2, <2>3
<1>12. run \in [0 .. n -> D] /\ run[0] = <<>> /\ run[n] = h[1 .. n]
  BY <1>1, <1>9, <1>10
<1>13. SublistOf(run, s, S)
  <2> HIDE DEF run
  <2> QED BY <1>6, <1>11, <1>12 DEF SublistOf
<1> HIDE DEF run
<1> QED BY <1>12, <1>13

(* Sublist gives elements of s that are in S.                              *)
LEMMA SublistType ==
  ASSUME NEW X, NEW s \in Seq(X), NEW S
  PROVE  Sublist(s, S) \in Seq(X \cap S)
BY SublistRun DEF SublistOf


(* A concatenation is as long as its parts.                                *)
LEMMA JoinLength ==
  ASSUME NEW X, NEW s \in Seq(X), NEW t \in Seq(X)
  PROVE  s \o t \in Seq(X) /\ Len(s \o t) = Len(s) + Len(t)
OBVIOUS

Increasing(s) == \A p, q \in DOMAIN s : p < q => s[p] < s[q]

(* What is appended comes last.                                            *)
LEMMA AppendFacts ==
  ASSUME NEW X, NEW q \in Seq(X), NEW x \in X
  PROVE  /\ Append(q, x) \in Seq(X) /\ Len(Append(q, x)) = Len(q) + 1
         /\ DOMAIN q = 1 .. Len(q) /\ Len(q) \in Nat
         /\ DOMAIN Append(q, x) = 1 .. Len(q) + 1
         /\ \A k \in 1 .. Len(q) : Append(q, x)[k] = q[k]
         /\ Append(q, x)[Len(q) + 1] = x
         /\ ToSet(Append(q, x)) = ToSet(q) \cup {x}
<1>1. /\ Append(q, x) \in Seq(X) /\ Len(Append(q, x)) = Len(q) + 1
      /\ DOMAIN q = 1 .. Len(q) /\ Len(q) \in Nat
      /\ DOMAIN Append(q, x) = 1 .. Len(q) + 1
      /\ \A k \in 1 .. Len(q) : Append(q, x)[k] = q[k]
      /\ Append(q, x)[Len(q) + 1] = x
  OBVIOUS
<1> DEFINE w == Append(q, x)
<1> HIDE DEF w
<1>2. 1 .. Len(q) + 1 = (1 .. Len(q)) \cup {Len(q) + 1}
  BY <1>1
<1>3. {w[k] : k \in 1 .. Len(q) + 1} =
        {w[k] : k \in 1 .. Len(q)} \cup {w[Len(q) + 1]}
  BY <1>2
<1>4. {w[k] : k \in 1 .. Len(q)} = {q[k] : k \in 1 .. Len(q)}
  BY <1>1 DEF w
<1>5. ToSet(w) = ToSet(q) \cup {x}
  BY <1>1, <1>3, <1>4 DEF ToSet, w
<1> QED BY <1>1, <1>5 DEF w

(* Sublist keeps what is in S, in order.                                   *)
LEMMA SublistFacts ==
  ASSUME NEW s \in Seq(Int), NEW S
  PROVE  /\ Sublist(s, S) \in Seq(Int)
         /\ Len(Sublist(s, S)) <= Len(s)
         /\ ToSet(Sublist(s, S)) = ToSet(s) \cap S
         /\ Increasing(s) => Increasing(Sublist(s, S))
<1>0. PICK run \in [0 .. Len(s) -> Seq(Int \cap S)] : SublistOf(run, s, S)
  BY SublistRun
<1> DEFINE n == Len(s)
           Before(i) == {s[j] : j \in 1 .. i}
           Kept(i) == /\ Len(run[i]) <= i
                      /\ ToSet(run[i]) = Before(i) \cap S
                      /\ Increasing(s) => Increasing(run[i])
           T == {i \in 0 .. n : Kept(i)}
<1>1. /\ run \in [0 .. n -> Seq(Int \cap S)]
      /\ run[0] = <<>>
      /\ \A i \in 1 .. n :
           run[i] = IF s[i] \in S THEN Append(run[i - 1], s[i]) ELSE run[i - 1]
      /\ Sublist(s, S) = run[n]
  BY <1>0 DEF SublistOf
<1>2. n \in Nat /\ \A j \in 1 .. n : s[j] \in Int
  OBVIOUS
<1>3. \A i \in 0 .. n : run[i] \in Seq(Int)
  <2> SUFFICES ASSUME NEW i \in 0 .. n PROVE run[i] \in Seq(Int)
    OBVIOUS
  <2>1. run[i] \in Seq(Int \cap S)
    BY <1>1
  <2> QED BY <2>1
<1>4. 0 \in T
  <2>1. ToSet(<<>>) = {} /\ Before(0) = {} /\ Len(<<>>) = 0
    BY DEF ToSet
  <2>2. Increasing(<<>>)
    BY DEF Increasing
  <2> QED BY <1>1, <1>2, <2>1, <2>2
<1>5. ASSUME NEW i \in 0 .. n - 1, i \in T PROVE i + 1 \in T
  <2> DEFINE q == run[i]
             x == s[i + 1]
  <2>1. /\ q \in Seq(Int) /\ x \in Int /\ i + 1 \in 1 .. n /\ i + 1 \in 0 .. n
        /\ (i + 1) - 1 = i
    BY <1>2, <1>3
  <2>2. run[i + 1] = IF x \in S THEN Append(q, x) ELSE q
    BY <1>1, <2>1
  <2>3. Before(i + 1) = Before(i) \cup {x}
    BY <1>2
  <2>4. Len(q) <= i /\ ToSet(q) = Before(i) \cap S /\ (Increasing(s) => Increasing(q))
    <3>1. Kept(i)
      <4> HIDE DEF Kept
      <4> QED BY <1>5
    <3> QED BY <3>1
  <2>5. Increasing(s) => \A y \in Before(i) : y < x
    BY <1>2, <2>1 DEF Increasing
  <2> HIDE DEF q, x, Before
  <2>6. CASE x \in S
    <3>1. ToSet(Append(q, x)) = ToSet(q) \cup {x}
      <4> DEFINE X == Int
      <4>1. q \in Seq(X) /\ x \in X
        BY <2>1
      <4> HIDE DEF X
      <4> QED BY <4>1, AppendFacts
    <3>2. ASSUME Increasing(s) PROVE Increasing(Append(q, x))
      <4>1. \A k \in DOMAIN q : q[k] < x
        BY <2>4, <2>5, <3>2 DEF ToSet
      <4> DEFINE w == Append(q, x)
      <4>2. /\ DOMAIN q = 1 .. Len(q) /\ Len(q) \in Nat
            /\ DOMAIN w = 1 .. Len(q) + 1
            /\ \A k \in 1 .. Len(q) : w[k] = q[k]
            /\ w[Len(q) + 1] = x
        BY <2>1, AppendFacts
      <4> HIDE DEF w
      <4>3. ASSUME NEW k \in DOMAIN w, NEW l \in DOMAIN w, k < l
            PROVE  w[k] < w[l]
        <5>1. k \in DOMAIN q /\ w[k] = q[k]
          BY <4>2, <4>3
        <5>2. CASE l \in DOMAIN q
          <6>1. w[l] = q[l] /\ Increasing(q)
            BY <2>4, <3>2, <4>2, <5>2
          <6> QED BY <4>3, <5>1, <5>2, <6>1 DEF Increasing
        <5>3. CASE l \notin DOMAIN q
          <6>1. w[l] = x
            BY <4>2, <5>3
          <6> QED BY <4>1, <5>1, <6>1
        <5> QED BY <5>2, <5>3
      <4> QED BY <4>3 DEF w, Increasing
    <3>3. Len(Append(q, x)) <= i + 1
      BY <2>1, <2>4
    <3>4. ToSet(Append(q, x)) = Before(i + 1) \cap S
      BY <2>3, <2>4, <2>6, <3>1
    <3> QED BY <2>1, <2>2, <2>6, <3>2, <3>3, <3>4
  <2>7. CASE x \notin S
    <3>1. ToSet(q) = Before(i + 1) \cap S
      BY <2>3, <2>4, <2>7
    <3>2. Len(q) <= i + 1
      BY <2>1, <2>4
    <3> QED BY <2>1, <2>2, <2>4, <2>7, <3>1, <3>2
  <2> QED BY <2>6, <2>7
<1>6. n \in T
  <2> HIDE DEF T, n
  <2>1. \A i \in 0 .. n : i \in T
    BY <1>2, <1>4, <1>5, UpTo
  <2> QED BY <1>2, <2>1
<1>7. Before(n) = ToSet(s)
  BY DEF ToSet
<1> HIDE DEF Before
<1>8. Len(run[n]) <= n /\ ToSet(run[n]) = Before(n) \cap S
      /\ (Increasing(s) => Increasing(run[n]))
  BY <1>6
<1>9. run[n] \in Seq(Int)
  BY <1>2, <1>3
<1> HIDE DEF T
<1> QED BY <1>1, <1>7, <1>8, <1>9

(* A sequence written over the front of another one.                       *)
LEMMA OverwriteFacts ==
  ASSUME NEW X, NEW m \in Seq(X), NEW q \in Seq(X), Len(q) <= Len(m)
  PROVE  /\ q \o SubSeq(m, Len(q) + 1, Len(m)) \in Seq(X)
         /\ Len(q \o SubSeq(m, Len(q) + 1, Len(m))) = Len(m)
         /\ SubSeq(q \o SubSeq(m, Len(q) + 1, Len(m)), 1, Len(q)) = q
<1> DEFINE k == Len(q)
           r == SubSeq(m, Len(q) + 1, Len(m))
           w == q \o r
<1>1. k \in Nat /\ Len(m) \in Nat /\ q = [i \in 1 .. k |-> q[i]]
  OBVIOUS
<1>2. r \in Seq(X) /\ Len(r) = Len(m) - k
  OBVIOUS
<1> HIDE DEF r
<1>3. w \in Seq(X) /\ Len(w) = Len(m) /\ \A i \in 1 .. k : w[i] = q[i]
  BY <1>1, <1>2
<1> HIDE DEF w
<1>4. SubSeq(w, 1, k) = [i \in 1 .. k |-> w[i]]
  BY <1>1, <1>3
<1>5. SubSeq(w, 1, k) = q
  BY <1>1, <1>3, <1>4
<1> QED BY <1>3, <1>5 DEF w, r

(* The front of a sequence.                                                *)
LEMMA FrontPartFacts ==
  ASSUME NEW X, NEW m \in Seq(X), NEW k \in 0 .. Len(m)
  PROVE  /\ SubSeq(m, 1, k) \in Seq(X) /\ Len(SubSeq(m, 1, k)) = k
         /\ \A i \in 1 .. k : SubSeq(m, 1, k)[i] = m[i]
OBVIOUS

(* A sequence is its first element and the others.                         *)
LEMMA TailParts ==
  ASSUME NEW X, NEW s \in Seq(X), s # <<>>
  PROVE  /\ Head(s) \in X /\ Tail(s) \in Seq(X) /\ Len(Tail(s)) = Len(s) - 1
         /\ ToSet(s) = {Head(s)} \cup ToSet(Tail(s))
         /\ IsInjective(s) => IsInjective(Tail(s)) /\ Head(s) \notin ToSet(Tail(s))
<1>1. /\ Head(s) = s[1] /\ Head(s) \in X /\ Tail(s) \in Seq(X)
      /\ Len(s) \in Nat \ {0} /\ Len(Tail(s)) = Len(s) - 1
      /\ DOMAIN s = 1 .. Len(s) /\ DOMAIN Tail(s) = 1 .. Len(s) - 1
      /\ \A i \in 1 .. Len(s) - 1 : Tail(s)[i] = s[i + 1]
  OBVIOUS
<1> DEFINE t == Tail(s)
           h == Head(s)
<1> HIDE DEF t, h
<1>2. ToSet(s) = {h} \cup ToSet(t)
  <2>1. \A i \in 1 .. Len(s) : i = 1 \/ (i - 1 \in 1 .. Len(s) - 1 /\ s[i] = t[i - 1])
    BY <1>1 DEF t
  <2>2. \A i \in 1 .. Len(s) - 1 : i + 1 \in 1 .. Len(s) /\ t[i] = s[i + 1]
    BY <1>1 DEF t
  <2>3. 1 \in 1 .. Len(s) /\ s[1] = h
    BY <1>1 DEF h
  <2>4. ToSet(s) = {s[i] : i \in 1 .. Len(s)} /\ ToSet(t) = {t[i] : i \in 1 .. Len(s) - 1}
    BY <1>1 DEF ToSet, t
  <2>5. \A x \in ToSet(s) : x = h \/ x \in ToSet(t)
    BY <2>1, <2>3, <2>4
  <2>6. \A x \in ToSet(t) : x \in ToSet(s)
    BY <2>2, <2>4
  <2>7. h \in ToSet(s)
    BY <2>3, <2>4
  <2> QED BY <2>5, <2>6, <2>7
<1>3. ASSUME IsInjective(s) PROVE IsInjective(t) /\ h \notin ToSet(t)
  <2>1. \A a, b \in 1 .. Len(s) : s[a] = s[b] => a = b
    BY <1>1, <1>3 DEF IsInjective
  <2>2. \A i \in 1 .. Len(s) - 1 : i + 1 \in 1 .. Len(s) /\ t[i] = s[i + 1] /\ i + 1 # 1
    BY <1>1 DEF t
  <2>3. \A a, b \in 1 .. Len(s) - 1 : t[a] = t[b] => a = b
    <3> SUFFICES ASSUME NEW a \in 1 .. Len(s) - 1, NEW b \in 1 .. Len(s) - 1,
                        t[a] = t[b]
                 PROVE  a = b
      OBVIOUS
    <3>1. a + 1 = b + 1
      BY <2>1, <2>2
    <3> QED BY <1>1, <3>1
  <2>4. \A i \in 1 .. Len(s) - 1 : t[i] # h
    BY <1>1, <2>1, <2>2 DEF h
  <2> QED BY <1>1, <2>3, <2>4 DEF IsInjective, ToSet, t
<1> QED BY <1>1, <1>2, <1>3 DEF t, h

(* Two sequences one after the other.                                      *)
LEMMA ConcatParts ==
  ASSUME NEW X, NEW s \in Seq(X), NEW t \in Seq(X)
  PROVE  /\ s \o t \in Seq(X) /\ Len(s \o t) = Len(s) + Len(t)
         /\ ToSet(s \o t) = ToSet(s) \cup ToSet(t)
         /\ IsInjective(s) /\ IsInjective(t) /\ ToSet(s) \cap ToSet(t) = {} =>
              IsInjective(s \o t)
<1> DEFINE w == s \o t
           m == Len(s)
           n == Len(t)
<1>1. /\ w \in Seq(X) /\ Len(w) = m + n /\ m \in Nat /\ n \in Nat
      /\ DOMAIN s = 1 .. m /\ DOMAIN t = 1 .. n /\ DOMAIN w = 1 .. m + n
      /\ \A i \in 1 .. m : w[i] = s[i]
      /\ \A i \in 1 .. n : w[m + i] = t[i]
  OBVIOUS
<1> HIDE DEF w, m, n
<1>2. \A i \in 1 .. m + n : \/ i \in 1 .. m /\ w[i] = s[i]
                            \/ i - m \in 1 .. n /\ w[i] = t[i - m]
  <2> SUFFICES ASSUME NEW i \in 1 .. m + n
               PROVE  \/ i \in 1 .. m /\ w[i] = s[i]
                      \/ i - m \in 1 .. n /\ w[i] = t[i - m]
    OBVIOUS
  <2>1. i \in 1 .. m \/ (i - m \in 1 .. n /\ m + (i - m) = i)
    BY <1>1
  <2> QED BY <1>1, <2>1
<1>3. \A i \in 1 .. m : i \in 1 .. m + n
  BY <1>1
<1>4. \A i \in 1 .. n : m + i \in 1 .. m + n
  BY <1>1
<1>5. ToSet(w) = ToSet(s) \cup ToSet(t)
  <2>1. ToSet(w) = {w[i] : i \in 1 .. m + n} /\ ToSet(s) = {s[i] : i \in 1 .. m}
        /\ ToSet(t) = {t[i] : i \in 1 .. n}
    BY <1>1 DEF ToSet
  <2>2. \A x \in ToSet(w) : x \in ToSet(s) \cup ToSet(t)
    BY <1>2, <2>1
  <2>3. \A x \in ToSet(s) : x \in ToSet(w)
    BY <1>1, <1>3, <2>1
  <2>4. \A x \in ToSet(t) : x \in ToSet(w)
    <3> SUFFICES ASSUME NEW i \in 1 .. n PROVE t[i] \in ToSet(w)
      BY <2>1
    <3>1. w[m + i] = t[i] /\ m + i \in 1 .. m + n
      BY <1>1, <1>4
    <3> QED BY <2>1, <3>1
  <2> QED BY <2>2, <2>3, <2>4
<1>6. ASSUME IsInjective(s), IsInjective(t), ToSet(s) \cap ToSet(t) = {}
      PROVE  IsInjective(w)
  <2>1. \A a, b \in 1 .. m : s[a] = s[b] => a = b
    BY <1>1, <1>6 DEF IsInjective
  <2>2. \A a, b \in 1 .. n : t[a] = t[b] => a = b
    BY <1>1, <1>6 DEF IsInjective
  <2>3. \A a \in 1 .. m, b \in 1 .. n : s[a] # t[b]
    BY <1>1, <1>6 DEF ToSet
  <2>4. ASSUME NEW a \in 1 .. m + n, NEW b \in 1 .. m + n, w[a] = w[b]
        PROVE  a = b
    <3>1. CASE a \in 1 .. m /\ w[a] = s[a] /\ b \in 1 .. m /\ w[b] = s[b]
      BY <2>1, <2>4, <3>1
    <3>2. CASE a \in 1 .. m /\ w[a] = s[a] /\ b - m \in 1 .. n /\ w[b] = t[b - m]
      BY <2>3, <2>4, <3>2
    <3>3. CASE b \in 1 .. m /\ w[b] = s[b] /\ a - m \in 1 .. n /\ w[a] = t[a - m]
      BY <2>3, <2>4, <3>3
    <3>4. CASE a - m \in 1 .. n /\ w[a] = t[a - m] /\ b - m \in 1 .. n /\ w[b] = t[b - m]
      <4>1. a - m = b - m
        BY <2>2, <2>4, <3>4
      <4> QED BY <1>1, <4>1
    <3> QED BY <1>2, <3>1, <3>2, <3>3, <3>4
  <2> QED BY <1>1, <2>4 DEF IsInjective
<1> QED BY <1>1, <1>5, <1>6 DEF w, m, n

(* A sequence without repetitions is as long as the set of its elements.   *)
LEMMA InjectiveLength ==
  ASSUME NEW X, NEW s \in Seq(X), IsInjective(s)
  PROVE  IsFiniteSet(ToSet(s)) /\ Cardinality(ToSet(s)) = Len(s)
<1>1. Len(s) \in Nat /\ DOMAIN s = 1 .. Len(s) /\ s \in [1 .. Len(s) -> ToSet(s)]
  <2>1. Len(s) \in Nat /\ DOMAIN s = 1 .. Len(s) /\ s \in [1 .. Len(s) -> X]
    OBVIOUS
  <2>2. \A i \in 1 .. Len(s) : s[i] \in ToSet(s)
    BY <2>1 DEF ToSet
  <2> QED BY <2>1, <2>2
<1>2. s \in Injection(1 .. Len(s), ToSet(s))
  BY <1>1, Fun_IsInj DEF IsInjective
<1>3. s \in Surjection(1 .. Len(s), ToSet(s))
  <2>1. \A x \in ToSet(s) : \E i \in 1 .. Len(s) : s[i] = x
    BY <1>1 DEF ToSet
  <2> QED BY <1>1, <2>1, Fun_IsSurj
<1>4. ExistsBijection(1 .. Len(s), ToSet(s))
  BY <1>2, <1>3 DEF ExistsBijection, Bijection
<1>5. IsFiniteSet(1 .. Len(s)) /\ Cardinality(1 .. Len(s)) = Len(s)
  <2>1. 1 \in Int /\ Len(s) \in Int
    BY <1>1
  <2>2. IsFiniteSet(1 .. Len(s))
        /\ Cardinality(1 .. Len(s)) = IF 1 > Len(s) THEN 0 ELSE Len(s) - 1 + 1
    BY <2>1, FS_Interval
  <2> QED BY <1>1, <2>2
<1> QED BY <1>4, <1>5, FS_Bijection

(* What is appended to a sequence that does not have it.                   *)
LEMMA AppendOnce ==
  ASSUME NEW X, NEW q \in Seq(X), NEW x \in X, IsInjective(q), x \notin ToSet(q)
  PROVE  IsInjective(Append(q, x))
<1> DEFINE w == Append(q, x)
<1>1. /\ DOMAIN q = 1 .. Len(q) /\ Len(q) \in Nat
      /\ DOMAIN w = 1 .. Len(q) + 1
      /\ \A k \in 1 .. Len(q) : w[k] = q[k]
      /\ w[Len(q) + 1] = x
  BY AppendFacts
<1> HIDE DEF w
<1>2. \A k \in 1 .. Len(q) : q[k] # x
  BY <1>1 DEF ToSet
<1>3. \A a, b \in 1 .. Len(q) : q[a] = q[b] => a = b
  BY <1>1 DEF IsInjective
<1>4. \A a \in 1 .. Len(q) + 1 : a \in 1 .. Len(q) \/ a = Len(q) + 1
  BY <1>1
<1>5. ASSUME NEW a \in 1 .. Len(q) + 1, NEW b \in 1 .. Len(q) + 1, w[a] = w[b]
      PROVE  a = b
  <2>1. CASE a \in 1 .. Len(q) /\ b \in 1 .. Len(q)
    BY <1>1, <1>3, <1>5, <2>1
  <2>2. CASE a = Len(q) + 1 /\ b \in 1 .. Len(q)
    BY <1>1, <1>2, <1>5, <2>2
  <2>3. CASE b = Len(q) + 1 /\ a \in 1 .. Len(q)
    BY <1>1, <1>2, <1>5, <2>3
  <2> QED BY <1>4, <1>5, <2>1, <2>2, <2>3
<1> QED BY <1>1, <1>5 DEF IsInjective, w

(* Sublist keeps the elements that are in S, and repeats none.             *)
LEMMA SublistOnce ==
  ASSUME NEW X, NEW s \in Seq(X), NEW S
  PROVE  /\ ToSet(Sublist(s, S)) = ToSet(s) \cap S
         /\ IsInjective(s) => IsInjective(Sublist(s, S))
<1>0. PICK run \in [0 .. Len(s) -> Seq(X \cap S)] : SublistOf(run, s, S)
  BY SublistRun
<1> DEFINE n == Len(s)
           Before(i) == {s[j] : j \in 1 .. i}
           Kept(i) == /\ ToSet(run[i]) = Before(i) \cap S
                      /\ IsInjective(s) => IsInjective(run[i])
           T == {i \in 0 .. n : Kept(i)}
<1>1. /\ run \in [0 .. n -> Seq(X \cap S)]
      /\ run[0] = <<>>
      /\ \A i \in 1 .. n :
           run[i] = IF s[i] \in S THEN Append(run[i - 1], s[i]) ELSE run[i - 1]
      /\ Sublist(s, S) = run[n]
  BY <1>0 DEF SublistOf
<1>2. n \in Nat /\ DOMAIN s = 1 .. n /\ \A j \in 1 .. n : s[j] \in X
  OBVIOUS
<1>3. 0 \in T
  <2>1. ToSet(<<>>) = {} /\ Before(0) = {}
    BY DEF ToSet
  <2>2. IsInjective(<<>>)
    BY DEF IsInjective
  <2> QED BY <1>1, <1>2, <2>1, <2>2
<1>4. ASSUME NEW i \in 0 .. n - 1, i \in T PROVE i + 1 \in T
  <2> DEFINE q == run[i]
             x == s[i + 1]
             Y == X \cap S
  <2>1. /\ q \in Seq(Y) /\ x \in X /\ i + 1 \in 1 .. n /\ i + 1 \in 0 .. n
        /\ (i + 1) - 1 = i /\ i \in 0 .. n
    <3>1. i + 1 \in 1 .. n /\ i + 1 \in 0 .. n /\ (i + 1) - 1 = i /\ i \in 0 .. n
      BY <1>2
    <3> QED BY <1>1, <1>2, <3>1
  <2>2. run[i + 1] = IF x \in S THEN Append(q, x) ELSE q
    BY <1>1, <2>1
  <2>3. Before(i + 1) = Before(i) \cup {x}
    BY <1>2
  <2>4. ToSet(q) = Before(i) \cap S /\ (IsInjective(s) => IsInjective(q))
    <3>1. Kept(i)
      <4> HIDE DEF Kept
      <4> QED BY <1>4
    <3> QED BY <3>1
  <2>5. ASSUME IsInjective(s), x \in Before(i) PROVE FALSE
    <3>1. PICK j \in 1 .. i : s[j] = s[i + 1]
      BY <2>5
    <3>2. j \in DOMAIN s /\ i + 1 \in DOMAIN s /\ j # i + 1
      BY <1>2, <2>1
    <3> QED BY <2>5, <3>1, <3>2 DEF IsInjective
  <2> HIDE DEF q, x, Before
  <2>6. CASE x \in S
    <3>1. x \in Y
      BY <2>1, <2>6
    <3> HIDE DEF Y
    <3>2. ToSet(Append(q, x)) = ToSet(q) \cup {x}
      BY <2>1, <3>1, AppendFacts
    <3>3. ToSet(Append(q, x)) = Before(i + 1) \cap S
      BY <2>3, <2>4, <2>6, <3>2
    <3>4. ASSUME IsInjective(s) PROVE IsInjective(Append(q, x))
      <4>1. IsInjective(q) /\ x \notin ToSet(q)
        BY <2>4, <2>5, <3>4
      <4> QED BY <2>1, <3>1, <4>1, AppendOnce
    <3> QED BY <2>1, <2>2, <2>6, <3>3, <3>4
  <2>7. CASE x \notin S
    <3>1. ToSet(q) = Before(i + 1) \cap S
      BY <2>3, <2>4, <2>7
    <3> QED BY <2>1, <2>2, <2>4, <2>7, <3>1
  <2> QED BY <2>6, <2>7
<1>5. Kept(n)
  <2>1. n \in T
    <3> HIDE DEF T, n
    <3>1. \A i \in 0 .. n : i \in T
      BY <1>2, <1>3, <1>4, UpTo
    <3> QED BY <1>2, <3>1
  <2> HIDE DEF Kept
  <2> QED BY <2>1
<1>6. Before(n) = ToSet(s)
  BY DEF ToSet
<1> HIDE DEF Before
<1> QED BY <1>1, <1>5, <1>6

-----------------------------------------------------------------------------
(* Powers of two are the sizes of sets of subsets.                         *)

(* A power of two is positive: it is the size of a set that is not empty.  *)
LEMMA PowerPositive == \A n \in Nat : 2 ^ n \in Nat \ {0}
<1> SUFFICES ASSUME NEW n \in Nat PROVE 2 ^ n \in Nat \ {0}
  OBVIOUS
<1>1. IsFiniteSet(1 .. n) /\ Cardinality(1 .. n) = n
  BY FS_Interval
<1>2. IsFiniteSet(SUBSET (1 .. n)) /\ Cardinality(SUBSET (1 .. n)) = 2 ^ n
  BY <1>1, FS_SUBSET
<1>3. Cardinality(SUBSET (1 .. n)) \in Nat
  BY <1>2, FS_CardinalityType
<1>4. Cardinality(SUBSET (1 .. n)) # 0
  BY <1>2, FS_EmptySet
<1> QED BY <1>2, <1>3, <1>4

(* A power of two is twice the one before.                                 *)
LEMMA PowerDoubles == \A n \in Nat : 2 ^ (n + 1) = 2 * 2 ^ n
<1> SUFFICES ASSUME NEW n \in Nat PROVE 2 ^ (n + 1) = 2 * 2 ^ n
  OBVIOUS
<1> DEFINE S == SUBSET (1 .. n)
           T == {x \cup {n + 1} : x \in S}
           f == [x \in S |-> x \cup {n + 1}]
<1>1. IsFiniteSet(1 .. n) /\ Cardinality(1 .. n) = n
  BY FS_Interval
<1>2. IsFiniteSet(S) /\ Cardinality(S) = 2 ^ n
  BY <1>1, FS_SUBSET
<1>3. IsFiniteSet(1 .. n + 1) /\ Cardinality(1 .. n + 1) = n + 1
  BY FS_Interval
<1>4. Cardinality(SUBSET (1 .. n + 1)) = 2 ^ (n + 1)
  BY <1>3, FS_SUBSET
<1>5. f \in Bijection(S, T)
  <2>1. \A x, y \in S : f[x] = f[y] => x = y
    <3> SUFFICES ASSUME NEW x \in S, NEW y \in S, x \cup {n + 1} = y \cup {n + 1}
                 PROVE  x = y
      OBVIOUS
    <3>1. n + 1 \notin x /\ n + 1 \notin y
      OBVIOUS
    <3> QED BY <3>1
  <2>2. \A t \in T : \E x \in S : f[x] = t
    OBVIOUS
  <2>3. f \in [S -> T]
    OBVIOUS
  <2>4. f \in Injection(S, T)
    <3> HIDE DEF f, S, T
    <3> QED BY <2>1, <2>3, Fun_IsInj
  <2>5. f \in Surjection(S, T)
    <3> HIDE DEF f, S, T
    <3> QED BY <2>2, <2>3, Fun_IsSurj
  <2> HIDE DEF f, S, T
  <2> QED BY <2>4, <2>5 DEF Bijection
<1>6. IsFiniteSet(T) /\ Cardinality(T) = Cardinality(S)
  <2>1. ExistsBijection(S, T)
    <3> HIDE DEF f, S, T
    <3> QED BY <1>5 DEF ExistsBijection
  <2> HIDE DEF f, S, T
  <2> QED BY <1>2, <2>1, FS_Bijection
<1>7. S \cap T = {}
  <2>1. \A x \in S : n + 1 \notin x
    OBVIOUS
  <2> QED BY <2>1
<1>8. S \cup T = SUBSET (1 .. n + 1)
  <2>1. \A x \in SUBSET (1 .. n + 1) : x \in S \/ (x \ {n + 1} \in S /\ x = (x \ {n + 1}) \cup {n + 1})
    OBVIOUS
  <2>2. S \subseteq SUBSET (1 .. n + 1) /\ T \subseteq SUBSET (1 .. n + 1)
    <3>1. 1 .. n \subseteq 1 .. n + 1 /\ n + 1 \in 1 .. n + 1
      OBVIOUS
    <3> QED BY <3>1, Zenon
  <2>3. \A x \in SUBSET (1 .. n + 1) : x \in S \/ x \in T
    BY <2>1
  <2> QED BY <2>2, <2>3
<1>9. Cardinality(S \cup T) = Cardinality(S) + Cardinality(T) - Cardinality(S \cap T)
  BY <1>2, <1>6, FS_Union
<1>10. Cardinality(S \cap T) = 0
  BY <1>7, FS_EmptySet
<1>11. 2 ^ n \in Nat
  BY PowerPositive
<1>12. Cardinality(SUBSET (1 .. n + 1)) = 2 ^ n + 2 ^ n
  <2> HIDE DEF S, T, f
  <2>1. Cardinality(S \cup T) = 2 ^ n + 2 ^ n
    BY <1>2, <1>6, <1>9, <1>10, <1>11
  <2> QED BY <1>8, <2>1
<1>13. 2 * 2 ^ n = 2 ^ n + 2 ^ n
  BY <1>11
<1> QED BY <1>4, <1>12, <1>13

(* 2 ^ 0 is 1: the set of the subsets of the empty set has one element.    *)
LEMMA PowerZero == 2 ^ 0 = 1
<1>1. IsFiniteSet({}) /\ Cardinality({}) = 0
  BY FS_EmptySet
<1>2. Cardinality(SUBSET {}) = 2 ^ 0
  BY <1>1, FS_SUBSET
<1>3. SUBSET {} = {{}}
  OBVIOUS
<1>4. Cardinality({{}}) = 1
  BY FS_Singleton
<1> QED BY <1>2, <1>3, <1>4

=============================================================================
