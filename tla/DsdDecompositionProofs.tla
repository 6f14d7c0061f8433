----------------------- MODULE DsdDecompositionProofs -----------------------
(***************************************************************************)
(* Proofs about the decomposition of a LUT, whatever its function and      *)
(* however many inputs it has, in this order:                              *)
(*   - truth tables: what each test says of a function that passes it, and *)
(*     what it leaves of the function (TopSound ... MajSound);             *)
(*   - networks: what a gate computes, and that Built adds it (BuiltFacts);*)
(*   - remainders and waiting calls: what they stand for, and that nothing *)
(*     disturbs them but what they are about (ReadingMerged, FramesKept);  *)
(*   - Invariant, one lemma for each action of Next, and Inductive;        *)
(*   - what the folds Value and Owed compute, and the theorems.            *)
(***************************************************************************)
EXTENDS DsdDecomposition, FoldLemmas

-----------------------------------------------------------------------------
(***************************************************************************)
(* What kitty's operations do at an assignment.                            *)
(***************************************************************************)
(* Cofactors and derivatives look at the two neighbours of an assignment.  *)
LEMMA CofactorPoints ==
  ASSUME NEW f, NEW v \in Vars, NEW b \in Assignments
  PROVE  /\ b \ {v} \in Assignments /\ b \cup {v} \in Assignments
         /\ b \in Cofactor0(f, v) <=> b \ {v} \in f
         /\ b \in Cofactor1(f, v) <=> b \cup {v} \in f
         /\ b \in Derivative(f, v) <=> ~(b \ {v} \in f <=> b \cup {v} \in f)
<1>1. b \ {v} \in Assignments /\ b \cup {v} \in Assignments
  BY DEF Assignments
<1>2. /\ b \in Cofactor0(f, v) <=> b \ {v} \in f
      /\ b \in Cofactor1(f, v) <=> b \cup {v} \in f
  BY DEF Cofactor0, Cofactor1
<1> QED BY <1>1, <1>2 DEF Derivative, Difference

(* A function depends on a variable that it ever distinguishes.            *)
LEMMA HasVarPoints ==
  ASSUME NEW f, NEW v \in Vars
  PROVE  ~HasVar(f, v) <=>
           \A b \in Assignments : b \ {v} \in f <=> b \cup {v} \in f
<1>1. /\ \A b \in Assignments : /\ b \in Cofactor0(f, v) <=> b \ {v} \in f
                                /\ b \in Cofactor1(f, v) <=> b \cup {v} \in f
  BY CofactorPoints
<1>2. Cofactor0(f, v) \subseteq Assignments /\ Cofactor1(f, v) \subseteq Assignments
  BY DEF Cofactor0, Cofactor1
<1> QED BY <1>1, <1>2 DEF HasVar

(* The neighbours of b when two variables change.                          *)
Square(b, x, y, b0, bx, by, bxy) ==
  /\ b0 \in Assignments /\ bx \in Assignments /\ by \in Assignments
  /\ bxy \in Assignments
  /\ b0 \ {x} = b0 /\ bx \ {x} = b0 /\ by \ {x} = by /\ bxy \ {x} = by
  /\ b0 \cup {x} = bx /\ bx \cup {x} = bx /\ by \cup {x} = bxy /\ bxy \cup {x} = bxy
  /\ b0 \ {y} = b0 /\ bx \ {y} = bx /\ by \ {y} = b0 /\ bxy \ {y} = bx
  /\ b0 \cup {y} = by /\ bx \cup {y} = bxy /\ by \cup {y} = by /\ bxy \cup {y} = bxy
  /\ x \notin b0 /\ x \in bx /\ x \notin by /\ x \in bxy
  /\ y \notin b0 /\ y \notin bx /\ y \in by /\ y \in bxy
  /\ b \in {b0, bx, by, bxy}

(* Two variables have four values together.                                *)
LEMMA TwoVariables ==
  ASSUME NEW x \in Vars, NEW y \in Vars,
         x # y, NEW b \in Assignments
  PROVE  \E b0, bx, by, bxy :
           Square(b, x, y, b0, bx, by, bxy)
<1> DEFINE b0 == b \ {x, y}
           bx == b0 \cup {x}
           by == b0 \cup {y}
           bxy == b0 \cup {x, y}
<1>1.
  /\ b0 \in Assignments /\ bx \in Assignments /\ by \in Assignments
  /\ bxy \in Assignments
  BY DEF Assignments
<1>2.
  /\ b0 \ {x} = b0 /\ bx \ {x} = b0 /\ by \ {x} = by /\ bxy \ {x} = by
  OBVIOUS
<1>3.
  /\ b0 \cup {x} = bx /\ bx \cup {x} = bx /\ by \cup {x} = bxy /\ bxy \cup {x} = bxy
  OBVIOUS
<1>4.
  /\ b0 \ {y} = b0 /\ bx \ {y} = bx /\ by \ {y} = b0 /\ bxy \ {y} = bx
  OBVIOUS
<1>5.
  /\ b0 \cup {y} = by /\ bx \cup {y} = bxy /\ by \cup {y} = by /\ bxy \cup {y} = bxy
  OBVIOUS
<1>6.
  /\ x \notin b0 /\ x \in bx /\ x \notin by /\ x \in bxy
  OBVIOUS
<1>7.
  /\ y \notin b0 /\ y \notin bx /\ y \in by /\ y \in bxy
  OBVIOUS
<1>8. b \in {b0, bx, by, bxy}
  <2>1. b = (IF x \in b THEN (IF y \in b THEN bxy
              ELSE bx)
          ELSE (IF y \in b THEN by
              ELSE b0))
    OBVIOUS
  <2> HIDE DEF b0, bx, by, bxy
  <2> QED BY <2>1
<1>9. Square(b, x, y, b0, bx, by, bxy)
  <2> HIDE DEF b0, bx, by, bxy
  <2> QED BY <1>1, <1>2, <1>3, <1>4, <1>5, <1>6, <1>7, <1>8 DEF Square
<1> HIDE DEF b0, bx, by, bxy
<1> QED BY <1>9

(* The neighbours of b when three variables change.                        *)
Cube(b, x, y, z, b0, bx, by, bz, bxy, bxz, byz, bxyz) ==
  /\ b0 \in Assignments /\ bx \in Assignments /\ by \in Assignments
  /\ bz \in Assignments /\ bxy \in Assignments /\ bxz \in Assignments
  /\ byz \in Assignments /\ bxyz \in Assignments
  /\ b0 \ {x} = b0 /\ bx \ {x} = b0 /\ by \ {x} = by /\ bz \ {x} = bz
  /\ bxy \ {x} = by /\ bxz \ {x} = bz /\ byz \ {x} = byz /\ bxyz \ {x} = byz
  /\ b0 \cup {x} = bx /\ bx \cup {x} = bx /\ by \cup {x} = bxy /\ bz \cup {x} = bxz
  /\ bxy \cup {x} = bxy /\ bxz \cup {x} = bxz /\ byz \cup {x} = bxyz /\ bxyz \cup {x} = bxyz
  /\ b0 \ {y} = b0 /\ bx \ {y} = bx /\ by \ {y} = b0 /\ bz \ {y} = bz
  /\ bxy \ {y} = bx /\ bxz \ {y} = bxz /\ byz \ {y} = bz /\ bxyz \ {y} = bxz
  /\ b0 \cup {y} = by /\ bx \cup {y} = bxy /\ by \cup {y} = by /\ bz \cup {y} = byz
  /\ bxy \cup {y} = bxy /\ bxz \cup {y} = bxyz /\ byz \cup {y} = byz /\ bxyz \cup {y} = bxyz
  /\ b0 \ {z} = b0 /\ bx \ {z} = bx /\ by \ {z} = by /\ bz \ {z} = b0
  /\ bxy \ {z} = bxy /\ bxz \ {z} = bx /\ byz \ {z} = by /\ bxyz \ {z} = bxy
  /\ b0 \cup {z} = bz /\ bx \cup {z} = bxz /\ by \cup {z} = byz /\ bz \cup {z} = bz
  /\ bxy \cup {z} = bxyz /\ bxz \cup {z} = bxz /\ byz \cup {z} = byz /\ bxyz \cup {z} = bxyz
  /\ x \notin b0 /\ x \in bx /\ x \notin by /\ x \notin bz
  /\ x \in bxy /\ x \in bxz /\ x \notin byz /\ x \in bxyz
  /\ y \notin b0 /\ y \notin bx /\ y \in by /\ y \notin bz
  /\ y \in bxy /\ y \notin bxz /\ y \in byz /\ y \in bxyz
  /\ z \notin b0 /\ z \notin bx /\ z \notin by /\ z \in bz
  /\ z \notin bxy /\ z \in bxz /\ z \in byz /\ z \in bxyz
  /\ b \in {b0, bx, by, bz, bxy, bxz, byz, bxyz}

(* Three variables have eight.                                             *)
LEMMA ThreeVariables ==
  ASSUME NEW x \in Vars, NEW y \in Vars, NEW z \in Vars,
         x # y, x # z, y # z, NEW b \in Assignments
  PROVE  \E b0, bx, by, bz, bxy, bxz, byz, bxyz :
           Cube(b, x, y, z, b0, bx, by, bz, bxy, bxz, byz, bxyz)
<1> DEFINE b0 == b \ {x, y, z}
           bx == b0 \cup {x}
           by == b0 \cup {y}
           bz == b0 \cup {z}
           bxy == b0 \cup {x, y}
           bxz == b0 \cup {x, z}
           byz == b0 \cup {y, z}
           bxyz == b0 \cup {x, y, z}
<1>1.
  /\ b0 \in Assignments /\ bx \in Assignments /\ by \in Assignments
  /\ bz \in Assignments /\ bxy \in Assignments /\ bxz \in Assignments
  /\ byz \in Assignments /\ bxyz \in Assignments
  BY DEF Assignments
<1>2.
  /\ b0 \ {x} = b0 /\ bx \ {x} = b0 /\ by \ {x} = by /\ bz \ {x} = bz
  /\ bxy \ {x} = by /\ bxz \ {x} = bz /\ byz \ {x} = byz /\ bxyz \ {x} = byz
  OBVIOUS
<1>3.
  /\ b0 \cup {x} = bx /\ bx \cup {x} = bx /\ by \cup {x} = bxy /\ bz \cup {x} = bxz
  /\ bxy \cup {x} = bxy /\ bxz \cup {x} = bxz /\ byz \cup {x} = bxyz /\ bxyz \cup {x} = bxyz
  OBVIOUS
<1>4.
  /\ b0 \ {y} = b0 /\ bx \ {y} = bx /\ by \ {y} = b0 /\ bz \ {y} = bz
  /\ bxy \ {y} = bx /\ bxz \ {y} = bxz /\ byz \ {y} = bz /\ bxyz \ {y} = bxz
  OBVIOUS
<1>5.
  /\ b0 \cup {y} = by /\ bx \cup {y} = bxy /\ by \cup {y} = by /\ bz \cup {y} = byz
  /\ bxy \cup {y} = bxy /\ bxz \cup {y} = bxyz /\ byz \cup {y} = byz /\ bxyz \cup {y} = bxyz
  OBVIOUS
<1>6.
  /\ b0 \ {z} = b0 /\ bx \ {z} = bx /\ by \ {z} = by /\ bz \ {z} = b0
  /\ bxy \ {z} = bxy /\ bxz \ {z} = bx /\ byz \ {z} = by /\ bxyz \ {z} = bxy
  OBVIOUS
<1>7.
  /\ b0 \cup {z} = bz /\ bx \cup {z} = bxz /\ by \cup {z} = byz /\ bz \cup {z} = bz
  /\ bxy \cup {z} = bxyz /\ bxz \cup {z} = bxz /\ byz \cup {z} = byz /\ bxyz \cup {z} = bxyz
  OBVIOUS
<1>8.
  /\ x \notin b0 /\ x \in bx /\ x \notin by /\ x \notin bz
  /\ x \in bxy /\ x \in bxz /\ x \notin byz /\ x \in bxyz
  OBVIOUS
<1>9.
  /\ y \notin b0 /\ y \notin bx /\ y \in by /\ y \notin bz
  /\ y \in bxy /\ y \notin bxz /\ y \in byz /\ y \in bxyz
  OBVIOUS
<1>10.
  /\ z \notin b0 /\ z \notin bx /\ z \notin by /\ z \in bz
  /\ z \notin bxy /\ z \in bxz /\ z \in byz /\ z \in bxyz
  OBVIOUS
<1>11. b \in {b0, bx, by, bz, bxy, bxz, byz, bxyz}
  <2>1. b = (IF x \in b THEN (IF y \in b THEN (IF z \in b THEN bxyz
                  ELSE bxy)
              ELSE (IF z \in b THEN bxz
                  ELSE bx))
          ELSE (IF y \in b THEN (IF z \in b THEN byz
                  ELSE by)
              ELSE (IF z \in b THEN bz
                  ELSE b0)))
    OBVIOUS
  <2> HIDE DEF b0, bx, by, bz, bxy, bxz, byz, bxyz
  <2> QED BY <2>1
<1>12. Cube(b, x, y, z, b0, bx, by, bz, bxy, bxz, byz, bxyz)
  <2> HIDE DEF b0, bx, by, bz, bxy, bxz, byz, bxyz
  <2> QED BY <1>1, <1>2, <1>3, <1>4, <1>5, <1>6, <1>7, <1>8, <1>9, <1>10, <1>11 DEF Cube
<1> HIDE DEF b0, bx, by, bz, bxy, bxz, byz, bxyz
<1> QED BY <1>12

(* What f does not depend on, nothing made of it depends on.               *)
LEMMA IndependenceKept ==
  ASSUME NEW f, NEW g, NEW u \in Vars, NEW v \in Vars, ~HasVar(f, v)
  PROVE  /\ ~HasVar(Cofactor0(f, u), v)
         /\ ~HasVar(Cofactor1(f, u), v)
         /\ ~HasVar(Derivative(f, u), v)
         /\ ~HasVar(g, v) => ~HasVar(Difference(f, g), v)
         /\ ~HasVar(g, v) /\ u # v => ~HasVar(Mux(u, f, g), v)
<1>1. \A b \in Assignments : b \ {v} \in f <=> b \cup {v} \in f
  BY HasVarPoints
<1>2. ASSUME NEW b \in Assignments
      PROVE  /\ b \ {v} \in Cofactor0(f, u) <=> b \cup {v} \in Cofactor0(f, u)
             /\ b \ {v} \in Cofactor1(f, u) <=> b \cup {v} \in Cofactor1(f, u)
  <2>1. b \ {v} \in Assignments /\ b \cup {v} \in Assignments
    BY CofactorPoints
  <2>2. CASE u = v
    <3>1. (b \ {v}) \ {v} = b \ {v} /\ (b \cup {v}) \ {v} = b \ {v}
          /\ (b \ {v}) \cup {v} = b \cup {v} /\ (b \cup {v}) \cup {v} = b \cup {v}
      OBVIOUS
    <3> QED BY <2>1, <2>2, <3>1, CofactorPoints
  <2>3. CASE u # v
    <3>1. (b \ {v}) \ {u} = (b \ {u}) \ {v} /\ (b \cup {v}) \ {u} = (b \ {u}) \cup {v}
          /\ (b \ {v}) \cup {u} = (b \cup {u}) \ {v}
          /\ (b \cup {v}) \cup {u} = (b \cup {u}) \cup {v}
      BY <2>3
    <3>2. b \ {u} \in Assignments /\ b \cup {u} \in Assignments
      BY CofactorPoints
    <3>3. /\ b \ {v} \in Cofactor0(f, u) <=> (b \ {u}) \ {v} \in f
          /\ b \cup {v} \in Cofactor0(f, u) <=> (b \ {u}) \cup {v} \in f
          /\ b \ {v} \in Cofactor1(f, u) <=> (b \cup {u}) \ {v} \in f
          /\ b \cup {v} \in Cofactor1(f, u) <=> (b \cup {u}) \cup {v} \in f
      <4> DEFINE c == b \ {v}
                 d == b \cup {v}
      <4>1. c \in Assignments /\ d \in Assignments
        BY <2>1
      <4> HIDE DEF c, d
      <4>2. /\ c \in Cofactor0(f, u) <=> c \ {u} \in f
            /\ d \in Cofactor0(f, u) <=> d \ {u} \in f
            /\ c \in Cofactor1(f, u) <=> c \cup {u} \in f
            /\ d \in Cofactor1(f, u) <=> d \cup {u} \in f
        BY <4>1, CofactorPoints
      <4>3. c \ {u} = (b \ {u}) \ {v} /\ d \ {u} = (b \ {u}) \cup {v}
            /\ c \cup {u} = (b \cup {u}) \ {v} /\ d \cup {u} = (b \cup {u}) \cup {v}
        BY <3>1 DEF c, d
      <4> QED BY <4>2, <4>3 DEF c, d
    <3> QED BY <1>1, <3>2, <3>3
  <2> QED BY <2>2, <2>3
<1>3. ~HasVar(Cofactor0(f, u), v) /\ ~HasVar(Cofactor1(f, u), v)
  BY <1>2, HasVarPoints
<1>4. ASSUME NEW h, NEW k, ~HasVar(h, v), ~HasVar(k, v)
      PROVE  ~HasVar(Difference(h, k), v)
  <2>1. \A b \in Assignments : /\ b \ {v} \in h <=> b \cup {v} \in h
                               /\ b \ {v} \in k <=> b \cup {v} \in k
    BY <1>4, HasVarPoints
  <2>2. \A b \in Assignments :
          b \ {v} \in Difference(h, k) <=> b \cup {v} \in Difference(h, k)
    BY <2>1 DEF Difference
  <2> QED BY <2>2, HasVarPoints
<1>5. ~HasVar(Derivative(f, u), v)
  BY <1>3, <1>4 DEF Derivative
<1>6. ASSUME ~HasVar(g, v), u # v PROVE ~HasVar(Mux(u, f, g), v)
  <2>1. \A b \in Assignments : /\ b \ {v} \in f <=> b \cup {v} \in f
                               /\ b \ {v} \in g <=> b \cup {v} \in g
    BY <1>1, <1>6, HasVarPoints
  <2>2. \A b \in Assignments : u \in b \ {v} <=> u \in b \cup {v}
    BY <1>6
  <2>3. \A b \in Assignments :
          b \ {v} \in Mux(u, f, g) <=> b \cup {v} \in Mux(u, f, g)
    BY <2>1, <2>2 DEF Mux
  <2> QED BY <2>3, HasVarPoints
<1> QED BY <1>3, <1>4, <1>5, <1>6

(* A cofactor does not depend on its variable.                             *)
LEMMA CofactorIndependent ==
  ASSUME NEW f, NEW v \in Vars
  PROVE  ~HasVar(Cofactor0(f, v), v) /\ ~HasVar(Cofactor1(f, v), v)
         /\ ~HasVar(Derivative(f, v), v) /\ ~HasVar({}, v)
<1>1. ASSUME NEW b \in Assignments
      PROVE  /\ b \ {v} \in Cofactor0(f, v) <=> b \cup {v} \in Cofactor0(f, v)
             /\ b \ {v} \in Cofactor1(f, v) <=> b \cup {v} \in Cofactor1(f, v)
             /\ b \ {v} \in Derivative(f, v) <=> b \cup {v} \in Derivative(f, v)
  <2>1. (b \ {v}) \ {v} = b \ {v} /\ (b \cup {v}) \ {v} = b \ {v}
        /\ (b \ {v}) \cup {v} = b \cup {v} /\ (b \cup {v}) \cup {v} = b \cup {v}
    OBVIOUS
  <2>2. b \ {v} \in Assignments /\ b \cup {v} \in Assignments
    BY CofactorPoints
  <2> QED BY <2>1, <2>2, CofactorPoints
<1> QED BY <1>1, HasVarPoints

-----------------------------------------------------------------------------
(***************************************************************************)
(* Tables.                                                                 *)
(***************************************************************************)
(* What the tables say of the fanins that are 1.                           *)
LEMMA Lookup ==
  /\ \A K \in SUBSET (1 .. 1) : K \in Not1 <=> 1 \notin K
  /\ \A K \in SUBSET (1 .. 2) :
       /\ K \in And2 <=> 1 \in K /\ 2 \in K
       /\ K \in Or2 <=> 1 \in K \/ 2 \in K
       /\ K \in Lt2 <=> 1 \notin K /\ 2 \in K
       /\ K \in Le2 <=> 1 \notin K \/ 2 \in K
       /\ K \in Xor2 <=> ~(1 \in K <=> 2 \in K)
  /\ \A K \in SUBSET (1 .. 3) :
       /\ K \in Ite3 <=> IF 1 \in K THEN 2 \in K ELSE 3 \in K
       /\ K \in Maj3 <=> \/ 1 \in K /\ 2 \in K
                         \/ 1 \in K /\ 3 \in K
                         \/ 2 \in K /\ 3 \in K
<1>1. ASSUME NEW K \in SUBSET (1 .. 1) PROVE K = IF 1 \in K THEN {1} ELSE {}
  <2>1. \A n \in K : n = 1
    OBVIOUS
  <2> QED BY <2>1
<1>2. ASSUME NEW K \in SUBSET (1 .. 2)
      PROVE  K = IF 1 \in K THEN IF 2 \in K THEN {1, 2} ELSE {1}
                             ELSE IF 2 \in K THEN {2} ELSE {}
  <2>1. \A n \in K : n = 1 \/ n = 2
    OBVIOUS
  <2> QED BY <2>1
<1>3. ASSUME NEW K \in SUBSET (1 .. 3)
      PROVE  K = IF 1 \in K
                 THEN IF 2 \in K THEN IF 3 \in K THEN {1, 2, 3} ELSE {1, 2}
                                  ELSE IF 3 \in K THEN {1, 3} ELSE {1}
                 ELSE IF 2 \in K THEN IF 3 \in K THEN {2, 3} ELSE {2}
                                  ELSE IF 3 \in K THEN {3} ELSE {}
  <2>1. \A n \in K : n = 1 \/ n = 2 \/ n = 3
    OBVIOUS
  <2> QED BY <2>1
<1>4. \A K \in SUBSET (1 .. 1) : K \in Not1 <=> 1 \notin K
  BY <1>1 DEF Not1
<1>5. \A K \in SUBSET (1 .. 2) :
       /\ K \in And2 <=> 1 \in K /\ 2 \in K
       /\ K \in Or2 <=> 1 \in K \/ 2 \in K
       /\ K \in Lt2 <=> 1 \notin K /\ 2 \in K
       /\ K \in Le2 <=> 1 \notin K \/ 2 \in K
       /\ K \in Xor2 <=> ~(1 \in K <=> 2 \in K)
  BY <1>2 DEF And2, Or2, Lt2, Le2, Xor2
<1>6. \A K \in SUBSET (1 .. 3) :
       /\ K \in Ite3 <=> IF 1 \in K THEN 2 \in K ELSE 3 \in K
       /\ K \in Maj3 <=> \/ 1 \in K /\ 2 \in K
                         \/ 1 \in K /\ 3 \in K
                         \/ 2 \in K /\ 3 \in K
  BY <1>3 DEF Ite3, Maj3
<1> QED BY <1>4, <1>5, <1>6

-----------------------------------------------------------------------------
(***************************************************************************)
(* The decompositions.  A test that succeeds promises that the remainder   *)
(* f is what is left of it, rest, once the variable kept has the value of  *)
(* a gate of args.  The fanin at position inv is inverted.                 *)
(***************************************************************************)
Put(b, v, on) == IF on THEN b \cup {v} ELSE b \ {v}

Reads(K, b, args, inv) ==
  \A p \in DOMAIN args : p \in K <=> ~(args[p] \in b <=> p = inv)

Merges(f, rest, args, inv, table, kept) ==
  \A b \in Assignments : \A K \in SUBSET DOMAIN args :
    Reads(K, b, args, inv) => (b \in f <=> Put(b, kept, K \in table) \in rest)

Forgets(f, rest, dropped, kept) ==
  \A v \in Vars : v \in dropped \/ (v # kept /\ ~HasVar(f, v)) => ~HasVar(rest, v)

(* Three sets that are one element of a set are equal.                     *)
LEMMA OddOne ==
  ASSUME NEW s1, NEW s2, NEW s3, Cardinality({s1, s2, s3}) = 1
  PROVE  s1 = s2 /\ s2 = s3
<1>1. IsFiniteSet({s1, s2, s3})
  <2>1. IsFiniteSet({s1}) /\ IsFiniteSet({s2}) /\ IsFiniteSet({s3})
    BY FS_Singleton
  <2>2. IsFiniteSet(({s1} \cup {s2}) \cup {s3})
    BY <2>1, FS_Union
  <2>3. {s1, s2, s3} = ({s1} \cup {s2}) \cup {s3}
    OBVIOUS
  <2> QED BY <2>2, <2>3
<1>2. \E x : {s1, s2, s3} = {x}
  BY <1>1, FS_Singleton
<1> QED BY <1>2

(* An operator by which v leaves f at the top.                             *)
LEMMA TopSound ==
  ASSUME NEW f \in SUBSET Assignments, NEW v \in Vars, NEW n \in TopCases(f, v)
  PROVE  LET t == TopTables(f, v)[n]
         IN  /\ t.rest \in SUBSET Assignments /\ t.table \in SUBSET SUBSET (1 .. 2)
             /\ \A b \in Assignments : \A K \in SUBSET (1 .. 2) :
                  (1 \in K <=> v \in b) /\ (2 \in K <=> b \in t.rest) =>
                    (b \in f <=> K \in t.table)
             /\ ~HasVar(t.rest, v)
             /\ \A w \in Vars : ~HasVar(f, w) => ~HasVar(t.rest, w)
<1> DEFINE co0 == Cofactor0(f, v)
           co1 == Cofactor1(f, v)
           Good(table, rest) ==
             /\ rest \in SUBSET Assignments /\ table \in SUBSET SUBSET (1 .. 2)
             /\ \A b \in Assignments : \A K \in SUBSET (1 .. 2) :
                  (1 \in K <=> v \in b) /\ (2 \in K <=> b \in rest) =>
                    (b \in f <=> K \in table)
             /\ ~HasVar(rest, v)
             /\ \A w \in Vars : ~HasVar(f, w) => ~HasVar(rest, w)
<1>1. co0 \in SUBSET Assignments /\ co1 \in SUBSET Assignments
  BY DEF Cofactor0, Cofactor1
<1>2. \A b \in Assignments :
        /\ v \in b => (b \in f <=> b \in co1)
        /\ v \notin b => (b \in f <=> b \in co0)
  <2> SUFFICES ASSUME NEW b \in Assignments
               PROVE  /\ v \in b => (b \in f <=> b \in co1)
                      /\ v \notin b => (b \in f <=> b \in co0)
    OBVIOUS
  <2>1. (v \in b => b \cup {v} = b) /\ (v \notin b => b \ {v} = b)
    OBVIOUS
  <2> QED BY <2>1 DEF Cofactor0, Cofactor1
<1>3. ~HasVar(co0, v) /\ ~HasVar(co1, v)
  BY CofactorIndependent
<1>4. \A w \in Vars : ~HasVar(f, w) => ~HasVar(co0, w) /\ ~HasVar(co1, w)
  BY IndependenceKept
<1>5. \A t \in {And2, Or2, Lt2, Le2, Xor2} : t \in SUBSET SUBSET (1 .. 2)
  BY DEF And2, Or2, Lt2, Le2, Xor2
<1> HIDE DEF co0, co1
<1>6. co0 = {} => Good(And2, co1)
  BY <1>1, <1>2, <1>3, <1>4, <1>5, Lookup
<1>7. co1 = Assignments => Good(Or2, co0)
  BY <1>1, <1>2, <1>3, <1>4, <1>5, Lookup
<1>8. co1 = {} => Good(Lt2, co0)
  BY <1>1, <1>2, <1>3, <1>4, <1>5, Lookup
<1>9. co0 = Assignments => Good(Le2, co1)
  BY <1>1, <1>2, <1>3, <1>4, <1>5, Lookup
<1>10. co0 = Complement(co1) => Good(Xor2, co0)
  <2>1. co0 = Complement(co1) => \A b \in Assignments : b \in co0 <=> b \notin co1
    BY DEF Complement
  <2> QED BY <1>1, <1>2, <1>3, <1>4, <1>5, <2>1, Lookup
<1> DEFINE t == TopTables(f, v)[n]
<1>11. n \in 1 .. 5 /\ t.holds
  BY DEF TopCases
<1> HIDE DEF Good
<1>12. Good(t.table, t.rest)
  <2>1. CASE n = 1
    <3>1. t.table = And2 /\ t.rest = co1 /\ (t.holds <=> co0 = {})
      BY <2>1 DEF TopTables, co0, co1
    <3> QED BY <1>6, <1>11, <3>1
  <2>2. CASE n = 2
    <3>1. t.table = Or2 /\ t.rest = co0 /\ (t.holds <=> co1 = Assignments)
      BY <2>2 DEF TopTables, co0, co1
    <3> QED BY <1>7, <1>11, <3>1
  <2>3. CASE n = 3
    <3>1. t.table = Lt2 /\ t.rest = co0 /\ (t.holds <=> co1 = {})
      BY <2>3 DEF TopTables, co0, co1
    <3> QED BY <1>8, <1>11, <3>1
  <2>4. CASE n = 4
    <3>1. t.table = Le2 /\ t.rest = co1 /\ (t.holds <=> co0 = Assignments)
      BY <2>4 DEF TopTables, co0, co1
    <3> QED BY <1>9, <1>11, <3>1
  <2>5. CASE n = 5
    <3>1. t.table = Xor2 /\ t.rest = co0 /\ (t.holds <=> co0 = Complement(co1))
      BY <2>5 DEF TopTables, co0, co1
    <3> QED BY <1>10, <1>11, <3>1
  <2> QED BY <1>11, <2>1, <2>2, <2>3, <2>4, <2>5
<1> QED BY <1>12 DEF Good

(* A gate of two variables at the bottom.                                  *)
LEMMA BottomSound ==
  ASSUME NEW f \in SUBSET Assignments, NEW x \in Vars, NEW y \in Vars, x # y,
         NEW t \in BottomTables(f, x, y)
  PROVE  /\ t.rest \in SUBSET Assignments /\ t.table \in SUBSET SUBSET (1 .. 2)
         /\ Merges(f, t.rest, <<x, y>>, 0, t.table, x)
         /\ Forgets(f, t.rest, {y}, x)
<1> DEFINE tt00 == Cofactor0(Cofactor0(f, x), y)
           tt01 == Cofactor1(Cofactor0(f, x), y)
           tt10 == Cofactor0(Cofactor1(f, x), y)
           tt11 == Cofactor1(Cofactor1(f, x), y)
           Halves == {tt00, tt01, tt10, tt11}
<1>1. /\ \A g \in Halves : g \in SUBSET Assignments /\ ~HasVar(g, y)
      /\ \A g \in Halves : \A v \in Vars : ~HasVar(f, v) => ~HasVar(g, v)
  <2>1. \A g \in Halves : g \in SUBSET Assignments
    BY DEF Cofactor0, Cofactor1
  <2>2. \A g \in Halves : ~HasVar(g, y)
    BY CofactorIndependent
  <2>3. ASSUME NEW v \in Vars, ~HasVar(f, v) PROVE \A g \in Halves : ~HasVar(g, v)
    <3>1. ~HasVar(Cofactor0(f, x), v) /\ ~HasVar(Cofactor1(f, x), v)
      BY <2>3, IndependenceKept
    <3>2. /\ ~HasVar(tt00, v) /\ ~HasVar(tt01, v)
          /\ ~HasVar(tt10, v) /\ ~HasVar(tt11, v)
      BY <3>1, IndependenceKept
    <3> HIDE DEF tt00, tt01, tt10, tt11
    <3> QED BY <3>2
  <2> HIDE DEF Halves
  <2> QED BY <2>1, <2>2, <2>3
<1>2. ASSUME NEW b \in Assignments
      PROVE  /\ b \in tt00 <=> b \ {x, y} \in f
             /\ b \in tt01 <=> (b \ {x, y}) \cup {y} \in f
             /\ b \in tt10 <=> (b \ {x, y}) \cup {x} \in f
             /\ b \in tt11 <=> (b \ {x, y}) \cup {x, y} \in f
  <2>1. b \ {y} \in Assignments /\ b \cup {y} \in Assignments
    BY CofactorPoints
  <2>2. (b \ {y}) \ {x} = b \ {x, y} /\ (b \cup {y}) \ {x} = (b \ {x, y}) \cup {y}
        /\ (b \ {y}) \cup {x} = (b \ {x, y}) \cup {x}
        /\ (b \cup {y}) \cup {x} = (b \ {x, y}) \cup {x, y}
    OBVIOUS
  <2>3. /\ b \in tt00 <=> b \ {y} \in Cofactor0(f, x)
        /\ b \in tt01 <=> b \cup {y} \in Cofactor0(f, x)
        /\ b \in tt10 <=> b \ {y} \in Cofactor1(f, x)
        /\ b \in tt11 <=> b \cup {y} \in Cofactor1(f, x)
    BY CofactorPoints
  <2>4. /\ b \ {y} \in Cofactor0(f, x) <=> (b \ {y}) \ {x} \in f
        /\ b \cup {y} \in Cofactor0(f, x) <=> (b \cup {y}) \ {x} \in f
        /\ b \ {y} \in Cofactor1(f, x) <=> (b \ {y}) \cup {x} \in f
        /\ b \cup {y} \in Cofactor1(f, x) <=> (b \cup {y}) \cup {x} \in f
    BY <2>1 DEF Cofactor0, Cofactor1
  <2> HIDE DEF tt00, tt01, tt10, tt11
  <2> QED BY <2>2, <2>3, <2>4
<1> DEFINE Good(rest, table) ==
             /\ rest \in SUBSET Assignments /\ table \in SUBSET SUBSET (1 .. 2)
             /\ Merges(f, rest, <<x, y>>, 0, table, x)
             /\ Forgets(f, rest, {y}, x)
<1>3. ASSUME NEW g \in Halves, NEW h \in Halves
      PROVE  Mux(x, g, h) \in SUBSET Assignments /\ Forgets(f, Mux(x, g, h), {y}, x)
  <2> HIDE DEF Halves
  <2>1. Mux(x, g, h) \in SUBSET Assignments
    BY <1>1 DEF Mux
  <2>2. ASSUME NEW v \in Vars, v \in {y} \/ (v # x /\ ~HasVar(f, v))
        PROVE  ~HasVar(Mux(x, g, h), v)
    BY <1>1, <2>2, IndependenceKept
  <2> QED BY <2>1, <2>2 DEF Forgets
<1> HIDE DEF tt00, tt01, tt10, tt11
<1>4. ASSUME NEW b \in Assignments, NEW k \in Halves
      PROVE  (b \cup {x} \in k <=> b \in k) /\ (b \ {x} \in k <=> b \in k)
  <2> DEFINE c == b \cup {x}
             d == b \ {x}
  <2>1. c \in Assignments /\ d \in Assignments
    BY CofactorPoints
  <2>2. c \ {x, y} = b \ {x, y} /\ d \ {x, y} = b \ {x, y}
    OBVIOUS
  <2> HIDE DEF c, d
  <2>3. CASE k = tt00
    BY <1>2, <2>1, <2>2, <2>3 DEF c, d
  <2>4. CASE k = tt01
    BY <1>2, <2>1, <2>2, <2>4 DEF c, d
  <2>5. CASE k = tt10
    BY <1>2, <2>1, <2>2, <2>5 DEF c, d
  <2>6. CASE k = tt11
    BY <1>2, <2>1, <2>2, <2>6 DEF c, d
  <2> QED BY <2>3, <2>4, <2>5, <2>6
<1> DEFINE Tells(table, g, h) ==
             \A b \in Assignments : \A K \in SUBSET (1 .. 2) :
               (1 \in K <=> x \in b) /\ (2 \in K <=> y \in b) =>
                 (b \in f <=> IF K \in table THEN b \in g ELSE b \in h)
<1>5. ASSUME NEW g \in Halves, NEW h \in Halves, NEW table \in SUBSET SUBSET (1 .. 2),
             Tells(table, g, h)
      PROVE  Good(Mux(x, g, h), table)
  <2> HIDE DEF Halves, Tells
  <2>1. ASSUME NEW b \in Assignments, NEW K \in SUBSET DOMAIN <<x, y>>,
               Reads(K, b, <<x, y>>, 0)
        PROVE  b \in f <=> Put(b, x, K \in table) \in Mux(x, g, h)
    <3>1. K \in SUBSET (1 .. 2) /\ (1 \in K <=> x \in b) /\ (2 \in K <=> y \in b)
      <4>1. DOMAIN <<x, y>> = 1 .. 2 /\ <<x, y>>[1] = x /\ <<x, y>>[2] = y
        OBVIOUS
      <4> QED BY <2>1, <4>1 DEF Reads
    <3>2. b \in f <=> IF K \in table THEN b \in g ELSE b \in h
      BY <1>5, <3>1 DEF Tells
    <3>3. CASE K \in table
      <4>1. Put(b, x, K \in table) = b \cup {x}
        BY <3>3 DEF Put
      <4>2. b \cup {x} \in Mux(x, g, h) <=> b \cup {x} \in g
        BY DEF Mux
      <4> QED BY <1>4, <3>2, <3>3, <4>1, <4>2
    <3>4. CASE K \notin table
      <4>1. Put(b, x, K \in table) = b \ {x}
        BY <3>4 DEF Put
      <4>2. b \ {x} \in Mux(x, g, h) <=> b \ {x} \in h
        BY DEF Mux
      <4> QED BY <1>4, <3>2, <3>4, <4>1, <4>2
    <3> QED BY <3>3, <3>4
  <2>2. Merges(f, Mux(x, g, h), <<x, y>>, 0, table, x)
    BY <2>1 DEF Merges
  <2> QED BY <1>3, <2>2
<1>6. \A b \in Assignments :
        b \in f <=> IF x \in b THEN IF y \in b THEN b \in tt11 ELSE b \in tt10
                                ELSE IF y \in b THEN b \in tt01 ELSE b \in tt00
  <2> SUFFICES ASSUME NEW b \in Assignments
               PROVE  b \in f <=> IF x \in b THEN IF y \in b THEN b \in tt11 ELSE b \in tt10
                                             ELSE IF y \in b THEN b \in tt01 ELSE b \in tt00
    OBVIOUS
  <2>1. b = IF x \in b
            THEN IF y \in b THEN (b \ {x, y}) \cup {x, y} ELSE (b \ {x, y}) \cup {x}
            ELSE IF y \in b THEN (b \ {x, y}) \cup {y} ELSE b \ {x, y}
    OBVIOUS
  <2> QED BY <1>2, <2>1
<1>7. /\ Or2 \in SUBSET SUBSET (1 .. 2) /\ Lt2 \in SUBSET SUBSET (1 .. 2)
      /\ Le2 \in SUBSET SUBSET (1 .. 2) /\ And2 \in SUBSET SUBSET (1 .. 2)
  BY DEF And2, Or2, Lt2, Le2
<1>8. tt00 \in Halves /\ tt01 \in Halves /\ tt10 \in Halves /\ tt11 \in Halves
  OBVIOUS
<1> HIDE DEF Halves, Good, Tells
<1>9. tt01 = tt10 /\ tt10 = tt11 => Good(Mux(x, tt11, tt00), Or2)
  <2> SUFFICES ASSUME tt01 = tt10 /\ tt10 = tt11
               PROVE  Good(Mux(x, tt11, tt00), Or2)
    OBVIOUS
  <2>1. Tells(Or2, tt11, tt00)
    BY <1>6, Lookup DEF Tells
  <2> QED BY <1>5, <1>7, <1>8, <2>1
<1>10. tt00 = tt10 /\ tt10 = tt11 => Good(Mux(x, tt01, tt10), Lt2)
  <2> SUFFICES ASSUME tt00 = tt10 /\ tt10 = tt11
               PROVE  Good(Mux(x, tt01, tt10), Lt2)
    OBVIOUS
  <2>1. Tells(Lt2, tt01, tt10)
    BY <1>6, Lookup DEF Tells
  <2> QED BY <1>5, <1>7, <1>8, <2>1
<1>11. tt00 = tt01 /\ tt01 = tt11 => Good(Mux(x, tt01, tt10), Le2)
  <2> SUFFICES ASSUME tt00 = tt01 /\ tt01 = tt11
               PROVE  Good(Mux(x, tt01, tt10), Le2)
    OBVIOUS
  <2>1. Tells(Le2, tt01, tt10)
    BY <1>6, Lookup DEF Tells
  <2> QED BY <1>5, <1>7, <1>8, <2>1
<1>12. tt00 = tt01 /\ tt01 = tt10 => Good(Mux(x, tt11, tt00), And2)
  <2> SUFFICES ASSUME tt00 = tt01 /\ tt01 = tt10
               PROVE  Good(Mux(x, tt11, tt00), And2)
    OBVIOUS
  <2>1. Tells(And2, tt11, tt00)
    BY <1>6, Lookup DEF Tells
  <2> QED BY <1>5, <1>7, <1>8, <2>1
<1>13. Good(t.rest, t.table)
  <2> DEFINE Odd(one, others) == Cardinality(others) = 1 /\ one \notin others
             r1 == [table |-> Or2, rest |-> Mux(x, tt11, tt00),
                    holds |-> Odd(tt00, {tt01, tt10, tt11})]
             r2 == [table |-> Lt2, rest |-> Mux(x, tt01, tt10),
                    holds |-> Odd(tt01, {tt00, tt10, tt11})]
             r3 == [table |-> Le2, rest |-> Mux(x, tt01, tt10),
                    holds |-> Odd(tt10, {tt00, tt01, tt11})]
             r4 == [table |-> And2, rest |-> Mux(x, tt11, tt00),
                    holds |-> Odd(tt11, {tt00, tt01, tt10})]
  <2>1. t \in {r1, r2, r3, r4} /\ t.holds
    BY Zenon DEF BottomTables, tt00, tt01, tt10, tt11
  <2>2. CASE t = r1
    <3>1. t.table = Or2 /\ t.rest = Mux(x, tt11, tt00) /\ Odd(tt00, {tt01, tt10, tt11})
      BY <2>1, <2>2
    <3> QED BY <1>9, <3>1, OddOne
  <2>3. CASE t = r2
    <3>1. t.table = Lt2 /\ t.rest = Mux(x, tt01, tt10) /\ Odd(tt01, {tt00, tt10, tt11})
      BY <2>1, <2>3
    <3> QED BY <1>10, <3>1, OddOne
  <2>4. CASE t = r3
    <3>1. t.table = Le2 /\ t.rest = Mux(x, tt01, tt10) /\ Odd(tt10, {tt00, tt01, tt11})
      BY <2>1, <2>4
    <3> QED BY <1>11, <3>1, OddOne
  <2>5. CASE t = r4
    <3>1. t.table = And2 /\ t.rest = Mux(x, tt11, tt00) /\ Odd(tt11, {tt00, tt01, tt10})
      BY <2>1, <2>5
    <3> QED BY <1>12, <3>1, OddOne
  <2> HIDE DEF r1, r2, r3, r4
  <2> QED BY <2>1, <2>2, <2>3, <2>4, <2>5
<1> QED BY <1>13 DEF Good

(* A xor of two variables at the bottom.                                   *)
LEMMA XorSound ==
  ASSUME NEW f \in SUBSET Assignments, NEW x \in Vars, NEW y \in Vars, x # y,
         XorDecomposes(f, x, y)
  PROVE  /\ XorRest(f, x, y) \in SUBSET Assignments
         /\ Merges(f, XorRest(f, x, y), <<x, y>>, 0, Xor2, x)
         /\ Forgets(f, XorRest(f, x, y), {y}, x)
<1> DEFINE dif == Derivative(f, x)
           off == Cofactor0(Cofactor0(f, x), y)
           rest == XorRest(f, x, y)
<1>1. dif = Derivative(f, y)
  BY DEF XorDecomposes
<1>2. rest \in SUBSET Assignments
  <2>1. dif \in SUBSET Assignments /\ off \in SUBSET Assignments
    BY DEF Derivative, Difference, Cofactor0, Cofactor1
  <2>2. Mux(x, dif, {}) \in SUBSET Assignments
    <3> HIDE DEF dif
    <3> QED BY <2>1 DEF Mux
  <2> HIDE DEF dif, off
  <2> QED BY <2>1, <2>2 DEF XorRest, Difference, dif, off
<1>3. ASSUME NEW c \in Assignments
      PROVE  c \in rest <=> ~(x \in c /\ c \in dif <=> (c \ {y}) \ {x} \in f)
  <2>1. c \in off <=> (c \ {y}) \ {x} \in f
    <3>1. c \ {y} \in Assignments
      BY CofactorPoints
    <3> QED BY <3>1 DEF Cofactor0
  <2>2. c \in Mux(x, dif, {}) <=> x \in c /\ c \in dif
    BY DEF Mux, Derivative, Difference, Cofactor0, Cofactor1
  <2> HIDE DEF dif, off
  <2> QED BY <2>1, <2>2 DEF XorRest, Difference, dif, off
<1>4. ASSUME NEW b \in Assignments, NEW K \in SUBSET DOMAIN <<x, y>>,
             Reads(K, b, <<x, y>>, 0)
      PROVE  b \in f <=> Put(b, x, K \in Xor2) \in rest
  <2>1. K \in SUBSET (1 .. 2) /\ (1 \in K <=> x \in b) /\ (2 \in K <=> y \in b)
    <3>1. DOMAIN <<x, y>> = 1 .. 2 /\ <<x, y>>[1] = x /\ <<x, y>>[2] = y
      OBVIOUS
    <3> QED BY <1>4, <3>1 DEF Reads
  <2>2. K \in Xor2 <=> ~(x \in b <=> y \in b)
    BY <2>1, Lookup
  <2>3. PICK b0, bx, by, bxy : Square(b, x, y, b0, bx, by, bxy)
    BY TwoVariables
  <2> HIDE DEF rest, dif
  <2>4. /\ bx \in dif <=> ~(b0 \in f <=> bx \in f)
        /\ bxy \in dif <=> ~(by \in f <=> bxy \in f)
    BY <2>3, CofactorPoints DEF dif, Square
  <2>5. /\ bx \in dif <=> ~(bx \in f <=> bxy \in f)
        /\ bxy \in dif <=> ~(bx \in f <=> bxy \in f)
    BY <1>1, <2>3, CofactorPoints DEF Square
  <2>6. /\ b0 \in rest <=> b0 \in f
        /\ by \in rest <=> b0 \in f
        /\ bx \in rest <=> ~(bx \in dif <=> b0 \in f)
        /\ bxy \in rest <=> ~(bxy \in dif <=> b0 \in f)
    BY <1>3, <2>3 DEF Square
  <2> QED BY <2>2, <2>3, <2>4, <2>5, <2>6 DEF Put, Square
<1>5. ASSUME NEW v \in Vars, v = y \/ (v # x /\ ~HasVar(f, v))
      PROVE  ~HasVar(rest, v)
  <2>1. ~HasVar(dif, v) /\ v # x
    BY <1>1, <1>5, CofactorIndependent, IndependenceKept
  <2>2. ~HasVar({}, v)
    BY CofactorIndependent
  <2>3. ~HasVar(Mux(x, dif, {}), v)
    BY <2>1, <2>2, IndependenceKept
  <2>4. ~HasVar(off, v)
    BY <1>5, CofactorIndependent, IndependenceKept
  <2> HIDE DEF dif, off
  <2> QED BY <2>3, <2>4, IndependenceKept DEF XorRest, dif, off
<1> HIDE DEF rest
<1> QED BY <1>2, <1>4, <1>5 DEF Merges, Forgets, rest

(* A multiplexer of three variables at the bottom.                         *)
LEMMA MuxSound ==
  ASSUME NEW f \in SUBSET Assignments, NEW s \in Vars, NEW x \in Vars, NEW y \in Vars,
         s # x, s # y, x # y, MuxDecomposes(f, s, x, y)
  PROVE  /\ MuxRest(f, s, x, y) \in SUBSET Assignments
         /\ Merges(f, MuxRest(f, s, x, y), <<s, y, x>>, 0, Ite3, s)
         /\ Forgets(f, MuxRest(f, s, x, y), {x, y}, s)
<1> DEFINE difx == Derivative(f, x)
           dify == Derivative(f, y)
           on == Cofactor0(difx, s)
           off == Cofactor0(Cofactor0(f, x), y)
           both == Cofactor1(Cofactor1(f, x), y)
           rest == MuxRest(f, s, x, y)
<1>1. /\ Cofactor1(difx, s) = {}
      /\ Cofactor0(dify, s) = {}
      /\ ~HasVar(difx, y)
      /\ ~HasVar(off, s)
      /\ ~HasVar(both, s)
  BY DEF MuxDecomposes
<1>2. on \in SUBSET Assignments /\ off \in SUBSET Assignments
  BY DEF Cofactor0
<1>3. rest = Difference(Mux(s, on, {}), off)
  BY DEF MuxRest
<1> HIDE DEF rest
<1>4. rest \in SUBSET Assignments
  <2> HIDE DEF on, off
  <2>1. Mux(s, on, {}) \in SUBSET Assignments
    BY <1>2 DEF Mux
  <2> QED BY <1>2, <1>3, <2>1 DEF Difference
<1>5. ASSUME NEW c \in Assignments
      PROVE  c \in off <=> (c \ {y}) \ {x} \in f
  <2>1. c \ {y} \in Assignments
    BY CofactorPoints
  <2> QED BY <2>1 DEF Cofactor0
<1>6. ASSUME NEW c \in Assignments
      PROVE  c \in both <=> (c \cup {y}) \cup {x} \in f
  <2>1. c \cup {y} \in Assignments
    BY CofactorPoints
  <2> QED BY <2>1 DEF Cofactor1
<1>7. ASSUME NEW c \in Assignments
      PROVE  c \in rest <=> ~(s \in c /\ c \ {s} \in difx <=> c \in off)
  <2>1. c \in on <=> c \ {s} \in difx
    BY DEF Cofactor0
  <2>2. c \in Mux(s, on, {}) <=> s \in c /\ c \in on
    BY DEF Mux
  <2> HIDE DEF on, off, difx
  <2> QED BY <1>3, <2>1, <2>2 DEF Difference
<1>8. ASSUME NEW c \in Assignments
      PROVE  /\ c \cup {s} \notin difx
             /\ c \ {s} \notin dify
             /\ c \ {s} \in off <=> c \cup {s} \in off
             /\ c \ {s} \in both <=> c \cup {s} \in both
  <2> HIDE DEF difx, dify, off, both
  <2>1. c \cup {s} \notin difx
    BY <1>1 DEF Cofactor1
  <2>2. c \ {s} \notin dify
    BY <1>1 DEF Cofactor0
  <2> QED BY <1>1, <2>1, <2>2, HasVarPoints
<1>9. ASSUME NEW b \in Assignments, NEW K \in SUBSET DOMAIN <<s, y, x>>,
             Reads(K, b, <<s, y, x>>, 0)
      PROVE  b \in f <=> Put(b, s, K \in Ite3) \in rest
  <2>1. K \in SUBSET (1 .. 3) /\ (1 \in K <=> s \in b) /\ (2 \in K <=> y \in b)
        /\ (3 \in K <=> x \in b)
    <3>1. /\ DOMAIN <<s, y, x>> = 1 .. 3
          /\ <<s, y, x>>[1] = s /\ <<s, y, x>>[2] = y /\ <<s, y, x>>[3] = x
      OBVIOUS
    <3> QED BY <1>9, <3>1 DEF Reads
  <2>2. K \in Ite3 <=> IF s \in b THEN y \in b ELSE x \in b
    BY <2>1, Lookup
  <2>3. PICK b0, bs, bx, by, bsx, bsy, bxy, bsxy :
          Cube(b, s, x, y, b0, bs, bx, by, bsx, bsy, bxy, bsxy)
    BY ThreeVariables
  <2> HIDE DEF difx, dify, off, both
  <2>4. /\ b0 \in difx <=> ~(b0 \in f <=> bx \in f)
        /\ by \in difx <=> ~(by \in f <=> bxy \in f)
        /\ bs \in difx <=> ~(bs \in f <=> bsx \in f)
        /\ bsy \in difx <=> ~(bsy \in f <=> bsxy \in f)
        /\ bx \in difx <=> ~(b0 \in f <=> bx \in f)
        /\ bxy \in difx <=> ~(by \in f <=> bxy \in f)
    <3>1. \A c \in Assignments : c \in difx <=> ~(c \ {x} \in f <=> c \cup {x} \in f)
      BY CofactorPoints DEF difx
    <3> QED BY <2>3, <3>1 DEF Cube
  <2>5. /\ b0 \in dify <=> ~(b0 \in f <=> by \in f)
        /\ bx \in dify <=> ~(bx \in f <=> bxy \in f)
    BY <2>3, CofactorPoints DEF dify, Cube
  <2>6. /\ bs \notin difx /\ bsy \notin difx
        /\ b0 \notin dify /\ bx \notin dify
        /\ b0 \in off <=> bs \in off
        /\ b0 \in both <=> bs \in both
    <3>1. /\ bs = b0 \cup {s} /\ bsy = by \cup {s} /\ b0 = b0 \ {s} /\ bx = bx \ {s}
          /\ b0 \in Assignments /\ bx \in Assignments /\ by \in Assignments
      BY <2>3 DEF Cube
    <3>2. ASSUME NEW c \in Assignments, NEW d, d = c \cup {s} PROVE d \notin difx
      BY <1>8, <3>2
    <3>3. ASSUME NEW c \in Assignments, c = c \ {s} PROVE c \notin dify
      BY <1>8, <3>3
    <3>4. ASSUME NEW c \in Assignments, NEW d, d = c \cup {s}, c = c \ {s}
          PROVE  (c \in off <=> d \in off) /\ (c \in both <=> d \in both)
      BY <1>8, <3>4
    <3> QED BY <3>1, <3>2, <3>3, <3>4
  <2>7. /\ b0 \in off <=> b0 \in f
        /\ bx \in off <=> b0 \in f
        /\ by \in off <=> b0 \in f
        /\ bxy \in off <=> b0 \in f
        /\ bs \in off <=> bs \in f
        /\ bsx \in off <=> bs \in f
        /\ bsy \in off <=> bs \in f
        /\ bsxy \in off <=> bs \in f
        /\ b0 \in both <=> bxy \in f
        /\ bs \in both <=> bsxy \in f
    BY <1>5, <1>6, <2>3 DEF Cube
  <2>8. /\ bs \in rest <=> ~(b0 \in difx <=> bs \in off)
        /\ bsx \in rest <=> ~(bx \in difx <=> bsx \in off)
        /\ bsy \in rest <=> ~(by \in difx <=> bsy \in off)
        /\ bsxy \in rest <=> ~(bxy \in difx <=> bsxy \in off)
        /\ b0 \in rest <=> b0 \in off
        /\ bx \in rest <=> bx \in off
        /\ by \in rest <=> by \in off
        /\ bxy \in rest <=> bxy \in off
    <3>1. /\ b0 = bs \ {s} /\ bx = bsx \ {s} /\ by = bsy \ {s} /\ bxy = bsxy \ {s}
          /\ s \in bs /\ s \in bsx /\ s \in bsy /\ s \in bsxy
          /\ s \notin b0 /\ s \notin bx /\ s \notin by /\ s \notin bxy
          /\ b0 \in Assignments /\ bx \in Assignments /\ by \in Assignments
          /\ bxy \in Assignments /\ bs \in Assignments /\ bsx \in Assignments
          /\ bsy \in Assignments /\ bsxy \in Assignments
      BY <2>3 DEF Cube
    <3>2. ASSUME NEW c \in Assignments, NEW d \in Assignments, d = c \ {s}, s \in c
          PROVE  c \in rest <=> ~(d \in difx <=> c \in off)
      BY <1>7, <3>2
    <3>3. ASSUME NEW c \in Assignments, s \notin c
          PROVE  c \in rest <=> c \in off
      BY <1>7, <3>3
    <3> HIDE DEF rest
    <3> QED BY <3>1, <3>2, <3>3
  <2>9. /\ by \in f <=> b0 \in f
        /\ bs \in f <=> b0 \in f
        /\ bsx \in f <=> b0 \in f
        /\ bxy \in f <=> bx \in f
        /\ bsy \in f <=> bx \in f
        /\ bsxy \in f <=> bx \in f
    BY <2>4, <2>5, <2>6, <2>7
  <2>10. /\ \A c \in {b0, bx, by, bxy} : c \in rest <=> b0 \in f
         /\ \A c \in {bs, bsx, bsy, bsxy} : c \in rest <=> bx \in f
    BY <2>4, <2>7, <2>8, <2>9
  <2> HIDE DEF rest
  <2>11. /\ b \in {b0, bs} => ~(K \in Ite3) /\ (b \in f <=> b0 \in f)
         /\ b \in {by, bsx} => ~(K \in Ite3) /\ (b \in f <=> b0 \in f)
         /\ b \in {bx, bsy} => K \in Ite3 /\ (b \in f <=> bx \in f)
         /\ b \in {bxy, bsxy} => K \in Ite3 /\ (b \in f <=> bx \in f)
    BY <2>2, <2>3, <2>9 DEF Cube
  <2>12. b \ {s} \in {b0, bx, by, bxy} /\ b \cup {s} \in {bs, bsx, bsy, bsxy}
    BY <2>3 DEF Cube
  <2>13. CASE K \in Ite3
    <3>1. Put(b, s, K \in Ite3) = b \cup {s}
      BY <2>13 DEF Put
    <3>2. b \in f <=> bx \in f
      BY <2>3, <2>11, <2>13 DEF Cube
    <3> QED BY <2>10, <2>12, <3>1, <3>2
  <2>14. CASE ~(K \in Ite3)
    <3>1. Put(b, s, K \in Ite3) = b \ {s}
      BY <2>14 DEF Put
    <3>2. b \in f <=> b0 \in f
      BY <2>3, <2>11, <2>14 DEF Cube
    <3> QED BY <2>10, <2>12, <3>1, <3>2
  <2> QED BY <2>13, <2>14
<1>10. ASSUME NEW v \in Vars, v \in {x, y} \/ (v # s /\ ~HasVar(f, v))
       PROVE  ~HasVar(rest, v)
  <2>1. ~HasVar(difx, v) /\ v # s
    BY <1>1, <1>10, CofactorIndependent, IndependenceKept
  <2>2. ~HasVar({}, v)
    BY CofactorIndependent
  <2>3. ~HasVar(on, v)
    <3> HIDE DEF difx
    <3> QED BY <2>1, IndependenceKept
  <2>4. ~HasVar(Mux(s, on, {}), v)
    <3> HIDE DEF on
    <3> QED BY <2>1, <2>2, <2>3, IndependenceKept
  <2>5. ~HasVar(Cofactor0(f, x), v) \/ v = y
    BY <1>10, CofactorIndependent, IndependenceKept
  <2>6. ~HasVar(off, v)
    <3> DEFINE g == Cofactor0(f, x)
    <3>1. CASE v = y
      BY <3>1, CofactorIndependent
    <3>2. CASE v # y
      <4>1. ~HasVar(g, v)
        BY <2>5, <3>2
      <4> HIDE DEF g
      <4> QED BY <4>1, IndependenceKept DEF g
    <3> QED BY <3>1, <3>2
  <2> HIDE DEF on, off
  <2> QED BY <1>3, <2>4, <2>6, IndependenceKept
<1> QED BY <1>4, <1>9, <1>10 DEF Merges, Forgets, rest

(* The cofactors the majority test looks at.                               *)
MajTest(f, x, y, z, n) ==
  LET dx == Cofactor0(Cofactor0(Derivative(f, x), y), z)
      dy == Cofactor0(Cofactor0(Derivative(f, y), x), z)
      dz == Cofactor0(Cofactor0(Derivative(f, z), x), y)
  IN /\ Derivative(Derivative(f, x), y) = Assignments
     /\ Derivative(Derivative(f, x), z) = Assignments
     /\ Derivative(Derivative(f, y), z) = Assignments
     /\ dx = IF n \in {0, 1} THEN {} ELSE Assignments
     /\ dy = IF n \in {0, 2} THEN {} ELSE Assignments
     /\ dz = IF n \in {0, 3} THEN {} ELSE Assignments

(* The majority test says which case it is.                                *)
LEMMA MajCases ==
  ASSUME NEW f, NEW x \in Vars, NEW y \in Vars, NEW z \in Vars,
         MajCase(f, x, y, z) # -1
  PROVE  /\ MajCase(f, x, y, z) \in 0 .. 3
         /\ MajTest(f, x, y, z, MajCase(f, x, y, z))
<1> DEFINE dx == Cofactor0(Cofactor0(Derivative(f, x), y), z)
           dy == Cofactor0(Cofactor0(Derivative(f, y), x), z)
           dz == Cofactor0(Cofactor0(Derivative(f, z), x), y)
           Twice == /\ Derivative(Derivative(f, x), y) = Assignments
                    /\ Derivative(Derivative(f, x), z) = Assignments
                    /\ Derivative(Derivative(f, y), z) = Assignments
           n == MajCase(f, x, y, z)
<1>1. n = CASE Twice /\ dx = {} /\ dy = {} /\ dz = {} -> 0
            [] Twice /\ dx = {} /\ dy = Assignments /\ dz = Assignments -> 1
            [] Twice /\ dx = Assignments /\ dy = {} /\ dz = Assignments -> 2
            [] Twice /\ dx = Assignments /\ dy = Assignments /\ dz = {} -> 3
            [] OTHER -> -1
  BY Zenon DEF MajCase
<1>2. {} \in Assignments
  BY DEF Assignments
<1>3. \A m \in 0 .. 3 :
        MajTest(f, x, y, z, m) <=>
          /\ Twice
          /\ dx = IF m \in {0, 1} THEN {} ELSE Assignments
          /\ dy = IF m \in {0, 2} THEN {} ELSE Assignments
          /\ dz = IF m \in {0, 3} THEN {} ELSE Assignments
  BY Zenon DEF MajTest
<1> HIDE DEF dx, dy, dz, n, Twice
<1>4. n # -1
  BY DEF n
<1>5. Twice
  BY <1>1, <1>4
<1>6. CASE dx = {} /\ dy = {} /\ dz = {}
  <2>1. n = 0
    BY <1>1, <1>2, <1>5, <1>6
  <2> QED BY <1>3, <1>5, <1>6, <2>1 DEF n
<1>7. CASE dx = {} /\ dy = Assignments /\ dz = Assignments
  <2>1. n = 1
    BY <1>1, <1>2, <1>5, <1>7
  <2> QED BY <1>3, <1>5, <1>7, <2>1 DEF n
<1>8. CASE dx = Assignments /\ dy = {} /\ dz = Assignments
  <2>1. n = 2
    BY <1>1, <1>2, <1>5, <1>8
  <2> QED BY <1>3, <1>5, <1>8, <2>1 DEF n
<1>9. CASE dx = Assignments /\ dy = Assignments /\ dz = {}
  <2>1. n = 3
    BY <1>1, <1>2, <1>5, <1>9
  <2> QED BY <1>3, <1>5, <1>9, <2>1 DEF n
<1> QED BY <1>1, <1>4, <1>5, <1>6, <1>7, <1>8, <1>9

(* f at an assignment and at those that differ from it in some of three    *)
(* variables; n says which one is inverted.                                *)
MajValues(f, n, b0, bx, by, bz, bxy, bxz, byz, bxyz) ==
  /\ (bx \in f <=> b0 \in f) <=> n \in {0, 1}
  /\ (by \in f <=> b0 \in f) <=> n \in {0, 2}
  /\ (bz \in f <=> b0 \in f) <=> n \in {0, 3}
  /\ (bxy \in f <=> b0 \in f) <=> n \in {1, 2}
  /\ (bxz \in f <=> b0 \in f) <=> n \in {1, 3}
  /\ (byz \in f <=> b0 \in f) <=> n \in {2, 3}
  /\ ~(bxyz \in f <=> b0 \in f)

(* A majority of three variables, seen from an assignment.                 *)
LEMMA MajPoints ==
  ASSUME NEW f, NEW x \in Vars, NEW y \in Vars, NEW z \in Vars,
         NEW n \in 0 .. 3, MajTest(f, x, y, z, n), NEW b,
         NEW b0, NEW bx, NEW by, NEW bz, NEW bxy, NEW bxz, NEW byz, NEW bxyz,
         Cube(b, x, y, z, b0, bx, by, bz, bxy, bxz, byz, bxyz)
  PROVE  MajValues(f, n, b0, bx, by, bz, bxy, bxz, byz, bxyz)
<1> DEFINE Dx == Derivative(f, x)
           Dy == Derivative(f, y)
           Dz == Derivative(f, z)
<1>1. /\ Derivative(Dx, y) = Assignments
      /\ Derivative(Dx, z) = Assignments
      /\ Derivative(Dy, z) = Assignments
      /\ Cofactor0(Cofactor0(Dx, y), z) = IF n \in {0, 1} THEN {} ELSE Assignments
      /\ Cofactor0(Cofactor0(Dy, x), z) = IF n \in {0, 2} THEN {} ELSE Assignments
      /\ Cofactor0(Cofactor0(Dz, x), y) = IF n \in {0, 3} THEN {} ELSE Assignments
  BY Zenon DEF MajTest
<1>2. \A c \in Assignments :
        /\ c \in Dx <=> ~(c \ {x} \in f <=> c \cup {x} \in f)
        /\ c \in Dy <=> ~(c \ {y} \in f <=> c \cup {y} \in f)
        /\ c \in Dz <=> ~(c \ {z} \in f <=> c \cup {z} \in f)
  BY CofactorPoints
<1> HIDE DEF Dx, Dy, Dz
<1>3. \A c \in Assignments :
        /\ ~(c \ {y} \in Dx <=> c \cup {y} \in Dx)
        /\ ~(c \ {z} \in Dx <=> c \cup {z} \in Dx)
        /\ ~(c \ {z} \in Dy <=> c \cup {z} \in Dy)
  BY <1>1, CofactorPoints
<1>4. \A c \in Assignments :
        /\ c \in Cofactor0(Cofactor0(Dx, y), z) <=> (c \ {z}) \ {y} \in Dx
        /\ c \in Cofactor0(Cofactor0(Dy, x), z) <=> (c \ {z}) \ {x} \in Dy
        /\ c \in Cofactor0(Cofactor0(Dz, x), y) <=> (c \ {y}) \ {x} \in Dz
  <2> SUFFICES ASSUME NEW c \in Assignments
               PROVE  /\ c \in Cofactor0(Cofactor0(Dx, y), z) <=> (c \ {z}) \ {y} \in Dx
                      /\ c \in Cofactor0(Cofactor0(Dy, x), z) <=> (c \ {z}) \ {x} \in Dy
                      /\ c \in Cofactor0(Cofactor0(Dz, x), y) <=> (c \ {y}) \ {x} \in Dz
    OBVIOUS
  <2>1. c \ {z} \in Assignments /\ c \ {y} \in Assignments
    BY CofactorPoints
  <2> QED BY <2>1 DEF Cofactor0
<1>5. /\ b0 \in Assignments /\ bx \in Assignments /\ by \in Assignments
      /\ bz \in Assignments /\ byz \in Assignments /\ bxz \in Assignments
      /\ bxy \in Assignments
  BY DEF Cube
<1>6. /\ b0 \in Dx <=> ~(b0 \in f <=> bx \in f)
      /\ by \in Dx <=> ~(by \in f <=> bxy \in f)
      /\ bz \in Dx <=> ~(bz \in f <=> bxz \in f)
      /\ byz \in Dx <=> ~(byz \in f <=> bxyz \in f)
      /\ b0 \in Dy <=> ~(b0 \in f <=> by \in f)
      /\ bz \in Dy <=> ~(bz \in f <=> byz \in f)
      /\ b0 \in Dz <=> ~(b0 \in f <=> bz \in f)
  <2>1. ASSUME NEW c, NEW lo, NEW hi, NEW v \in {x, y, z}, c \in Assignments,
               c \ {v} = lo, c \cup {v} = hi
        PROVE  c \in Derivative(f, v) <=> ~(lo \in f <=> hi \in f)
    BY <2>1, CofactorPoints
  <2>2. /\ b0 \ {x} = b0 /\ b0 \cup {x} = bx /\ by \ {x} = by /\ by \cup {x} = bxy
        /\ bz \ {x} = bz /\ bz \cup {x} = bxz /\ byz \ {x} = byz /\ byz \cup {x} = bxyz
        /\ b0 \ {y} = b0 /\ b0 \cup {y} = by /\ bz \ {y} = bz /\ bz \cup {y} = byz
        /\ b0 \ {z} = b0 /\ b0 \cup {z} = bz
    BY DEF Cube
  <2> QED BY <1>5, <2>1, <2>2 DEF Dx, Dy, Dz
<1>7. /\ ~(b0 \in Dx <=> by \in Dx)
      /\ ~(bz \in Dx <=> byz \in Dx)
      /\ ~(b0 \in Dx <=> bz \in Dx)
      /\ ~(b0 \in Dy <=> bz \in Dy)
  <2>1. /\ b0 \ {y} = b0 /\ b0 \cup {y} = by /\ bz \ {y} = bz /\ bz \cup {y} = byz
        /\ b0 \ {z} = b0 /\ b0 \cup {z} = bz
    BY DEF Cube
  <2>2. ~(b0 \ {y} \in Dx <=> b0 \cup {y} \in Dx)
    BY <1>3, <1>5
  <2>3. ~(bz \ {y} \in Dx <=> bz \cup {y} \in Dx)
    BY <1>3, <1>5
  <2>4. /\ ~(b0 \ {z} \in Dx <=> b0 \cup {z} \in Dx)
        /\ ~(b0 \ {z} \in Dy <=> b0 \cup {z} \in Dy)
    BY <1>3, <1>5
  <2> QED BY <2>1, <2>2, <2>3, <2>4
<1>8. /\ b0 \in Dx <=> ~(n \in {0, 1})
      /\ b0 \in Dy <=> ~(n \in {0, 2})
      /\ b0 \in Dz <=> ~(n \in {0, 3})
  <2>1. b0 \ {x} = b0 /\ b0 \ {y} = b0 /\ b0 \ {z} = b0
    BY DEF Cube
  <2>2. /\ b0 \in Cofactor0(Cofactor0(Dx, y), z) <=> (b0 \ {z}) \ {y} \in Dx
        /\ b0 \in Cofactor0(Cofactor0(Dy, x), z) <=> (b0 \ {z}) \ {x} \in Dy
        /\ b0 \in Cofactor0(Cofactor0(Dz, x), y) <=> (b0 \ {y}) \ {x} \in Dz
    BY <1>4, <1>5
  <2> QED BY <1>1, <1>5, <2>1, <2>2
<1>9. n = 0 \/ n = 1 \/ n = 2 \/ n = 3
  OBVIOUS
<1> QED BY <1>6, <1>7, <1>8, <1>9 DEF MajValues

(* A majority of three variables, one of them inverted or none.            *)
LEMMA MajSound ==
  ASSUME NEW f \in SUBSET Assignments, NEW x \in Vars, NEW y \in Vars, NEW z \in Vars,
         x # y, x # z, y # z, MajCase(f, x, y, z) # -1
  PROVE  /\ MajRest(f, x, y, z) \in SUBSET Assignments
         /\ Merges(f, MajRest(f, x, y, z), <<x, y, z>>, MajCase(f, x, y, z), Maj3, x)
         /\ Forgets(f, MajRest(f, x, y, z), {y, z}, x)
<1> DEFINE n == MajCase(f, x, y, z)
           rest == MajRest(f, x, y, z)
           on == CASE n \in {0, 1} -> Cofactor1(Cofactor0(Derivative(f, x), y), z)
                   [] n = 2 -> Cofactor0(Cofactor1(Derivative(f, y), x), z)
                   [] n = 3 -> Cofactor0(Cofactor1(Derivative(f, z), x), y)
           off == CASE n \in {0, 3} -> Cofactor0(Cofactor0(f, x), y)
                    [] n = 1 -> Cofactor0(Cofactor0(f, y), z)
                    [] n = 2 -> Cofactor0(Cofactor0(f, x), z)
<1>1. rest = Difference(Mux(x, on, {}), off)
  BY Zenon DEF MajRest
<1>2. n \in 0 .. 3 /\ MajTest(f, x, y, z, n)
  BY MajCases
<1> HIDE DEF n, rest
<1>3. n = 0 \/ n = 1 \/ n = 2 \/ n = 3
  BY <1>2
<1>4. ASSUME NEW c \in Assignments
      PROVE  c \in on /\ (c \in off <=> c \ {x, y, z} \in f)
  <2>1. PICK b0, bx, by, bz, bxy, bxz, byz, bxyz :
          Cube(c, x, y, z, b0, bx, by, bz, bxy, bxz, byz, bxyz)
    BY ThreeVariables
  <2>2. MajValues(f, n, b0, bx, by, bz, bxy, bxz, byz, bxyz)
    BY <1>2, <2>1, MajPoints
  <2>3. c \ {x, y, z} = b0
    <3>1. c \ {x, y, z} = ((c \ {x}) \ {y}) \ {z}
      OBVIOUS
    <3>2. ((c \ {x}) \ {y}) \ {z} = b0
      BY <2>1 DEF Cube
    <3> QED BY <3>1, <3>2
  <2>4. ASSUME NEW g, NEW u \in Vars, NEW v \in Vars
        PROVE  /\ c \in Cofactor1(Cofactor0(g, u), v) <=> (c \cup {v}) \ {u} \in g
               /\ c \in Cofactor0(Cofactor1(g, u), v) <=> (c \ {v}) \cup {u} \in g
               /\ c \in Cofactor0(Cofactor0(g, u), v) <=> (c \ {v}) \ {u} \in g
    <3>1. c \ {v} \in Assignments /\ c \cup {v} \in Assignments
      BY CofactorPoints
    <3> QED BY <3>1 DEF Cofactor0, Cofactor1
  <2>6. ASSUME NEW d, NEW lo, NEW hi, NEW v \in {x, y, z}, d \in Assignments,
               d \ {v} = lo, d \cup {v} = hi
        PROVE  d \in Derivative(f, v) <=> ~(lo \in f <=> hi \in f)
    BY <2>6, CofactorPoints
  <2>7. CASE n \in {0, 1}
    <3>1. on = Cofactor1(Cofactor0(Derivative(f, x), y), z)
      BY <2>7
    <3>2. (c \cup {z}) \ {y} \in {bz, bxz}
      BY <2>1 DEF Cube
    <3>3. /\ bz \in Assignments /\ bz \ {x} = bz /\ bz \cup {x} = bxz
          /\ bxz \in Assignments /\ bxz \ {x} = bz /\ bxz \cup {x} = bxz
      BY <2>1 DEF Cube
    <3>4. ~(bz \in f <=> bxz \in f)
      BY <2>2, <2>7 DEF MajValues
    <3>5. bz \in Derivative(f, x) /\ bxz \in Derivative(f, x)
      BY <2>6, <3>3, <3>4
    <3>6. c \in on
      <4>1. c \in Cofactor1(Cofactor0(Derivative(f, x), y), z) <=> (c \cup {z}) \ {y} \in Derivative(f, x)
        BY <2>4
      <4> HIDE DEF on, off
      <4> QED BY <4>1, <3>1, <3>2, <3>5
    <3>7. CASE n = 0
      <4>1. off = Cofactor0(Cofactor0(f, x), y)
        BY <3>7
      <4>2. (c \ {y}) \ {x} \in {b0, bz}
        BY <2>1 DEF Cube
      <4>3. b0 \in f <=> bz \in f
        BY <2>2, <3>7 DEF MajValues
      <4>4. c \in off <=> b0 \in f
        <5>1. c \in Cofactor0(Cofactor0(f, x), y) <=> (c \ {y}) \ {x} \in f
          BY <2>4
        <5> HIDE DEF on, off
        <5> QED BY <5>1, <4>1, <4>2, <4>3
      <4> QED BY <2>3, <3>6, <4>4
    <3>8. CASE n = 1
      <4>1. off = Cofactor0(Cofactor0(f, y), z)
        BY <3>8
      <4>2. (c \ {z}) \ {y} \in {b0, bx}
        BY <2>1 DEF Cube
      <4>3. b0 \in f <=> bx \in f
        BY <2>2, <3>8 DEF MajValues
      <4>4. c \in off <=> b0 \in f
        <5>1. c \in Cofactor0(Cofactor0(f, y), z) <=> (c \ {z}) \ {y} \in f
          BY <2>4
        <5> HIDE DEF on, off
        <5> QED BY <5>1, <4>1, <4>2, <4>3
      <4> QED BY <2>3, <3>6, <4>4
    <3> QED BY <2>7, <3>7, <3>8
  <2>8. CASE n = 2
    <3>1. /\ on = Cofactor0(Cofactor1(Derivative(f, y), x), z)
          /\ off = Cofactor0(Cofactor0(f, x), z)
      BY <2>8
    <3>2. (c \ {z}) \cup {x} \in {bx, bxy} /\ (c \ {z}) \ {x} \in {b0, by}
      BY <2>1 DEF Cube
    <3>3. /\ bx \in Assignments /\ bx \ {y} = bx /\ bx \cup {y} = bxy
          /\ bxy \in Assignments /\ bxy \ {y} = bx /\ bxy \cup {y} = bxy
      BY <2>1 DEF Cube
    <3>4. ~(bx \in f <=> bxy \in f) /\ (b0 \in f <=> by \in f)
      BY <2>2, <2>8 DEF MajValues
    <3>5. bx \in Derivative(f, y) /\ bxy \in Derivative(f, y)
      BY <2>6, <3>3, <3>4
    <3>6. c \in on
      <4>1. c \in Cofactor0(Cofactor1(Derivative(f, y), x), z) <=> (c \ {z}) \cup {x} \in Derivative(f, y)
        BY <2>4
      <4> HIDE DEF on, off
      <4> QED BY <4>1, <3>1, <3>2, <3>5
    <3>7. c \in off <=> b0 \in f
      <4>1. c \in Cofactor0(Cofactor0(f, x), z) <=> (c \ {z}) \ {x} \in f
        BY <2>4
      <4> HIDE DEF on, off
      <4> QED BY <4>1, <3>1, <3>2, <3>4
    <3> QED BY <2>3, <3>6, <3>7
  <2>9. CASE n = 3
    <3>1. /\ on = Cofactor0(Cofactor1(Derivative(f, z), x), y)
          /\ off = Cofactor0(Cofactor0(f, x), y)
      BY <2>9
    <3>2. (c \ {y}) \cup {x} \in {bx, bxz} /\ (c \ {y}) \ {x} \in {b0, bz}
      BY <2>1 DEF Cube
    <3>3. /\ bx \in Assignments /\ bx \ {z} = bx /\ bx \cup {z} = bxz
          /\ bxz \in Assignments /\ bxz \ {z} = bx /\ bxz \cup {z} = bxz
      BY <2>1 DEF Cube
    <3>4. ~(bx \in f <=> bxz \in f) /\ (b0 \in f <=> bz \in f)
      BY <2>2, <2>9 DEF MajValues
    <3>5. bx \in Derivative(f, z) /\ bxz \in Derivative(f, z)
      BY <2>6, <3>3, <3>4
    <3>6. c \in on
      <4>1. c \in Cofactor0(Cofactor1(Derivative(f, z), x), y) <=> (c \ {y}) \cup {x} \in Derivative(f, z)
        BY <2>4
      <4> HIDE DEF on, off
      <4> QED BY <4>1, <3>1, <3>2, <3>5
    <3>7. c \in off <=> b0 \in f
      <4>1. c \in Cofactor0(Cofactor0(f, x), y) <=> (c \ {y}) \ {x} \in f
        BY <2>4
      <4> HIDE DEF on, off
      <4> QED BY <4>1, <3>1, <3>2, <3>4
    <3> QED BY <2>3, <3>6, <3>7
  <2> QED BY <1>3, <2>7, <2>8, <2>9
<1>5. on \in SUBSET Assignments /\ off \in SUBSET Assignments
  BY <1>3 DEF Cofactor0, Cofactor1
<1> HIDE DEF on, off
<1>6. rest \in SUBSET Assignments
  <2>1. Mux(x, on, {}) \in SUBSET Assignments
    BY <1>5 DEF Mux
  <2> QED BY <1>1, <1>5, <2>1 DEF Difference
<1>7. ASSUME NEW c \in Assignments
      PROVE  c \in rest <=> ~(x \in c <=> c \ {x, y, z} \in f)
  <2>1. c \in Mux(x, on, {}) <=> x \in c
    BY <1>4 DEF Mux
  <2> QED BY <1>1, <1>4, <2>1 DEF Difference
<1>8. ASSUME NEW b \in Assignments, NEW K \in SUBSET DOMAIN <<x, y, z>>,
             Reads(K, b, <<x, y, z>>, n)
      PROVE  b \in f <=> Put(b, x, K \in Maj3) \in rest
  <2>1. K \in SUBSET (1 .. 3) /\ (1 \in K <=> ~(x \in b <=> n = 1))
        /\ (2 \in K <=> ~(y \in b <=> n = 2)) /\ (3 \in K <=> ~(z \in b <=> n = 3))
    <3>1. /\ DOMAIN <<x, y, z>> = 1 .. 3
          /\ <<x, y, z>>[1] = x /\ <<x, y, z>>[2] = y /\ <<x, y, z>>[3] = z
      OBVIOUS
    <3> QED BY <1>8, <3>1, <1>3 DEF Reads
  <2>2. K \in Maj3 <=> \/ 1 \in K /\ 2 \in K
                       \/ 1 \in K /\ 3 \in K
                       \/ 2 \in K /\ 3 \in K
    BY <2>1, Lookup
  <2>3. PICK b0, bx, by, bz, bxy, bxz, byz, bxyz :
          Cube(b, x, y, z, b0, bx, by, bz, bxy, bxz, byz, bxyz)
    BY ThreeVariables
  <2>4. MajValues(f, n, b0, bx, by, bz, bxy, bxz, byz, bxyz)
    BY <1>2, <2>3, MajPoints
  <2>5. b \in f <=> ~(K \in Maj3 <=> b0 \in f)
    <3>1. b \in {b0, bx, by, bz, bxy, bxz, byz, bxyz}
      BY <2>3 DEF Cube
    <3>2. /\ x \in b <=> b \in {bx, bxy, bxz, bxyz}
          /\ y \in b <=> b \in {by, bxy, byz, bxyz}
          /\ z \in b <=> b \in {bz, bxz, byz, bxyz}
      BY <2>3 DEF Cube
    <3>3. CASE b \in {b0, bx, by, bz}
      BY <1>3, <2>1, <2>2, <2>4, <2>3, <3>2, <3>3 DEF MajValues, Cube
    <3>4. CASE b \in {bxy, bxz, byz, bxyz}
      BY <1>3, <2>1, <2>2, <2>4, <2>3, <3>2, <3>4 DEF MajValues, Cube
    <3> QED BY <3>1, <3>3, <3>4
  <2>6. b0 = b \ {x, y, z}
    <3>1. b \ {x, y, z} = ((b \ {x}) \ {y}) \ {z}
      OBVIOUS
    <3>2. ((b \ {x}) \ {y}) \ {z} = b0
      BY <2>3 DEF Cube
    <3> QED BY <3>1, <3>2
  <2> DEFINE c == Put(b, x, K \in Maj3)
  <2>7. c \in Assignments /\ c \ {x, y, z} = b \ {x, y, z} /\ (x \in c <=> K \in Maj3)
    BY DEF Put, Assignments
  <2> HIDE DEF c
  <2>8. c \in rest <=> ~(K \in Maj3 <=> b0 \in f)
    BY <1>7, <2>6, <2>7
  <2> QED BY <2>5, <2>8 DEF c
<1>9. ASSUME NEW v \in Vars, v \in {y, z} \/ (v # x /\ ~HasVar(f, v))
      PROVE  ~HasVar(rest, v)
  <2>1. v # x
    BY <1>9
  <2>2. ASSUME NEW c \in Assignments
        PROVE  c \ {v} \in rest <=> c \cup {v} \in rest
    <3> DEFINE d == c \ {v}
               e == c \cup {v}
               o == c \ {x, y, z}
    <3>1. d \in Assignments /\ e \in Assignments /\ (x \in d <=> x \in e)
          /\ o \in Assignments
      BY <2>1 DEF Assignments
    <3>2. d \ {x, y, z} \in f <=> e \ {x, y, z} \in f
      <4>1. CASE v \in {y, z}
        <5>1. d \ {x, y, z} = e \ {x, y, z}
          BY <4>1
        <5> QED BY <5>1
      <4>2. CASE v \notin {y, z} /\ ~HasVar(f, v)
        <5>1. d \ {x, y, z} = o \ {v} /\ e \ {x, y, z} = o \cup {v}
          BY <2>1, <4>2
        <5> HIDE DEF o, d, e
        <5>2. o \ {v} \in f <=> o \cup {v} \in f
          BY <3>1, <4>2, HasVarPoints
        <5> QED BY <5>1, <5>2
      <4> QED BY <1>9, <4>1, <4>2
    <3> HIDE DEF d, e, o
    <3>3. d \in rest <=> e \in rest
      BY <1>7, <3>1, <3>2
    <3> QED BY <3>3 DEF d, e
  <2> QED BY <2>2, HasVarPoints
<1> QED BY <1>6, <1>8, <1>9 DEF Merges, Forgets, rest, n

-----------------------------------------------------------------------------
(***************************************************************************)
(* What the invariant says of a network, of a remainder and of the calls   *)
(* that wait, for a LUT of n inputs.                                       *)
(***************************************************************************)
Inputs(n) == 0 .. n - 1
Points(n) == SUBSET Inputs(n)

(* f does not depend on v.                                                 *)
Free(n, f, v) == \A b \in Points(n) : b \ {v} \in f <=> b \cup {v} \in f
Covers(n, variables, f) == \A v \in Inputs(n) \ variables : Free(n, f, v)

(* Assignments with the same values of what f depends on.                  *)
LEMMA Agree ==
  ASSUME NEW n \in Nat, NEW f, NEW S, Covers(n, S, f),
         NEW b \in Points(n), NEW c \in Points(n), b \cap S = c \cap S
  PROVE  b \in f <=> c \in f
<1> DEFINE H(i) == {v \in b : v >= i} \cup {v \in c : v < i}
           T == {i \in 0 .. n : b \in f <=> H(i) \in f}
<1>0. \A v \in b \cup c : v \in Int /\ v >= 0 /\ v < n
  BY DEF Points, Inputs
<1>1. H(0) = b /\ H(n) = c
  <2>2. \A v : v \in H(0) <=> v \in b
    BY <1>0
  <2>3. \A v : v \in H(n) <=> v \in c
    BY <1>0
  <2> HIDE DEF H
  <2> QED BY <2>2, <2>3
<1>2. 0 \in T
  <2> HIDE DEF H
  <2> QED BY <1>1
<1>3. ASSUME NEW i \in 0 .. n - 1, i \in T PROVE i + 1 \in T
  <2>1. b \in f <=> H(i) \in f
    BY <1>3
  <2>2. ASSUME NEW v, v # i PROVE v \in H(i) <=> v \in H(i + 1)
    <3>1. v \in b \/ v \in c => v \in Int
      BY <1>0
    <3>2. v \in Int => (v >= i <=> v >= i + 1) /\ (v < i <=> v < i + 1)
      BY <2>2
    <3> QED BY <3>1, <3>2
  <2>3. H(i) \in Points(n)
    BY DEF Points, Inputs
  <2>4. (i \in H(i) <=> i \in b) /\ (i \in H(i + 1) <=> i \in c)
    OBVIOUS
  <2> HIDE DEF H
  <2>5. CASE i \in S
    <3>1. i \in b <=> i \in c
      BY <2>5
    <3>2. H(i) = H(i + 1)
      BY <2>2, <2>4, <3>1
    <3> QED BY <2>1, <3>2
  <2>6. CASE i \notin S
    <3>1. Free(n, f, i)
      BY <2>6 DEF Covers, Inputs
    <3>2. H(i) \ {i} \in f <=> H(i) \cup {i} \in f
      BY <2>3, <3>1 DEF Free
    <3>3. H(i) = H(i) \ {i} \/ H(i) = H(i) \cup {i}
      OBVIOUS
    <3>4. H(i + 1) = H(i) \ {i} \/ H(i + 1) = H(i) \cup {i}
      <4>1. CASE i \in H(i + 1)
        <5>1. H(i + 1) = H(i) \cup {i}
          BY <2>2, <4>1
        <5> QED BY <5>1
      <4>2. CASE i \notin H(i + 1)
        <5>1. H(i + 1) = H(i) \ {i}
          BY <2>2, <4>2
        <5> QED BY <5>1
      <4> QED BY <4>1, <4>2
    <3>5. H(i) \in f <=> H(i + 1) \in f
      BY <3>2, <3>3, <3>4
    <3> QED BY <2>1, <3>5
  <2> QED BY <2>5, <2>6
<1> HIDE DEF H
<1>4. n \in 0 .. n /\ \A i \in 0 .. n : i \in T
  <2> HIDE DEF T
  <2> QED BY <1>2, <1>3, UpTo
<1>5. n \in T
  BY <1>4
<1> QED BY <1>1, <1>5

(***************************************************************************)
(* Networks.                                                               *)
(***************************************************************************)
Combine(n, table, functions) ==
  {a \in Points(n) : {p \in DOMAIN functions : a \in functions[p]} \in table}

GateValue(n, fanins, table, value) ==
  Combine(n, table, [p \in DOMAIN fanins |-> value[fanins[p] + 1]])

Node == [fanins : Seq(Nat), table : SUBSET SUBSET (1 .. 4)]

(* A gate whose fanins are signals up to last.                             *)
GateOK(fanins, table, last) ==
  /\ fanins \in Seq(Nat)
  /\ Len(fanins) \in 1 .. 4
  /\ \A p \in DOMAIN fanins : fanins[p] <= last
  /\ table \in SUBSET SUBSET DOMAIN fanins

NetworkOK(n, network) ==
  /\ network \in Seq(Node)
  /\ \A i \in DOMAIN network : GateOK(network[i].fanins, network[i].table, n + i)

(* value[s + 1] is the function of signal s.                               *)
IsValue(n, network, value) ==
  /\ value \in [1 .. n + 2 + Len(network) -> SUBSET Points(n)]
  /\ value[1] = {} /\ value[2] = Points(n)
  /\ \A v \in Inputs(n) : value[v + 3] = {a \in Points(n) : v \in a}
  /\ \A i \in DOMAIN network :
       value[n + 2 + i] = GateValue(n, network[i].fanins, network[i].table, value)

(* Built adds the gate asked for, or finds it; nothing else changes.       *)
Adds(n, network, value, fanins, table, network2, signal, value2) ==
  /\ NetworkOK(n, network2)
  /\ Len(network2) >= Len(network)
  /\ IsValue(n, network2, value2)
  /\ \A k \in 1 .. n + 2 + Len(network) : value2[k] = value[k]
  /\ signal \in n + 2 .. n + 1 + Len(network2)
  /\ value2[signal + 1] = GateValue(n, fanins, table, value)

(* A function of the signals is unchanged when the network grows.          *)
LEMMA GateValueKept ==
  ASSUME NEW n, NEW fanins, NEW table, NEW value, NEW value2,
         \A p \in DOMAIN fanins : value2[fanins[p] + 1] = value[fanins[p] + 1]
  PROVE  GateValue(n, fanins, table, value2) = GateValue(n, fanins, table, value)
<1>1. [p \in DOMAIN fanins |-> value2[fanins[p] + 1]]
        = [p \in DOMAIN fanins |-> value[fanins[p] + 1]]
  OBVIOUS
<1> QED BY <1>1 DEF GateValue

(* Built adds a gate of signals that are there, or finds it.               *)
LEMMA BuiltFacts ==
  ASSUME goal.inputs \in Nat, NEW network, NetworkOK(goal.inputs, network),
         NEW value, IsValue(goal.inputs, network, value), NEW fanins, NEW table,
         GateOK(fanins, table, goal.inputs + 1 + Len(network))
  PROVE  \E value2 :
           Adds(goal.inputs, network, value, fanins, table,
                Built(network, fanins, table).nodes, Built(network, fanins, table).signal,
                value2)
<1> DEFINE n == goal.inputs
           L == Len(network)
           node == [fanins |-> fanins, table |-> table]
           built == Built(network, fanins, table)
<1>0. n \in Nat
  OBVIOUS
<1>1. /\ network \in Seq(Node) /\ L \in Nat /\ DOMAIN network = 1 .. L
      /\ \A i \in 1 .. L : GateOK(network[i].fanins, network[i].table, n + i)
  BY DEF NetworkOK
<1>2. /\ value \in [1 .. n + 2 + L -> SUBSET Points(n)]
      /\ value[1] = {} /\ value[2] = Points(n)
      /\ \A v \in Inputs(n) : value[v + 3] = {a \in Points(n) : v \in a}
      /\ \A i \in 1 .. L :
           value[n + 2 + i] = GateValue(n, network[i].fanins, network[i].table, value)
  BY <1>1 DEF IsValue
<1>3. /\ fanins \in Seq(Nat) /\ Len(fanins) \in 1 .. 4 /\ DOMAIN fanins = 1 .. Len(fanins)
      /\ \A p \in DOMAIN fanins : fanins[p] \in Nat /\ fanins[p] <= n + 1 + L
      /\ table \in SUBSET SUBSET (1 .. 4)
  BY DEF GateOK
<1>4. CASE \E i \in DOMAIN network : network[i] = node
  <2> DEFINE k == CHOOSE i \in DOMAIN network : network[i] = node
  <2>1. built = [nodes |-> network, signal |-> NumPi + k]
    BY <1>4 DEF Built
  <2>2. k \in DOMAIN network /\ network[k] = node
    BY <1>4
  <2> HIDE DEF k
  <2>3. built.nodes = network /\ built.signal = n + 1 + k
    BY <2>1 DEF NumPi
  <2>4. value[n + 2 + k] = GateValue(n, fanins, table, value)
    BY <1>1, <1>2, <2>2
  <2> HIDE DEF built
  <2>5. Adds(n, network, value, fanins, table, built.nodes, built.signal, value)
    BY <1>1, <2>2, <2>3, <2>4 DEF Adds
  <2> QED BY <2>5 DEF built
<1>5. CASE ~ \E i \in DOMAIN network : network[i] = node
  <2> DEFINE network2 == Append(network, node)
             new == GateValue(n, fanins, table, value)
             value2 == [j \in 1 .. n + 3 + L |-> IF j = n + 3 + L THEN new ELSE value[j]]
  <2>1. built.nodes = network2 /\ built.signal = n + 2 + L
    <3>1. built = [nodes |-> Append(network, node), signal |-> NumPi + L + 1]
      BY <1>5 DEF Built
    <3> QED BY <1>1, <3>1 DEF NumPi
  <2>2. node \in Node /\ node.fanins = fanins /\ node.table = table
    BY <1>3 DEF Node
  <2>3. /\ network2 \in Seq(Node) /\ Len(network2) = L + 1
        /\ DOMAIN network2 = 1 .. L + 1
        /\ \A i \in 1 .. L : network2[i] = network[i]
        /\ network2[L + 1] = node
    <3> HIDE DEF node, network2
    <3> QED BY <1>1, <2>2, AppendFacts DEF network2
  <2> HIDE DEF network2, node
  <2>4. NetworkOK(n, network2)
    <3>1. ASSUME NEW i \in 1 .. L + 1
          PROVE  GateOK(network2[i].fanins, network2[i].table, n + i)
      <4>1. CASE i = L + 1
        <5>1. n + i = n + 1 + L
          <6> HIDE DEF n, L
          <6> QED BY <1>0, <1>1, <4>1
        <5> QED BY <2>2, <2>3, <4>1, <5>1
      <4>2. CASE i # L + 1
        BY <1>1, <2>3, <4>2
      <4> QED BY <4>1, <4>2
    <3> QED BY <2>3, <3>1 DEF NetworkOK
  <2>5. new \in SUBSET Points(n)
    BY DEF GateValue, Combine
  <2>6. n + 3 + L \in 1 .. n + 3 + L /\ n + 2 + L \in Nat /\ n + 2 + L + 1 = n + 3 + L
    <3>1. n \in Nat /\ L \in Nat
      BY <1>0, <1>1
    <3> HIDE DEF n, L
    <3> QED BY <3>1
  <2>7. \A k \in 1 .. n + 2 + L : value2[k] = value[k]
    BY <1>1
  <2>8. value2[n + 3 + L] = new
    BY <2>6
  <2>9. value2 \in [1 .. n + 3 + L -> SUBSET Points(n)]
    <3> HIDE DEF new
    <3>1. \A j \in 1 .. n + 3 + L : j # n + 3 + L => j \in 1 .. n + 2 + L
      <4> HIDE DEF n, L
      <4> QED BY <1>0, <1>1
    <3> QED BY <1>2, <2>5, <3>1
  <2> HIDE DEF value2, new
  <2>10. \A i \in 1 .. L :
           GateValue(n, network[i].fanins, network[i].table, value2)
             = GateValue(n, network[i].fanins, network[i].table, value)
    <3> SUFFICES ASSUME NEW i \in 1 .. L
                 PROVE  GateValue(n, network[i].fanins, network[i].table, value2)
                          = GateValue(n, network[i].fanins, network[i].table, value)
      OBVIOUS
    <3>1. \A p \in DOMAIN network[i].fanins :
            network[i].fanins[p] \in Nat /\ network[i].fanins[p] <= n + i
      <4>1. GateOK(network[i].fanins, network[i].table, n + i)
        BY <1>1
      <4> HIDE DEF n
      <4> QED BY <4>1 DEF GateOK
    <3>2. \A p \in DOMAIN network[i].fanins :
            network[i].fanins[p] + 1 \in 1 .. n + 2 + L
      <4>1. n \in Nat /\ L \in Nat /\ i \in 1 .. L
        BY <1>0, <1>1
      <4> HIDE DEF n, L
      <4>2. ASSUME NEW q \in Nat, q <= n + i PROVE q + 1 \in 1 .. n + 2 + L
        BY <4>1, <4>2
      <4> QED BY <3>1, <4>2
    <3> QED BY <2>7, <3>2, GateValueKept
  <2>11. GateValue(n, fanins, table, value2) = new
    <3>1. \A p \in DOMAIN fanins : fanins[p] + 1 \in 1 .. n + 2 + L
      <4>1. n \in Nat /\ L \in Nat
        BY <1>0, <1>1
      <4> HIDE DEF n, L
      <4>2. ASSUME NEW q \in Nat, q <= n + 1 + L PROVE q + 1 \in 1 .. n + 2 + L
        BY <4>1, <4>2
      <4> QED BY <1>3, <4>2
    <3> QED BY <2>7, <3>1, GateValueKept DEF new
  <2>12. IsValue(n, network2, value2)
    <3>1. n + 2 + Len(network2) = n + 3 + L
      <4> HIDE DEF n, L
      <4> QED BY <1>0, <1>1, <2>3
    <3>2. value2[1] = {} /\ value2[2] = Points(n)
      BY <1>1, <1>2, <2>7
    <3>3. \A v \in Inputs(n) : value2[v + 3] = {a \in Points(n) : v \in a}
      <4>1. \A v \in Inputs(n) : v + 3 \in 1 .. n + 2 + L
        BY <1>1 DEF Inputs
      <4> QED BY <1>2, <2>7, <4>1
    <3>4. ASSUME NEW i \in 1 .. L + 1
          PROVE  value2[n + 2 + i] =
                   GateValue(n, network2[i].fanins, network2[i].table, value2)
      <4>1. CASE i = L + 1
        <5>1. n + 2 + i = n + 3 + L
          <6>1. n \in Nat /\ L \in Nat
            BY <1>0, <1>1
          <6> HIDE DEF n, L
          <6> QED BY <4>1, <6>1
        <5> QED BY <2>2, <2>3, <2>8, <2>11, <4>1, <5>1
      <4>2. CASE i # L + 1
        <5>1. i \in 1 .. L /\ n + 2 + i \in 1 .. n + 2 + L
          <6>1. n \in Nat /\ L \in Nat
            BY <1>0, <1>1
          <6> HIDE DEF n, L
          <6> QED BY <4>2, <6>1
        <5>2. network2[i] = network[i] /\ value2[n + 2 + i] = value[n + 2 + i]
          BY <2>3, <2>7, <5>1
        <5>3. value[n + 2 + i] = GateValue(n, network[i].fanins, network[i].table, value)
          BY <1>2, <5>1
        <5>4. GateValue(n, network[i].fanins, network[i].table, value2)
                = GateValue(n, network[i].fanins, network[i].table, value)
          BY <2>10, <5>1
        <5> HIDE DEF value2
        <5> QED BY <5>2, <5>3, <5>4
      <4> QED BY <4>1, <4>2
    <3> QED BY <2>3, <2>9, <3>1, <3>2, <3>3, <3>4 DEF IsValue
  <2> HIDE DEF built
  <2>13. Adds(n, network, value, fanins, table, built.nodes, built.signal, value2)
    <3>1. built.signal \in n + 2 .. n + 1 + Len(network2)
      BY <1>1, <2>1, <2>3
    <3>2. value2[built.signal + 1] = GateValue(n, fanins, table, value)
      BY <2>1, <2>6, <2>8 DEF new
    <3> QED BY <1>1, <2>1, <2>3, <2>4, <2>7, <2>12, <3>1, <3>2 DEF Adds
  <2> QED BY <2>13 DEF built
<1> QED BY <1>4, <1>5

(* Gates whose fanins are written out.                                     *)
LEMMA GateOfOne ==
  ASSUME NEW n, NEW table, NEW value, NEW r
  PROVE  GateValue(n, <<r>>, table, value) = Combine(n, table, <<value[r + 1]>>)
<1>1. DOMAIN <<r>> = 1 .. 1 /\ \A p \in 1 .. 1 : p = 1
  OBVIOUS
<1>2. [p \in DOMAIN <<r>> |-> value[<<r>>[p] + 1]] = <<value[r + 1]>>
  BY <1>1
<1> QED BY <1>2 DEF GateValue

(* A gate of two fanins.                                                   *)
LEMMA GateOfTwo ==
  ASSUME NEW n, NEW table, NEW value, NEW r, NEW s
  PROVE  GateValue(n, <<r, s>>, table, value)
           = Combine(n, table, <<value[r + 1], value[s + 1]>>)
<1>1. DOMAIN <<r, s>> = 1 .. 2 /\ \A p \in 1 .. 2 : p = 1 \/ p = 2
  OBVIOUS
<1>2. [p \in DOMAIN <<r, s>> |-> value[<<r, s>>[p] + 1]] = <<value[r + 1], value[s + 1]>>
  BY <1>1
<1> QED BY <1>2 DEF GateValue

(* What a table makes of functions that are written out.                   *)
LEMMA CombineOne ==
  ASSUME NEW n, NEW f, NEW a \in Points(n)
  PROVE  a \in Combine(n, Not1, <<f>>) <=> a \notin f
<1> DEFINE K == {p \in DOMAIN <<f>> : a \in <<f>>[p]}
<1>1. K \in SUBSET (1 .. 1) /\ (1 \in K <=> a \in f)
  OBVIOUS
<1>2. a \in Combine(n, Not1, <<f>>) <=> K \in Not1
  BY Zenon DEF Combine
<1> HIDE DEF K
<1>3. K \in Not1 <=> 1 \notin K
  BY <1>1, Lookup
<1> QED BY <1>1, <1>2, <1>3

(* The same for two functions and any table.                               *)
LEMMA CombineTwo ==
  ASSUME NEW n, NEW table, NEW f, NEW g, NEW a \in Points(n)
  PROVE  \E K \in SUBSET (1 .. 2) :
           /\ 1 \in K <=> a \in f
           /\ 2 \in K <=> a \in g
           /\ a \in Combine(n, table, <<f, g>>) <=> K \in table
<1> DEFINE K == {p \in DOMAIN <<f, g>> : a \in <<f, g>>[p]}
<1>1. K \in SUBSET (1 .. 2) /\ (1 \in K <=> a \in f) /\ (2 \in K <=> a \in g)
  OBVIOUS
<1>2. a \in Combine(n, table, <<f, g>>) <=> K \in table
  BY Zenon DEF Combine
<1> HIDE DEF K
<1> QED BY <1>1, <1>2

(* The same for a gate of three fanins and any table.                      *)
LEMMA CombineThree ==
  ASSUME NEW n, NEW table, NEW f, NEW g, NEW h, NEW a \in Points(n)
  PROVE  \E K \in SUBSET (1 .. 3) :
           /\ 1 \in K <=> a \in f
           /\ 2 \in K <=> a \in g
           /\ 3 \in K <=> a \in h
           /\ a \in Combine(n, table, <<f, g, h>>) <=> K \in table
<1> DEFINE K == {p \in DOMAIN <<f, g, h>> : a \in <<f, g, h>>[p]}
<1>1. K \in SUBSET (1 .. 3) /\ (1 \in K <=> a \in f) /\ (2 \in K <=> a \in g)
      /\ (3 \in K <=> a \in h)
  OBVIOUS
<1>2. a \in Combine(n, table, <<f, g, h>>) <=> K \in table
  BY Zenon DEF Combine
<1> HIDE DEF K
<1> QED BY <1>1, <1>2

(* An ite of three functions.                                              *)
LEMMA CombineIte ==
  ASSUME NEW n, NEW f, NEW g, NEW h, NEW a \in Points(n)
  PROVE  a \in Combine(n, Ite3, <<f, g, h>>) <=> IF a \in f THEN a \in g ELSE a \in h
<1> DEFINE ite == Combine(n, Ite3, <<f, g, h>>)
<1>1. PICK K \in SUBSET (1 .. 3) :
        /\ 1 \in K <=> a \in f
        /\ 2 \in K <=> a \in g
        /\ 3 \in K <=> a \in h
        /\ a \in ite <=> K \in Ite3
  BY CombineThree
<1> HIDE DEF ite
<1>2. K \in Ite3 <=> IF 1 \in K THEN 2 \in K ELSE 3 \in K
  BY Lookup
<1>3. a \in ite <=> IF a \in f THEN a \in g ELSE a \in h
  BY <1>1, <1>2
<1> QED BY <1>3 DEF ite

(***************************************************************************)
(* Remainders and calls that wait.                                         *)
(***************************************************************************)
(* The variables that are 1 when the inputs are a.                         *)
Values(n, p, value, a) == {v \in Inputs(n) : a \in value[p[v] + 1]}

(* A remainder, read over the signals of its variables.                    *)
Reading(n, f, p, value) == {a \in Points(n) : Values(n, p, value, a) \in f}

(* What a call that waits makes of f, when it is returned f.               *)
WaitOf(n, p, frame, value, f) ==
  LET v == value[p[frame.var] + 1]
  IN IF frame.at = "top" THEN Combine(n, frame.table, <<v, f>>)
     ELSE IF frame.at = "first"
       THEN Combine(n, Ite3, <<v, Reading(n, frame.other, frame.pis, value), f>>)
     ELSE Combine(n, Ite3, <<v, f, value[frame.first + 1]>>)

(* A remainder reads the same when its signals have the same functions.    *)
LEMMA ReadingKept ==
  ASSUME NEW n, NEW f, NEW p, NEW value, NEW p2, NEW value2,
         \A v \in Inputs(n) : value2[p2[v] + 1] = value[p[v] + 1]
  PROVE  Reading(n, f, p2, value2) = Reading(n, f, p, value)
<1>1. ASSUME NEW a \in Points(n)
      PROVE  Values(n, p2, value2, a) = Values(n, p, value, a)
  BY DEF Values
<1> QED BY <1>1 DEF Reading

(* A call waits for the same when its signals have the same functions.     *)
LEMMA WaitKept ==
  ASSUME NEW n, NEW p, NEW frame, NEW value, NEW p2, NEW value2, NEW f,
         value2[p2[frame.var] + 1] = value[p[frame.var] + 1],
         frame.at = "first" =>
           \A v \in Inputs(n) : value2[frame.pis[v] + 1] = value[frame.pis[v] + 1],
         frame.at = "second" => value2[frame.first + 1] = value[frame.first + 1],
         frame.at \in {"top", "first", "second"}
  PROVE  WaitOf(n, p2, frame, value2, f) = WaitOf(n, p, frame, value, f)
<1>1. CASE frame.at = "top"
  BY <1>1 DEF WaitOf
<1>2. CASE frame.at = "first"
  <2>1. Reading(n, frame.other, frame.pis, value2) = Reading(n, frame.other, frame.pis, value)
    BY <1>2, ReadingKept
  <2> QED BY <1>2, <2>1 DEF WaitOf
<1>3. CASE frame.at = "second"
  BY <1>3 DEF WaitOf
<1> QED BY <1>1, <1>2, <1>3

(* h is the function of a gate with the table whose fanins are the         *)
(* variables args, under the signals p; argument inv is inverted.          *)
Computes(n, p, value, h, args, inv, table) ==
  \A a \in Points(n) : \E K \in SUBSET DOMAIN args :
    Reads(K, Values(n, p, value, a), args, inv) /\ (a \in h <=> K \in table)

(* What a gate replaces the variable kept by, where rest replaces f.       *)
LEMMA ReadingMerged ==
  ASSUME goal.inputs \in Nat, NEW f, NEW rest, NEW args, NEW inv, NEW table,
         NEW kept \in Inputs(goal.inputs),
         Merges(f, rest, args, inv, table, kept),
         NEW p, NEW value, NEW p2, NEW value2,
         \A v \in Inputs(goal.inputs) \ {kept} : value2[p2[v] + 1] = value[p[v] + 1],
         NEW h, h = value2[p2[kept] + 1], Computes(goal.inputs, p, value, h, args, inv, table)
  PROVE  Reading(goal.inputs, rest, p2, value2) = Reading(goal.inputs, f, p, value)
<1> DEFINE n == goal.inputs
<1>1. ASSUME NEW a \in Points(n)
      PROVE  Values(n, p2, value2, a) \in rest <=> Values(n, p, value, a) \in f
  <2> DEFINE A == Values(n, p, value, a)
             A2 == Values(n, p2, value2, a)
  <2>1. A \in Assignments
    BY DEF Assignments, Vars, Values, Inputs
  <2>2. PICK K \in SUBSET DOMAIN args :
          Reads(K, A, args, inv) /\ (a \in value2[p2[kept] + 1] <=> K \in table)
    BY DEF Computes
  <2>3. \A v \in Inputs(n) \ {kept} : v \in A2 <=> v \in A
    BY DEF Values
  <2>4. kept \in A2 <=> K \in table
    BY <2>2 DEF Values
  <2>5. A2 \subseteq Inputs(n) /\ A \subseteq Inputs(n)
    BY DEF Values
  <2> HIDE DEF A, A2, n
  <2>6. A2 = Put(A, kept, K \in table)
    <3>1. CASE K \in table
      <4>1. A2 = A \cup {kept}
        BY <2>3, <2>4, <2>5, <3>1 DEF n
      <4> QED BY <3>1, <4>1 DEF Put
    <3>2. CASE K \notin table
      <4>1. A2 = A \ {kept}
        BY <2>3, <2>4, <2>5, <3>2
      <4> QED BY <3>2, <4>1 DEF Put
    <3> QED BY <3>1, <3>2
  <2> QED BY <2>1, <2>2, <2>6 DEF Merges, A, A2, n
<1> QED BY <1>1 DEF Reading

(* The function at the top is a gate of its variable and of the rest.      *)
LEMMA ReadingTop ==
  ASSUME goal.inputs \in Nat, NEW f \in SUBSET Assignments, NEW v \in Vars,
         NEW c \in TopCases(f, v), NEW p, NEW value
  PROVE  Reading(goal.inputs, f, p, value)
           = Combine(goal.inputs, TopTables(f, v)[c].table,
                     <<value[p[v] + 1],
                       Reading(goal.inputs, TopTables(f, v)[c].rest, p, value)>>)
<1> DEFINE n == goal.inputs
           t == TopTables(f, v)[c]
           rest == Reading(n, t.rest, p, value)
           gate == Combine(n, t.table, <<value[p[v] + 1], rest>>)
<1>1. \A b \in Assignments : \A K \in SUBSET (1 .. 2) :
        (1 \in K <=> v \in b) /\ (2 \in K <=> b \in t.rest) => (b \in f <=> K \in t.table)
  BY TopSound
<1>2. v \in Inputs(n)
  BY DEF Inputs, Vars
<1> HIDE DEF t
<1>3. ASSUME NEW a \in Points(n)
      PROVE  a \in Reading(n, f, p, value) <=> a \in gate
  <2> DEFINE A == Values(n, p, value, a)
  <2>1. A \in Assignments
    BY DEF Assignments, Vars, Values, Inputs
  <2>2. (a \in Reading(n, f, p, value) <=> A \in f) /\ (a \in rest <=> A \in t.rest)
    BY DEF Reading
  <2>3. v \in A <=> a \in value[p[v] + 1]
    BY <1>2 DEF Values
  <2> DEFINE w == value[p[v] + 1]
             table == t.table
  <2> HIDE DEF A, rest, n, w, table
  <2>4. \E K \in SUBSET (1 .. 2) :
          /\ 1 \in K <=> a \in w
          /\ 2 \in K <=> a \in rest
          /\ a \in Combine(n, table, <<w, rest>>) <=> K \in table
    BY CombineTwo
  <2>5. gate = Combine(n, table, <<w, rest>>)
    BY DEF w, table
  <2> HIDE DEF gate
  <2> QED BY <1>1, <2>1, <2>2, <2>3, <2>4, <2>5 DEF w, table
<1>4. Reading(n, f, p, value) \subseteq Points(n) /\ gate \subseteq Points(n)
  BY DEF Reading, Combine
<1> HIDE DEF gate, n
<1>5. Reading(n, f, p, value) = gate
  BY <1>3, <1>4
<1> QED BY <1>5 DEF gate, t, n

(* A function is an ite of its cofactors.                                  *)
LEMMA ReadingSplit ==
  ASSUME goal.inputs \in Nat, NEW f \in SUBSET Assignments, NEW v \in Vars, NEW p, NEW value
  PROVE  Reading(goal.inputs, f, p, value)
           = Combine(goal.inputs, Ite3,
                     <<value[p[v] + 1],
                       Reading(goal.inputs, Cofactor1(f, v), p, value),
                       Reading(goal.inputs, Cofactor0(f, v), p, value)>>)
<1> DEFINE n == goal.inputs
           one == Reading(n, Cofactor1(f, v), p, value)
           zero == Reading(n, Cofactor0(f, v), p, value)
           gate == Combine(n, Ite3, <<value[p[v] + 1], one, zero>>)
<1>1. v \in Inputs(n)
  BY DEF Inputs, Vars
<1>2. ASSUME NEW a \in Points(n)
      PROVE  a \in Reading(n, f, p, value) <=> a \in gate
  <2> DEFINE A == Values(n, p, value, a)
  <2>1. A \in Assignments
    BY DEF Assignments, Vars, Values, Inputs
  <2>2. /\ a \in Reading(n, f, p, value) <=> A \in f
        /\ a \in one <=> A \in Cofactor1(f, v)
        /\ a \in zero <=> A \in Cofactor0(f, v)
    BY DEF Reading
  <2>3. v \in A <=> a \in value[p[v] + 1]
    BY <1>1 DEF Values
  <2> DEFINE w == value[p[v] + 1]
  <2> HIDE DEF A, one, zero, n, w
  <2>4. a \in gate <=> IF a \in w THEN a \in one ELSE a \in zero
    <3>1. a \in Combine(n, Ite3, <<w, one, zero>>)
            <=> IF a \in w THEN a \in one ELSE a \in zero
      BY CombineIte
    <3> QED BY <3>1 DEF w
  <2>5. (v \in A => A \cup {v} = A) /\ (v \notin A => A \ {v} = A)
    OBVIOUS
  <2>6. (A \in Cofactor1(f, v) <=> A \cup {v} \in f) /\ (A \in Cofactor0(f, v) <=> A \ {v} \in f)
    BY <2>1, CofactorPoints
  <2> HIDE DEF gate
  <2> QED BY <2>2, <2>3, <2>4, <2>5, <2>6 DEF w
<1>3. Reading(n, f, p, value) \subseteq Points(n) /\ gate \subseteq Points(n)
  BY DEF Reading, Combine
<1> HIDE DEF gate, n
<1>4. Reading(n, f, p, value) = gate
  BY <1>2, <1>3
<1> QED BY <1>4 DEF gate, n

-----------------------------------------------------------------------------
(***************************************************************************)
(* The place that is taken is one where the test succeeds.                 *)
(***************************************************************************)
(* The first of places with one position.                                  *)
LEMMA FirstOfOne ==
  ASSUME NEW T \in SUBSET Nat, T # {}
  PROVE  FirstOf({<<i>> : i \in T}) \in {<<i>> : i \in T}
<1> DEFINE places == {<<i>> : i \in T}
<1>1. PICK m \in T : \A k \in T : m <= k
  BY LeastNumber
<1>2. \A q \in places \ {<<m>>} : InLoopOrder(<<m>>, q)
  <2> SUFFICES ASSUME NEW k \in T, k # m PROVE InLoopOrder(<<m>>, <<k>>)
    OBVIOUS
  <2>1. m < k
    BY <1>1
  <2>2. DOMAIN <<m>> = 1 .. 1 /\ <<m>>[1] = m /\ <<k>>[1] = k /\ 1 .. 1 - 1 = {}
    OBVIOUS
  <2> QED BY <2>1, <2>2 DEF InLoopOrder
<1>3. <<m>> \in places
  OBVIOUS
<1> HIDE DEF places
<1>4. FirstOf(places) \in places
  BY <1>2, <1>3 DEF FirstOf
<1> QED BY <1>4 DEF places

(* The first of pairs of positions.                                        *)
LEMMA FirstOfTwo ==
  ASSUME NEW places \in SUBSET (Nat \X Nat), places # {}
  PROVE  FirstOf(places) \in places
<1>1. \A p \in places : p = <<p[1], p[2]>> /\ p[1] \in Nat /\ p[2] \in Nat /\ DOMAIN p = 1 .. 2
  OBVIOUS
<1>2. PICK m1 \in {p[1] : p \in places} : \A k \in {p[1] : p \in places} : m1 <= k
  <2>1. {p[1] : p \in places} \in SUBSET Nat /\ {p[1] : p \in places} # {}
    BY <1>1
  <2> QED BY <2>1, LeastNumber
<1> DEFINE second == {p[2] : p \in {q \in places : q[1] = m1}}
<1>3. PICK m2 \in second : \A k \in second : m2 <= k
  <2>1. second \in SUBSET Nat /\ second # {}
    BY <1>1, <1>2
  <2> QED BY <2>1, LeastNumber
<1>4. PICK p \in places : p[1] = m1 /\ p[2] = m2
  BY <1>3
<1>5. ASSUME NEW q \in places, q # p PROVE InLoopOrder(p, q)
  <2>1. m1 <= q[1]
    BY <1>2
  <2>2. CASE m1 < q[1]
    <3>1. 1 \in DOMAIN p /\ 1 .. 1 - 1 = {}
      BY <1>1
    <3> QED BY <1>4, <2>2, <3>1 DEF InLoopOrder
  <2>3. CASE m1 = q[1]
    <3>1. m2 <= q[2] /\ m2 # q[2]
      BY <1>1, <1>3, <1>4, <1>5, <2>3
    <3>2. m2 < q[2]
      BY <1>1, <1>4, <3>1
    <3>3. 2 \in DOMAIN p /\ \A m \in 1 .. 2 - 1 : m = 1
      BY <1>1
    <3> QED BY <1>4, <2>3, <3>2, <3>3 DEF InLoopOrder
  <2> QED BY <1>1, <1>4, <2>1, <2>2, <2>3
<1> QED BY <1>5 DEF FirstOf

(* The first of triples of positions.                                      *)
LEMMA FirstOfThree ==
  ASSUME NEW places \in SUBSET (Nat \X Nat \X Nat), places # {}
  PROVE  FirstOf(places) \in places
<1>1. \A p \in places : /\ p = <<p[1], p[2], p[3]>> /\ DOMAIN p = 1 .. 3
                        /\ p[1] \in Nat /\ p[2] \in Nat /\ p[3] \in Nat
  OBVIOUS
<1>2. PICK m1 \in {p[1] : p \in places} : \A k \in {p[1] : p \in places} : m1 <= k
  <2>1. {p[1] : p \in places} \in SUBSET Nat /\ {p[1] : p \in places} # {}
    BY <1>1
  <2> QED BY <2>1, LeastNumber
<1> DEFINE second == {p[2] : p \in {q \in places : q[1] = m1}}
<1>3. PICK m2 \in second : \A k \in second : m2 <= k
  <2>1. second \in SUBSET Nat /\ second # {}
    BY <1>1, <1>2
  <2> QED BY <2>1, LeastNumber
<1> DEFINE third == {p[3] : p \in {q \in places : q[1] = m1 /\ q[2] = m2}}
<1>4. PICK m3 \in third : \A k \in third : m3 <= k
  <2>1. third \in SUBSET Nat /\ third # {}
    BY <1>1, <1>3
  <2> QED BY <2>1, LeastNumber
<1>5. PICK p \in places : p[1] = m1 /\ p[2] = m2 /\ p[3] = m3
  BY <1>4
<1>6. ASSUME NEW q \in places, q # p PROVE InLoopOrder(p, q)
  <2>0. 1 \in DOMAIN p /\ 2 \in DOMAIN p /\ 3 \in DOMAIN p
    BY <1>1
  <2>1. m1 <= q[1]
    BY <1>2
  <2>2. CASE m1 < q[1]
    <3>1. 1 .. 1 - 1 = {}
      OBVIOUS
    <3> QED BY <1>5, <2>0, <2>2, <3>1 DEF InLoopOrder
  <2>3. CASE m1 = q[1]
    <3>1. m2 <= q[2]
      BY <1>3, <2>3
    <3>2. CASE m2 < q[2]
      <4>1. \A m \in 1 .. 2 - 1 : m = 1
        OBVIOUS
      <4> QED BY <1>5, <2>0, <2>3, <3>2, <4>1 DEF InLoopOrder
    <3>3. CASE m2 = q[2]
      <4>1. m3 <= q[3] /\ m3 # q[3]
        BY <1>1, <1>4, <1>5, <1>6, <2>3, <3>3
      <4>2. m3 < q[3]
        BY <1>1, <1>5, <4>1
      <4>3. \A m \in 1 .. 3 - 1 : m = 1 \/ m = 2
        OBVIOUS
      <4> QED BY <1>5, <2>0, <2>3, <3>3, <4>2, <4>3 DEF InLoopOrder
    <3> QED BY <1>1, <1>5, <3>1, <3>2, <3>3
  <2> QED BY <1>1, <1>5, <2>1, <2>2, <2>3
<1> QED BY <1>6 DEF FirstOf

-----------------------------------------------------------------------------
(***************************************************************************)
(* The loop that drops variables drops none that counts.                   *)
(***************************************************************************)
PrunedOK(n, q, s, f) ==
  /\ q \in Seq(Inputs(n))
  /\ Increasing(q)
  /\ ToSet(q) \subseteq ToSet(s)
  /\ \A v \in ToSet(s) \ ToSet(q) : ~HasVar(f, v)

(* Pruned keeps some of the support, in order, and all that counts.        *)
LEMMA PrunedFacts ==
  ASSUME goal.inputs \in Nat, support \in Seq(Inputs(goal.inputs)), Increasing(support)
  PROVE  PrunedOK(goal.inputs, Pruned, support, remainder)
<1> DEFINE n == goal.inputs
           L == Len(support)
           idx == [p \in DOMAIN support |-> p]
           base == [memory |-> support, size |-> L]
           Live(s) == SubSeq(s.memory, 1, s.size)
           D == {s \in [memory : {m \in Seq(Inputs(n)) : Len(m) = L}, size : 0 .. L] :
                   PrunedOK(n, Live(s), support, remainder)}
           F == [q \in D \X (1 .. L) |-> Visit(q[1], q[2])]
           Eq(g) == g = [t \in SUBSET (1 .. L) |->
                           IF t = {} THEN base ELSE Visit(g[t \ {Max(t)}], idx[Max(t)])]
           h == CHOOSE g : Eq(g)
<1>1. L \in Nat /\ DOMAIN support = 1 .. L /\ DOMAIN idx = 1 .. L
  OBVIOUS
<1>2. \A i \in 1 .. L : idx[i] = i
  OBVIOUS
<1>3. base \in D
  <2>1. SubSeq(support, 1, L) = support
    BY <1>1
  <2>2. base.memory = support /\ base.size = L /\ Live(base) = support
    BY <2>1
  <2>3. PrunedOK(n, support, support, remainder)
    BY DEF PrunedOK
  <2>4. base \in [memory : {m \in Seq(Inputs(n)) : Len(m) = L}, size : 0 .. L]
    BY <1>1
  <2> HIDE DEF base, Live
  <2> QED BY <2>2, <2>3, <2>4
<1>4. ASSUME NEW s \in D, NEW p \in 1 .. L PROVE Visit(s, p) \in D
  <2>1. /\ s.memory \in Seq(Inputs(n)) /\ Len(s.memory) = L /\ s.size \in 0 .. L
        /\ PrunedOK(n, Live(s), support, remainder)
    OBVIOUS
  <2> DEFINE v == s.memory[p]
             q == Live(s)
             live == Sublist(q, Vars \ {v})
             memory2 == live \o SubSeq(s.memory, Len(live) + 1, Len(s.memory))
             s2 == [memory |-> memory2, size |-> Len(live)]
  <2>2. CASE HasVar(remainder, v)
    BY <2>2 DEF Visit
  <2>3. CASE ~HasVar(remainder, v)
    <3>1. Visit(s, p) = s2
      BY <2>3 DEF Visit
    <3>2. q \in Seq(Inputs(n)) /\ Len(q) = s.size
      BY <1>1, <2>1, FrontPartFacts
    <3> HIDE DEF D, q
    <3>3. q \in Seq(Int)
      BY <3>2 DEF Inputs
    <3>4. /\ live \in Seq(Inputs(n)) /\ Len(live) <= Len(q)
          /\ ToSet(live) = ToSet(q) \cap (Vars \ {v})
          /\ Increasing(live)
      <4>1. live \in Seq(Inputs(n) \cap (Vars \ {v}))
        BY <3>2, SublistType
      <4>2. live \in Seq(Inputs(n))
        BY <4>1
      <4>3. Increasing(q)
        BY <2>1 DEF PrunedOK, q
      <4> QED BY <3>3, <4>2, <4>3, SublistFacts
    <3>5. Len(live) \in 0 .. L
      BY <1>1, <2>1, <3>2, <3>4
    <3> HIDE DEF live
    <3>6. /\ memory2 \in Seq(Inputs(n)) /\ Len(memory2) = L
          /\ SubSeq(memory2, 1, Len(live)) = live
      <4>1. Len(live) <= Len(s.memory)
        BY <2>1, <3>5
      <4> QED BY <2>1, <3>4, <4>1, OverwriteFacts
    <3> HIDE DEF memory2
    <3>7. s2.memory = memory2 /\ s2.size = Len(live) /\ Live(s2) = live
      BY <3>6
    <3>8. PrunedOK(n, live, support, remainder)
      <4>1. PrunedOK(n, q, support, remainder)
        BY <2>1 DEF q
      <4>2. ToSet(q) \subseteq Vars
        BY <3>2 DEF ToSet, Vars, Inputs
      <4> HIDE DEF v
      <4> QED BY <2>3, <3>4, <4>1, <4>2 DEF PrunedOK
    <3>9. s2 \in [memory : {m \in Seq(Inputs(n)) : Len(m) = L}, size : 0 .. L]
      BY <3>5, <3>6
    <3> HIDE DEF s2, Live
    <3>10. s2 \in D
      BY <3>7, <3>8, <3>9 DEF D
    <3> QED BY <3>1, <3>10
  <2> QED BY <2>2, <2>3
<1> HIDE DEF D
<1>5. F \in [D \X (1 .. L) -> D]
  BY <1>4
<1>6. PICK g \in [SUBSET (1 .. L) -> D] : FoldEquation(g, L, F, base)
  <2> HIDE DEF F, base, L
  <2> QED BY <1>1, <1>3, <1>5, FoldExists
<1> HIDE DEF base
<1>7. Eq(g)
  <2> SUFFICES ASSUME NEW t \in SUBSET (1 .. L)
               PROVE  g[t] = IF t = {} THEN base ELSE Visit(g[t \ {Max(t)}], idx[Max(t)])
    BY <1>6
  <2>1. CASE t = {}
    BY <1>6, <2>1 DEF FoldEquation
  <2>2. CASE t # {}
    <3>1. Max(t) \in 1 .. L
      BY <1>1, <2>2, MaxOfInterval
    <3>2. g[t \ {Max(t)}] \in D
      BY <1>6
    <3>3. g[t] = F[<<g[t \ {Max(t)}], Max(t)>>]
      BY <1>6, <2>2 DEF FoldEquation
    <3>4. F[<<g[t \ {Max(t)}], Max(t)>>] = Visit(g[t \ {Max(t)}], Max(t))
      BY <3>1, <3>2
    <3> HIDE DEF F, idx
    <3> QED BY <1>2, <2>2, <3>1, <3>3, <3>4
  <2> QED BY <2>1, <2>2
<1>8. Eq(h)
  <2> HIDE DEF Eq
  <2> QED BY <1>7
<1>9. Pruned = Live(h[1 .. L])
  <2>1. FoldLeft(Visit, base, idx) = h[1 .. L]
    BY <1>1 DEF FoldLeft, MapThenFoldSet
  <2> HIDE DEF h
  <2> QED BY <2>1 DEF Pruned, base
<1> HIDE DEF h
<1>10. \A t \in SUBSET (1 .. L) : h[t] \in D
  <2>1. h[{}] \in D
    BY <1>3, <1>8
  <2>2. ASSUME NEW t \in SUBSET (1 .. L), t # {}, h[t \ {Max(t)}] \in D
        PROVE  h[t] \in D
    <3>1. Max(t) \in 1 .. L
      BY <1>1, <2>2, MaxOfInterval
    <3>2. h[t] = Visit(h[t \ {Max(t)}], Max(t))
      BY <1>2, <1>8, <2>2, <3>1
    <3> QED BY <1>4, <2>2, <3>1, <3>2
  <2> QED BY <1>1, <2>1, <2>2, FoldRange
<1>11. h[1 .. L] \in D
  BY <1>10
<1> QED BY <1>9, <1>11 DEF D

(* The variable a split is made on is one of the support.                  *)
LEMMA LeastFacts ==
  ASSUME goal.inputs \in Nat, support \in Seq(Inputs(goal.inputs)), support # <<>>,
         s_num \in 0 .. 50
  PROVE  Least.var \in ToSet(support) /\ Least.sum \in 0 .. 50
<1> DEFINE L == Len(support)
           base == [var |-> support[1], sum |-> s_num]
           Better(m, v) == IF Sum(remainder, v) < m.sum
                             THEN [var |-> v, sum |-> Sum(remainder, v)] ELSE m
           D == [var : ToSet(support), sum : 0 .. 50]
           F == [q \in D \X (1 .. L) |-> Better(q[1], support[q[2]])]
           Eq(g) == g = [t \in SUBSET (1 .. L) |->
                           IF t = {} THEN base ELSE Better(g[t \ {Max(t)}], support[Max(t)])]
           h == CHOOSE g : Eq(g)
<1>1. L \in Nat /\ L # 0 /\ DOMAIN support = 1 .. L
  OBVIOUS
<1>2. \A i \in 1 .. L : support[i] \in ToSet(support)
  BY <1>1 DEF ToSet
<1>3. base \in D
  BY <1>1, <1>2
<1>4. \A v : Sum(remainder, v) \in Nat
  <2>1. \A f : Cardinality(SupportOf(f)) \in Nat
    <3>1. IsFiniteSet(Vars)
      <4>1. \A k \in Int : IsFiniteSet(0 .. k)
        BY FS_Interval
      <4>2. goal.inputs - 1 \in Int
        OBVIOUS
      <4> QED BY <4>1, <4>2, Zenon DEF Vars
    <3>2. \A f : SupportOf(f) \subseteq Vars
      BY DEF SupportOf
    <3> QED BY <3>1, <3>2, FS_Subset, FS_CardinalityType
  <2> QED BY <2>1 DEF Sum
<1>5. ASSUME NEW m \in D, NEW v \in ToSet(support) PROVE Better(m, v) \in D
  <2>1. CASE Sum(remainder, v) < m.sum
    <3>1. Sum(remainder, v) \in 0 .. 50
      <4>1. m.sum \in 0 .. 50 /\ Sum(remainder, v) \in Nat
        BY <1>4
      <4> DEFINE k == Sum(remainder, v)
                 l == m.sum
      <4>2. k < l /\ k \in Nat /\ l \in 0 .. 50
        BY <2>1, <4>1
      <4> HIDE DEF k, l
      <4>3. k \in 0 .. 50
        BY <4>2
      <4> QED BY <4>3 DEF k
    <3> QED BY <2>1, <3>1
  <2>2. CASE ~(Sum(remainder, v) < m.sum)
    BY <2>2
  <2> QED BY <2>1, <2>2
<1> HIDE DEF D, Better
<1>6. F \in [D \X (1 .. L) -> D]
  BY <1>2, <1>5
<1>7. PICK g \in [SUBSET (1 .. L) -> D] : FoldEquation(g, L, F, base)
  <2> HIDE DEF F, base, L
  <2> QED BY <1>1, <1>3, <1>6, FoldExists
<1> HIDE DEF base
<1>8. Eq(g)
  <2> SUFFICES ASSUME NEW t \in SUBSET (1 .. L)
               PROVE  g[t] = IF t = {} THEN base ELSE Better(g[t \ {Max(t)}], support[Max(t)])
    BY <1>7
  <2>1. CASE t = {}
    BY <1>7, <2>1 DEF FoldEquation
  <2>2. CASE t # {}
    <3>1. Max(t) \in 1 .. L
      BY <1>1, <2>2, MaxOfInterval
    <3>2. g[t \ {Max(t)}] \in D
      BY <1>7
    <3>3. g[t] = F[<<g[t \ {Max(t)}], Max(t)>>]
      BY <1>7, <2>2 DEF FoldEquation
    <3>4. F[<<g[t \ {Max(t)}], Max(t)>>] = Better(g[t \ {Max(t)}], support[Max(t)])
      BY <3>1, <3>2
    <3> HIDE DEF F
    <3> QED BY <2>2, <3>3, <3>4
  <2> QED BY <2>1, <2>2
<1>9. Eq(h)
  <2> HIDE DEF Eq
  <2> QED BY <1>8
<1>10. Least = h[1 .. L]
  BY <1>1 DEF Least, FoldLeft, MapThenFoldSet, Better, base
<1> HIDE DEF h
<1>11. \A t \in SUBSET (1 .. L) : h[t] \in D
  <2>1. h[{}] \in D
    BY <1>3, <1>9
  <2>2. ASSUME NEW t \in SUBSET (1 .. L), t # {}, h[t \ {Max(t)}] \in D
        PROVE  h[t] \in D
    <3>1. Max(t) \in 1 .. L
      BY <1>1, <2>2, MaxOfInterval
    <3>2. h[t] = Better(h[t \ {Max(t)}], support[Max(t)])
      BY <1>9, <2>2, <3>1
    <3> QED BY <1>2, <1>5, <2>2, <3>1, <3>2
  <2> QED BY <1>1, <2>1, <2>2, FoldRange
<1>12. h[1 .. L] \in D
  BY <1>11
<1> QED BY <1>10, <1>12 DEF D

-----------------------------------------------------------------------------
(***************************************************************************)
(* The calls that wait, the outermost first.                               *)
(***************************************************************************)
(* What is on the stack, for a LUT of n inputs.                            *)
Frame(n) ==
  [at : {"top"}, var : Inputs(n), table : SUBSET SUBSET (1 .. 2)]
    \cup [at : {"first"}, var : Inputs(n), other : SUBSET Points(n),
          support : Seq(Inputs(n)), pis : [Inputs(n) -> Nat]]
    \cup [at : {"second"}, var : Inputs(n), first : Nat]

(* The first half of a split will restore what the second starts from.     *)
FirstOK(n, last, frame) ==
  /\ Increasing(frame.support)
  /\ Covers(n, ToSet(frame.support), frame.other)
  /\ \A v \in Inputs(n) : frame.pis[v] \in 2 .. last

(* No call works on the variable of one that waits for it: neither the     *)
(* running one, with the variables S and the signals p, nor the second     *)
(* half of a split. The signals of such a variable are the same for both.  *)
FramesOK(n, last, frames, p, S) ==
  /\ \A d \in DOMAIN frames : frames[d].var \notin S
  /\ \A d \in DOMAIN frames : frames[d].at = "second" => frames[d].first <= last
  /\ \A d \in DOMAIN frames : frames[d].at = "first" =>
       /\ FirstOK(n, last, frames[d])
       /\ \A e \in 1 .. d : /\ frames[e].var \notin ToSet(frames[d].support)
                            /\ frames[d].pis[frames[e].var] = p[frames[e].var]

(* What a frame has by its kind.                                           *)
LEMMA FrameKinds ==
  ASSUME NEW n, NEW frame \in Frame(n)
  PROVE  /\ frame.at \in {"top", "first", "second"} /\ frame.var \in Inputs(n)
         /\ frame.at = "top" => frame.table \in SUBSET SUBSET (1 .. 2)
         /\ frame.at = "first" => /\ frame.other \in SUBSET Points(n)
                                  /\ frame.support \in Seq(Inputs(n))
                                  /\ frame.pis \in [Inputs(n) -> Nat]
         /\ frame.at = "second" => frame.first \in Nat
<1>1. CASE frame \in [at : {"top"}, var : Inputs(n), table : SUBSET SUBSET (1 .. 2)]
  BY <1>1
<1>2. CASE frame \in [at : {"first"}, var : Inputs(n), other : SUBSET Points(n),
                      support : Seq(Inputs(n)), pis : [Inputs(n) -> Nat]]
  BY <1>2
<1>3. CASE frame \in [at : {"second"}, var : Inputs(n), first : Nat]
  BY <1>3
<1> QED BY <1>1, <1>2, <1>3 DEF Frame

(* The network has grown, signals have kept their functions.               *)
Grows(n, network, value, network2, value2) ==
  /\ NetworkOK(n, network2)
  /\ Len(network2) \in Nat /\ Len(network2) >= Len(network)
  /\ IsValue(n, network2, value2)
  /\ \A k \in 1 .. n + 2 + Len(network) : value2[k] = value[k]

(* The variables p and the calls that wait have signals of the network.    *)
Signals(n, network, p) == p \in [Inputs(n) -> 2 .. n + 1 + Len(network)]
Calls(n, network, frames, p, S) ==
  frames \in Seq(Frame(n)) /\ FramesOK(n, n + 1 + Len(network), frames, p, S)

(* Every call waits for the same.                                          *)
SameWaits(n, frames, p, value, p2, value2) ==
  \A d \in DOMAIN frames : \A g :
    WaitOf(n, p2, frames[d], value2, g) = WaitOf(n, p, frames[d], value, g)

(* Calls that wait are not disturbed by new gates and by other variables   *)
(* that get other signals.                                                 *)
LEMMA FramesKept ==
  ASSUME NEW n \in Nat, NEW network, NetworkOK(n, network), NEW value,
         NEW network2, NEW value2, Grows(n, network, value, network2, value2),
         NEW p, Signals(n, network, p), NEW p2, NEW S, NEW S2,
         NEW frames, Calls(n, network, frames, p, S),
         \A d \in DOMAIN frames : frames[d].var \notin S2 /\ p2[frames[d].var] = p[frames[d].var]
  PROVE  /\ Calls(n, network2, frames, p2, S2)
         /\ SameWaits(n, frames, p, value, p2, value2)
<1> DEFINE L == Len(network)
           L2 == Len(network2)
<1>1. L \in Nat /\ L2 \in Nat /\ L <= L2
  BY DEF NetworkOK, Grows
<1>2. /\ \A k \in 1 .. n + 2 + L : value2[k] = value[k]
      /\ p \in [Inputs(n) -> 2 .. n + 1 + L]
      /\ frames \in Seq(Frame(n)) /\ FramesOK(n, n + 1 + L, frames, p, S)
  BY DEF Grows, Signals, Calls
<1>3. DOMAIN frames = 1 .. Len(frames) /\ Len(frames) \in Nat
      /\ \A d \in DOMAIN frames : frames[d] \in Frame(n)
  BY <1>2
<1>4. \A d \in DOMAIN frames : /\ frames[d].var \in Inputs(n) \ S2
                               /\ p2[frames[d].var] = p[frames[d].var]
  BY <1>3, FrameKinds
<1> HIDE DEF L, L2
<1>5. \A d \in DOMAIN frames : frames[d].at = "first" => FirstOK(n, n + 1 + L, frames[d])
  BY <1>2 DEF FramesOK
<1>6. FramesOK(n, n + 1 + L2, frames, p2, S2)
  <2>1. \A d \in DOMAIN frames : frames[d].var \notin S2
    BY <1>4
  <2>2. ASSUME NEW d \in DOMAIN frames, frames[d].at = "second"
        PROVE  frames[d].first <= n + 1 + L2
    <3>1. frames[d].first \in Nat /\ frames[d].first <= n + 1 + L
      BY <1>2, <1>3, <2>2, FrameKinds DEF FramesOK
    <3> QED BY <1>1, <3>1
  <2>3. ASSUME NEW d \in DOMAIN frames, frames[d].at = "first"
        PROVE  /\ FirstOK(n, n + 1 + L2, frames[d])
               /\ \A e \in 1 .. d : /\ frames[e].var \notin ToSet(frames[d].support)
                                    /\ frames[d].pis[frames[e].var] = p2[frames[e].var]
    <3>1. FirstOK(n, n + 1 + L2, frames[d])
      <4>1. \A v \in Inputs(n) : frames[d].pis[v] \in 2 .. n + 1 + L
        BY <1>5, <2>3 DEF FirstOK
      <4>2. \A v \in Inputs(n) : frames[d].pis[v] \in 2 .. n + 1 + L2
        BY <1>1, <4>1
      <4> QED BY <1>5, <2>3, <4>2 DEF FirstOK
    <3>2. \A e \in 1 .. d : e \in DOMAIN frames
      BY <1>3
    <3>3. \A e \in 1 .. d : /\ frames[e].var \notin ToSet(frames[d].support)
                            /\ frames[d].pis[frames[e].var] = p[frames[e].var]
      BY <1>2, <2>3 DEF FramesOK
    <3> QED BY <1>4, <3>1, <3>2, <3>3
  <2> QED BY <2>1, <2>2, <2>3 DEF FramesOK
<1>7. ASSUME NEW d \in DOMAIN frames, NEW g
      PROVE  WaitOf(n, p2, frames[d], value2, g) = WaitOf(n, p, frames[d], value, g)
  <2> DEFINE frame == frames[d]
  <2>1. value2[p2[frame.var] + 1] = value[p[frame.var] + 1]
    <3>1. p[frame.var] \in 2 .. n + 1 + L
      BY <1>2, <1>4
    <3>2. p[frame.var] + 1 \in 1 .. n + 2 + L
      BY <1>1, <3>1
    <3> QED BY <1>2, <1>4, <3>2
  <2>2. frame.at = "first" =>
          \A v \in Inputs(n) : value2[frame.pis[v] + 1] = value[frame.pis[v] + 1]
    <3> SUFFICES ASSUME frame.at = "first", NEW v \in Inputs(n)
                 PROVE  value2[frame.pis[v] + 1] = value[frame.pis[v] + 1]
      OBVIOUS
    <3> DEFINE k == frame.pis[v]
    <3>1. k \in 2 .. n + 1 + L
      BY <1>5 DEF FirstOK
    <3> HIDE DEF k
    <3>2. k + 1 \in 1 .. n + 2 + L
      BY <1>1, <3>1
    <3>3. value2[k + 1] = value[k + 1]
      BY <1>2, <3>2
    <3> QED BY <3>3 DEF k
  <2>3. frame.at = "second" => value2[frame.first + 1] = value[frame.first + 1]
    <3> SUFFICES ASSUME frame.at = "second"
                 PROVE  value2[frame.first + 1] = value[frame.first + 1]
      OBVIOUS
    <3>1. frame.first \in Nat /\ frame.first <= n + 1 + L
      BY <1>2, <1>3, FrameKinds DEF FramesOK
    <3>2. frame.first + 1 \in 1 .. n + 2 + L
      BY <1>1, <3>1
    <3> QED BY <1>2, <3>2
  <2>4. frame.at \in {"top", "first", "second"}
    BY <1>3, FrameKinds
  <2> HIDE DEF frame
  <2>5. WaitOf(n, p2, frame, value2, g) = WaitOf(n, p, frame, value, g)
    BY <2>1, <2>2, <2>3, <2>4, WaitKept
  <2> QED BY <2>5 DEF frame
<1> QED BY <1>2, <1>6, <1>7 DEF L2, Calls, SameWaits


-----------------------------------------------------------------------------
(* What the calls that wait make of f is g.                                *)
Due(n, p, frames, value, g, f) ==
  \E owed \in [0 .. Len(frames) -> SUBSET Points(n)] :
    /\ owed[0] = g
    /\ owed[Len(frames)] = f
    /\ \A d \in 1 .. Len(frames) : owed[d - 1] = WaitOf(n, p, frames[d], value, owed[d])

(* A call that waits returns a function of the inputs.                     *)
LEMMA WaitType ==
  ASSUME NEW n, NEW p, NEW frame, NEW value, NEW f
  PROVE  WaitOf(n, p, frame, value, f) \in SUBSET Points(n)
BY DEF WaitOf, Combine

(* With no call waiting, what is owed is what is returned.                 *)
LEMMA DueNone ==
  ASSUME NEW n, NEW p, NEW value, NEW g \in SUBSET Points(n)
  PROVE  Due(n, p, <<>>, value, g, g)
<1> DEFINE owed == [d \in 0 .. 0 |-> g]
<1>1. /\ owed \in [0 .. 0 -> SUBSET Points(n)] /\ owed[0] = g
      /\ Len(<<>>) = 0 /\ 1 .. 0 = {}
  OBVIOUS
<1> HIDE DEF owed
<1> QED BY <1>1 DEF Due

(* One more call waits.                                                    *)
LEMMA DuePushed ==
  ASSUME NEW n, NEW p, NEW value, NEW g, NEW f \in SUBSET Points(n),
         NEW frames \in Seq(Frame(n)), NEW frame \in Frame(n),
         Due(n, p, frames, value, g, WaitOf(n, p, frame, value, f))
  PROVE  Due(n, p, Append(frames, frame), value, g, f)
<1> DEFINE L == Len(frames)
           frames2 == Append(frames, frame)
           w == WaitOf(n, p, frame, value, f)
<1>1. /\ L \in Nat /\ Len(frames2) = L + 1
      /\ \A k \in 1 .. L : frames2[k] = frames[k]
      /\ frames2[L + 1] = frame
  BY AppendFacts
<1>2. PICK owed \in [0 .. L -> SUBSET Points(n)] :
        /\ owed[0] = g
        /\ owed[L] = w
        /\ \A d \in 1 .. L : owed[d - 1] = WaitOf(n, p, frames[d], value, owed[d])
  BY DEF Due
<1> DEFINE owed2 == [d \in 0 .. L + 1 |-> IF d = L + 1 THEN f ELSE owed[d]]
<1> HIDE DEF L, frames2, w
<1>3. owed2 \in [0 .. L + 1 -> SUBSET Points(n)]
  BY <1>1, <1>2
<1>4. owed2[0] = g /\ owed2[L + 1] = f
  BY <1>1, <1>2
<1>5. \A d \in 0 .. L : owed2[d] = owed[d]
  BY <1>1
<1> HIDE DEF owed2
<1>6. ASSUME NEW d \in 1 .. L + 1
      PROVE  owed2[d - 1] = WaitOf(n, p, frames2[d], value, owed2[d])
  <2>1. CASE d \in 1 .. L
    <3>1. d \in 0 .. L /\ d - 1 \in 0 .. L
      BY <1>1, <2>1
    <3> QED BY <1>1, <1>2, <1>5, <2>1, <3>1
  <2>2. CASE d = L + 1
    <3>1. d - 1 = L /\ L \in 0 .. L
      BY <1>1, <2>2
    <3>2. owed2[d - 1] = w
      BY <1>2, <1>5, <3>1
    <3> QED BY <1>1, <1>4, <2>2, <3>2 DEF w
  <2> QED BY <1>1, <2>1, <2>2
<1>7. Due(n, p, frames2, value, g, f)
  BY <1>1, <1>3, <1>4, <1>6 DEF Due
<1> QED BY <1>7 DEF frames2

(* What is left of the calls that wait when the last one goes on.          *)
LEMMA FrontFacts ==
  ASSUME NEW X, NEW s \in Seq(X), s # <<>>
  PROVE  /\ Front(s) \in Seq(X) /\ Len(Front(s)) = Len(s) - 1
         /\ \A k \in 1 .. Len(s) - 1 : Front(s)[k] = s[k]
         /\ Last(s) = s[Len(s)] /\ Len(s) \in DOMAIN s /\ Last(s) \in X
         /\ Len(s) \in Nat \ {0} /\ DOMAIN s = 1 .. Len(s)
         /\ DOMAIN Front(s) = 1 .. Len(s) - 1
<1>1. Len(s) \in Nat \ {0} /\ DOMAIN s = 1 .. Len(s) /\ Len(s) \in DOMAIN s
  OBVIOUS
<1>2. Front(s) = SubSeq(s, 1, Len(s) - 1) /\ Last(s) = s[Len(s)]
  BY DEF Front, Last
<1>3. Len(s) - 1 \in 0 .. Len(s)
  BY <1>1
<1>4. /\ SubSeq(s, 1, Len(s) - 1) \in Seq(X) /\ Len(SubSeq(s, 1, Len(s) - 1)) = Len(s) - 1
      /\ \A i \in 1 .. Len(s) - 1 : SubSeq(s, 1, Len(s) - 1)[i] = s[i]
  BY <1>3, FrontPartFacts
<1>5. DOMAIN SubSeq(s, 1, Len(s) - 1) = 1 .. Len(s) - 1
  BY <1>4
<1> QED BY <1>1, <1>2, <1>4, <1>5

(* The last call that waits goes on.                                       *)
LEMMA DuePopped ==
  ASSUME NEW n, NEW p, NEW value, NEW g, NEW f,
         NEW frames \in Seq(Frame(n)), frames # <<>>, Due(n, p, frames, value, g, f)
  PROVE  Due(n, p, Front(frames), value, g, WaitOf(n, p, Last(frames), value, f))
<1> DEFINE L == Len(frames)
           rest == Front(frames)
<1>1. /\ Len(rest) = L - 1 /\ \A k \in 1 .. L - 1 : rest[k] = frames[k]
      /\ Last(frames) = frames[L] /\ L \in Nat \ {0}
  BY FrontFacts
<1>2. PICK owed \in [0 .. L -> SUBSET Points(n)] :
        /\ owed[0] = g
        /\ owed[L] = f
        /\ \A d \in 1 .. L : owed[d - 1] = WaitOf(n, p, frames[d], value, owed[d])
  BY DEF Due
<1> DEFINE owed2 == [d \in 0 .. L - 1 |-> owed[d]]
<1> HIDE DEF L, rest
<1>3. owed2 \in [0 .. L - 1 -> SUBSET Points(n)]
  BY <1>1, <1>2
<1>4. \A d \in 0 .. L - 1 : owed2[d] = owed[d]
  OBVIOUS
<1> HIDE DEF owed2
<1>5. owed2[0] = g /\ owed2[L - 1] = WaitOf(n, p, Last(frames), value, f)
  <2>1. 0 \in 0 .. L - 1 /\ L - 1 \in 0 .. L - 1 /\ L \in 1 .. L
    BY <1>1
  <2> QED BY <1>1, <1>2, <1>4, <2>1
<1>6. ASSUME NEW d \in 1 .. L - 1
      PROVE  owed2[d - 1] = WaitOf(n, p, rest[d], value, owed2[d])
  <2>1. d \in 1 .. L /\ d \in 0 .. L - 1 /\ d - 1 \in 0 .. L - 1
    BY <1>1
  <2> QED BY <1>1, <1>2, <1>4, <2>1
<1>7. Due(n, p, rest, value, g, WaitOf(n, p, Last(frames), value, f))
  BY <1>1, <1>3, <1>5, <1>6 DEF Due
<1> QED BY <1>7 DEF rest

(* What is owed does not change when every call waits for the same.        *)
LEMMA DueKept ==
  ASSUME NEW n, NEW p, NEW value, NEW p2, NEW value2, NEW g, NEW f,
         NEW frames \in Seq(Frame(n)), Due(n, p, frames, value, g, f),
         SameWaits(n, frames, p, value, p2, value2)
  PROVE  Due(n, p2, frames, value2, g, f)
<1>1. PICK owed \in [0 .. Len(frames) -> SUBSET Points(n)] :
        /\ owed[0] = g
        /\ owed[Len(frames)] = f
        /\ \A d \in 1 .. Len(frames) : owed[d - 1] = WaitOf(n, p, frames[d], value, owed[d])
  BY DEF Due
<1>2. DOMAIN frames = 1 .. Len(frames)
  OBVIOUS
<1>3. \A d \in 1 .. Len(frames) : owed[d - 1] = WaitOf(n, p2, frames[d], value2, owed[d])
  BY <1>1, <1>2 DEF SameWaits
<1> QED BY <1>1, <1>3 DEF Due

(* A call waits for one on fewer variables, none of them its own.          *)
LEMMA FramesPushed ==
  ASSUME NEW n, NEW last, NEW frames \in Seq(Frame(n)), NEW frame \in Frame(n),
         NEW p, NEW S, NEW S2, FramesOK(n, last, frames, p, S), S2 \subseteq S,
         frame.var \notin S2, frame.at = "second" => frame.first <= last,
         frame.at = "first" =>
           FirstOK(n, last, frame) /\ frame.pis = p /\ ToSet(frame.support) \subseteq S2
  PROVE  /\ Append(frames, frame) \in Seq(Frame(n))
         /\ FramesOK(n, last, Append(frames, frame), p, S2)
<1> DEFINE L == Len(frames)
           frames2 == Append(frames, frame)
<1>1. /\ L \in Nat /\ DOMAIN frames = 1 .. L
      /\ frames2 \in Seq(Frame(n)) /\ DOMAIN frames2 = 1 .. L + 1
      /\ \A k \in 1 .. L : frames2[k] = frames[k]
      /\ frames2[L + 1] = frame
  BY AppendFacts
<1>2. /\ \A d \in 1 .. L : frames[d].var \notin S2
      /\ \A d \in 1 .. L : frames[d].at = "second" => frames[d].first <= last
      /\ \A d \in 1 .. L : frames[d].at = "first" =>
           /\ FirstOK(n, last, frames[d])
           /\ \A e \in 1 .. d : /\ frames[e].var \notin ToSet(frames[d].support)
                                /\ frames[d].pis[frames[e].var] = p[frames[e].var]
  BY <1>1 DEF FramesOK
<1> HIDE DEF L, frames2
<1>3. \A d \in 1 .. L + 1 : d \in 1 .. L \/ d = L + 1
  BY <1>1
<1>4. \A d \in 1 .. L + 1 : frames2[d].var \notin S2
  BY <1>1, <1>2, <1>3
<1>5. \A d \in 1 .. L + 1 : frames2[d].at = "second" => frames2[d].first <= last
  BY <1>1, <1>2, <1>3
<1>6. ASSUME NEW d \in 1 .. L + 1, frames2[d].at = "first"
      PROVE  /\ FirstOK(n, last, frames2[d])
             /\ \A e \in 1 .. d : /\ frames2[e].var \notin ToSet(frames2[d].support)
                                  /\ frames2[d].pis[frames2[e].var] = p[frames2[e].var]
  <2>1. CASE d \in 1 .. L
    <3>1. \A e \in 1 .. d : e \in 1 .. L
      BY <1>1, <2>1
    <3> QED BY <1>1, <1>2, <1>6, <2>1, <3>1
  <2>2. CASE d = L + 1
    <3>1. frames2[d] = frame
      BY <1>1, <2>2
    <3> QED BY <1>4, <1>6, <2>2, <3>1
  <2> QED BY <1>3, <2>1, <2>2
<1>7. FramesOK(n, last, frames2, p, S2)
  BY <1>1, <1>4, <1>5, <1>6 DEF FramesOK
<1> QED BY <1>1, <1>7 DEF frames2

(* The calls before the last that waits.                                   *)
LEMMA FramesPopped ==
  ASSUME NEW n, NEW last, NEW frames \in Seq(Frame(n)), frames # <<>>,
         NEW p, NEW S, FramesOK(n, last, frames, p, S)
  PROVE  Front(frames) \in Seq(Frame(n)) /\ FramesOK(n, last, Front(frames), p, S)
<1> DEFINE L == Len(frames)
           rest == Front(frames)
<1>1. /\ rest \in Seq(Frame(n)) /\ DOMAIN rest = 1 .. L - 1
      /\ \A k \in 1 .. L - 1 : rest[k] = frames[k]
      /\ L \in Nat \ {0} /\ DOMAIN frames = 1 .. L
  BY FrontFacts
<1>2. /\ \A d \in 1 .. L : frames[d].var \notin S
      /\ \A d \in 1 .. L : frames[d].at = "second" => frames[d].first <= last
      /\ \A d \in 1 .. L : frames[d].at = "first" =>
           /\ FirstOK(n, last, frames[d])
           /\ \A e \in 1 .. d : /\ frames[e].var \notin ToSet(frames[d].support)
                                /\ frames[d].pis[frames[e].var] = p[frames[e].var]
  BY <1>1 DEF FramesOK
<1> HIDE DEF L, rest
<1>3. \A d \in 1 .. L - 1 : d \in 1 .. L /\ \A e \in 1 .. d : e \in 1 .. L - 1
  BY <1>1
<1>4. FramesOK(n, last, rest, p, S)
  BY <1>1, <1>2, <1>3 DEF FramesOK
<1> QED BY <1>1, <1>4 DEF rest

-----------------------------------------------------------------------------
(***************************************************************************)
(* The inductive invariant.                                                *)
(***************************************************************************)
Tests == {"top", "bottom", "xor", "mux", "maj", "split"}
Over == {"copied", "undefined"}

(* The variables have values of the right kinds; what is left depends on   *)
(* no variable but those of the support.                                   *)
Shape(n, network, f, s, p, frames, r, at) ==
  /\ NetworkOK(n, network)
  /\ f \in SUBSET Points(n)
  /\ s \in Seq(Inputs(n)) /\ Increasing(s)
  /\ Signals(n, network, p)
  /\ Calls(n, network, frames, p, ToSet(s))
  /\ r \in 0 .. n + 1 + Len(network)
  /\ at \in {"run"} \cup Tests => Covers(n, ToSet(s), f)
  /\ at \in Tests => s # <<>>

(* What the running call returns, or is to return.                         *)
Now(n, f, p, r, at, value) ==
  IF at = "return" THEN value[r + 1] ELSE Reading(n, f, p, value)

(* What the calls make of it is the function g of the LUT.                 *)
Kept(n, g, network, f, p, frames, r, at) ==
  at \notin Over =>
    \E value : /\ IsValue(n, network, value)
               /\ Due(n, p, frames, value, g, Now(n, f, p, r, at, value))

(* Both, for the LUT with the function g.                                  *)
Sound(n, g, network, f, s, p, frames, r, at) ==
  /\ Shape(n, network, f, s, p, frames, r, at)
  /\ Kept(n, g, network, f, p, frames, r, at)

(* Nothing was added.                                                      *)
LEMMA GrowsNot ==
  ASSUME NEW n, NEW network, NetworkOK(n, network), NEW value, IsValue(n, network, value)
  PROVE  Grows(n, network, value, network, value)
<1>1. Len(network) \in Nat
  BY DEF NetworkOK
<1> QED BY <1>1 DEF Grows

(* A gate was added, or found.                                             *)
LEMMA GrowsByGate ==
  ASSUME NEW n, NEW network, NEW value, NEW fanins, NEW table, NEW network2, NEW signal,
         NEW value2, Adds(n, network, value, fanins, table, network2, signal, value2)
  PROVE  Grows(n, network, value, network2, value2)
<1>1. Len(network2) \in Nat
  BY DEF Adds, NetworkOK
<1> QED BY <1>1 DEF Grows, Adds

(* The functions of the signals are functions of the inputs.               *)
LEMMA ValueType ==
  ASSUME NEW n \in Nat, NEW network, NetworkOK(n, network), NEW value,
         IsValue(n, network, value), NEW k \in 0 .. n + 1 + Len(network)
  PROVE  value[k + 1] \in SUBSET Points(n)
<1> DEFINE L == Len(network)
<1>1. L \in Nat
  BY DEF NetworkOK
<1>2. value \in [1 .. n + 2 + L -> SUBSET Points(n)]
  BY DEF IsValue
<1> HIDE DEF L
<1>3. k + 1 \in 1 .. n + 2 + L
  <2>1. k \in 0 .. n + 1 + L
    BY DEF L
  <2> QED BY <1>1, <2>1
<1> QED BY <1>2, <1>3

(* The calls that wait and some of their variables are not disturbed when  *)
(* the network grows and other variables get other signals.                *)
LEMMA MovedCalls ==
  ASSUME NEW n \in Nat, NEW network, NEW f, NEW s, NEW p, NEW frames, NEW r, NEW at,
         Shape(n, network, f, s, p, frames, r, at),
         NEW value, NEW network2, NEW value2, Grows(n, network, value, network2, value2),
         NEW S2, S2 \subseteq ToSet(s), NEW p2,
         \A v \in Inputs(n) \ ToSet(s) : p2[v] = p[v]
  PROVE  /\ Calls(n, network2, frames, p2, S2)
         /\ SameWaits(n, frames, p, value, p2, value2)
<1>1. NetworkOK(n, network) /\ Signals(n, network, p) /\ Calls(n, network, frames, p, ToSet(s))
  BY DEF Shape
<1>2. /\ frames \in Seq(Frame(n))
      /\ \A d \in DOMAIN frames : frames[d] \in Frame(n) /\ frames[d].var \notin ToSet(s)
  BY <1>1 DEF Calls, FramesOK
<1>3. \A d \in DOMAIN frames : frames[d].var \in Inputs(n) \ ToSet(s)
  BY <1>2, FrameKinds
<1>4. \A d \in DOMAIN frames : frames[d].var \notin S2 /\ p2[frames[d].var] = p[frames[d].var]
  BY <1>3
<1> QED BY <1>1, <1>4, FramesKept

(* The signals are the signals of a larger network.                        *)
LEMMA SignalsStay ==
  ASSUME NEW n \in Nat, NEW network, NetworkOK(n, network), NEW value, NEW network2, NEW value2,
         Grows(n, network, value, network2, value2)
  PROVE  \A k : k \in 0 .. n + 1 + Len(network) => k \in 0 .. n + 1 + Len(network2)
<1> DEFINE L == Len(network)
           L2 == Len(network2)
<1>1. L \in Nat /\ L2 \in Nat /\ L <= L2
  BY DEF NetworkOK, Grows
<1> HIDE DEF L, L2
<1>2. \A k : k \in 0 .. n + 1 + L => k \in 0 .. n + 1 + L2
  BY <1>1
<1> QED BY <1>2 DEF L, L2

(* The running call returns.                                               *)
LEMMA Returned ==
  ASSUME NEW n \in Nat, NEW g, NEW network, NEW f, NEW s, NEW p, NEW frames, NEW r, NEW at,
         Shape(n, network, f, s, p, frames, r, at),
         NEW value, NEW x, Due(n, p, frames, value, g, x),
         NEW network2, NEW value2, Grows(n, network, value, network2, value2),
         NEW s2 \in Seq(Inputs(n)), Increasing(s2), ToSet(s2) \subseteq ToSet(s),
         NEW r2 \in 0 .. n + 1 + Len(network2), value2[r2 + 1] = x
  PROVE  Sound(n, g, network2, f, s2, p, frames, r2, "return")
<1>1. NetworkOK(n, network) /\ Signals(n, network, p) /\ f \in SUBSET Points(n)
  BY DEF Shape
<1>2. /\ Calls(n, network2, frames, p, ToSet(s2))
      /\ Due(n, p, frames, value2, g, x)
  <2>1. /\ Calls(n, network2, frames, p, ToSet(s2))
        /\ SameWaits(n, frames, p, value, p, value2)
    BY MovedCalls
  <2>2. frames \in Seq(Frame(n))
    BY <2>1 DEF Calls
  <2> QED BY <2>1, <2>2, DueKept
<1>3. Signals(n, network2, p)
  <2> DEFINE L == Len(network)
             L2 == Len(network2)
  <2>1. L \in Nat /\ L2 \in Nat /\ L <= L2
    BY <1>1 DEF NetworkOK, Grows
  <2>2. p \in [Inputs(n) -> 2 .. n + 1 + L]
    BY <1>1 DEF Signals
  <2> HIDE DEF L, L2
  <2>3. 2 .. n + 1 + L \subseteq 2 .. n + 1 + L2
    BY <2>1
  <2>4. p \in [Inputs(n) -> 2 .. n + 1 + L2]
    BY <2>2, <2>3
  <2> QED BY <2>4 DEF L2, Signals
<1>4. "return" \notin {"run"} \cup Tests /\ "return" \notin Over
  BY DEF Tests, Over
<1>5. NetworkOK(n, network2) /\ IsValue(n, network2, value2)
  BY DEF Grows
<1>6. Shape(n, network2, f, s2, p, frames, r2, "return")
  BY <1>1, <1>2, <1>3, <1>4, <1>5 DEF Shape
<1>7. Kept(n, g, network2, f, p, frames, r2, "return")
  BY <1>2, <1>5 DEF Kept, Now
<1> QED BY <1>6, <1>7 DEF Sound

(* The running call goes on with some of its variables.                    *)
LEMMA Continued ==
  ASSUME NEW n \in Nat, NEW g, NEW network, NEW f, NEW s, NEW p, NEW frames, NEW r, NEW at,
         Shape(n, network, f, s, p, frames, r, at),
         NEW value, NEW x, Due(n, p, frames, value, g, x),
         NEW network2, NEW value2, Grows(n, network, value, network2, value2),
         NEW f2 \in SUBSET Points(n),
         NEW s2 \in Seq(Inputs(n)), Increasing(s2), ToSet(s2) \subseteq ToSet(s),
         Covers(n, ToSet(s2), f2),
         NEW p2, Signals(n, network2, p2),
         \A v \in Inputs(n) \ ToSet(s) : p2[v] = p[v],
         Reading(n, f2, p2, value2) = x,
         NEW at2 \in {"run"} \cup Tests, at2 \in Tests => s2 # <<>>
  PROVE  Sound(n, g, network2, f2, s2, p2, frames, r, at2)
<1>1. NetworkOK(n, network) /\ r \in 0 .. n + 1 + Len(network)
  BY DEF Shape
<1>2. /\ Calls(n, network2, frames, p2, ToSet(s2))
      /\ Due(n, p2, frames, value2, g, x)
  <2>1. /\ Calls(n, network2, frames, p2, ToSet(s2))
        /\ SameWaits(n, frames, p, value, p2, value2)
    BY MovedCalls
  <2>2. frames \in Seq(Frame(n))
    BY <2>1 DEF Calls
  <2> QED BY <2>1, <2>2, DueKept
<1>3. NetworkOK(n, network2) /\ IsValue(n, network2, value2)
  BY DEF Grows
<1>4. r \in 0 .. n + 1 + Len(network2)
  BY <1>1, SignalsStay
<1>5. Shape(n, network2, f2, s2, p2, frames, r, at2)
  BY <1>1, <1>2, <1>3, <1>4 DEF Shape
<1>6. at2 # "return"
  BY DEF Tests
<1>7. Kept(n, g, network2, f2, p2, frames, r, at2)
  BY <1>2, <1>3, <1>6 DEF Kept, Now
<1> QED BY <1>5, <1>7 DEF Sound

(* Invariant is inductive; FunctionKept alone is not: it says nothing of   *)
(* the signals and supports that the waiting calls have saved.             *)
Invariant ==
  /\ goal \in Functions
  /\ phase \in Phases
  /\ s_num \in 0 .. 50
  /\ Sound(goal.inputs, goal.on, nodes, remainder, support, pis, stack, result, phase)

(* The words of the model and those of the proofs.                         *)
LEMMA Words ==
  ASSUME goal \in Functions
  PROVE  /\ goal.inputs \in Nat /\ goal.on \in SUBSET Assignments
         /\ Vars = Inputs(goal.inputs) /\ Assignments = Points(goal.inputs)
         /\ NumPi = goal.inputs + 1
BY FunctionsAssumption DEF Vars, Assignments, Inputs, Points, NumPi

(* A function that does not depend on the other variables.                 *)
LEMMA CoversVars ==
  ASSUME goal \in Functions, NEW f, NEW S
  PROVE  Covers(goal.inputs, S, f) <=> \A v \in Vars \ S : ~HasVar(f, v)
<1> DEFINE n == goal.inputs
<1>1. Vars = Inputs(n) /\ Assignments = Points(n)
  BY Words
<1>2. \A v \in Vars : ~HasVar(f, v) <=> Free(n, f, v)
  BY <1>1, HasVarPoints DEF Free
<1> QED BY <1>1, <1>2 DEF Covers

(* The support without the variables D.                                    *)
LEMMA Without ==
  ASSUME goal \in Functions, support \in Seq(Inputs(goal.inputs)), Increasing(support),
         NEW D, NEW s2, s2 = Sublist(support, Vars \ D)
  PROVE  /\ s2 \in Seq(Inputs(goal.inputs)) /\ Increasing(s2)
         /\ ToSet(s2) = ToSet(support) \ D
<1> DEFINE n == goal.inputs
           S == Vars \ D
<1>1. Vars = Inputs(n) /\ Inputs(n) \subseteq Int
  BY Words DEF Inputs
<1>2. support \in Seq(Int)
  BY <1>1
<1>3. Sublist(support, S) \in Seq(Inputs(n) \cap S)
  BY SublistType
<1>4. Increasing(s2) /\ ToSet(s2) = ToSet(support) \cap S
  BY <1>2, SublistFacts
<1>5. ToSet(support) \subseteq Vars
  BY <1>1 DEF ToSet
<1> HIDE DEF n, S
<1>6. s2 \in Seq(Inputs(n))
  BY <1>3 DEF S
<1> QED BY <1>4, <1>5, <1>6 DEF n, S

(* The network and the functions of its signals before there is a gate.    *)
LEMMA NoGates ==
  ASSUME NEW n \in Nat
  PROVE  /\ NetworkOK(n, <<>>)
         /\ \E value : IsValue(n, <<>>, value)
<1>1. NetworkOK(n, <<>>)
  BY DEF NetworkOK
<1> DEFINE value == [k \in 1 .. n + 2 |->
                       IF k = 1 THEN {} ELSE IF k = 2 THEN Points(n)
                       ELSE {a \in Points(n) : k - 3 \in a}]
<1>2. value \in [1 .. n + 2 -> SUBSET Points(n)]
  OBVIOUS
<1>3. value[1] = {} /\ value[2] = Points(n)
  OBVIOUS
<1>4. ASSUME NEW v \in Inputs(n) PROVE value[v + 3] = {a \in Points(n) : v \in a}
  <2>1. v + 3 \in 1 .. n + 2 /\ v + 3 # 1 /\ v + 3 # 2 /\ (v + 3) - 3 = v
    BY DEF Inputs
  <2> QED BY <2>1
<1> HIDE DEF value
<1>5. Len(<<>>) = 0 /\ n + 2 + 0 = n + 2 /\ DOMAIN <<>> = {}
  OBVIOUS
<1>6. IsValue(n, <<>>, value)
  BY <1>2, <1>3, <1>4, <1>5 DEF IsValue
<1> QED BY <1>1, <1>6

(* At the start nothing is built and the whole function is left.           *)
LEMMA InitSound == Init => Invariant
<1> SUFFICES ASSUME Init PROVE Invariant
  OBVIOUS
<1> DEFINE n == goal.inputs
           all == [i \in 1 .. goal.inputs |-> i - 1]
<1>1. /\ goal \in Functions /\ nodes = <<>> /\ remainder = goal.on
      /\ support = Sublist(all, SupportOf(goal.on))
      /\ pis = [v \in Vars |-> v + 2]
      /\ s_num = 50 /\ stack = <<>> /\ result = 0 /\ phase = "run"
  BY DEF Init
<1>2. /\ n \in Nat /\ goal.on \in SUBSET Assignments
      /\ Vars = Inputs(n) /\ Assignments = Points(n)
  BY <1>1, Words
<1>3. phase \in Phases /\ s_num \in 0 .. 50
  BY <1>1 DEF Phases
<1>4. /\ NetworkOK(n, nodes)
      /\ \E value : IsValue(n, nodes, value)
  BY <1>1, <1>2, NoGates
<1>5. /\ support \in Seq(Inputs(n)) /\ Increasing(support)
      /\ ToSet(support) = SupportOf(goal.on)
  <2>1. all \in Seq(Inputs(n)) /\ all \in Seq(Int)
    BY <1>2 DEF Inputs
  <2>2. Increasing(all)
    BY <1>2 DEF Increasing
  <2>3. ToSet(all) = Inputs(n)
    <3>1. \A v \in Inputs(n) : v + 1 \in DOMAIN all /\ all[v + 1] = v
      BY <1>2 DEF Inputs
    <3> HIDE DEF all, n
    <3>2. \A i \in DOMAIN all : all[i] \in Inputs(n)
      BY <2>1
    <3> QED BY <3>1, <3>2 DEF ToSet
  <2>4. SupportOf(goal.on) \subseteq Inputs(n)
    BY <1>2 DEF SupportOf
  <2> HIDE DEF all
  <2>5. /\ ToSet(support) = ToSet(all) \cap SupportOf(goal.on)
        /\ Increasing(support)
    BY <1>1, <2>1, <2>2, SublistFacts
  <2>6. support \in Seq(Inputs(n) \cap SupportOf(goal.on))
    BY <1>1, <2>1, SublistType
  <2>7. Inputs(n) \cap SupportOf(goal.on) = SupportOf(goal.on)
    BY <2>4
  <2>8. support \in Seq(Inputs(n))
    BY <2>4, <2>6, <2>7
  <2> QED BY <2>3, <2>4, <2>5, <2>8
<1>6. Covers(n, ToSet(support), remainder)
  <2>1. \A v \in Vars \ ToSet(support) : ~HasVar(remainder, v)
    BY <1>1, <1>5 DEF SupportOf
  <2> QED BY <1>1, <2>1, CoversVars
<1>7. \A v \in Inputs(n) : pis[v] = v + 2
  BY <1>1, <1>2
<1>8. Signals(n, nodes, pis)
  <2>1. Len(nodes) = 0
    BY <1>1
  <2>2. \A v \in Inputs(n) : v + 2 \in 2 .. n + 1 + 0
    BY <1>2 DEF Inputs
  <2> QED BY <1>1, <1>2, <2>1, <2>2 DEF Signals
<1>9. Calls(n, nodes, stack, pis, ToSet(support))
  BY <1>1 DEF Calls, FramesOK
<1>10. result \in 0 .. n + 1 + Len(nodes)
  BY <1>1, <1>2
<1>11. Shape(n, nodes, remainder, support, pis, stack, result, phase)
  <2>1. phase \notin Tests
    BY <1>1 DEF Tests
  <2> QED BY <1>1, <1>2, <1>4, <1>5, <1>6, <1>8, <1>9, <1>10, <2>1 DEF Shape
<1>12. Kept(n, goal.on, nodes, remainder, pis, stack, result, phase)
  <2>1. PICK value : IsValue(n, nodes, value)
    BY <1>4
  <2>2. ASSUME NEW a \in Points(n) PROVE Values(n, pis, value, a) = a
    <3>1. \A v \in Inputs(n) : value[v + 3] = {c \in Points(n) : v \in c}
      BY <2>1 DEF IsValue
    <3>2. ASSUME NEW v \in Inputs(n) PROVE a \in value[pis[v] + 1] <=> v \in a
      <4>1. pis[v] + 1 = v + 3
        BY <1>7 DEF Inputs
      <4> QED BY <3>1, <4>1
    <3>3. a \subseteq Inputs(n)
      BY DEF Points
    <3> QED BY <3>2, <3>3 DEF Values
  <2>3. Reading(n, remainder, pis, value) = goal.on
    <3>1. goal.on \subseteq Points(n)
      BY <1>2
    <3> QED BY <1>1, <2>2, <3>1 DEF Reading
  <2>4. Due(n, pis, stack, value, goal.on, goal.on)
    BY <1>1, <1>2, DueNone
  <2>5. phase # "return"
    BY <1>1
  <2> QED BY <2>1, <2>3, <2>4, <2>5 DEF Kept, Now
<1> QED BY <1>1, <1>3, <1>11, <1>12 DEF Invariant, Sound

-----------------------------------------------------------------------------
(***************************************************************************)
(* The terminal cases of run.                                              *)
(***************************************************************************)
(* What a step of the running call starts from.                            *)
LEMMA Running ==
  ASSUME Invariant, phase \notin {"return"} \cup Over
  PROVE  /\ goal \in Functions /\ goal.inputs \in Nat
         /\ Shape(goal.inputs, nodes, remainder, support, pis, stack, result, phase)
         /\ NetworkOK(goal.inputs, nodes) /\ remainder \in SUBSET Assignments
         /\ support \in Seq(Inputs(goal.inputs)) /\ Increasing(support)
         /\ Signals(goal.inputs, nodes, pis)
         /\ Covers(goal.inputs, ToSet(support), remainder)
         /\ \E value :
              /\ IsValue(goal.inputs, nodes, value)
              /\ Due(goal.inputs, pis, stack, value, goal.on,
                     Reading(goal.inputs, remainder, pis, value))
<1> DEFINE n == goal.inputs
<1>1. goal \in Functions /\ n \in Nat /\ Assignments = Points(n)
  BY Words DEF Invariant
<1>2. /\ Shape(n, nodes, remainder, support, pis, stack, result, phase)
      /\ Kept(n, goal.on, nodes, remainder, pis, stack, result, phase)
  BY DEF Invariant, Sound
<1>3. phase \in {"run"} \cup Tests
  BY DEF Invariant, Phases, Over, Tests
<1>4. /\ NetworkOK(n, nodes) /\ remainder \in SUBSET Assignments
      /\ support \in Seq(Inputs(n)) /\ Increasing(support)
      /\ Signals(n, nodes, pis)
      /\ Covers(n, ToSet(support), remainder)
  BY <1>1, <1>2, <1>3 DEF Shape
<1>5. \E value : /\ IsValue(n, nodes, value)
                 /\ Due(n, pis, stack, value, goal.on, Reading(n, remainder, pis, value))
  BY <1>2 DEF Kept, Now
<1> QED BY <1>1, <1>2, <1>4, <1>5

(* What is pruned still covers what is left.                               *)
LEMMA PrunedCovers ==
  ASSUME Invariant, phase = "run"
  PROVE  /\ Pruned \in Seq(Inputs(goal.inputs)) /\ Increasing(Pruned)
         /\ ToSet(Pruned) \subseteq ToSet(support)
         /\ Covers(goal.inputs, ToSet(Pruned), remainder)
<1>1. phase \notin {"return"} \cup Over
  BY DEF Over
<1>2. /\ goal \in Functions /\ goal.inputs \in Nat
      /\ support \in Seq(Inputs(goal.inputs)) /\ Increasing(support)
      /\ Covers(goal.inputs, ToSet(support), remainder)
  BY <1>1, Running
<1>3. PrunedOK(goal.inputs, Pruned, support, remainder)
  BY <1>2, PrunedFacts
<1>4. \A v \in Vars \ ToSet(Pruned) : ~HasVar(remainder, v)
  <2>1. \A v \in Vars \ ToSet(support) : ~HasVar(remainder, v)
    BY <1>2, CoversVars
  <2> QED BY <1>3, <2>1 DEF PrunedOK
<1>5. Covers(goal.inputs, ToSet(Pruned), remainder)
  BY <1>2, <1>4, CoversVars
<1> QED BY <1>3, <1>5 DEF PrunedOK

(* The invariant after a step, from what holds of the new values.          *)
LEMMA Rebuilt ==
  ASSUME Invariant, goal' = goal, phase' \in Phases, s_num' \in 0 .. 50,
         Sound(goal.inputs, goal.on, nodes', remainder', support', pis', stack', result', phase')
  PROVE  Invariant'
BY DEF Invariant

(* The running call returns what it was to return.                         *)
LEMMA ReturnsReading ==
  ASSUME Invariant, phase = "run", NEW value, IsValue(goal.inputs, nodes, value),
         Due(goal.inputs, pis, stack, value, goal.on,
             Reading(goal.inputs, remainder, pis, value)),
         NEW value2, Grows(goal.inputs, nodes, value, nodes', value2),
         result' \in 0 .. goal.inputs + 1 + Len(nodes'),
         value2[result' + 1] = Reading(goal.inputs, remainder, pis, value),
         support' = Pruned, phase' = "return", UNCHANGED <<goal, remainder, pis, s_num, stack>>
  PROVE  Invariant'
<1> DEFINE n == goal.inputs
           x == Reading(n, remainder, pis, value)
           s2 == Pruned
           g == goal.on
           network2 == nodes'
           r2 == result'
<1>1. phase \notin {"return"} \cup Over
  BY DEF Over
<1>2. /\ n \in Nat /\ NetworkOK(n, nodes)
      /\ Shape(n, nodes, remainder, support, pis, stack, result, phase)
  BY <1>1, Running
<1>3. /\ s2 \in Seq(Inputs(n)) /\ Increasing(s2) /\ ToSet(s2) \subseteq ToSet(support)
  BY PrunedCovers
<1>4. /\ Due(n, pis, stack, value, g, x) /\ value2[r2 + 1] = x
      /\ Grows(n, nodes, value, network2, value2) /\ r2 \in 0 .. n + 1 + Len(network2)
  OBVIOUS
<1> HIDE DEF n, x, s2, g, network2, r2
<1>5. Sound(n, g, network2, remainder, s2, pis, stack, r2, "return")
  BY <1>2, <1>3, <1>4, Returned
<1>6. Sound(goal.inputs, goal.on, nodes', remainder', support', pis', stack', result', phase')
  BY <1>5 DEF n, g, s2, network2, r2
<1>7. phase' \in Phases /\ s_num' \in 0 .. 50
  BY DEF Phases, Invariant
<1> QED BY <1>6, <1>7, Rebuilt

(* A constant is left.                                                     *)
LEMMA ReturnConstantSound == Invariant /\ ReturnConstant => Invariant'
<1> SUFFICES ASSUME Invariant, ReturnConstant PROVE Invariant'
  OBVIOUS
<1> DEFINE n == goal.inputs
           r2 == IF remainder = {} THEN 0 ELSE 1
<1>1. /\ phase = "run" /\ remainder \in {{}, Assignments}
      /\ support' = Pruned /\ result' = r2 /\ phase' = "return"
      /\ UNCHANGED <<goal, nodes, remainder, pis, s_num, stack>>
  BY DEF ReturnConstant, Return
<1>2. phase \notin {"return"} \cup Over
  BY <1>1 DEF Over
<1>3. n \in Nat /\ NetworkOK(n, nodes) /\ Assignments = Points(n)
  BY <1>2, Running, Words
<1>4. PICK value : /\ IsValue(n, nodes, value)
                   /\ Due(n, pis, stack, value, goal.on, Reading(n, remainder, pis, value))
  BY <1>2, Running
<1>5. value[r2 + 1] = Reading(n, remainder, pis, value)
  <2>1. value[1] = {} /\ value[2] = Points(n)
    BY <1>4 DEF IsValue
  <2>2. CASE remainder = {}
    <3>1. Reading(n, remainder, pis, value) = {}
      BY <2>2 DEF Reading
    <3> QED BY <2>1, <2>2, <3>1
  <2>3. CASE remainder # {}
    <3>1. remainder = Points(n)
      BY <1>1, <1>3, <2>3
    <3>2. \A a \in Points(n) : Values(n, pis, value, a) \in Points(n)
      BY DEF Values, Points
    <3>3. Reading(n, remainder, pis, value) = Points(n)
      BY <3>1, <3>2 DEF Reading
    <3> QED BY <2>1, <2>3, <3>3
  <2> QED BY <2>2, <2>3
<1>6. r2 \in 0 .. n + 1 + Len(nodes)
  <2>1. Len(nodes) \in Nat
    BY <1>3 DEF NetworkOK
  <2> QED BY <1>3, <2>1
<1>7. Grows(n, nodes, value, nodes, value)
  BY <1>3, <1>4, GrowsNot
<1> QED BY <1>1, <1>4, <1>5, <1>6, <1>7, ReturnsReading

(* A function of one variable is the variable or its complement.           *)
LEMMA OneVariable ==
  ASSUME NEW n, NEW v \in Inputs(n), n \in Nat, NEW f \in SUBSET Points(n),
         Covers(n, {v}, f), f # {}, f # Points(n)
  PROVE  \/ \A b \in Points(n) : b \in f <=> v \in b
         \/ \A b \in Points(n) : b \in f <=> v \notin b
<1>1. PICK one \in Points(n) : one \in f
  OBVIOUS
<1>2. PICK zero \in Points(n) : zero \notin f
  OBVIOUS
<1>3. ASSUME NEW b \in Points(n), NEW c \in Points(n), v \in b <=> v \in c
      PROVE  b \in f <=> c \in f
  <2>1. b \cap {v} = c \cap {v}
    BY <1>3
  <2> HIDE DEF Covers
  <2> QED BY <2>1, Agree
<1>4. (v \in one) # (v \in zero)
  BY <1>1, <1>2, <1>3
<1>5. CASE v \in one
  <2>1. ASSUME NEW b \in Points(n) PROVE b \in f <=> v \in b
    BY <1>1, <1>2, <1>3, <1>4, <1>5
  <2> QED BY <2>1
<1>6. CASE v \notin one
  <2>1. ASSUME NEW b \in Points(n) PROVE b \in f <=> v \notin b
    BY <1>1, <1>2, <1>3, <1>4, <1>6
  <2> QED BY <2>1
<1> QED BY <1>5, <1>6

(* A gate of one fanin.                                                    *)
LEMMA GateOneOK ==
  ASSUME NEW last, NEW r \in Nat, r <= last
  PROVE  GateOK(<<r>>, Not1, last)
<1>1. /\ <<r>> \in Seq(Nat) /\ Len(<<r>>) = 1 /\ DOMAIN <<r>> = 1 .. 1
      /\ \A p \in 1 .. 1 : <<r>>[p] = r
  OBVIOUS
<1>2. Not1 \in SUBSET SUBSET (1 .. 1)
  BY DEF Not1
<1> QED BY <1>1, <1>2 DEF GateOK

(* A gate of two fanins.                                                   *)
LEMMA GateTwoOK ==
  ASSUME NEW last, NEW r \in Nat, r <= last, NEW s \in Nat, s <= last,
         NEW table \in SUBSET SUBSET (1 .. 2)
  PROVE  GateOK(<<r, s>>, table, last)
<1>1. /\ <<r, s>> \in Seq(Nat) /\ Len(<<r, s>>) = 2 /\ DOMAIN <<r, s>> = 1 .. 2
      /\ \A p \in 1 .. 2 : <<r, s>>[p] = r \/ <<r, s>>[p] = s
  OBVIOUS
<1> QED BY <1>1 DEF GateOK

(* A gate of three fanins.                                                 *)
LEMMA GateThreeOK ==
  ASSUME NEW last, NEW r \in Nat, r <= last, NEW s \in Nat, s <= last,
         NEW t \in Nat, t <= last, NEW table \in SUBSET SUBSET (1 .. 3)
  PROVE  GateOK(<<r, s, t>>, table, last)
<1>1. /\ <<r, s, t>> \in Seq(Nat) /\ Len(<<r, s, t>>) = 3 /\ DOMAIN <<r, s, t>> = 1 .. 3
      /\ \A p \in 1 .. 3 : <<r, s, t>>[p] = r \/ <<r, s, t>>[p] = s \/ <<r, s, t>>[p] = t
  OBVIOUS
<1> QED BY <1>1 DEF GateOK

(* The signal of a variable.                                               *)
LEMMA SignalOf ==
  ASSUME NEW n \in Nat, NEW network, NetworkOK(n, network), NEW p, Signals(n, network, p),
         NEW v \in Inputs(n)
  PROVE  /\ p[v] \in Nat /\ p[v] >= 2 /\ p[v] <= n + 1 + Len(network)
         /\ p[v] \in 0 .. n + 1 + Len(network)
<1> DEFINE L == Len(network)
           k == p[v]
<1>1. L \in Nat /\ k \in 2 .. n + 1 + L
  BY DEF NetworkOK, Signals
<1> HIDE DEF L, k
<1>2. k \in Nat /\ k >= 2 /\ k <= n + 1 + L /\ k \in 0 .. n + 1 + L
  BY <1>1
<1> QED BY <1>2 DEF L, k

(* One variable is left: its signal, or an inverter.                       *)
LEMMA ReturnLiteralSound == Invariant /\ ReturnLiteral => Invariant'
<1> SUFFICES ASSUME Invariant, ReturnLiteral PROVE Invariant'
  OBVIOUS
<1> DEFINE n == goal.inputs
           v == Pruned[1]
           signal == pis[v]
           built == IF remainder = Projection(v) THEN [nodes |-> nodes, signal |-> signal]
                    ELSE Built(nodes, <<signal>>, Not1)
<1>1. /\ phase = "run" /\ remainder \notin {{}, Assignments} /\ Len(Pruned) = 1
      /\ support' = Pruned /\ nodes' = built.nodes /\ result' = built.signal
      /\ phase' = "return" /\ UNCHANGED <<goal, remainder, pis, s_num, stack>>
  BY DEF ReturnLiteral, Return
<1>2. phase \notin {"return"} \cup Over
  BY <1>1 DEF Over
<1>3. /\ goal \in Functions /\ n \in Nat /\ NetworkOK(n, nodes) /\ Signals(n, nodes, pis)
      /\ remainder \in SUBSET Points(n) /\ Assignments = Points(n)
  BY <1>2, Running, Words
<1>4. PICK value : /\ IsValue(n, nodes, value)
                   /\ Due(n, pis, stack, value, goal.on, Reading(n, remainder, pis, value))
  BY <1>2, Running
<1>5. v \in Inputs(n) /\ ToSet(Pruned) = {v} /\ Covers(n, {v}, remainder)
  <2>1. Pruned \in Seq(Inputs(n)) /\ Covers(n, ToSet(Pruned), remainder)
    BY <1>1, PrunedCovers
  <2>2. DOMAIN Pruned = 1 .. 1 /\ v \in Inputs(n)
    BY <1>1, <2>1
  <2>3. ToSet(Pruned) = {v}
    BY <2>2 DEF ToSet
  <2> QED BY <2>1, <2>2, <2>3
<1> DEFINE w == value[signal + 1]
           x == Reading(n, remainder, pis, value)
<1>6. signal \in Nat /\ signal <= n + 1 + Len(nodes) /\ signal \in 0 .. n + 1 + Len(nodes)
      /\ w \in SUBSET Points(n)
  <2> HIDE DEF n, v
  <2>1. signal \in Nat /\ signal <= n + 1 + Len(nodes) /\ signal \in 0 .. n + 1 + Len(nodes)
    BY <1>3, <1>5, SignalOf
  <2> HIDE DEF signal
  <2> QED BY <1>3, <1>4, <2>1, ValueType
<1>7. \A a \in Points(n) : /\ Values(n, pis, value, a) \in Points(n)
                           /\ v \in Values(n, pis, value, a) <=> a \in w
                           /\ a \in x <=> Values(n, pis, value, a) \in remainder
  BY <1>5 DEF Values, Points, Reading
<1>8. x \in SUBSET Points(n)
  BY DEF Reading
<1>9. CASE remainder = Projection(v)
  <2>1. nodes' = nodes /\ result' = signal
    BY <1>1, <1>9
  <2>2. w = x
    <3>1. \A b \in Points(n) : b \in remainder <=> v \in b
      BY <1>3, <1>9 DEF Projection
    <3> HIDE DEF n, w, x, v
    <3> QED BY <1>6, <1>7, <1>8, <3>1
  <2>3. Grows(n, nodes, value, nodes', value)
    BY <1>3, <1>4, <2>1, GrowsNot
  <2>4. result' \in 0 .. n + 1 + Len(nodes') /\ value[result' + 1] = x
    BY <1>6, <2>1, <2>2
  <2> QED BY <1>1, <1>4, <2>3, <2>4, ReturnsReading
<1>10. CASE remainder # Projection(v)
  <2> DEFINE gate == Built(nodes, <<signal>>, Not1)
  <2>1. nodes' = gate.nodes /\ result' = gate.signal
    BY <1>1, <1>10
  <2>2. \A b \in Points(n) : b \in remainder <=> v \notin b
    <3>1. ~ \A b \in Points(n) : b \in remainder <=> v \in b
      BY <1>3, <1>10 DEF Projection
    <3>2. remainder # {} /\ remainder # Points(n)
      BY <1>1, <1>3
    <3> HIDE DEF n, v
    <3> QED BY <1>3, <1>5, <3>1, <3>2, OneVariable
  <2>3. GateOK(<<signal>>, Not1, n + 1 + Len(nodes))
    <3> HIDE DEF signal
    <3> QED BY <1>6, GateOneOK
  <2>4. PICK value2 : Adds(n, nodes, value, <<signal>>, Not1, gate.nodes, gate.signal, value2)
    BY <1>3, <1>4, <2>3, BuiltFacts
  <2>5. Grows(n, nodes, value, nodes', value2)
    BY <2>1, <2>4, GrowsByGate
  <2>6. value2[result' + 1] = Combine(n, Not1, <<w>>)
    <3>1. value2[result' + 1] = GateValue(n, <<signal>>, Not1, value)
      BY <2>1, <2>4 DEF Adds
    <3> HIDE DEF signal, gate, n
    <3>2. GateValue(n, <<signal>>, Not1, value) = Combine(n, Not1, <<value[signal + 1]>>)
      BY GateOfOne
    <3> QED BY <3>1, <3>2
  <2>7. Combine(n, Not1, <<w>>) = x
    <3> HIDE DEF n, w, x, v
    <3>1. \A a \in Points(n) : a \in Combine(n, Not1, <<w>>) <=> a \notin w
      BY CombineOne
    <3>2. Combine(n, Not1, <<w>>) \subseteq Points(n)
      BY DEF Combine
    <3> QED BY <1>7, <1>8, <2>2, <3>1, <3>2
  <2>8. result' \in 0 .. n + 1 + Len(nodes')
    <3> DEFINE r2 == result'
               L2 == Len(nodes')
    <3>1. r2 \in n + 2 .. n + 1 + L2 /\ L2 \in Nat
      BY <2>1, <2>4 DEF Adds, NetworkOK
    <3> HIDE DEF n, r2, L2
    <3>2. r2 \in 0 .. n + 1 + L2
      BY <1>3, <3>1
    <3> QED BY <3>2 DEF n, r2, L2
  <2> QED BY <1>1, <1>4, <2>5, <2>6, <2>7, <2>8, ReturnsReading
<1> QED BY <1>9, <1>10

(* What is added can be pointed to by the calls that wait.                 *)
LEMMA AddedSignal ==
  ASSUME NEW n \in Nat, NEW network, NEW value, NEW fanins, NEW table, NEW network2,
         NEW signal, NEW value2,
         Adds(n, network, value, fanins, table, network2, signal, value2)
  PROVE  /\ signal \in 0 .. n + 1 + Len(network2)
         /\ signal \in 2 .. n + 1 + Len(network2)
         /\ signal \in Nat /\ signal <= n + 1 + Len(network2)
<1> DEFINE L2 == Len(network2)
<1>1. signal \in n + 2 .. n + 1 + L2 /\ L2 \in Nat
  BY DEF Adds, NetworkOK
<1> HIDE DEF L2
<1>2. /\ signal \in 0 .. n + 1 + L2 /\ signal \in 2 .. n + 1 + L2
      /\ signal \in Nat /\ signal <= n + 1 + L2
  BY <1>1
<1> QED BY <1>2 DEF L2

(* One to four variables are left: a gate of those that count.             *)
LEMMA ReturnGateSound == Invariant /\ ReturnGate => Invariant'
<1> SUFFICES ASSUME Invariant, ReturnGate PROVE Invariant'
  OBVIOUS
<1> DEFINE n == goal.inputs
           used == Sublist(Pruned, SupportOf(remainder))
           fanins == [p \in DOMAIN used |-> pis[used[p]]]
           Seen(a) == {p \in DOMAIN used : used[p] \in a}
           table == {Seen(a) : a \in remainder}
           built == Built(nodes, fanins, table)
<1>1. /\ phase = "run" /\ remainder \notin {{}, Assignments} /\ Len(Pruned) \in 2 .. 4
      /\ support' = Pruned /\ nodes' = built.nodes /\ result' = built.signal
      /\ phase' = "return" /\ UNCHANGED <<goal, remainder, pis, s_num, stack>>
  BY DEF ReturnGate, Return
<1>2. phase \notin {"return"} \cup Over
  BY <1>1 DEF Over
<1>3. /\ goal \in Functions /\ n \in Nat /\ NetworkOK(n, nodes) /\ Signals(n, nodes, pis)
      /\ remainder \in SUBSET Points(n) /\ Assignments = Points(n) /\ Vars = Inputs(n)
  BY <1>2, Running, Words
<1>4. PICK value : /\ IsValue(n, nodes, value)
                   /\ Due(n, pis, stack, value, goal.on, Reading(n, remainder, pis, value))
  BY <1>2, Running
<1>5. /\ Pruned \in Seq(Inputs(n)) /\ Pruned \in Seq(Int)
      /\ Covers(n, ToSet(Pruned), remainder)
  <2>1. Pruned \in Seq(Inputs(n)) /\ Covers(n, ToSet(Pruned), remainder)
    BY <1>1, PrunedCovers
  <2>2. Inputs(n) \subseteq Int
    BY DEF Inputs
  <2> QED BY <2>1, <2>2
<1>6. /\ used \in Seq(Inputs(n)) /\ Len(used) <= Len(Pruned)
      /\ ToSet(used) = ToSet(Pruned) \cap SupportOf(remainder)
  <2>1. used \in Seq(Inputs(n) \cap SupportOf(remainder))
    BY <1>5, SublistType
  <2>2. used \in Seq(Inputs(n))
    <3> HIDE DEF used
    <3> QED BY <2>1
  <2> QED BY <1>5, <2>2, SublistFacts
<1>7. Covers(n, ToSet(used), remainder)
  <2>1. \A v \in Vars \ ToSet(Pruned) : ~HasVar(remainder, v)
    BY <1>3, <1>5, CoversVars
  <2>2. \A v \in Vars \ ToSet(used) : ~HasVar(remainder, v)
    BY <1>6, <2>1 DEF SupportOf
  <2> HIDE DEF used
  <2> QED BY <1>3, <2>2, CoversVars
<1> HIDE DEF used
<1> DEFINE x == Reading(n, remainder, pis, value)
<1>8. Len(used) \in 1 .. 4 /\ DOMAIN used = 1 .. Len(used)
      /\ \A p \in DOMAIN used : used[p] \in Inputs(n)
  <2>1. used # <<>>
    <3> SUFFICES ASSUME used = <<>> PROVE FALSE
      OBVIOUS
    <3>1. ToSet(used) = {}
      BY DEF ToSet
    <3>2. Covers(n, {}, remainder)
      BY <1>7, <3>1
    <3> HIDE DEF n
    <3>3. ASSUME NEW b \in Points(n), NEW c \in Points(n) PROVE b \in remainder <=> c \in remainder
      <4>1. b \cap {} = c \cap {}
        OBVIOUS
      <4> QED BY <1>3, <3>2, <4>1, Agree
    <3> QED BY <1>1, <1>3, <3>3
  <2>2. Len(used) # 0 /\ Len(used) \in Nat
    BY <1>6, <2>1
  <2>3. DOMAIN used = 1 .. Len(used) /\ \A p \in DOMAIN used : used[p] \in Inputs(n)
    BY <1>6
  <2> DEFINE k == Len(used)
             m == Len(Pruned)
  <2>4. k # 0 /\ k \in Nat /\ k <= m /\ m \in 2 .. 4
    BY <1>1, <1>6, <2>2
  <2> HIDE DEF k, m
  <2>5. k \in 1 .. 4
    BY <2>4
  <2> QED BY <2>3, <2>5 DEF k
<1>9. \A p \in DOMAIN used : /\ pis[used[p]] \in Nat
                             /\ pis[used[p]] <= n + 1 + Len(nodes)
  BY <1>3, <1>8, SignalOf
<1>10. GateOK(fanins, table, n + 1 + Len(nodes))
  <2>1. fanins \in Seq(Nat) /\ Len(fanins) = Len(used) /\ DOMAIN fanins = DOMAIN used
    BY <1>8, <1>9
  <2>2. table \in SUBSET SUBSET DOMAIN used
    OBVIOUS
  <2>3. \A p \in DOMAIN used : fanins[p] <= n + 1 + Len(nodes)
    BY <1>9
  <2> HIDE DEF fanins, table
  <2> QED BY <1>8, <2>1, <2>2, <2>3 DEF GateOK
<1>11. PICK value2 : Adds(n, nodes, value, fanins, table, built.nodes, built.signal, value2)
  <2> HIDE DEF fanins, table
  <2> QED BY <1>3, <1>4, <1>10, BuiltFacts
<1>12. Grows(n, nodes, value, nodes', value2)
  BY <1>1, <1>11, GrowsByGate
<1>13. GateValue(n, fanins, table, value) = x
  <2> DEFINE functions == [p \in DOMAIN fanins |-> value[fanins[p] + 1]]
             gate == Combine(n, table, functions)
  <2>1. ASSUME NEW a \in Points(n)
        PROVE  a \in gate <=> a \in x
    <3> DEFINE A == Values(n, pis, value, a)
               K == {p \in DOMAIN functions : a \in functions[p]}
    <3>1. a \in gate <=> K \in table
      BY Zenon DEF Combine
    <3>2. A \in Points(n) /\ (a \in x <=> A \in remainder)
      BY DEF Values, Points, Reading
    <3>3. K = Seen(A)
      <4>1. DOMAIN functions = DOMAIN used
        OBVIOUS
      <4>2. ASSUME NEW p \in DOMAIN used
            PROVE  a \in functions[p] <=> used[p] \in A
        <5>1. functions[p] = value[pis[used[p]] + 1]
          OBVIOUS
        <5> HIDE DEF functions
        <5> QED BY <1>8, <5>1 DEF Values
      <4> HIDE DEF functions, A
      <4> QED BY <4>1, <4>2
    <3> HIDE DEF A, K
    <3>4. ASSUME Seen(A) \in table PROVE A \in remainder
      <4>1. PICK b \in remainder : Seen(A) = Seen(b)
        BY <3>4
      <4>2. A \cap ToSet(used) = b \cap ToSet(used)
        <5>1. \A p \in DOMAIN used : used[p] \in A <=> used[p] \in b
          BY <4>1
        <5>2. \A v \in ToSet(used) : \E p \in DOMAIN used : used[p] = v
          BY DEF ToSet
        <5> QED BY <5>1, <5>2
      <4> HIDE DEF n
      <4> QED BY <1>3, <1>7, <3>2, <4>2, Agree
    <3>5. A \in remainder => Seen(A) \in table
      OBVIOUS
    <3> QED BY <3>1, <3>2, <3>3, <3>4, <3>5
  <2>2. gate \subseteq Points(n) /\ x \subseteq Points(n)
    BY DEF Combine, Reading
  <2>3. gate = x
    <3> HIDE DEF gate, x
    <3> QED BY <2>1, <2>2
  <2> QED BY <2>3 DEF GateValue
<1>14. result' \in 0 .. n + 1 + Len(nodes') /\ value2[result' + 1] = x
  <2> HIDE DEF fanins, table
  <2>1. value2[built.signal + 1] = GateValue(n, fanins, table, value)
    BY <1>11 DEF Adds
  <2>2. built.signal \in 0 .. n + 1 + Len(built.nodes)
    BY <1>3, <1>11, AddedSignal
  <2> QED BY <1>1, <1>13, <2>1, <2>2
<1> QED BY <1>1, <1>4, <1>12, <1>14, ReturnsReading

-----------------------------------------------------------------------------
(***************************************************************************)
(* The decompositions.                                                     *)
(***************************************************************************)
(* The running call goes on with a remainder that reads the same.          *)
LEMMA GoesOn ==
  ASSUME Invariant, phase \notin {"return"} \cup Over,
         NEW value, NEW x, x = Reading(goal.inputs, remainder, pis, value),
         IsValue(goal.inputs, nodes, value),
         Due(goal.inputs, pis, stack, value, goal.on, x),
         NEW value2, Grows(goal.inputs, nodes, value, nodes', value2),
         remainder' \in SUBSET Assignments,
         support' \in Seq(Inputs(goal.inputs)), Increasing(support'),
         ToSet(support') \subseteq ToSet(support),
         Covers(goal.inputs, ToSet(support'), remainder'),
         Signals(goal.inputs, nodes', pis'),
         \A v \in Inputs(goal.inputs) \ ToSet(support) : pis'[v] = pis[v],
         Reading(goal.inputs, remainder', pis', value2) = x,
         phase' \in {"run"} \cup Tests, phase' \in Tests => support' # <<>>,
         UNCHANGED <<goal, s_num, stack, result>>
  PROVE  Invariant'
<1> DEFINE n == goal.inputs
           g == goal.on
           network2 == nodes'
           f2 == remainder'
           s2 == support'
           p2 == pis'
           at2 == phase'
<1>1. /\ n \in Nat /\ Assignments = Points(n) /\ NetworkOK(n, nodes)
      /\ Shape(n, nodes, remainder, support, pis, stack, result, phase)
  BY Running, Words
<1>2. /\ Due(n, pis, stack, value, g, x)
      /\ Grows(n, nodes, value, network2, value2)
      /\ s2 \in Seq(Inputs(n)) /\ Increasing(s2) /\ ToSet(s2) \subseteq ToSet(support)
      /\ Covers(n, ToSet(s2), f2) /\ Signals(n, network2, p2)
      /\ \A v \in Inputs(n) \ ToSet(support) : p2[v] = pis[v]
      /\ Reading(n, f2, p2, value2) = x
      /\ at2 \in {"run"} \cup Tests /\ (at2 \in Tests => s2 # <<>>)
  OBVIOUS
<1>3. f2 \in SUBSET Points(n)
  BY <1>1
<1> HIDE DEF n, g, network2, f2, s2, p2, at2
<1>4. Sound(n, g, network2, f2, s2, p2, stack, result, at2)
  BY <1>1, <1>2, <1>3, Continued
<1>5. Sound(goal.inputs, goal.on, nodes', remainder', support', pis', stack', result', phase')
  BY <1>4 DEF n, g, network2, f2, s2, p2, at2
<1>6. phase' \in Phases /\ s_num' \in 0 .. 50
  BY DEF Phases, Tests, Invariant
<1> QED BY <1>5, <1>6, Rebuilt

(* More than four variables are left: the tests begin.                     *)
LEMMA DecomposeSound == Invariant /\ Decompose => Invariant'
<1> SUFFICES ASSUME Invariant, Decompose PROVE Invariant'
  OBVIOUS
<1> DEFINE n == goal.inputs
<1>1. /\ phase = "run" /\ Len(Pruned) > 4 /\ support' = Pruned /\ phase' = "top"
      /\ UNCHANGED <<goal, nodes, remainder, pis, s_num, stack, result>>
  BY DEF Decompose
<1>2. phase \notin {"return"} \cup Over
  BY <1>1 DEF Over
<1>3. /\ n \in Nat /\ NetworkOK(n, nodes) /\ Signals(n, nodes, pis)
      /\ remainder \in SUBSET Assignments
  BY <1>2, Running
<1>4. PICK value : /\ IsValue(n, nodes, value)
                   /\ Due(n, pis, stack, value, goal.on, Reading(n, remainder, pis, value))
  BY <1>2, Running
<1>5. /\ Pruned \in Seq(Inputs(n)) /\ Increasing(Pruned) /\ ToSet(Pruned) \subseteq ToSet(support)
      /\ Covers(n, ToSet(Pruned), remainder)
  BY <1>1, PrunedCovers
<1>6. Pruned # <<>>
  BY <1>1
<1>7. Grows(n, nodes, value, nodes', value)
  BY <1>1, <1>3, <1>4, GrowsNot
<1>8. phase' \in {"run"} \cup Tests
  BY <1>1 DEF Tests
<1> QED BY <1>1, <1>2, <1>3, <1>4, <1>5, <1>6, <1>7, <1>8, GoesOn

(* A test that fails everywhere is followed by the next.                   *)
LEMMA FailedSound ==
  ASSUME Invariant, phase \in Tests, phase' \in Tests,
         UNCHANGED <<goal, nodes, remainder, support, pis, s_num, stack, result>>
  PROVE  Invariant'
<1> DEFINE n == goal.inputs
<1>1. phase \notin {"return"} \cup Over
  BY DEF Over, Tests
<1>2. /\ n \in Nat /\ NetworkOK(n, nodes) /\ Signals(n, nodes, pis)
      /\ remainder \in SUBSET Assignments
      /\ support \in Seq(Inputs(n)) /\ Increasing(support)
      /\ Covers(n, ToSet(support), remainder)
      /\ Shape(n, nodes, remainder, support, pis, stack, result, phase)
  BY <1>1, Running
<1>3. PICK value : /\ IsValue(n, nodes, value)
                   /\ Due(n, pis, stack, value, goal.on, Reading(n, remainder, pis, value))
  BY <1>1, Running
<1>4. support # <<>>
  BY <1>2 DEF Shape
<1>5. Grows(n, nodes, value, nodes', value)
  BY <1>2, <1>3, GrowsNot
<1> QED BY <1>1, <1>2, <1>3, <1>4, <1>5, GoesOn

(* Positions of the support and their variables.                           *)
LEMMA Positions ==
  ASSUME Invariant, phase \in Tests
  PROVE  /\ Places = 1 .. Len(support) /\ Places \subseteq Nat
         /\ \A p \in Places : support[p] \in Vars /\ support[p] \in Inputs(goal.inputs)
                              /\ support[p] \in ToSet(support)
         /\ \A p, q \in Places : p # q => support[p] # support[q]
<1>1. /\ support \in Seq(Inputs(goal.inputs)) /\ Increasing(support)
      /\ Vars = Inputs(goal.inputs)
  <2>1. phase \notin {"return"} \cup Over
    BY DEF Over, Tests
  <2> QED BY <2>1, Running, Words
<1>2. Places = 1 .. Len(support) /\ Places \subseteq Nat
  BY <1>1 DEF Places
<1>3. \A p \in Places : support[p] \in Vars /\ support[p] \in Inputs(goal.inputs)
                        /\ support[p] \in ToSet(support)
  BY <1>1 DEF Places, ToSet
<1>4. ASSUME NEW p \in Places, NEW q \in Places, p # q PROVE support[p] # support[q]
  <2>1. \A v \in Inputs(goal.inputs) : v \in Int
    BY DEF Inputs
  <2>2. support[p] \in Int /\ support[q] \in Int
    BY <1>3, <2>1
  <2>3. p < q => support[p] < support[q]
    BY <1>1 DEF Increasing, Places
  <2>4. q < p => support[q] < support[p]
    BY <1>1 DEF Increasing, Places
  <2>5. p \in Nat /\ q \in Nat
    BY <1>2
  <2>6. p < q \/ q < p
    BY <1>4, <2>5
  <2> DEFINE u == support[p]
             v == support[q]
  <2>7. u \in Int /\ v \in Int /\ (u < v \/ v < u)
    BY <2>2, <2>3, <2>4, <2>6
  <2> HIDE DEF u, v
  <2>8. u # v
    BY <2>7
  <2> QED BY <2>8 DEF u, v
<1> QED BY <1>2, <1>3, <1>4

(* The variable kept gets a signal of the network that is no constant.     *)
Taken(n, network, signal) == signal \in 2 .. n + 1 + Len(network)
Rewired(p, kept, signal, p2) == p2 = [p EXCEPT ![kept] = signal]

(* A gate takes the place of a variable: what is left reads the same.      *)
LEMMA ReadingReplaced ==
  ASSUME goal.inputs \in Nat, NEW network, NetworkOK(goal.inputs, network), NEW value,
         NEW network2, NEW value2, Grows(goal.inputs, network, value, network2, value2),
         NEW p, Signals(goal.inputs, network, p), NEW kept \in Inputs(goal.inputs),
         NEW f, NEW rest, NEW args, NEW inv, NEW table,
         Merges(f, rest, args, inv, table, kept),
         NEW signal, NEW h, h = value2[signal + 1],
         Computes(goal.inputs, p, value, h, args, inv, table),
         NEW p2, Rewired(p, kept, signal, p2)
  PROVE  Reading(goal.inputs, rest, p2, value2) = Reading(goal.inputs, f, p, value)
<1> DEFINE n == goal.inputs
           L == Len(network)
<1>1. /\ n \in Nat /\ L \in Nat
      /\ p \in [Inputs(n) -> 2 .. n + 1 + L]
      /\ \A i \in 1 .. n + 2 + L : value2[i] = value[i]
  BY DEF NetworkOK, Signals, Grows
<1>2. p2[kept] = signal /\ \A v \in Inputs(n) \ {kept} : p2[v] = p[v]
  BY <1>1 DEF Rewired
<1> HIDE DEF L
<1>3. ASSUME NEW v \in Inputs(n) \ {kept} PROVE value2[p2[v] + 1] = value[p[v] + 1]
  <2> DEFINE k == p[v]
  <2>1. p2[v] = k /\ k \in 2 .. n + 1 + L
    BY <1>1, <1>2
  <2> HIDE DEF k, n
  <2>2. k + 1 \in 1 .. n + 2 + L
    BY <1>1, <2>1
  <2> QED BY <1>1, <2>1, <2>2 DEF k
<1>4. h = value2[p2[kept] + 1]
  BY <1>2
<1>5. \A v \in Inputs(goal.inputs) \ {kept} : value2[p2[v] + 1] = value[p[v] + 1]
  BY <1>3
<1> HIDE DEF n
<1>6. Reading(goal.inputs, rest, p2, value2) = Reading(goal.inputs, f, p, value)
  BY <1>4, <1>5, ReadingMerged
<1> QED BY <1>6

(* A gate takes the place of a variable, others leave for it.              *)
LEMMA MergedSound ==
  ASSUME Invariant, phase \in Tests,
         NEW value, IsValue(goal.inputs, nodes, value),
         Due(goal.inputs, pis, stack, value, goal.on,
             Reading(goal.inputs, remainder, pis, value)),
         NEW value2, Grows(goal.inputs, nodes, value, nodes', value2),
         NEW kept \in ToSet(support), NEW dropped, kept \notin dropped,
         NEW signal, Taken(goal.inputs, nodes', signal),
         NEW args, NEW inv, NEW table,
         NEW rest \in SUBSET Assignments, remainder' = rest,
         Merges(remainder, rest, args, inv, table, kept),
         Forgets(remainder, rest, dropped, kept),
         Computes(goal.inputs, pis, value, value2[signal + 1], args, inv, table),
         NEW p2, Rewired(pis, kept, signal, p2), pis' = p2,
         support' = Sublist(support, Vars \ dropped),
         phase' = "run", UNCHANGED <<goal, s_num, stack, result>>
  PROVE  Invariant'
<1> DEFINE n == goal.inputs
           x == Reading(n, remainder, pis, value)
           network2 == nodes'
<1>1. phase \notin {"return"} \cup Over
  BY DEF Over, Tests
<1>2. /\ goal \in Functions /\ n \in Nat /\ NetworkOK(n, nodes) /\ Signals(n, nodes, pis)
      /\ remainder \in SUBSET Assignments
      /\ support \in Seq(Inputs(n)) /\ Increasing(support)
      /\ Covers(n, ToSet(support), remainder)
      /\ Assignments = Points(n) /\ Vars = Inputs(n)
  BY <1>1, Running, Words
<1>4. /\ support' \in Seq(Inputs(n)) /\ Increasing(support')
      /\ ToSet(support') = ToSet(support) \ dropped
  <2> DEFINE s2 == support'
  <2>1. s2 = Sublist(support, Vars \ dropped)
    OBVIOUS
  <2> HIDE DEF s2, n
  <2>2. s2 \in Seq(Inputs(goal.inputs)) /\ Increasing(s2) /\ ToSet(s2) = ToSet(support) \ dropped
    BY <1>2, <2>1, Without DEF n
  <2> QED BY <2>2 DEF s2, n
<1>5. kept \in Inputs(n)
  BY <1>2 DEF ToSet
<1>6. pis \in [Inputs(n) -> 2 .. n + 1 + Len(nodes)] /\ p2[kept] = signal
      /\ DOMAIN p2 = Inputs(n) /\ \A v \in Inputs(n) \ {kept} : p2[v] = pis[v]
  BY <1>2, <1>5 DEF Signals, Rewired
<1>7. Signals(n, network2, p2)
  <2> DEFINE L == Len(nodes)
             L2 == Len(network2)
  <2>1. L \in Nat /\ L2 \in Nat /\ L <= L2
    BY <1>2 DEF NetworkOK, Grows
  <2>2. pis \in [Inputs(n) -> 2 .. n + 1 + L] /\ signal \in 2 .. n + 1 + L2
        /\ p2 = [pis EXCEPT ![kept] = signal]
    BY <1>6 DEF Taken, Rewired
  <2> HIDE DEF L, L2, n
  <2>3. \A k \in 2 .. n + 1 + L : k \in 2 .. n + 1 + L2
    BY <1>2, <2>1
  <2>4. p2 \in [Inputs(n) -> 2 .. n + 1 + L2]
    BY <2>2, <2>3
  <2> QED BY <2>4 DEF Signals, L2
<1>8. Reading(n, rest, p2, value2) = x
  <2> DEFINE h == value2[signal + 1]
             network3 == nodes'
  <2>1. /\ h = value2[signal + 1] /\ Computes(goal.inputs, pis, value, h, args, inv, table)
        /\ Grows(goal.inputs, nodes, value, network3, value2)
        /\ goal.inputs \in Nat /\ NetworkOK(goal.inputs, nodes)
        /\ Signals(goal.inputs, nodes, pis) /\ kept \in Inputs(goal.inputs)
    BY <1>2, <1>5
  <2> HIDE DEF h, network3
  <2>2. Reading(goal.inputs, rest, p2, value2) = Reading(goal.inputs, remainder, pis, value)
    BY <2>1, ReadingReplaced
  <2> QED BY <2>2
<1>9. Covers(n, ToSet(support'), rest)
  <2>1. \A v \in Vars \ ToSet(support) : ~HasVar(remainder, v)
    BY <1>2, CoversVars
  <2>2. \A v \in Vars \ ToSet(support') : v \in dropped \/ (v # kept /\ ~HasVar(remainder, v))
    BY <1>4, <2>1
  <2>3. \A v \in Vars \ ToSet(support') : ~HasVar(rest, v)
    BY <2>2 DEF Forgets
  <2> DEFINE S2 == ToSet(support')
  <2> HIDE DEF S2, n
  <2>4. Covers(goal.inputs, S2, rest)
    BY <1>2, <2>3, CoversVars DEF S2
  <2> QED BY <2>4 DEF n, S2
<1>10. /\ \A v \in Inputs(n) \ ToSet(support) : pis'[v] = pis[v]
       /\ phase' \in {"run"} \cup Tests /\ phase' \notin Tests
  BY <1>5, <1>6 DEF Tests
<1> QED BY <1>1, <1>4, <1>7, <1>8, <1>9, <1>10, GoesOn

(* A gate of two variables.                                                *)
LEMMA PairComputes ==
  ASSUME NEW n, NEW p, NEW value, NEW x \in Inputs(n), NEW y \in Inputs(n), NEW table
  PROVE  Computes(n, p, value, GateValue(n, <<p[x], p[y]>>, table, value), <<x, y>>, 0, table)
<1> DEFINE f == value[p[x] + 1]
           g == value[p[y] + 1]
           gate == Combine(n, table, <<f, g>>)
<1>1. GateValue(n, <<p[x], p[y]>>, table, value) = gate
  <2> DEFINE r == p[x]
             t == p[y]
  <2> HIDE DEF r, t
  <2>1. GateValue(n, <<r, t>>, table, value) = Combine(n, table, <<value[r + 1], value[t + 1]>>)
    BY GateOfTwo
  <2> QED BY <2>1 DEF r, t
<1>2. ASSUME NEW a \in Points(n)
      PROVE  \E K \in SUBSET DOMAIN <<x, y>> :
               Reads(K, Values(n, p, value, a), <<x, y>>, 0) /\ (a \in gate <=> K \in table)
  <2>1. /\ x \in Values(n, p, value, a) <=> a \in f
        /\ y \in Values(n, p, value, a) <=> a \in g
    BY DEF Values
  <2> DEFINE A == Values(n, p, value, a)
  <2> HIDE DEF f, g, A
  <2>2. PICK K \in SUBSET (1 .. 2) : /\ 1 \in K <=> a \in f
                                     /\ 2 \in K <=> a \in g
                                     /\ a \in Combine(n, table, <<f, g>>) <=> K \in table
    BY CombineTwo
  <2>3. DOMAIN <<x, y>> = 1 .. 2 /\ <<x, y>>[1] = x /\ <<x, y>>[2] = y
        /\ \A q \in 1 .. 2 : q # 0 /\ (q = 1 \/ q = 2)
    OBVIOUS
  <2>4. Reads(K, A, <<x, y>>, 0)
    <3>1. ASSUME NEW q \in 1 .. 2 PROVE q \in K <=> <<x, y>>[q] \in A
      BY <2>1, <2>2, <2>3 DEF A
    <3> QED BY <2>3, <3>1 DEF Reads
  <2> QED BY <2>2, <2>3, <2>4 DEF A
<1> HIDE DEF gate
<1> QED BY <1>1, <1>2 DEF Computes

(* The step of a test that merges two variables.                           *)
LEMMA PairSound ==
  ASSUME Invariant, phase \in Tests, NEW p \in Pairs,
         NEW x, x = support[p[2]], NEW y, y = support[p[1]],
         NEW table \in SUBSET SUBSET (1 .. 2), NEW rest \in SUBSET Assignments,
         Merges(remainder, rest, <<x, y>>, 0, table, x), Forgets(remainder, rest, {y}, x),
         Replace(p[2], {p[1]}, Built(nodes, <<pis[x], pis[y]>>, table), rest),
         phase' = "run", UNCHANGED <<goal, s_num, result>>
  PROVE  Invariant'
<1> DEFINE n == goal.inputs
           gate == Built(nodes, <<pis[x], pis[y]>>, table)
<1>1. phase \notin {"return"} \cup Over
  BY DEF Over, Tests
<1>2. n \in Nat /\ NetworkOK(n, nodes) /\ Signals(n, nodes, pis)
  BY <1>1, Running
<1>3. PICK value : /\ IsValue(n, nodes, value)
                   /\ Due(n, pis, stack, value, goal.on, Reading(n, remainder, pis, value))
  BY <1>1, Running
<1>4. /\ p[1] \in Places /\ p[2] \in Places /\ p[1] # p[2]
  <2>1. Places \subseteq Nat
    BY Positions
  <2> DEFINE i == p[1]
             j == p[2]
  <2>2. i \in Places /\ j \in Places /\ j < i
    BY DEF Pairs
  <2> HIDE DEF i, j
  <2>3. i # j
    BY <2>1, <2>2
  <2> QED BY <2>2, <2>3 DEF i, j
<1>5. /\ x \in Inputs(n) /\ y \in Inputs(n) /\ x \in ToSet(support) /\ x # y
  BY <1>4, Positions
<1>6. /\ pis[x] \in Nat /\ pis[x] <= n + 1 + Len(nodes)
      /\ pis[y] \in Nat /\ pis[y] <= n + 1 + Len(nodes)
  BY <1>2, <1>5, SignalOf
<1>7. GateOK(<<pis[x], pis[y]>>, table, n + 1 + Len(nodes))
  <2> DEFINE r == pis[x]
             t == pis[y]
             last == n + 1 + Len(nodes)
  <2>1. r \in Nat /\ r <= last /\ t \in Nat /\ t <= last
    BY <1>6
  <2> HIDE DEF r, t, last
  <2>2. GateOK(<<r, t>>, table, last)
    BY <2>1, GateTwoOK
  <2> QED BY <2>2 DEF r, t, last
<1>8. PICK value2 : Adds(n, nodes, value, <<pis[x], pis[y]>>, table, gate.nodes, gate.signal, value2)
  BY <1>2, <1>3, <1>7, BuiltFacts
<1>9. /\ nodes' = gate.nodes
      /\ pis' = [pis EXCEPT ![x] = gate.signal]
      /\ support' = Sublist(support, Vars \ {y})
      /\ remainder' = rest /\ UNCHANGED stack
  <2>1. {support[q] : q \in {p[1]}} = {y}
    OBVIOUS
  <2> QED BY <2>1 DEF Replace
<1> DEFINE signal == gate.signal
<1>10. Grows(n, nodes, value, nodes', value2) /\ Taken(n, nodes', signal)
       /\ value2[signal + 1] = GateValue(n, <<pis[x], pis[y]>>, table, value)
  <2>1. Grows(n, nodes, value, gate.nodes, value2)
    BY <1>8, GrowsByGate
  <2>2. signal \in 2 .. n + 1 + Len(gate.nodes)
    BY <1>2, <1>8, AddedSignal
  <2>3. value2[signal + 1] = GateValue(n, <<pis[x], pis[y]>>, table, value)
    BY <1>8 DEF Adds
  <2> QED BY <1>9, <2>1, <2>2, <2>3 DEF Taken
<1>11. Computes(n, pis, value, value2[signal + 1], <<x, y>>, 0, table)
  BY <1>5, <1>10, PairComputes
<1>12. Rewired(pis, x, signal, pis')
  BY <1>9 DEF Rewired
<1>13. x \notin {y} /\ UNCHANGED <<goal, s_num, stack, result>>
  BY <1>5, <1>9
<1> HIDE DEF signal, gate
<1> QED BY <1>3, <1>5, <1>9, <1>10, <1>11, <1>12, <1>13, MergedSound

(* The first of the pairs where a test succeeds.                           *)
LEMMA PairPlaces ==
  ASSUME NEW places \in SUBSET Pairs, places # {}, Places \subseteq Nat
  PROVE  FirstOf(places) \in places
<1>1. places \in SUBSET (Nat \X Nat)
  BY DEF Pairs
<1> QED BY <1>1, FirstOfTwo

(* The variables of a pair.                                                *)
LEMMA PairVars ==
  ASSUME Invariant, phase \in Tests, NEW p \in Pairs
  PROVE  /\ support[p[2]] \in Vars /\ support[p[1]] \in Vars /\ support[p[2]] # support[p[1]]
<1>1. Places \subseteq Nat
  BY Positions
<1> DEFINE i == p[1]
           j == p[2]
<1>2. i \in Places /\ j \in Places /\ j < i
  BY DEF Pairs
<1> HIDE DEF i, j
<1>3. i # j
  BY <1>1, <1>2
<1>4. support[j] \in Vars /\ support[i] \in Vars /\ support[j] # support[i]
  BY <1>2, <1>3, Positions
<1> QED BY <1>4 DEF i, j

(* The bottom test.                                                        *)
LEMMA TryBottomSound == Invariant /\ TryBottom => Invariant'
<1> SUFFICES ASSUME Invariant, TryBottom PROVE Invariant'
  OBVIOUS
<1> DEFINE places == {p \in Pairs : BottomTables(remainder, support[p[2]], support[p[1]]) # {}}
<1>1. phase = "bottom" /\ phase \in Tests /\ UNCHANGED <<goal, s_num, result>>
  BY DEF TryBottom, Try, Tests
<1>2. CASE places = {}
  <2>1. phase' = "xor" /\ UNCHANGED <<nodes, remainder, support, pis, stack>>
    BY <1>2 DEF TryBottom, Try
  <2>2. phase' \in Tests
    BY <2>1 DEF Tests
  <2> QED BY <1>1, <2>1, <2>2, FailedSound
<1>3. CASE places # {}
  <2> DEFINE p == FirstOf(places)
             x == support[p[2]]
             y == support[p[1]]
             t == CHOOSE c \in BottomTables(remainder, x, y) : TRUE
  <2>1. TakeBottom(p) /\ phase' = "run"
    BY <1>3 DEF TryBottom, Try
  <2>2. p \in places
    <3>1. places \in SUBSET Pairs /\ Places \subseteq Nat
      BY <1>1, Positions
    <3> HIDE DEF places
    <3> QED BY <1>3, <3>1, PairPlaces
  <2>3. p \in Pairs /\ t \in BottomTables(remainder, x, y)
    BY <2>2
  <2>4. Replace(p[2], {p[1]}, Built(nodes, <<pis[x], pis[y]>>, t.table), t.rest)
    BY <2>1 DEF TakeBottom
  <2> HIDE DEF p, t
  <2>5. x \in Vars /\ y \in Vars /\ x # y /\ remainder \in SUBSET Assignments
    <3>1. phase \notin {"return"} \cup Over
      BY <1>1 DEF Over
    <3> QED BY <1>1, <2>3, <3>1, PairVars, Running
  <2> HIDE DEF x, y
  <2>6. /\ t.rest \in SUBSET Assignments /\ t.table \in SUBSET SUBSET (1 .. 2)
        /\ Merges(remainder, t.rest, <<x, y>>, 0, t.table, x)
        /\ Forgets(remainder, t.rest, {y}, x)
    BY <2>3, <2>5, BottomSound
  <2>7. x = support[p[2]] /\ y = support[p[1]]
    BY DEF x, y
  <2> DEFINE rest == t.rest
             table == t.table
  <2>8. /\ rest \in SUBSET Assignments /\ table \in SUBSET SUBSET (1 .. 2)
        /\ Merges(remainder, rest, <<x, y>>, 0, table, x)
        /\ Forgets(remainder, rest, {y}, x)
        /\ Replace(p[2], {p[1]}, Built(nodes, <<pis[x], pis[y]>>, table), rest)
    BY <2>4, <2>6
  <2> HIDE DEF rest, table
  <2> QED BY <1>1, <2>1, <2>3, <2>7, <2>8, PairSound
<1> QED BY <1>2, <1>3

(* The xor test.                                                           *)
LEMMA TryXorSound == Invariant /\ TryXor => Invariant'
<1> SUFFICES ASSUME Invariant, TryXor PROVE Invariant'
  OBVIOUS
<1> DEFINE places == {p \in Pairs : XorDecomposes(remainder, support[p[2]], support[p[1]])}
<1>1. phase = "xor" /\ phase \in Tests /\ UNCHANGED <<goal, s_num, result>>
  BY DEF TryXor, Try, Tests
<1>2. CASE places = {}
  <2>1. phase' = "mux" /\ UNCHANGED <<nodes, remainder, support, pis, stack>>
    BY <1>2 DEF TryXor, Try
  <2>2. phase' \in Tests
    BY <2>1 DEF Tests
  <2> QED BY <1>1, <2>1, <2>2, FailedSound
<1>3. CASE places # {}
  <2> DEFINE p == FirstOf(places)
             x == support[p[2]]
             y == support[p[1]]
             rest == XorRest(remainder, x, y)
  <2>1. TakeXor(p) /\ phase' = "run"
    BY <1>3 DEF TryXor, Try
  <2>2. p \in places
    <3>1. places \in SUBSET Pairs /\ Places \subseteq Nat
      BY <1>1, Positions
    <3> HIDE DEF places
    <3> QED BY <1>3, <3>1, PairPlaces
  <2>3. p \in Pairs /\ XorDecomposes(remainder, x, y)
    BY <2>2
  <2>4. Replace(p[2], {p[1]}, Built(nodes, <<pis[x], pis[y]>>, Xor2), rest)
    BY <2>1 DEF TakeXor
  <2> HIDE DEF p, rest
  <2>5. x \in Vars /\ y \in Vars /\ x # y /\ remainder \in SUBSET Assignments
    <3>1. phase \notin {"return"} \cup Over
      BY <1>1 DEF Over
    <3> QED BY <1>1, <2>3, <3>1, PairVars, Running
  <2> HIDE DEF x, y
  <2>6. /\ rest \in SUBSET Assignments
        /\ Merges(remainder, rest, <<x, y>>, 0, Xor2, x)
        /\ Forgets(remainder, rest, {y}, x)
    BY <2>3, <2>5, XorSound DEF rest
  <2>7. x = support[p[2]] /\ y = support[p[1]]
    BY DEF x, y
  <2>8. Xor2 \in SUBSET SUBSET (1 .. 2)
    BY DEF Xor2
  <2> QED BY <1>1, <2>1, <2>3, <2>4, <2>6, <2>7, <2>8, PairSound
<1> QED BY <1>2, <1>3

(* u is the function of the argument, inverted or not.                     *)
Legs(n, p, value, v, inverted, u) ==
  \A a \in Points(n) : a \in u <=> ~(v \in Values(n, p, value, a) <=> inverted)

(* A gate of three variables, one of which may be inverted.                *)
LEMMA TripleComputes ==
  ASSUME NEW n, NEW p, NEW value, NEW x, NEW y, NEW z, NEW inv, NEW table, NEW u, NEW v, NEW w,
         Legs(n, p, value, x, inv = 1, u), Legs(n, p, value, y, inv = 2, v),
         Legs(n, p, value, z, inv = 3, w)
  PROVE  Computes(n, p, value, Combine(n, table, <<u, v, w>>), <<x, y, z>>, inv, table)
<1> DEFINE gate == Combine(n, table, <<u, v, w>>)
<1>1. ASSUME NEW a \in Points(n)
      PROVE  \E K \in SUBSET DOMAIN <<x, y, z>> :
               Reads(K, Values(n, p, value, a), <<x, y, z>>, inv) /\ (a \in gate <=> K \in table)
  <2> DEFINE A == Values(n, p, value, a)
  <2>1. /\ a \in u <=> ~(x \in A <=> inv = 1)
        /\ a \in v <=> ~(y \in A <=> inv = 2)
        /\ a \in w <=> ~(z \in A <=> inv = 3)
    BY DEF Legs
  <2>2. PICK K \in SUBSET (1 .. 3) : /\ 1 \in K <=> a \in u
                                     /\ 2 \in K <=> a \in v
                                     /\ 3 \in K <=> a \in w
                                     /\ a \in Combine(n, table, <<u, v, w>>) <=> K \in table
    BY CombineThree
  <2>3. DOMAIN <<x, y, z>> = 1 .. 3 /\ <<x, y, z>>[1] = x /\ <<x, y, z>>[2] = y
        /\ <<x, y, z>>[3] = z /\ \A q \in 1 .. 3 : q = 1 \/ q = 2 \/ q = 3
    OBVIOUS
  <2> HIDE DEF A
  <2>4. Reads(K, A, <<x, y, z>>, inv)
    <3>1. 1 \in K <=> ~(<<x, y, z>>[1] \in A <=> 1 = inv)
      BY <2>1, <2>2, <2>3
    <3>2. 2 \in K <=> ~(<<x, y, z>>[2] \in A <=> 2 = inv)
      BY <2>1, <2>2, <2>3
    <3>3. 3 \in K <=> ~(<<x, y, z>>[3] \in A <=> 3 = inv)
      BY <2>1, <2>2, <2>3
    <3> QED BY <2>3, <3>1, <3>2, <3>3 DEF Reads
  <2> QED BY <2>2, <2>3, <2>4 DEF A
<1> HIDE DEF gate
<1> QED BY <1>1 DEF Computes, gate

(* A network that has grown twice.                                         *)
LEMMA GrowsOn ==
  ASSUME NEW n \in Nat, NEW network, NetworkOK(n, network), NEW value,
         NEW network1, NEW value1, Grows(n, network, value, network1, value1),
         NEW network2, NEW value2, Grows(n, network1, value1, network2, value2)
  PROVE  Grows(n, network, value, network2, value2)
<1> DEFINE L == Len(network)
           L1 == Len(network1)
           L2 == Len(network2)
<1>1. /\ L \in Nat /\ L1 \in Nat /\ L2 \in Nat /\ L1 >= L /\ L2 >= L1
      /\ \A k \in 1 .. n + 2 + L : value1[k] = value[k]
      /\ \A k \in 1 .. n + 2 + L1 : value2[k] = value1[k]
      /\ NetworkOK(n, network2) /\ IsValue(n, network2, value2)
  BY DEF NetworkOK, Grows
<1> HIDE DEF L, L1, L2
<1>2. L2 >= L /\ \A k \in 1 .. n + 2 + L : k \in 1 .. n + 2 + L1
  BY <1>1
<1>3. \A k \in 1 .. n + 2 + L : value2[k] = value[k]
  BY <1>1, <1>2
<1> QED BY <1>1, <1>2, <1>3 DEF Grows, L, L1, L2

(* The function of a gate of three signals whose functions are u, v, w.    *)
LEMMA GateOfTriple ==
  ASSUME NEW n, NEW table, NEW value, NEW r, NEW s, NEW t, NEW u, NEW v, NEW w,
         u = value[r + 1], v = value[s + 1], w = value[t + 1]
  PROVE  GateValue(n, <<r, s, t>>, table, value) = Combine(n, table, <<u, v, w>>)
<1>1. /\ DOMAIN <<r, s, t>> = 1 .. 3
      /\ \A p \in 1 .. 3 : p = 1 \/ p = 2 \/ p = 3
  OBVIOUS
<1>2. [p \in DOMAIN <<r, s, t>> |-> value[<<r, s, t>>[p] + 1]] = <<u, v, w>>
  BY <1>1
<1> QED BY <1>2 DEF GateValue

(* A signal of the network.                                                *)
Known(n, network, signal) == signal \in 0 .. n + 1 + Len(network)

(* A gate of three takes the place of x, and y and z leave for it.         *)
LEMMA TripleSound ==
  ASSUME Invariant, phase \in Tests,
         NEW value, IsValue(goal.inputs, nodes, value),
         Due(goal.inputs, pis, stack, value, goal.on,
             Reading(goal.inputs, remainder, pis, value)),
         NEW network1, NEW value1, Grows(goal.inputs, nodes, value, network1, value1),
         NEW x \in ToSet(support), NEW dropped, x \notin dropped,
         NEW a, NEW b, NEW c, NEW inv, NEW table \in SUBSET SUBSET (1 .. 3),
         NEW r, Known(goal.inputs, network1, r), NEW s, Known(goal.inputs, network1, s),
         NEW t, Known(goal.inputs, network1, t),
         Legs(goal.inputs, pis, value, a, inv = 1, value1[r + 1]),
         Legs(goal.inputs, pis, value, b, inv = 2, value1[s + 1]),
         Legs(goal.inputs, pis, value, c, inv = 3, value1[t + 1]),
         NEW rest \in SUBSET Assignments, remainder' = rest,
         Merges(remainder, rest, <<a, b, c>>, inv, table, x),
         Forgets(remainder, rest, dropped, x),
         nodes' = Built(network1, <<r, s, t>>, table).nodes,
         Rewired(pis, x, Built(network1, <<r, s, t>>, table).signal, pis'),
         support' = Sublist(support, Vars \ dropped),
         phase' = "run", UNCHANGED <<goal, s_num, stack, result>>
  PROVE  Invariant'
<1> DEFINE n == goal.inputs
           gate == Built(network1, <<r, s, t>>, table)
           signal == gate.signal
           last == n + 1 + Len(network1)
<1>1. phase \notin {"return"} \cup Over
  BY DEF Over, Tests
<1>2. n \in Nat /\ NetworkOK(n, nodes)
  BY <1>1, Running
<1>3. NetworkOK(n, network1) /\ IsValue(n, network1, value1) /\ Len(network1) \in Nat
  BY DEF Grows
<1>4. GateOK(<<r, s, t>>, table, last)
  <2>1. r \in 0 .. last /\ s \in 0 .. last /\ t \in 0 .. last /\ last \in Nat
    BY <1>2, <1>3 DEF Known
  <2> HIDE DEF last
  <2>2. /\ r \in Nat /\ r <= last /\ s \in Nat /\ s <= last /\ t \in Nat /\ t <= last
    BY <2>1
  <2> QED BY <2>2, GateThreeOK
<1>5. PICK value2 : Adds(n, network1, value1, <<r, s, t>>, table, gate.nodes, signal, value2)
  BY <1>2, <1>3, <1>4, BuiltFacts
<1>6. Grows(n, network1, value1, gate.nodes, value2)
  BY <1>5, GrowsByGate
<1>7. Grows(n, nodes, value, nodes', value2)
  <2> DEFINE network2 == gate.nodes
  <2>1. Grows(n, network1, value1, network2, value2) /\ Grows(n, nodes, value, network1, value1)
    BY <1>6
  <2> HIDE DEF network2, n
  <2>2. Grows(n, nodes, value, network2, value2)
    BY <1>2, <2>1, GrowsOn
  <2> QED BY <2>2 DEF network2, n
<1>8. Taken(n, nodes', signal)
  <2>1. signal \in 2 .. n + 1 + Len(gate.nodes)
    BY <1>2, <1>5, AddedSignal
  <2> QED BY <2>1 DEF Taken
<1>9. Computes(n, pis, value, value2[signal + 1], <<a, b, c>>, inv, table)
  <2>1. value2[signal + 1] = GateValue(n, <<r, s, t>>, table, value1)
    BY <1>5 DEF Adds
  <2> DEFINE u == value1[r + 1]
             v == value1[s + 1]
             w == value1[t + 1]
  <2>2. GateValue(n, <<r, s, t>>, table, value1) = Combine(n, table, <<u, v, w>>)
    <3>1. u = value1[r + 1] /\ v = value1[s + 1] /\ w = value1[t + 1]
      OBVIOUS
    <3> HIDE DEF n, u, v, w, gate, last, signal
    <3> QED BY <3>1, GateOfTriple
  <2>3. /\ Legs(n, pis, value, a, inv = 1, u) /\ Legs(n, pis, value, b, inv = 2, v)
        /\ Legs(n, pis, value, c, inv = 3, w)
    OBVIOUS
  <2> HIDE DEF u, v, w, n
  <2>4. Computes(n, pis, value, Combine(n, table, <<u, v, w>>), <<a, b, c>>, inv, table)
    BY <2>3, TripleComputes
  <2> QED BY <2>1, <2>2, <2>4
<1>10. Rewired(pis, x, signal, pis')
  OBVIOUS
<1> HIDE DEF signal, gate, last
<1> QED BY <1>7, <1>8, <1>9, <1>10, MergedSound

(* Three things of which no two are the same.                              *)
LEMMA Apart ==
  ASSUME NEW x, NEW y, NEW z, Cardinality({x, y, z}) = 3
  PROVE  x # y /\ x # z /\ y # z
<1>1. ASSUME NEW u, NEW v PROVE Cardinality({u, v}) <= 2
  <2>1. IsFiniteSet({u}) /\ Cardinality({u}) = 1
    BY FS_Singleton
  <2>2. Cardinality({u} \cup {v}) = IF v \in {u} THEN Cardinality({u}) ELSE Cardinality({u}) + 1
    BY <2>1, FS_AddElement
  <2>3. {u, v} = {u} \cup {v}
    OBVIOUS
  <2> QED BY <2>1, <2>2, <2>3
<1>2. ASSUME x = y \/ x = z \/ y = z PROVE FALSE
  <2>1. \E u, v : {x, y, z} = {u, v}
    BY <1>2
  <2>2. Cardinality({x, y, z}) <= 2
    BY <1>1, <2>1
  <2> QED BY <2>2
<1> QED BY <1>2

(* The first of the triples where a test succeeds.                         *)
LEMMA TriplePlaces ==
  ASSUME NEW places \in SUBSET Triples, places # {}, Places \subseteq Nat
  PROVE  FirstOf(places) \in places
<1>1. places \in SUBSET (Nat \X Nat \X Nat)
  BY DEF Triples
<1> QED BY <1>1, FirstOfThree

(* The variables of a triple.                                              *)
LEMMA TripleVars ==
  ASSUME Invariant, phase \in Tests, NEW p \in Triples, NEW i, i = p[1], NEW j, j = p[2],
         NEW k, k = p[3]
  PROVE  /\ support[i] \in Vars /\ support[j] \in Vars /\ support[k] \in Vars
         /\ support[i] \in ToSet(support) /\ support[j] \in ToSet(support)
         /\ support[k] \in ToSet(support)
         /\ support[i] # support[j] /\ support[i] # support[k] /\ support[j] # support[k]
<1>1. i \in Places /\ j \in Places /\ k \in Places /\ Cardinality({i, j, k}) = 3
  BY DEF Triples
<1>2. i # j /\ i # k /\ j # k
  BY <1>1, Apart
<1> QED BY <1>1, <1>2, Positions

(* A variable of the support has a signal with its function.               *)
LEMMA Straight ==
  ASSUME NEW n \in Nat, NEW network, NetworkOK(n, network), NEW p, Signals(n, network, p),
         NEW value, NEW network1, NEW value1, Grows(n, network, value, network1, value1),
         NEW v \in Inputs(n), NEW inverted, ~inverted, NEW k, k = p[v]
  PROVE  /\ Known(n, network1, k)
         /\ value1[k + 1] = value[k + 1]
         /\ Legs(n, p, value, v, inverted, value1[k + 1])
<1> DEFINE L == Len(network)
<1>1. k \in Nat /\ k <= n + 1 + L /\ k \in 0 .. n + 1 + L
  BY SignalOf
<1>2. Known(n, network1, k)
  BY <1>1, SignalsStay DEF Known
<1>3. value1[k + 1] = value[k + 1]
  <2>1. \A i \in 1 .. n + 2 + L : value1[i] = value[i]
    BY DEF Grows
  <2>2. L \in Nat
    BY DEF NetworkOK
  <2> HIDE DEF L
  <2>3. k + 1 \in 1 .. n + 2 + L
    BY <1>1, <2>2
  <2> QED BY <2>1, <2>3
<1>4. Legs(n, p, value, v, inverted, value1[k + 1])
  <2> DEFINE u == value1[k + 1]
  <2>1. u = value[p[v] + 1]
    BY <1>3
  <2> HIDE DEF u
  <2>2. \A a \in Points(n) : v \in Values(n, p, value, a) <=> a \in u
    BY <2>1 DEF Values
  <2>3. Legs(n, p, value, v, inverted, u)
    BY <2>2 DEF Legs
  <2> QED BY <2>3 DEF u
<1> QED BY <1>2, <1>3, <1>4

(* The mux test.                                                           *)
LEMMA TryMuxSound == Invariant /\ TryMux => Invariant'
<1> SUFFICES ASSUME Invariant, TryMux PROVE Invariant'
  OBVIOUS
<1> DEFINE places == {p \in Triples :
                        MuxDecomposes(remainder, support[p[1]], support[p[2]], support[p[3]])}
           n == goal.inputs
<1>1. phase = "mux" /\ phase \in Tests /\ UNCHANGED <<goal, s_num, result>>
  BY DEF TryMux, Try, Tests
<1>2. CASE places = {}
  <2>1. phase' = "maj" /\ UNCHANGED <<nodes, remainder, support, pis, stack>>
    BY <1>2 DEF TryMux, Try
  <2>2. phase' \in Tests
    BY <2>1 DEF Tests
  <2> QED BY <1>1, <2>1, <2>2, FailedSound
<1>3. CASE places # {}
  <2> DEFINE p == FirstOf(places)
             i == p[1]
             j == p[2]
             k == p[3]
             sel == support[i]
             x == support[j]
             y == support[k]
             rest == MuxRest(remainder, sel, x, y)
             r == pis[sel]
             s == pis[y]
             t == pis[x]
             dropped == {x, y}
  <2>1. TakeMux(p) /\ phase' = "run"
    BY <1>3 DEF TryMux, Try
  <2>2. p \in places
    <3>1. places \in SUBSET Triples /\ Places \subseteq Nat
      BY <1>1, Positions
    <3> HIDE DEF places
    <3> QED BY <1>3, <3>1, TriplePlaces
  <2>3. p \in Triples /\ MuxDecomposes(remainder, sel, x, y)
    BY <2>2
  <2>4. Replace(i, {j, k}, Built(nodes, <<r, s, t>>, Ite3), rest)
    BY <2>1 DEF TakeMux
  <2> HIDE DEF p, rest
  <2>5. /\ nodes' = Built(nodes, <<r, s, t>>, Ite3).nodes
        /\ Rewired(pis, sel, Built(nodes, <<r, s, t>>, Ite3).signal, pis')
        /\ support' = Sublist(support, Vars \ dropped)
        /\ remainder' = rest /\ UNCHANGED stack
    <3>1. {support[q] : q \in {j, k}} = dropped
      OBVIOUS
    <3> QED BY <2>4, <3>1 DEF Replace, Rewired
  <2>6. /\ sel \in Vars /\ x \in Vars /\ y \in Vars /\ sel \in ToSet(support)
        /\ sel # x /\ sel # y /\ x # y
    <3> HIDE DEF i, j, k
    <3> QED BY <1>1, <2>3, TripleVars DEF i, j, k
  <2>7. phase \notin {"return"} \cup Over
    BY <1>1 DEF Over
  <2>8. /\ goal \in Functions /\ n \in Nat /\ NetworkOK(n, nodes) /\ Signals(n, nodes, pis)
        /\ remainder \in SUBSET Assignments /\ Vars = Inputs(n)
    BY <2>7, Running, Words
  <2>9. PICK value : /\ IsValue(n, nodes, value)
                     /\ Due(n, pis, stack, value, goal.on, Reading(n, remainder, pis, value))
    BY <2>7, Running
  <2>10. Grows(n, nodes, value, nodes, value)
    BY <2>8, <2>9, GrowsNot
  <2> HIDE DEF sel, x, y, n
  <2>11. /\ rest \in SUBSET Assignments
         /\ Merges(remainder, rest, <<sel, y, x>>, 0, Ite3, sel)
         /\ Forgets(remainder, rest, dropped, sel)
    BY <2>3, <2>6, <2>8, MuxSound DEF rest
  <2>12. sel \in Inputs(n) /\ x \in Inputs(n) /\ y \in Inputs(n)
    BY <2>6, <2>8
  <2>13. Known(n, nodes, r) /\ Legs(n, pis, value, sel, 0 = 1, value[r + 1])
    <3>1. ~(0 = 1)
      OBVIOUS
    <3> QED BY <2>8, <2>10, <2>12, <3>1, Straight
  <2>14. Known(n, nodes, s) /\ Legs(n, pis, value, y, 0 = 2, value[s + 1])
    <3>1. ~(0 = 2)
      OBVIOUS
    <3> QED BY <2>8, <2>10, <2>12, <3>1, Straight
  <2>15. Known(n, nodes, t) /\ Legs(n, pis, value, x, 0 = 3, value[t + 1])
    <3>1. ~(0 = 3)
      OBVIOUS
    <3> QED BY <2>8, <2>10, <2>12, <3>1, Straight
  <2>16. Ite3 \in SUBSET SUBSET (1 .. 3) /\ sel \notin dropped
    BY <2>6 DEF Ite3
  <2> HIDE DEF r, s, t, dropped
  <2> QED BY <1>1, <2>1, <2>5, <2>6, <2>9, <2>10, <2>11, <2>13, <2>14, <2>15, <2>16, TripleSound DEF n
<1> QED BY <1>2, <1>3

(* A variable of the support and its inverter.                             *)
LEMMA Inverted ==
  ASSUME NEW n \in Nat, NEW p, NEW value, NEW network, NEW network1, NEW value1, NEW k, NEW signal,
         Adds(n, network, value, <<k>>, Not1, network1, signal, value1),
         NEW v \in Inputs(n), k = p[v]
  PROVE  /\ Known(n, network1, signal)
         /\ Legs(n, p, value, v, TRUE, value1[signal + 1])
<1> DEFINE u == value1[signal + 1]
           w == value[k + 1]
<1>1. Known(n, network1, signal)
  BY AddedSignal DEF Known
<1>2. u = Combine(n, Not1, <<w>>)
  <2>1. u = GateValue(n, <<k>>, Not1, value)
    BY DEF Adds
  <2>2. GateValue(n, <<k>>, Not1, value) = Combine(n, Not1, <<value[k + 1]>>)
    BY GateOfOne
  <2> QED BY <2>1, <2>2
<1>3. \A a \in Points(n) : v \in Values(n, p, value, a) <=> a \in w
  BY DEF Values
<1> HIDE DEF u, w
<1>4. \A a \in Points(n) : a \in u <=> a \notin w
  BY <1>2, CombineOne
<1>5. Legs(n, p, value, v, TRUE, u)
  BY <1>3, <1>4 DEF Legs
<1> QED BY <1>1, <1>5 DEF u

(* The network after the inverter of a majority gate, if it has one, and   *)
(* what is then known of the gate's fanins.                                *)
MajInverted(network, p, x, y, z, case, inverted) ==
  inverted = IF case = 0 THEN [nodes |-> network]
             ELSE Built(network, <<p[<<x, y, z>>[case]]>>, Not1)
MajReady(n, network, p, value, x, y, z, case, inverted) ==
  \E value1 : \E r, s, t :
    /\ Grows(n, network, value, inverted.nodes, value1)
    /\ [m \in 1 .. 3 |-> IF m = case THEN inverted.signal ELSE p[<<x, y, z>>[m]]]
         = <<r, s, t>>
    /\ Known(n, inverted.nodes, r) /\ Legs(n, p, value, x, case = 1, value1[r + 1])
    /\ Known(n, inverted.nodes, s) /\ Legs(n, p, value, y, case = 2, value1[s + 1])
    /\ Known(n, inverted.nodes, t) /\ Legs(n, p, value, z, case = 3, value1[t + 1])

(* The fanins of a majority gate, one of them inverted or none.            *)
LEMMA MajLegs ==
  ASSUME NEW n \in Nat, NEW network, NetworkOK(n, network), NEW p, Signals(n, network, p),
         NEW value, IsValue(n, network, value), n = goal.inputs,
         NEW x \in Inputs(n), NEW y \in Inputs(n), NEW z \in Inputs(n), NEW case \in 0 .. 3,
         NEW inverted, MajInverted(network, p, x, y, z, case, inverted)
  PROVE  MajReady(n, network, p, value, x, y, z, case, inverted)
<1> DEFINE network1 == inverted.nodes
           signal == inverted.signal
           xyz == <<x, y, z>>
           fanins == [m \in 1 .. 3 |-> IF m = case THEN signal ELSE p[xyz[m]]]
           r == IF case = 1 THEN signal ELSE p[x]
           s == IF case = 2 THEN signal ELSE p[y]
           t == IF case = 3 THEN signal ELSE p[z]
<1>1. fanins = <<r, s, t>>
  <2>1. xyz[1] = x /\ xyz[2] = y /\ xyz[3] = z
    OBVIOUS
  <2> HIDE DEF xyz, signal
  <2>2. \A m \in 1 .. 3 : m = 1 \/ m = 2 \/ m = 3
    OBVIOUS
  <2> QED BY <2>1, <2>2
<1>2. \E value1 : /\ Grows(n, network, value, network1, value1)
                  /\ \A v \in Inputs(n) : \A m \in 1 .. 3 :
                       m = case /\ v = xyz[m] =>
                         Known(n, network1, signal) /\ Legs(n, p, value, v, TRUE, value1[signal + 1])
  <2>1. CASE case = 0
    <3>1. network1 = network
      BY <2>1 DEF MajInverted
    <3>2. Grows(n, network, value, network1, value)
      BY <3>1, GrowsNot
    <3>3. \A m \in 1 .. 3 : m # case
      BY <2>1
    <3> HIDE DEF network1, signal, xyz
    <3> QED BY <3>2, <3>3
  <2>2. CASE case # 0
    <3> DEFINE v == xyz[case]
               k == p[v]
               gate == Built(network, <<k>>, Not1)
    <3>1. case \in 1 .. 3 /\ v \in Inputs(n)
      BY <2>2
    <3>2. inverted = gate
      BY <2>2 DEF MajInverted
    <3> HIDE DEF v, xyz
    <3>3. k \in Nat /\ k <= n + 1 + Len(network)
      BY <3>1, SignalOf
    <3>4. GateOK(<<k>>, Not1, n + 1 + Len(network))
      <4> HIDE DEF k
      <4> QED BY <3>3, GateOneOK
    <3>5. PICK value1 : Adds(n, network, value, <<k>>, Not1, gate.nodes, gate.signal, value1)
      BY <3>4, BuiltFacts
    <3>6. Grows(n, network, value, network1, value1)
      BY <3>2, <3>5, GrowsByGate
    <3>7. Known(n, network1, signal) /\ Legs(n, p, value, v, TRUE, value1[signal + 1])
      <4>1. Adds(n, network, value, <<k>>, Not1, network1, signal, value1)
        BY <3>2, <3>5
      <4> DEFINE k1 == k
      <4>2. Adds(n, network, value, <<k1>>, Not1, network1, signal, value1) /\ k1 = p[v]
        BY <4>1
      <4> HIDE DEF k1, network1, signal
      <4> QED BY <3>1, <4>2, Inverted
    <3> HIDE DEF network1, signal
    <3> QED BY <3>6, <3>7 DEF v
  <2> QED BY <2>1, <2>2
<1>3. PICK value1 : /\ Grows(n, network, value, network1, value1)
                    /\ \A v \in Inputs(n) : \A m \in 1 .. 3 :
                         m = case /\ v = xyz[m] =>
                           Known(n, network1, signal) /\ Legs(n, p, value, v, TRUE, value1[signal + 1])
  BY <1>2
<1>4. xyz[1] = x /\ xyz[2] = y /\ xyz[3] = z
  OBVIOUS
<1> HIDE DEF network1, signal, xyz, fanins
<1>5. ASSUME NEW v \in Inputs(n), NEW m \in 1 .. 3, v = xyz[m], NEW q,
             q = IF case = m THEN signal ELSE p[v]
      PROVE  Known(n, network1, q) /\ Legs(n, p, value, v, case = m, value1[q + 1])
  <2>1. CASE case = m
    <3>1. Known(n, network1, signal) /\ Legs(n, p, value, v, TRUE, value1[signal + 1])
      BY <1>3, <1>5, <2>1
    <3>2. (case = m) = TRUE /\ q = signal
      BY <1>5, <2>1
    <3> QED BY <3>1, <3>2
  <2>2. CASE case # m
    <3>1. q = p[v] /\ ~(case = m)
      BY <1>5, <2>2
    <3> QED BY <1>3, <3>1, Straight
  <2> QED BY <2>1, <2>2
<1>6. /\ Known(n, network1, r) /\ Legs(n, p, value, x, case = 1, value1[r + 1])
      /\ Known(n, network1, s) /\ Legs(n, p, value, y, case = 2, value1[s + 1])
      /\ Known(n, network1, t) /\ Legs(n, p, value, z, case = 3, value1[t + 1])
  <2>1. 1 \in 1 .. 3 /\ 2 \in 1 .. 3 /\ 3 \in 1 .. 3
    OBVIOUS
  <2> QED BY <1>4, <1>5, <2>1
<1> QED BY <1>1, <1>3, <1>6 DEF MajReady, network1, signal, xyz, fanins

(* The majority test.                                                      *)
LEMMA TryMajSound == Invariant /\ TryMaj => Invariant'
<1> SUFFICES ASSUME Invariant, TryMaj PROVE Invariant'
  OBVIOUS
<1> DEFINE places == {p \in Triples :
                        /\ p[3] < p[2] /\ p[2] < p[1]
                        /\ MajCase(remainder, support[p[3]], support[p[2]], support[p[1]]) # -1}
           n == goal.inputs
<1>1. phase = "maj" /\ phase \in Tests /\ UNCHANGED <<goal, s_num, result>>
  BY DEF TryMaj, Try, Tests
<1>2. CASE places = {}
  <2>1. phase' = "split" /\ UNCHANGED <<nodes, remainder, support, pis, stack>>
    BY <1>2 DEF TryMaj, Try
  <2>2. phase' \in Tests
    BY <2>1 DEF Tests
  <2> QED BY <1>1, <2>1, <2>2, FailedSound
<1>3. CASE places # {}
  <2> DEFINE p == FirstOf(places)
             i == p[1]
             j == p[2]
             k == p[3]
             x == support[k]
             y == support[j]
             z == support[i]
             case == MajCase(remainder, x, y, z)
             inverted == IF case = 0 THEN [nodes |-> nodes]
                         ELSE Built(nodes, <<pis[<<x, y, z>>[case]]>>, Not1)
             fanins == [m \in 1 .. 3 |-> IF m = case THEN inverted.signal ELSE pis[<<x, y, z>>[m]]]
             rest == MajRest(remainder, x, y, z)
             dropped == {y, z}
  <2>1. TakeMaj(p) /\ phase' = "run"
    BY <1>3 DEF TryMaj, Try
  <2>2. p \in places
    <3>1. places \in SUBSET Triples /\ Places \subseteq Nat
      BY <1>1, Positions
    <3> HIDE DEF places
    <3> QED BY <1>3, <3>1, TriplePlaces
  <2>3. p \in Triples /\ case # -1
    BY <2>2
  <2>4. Replace(k, {j, i}, Built(inverted.nodes, fanins, Maj3), rest)
    <3> HIDE DEF p
    <3>1. /\ <<x, y, z>>[1] = x /\ <<x, y, z>>[2] = y /\ <<x, y, z>>[3] = z
      OBVIOUS
    <3> QED BY <2>1, <3>1, Zenon DEF TakeMaj
  <2> HIDE DEF p, rest
  <2>5. /\ x \in Vars /\ y \in Vars /\ z \in Vars /\ x \in ToSet(support)
        /\ x # y /\ x # z /\ y # z
    <3> HIDE DEF i, j, k
    <3> QED BY <1>1, <2>3, TripleVars DEF i, j, k
  <2>6. phase \notin {"return"} \cup Over
    BY <1>1 DEF Over
  <2>7. /\ goal \in Functions /\ n \in Nat /\ NetworkOK(n, nodes) /\ Signals(n, nodes, pis)
        /\ remainder \in SUBSET Assignments /\ Vars = Inputs(n)
    BY <2>6, Running, Words
  <2>8. PICK value : /\ IsValue(n, nodes, value)
                     /\ Due(n, pis, stack, value, goal.on, Reading(n, remainder, pis, value))
    BY <2>6, Running
  <2>9. case \in 0 .. 3
    <3> HIDE DEF x, y, z
    <3> QED BY <2>3, <2>5, MajCases
  <2>10. /\ rest \in SUBSET Assignments
         /\ Merges(remainder, rest, <<x, y, z>>, case, Maj3, x)
         /\ Forgets(remainder, rest, dropped, x)
    <3> HIDE DEF x, y, z
    <3> QED BY <2>3, <2>5, <2>7, MajSound DEF rest
  <2>11. \E value1 : \E r, s, t :
           /\ Grows(n, nodes, value, inverted.nodes, value1)
           /\ fanins = <<r, s, t>>
           /\ Known(n, inverted.nodes, r) /\ Legs(n, pis, value, x, case = 1, value1[r + 1])
           /\ Known(n, inverted.nodes, s) /\ Legs(n, pis, value, y, case = 2, value1[s + 1])
           /\ Known(n, inverted.nodes, t) /\ Legs(n, pis, value, z, case = 3, value1[t + 1])
    <3>1. x \in Inputs(n) /\ y \in Inputs(n) /\ z \in Inputs(n)
      BY <2>5, <2>7
    <3> DEFINE g == inverted
    <3>2. MajInverted(nodes, pis, x, y, z, case, g)
      BY DEF MajInverted
    <3>3. n = goal.inputs
      OBVIOUS
    <3> HIDE DEF g, x, y, z, case, n
    <3>4. MajReady(n, nodes, pis, value, x, y, z, case, g)
      BY <2>7, <2>8, <2>9, <3>1, <3>2, <3>3, MajLegs
    <3> QED BY <3>4 DEF g, MajReady
  <2>12. PICK value1, r, s, t :
           /\ Grows(n, nodes, value, inverted.nodes, value1)
           /\ fanins = <<r, s, t>>
           /\ Known(n, inverted.nodes, r) /\ Legs(n, pis, value, x, case = 1, value1[r + 1])
           /\ Known(n, inverted.nodes, s) /\ Legs(n, pis, value, y, case = 2, value1[s + 1])
           /\ Known(n, inverted.nodes, t) /\ Legs(n, pis, value, z, case = 3, value1[t + 1])
    BY <2>11
  <2> DEFINE network1 == inverted.nodes
  <2>13. /\ nodes' = Built(network1, <<r, s, t>>, Maj3).nodes
         /\ Rewired(pis, x, Built(network1, <<r, s, t>>, Maj3).signal, pis')
         /\ support' = Sublist(support, Vars \ dropped)
         /\ remainder' = rest /\ UNCHANGED stack
    <3>1. {support[q] : q \in {j, i}} = dropped
      OBVIOUS
    <3>2. Replace(k, {j, i}, Built(network1, <<r, s, t>>, Maj3), rest)
      BY <2>4, <2>12
    <3> HIDE DEF network1, inverted, fanins
    <3> QED BY <3>1, <3>2 DEF Replace, Rewired
  <2>14. Maj3 \in SUBSET SUBSET (1 .. 3) /\ x \notin dropped
    BY <2>5 DEF Maj3
  <2>15. /\ Grows(goal.inputs, nodes, value, network1, value1)
         /\ Known(goal.inputs, network1, r) /\ Known(goal.inputs, network1, s)
         /\ Known(goal.inputs, network1, t)
         /\ Legs(goal.inputs, pis, value, x, case = 1, value1[r + 1])
         /\ Legs(goal.inputs, pis, value, y, case = 2, value1[s + 1])
         /\ Legs(goal.inputs, pis, value, z, case = 3, value1[t + 1])
         /\ IsValue(goal.inputs, nodes, value)
         /\ Due(goal.inputs, pis, stack, value, goal.on,
                Reading(goal.inputs, remainder, pis, value))
    BY <2>8, <2>12
  <2> HIDE DEF network1, inverted, fanins, x, y, z, case, dropped, n
  <2> QED BY <1>1, <2>1, <2>5, <2>10, <2>13, <2>14, <2>15, TripleSound
<1> QED BY <1>2, <1>3

-----------------------------------------------------------------------------
(***************************************************************************)
(* Calls that begin and end.                                               *)
(***************************************************************************)
(* The running call makes another and waits for it.                        *)
LEMMA Called ==
  ASSUME NEW n \in Nat, NEW g, NEW network, NEW f, NEW s, NEW p, NEW frames, NEW r, NEW at,
         Shape(n, network, f, s, p, frames, r, at),
         NEW value, IsValue(n, network, value),
         NEW frame \in Frame(n), frame.at # "second",
         NEW f2 \in SUBSET Points(n), NEW s2 \in Seq(Inputs(n)), Increasing(s2),
         ToSet(s2) \subseteq ToSet(s), frame.var \notin ToSet(s2), Covers(n, ToSet(s2), f2),
         frame.at = "first" => /\ FirstOK(n, n + 1 + Len(network), frame) /\ frame.pis = p
                               /\ ToSet(frame.support) \subseteq ToSet(s2),
         Due(n, p, frames, value, g, WaitOf(n, p, frame, value, Reading(n, f2, p, value)))
  PROVE  Sound(n, g, network, f2, s2, p, Append(frames, frame), r, "run")
<1> DEFINE last == n + 1 + Len(network)
           x == Reading(n, f2, p, value)
           frames2 == Append(frames, frame)
<1>1. /\ NetworkOK(n, network) /\ Signals(n, network, p)
      /\ frames \in Seq(Frame(n)) /\ FramesOK(n, last, frames, p, ToSet(s))
      /\ r \in 0 .. n + 1 + Len(network)
  BY DEF Shape, Calls
<1>2. /\ frame.at = "second" => frame.first <= last
      /\ frame.at = "first" => /\ FirstOK(n, last, frame) /\ frame.pis = p
                               /\ ToSet(frame.support) \subseteq ToSet(s2)
  OBVIOUS
<1>3. x \in SUBSET Points(n) /\ Due(n, p, frames, value, g, WaitOf(n, p, frame, value, x))
  BY DEF Reading
<1>4. frames2 \in Seq(Frame(n)) /\ FramesOK(n, last, frames2, p, ToSet(s2))
  <2> HIDE DEF last, frames2, x
  <2> QED BY <1>1, <1>2, FramesPushed DEF frames2
<1>5. Due(n, p, frames2, value, g, x)
  <2> HIDE DEF x
  <2> QED BY <1>1, <1>3, DuePushed
<1> HIDE DEF frames2
<1>6. Calls(n, network, frames2, p, ToSet(s2))
  BY <1>4 DEF Calls
<1>7. "run" \notin Tests
  BY DEF Tests
<1>8. Shape(n, network, f2, s2, p, frames2, r, "run")
  BY <1>1, <1>6, <1>7 DEF Shape
<1>9. Kept(n, g, network, f2, p, frames2, r, "run")
  BY <1>5 DEF Kept, Now
<1> QED BY <1>8, <1>9 DEF Sound, frames2

(* The last call that waits adds its gate and returns.                     *)
LEMMA Resumed ==
  ASSUME NEW n \in Nat, NEW g, NEW network, NEW f, NEW s, NEW p, NEW frames, NEW r,
         Shape(n, network, f, s, p, frames, r, "return"), frames # <<>>,
         NEW value, NEW x, Due(n, p, frames, value, g, x),
         NEW network2, NEW value2, Grows(n, network, value, network2, value2),
         NEW r2 \in 0 .. n + 1 + Len(network2),
         value2[r2 + 1] = WaitOf(n, p, Last(frames), value, x)
  PROVE  Sound(n, g, network2, f, s, p, Front(frames), r2, "return")
<1> DEFINE rest == Front(frames)
           y == WaitOf(n, p, Last(frames), value, x)
           last == n + 1 + Len(network)
<1>1. /\ frames \in Seq(Frame(n)) /\ FramesOK(n, last, frames, p, ToSet(s))
      /\ s \in Seq(Inputs(n)) /\ Increasing(s)
  BY DEF Shape, Calls
<1>2. rest \in Seq(Frame(n)) /\ FramesOK(n, last, rest, p, ToSet(s))
  <2> HIDE DEF last
  <2> QED BY <1>1, FramesPopped
<1>3. Due(n, p, rest, value, g, y)
  BY <1>1, DuePopped
<1>4. value2[r2 + 1] = y
  OBVIOUS
<1> HIDE DEF rest, y
<1>5. Shape(n, network, f, s, p, rest, r, "return")
  BY <1>2 DEF Shape, Calls
<1>6. Sound(n, g, network2, f, s, p, rest, r2, "return")
  BY <1>1, <1>3, <1>4, <1>5, Returned
<1> QED BY <1>6 DEF rest

(* The call that waits for the first half of a split makes the second: the *)
(* variable of the split and those of the calls below have the signals     *)
(* they had, and the others are those the first half started from.         *)
LEMMA Halved ==
  ASSUME NEW n \in Nat, NEW g, NEW network, NEW f, NEW s, NEW p, NEW frames, NEW r,
         Shape(n, network, f, s, p, frames, r, "return"), frames # <<>>,
         NEW value, IsValue(n, network, value), Due(n, p, frames, value, g, value[r + 1]),
         NEW frame, frame = Last(frames), frame.at = "first"
  PROVE  Sound(n, g, network, frame.other, frame.support, frame.pis,
               Append(Front(frames), [at |-> "second", var |-> frame.var, first |-> r]),
               r, "run")
<1> DEFINE rest == Front(frames)
           last == n + 1 + Len(network)
           p2 == frame.pis
           s2 == frame.support
           f2 == frame.other
           half == [at |-> "second", var |-> frame.var, first |-> r]
           x == Reading(n, f2, p2, value)
           w == WaitOf(n, p, frame, value, value[r + 1])
           d == Len(frames)
<1>1. /\ NetworkOK(n, network) /\ Signals(n, network, p)
      /\ frames \in Seq(Frame(n)) /\ FramesOK(n, last, frames, p, ToSet(s))
      /\ r \in 0 .. n + 1 + Len(network)
  BY DEF Shape, Calls
<1>2. /\ rest \in Seq(Frame(n)) /\ DOMAIN rest = 1 .. d - 1
      /\ \A k \in 1 .. d - 1 : rest[k] = frames[k]
      /\ frame = frames[d] /\ d \in DOMAIN frames /\ frame \in Frame(n)
      /\ d \in Nat \ {0} /\ DOMAIN frames = 1 .. d
  BY <1>1, FrontFacts
<1>3. /\ frame.var \in Inputs(n) /\ f2 \in SUBSET Points(n) /\ s2 \in Seq(Inputs(n))
      /\ p2 \in [Inputs(n) -> Nat]
  BY <1>2, FrameKinds
<1>4. /\ FirstOK(n, last, frame)
      /\ \A e \in 1 .. d : frames[e].var \notin ToSet(s2) /\ p2[frames[e].var] = p[frames[e].var]
  BY <1>1, <1>2 DEF FramesOK
<1>5. Increasing(s2) /\ Covers(n, ToSet(s2), f2) /\ \A v \in Inputs(n) : p2[v] \in 2 .. last
  BY <1>4 DEF FirstOK
<1>6. Signals(n, network, p2)
  BY <1>3, <1>5 DEF Signals
<1>7. frame.var \notin ToSet(s2) /\ p2[frame.var] = p[frame.var]
  <2>1. d \in 1 .. d
    BY <1>2
  <2> QED BY <1>2, <1>4, <2>1
<1>8. \A e \in DOMAIN rest : rest[e].var \notin ToSet(s2) /\ p2[rest[e].var] = p[rest[e].var]
  <2>1. \A e \in 1 .. d - 1 : e \in 1 .. d
    BY <1>2
  <2> QED BY <1>2, <1>4, <2>1
<1>9. FramesOK(n, last, rest, p, ToSet(s)) /\ Due(n, p, rest, value, g, w)
  <2>1. FramesOK(n, last, rest, p, ToSet(s))
    <3> HIDE DEF last
    <3> QED BY <1>1, FramesPopped
  <2>2. Due(n, p, rest, value, g, w)
    BY <1>1, DuePopped
  <2> QED BY <2>1, <2>2
<1>10. half \in Frame(n) /\ half.first <= last
  <2> DEFINE L == Len(network)
  <2>1. L \in Nat /\ r \in 0 .. n + 1 + L
    BY <1>1 DEF NetworkOK
  <2> HIDE DEF L
  <2>2. r \in Nat /\ r <= n + 1 + L
    BY <2>1
  <2> HIDE DEF half
  <2>3. half.at = "second" /\ half.var = frame.var /\ half.first = r
    BY DEF half
  <2>4. half \in [at : {"second"}, var : Inputs(n), first : Nat]
    BY <1>3, <2>2 DEF half
  <2> QED BY <2>2, <2>3, <2>4 DEF L, Frame
<1>11. w = WaitOf(n, p2, half, value, x)
  <2>1. /\ w = Combine(n, Ite3, <<value[p[frame.var] + 1], x, value[r + 1]>>)
    BY DEF WaitOf
  <2>2. half.at = "second" /\ half.var = frame.var /\ half.first = r
    OBVIOUS
  <2> HIDE DEF half, x, w
  <2>3. WaitOf(n, p2, half, value, x)
          = Combine(n, Ite3, <<value[p2[frame.var] + 1], x, value[r + 1]>>)
    BY <2>2 DEF WaitOf
  <2> QED BY <1>7, <2>1, <2>3
<1> DEFINE S2 == ToSet(s2)
<1>12. Calls(n, network, rest, p, ToSet(s)) /\ Grows(n, network, value, network, value)
  BY <1>1, <1>2, <1>9, GrowsNot DEF Calls
<1>13. frame.var \notin S2 /\ half.var = frame.var /\ half.at = "second"
  BY <1>7
<1> HIDE DEF rest, p2, s2, f2, half, x, w, d, S2
<1>14. Calls(n, network, rest, p2, S2) /\ SameWaits(n, rest, p, value, p2, value)
  <2> HIDE DEF last
  <2> QED BY <1>1, <1>8, <1>12, FramesKept DEF S2
<1>15. Due(n, p2, rest, value, g, WaitOf(n, p2, half, value, x))
  BY <1>2, <1>9, <1>11, <1>14, DueKept
<1> DEFINE frames2 == Append(rest, half)
<1>16. frames2 \in Seq(Frame(n)) /\ FramesOK(n, last, frames2, p2, S2)
  <2>1. FramesOK(n, last, rest, p2, S2)
    BY <1>14 DEF Calls
  <2>2. /\ half.var \notin S2
        /\ half.at = "second" => half.first <= last
        /\ half.at # "first"
    BY <1>10, <1>13
  <2> HIDE DEF last, frames2
  <2> QED BY <1>2, <1>10, <2>1, <2>2, FramesPushed DEF frames2
<1>17. Due(n, p2, frames2, value, g, x)
  <2>1. x \in SUBSET Points(n)
    BY DEF x, Reading
  <2> QED BY <1>2, <1>10, <1>15, <2>1, DuePushed
<1> HIDE DEF frames2
<1>18. "run" \notin Tests
  BY DEF Tests
<1>19. Shape(n, network, f2, s2, p2, frames2, r, "run")
  BY <1>1, <1>3, <1>5, <1>6, <1>16, <1>18 DEF Shape, Calls, S2
<1>20. Kept(n, g, network, f2, p2, frames2, r, "run")
  BY <1>17 DEF Kept, Now, x
<1>21. Sound(n, g, network, f2, s2, p2, frames2, r, "run")
  BY <1>19, <1>20 DEF Sound
<1> QED BY <1>21 DEF f2, s2, p2, frames2, rest, half

(* A step that makes a call which works on the variables but one.          *)
LEMMA CallSound ==
  ASSUME Invariant, phase \notin {"return"} \cup Over,
         NEW value, IsValue(goal.inputs, nodes, value),
         NEW frame \in Frame(goal.inputs), frame.at # "second", frame.var \in ToSet(support),
         NEW rest \in SUBSET Assignments, remainder' = rest,
         NEW s2, s2 = Sublist(support, Vars \ {frame.var}), support' = s2,
         \A v \in Vars \ ToSet(s2) : ~HasVar(rest, v),
         frame.at = "first" => /\ FirstOK(goal.inputs, goal.inputs + 1 + Len(nodes), frame)
                               /\ frame.pis = pis /\ ToSet(frame.support) \subseteq ToSet(s2),
         Due(goal.inputs, pis, stack, value, goal.on,
             WaitOf(goal.inputs, pis, frame, value, Reading(goal.inputs, rest, pis, value))),
         stack' = Append(stack, frame), phase' = "run", s_num' \in 0 .. 50,
         UNCHANGED <<goal, nodes, pis, result>>
  PROVE  Invariant'
<1> DEFINE n == goal.inputs
           g == goal.on
           last == goal.inputs + 1 + Len(nodes)
           S2 == ToSet(s2)
<1>1. /\ goal \in Functions /\ n \in Nat /\ rest \in SUBSET Points(n)
      /\ Shape(n, nodes, remainder, support, pis, stack, result, phase)
      /\ support \in Seq(Inputs(n)) /\ Increasing(support)
  BY Running, Words
<1>2. /\ s2 \in Seq(Inputs(n)) /\ Increasing(s2) /\ S2 = ToSet(support) \ {frame.var}
  BY <1>1, Without
<1>3. Covers(n, S2, rest)
  <2> HIDE DEF S2
  <2>1. Covers(goal.inputs, S2, rest)
    BY <1>1, CoversVars DEF S2
  <2> QED BY <2>1
<1>4. /\ Due(n, pis, stack, value, g, WaitOf(n, pis, frame, value, Reading(n, rest, pis, value)))
      /\ frame.at = "first" => /\ FirstOK(n, n + 1 + Len(nodes), frame) /\ frame.pis = pis
                               /\ ToSet(frame.support) \subseteq ToSet(s2)
      /\ IsValue(n, nodes, value) /\ frame \in Frame(n)
  OBVIOUS
<1>5. ToSet(s2) \subseteq ToSet(support) /\ frame.var \notin ToSet(s2)
  BY <1>2
<1>6. Covers(n, ToSet(s2), rest)
  BY <1>3
<1> HIDE DEF n, g, S2
<1>7. Sound(n, g, nodes, rest, s2, pis, Append(stack, frame), result, "run")
  BY <1>1, <1>2, <1>4, <1>5, <1>6, Called
<1>8. Sound(goal.inputs, goal.on, nodes', remainder', support', pis', stack', result', phase')
  BY <1>7 DEF n, g
<1>9. phase' \in Phases
  BY DEF Phases
<1> QED BY <1>8, <1>9, Rebuilt

(* The top test.                                                           *)
LEMMA TryTopSound == Invariant /\ TryTop => Invariant'
<1> SUFFICES ASSUME Invariant, TryTop PROVE Invariant'
  OBVIOUS
<1> DEFINE n == goal.inputs
           good == {q \in Places : TopCases(remainder, support[q]) # {}}
           places == {<<p>> : p \in good}
<1>1. phase = "top" /\ phase \in Tests /\ UNCHANGED <<goal, s_num, result>>
  BY DEF TryTop, Try, Tests
<1>2. CASE places = {}
  <2>1. phase' = "bottom" /\ UNCHANGED <<nodes, remainder, support, pis, stack>>
    BY <1>2 DEF TryTop, Try
  <2>2. phase' \in Tests
    BY <2>1 DEF Tests
  <2> QED BY <1>1, <2>1, <2>2, FailedSound
<1>3. CASE places # {}
  <2> DEFINE p == FirstOf(places)
             v == support[p[1]]
             c == CHOOSE k \in TopCases(remainder, v) : \A m \in TopCases(remainder, v) : k <= m
             top == TopTables(remainder, v)[c]
             table == top.table
             rest == top.rest
             frame == [at |-> "top", var |-> v, table |-> table]
             s2 == Sublist(support, Vars \ {v})
  <2>1. TakeTop(p) /\ phase' = "run"
    BY <1>3 DEF TryTop, Try
  <2>2. /\ stack' = Append(stack, frame) /\ support' = s2 /\ remainder' = rest
        /\ UNCHANGED <<nodes, pis>>
    BY <2>1 DEF TakeTop
  <2>3. phase \notin {"return"} \cup Over
    BY <1>1 DEF Over
  <2>4. p \in places
    <3>1. good \in SUBSET Nat /\ good # {}
      BY <1>1, <1>3, Positions
    <3> HIDE DEF good
    <3> QED BY <3>1, FirstOfOne
  <2>5. p[1] \in Places /\ TopCases(remainder, v) # {}
    <3>1. p[1] \in good
      <4> HIDE DEF p, good
      <4> QED BY <2>4
    <3> HIDE DEF p
    <3> QED BY <3>1
  <2>6. c \in TopCases(remainder, v)
    <3> DEFINE T == TopCases(remainder, v)
    <3> HIDE DEF v
    <3>1. T \in SUBSET Nat /\ T # {}
      <4>1. T \in SUBSET (1 .. 5)
        BY DEF TopCases
      <4> HIDE DEF T
      <4> QED BY <2>5, <4>1 DEF T
    <3> HIDE DEF T
    <3>2. \E k \in T : \A m \in T : k <= m
      BY <3>1, LeastNumber
    <3>3. (CHOOSE k \in T : \A m \in T : k <= m) \in T
      BY <3>2
    <3> QED BY <3>3 DEF T
  <2>7. v \in Vars /\ v \in Inputs(n) /\ v \in ToSet(support)
    BY <1>1, <2>5, Positions
  <2> HIDE DEF p, c, v
  <2>8. /\ n \in Nat /\ goal \in Functions /\ remainder \in SUBSET Assignments
        /\ Covers(n, ToSet(support), remainder)
        /\ support \in Seq(Inputs(n)) /\ Increasing(support)
    BY <2>3, Running
  <2>9. PICK value : /\ IsValue(n, nodes, value)
                     /\ Due(n, pis, stack, value, goal.on, Reading(n, remainder, pis, value))
    BY <2>3, Running
  <2>10. /\ rest \in SUBSET Assignments /\ table \in SUBSET SUBSET (1 .. 2)
         /\ ~HasVar(rest, v)
         /\ \A w \in Vars : ~HasVar(remainder, w) => ~HasVar(rest, w)
    BY <2>6, <2>7, <2>8, TopSound
  <2>11. Reading(n, remainder, pis, value)
           = WaitOf(n, pis, frame, value, Reading(n, rest, pis, value))
    <3>1. Reading(n, remainder, pis, value)
            = Combine(n, table, <<value[pis[v] + 1], Reading(n, rest, pis, value)>>)
      BY <2>6, <2>7, <2>8, ReadingTop
    <3> DEFINE x == Reading(n, rest, pis, value)
    <3> HIDE DEF x, table
    <3>2. frame.at = "top" /\ frame.var = v /\ frame.table = table
      OBVIOUS
    <3> HIDE DEF frame
    <3>3. WaitOf(n, pis, frame, value, x) = Combine(n, table, <<value[pis[v] + 1], x>>)
      BY <3>2 DEF WaitOf
    <3> QED BY <3>1, <3>3 DEF x
  <2>12. s2 \in Seq(Inputs(n)) /\ ToSet(s2) = ToSet(support) \ {v}
    <3> HIDE DEF n
    <3> QED BY <2>8, Without DEF n
  <2>13. \A w \in Vars \ ToSet(s2) : ~HasVar(rest, w)
    <3>1. \A w \in Vars \ ToSet(support) : ~HasVar(remainder, w)
      BY <2>8, CoversVars
    <3> QED BY <2>10, <2>12, <3>1
  <2> HIDE DEF rest, table
  <2>14. /\ frame \in Frame(n) /\ frame.at = "top" /\ frame.var = v
    <3> HIDE DEF n
    <3> QED BY <2>7, <2>10 DEF Frame
  <2>15. s_num' \in 0 .. 50
    BY <1>1 DEF Invariant
  <2>16. s2 = Sublist(support, Vars \ {frame.var})
    BY <2>14
  <2>17. /\ frame.var \in ToSet(support) /\ frame.at # "second" /\ frame.at # "first"
    BY <2>7, <2>14
  <2>18. Due(n, pis, stack, value, goal.on,
             WaitOf(n, pis, frame, value, Reading(n, rest, pis, value)))
    BY <2>9, <2>11
  <2> HIDE DEF frame, s2
  <2> QED BY <1>1, <2>1, <2>2, <2>3, <2>9, <2>10, <2>13, <2>14, <2>15, <2>16, <2>17, <2>18, CallSound
<1> QED BY <1>2, <1>3

(* The split: each half depends on the other variables only.               *)
LEMMA SplitSound == Invariant /\ Split => Invariant'
<1> SUFFICES ASSUME Invariant, Split PROVE Invariant'
  OBVIOUS
<1> DEFINE n == goal.inputs
           v == Least.var
           s2 == Sublist(support, Vars \ {v})
           one == Cofactor1(remainder, v)
           rest == Cofactor0(remainder, v)
           frame == [at |-> "first", var |-> v, other |-> one, support |-> s2, pis |-> pis]
<1>1. /\ phase = "split" /\ phase \in Tests
      /\ stack' = Append(stack, frame) /\ remainder' = rest /\ support' = s2
      /\ s_num' = Least.sum /\ phase' = "run" /\ UNCHANGED <<goal, nodes, pis, result>>
  BY DEF Split, Tests
<1>2. phase \notin {"return"} \cup Over
  BY <1>1 DEF Over
<1>3. /\ n \in Nat /\ goal \in Functions /\ remainder \in SUBSET Assignments
      /\ Covers(n, ToSet(support), remainder) /\ NetworkOK(n, nodes) /\ Signals(n, nodes, pis)
      /\ support \in Seq(Inputs(n)) /\ Increasing(support)
      /\ Shape(n, nodes, remainder, support, pis, stack, result, phase)
      /\ Vars = Inputs(n) /\ Assignments = Points(n)
  BY <1>2, Running, Words
<1>4. PICK value : /\ IsValue(n, nodes, value)
                   /\ Due(n, pis, stack, value, goal.on, Reading(n, remainder, pis, value))
  BY <1>2, Running
<1>5. v \in ToSet(support) /\ Least.sum \in 0 .. 50
  <2>1. support # <<>> /\ s_num \in 0 .. 50
    BY <1>1, <1>3 DEF Shape, Invariant
  <2> QED BY <1>3, <2>1, LeastFacts
<1>6. v \in Vars
  BY <1>3, <1>5 DEF ToSet
<1> HIDE DEF v
<1>7. s2 \in Seq(Inputs(n)) /\ Increasing(s2) /\ ToSet(s2) = ToSet(support) \ {v}
  <2> HIDE DEF n
  <2> QED BY <1>3, Without DEF n
<1>8. \A w \in Vars \ ToSet(s2) : ~HasVar(rest, w) /\ ~HasVar(one, w)
  <2>1. \A w \in Vars \ ToSet(support) : ~HasVar(remainder, w)
    BY <1>3, CoversVars
  <2>2. ~HasVar(rest, v) /\ ~HasVar(one, v)
    BY <1>6, CofactorIndependent
  <2>3. ASSUME NEW w \in Vars, ~HasVar(remainder, w) PROVE ~HasVar(rest, w) /\ ~HasVar(one, w)
    BY <1>6, <2>3, IndependenceKept
  <2> QED BY <1>7, <2>1, <2>2, <2>3
<1>9. rest \in SUBSET Assignments /\ one \in SUBSET Assignments
  BY DEF Cofactor0, Cofactor1
<1>10. Reading(n, remainder, pis, value)
         = WaitOf(n, pis, frame, value, Reading(n, rest, pis, value))
  <2> DEFINE x == Reading(n, rest, pis, value)
             y == Reading(n, one, pis, value)
  <2>1. Reading(n, remainder, pis, value) = Combine(n, Ite3, <<value[pis[v] + 1], y, x>>)
    BY <1>3, <1>6, ReadingSplit
  <2>2. frame.at = "first" /\ frame.var = v /\ frame.other = one /\ frame.pis = pis
    OBVIOUS
  <2> HIDE DEF x, frame
  <2>3. WaitOf(n, pis, frame, value, x) = Combine(n, Ite3, <<value[pis[v] + 1], y, x>>)
    BY <2>2 DEF WaitOf
  <2> QED BY <2>1, <2>3 DEF x
<1> DEFINE S2 == ToSet(s2)
<1>11. Covers(n, S2, one)
  <2>1. \A w \in Vars \ S2 : ~HasVar(one, w)
    BY <1>8
  <2> HIDE DEF S2, one
  <2>2. Covers(goal.inputs, S2, one)
    BY <1>3, <2>1, CoversVars
  <2> QED BY <2>2
<1>12. pis \in [Inputs(n) -> 2 .. n + 1 + Len(nodes)]
  BY <1>3 DEF Signals
<1>13. frame \in Frame(n)
  <2> DEFINE L == Len(nodes)
  <2>1. L \in Nat /\ pis \in [Inputs(n) -> 2 .. n + 1 + L]
    BY <1>3, <1>12 DEF NetworkOK
  <2> HIDE DEF n, L
  <2>2. 2 .. n + 1 + L \subseteq Nat
    BY <1>3, <2>1
  <2>3. pis \in [Inputs(n) -> Nat]
    BY <2>1, <2>2
  <2> HIDE DEF one, s2
  <2> QED BY <1>3, <1>6, <1>7, <1>9, <2>3 DEF Frame
<1>14. /\ frame.at = "first" /\ frame.var = v /\ frame.other = one /\ frame.support = s2
       /\ frame.pis = pis
  OBVIOUS
<1> HIDE DEF frame, s2, rest, one, S2
<1>15. FirstOK(n, n + 1 + Len(nodes), frame) /\ ToSet(frame.support) \subseteq ToSet(s2)
  BY <1>7, <1>11, <1>12, <1>14 DEF FirstOK, S2
<1>16. /\ s_num' \in 0 .. 50 /\ frame.at # "second" /\ frame.var \in ToSet(support)
       /\ s2 = Sublist(support, Vars \ {frame.var})
       /\ \A w \in Vars \ ToSet(s2) : ~HasVar(rest, w)
  BY <1>1, <1>5, <1>8, <1>14 DEF s2
<1>17. Due(n, pis, stack, value, goal.on,
           WaitOf(n, pis, frame, value, Reading(n, rest, pis, value)))
  BY <1>4, <1>10
<1> QED BY <1>1, <1>2, <1>4, <1>9, <1>13, <1>14, <1>15, <1>16, <1>17, CallSound

(* What a step of a call that waits starts from.                           *)
LEMMA Returning ==
  ASSUME Invariant, NEW at, Waiting(at)
  PROVE  /\ goal.inputs \in Nat /\ stack # <<>> /\ Last(stack).at = at
         /\ Shape(goal.inputs, nodes, remainder, support, pis, stack, result, "return")
         /\ NetworkOK(goal.inputs, nodes) /\ Signals(goal.inputs, nodes, pis)
         /\ Known(goal.inputs, nodes, result)
         /\ Last(stack) \in Frame(goal.inputs)
         /\ Last(stack).at = "second" => Known(goal.inputs, nodes, Last(stack).first)
         /\ \E value : /\ IsValue(goal.inputs, nodes, value)
                       /\ Due(goal.inputs, pis, stack, value, goal.on, value[result + 1])
<1> DEFINE n == goal.inputs
           frame == Last(stack)
           last == n + 1 + Len(nodes)
<1>1. n \in Nat /\ stack # <<>> /\ frame.at = at /\ phase = "return"
  BY Words DEF Invariant, Waiting
<1>2. Shape(n, nodes, remainder, support, pis, stack, result, "return")
  BY <1>1 DEF Invariant, Sound
<1>3. \E value : /\ IsValue(n, nodes, value)
                 /\ Due(n, pis, stack, value, goal.on, value[result + 1])
  <2>1. Kept(n, goal.on, nodes, remainder, pis, stack, result, "return")
    BY <1>1 DEF Invariant, Sound
  <2> QED BY <2>1 DEF Kept, Now, Over
<1>4. /\ NetworkOK(n, nodes) /\ Signals(n, nodes, pis) /\ Known(n, nodes, result)
      /\ stack \in Seq(Frame(n)) /\ FramesOK(n, last, stack, pis, ToSet(support))
  BY <1>2 DEF Shape, Calls, Known
<1>5. frame \in Frame(n) /\ frame = stack[Len(stack)] /\ Len(stack) \in DOMAIN stack
  BY <1>1, <1>4, FrontFacts
<1>6. ASSUME frame.at = "second" PROVE Known(n, nodes, frame.first)
  <2> DEFINE k == frame.first
             L == Len(nodes)
  <2>1. k \in Nat /\ k <= last /\ L \in Nat
    BY <1>4, <1>5, <1>6, FrameKinds DEF FramesOK, NetworkOK
  <2> HIDE DEF k, L, n
  <2>2. k \in 0 .. n + 1 + L
    BY <1>1, <2>1 DEF L
  <2> QED BY <2>2 DEF Known, k, L, n
<1> QED BY <1>1, <1>2, <1>3, <1>4, <1>5, <1>6

(* A call that waits adds a gate that is what it waits for, and returns.   *)
LEMMA GateReturned ==
  ASSUME Invariant, NEW at, Waiting(at),
         NEW value, IsValue(goal.inputs, nodes, value),
         Due(goal.inputs, pis, stack, value, goal.on, value[result + 1]),
         NEW fanins, NEW table, GateOK(fanins, table, goal.inputs + 1 + Len(nodes)),
         GateValue(goal.inputs, fanins, table, value)
           = WaitOf(goal.inputs, pis, Last(stack), value, value[result + 1]),
         nodes' = Built(nodes, fanins, table).nodes,
         result' = Built(nodes, fanins, table).signal,
         phase' = "return", stack' = Front(stack),
         UNCHANGED <<goal, remainder, support, pis, s_num>>
  PROVE  Invariant'
<1> DEFINE n == goal.inputs
           g == goal.on
           built == Built(nodes, fanins, table)
           network2 == built.nodes
           r2 == built.signal
           x == value[result + 1]
<1>1. /\ n \in Nat /\ NetworkOK(n, nodes) /\ stack # <<>>
      /\ Shape(n, nodes, remainder, support, pis, stack, result, "return")
  BY Returning
<1>2. PICK value2 : Adds(n, nodes, value, fanins, table, network2, r2, value2)
  BY <1>1, BuiltFacts
<1>3. value2[r2 + 1] = WaitOf(n, pis, Last(stack), value, x)
  BY <1>2 DEF Adds
<1>4. Due(n, pis, stack, value, g, x) /\ nodes' = network2 /\ result' = r2
  OBVIOUS
<1> HIDE DEF n, g, x, network2, r2
<1>5. Grows(n, nodes, value, network2, value2) /\ r2 \in 0 .. n + 1 + Len(network2)
  BY <1>1, <1>2, GrowsByGate, AddedSignal
<1>6. Sound(n, g, network2, remainder, support, pis, Front(stack), r2, "return")
  BY <1>1, <1>3, <1>4, <1>5, Resumed
<1>7. Sound(goal.inputs, goal.on, nodes', remainder', support', pis', stack', result', phase')
  BY <1>4, <1>6 DEF n, g
<1>8. phase' \in Phases /\ s_num' \in 0 .. 50
  BY DEF Phases, Invariant
<1> QED BY <1>7, <1>8, Rebuilt

(* The gate of a variable and of what was left without it.                 *)
LEMMA FinishTopSound == Invariant /\ FinishTop => Invariant'
<1> SUFFICES ASSUME Invariant, FinishTop PROVE Invariant'
  OBVIOUS
<1> DEFINE n == goal.inputs
           frame == Last(stack)
           v == frame.var
           k == pis[v]
           table == frame.table
           built == Built(nodes, <<k, result>>, table)
           last == goal.inputs + 1 + Len(nodes)
<1>1. /\ Waiting("top") /\ nodes' = built.nodes /\ result' = built.signal /\ phase' = "return"
      /\ stack' = Front(stack) /\ UNCHANGED <<goal, remainder, support, pis, s_num>>
  BY DEF FinishTop, Return
<1>2. /\ n \in Nat /\ NetworkOK(n, nodes) /\ Signals(n, nodes, pis)
      /\ Known(n, nodes, result) /\ frame \in Frame(n) /\ frame.at = "top"
  BY <1>1, Returning
<1>3. PICK value : /\ IsValue(n, nodes, value)
                   /\ Due(n, pis, stack, value, goal.on, value[result + 1])
  BY <1>1, Returning
<1>4. v \in Inputs(n) /\ table \in SUBSET SUBSET (1 .. 2)
  BY <1>2, FrameKinds
<1>5. k \in Nat /\ k <= last /\ result \in Nat /\ result <= last
  <2> HIDE DEF v
  <2>1. k \in Nat /\ k <= last
    <3> HIDE DEF n
    <3> QED BY <1>2, <1>4, SignalOf DEF n
  <2>2. result \in 0 .. last /\ last \in Nat
    BY <1>2 DEF Known, NetworkOK
  <2> HIDE DEF last, k
  <2> QED BY <2>1, <2>2
<1>6. GateOK(<<k, result>>, table, last)
  <2> HIDE DEF k, table, last
  <2> QED BY <1>4, <1>5, GateTwoOK
<1>7. GateValue(n, <<k, result>>, table, value)
        = WaitOf(n, pis, frame, value, value[result + 1])
  <2> HIDE DEF frame, table, n
  <2>1. WaitOf(n, pis, frame, value, value[result + 1])
          = Combine(n, table, <<value[k + 1], value[result + 1]>>)
    BY <1>2 DEF WaitOf, table
  <2> HIDE DEF k
  <2> QED BY <2>1, GateOfTwo
<1> HIDE DEF k, table
<1> QED BY <1>1, <1>3, <1>6, <1>7, GateReturned

(* The ite of the two halves of a split.                                   *)
LEMMA FinishSplitSound == Invariant /\ FinishSplit => Invariant'
<1> SUFFICES ASSUME Invariant, FinishSplit PROVE Invariant'
  OBVIOUS
<1> DEFINE n == goal.inputs
           frame == Last(stack)
           v == frame.var
           k == pis[v]
           first == frame.first
           built == Built(nodes, <<k, result, first>>, Ite3)
           last == goal.inputs + 1 + Len(nodes)
<1>1. /\ Waiting("second") /\ nodes' = built.nodes /\ result' = built.signal
      /\ phase' = "return" /\ stack' = Front(stack)
      /\ UNCHANGED <<goal, remainder, support, pis, s_num>>
  BY DEF FinishSplit, Return
<1>2. /\ n \in Nat /\ NetworkOK(n, nodes) /\ Signals(n, nodes, pis)
      /\ Known(n, nodes, result) /\ frame \in Frame(n) /\ frame.at = "second"
      /\ Known(n, nodes, first)
  BY <1>1, Returning
<1>3. PICK value : /\ IsValue(n, nodes, value)
                   /\ Due(n, pis, stack, value, goal.on, value[result + 1])
  BY <1>1, Returning
<1>4. v \in Inputs(n)
  BY <1>2, FrameKinds
<1>5. k \in Nat /\ k <= last /\ result \in Nat /\ result <= last /\ first \in Nat /\ first <= last
  <2> HIDE DEF v
  <2>1. k \in Nat /\ k <= last
    <3> HIDE DEF n
    <3> QED BY <1>2, <1>4, SignalOf DEF n
  <2>2. result \in 0 .. last /\ first \in 0 .. last /\ last \in Nat
    BY <1>2 DEF Known, NetworkOK
  <2> HIDE DEF last, k, first
  <2> QED BY <2>1, <2>2
<1>6. GateOK(<<k, result, first>>, Ite3, last)
  <2>1. Ite3 \in SUBSET SUBSET (1 .. 3)
    BY DEF Ite3
  <2> HIDE DEF k, last, first
  <2> QED BY <1>5, <2>1, GateThreeOK
<1>7. GateValue(n, <<k, result, first>>, Ite3, value)
        = WaitOf(n, pis, frame, value, value[result + 1])
  <2> HIDE DEF frame, n
  <2>1. WaitOf(n, pis, frame, value, value[result + 1])
          = Combine(n, Ite3, <<value[k + 1], value[result + 1], value[first + 1]>>)
    BY <1>2 DEF WaitOf
  <2> DEFINE y == value[k + 1]
             z == value[result + 1]
             w == value[first + 1]
  <2>2. y = value[k + 1] /\ z = value[result + 1] /\ w = value[first + 1]
    OBVIOUS
  <2> HIDE DEF k, first, y, z, w
  <2>3. GateValue(n, <<k, result, first>>, Ite3, value) = Combine(n, Ite3, <<y, z, w>>)
    BY <2>2, GateOfTriple
  <2> QED BY <2>1, <2>2, <2>3
<1> HIDE DEF k, first
<1> QED BY <1>1, <1>3, <1>6, <1>7, GateReturned

(* The second half of a split begins.                                      *)
LEMMA SecondHalfSound == Invariant /\ SecondHalf => Invariant'
<1> SUFFICES ASSUME Invariant, SecondHalf PROVE Invariant'
  OBVIOUS
<1> DEFINE n == goal.inputs
           g == goal.on
           frame == Last(stack)
           half == [at |-> "second", var |-> frame.var, first |-> result]
<1>1. /\ Waiting("first") /\ remainder' = frame.other /\ support' = frame.support
      /\ pis' = frame.pis /\ stack' = Append(Front(stack), half) /\ phase' = "run"
      /\ UNCHANGED <<goal, nodes, s_num, result>>
  BY DEF SecondHalf
<1>2. /\ n \in Nat /\ stack # <<>> /\ frame.at = "first"
      /\ Shape(n, nodes, remainder, support, pis, stack, result, "return")
  BY <1>1, Returning
<1>3. PICK value : /\ IsValue(n, nodes, value)
                   /\ Due(n, pis, stack, value, g, value[result + 1])
  BY <1>1, Returning
<1>4. frame = Last(stack)
  OBVIOUS
<1> HIDE DEF n, g, frame
<1>5. Sound(n, g, nodes, frame.other, frame.support, frame.pis, Append(Front(stack), half),
            result, "run")
  BY <1>2, <1>3, <1>4, Halved
<1>6. Sound(goal.inputs, goal.on, nodes', remainder', support', pis', stack', result', phase')
  BY <1>1, <1>5 DEF n, g
<1>7. phase' \in Phases /\ s_num' \in 0 .. 50 /\ goal' = goal
  BY <1>1 DEF Phases, Invariant
<1> QED BY <1>6, <1>7, Rebuilt

(* The copy into the caller's network.                                     *)
LEMMA CopyBackSound == Invariant /\ CopyBack => Invariant'
<1> SUFFICES ASSUME Invariant, CopyBack PROVE Invariant'
  OBVIOUS
<1> DEFINE n == goal.inputs
           r2 == n + 1 + Len(nodes)
           at2 == phase'
<1>1. /\ phase = "return" /\ phase' \in Over /\ result' = NumPi + Len(nodes)
      /\ UNCHANGED <<goal, nodes, remainder, support, pis, s_num, stack>>
  BY DEF CopyBack, Over
<1>2. n \in Nat /\ NumPi = n + 1
  BY Words DEF Invariant
<1>3. Shape(n, nodes, remainder, support, pis, stack, result, "return")
  BY <1>1 DEF Invariant, Sound
<1>4. r2 \in 0 .. n + 1 + Len(nodes) /\ result' = r2
  <2>1. Len(nodes) \in Nat
    BY <1>3 DEF Shape, NetworkOK
  <2> QED BY <1>1, <1>2, <2>1
<1>5. at2 \in Over /\ at2 \notin {"run"} \cup Tests
  BY <1>1 DEF Over, Tests
<1> HIDE DEF n, r2, at2
<1>6. Shape(n, nodes, remainder, support, pis, stack, r2, at2)
  BY <1>3, <1>4, <1>5 DEF Shape, r2
<1>7. Kept(n, goal.on, nodes, remainder, pis, stack, r2, at2)
  BY <1>5 DEF Kept
<1>8. Sound(goal.inputs, goal.on, nodes', remainder', support', pis', stack', result', phase')
  BY <1>1, <1>4, <1>6, <1>7 DEF Sound, n, at2
<1>9. phase' \in Phases /\ s_num' \in 0 .. 50 /\ goal' = goal
  BY <1>1 DEF Phases, Over, Invariant
<1> QED BY <1>8, <1>9, Rebuilt

(* Every step keeps the invariant.                                         *)
LEMMA Inductive == Invariant /\ [Next]_vars => Invariant'
<1>1. ASSUME Invariant, UNCHANGED vars PROVE Invariant'
  BY <1>1 DEF Invariant, vars
<1>2. ASSUME Invariant, Ended PROVE Invariant'
  BY <1>1, <1>2 DEF Ended
<1> QED BY <1>1, <1>2, ReturnConstantSound, ReturnLiteralSound, ReturnGateSound,
           DecomposeSound, TryTopSound, TryBottomSound, TryXorSound, TryMuxSound,
           TryMajSound, SplitSound, FinishTopSound, SecondHalfSound, FinishSplitSound,
           CopyBackSound DEF Next, Step

-----------------------------------------------------------------------------
(***************************************************************************)
(* What the folds of the model compute.                                    *)
(***************************************************************************)
(* run[i] has the functions of the signals up to gate i.                   *)
ValuesOf(n, network, run) ==
  /\ run[0] = <<{}, Points(n)>> \o [k \in 1 .. n |-> {a \in Points(n) : k - 1 \in a}]
  /\ \A i \in 1 .. Len(network) :
       run[i] = Append(run[i - 1],
                       GateValue(n, network[i].fanins, network[i].table, run[i - 1]))

(* Value takes the gates one after the other.                              *)
LEMMA ValueRun ==
  ASSUME goal \in Functions, NetworkOK(goal.inputs, nodes)
  PROVE  \E run \in [0 .. Len(nodes) -> Seq(SUBSET Points(goal.inputs))] :
           ValuesOf(goal.inputs, nodes, run) /\ Value = run[Len(nodes)]
<1> DEFINE n == goal.inputs
           L == Len(nodes)
           base == <<{}, Assignments>> \o [k \in 1 .. goal.inputs |-> Projection(k - 1)]
           Grown(values, node) ==
             Append(values, {a \in Assignments :
               {p \in DOMAIN node.fanins : a \in values[node.fanins[p] + 1]} \in node.table})
           Eq(h) == h = [t \in SUBSET (1 .. L) |->
                           IF t = {} THEN base ELSE Grown(h[t \ {Max(t)}], nodes[Max(t)])]
           h == CHOOSE g : Eq(g)
           D == Seq(SUBSET Points(n))
           F == [q \in D \X (1 .. L) |-> Grown(q[1], nodes[q[2]])]
<1>1. /\ n \in Nat /\ Assignments = Points(n) /\ L \in Nat /\ DOMAIN nodes = 1 .. L
  BY Words DEF NetworkOK
<1>2. base = <<{}, Points(n)>> \o [k \in 1 .. n |-> {a \in Points(n) : k - 1 \in a}]
  BY <1>1 DEF Projection
<1>3. base \in D
  <2>1. <<{}, Points(n)>> \in D
    OBVIOUS
  <2>2. [k \in 1 .. n |-> {a \in Points(n) : k - 1 \in a}] \in D
    <3>1. [k \in 1 .. n |-> {a \in Points(n) : k - 1 \in a}] \in [1 .. n -> SUBSET Points(n)]
      OBVIOUS
    <3> HIDE DEF n
    <3> QED BY <1>1, <3>1
  <2> HIDE DEF n, base
  <2> QED BY <1>2, <2>1, <2>2
<1>4. ASSUME NEW q, NEW i \in 1 .. L
      PROVE  Grown(q, nodes[i]) = Append(q, GateValue(n, nodes[i].fanins, nodes[i].table, q))
  <2> DEFINE fanins == nodes[i].fanins
             legs == [p \in DOMAIN fanins |-> q[fanins[p] + 1]]
  <2>1. \A a : {p \in DOMAIN fanins : a \in q[fanins[p] + 1]} = {p \in DOMAIN legs : a \in legs[p]}
    OBVIOUS
  <2> HIDE DEF legs
  <2>2. GateValue(n, fanins, nodes[i].table, q)
          = {a \in Points(n) : {p \in DOMAIN legs : a \in legs[p]} \in nodes[i].table}
    BY DEF GateValue, Combine, legs
  <2> QED BY <1>1, <2>1, <2>2
<1>5. F \in [D \X (1 .. L) -> D]
  <2>1. ASSUME NEW q \in D, NEW i \in 1 .. L PROVE Grown(q, nodes[i]) \in D
    <3> DEFINE x == GateValue(n, nodes[i].fanins, nodes[i].table, q)
    <3>1. x \in SUBSET Points(n)
      BY DEF GateValue, Combine
    <3>2. Grown(q, nodes[i]) = Append(q, x)
      BY <1>4
    <3> DEFINE X == SUBSET Points(n)
    <3>3. q \in Seq(X) /\ x \in X
      BY <3>1
    <3> HIDE DEF x, X, Grown
    <3>4. Append(q, x) \in Seq(X)
      BY <3>3
    <3> QED BY <3>2, <3>4 DEF X
  <2> HIDE DEF D, Grown
  <2> QED BY <2>1
<1> HIDE DEF D, Grown
<1>6. PICK g \in [SUBSET (1 .. L) -> D] : FoldEquation(g, L, F, base)
  <2> HIDE DEF F, base, L
  <2> QED BY <1>1, <1>3, <1>5, FoldExists
<1> HIDE DEF base
<1>7. Eq(g)
  <2> SUFFICES ASSUME NEW t \in SUBSET (1 .. L)
               PROVE  g[t] = IF t = {} THEN base ELSE Grown(g[t \ {Max(t)}], nodes[Max(t)])
    BY <1>6
  <2>1. CASE t = {}
    BY <1>6, <2>1 DEF FoldEquation
  <2>2. CASE t # {}
    <3>1. Max(t) \in 1 .. L
      BY <1>1, <2>2, MaxOfInterval
    <3>2. g[t \ {Max(t)}] \in D
      BY <1>6
    <3>3. g[t] = F[<<g[t \ {Max(t)}], Max(t)>>]
      BY <1>6, <2>2 DEF FoldEquation
    <3>4. F[<<g[t \ {Max(t)}], Max(t)>>] = Grown(g[t \ {Max(t)}], nodes[Max(t)])
      BY <3>1, <3>2
    <3> HIDE DEF F
    <3> QED BY <2>2, <3>3, <3>4
  <2> QED BY <2>1, <2>2
<1>8. Eq(h)
  <2> HIDE DEF Eq
  <2> QED BY <1>7
<1>9. Value = h[1 .. L]
  BY <1>1 DEF Value, FoldLeft, MapThenFoldSet, Grown, base
<1> HIDE DEF h
<1>10. \A t \in SUBSET (1 .. L) : h[t] \in D
  <2>1. h[{}] \in D
    BY <1>3, <1>8
  <2>2. ASSUME NEW t \in SUBSET (1 .. L), t # {}, h[t \ {Max(t)}] \in D PROVE h[t] \in D
    <3>1. Max(t) \in 1 .. L
      BY <1>1, <2>2, MaxOfInterval
    <3>2. h[t] = F[<<h[t \ {Max(t)}], Max(t)>>]
      BY <1>8, <2>2, <3>1
    <3> HIDE DEF F
    <3> QED BY <1>5, <2>2, <3>1, <3>2
  <2> QED BY <1>1, <2>1, <2>2, FoldRange
<1>11. FoldEquation(h, L, F, base)
  <2> SUFFICES ASSUME NEW t \in SUBSET (1 .. L)
               PROVE  h[t] = IF t = {} THEN base ELSE F[<<h[t \ {Max(t)}], Max(t)>>]
    BY DEF FoldEquation
  <2>1. CASE t = {}
    BY <1>8, <2>1
  <2>2. CASE t # {}
    <3>1. Max(t) \in 1 .. L /\ h[t \ {Max(t)}] \in D
      BY <1>1, <1>10, <2>2, MaxOfInterval
    <3> QED BY <1>8, <2>2, <3>1
  <2> QED BY <2>1, <2>2
<1>12. h[1 .. 0] = base /\ \A i \in 1 .. L : h[1 .. i] = F[<<h[1 .. i - 1], i>>]
  <2> HIDE DEF F, L
  <2> QED BY <1>1, <1>11, FoldRun
<1> DEFINE run == [i \in 0 .. L |-> h[1 .. i]]
<1>13. \A i \in 0 .. L : h[1 .. i] \in D
  BY <1>10
<1>14. ASSUME NEW i \in 1 .. L
       PROVE  run[i] = Append(run[i - 1],
                              GateValue(n, nodes[i].fanins, nodes[i].table, run[i - 1]))
  <2> DEFINE q == h[1 .. i - 1]
  <2>1. q \in D
    BY <1>13
  <2>2. run[i] = h[1 .. i] /\ run[i - 1] = q
    OBVIOUS
  <2>3. h[1 .. i] = F[<<q, i>>]
    BY <1>12
  <2> HIDE DEF q, run
  <2>4. F[<<q, i>>] = Grown(q, nodes[i])
    BY <2>1
  <2> HIDE DEF F, n
  <2> QED BY <1>4, <2>2, <2>3, <2>4
<1>15. run \in [0 .. L -> D] /\ run[0] = base /\ run[L] = h[1 .. L]
  BY <1>1, <1>12, <1>13
<1>16. ValuesOf(n, nodes, run)
  <2> HIDE DEF run
  <2> QED BY <1>2, <1>14, <1>15 DEF ValuesOf
<1> HIDE DEF run
<1> QED BY <1>9, <1>15, <1>16 DEF D

(* The functions of the signals are the ones the invariant speaks of.      *)
LEMMA ValueIs ==
  ASSUME goal \in Functions, NetworkOK(goal.inputs, nodes),
         NEW value, IsValue(goal.inputs, nodes, value)
  PROVE  Value = value
<1> DEFINE n == goal.inputs
           L == Len(nodes)
<1>1. PICK run \in [0 .. L -> Seq(SUBSET Points(n))] : ValuesOf(n, nodes, run) /\ Value = run[L]
  BY ValueRun
<1>2. /\ n \in Nat /\ L \in Nat /\ DOMAIN nodes = 1 .. L
      /\ \A i \in 1 .. L : GateOK(nodes[i].fanins, nodes[i].table, n + i)
  BY Words DEF NetworkOK
<1>3. /\ value \in [1 .. n + 2 + L -> SUBSET Points(n)]
      /\ value[1] = {} /\ value[2] = Points(n)
      /\ \A v \in Inputs(n) : value[v + 3] = {a \in Points(n) : v \in a}
      /\ \A i \in 1 .. L :
           value[n + 2 + i] = GateValue(n, nodes[i].fanins, nodes[i].table, value)
  BY <1>2 DEF IsValue
<1> DEFINE ins == [k \in 1 .. n |-> {a \in Points(n) : k - 1 \in a}]
<1>4. /\ run[0] = <<{}, Points(n)>> \o ins
      /\ \A i \in 1 .. L :
           run[i] = Append(run[i - 1],
                           GateValue(n, nodes[i].fanins, nodes[i].table, run[i - 1]))
  BY <1>1 DEF ValuesOf
<1> HIDE DEF L, n
<1> DEFINE Same(i) == Len(run[i]) = n + 2 + i /\ \A k \in 1 .. n + 2 + i : run[i][k] = value[k]
           T == {i \in 0 .. L : Same(i)}
<1>5. 0 \in T
  <2>1. ins \in Seq(SUBSET Points(n)) /\ Len(ins) = n
        /\ \A k \in 1 .. n : ins[k] = {a \in Points(n) : k - 1 \in a}
    <3>1. ins \in [1 .. n -> SUBSET Points(n)]
      OBVIOUS
    <3> QED BY <1>2, <3>1
  <2> HIDE DEF ins
  <2>2. Len(run[0]) = n + 2
    <3> DEFINE two == <<{}, Points(n)>>
               S == SUBSET Points(n)
    <3>1. two \in Seq(S) /\ Len(two) = 2 /\ ins \in Seq(S) /\ Len(ins) = n
      BY <2>1
    <3>2. run[0] = two \o ins
      BY <1>4
    <3> HIDE DEF two, S
    <3>3. Len(two \o ins) = Len(two) + Len(ins)
      BY <3>1, JoinLength
    <3> QED BY <1>2, <3>1, <3>2, <3>3
  <2>3. ASSUME NEW k \in 1 .. n + 2 PROVE run[0][k] = value[k]
    <3>1. CASE k = 1
      BY <1>3, <1>4, <2>1, <3>1
    <3>2. CASE k = 2
      BY <1>3, <1>4, <2>1, <3>2
    <3>3. CASE k # 1 /\ k # 2
      <4>1. k - 2 \in 1 .. n /\ k - 3 \in Inputs(n) /\ (k - 3) + 3 = k /\ (k - 2) - 1 = k - 3
        BY <1>2, <3>3 DEF Inputs
      <4>2. run[0][k] = ins[k - 2]
        BY <1>2, <1>4, <2>1, <3>3, <4>1
      <4>3. value[k] = {a \in Points(n) : k - 3 \in a}
        BY <1>3, <4>1
      <4>4. ins[k - 2] = {a \in Points(n) : k - 3 \in a}
        BY <2>1, <4>1
      <4> QED BY <4>2, <4>3, <4>4
    <3> QED BY <3>1, <3>2, <3>3
  <2> QED BY <1>2, <2>2, <2>3
<1>6. ASSUME NEW i \in 0 .. L - 1, i \in T PROVE i + 1 \in T
  <2> DEFINE j == i + 1
             q == run[i]
             fanins == nodes[j].fanins
             table == nodes[j].table
             x == GateValue(n, fanins, table, q)
  <2>1. j \in 1 .. L /\ j - 1 = i /\ i \in 0 .. L /\ j \in 0 .. L /\ i \in Nat
    BY <1>2
  <2>2. q \in Seq(SUBSET Points(n)) /\ Len(q) = n + 2 + i
        /\ \A k \in 1 .. n + 2 + i : q[k] = value[k]
    BY <1>1, <1>6, <2>1 DEF n, L
  <2>3. run[j] = Append(q, x)
    BY <1>4, <2>1
  <2>4. GateOK(fanins, table, n + j)
    BY <1>2, <2>1
  <2>5. x = GateValue(n, fanins, table, value)
    <3>1. ASSUME NEW p \in DOMAIN fanins PROVE q[fanins[p] + 1] = value[fanins[p] + 1]
      <4> DEFINE s == fanins[p]
      <4>1. s \in Nat /\ s <= n + j
        BY <2>4 DEF GateOK
      <4> HIDE DEF s
      <4>2. s + 1 \in 1 .. n + 2 + i
        BY <1>2, <2>1, <4>1
      <4>3. q[s + 1] = value[s + 1]
        BY <2>2, <4>2
      <4> QED BY <4>3 DEF s
    <3> HIDE DEF fanins, table, q
    <3> QED BY <3>1, GateValueKept
  <2>6. x = value[n + 2 + j]
    BY <1>3, <2>1, <2>5
  <2>7. x \in SUBSET Points(n)
    BY DEF GateValue, Combine
  <2> HIDE DEF q, x
  <2>8. /\ Len(run[j]) = Len(q) + 1
        /\ \A k \in 1 .. Len(q) : run[j][k] = q[k]
        /\ run[j][Len(q) + 1] = x
    BY <2>2, <2>3, <2>7, AppendFacts
  <2>9. Len(run[j]) = n + 2 + j
    BY <1>2, <2>1, <2>2, <2>8
  <2>10. ASSUME NEW k \in 1 .. n + 2 + j PROVE run[j][k] = value[k]
    <3>1. CASE k \in 1 .. n + 2 + i
      BY <2>2, <2>8, <3>1
    <3>2. CASE k \notin 1 .. n + 2 + i
      <4>1. k = n + 2 + j /\ k = Len(q) + 1
        BY <1>2, <2>1, <2>2, <3>2
      <4> QED BY <2>6, <2>8, <4>1
    <3> QED BY <3>1, <3>2
  <2> HIDE DEF j
  <2>11. j \in T
    BY <2>1, <2>9, <2>10
  <2> QED BY <2>11 DEF j
<1>7. L \in T
  <2>1. \A i \in 0 .. L : i \in T
    <3> HIDE DEF T
    <3> QED BY <1>2, <1>5, <1>6, UpTo
  <2> QED BY <1>2, <2>1
<1> DEFINE last == run[L]
<1>8. last \in Seq(SUBSET Points(n)) /\ Len(last) = n + 2 + L
      /\ \A k \in 1 .. n + 2 + L : last[k] = value[k]
  BY <1>1, <1>2, <1>7 DEF n, L
<1> HIDE DEF last
<1>9. last \in [1 .. n + 2 + L -> SUBSET Points(n)]
  BY <1>8
<1>10. last = value
  BY <1>3, <1>8, <1>9
<1> QED BY <1>1, <1>10 DEF last, L

(* What the model says is owed is what the invariant says is due.          *)
LEMMA OwedIs ==
  ASSUME goal \in Functions, NEW value, Value = value,
         stack \in Seq(Frame(goal.inputs)), NEW g,
         Due(goal.inputs, pis, stack, value, g,
             Now(goal.inputs, remainder, pis, result, phase, value))
  PROVE  Owed = g
<1> DEFINE n == goal.inputs
           L == Len(stack)
           calls == Reverse(stack)
           base == IF phase = "return" THEN Value[result + 1] ELSE Read(remainder, pis, Value)
           Wait(f, frame) ==
             LET v == Value[pis[frame.var] + 1]
             IN CASE frame.at = "top" -> Apply(frame.table, <<v, f>>)
                  [] frame.at = "first" ->
                       Apply(Ite3, <<v, Read(frame.other, frame.pis, Value), f>>)
                  [] frame.at = "second" -> Apply(Ite3, <<v, f, Value[frame.first + 1]>>)
           Eq(h) == h = [t \in SUBSET (1 .. L) |->
                           IF t = {} THEN base ELSE Wait(h[t \ {Max(t)}], calls[Max(t)])]
           h == CHOOSE q : Eq(q)
           D == SUBSET Points(n)
           F == [q \in D \X (1 .. L) |-> WaitOf(n, pis, calls[q[2]], value, q[1])]
<1>1. /\ n \in Nat /\ Assignments = Points(n) /\ Vars = Inputs(n)
      /\ L \in Nat /\ DOMAIN stack = 1 .. L /\ DOMAIN calls = 1 .. L
      /\ \A i \in 1 .. L : calls[i] = stack[L - i + 1] /\ L - i + 1 \in 1 .. L
      /\ \A i \in 1 .. L : stack[i] \in Frame(n)
  <2>1. L \in Nat /\ DOMAIN stack = 1 .. L /\ \A i \in 1 .. L : stack[i] \in Frame(n)
    OBVIOUS
  <2>2. DOMAIN calls = 1 .. L /\ \A i \in 1 .. L : calls[i] = stack[(L - i) + 1]
    BY <2>1 DEF Reverse
  <2>3. \A i \in 1 .. L : L - i + 1 \in 1 .. L
    BY <2>1
  <2> QED BY <2>1, <2>2, <2>3, Words
<1> HIDE DEF calls
<1>2. \A f, p : Read(f, p, Value) = Reading(n, f, p, value)
  BY <1>1 DEF Read, Reading, Values
<1>3. \A table, functions : Apply(table, functions) = Combine(n, table, functions)
  BY <1>1 DEF Apply, Combine
<1>4. ASSUME NEW f, NEW i \in 1 .. L PROVE Wait(f, calls[i]) = WaitOf(n, pis, calls[i], value, f)
  <2> DEFINE frame == calls[i]
             v == Value[pis[frame.var] + 1]
             top == Apply(frame.table, <<v, f>>)
             first == Apply(Ite3, <<v, Read(frame.other, frame.pis, Value), f>>)
             second == Apply(Ite3, <<v, f, Value[frame.first + 1]>>)
             value2 == Value
  <2>1. frame.at \in {"top", "first", "second"}
    BY <1>1, FrameKinds
  <2>2. Wait(f, frame) = CASE frame.at = "top" -> top
                           [] frame.at = "first" -> first
                           [] frame.at = "second" -> second
    OBVIOUS
  <2> HIDE DEF Wait, frame, n
  <2>3. WaitOf(n, pis, frame, value2, f) = IF frame.at = "top" THEN top
                                           ELSE IF frame.at = "first" THEN first
                                           ELSE second
    <3>1. /\ top = Combine(n, frame.table, <<v, f>>)
          /\ first = Combine(n, Ite3, <<v, Reading(n, frame.other, frame.pis, Value), f>>)
          /\ second = Combine(n, Ite3, <<v, f, Value[frame.first + 1]>>)
      BY <1>2, <1>3
    <3> HIDE DEF top, first, second
    <3> QED BY <3>1, Zenon DEF WaitOf
  <2>4. value2 = value
    OBVIOUS
  <2> HIDE DEF top, first, second, value2
  <2>5. Wait(f, frame) = WaitOf(n, pis, frame, value, f)
    BY <2>1, <2>2, <2>3, <2>4
  <2> QED BY <2>5 DEF frame
<1>5. base = Now(n, remainder, pis, result, phase, value)
  BY <1>2 DEF Now
<1>6. PICK owed \in [0 .. L -> D] :
        /\ owed[0] = g
        /\ owed[L] = base
        /\ \A d \in 1 .. L : owed[d - 1] = WaitOf(n, pis, stack[d], value, owed[d])
  BY <1>5 DEF Due
<1>7. base \in D
  BY <1>1, <1>6
<1> HIDE DEF Wait, base, D, n
<1>8. F \in [D \X (1 .. L) -> D]
  BY WaitType DEF D
<1>9. PICK q \in [SUBSET (1 .. L) -> D] : FoldEquation(q, L, F, base)
  <2> HIDE DEF F, L
  <2> QED BY <1>1, <1>7, <1>8, FoldExists
<1>10. Eq(q)
  <2> SUFFICES ASSUME NEW t \in SUBSET (1 .. L)
               PROVE  q[t] = IF t = {} THEN base ELSE Wait(q[t \ {Max(t)}], calls[Max(t)])
    BY <1>9
  <2>1. CASE t = {}
    BY <1>9, <2>1 DEF FoldEquation
  <2>2. CASE t # {}
    <3>1. Max(t) \in 1 .. L
      BY <1>1, <2>2, MaxOfInterval
    <3>2. q[t \ {Max(t)}] \in D
      BY <1>9
    <3>3. q[t] = F[<<q[t \ {Max(t)}], Max(t)>>]
      BY <1>9, <2>2 DEF FoldEquation
    <3>4. F[<<q[t \ {Max(t)}], Max(t)>>] = Wait(q[t \ {Max(t)}], calls[Max(t)])
      BY <1>4, <3>1, <3>2
    <3> HIDE DEF F
    <3> QED BY <2>2, <3>3, <3>4
  <2> QED BY <2>1, <2>2
<1>11. Eq(h)
  <2> HIDE DEF Eq
  <2> QED BY <1>10
<1>12. Owed = h[1 .. L]
  BY <1>1 DEF Owed, FoldLeft, MapThenFoldSet, Wait, base, calls
<1> HIDE DEF h
<1>13. \A t \in SUBSET (1 .. L) : h[t] \in D
  <2>1. h[{}] \in D
    BY <1>7, <1>11
  <2>2. ASSUME NEW t \in SUBSET (1 .. L), t # {}, h[t \ {Max(t)}] \in D PROVE h[t] \in D
    <3>1. Max(t) \in 1 .. L
      BY <1>1, <2>2, MaxOfInterval
    <3>2. h[t] = Wait(h[t \ {Max(t)}], calls[Max(t)])
      BY <1>11, <2>2, <3>1
    <3>3. h[t] = WaitOf(n, pis, calls[Max(t)], value, h[t \ {Max(t)}])
      BY <1>4, <3>1, <3>2
    <3> QED BY <3>3, WaitType DEF D
  <2> QED BY <1>1, <2>1, <2>2, FoldRange
<1>14. FoldEquation(h, L, F, base)
  <2> SUFFICES ASSUME NEW t \in SUBSET (1 .. L)
               PROVE  h[t] = IF t = {} THEN base ELSE F[<<h[t \ {Max(t)}], Max(t)>>]
    BY DEF FoldEquation
  <2>1. CASE t = {}
    BY <1>11, <2>1
  <2>2. CASE t # {}
    <3>1. Max(t) \in 1 .. L /\ h[t \ {Max(t)}] \in D
      BY <1>1, <1>13, <2>2, MaxOfInterval
    <3>2. h[t] = Wait(h[t \ {Max(t)}], calls[Max(t)])
      BY <1>11, <2>2, <3>1
    <3>3. h[t] = WaitOf(n, pis, calls[Max(t)], value, h[t \ {Max(t)}])
      BY <1>4, <3>1, <3>2
    <3> QED BY <2>2, <3>1, <3>3
  <2> QED BY <2>1, <2>2
<1>15. h[1 .. 0] = base /\ \A i \in 1 .. L : h[1 .. i] = F[<<h[1 .. i - 1], i>>]
  <2> HIDE DEF F, L
  <2> QED BY <1>1, <1>14, FoldRun
<1> DEFINE T == {i \in 0 .. L : h[1 .. i] = owed[L - i]}
<1>16. 0 \in T
  <2>1. L - 0 = L /\ 0 \in 0 .. L
    BY <1>1
  <2> QED BY <1>6, <1>15, <2>1
<1>17. ASSUME NEW i \in 0 .. L - 1, i \in T PROVE i + 1 \in T
  <2>1. /\ i + 1 \in 1 .. L /\ (i + 1) - 1 = i /\ i \in 0 .. L /\ i + 1 \in 0 .. L
        /\ L - (i + 1) + 1 = L - i /\ (L - i) - 1 = L - (i + 1) /\ L - i \in 1 .. L
    BY <1>1
  <2>2. h[1 .. i + 1] = F[<<h[1 .. i], i + 1>>] /\ h[1 .. i] \in D
    <3>1. h[1 .. i + 1] = F[<<h[1 .. (i + 1) - 1], i + 1>>]
      <4> HIDE DEF F
      <4> QED BY <1>15, <2>1
    <3>2. 1 .. i \in SUBSET (1 .. L)
      BY <2>1
    <3> QED BY <1>13, <2>1, <3>1, <3>2
  <2>3. F[<<h[1 .. i], i + 1>>] = WaitOf(n, pis, calls[i + 1], value, h[1 .. i])
    BY <2>1, <2>2
  <2>4. calls[i + 1] = stack[L - i]
    BY <1>1, <2>1
  <2>5. h[1 .. i] = owed[L - i]
    BY <1>17
  <2>6. owed[L - (i + 1)] = WaitOf(n, pis, stack[L - i], value, owed[L - i])
    BY <1>6, <2>1
  <2> QED BY <2>1, <2>2, <2>3, <2>4, <2>5, <2>6
<1>18. L \in T
  <2>1. \A i \in 0 .. L : i \in T
    <3> HIDE DEF T
    <3> QED BY <1>1, <1>16, <1>17, UpTo
  <2> QED BY <1>1, <2>1
<1>19. L - L = 0
  BY <1>1
<1> QED BY <1>6, <1>12, <1>18, <1>19

-----------------------------------------------------------------------------
(***************************************************************************)
(* The theorems.                                                           *)
(***************************************************************************)
(* The invariant gives the kinds of the values.                            *)
LEMMA KindsHold == Invariant => TypeOK
<1> SUFFICES ASSUME Invariant PROVE TypeOK
  OBVIOUS
<1> DEFINE n == goal.inputs
           L == Len(nodes)
<1>1. /\ goal \in Functions /\ n \in Nat /\ NumPi = n + 1
      /\ Vars = Inputs(n) /\ Assignments = Points(n)
  BY Words DEF Invariant
<1>2. /\ NetworkOK(n, nodes) /\ remainder \in SUBSET Points(n)
      /\ support \in Seq(Inputs(n)) /\ Increasing(support)
      /\ Signals(n, nodes, pis) /\ Calls(n, nodes, stack, pis, ToSet(support))
      /\ result \in 0 .. n + 1 + L
  BY DEF Invariant, Sound, Shape
<1>3. L \in Nat /\ DOMAIN nodes = 1 .. L
      /\ \A i \in 1 .. L : GateOK(nodes[i].fanins, nodes[i].table, n + i)
  BY <1>2 DEF NetworkOK
<1> HIDE DEF n, L
<1>4. ASSUME NEW i \in DOMAIN nodes
      PROVE  /\ Len(nodes[i].fanins) \in 1 .. 4
             /\ \A p \in DOMAIN nodes[i].fanins : nodes[i].fanins[p] \in 0 .. NumPi + i - 1
             /\ nodes[i].table \subseteq SUBSET DOMAIN nodes[i].fanins
  <2> DEFINE fanins == nodes[i].fanins
  <2>1. GateOK(fanins, nodes[i].table, n + i) /\ i \in Nat
    BY <1>3
  <2>2. ASSUME NEW p \in DOMAIN fanins PROVE fanins[p] \in 0 .. NumPi + i - 1
    <3> DEFINE k == fanins[p]
    <3>1. k \in Nat /\ k <= n + i
      BY <2>1 DEF GateOK
    <3> HIDE DEF k
    <3>2. k \in 0 .. NumPi + i - 1
      BY <1>1, <2>1, <3>1
    <3> QED BY <3>2 DEF k
  <2> QED BY <2>1, <2>2 DEF GateOK
<1>5. ToSet(support) \subseteq Vars
      /\ \A p, q \in DOMAIN support : p < q => support[p] < support[q]
  BY <1>1, <1>2 DEF ToSet, Increasing
<1>6. \A v \in Vars : pis[v] \in 2 .. NumPi + Len(nodes)
  BY <1>1, <1>2 DEF Signals
<1>7. \A d \in DOMAIN stack : stack[d].at \in {"top", "first", "second"} /\ stack[d].var \in Vars
  <2>1. stack \in Seq(Frame(n))
    BY <1>2 DEF Calls
  <2>2. \A d \in DOMAIN stack : stack[d] \in Frame(n)
    BY <2>1
  <2> QED BY <1>1, <2>2, FrameKinds
<1>8. result \in 0 .. NumPi + Len(nodes)
  BY <1>1, <1>2 DEF L
<1>9. s_num \in 0 .. 50 /\ phase \in Phases
  BY DEF Invariant
<1> QED BY <1>1, <1>2, <1>4, <1>5, <1>6, <1>7, <1>8, <1>9 DEF TypeOK

(* The invariant says that no function is lost.                            *)
LEMMA FunctionHolds == Invariant => FunctionKept
<1> SUFFICES ASSUME Invariant, phase \notin {"copied", "undefined"} PROVE Owed = goal.on
  BY DEF FunctionKept
<1> DEFINE n == goal.inputs
<1>1. /\ goal \in Functions
      /\ Shape(n, nodes, remainder, support, pis, stack, result, phase)
      /\ Kept(n, goal.on, nodes, remainder, pis, stack, result, phase)
  BY DEF Invariant, Sound
<1>2. NetworkOK(n, nodes) /\ stack \in Seq(Frame(n))
  BY <1>1 DEF Shape, Calls
<1>3. PICK value : /\ IsValue(n, nodes, value)
                   /\ Due(n, pis, stack, value, goal.on, Now(n, remainder, pis, result, phase, value))
  BY <1>1 DEF Kept, Over
<1>4. Value = value
  BY <1>1, <1>2, <1>3, ValueIs
<1> QED BY <1>1, <1>2, <1>3, <1>4, OwedIs

(* The invariant holds in every reachable state.                           *)
LEMMA Always == Spec => []Invariant
BY InitSound, Inductive, PTL DEF Spec

(* Every variable always has values of its kind, whatever the function of  *)
(* the LUT: no gate has a fanin after itself, no variable a constant.      *)
THEOREM TypeCorrect == Spec => []TypeOK
BY Always, KindsHold, PTL

(* However dsd_impl::run decomposes a LUT of any size, the gates it has    *)
(* built, what it has left and what the calls that wait will add make up   *)
(* the function of the LUT.                                                *)
THEOREM FunctionPreserved == Spec => []FunctionKept
BY Always, FunctionHolds, PTL

=============================================================================
