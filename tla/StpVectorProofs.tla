-------------------------- MODULE StpVectorProofs ---------------------------
(***************************************************************************)
(* The proof that normalize_matrix returns the LUT of the tree whose       *)
(* matrix chain it is handed, for every chain.                             *)
(*                                                                         *)
(* A product of matrices is awkward to reason about, what it does is not.  *)
(* A state is a vector with a single 1: its width w and the position v of  *)
(* the 1.  A logic matrix M acts on it as M (x) I on the vector; so a      *)
(* variable of value b puts a digit in front of the position, a LUT takes  *)
(* the digits of its inputs away and puts its output, and a chain acts as  *)
(* its elements one after the other, the last one first.  The products the *)
(* code takes act as their factors do (ProductActs), hence a chain can be  *)
(* multiplied out anywhere, and each rewriting step (a variable passes     *)
(* matrices, x x = Mr x, a swap matrix) is an equation between actions.    *)
(*                                                                         *)
(* The invariant IInv says that some arrangement of the variables met      *)
(* stands behind the chain, of which idx holds the ranks, and that the     *)
(* chain followed by it does to the state <<1, 0>> what the tree does.     *)
(***************************************************************************)
EXTENDS StpVector, FoldLemmas
-----------------------------------------------------------------------------
(***************************************************************************)
(* Numbers                                                                 *)
(***************************************************************************)
Pos == Nat \ {0}

(* Products of natural numbers.                                            *)
LEMMA Times ==
  \A a, b, c \in Nat :
    /\ a * b \in Nat /\ a * b = b * a
    /\ (a * b) * c = a * (b * c)
    /\ (a + b) * c = a * c + b * c
    /\ c * (a + b) = c * a + c * b
OBVIOUS

(* Multiplication keeps the order.                                         *)
LEMMA TimesLess == \A a, b, c \in Nat : a < b /\ c > 0 => a * c < b * c
OBVIOUS

(* The product of positive numbers is positive.                            *)
LEMMA TimesPos ==
  /\ \A a, b \in Pos : a * b \in Pos
  /\ \A a \in Pos, b, c \in Nat : a * b = a * c => b = c
BY DEF Pos

(* A number is written in one way only as a multiple of k and a rest.      *)
LEMMA Digits ==
  ASSUME NEW k \in Pos, NEW a \in Nat, NEW b \in Nat,
         NEW x \in 0 .. k - 1, NEW y \in 0 .. k - 1, a * k + x = b * k + y
  PROVE  a = b /\ x = y
<1>1. ASSUME NEW c \in Nat, NEW d \in Nat, c < d,
             NEW u \in 0 .. k - 1, NEW v \in 0 .. k - 1, c * k + u = d * k + v
      PROVE  FALSE
  <2>1. PICK e \in Nat : d = c + e + 1
    <3>1. d - c - 1 \in Nat /\ d = c + (d - c - 1) + 1
      BY <1>1
    <3> QED BY <3>1
  <2>2. d * k = c * k + e * k + k
    BY <2>1 DEF Pos
  <2>3. c * k \in Nat /\ e * k \in Nat /\ k \in Nat
    BY Times DEF Pos
  <2> QED BY <1>1, <2>2, <2>3
<1>2. ~(a < b) /\ ~(b < a)
  BY <1>1
<1>3. a = b
  BY <1>2
<1>4. a * k \in Nat
  BY DEF Pos
<1> QED BY <1>3, <1>4

(* Every number is written so; these are its quotient and its remainder.   *)
LEMMA Division ==
  ASSUME NEW k \in Pos, NEW n \in Nat
  PROVE  /\ n \div k \in Nat /\ n % k \in 0 .. k - 1
         /\ n = (n \div k) * k + (n % k)
BY DEF Pos

(* So written, the quotient and the remainder are read off.                *)
LEMMA Quotient ==
  ASSUME NEW k \in Pos, NEW a \in Nat, NEW x \in 0 .. k - 1
  PROVE  (a * k + x) \div k = a /\ (a * k + x) % k = x
<1>1. a * k + x \in Nat
  BY DEF Pos
<1> DEFINE n == a * k + x
<1> HIDE DEF n
<1>2. n \div k \in Nat /\ n % k \in 0 .. k - 1 /\ n = (n \div k) * k + (n % k)
  BY <1>1, Division DEF n
<1>3. (n \div k) * k + (n % k) = a * k + x
  BY <1>2 DEF n
<1> QED BY <1>2, <1>3, Digits DEF n

(* The digit in front of a rest stays below a bound.                       *)
LEMMA DigitsBound ==
  ASSUME NEW k \in Pos, NEW m \in Pos, NEW a \in 0 .. m - 1, NEW x \in 0 .. k - 1
  PROVE  a * k + x \in 0 .. m * k - 1
<1>1. PICK e \in Nat : m = a + e + 1
  <2>1. m - a - 1 \in Nat /\ m = a + (m - a - 1) + 1
    BY DEF Pos
  <2> QED BY <2>1
<1>2. m * k = a * k + e * k + k
  BY <1>1 DEF Pos
<1>3. a * k \in Nat /\ e * k \in Nat /\ k \in Nat
  BY Times DEF Pos
<1> QED BY <1>2, <1>3

(* And the number below the product has such digits.                       *)
LEMMA DigitsExist ==
  ASSUME NEW k \in Pos, NEW m \in Pos, NEW n \in 0 .. m * k - 1
  PROVE  \E a \in 0 .. m - 1, x \in 0 .. k - 1 : n = a * k + x
<1>0. n \in Nat /\ m * k \in Nat /\ n < m * k
  BY Times DEF Pos
<1>1. PICK a \in Nat, x \in 0 .. k - 1 : n = a * k + x
  BY <1>0, Division
<1>2. a < m
  <2> SUFFICES ASSUME m <= a PROVE FALSE
    BY DEF Pos
  <2>1. PICK e \in Nat : a = m + e
    <3>1. a - m \in Nat /\ a = m + (a - m)
      BY <1>1 DEF Pos
    <3> QED BY <3>1
  <2>2. a * k = m * k + e * k /\ e * k \in Nat
    BY <2>1, Times DEF Pos
  <2> QED BY <1>0, <1>1, <2>2
<1>3. a \in 0 .. m - 1
  BY <1>1, <1>2 DEF Pos
<1> QED BY <1>1, <1>3

(* Powers of two.                                                          *)
Powers == {2 ^ n : n \in Nat}

(* A power of 2 is positive.                                               *)
LEMMA PowersPos == \A n \in Nat : 2 ^ n \in Pos /\ 2 ^ n \in Powers
BY PowerPositive DEF Pos, Powers

(* The powers of 2 are positive.                                           *)
LEMMA PowersArePos == Powers \subseteq Pos
BY PowersPos DEF Powers

(* The exponents of a product add up.                                      *)
LEMMA PowerAdds == \A m, n \in Nat : 2 ^ (m + n) = 2 ^ m * 2 ^ n
<1> SUFFICES ASSUME NEW m \in Nat, NEW n \in Nat PROVE 2 ^ (m + n) = 2 ^ m * 2 ^ n
  OBVIOUS
<1> DEFINE T == {i \in 0 .. n : 2 ^ (m + i) = 2 ^ m * 2 ^ i}
<1>1. 0 \in T
  <2>1. 2 ^ m \in Nat /\ m + 0 = m
    BY PowersPos DEF Pos
  <2> DEFINE u == 2 ^ m
  <2> HIDE DEF u
  <2>2. u = u * 1
    BY <2>1 DEF u
  <2>3. 2 ^ (m + 0) = u * 2 ^ 0
    BY <2>1, <2>2, PowerZero DEF u
  <2> QED BY <2>3 DEF u
<1>2. ASSUME NEW i \in 0 .. n - 1, i \in T PROVE i + 1 \in T
  <2>1. i \in Nat /\ m + i \in Nat /\ m + (i + 1) = (m + i) + 1 /\ i + 1 \in 0 .. n
    OBVIOUS
  <2>2. 2 ^ (m + (i + 1)) = 2 * 2 ^ (m + i) /\ 2 ^ (i + 1) = 2 * 2 ^ i
    BY <2>1, PowerDoubles
  <2>3. 2 ^ (m + i) = 2 ^ m * 2 ^ i
    BY <1>2
  <2> DEFINE u == 2 ^ m
             v == 2 ^ i
  <2>4. u \in Nat /\ v \in Nat
    BY <2>1, PowersPos DEF Pos
  <2> HIDE DEF u, v
  <2>5. 2 * (u * v) = u * (2 * v)
    BY <2>4, Times
  <2>6. 2 ^ (m + (i + 1)) = u * 2 ^ (i + 1)
    BY <2>2, <2>3, <2>5 DEF u, v
  <2> QED BY <2>1, <2>6 DEF u
<1>3. \A i \in 0 .. n : i \in T
  <2> HIDE DEF T
  <2> QED BY <1>1, <1>2, UpTo
<1>4. n \in 0 .. n
  OBVIOUS
<1> QED BY <1>3, <1>4

(* 1, 2 and 4 are powers of 2, and so is the product of two.               *)
LEMMA PowersClosed ==
  /\ 1 \in Powers /\ 2 \in Powers /\ 4 \in Powers
  /\ \A a, b \in Powers : a * b \in Powers
<1>1. 2 ^ 0 = 1 /\ 2 ^ (0 + 1) = 2 * 2 ^ 0 /\ 2 ^ (1 + 1) = 2 * 2 ^ 1
  BY PowerZero, PowerDoubles
<1>2. 2 ^ 0 = 1 /\ 2 ^ 1 = 2 /\ 2 ^ 2 = 4
  BY <1>1
<1>3. ASSUME NEW a \in Powers, NEW b \in Powers PROVE a * b \in Powers
  <2>1. PICK m \in Nat, n \in Nat : a = 2 ^ m /\ b = 2 ^ n
    BY DEF Powers
  <2>2. m + n \in Nat /\ a * b = 2 ^ (m + n)
    BY <2>1, PowerAdds
  <2> QED BY <2>2 DEF Powers
<1> QED BY <1>2, <1>3, PowersPos

(* Of two powers of two one divides the other.                             *)
LEMMA PowersDivide ==
  ASSUME NEW a \in Powers, NEW b \in Powers
  PROVE  \/ a % b = 0 /\ a \div b \in Powers /\ a = (a \div b) * b
         \/ a % b # 0 /\ b % a = 0 /\ b \div a \in Powers /\ b = (b \div a) * a
<1>1. PICK m \in Nat, n \in Nat : a = 2 ^ m /\ b = 2 ^ n
  BY DEF Powers
<1>2. a \in Pos /\ b \in Pos
  BY PowersArePos
<1>3. ASSUME NEW u \in Powers, NEW v \in Powers, NEW q \in Powers, u = q * v
      PROVE  u % v = 0 /\ u \div v = q
  <2>1. v \in Pos /\ q \in Nat /\ 0 \in 0 .. v - 1 /\ q * v \in Nat
    BY PowersArePos DEF Pos
  <2>2. (q * v + 0) \div v = q /\ (q * v + 0) % v = 0
    BY <2>1, Quotient
  <2> QED BY <1>3, <2>1, <2>2
<1>4. CASE n <= m
  <2>1. m - n \in Nat /\ (m - n) + n = m
    BY <1>4
  <2>2. a = 2 ^ (m - n) * b /\ 2 ^ (m - n) \in Powers
    BY <1>1, <2>1, PowerAdds, PowersPos
  <2> QED BY <1>3, <2>2
<1>5. CASE m < n
  <2>1. n - m \in Nat /\ (n - m) + m = n /\ n - m - 1 \in Nat /\ (n - m - 1) + 1 = n - m
    BY <1>5
  <2> DEFINE q == 2 ^ (n - m)
             r == 2 ^ (n - m - 1)
  <2>2. b = q * a /\ q \in Powers /\ q = 2 * r /\ r \in Pos
    BY <1>1, <2>1, PowerAdds, PowerDoubles, PowersPos
  <2>3. b % a = 0 /\ b \div a = q
    <3> HIDE DEF q
    <3> QED BY <1>3, <2>2
  <2>4. a < b
    <3> HIDE DEF q, r
    <3>1. q \in Nat /\ 1 < q /\ a \in Nat /\ a > 0
      BY <1>2, <2>2 DEF Pos
    <3>2. 1 * a < q * a
      BY <3>1, TimesLess
    <3> QED BY <2>2, <3>1, <3>2
  <2>5. a % b = a
    <3>1. (0 * b + a) % b = a
      <4>1. a \in 0 .. b - 1 /\ 0 \in Nat
        BY <1>2, <2>4 DEF Pos
      <4> QED BY <1>2, <4>1, Quotient
    <3> QED BY <1>2, <3>1 DEF Pos
  <2>6. a # 0
    BY <1>2 DEF Pos
  <2> HIDE DEF q
  <2> QED BY <2>2, <2>3, <2>5, <2>6
<1> QED BY <1>4, <1>5

-----------------------------------------------------------------------------
(***************************************************************************)
(* Matrices                                                                *)
(***************************************************************************)
IsMatrix(m) ==
  /\ m \in Seq(Nat) /\ Len(m) > 1
  /\ Rows(m) \in Powers /\ Cols(m) \in Powers
  /\ \A i \in 0 .. Cols(m) - 1 : Col(m, i + 1) \in 0 .. Rows(m) - 1

(* A sequence with a number in front.                                      *)
LEMMA Headed ==
  ASSUME NEW r \in Nat, NEW n \in Pos, NEW f \in [1 .. n -> Nat]
  PROVE  /\ <<r>> \o f \in Seq(Nat) /\ Len(<<r>> \o f) = n + 1
         /\ (<<r>> \o f)[1] = r
         /\ \A j \in 1 .. n : (<<r>> \o f)[j + 1] = f[j]
<1>1. n \in Nat /\ f \in Seq(Nat) /\ Len(f) = n
  BY DEF Pos
<1>2. <<r>> \in Seq(Nat) /\ Len(<<r>>) = 1 /\ <<r>>[1] = r
  OBVIOUS
<1>3. <<r>> \o f \in Seq(Nat) /\ Len(<<r>> \o f) = 1 + n
  BY <1>1, <1>2, JoinLength
<1>4. (<<r>> \o f)[1] = r
  BY <1>1, <1>2
<1>5. ASSUME NEW j \in 1 .. n PROVE (<<r>> \o f)[j + 1] = f[j]
  BY <1>1, <1>2
<1> QED BY <1>1, <1>3, <1>4, <1>5

(* The dimensions and entries of a matrix that is written down.            *)
LEMMA MatrixFacts ==
  ASSUME NEW r \in Powers, NEW n \in Powers, NEW f \in [1 .. n -> 0 .. r - 1]
  PROVE  /\ IsMatrix(<<r>> \o f)
         /\ Rows(<<r>> \o f) = r /\ Cols(<<r>> \o f) = n
         /\ \A i \in 0 .. n - 1 : Col(<<r>> \o f, i + 1) = f[i + 1]
<1> DEFINE m == <<r>> \o f
<1>1. r \in Nat /\ n \in Pos /\ r \in Pos
  BY PowersArePos DEF Pos
<1>2. f \in [1 .. n -> Nat]
  BY <1>1 DEF Pos
<1>3. /\ m \in Seq(Nat) /\ Len(m) = n + 1 /\ m[1] = r
      /\ \A j \in 1 .. n : m[j + 1] = f[j]
  BY <1>1, <1>2, Headed
<1> HIDE DEF m
<1>4. Rows(m) = r /\ Cols(m) = n /\ Len(m) > 1
  BY <1>1, <1>3 DEF Rows, Cols, Pos
<1>5. ASSUME NEW i \in 0 .. n - 1
      PROVE  Col(m, i + 1) = f[i + 1] /\ Col(m, i + 1) \in 0 .. r - 1
  <2>1. i + 1 \in 1 .. n /\ m[(i + 1) + 1] = f[i + 1]
    BY <1>1, <1>3 DEF Pos
  <2> QED BY <2>1 DEF Col
<1> QED BY <1>3, <1>4, <1>5 DEF IsMatrix, m

(* What is known of a matrix.                                              *)
LEMMA MatrixType ==
  ASSUME NEW m, IsMatrix(m)
  PROVE  /\ m \in Seq(Nat) /\ m # TypeError /\ ~IsVariable(m)
         /\ Rows(m) \in Pos /\ Cols(m) \in Pos
         /\ \A i \in 0 .. Cols(m) - 1 : Col(m, i + 1) \in 0 .. Rows(m) - 1
<1>1. Rows(m) \in Pos /\ Cols(m) \in Pos
  BY PowersArePos DEF IsMatrix
<1>2. m \in Seq(Nat) /\ Len(m) > 1
  BY DEF IsMatrix
<1> DEFINE l == Len(m)
<1>3. l \in Nat /\ l > 1
  BY <1>2
<1> HIDE DEF l
<1>4. l # 1 /\ l # 0
  BY <1>3
<1>5. m # <<>>
  <2>1. Len(<<>>) = 0
    OBVIOUS
  <2> QED BY <1>4, <2>1, Zenon DEF l
<1> QED BY <1>1, <1>2, <1>4, <1>5 DEF IsMatrix, TypeError, IsVariable, l

(* Identity: column i has its 1 in row i.                                  *)
LEMMA IdentityFacts ==
  ASSUME NEW n \in Powers
  PROVE  /\ IsMatrix(Identity(n)) /\ Rows(Identity(n)) = n /\ Cols(Identity(n)) = n
         /\ \A i \in 0 .. n - 1 : Col(Identity(n), i + 1) = i
<1> DEFINE f == [j \in 1 .. n |-> j - 1]
<1>1. n \in Pos
  BY PowersArePos
<1>2. Identity(n) = <<n>> \o f
  BY DEF Identity, Matrix
<1>3. f \in [1 .. n -> 0 .. n - 1]
  BY <1>1 DEF Pos
<1>4. \A i \in 0 .. n - 1 : f[i + 1] = i
  BY <1>1 DEF Pos
<1> HIDE DEF f
<1>5. /\ IsMatrix(<<n>> \o f) /\ Rows(<<n>> \o f) = n /\ Cols(<<n>> \o f) = n
      /\ \A i \in 0 .. n - 1 : Col(<<n>> \o f, i + 1) = f[i + 1]
  BY <1>3, MatrixFacts
<1> QED BY <1>2, <1>4, <1>5

(* logic_kron_product: the shape of the product and its columns.           *)
LEMMA KronFacts ==
  ASSUME NEW f, IsMatrix(f), NEW b, IsMatrix(b)
  PROVE  /\ IsMatrix(Kron(f, b))
         /\ Rows(Kron(f, b)) = Rows(f) * Rows(b)
         /\ Cols(Kron(f, b)) = Cols(f) * Cols(b)
         /\ \A i \in 0 .. Cols(f) - 1, j \in 0 .. Cols(b) - 1 :
              Col(Kron(f, b), (i * Cols(b) + j) + 1) = Col(f, i + 1) * Rows(b) + Col(b, j + 1)
<1> DEFINE r == Rows(f) * Rows(b)
           n == Cols(f) * Cols(b)
           q == Cols(b)
           Entry(i) == Col(f, (i \div q) + 1) * Rows(b) + Col(b, (i % q) + 1)
           g == [j \in 1 .. n |-> Entry(j - 1)]
<1>1. /\ Rows(f) \in Pos /\ Rows(b) \in Pos /\ Cols(f) \in Pos /\ Cols(b) \in Pos
      /\ b # TypeError
  BY MatrixType
<1>2. r \in Powers /\ n \in Powers
  BY PowersClosed DEF IsMatrix
<1>3. ASSUME NEW i \in 0 .. Cols(f) - 1, NEW j \in 0 .. Cols(b) - 1
      PROVE  /\ Entry(i * q + j) = Col(f, i + 1) * Rows(b) + Col(b, j + 1)
             /\ Entry(i * q + j) \in 0 .. r - 1
  <2>1. i \in Nat /\ j \in 0 .. q - 1 /\ q \in Pos
    BY <1>1 DEF Pos
  <2>2. (i * q + j) \div q = i /\ (i * q + j) % q = j
    BY <2>1, Quotient
  <2>3. Entry(i * q + j) = Col(f, i + 1) * Rows(b) + Col(b, j + 1)
    BY <2>2
  <2>4. Col(f, i + 1) \in 0 .. Rows(f) - 1 /\ Col(b, j + 1) \in 0 .. Rows(b) - 1
    BY MatrixType
  <2>5. Col(f, i + 1) * Rows(b) + Col(b, j + 1) \in 0 .. Rows(f) * Rows(b) - 1
    BY <1>1, <2>4, DigitsBound
  <2> HIDE DEF Entry
  <2> QED BY <2>3, <2>5
<1>4. Kron(f, b) = <<r>> \o g
  BY <1>1 DEF Kron, Matrix
<1> HIDE DEF Entry
<1>5. n \in Pos
  BY <1>2, PowersArePos
<1>6. ASSUME NEW k \in 0 .. n - 1 PROVE Entry(k) \in 0 .. r - 1
  <2>1. PICK i \in 0 .. Cols(f) - 1, j \in 0 .. Cols(b) - 1 : k = i * Cols(b) + j
    BY <1>1, DigitsExist
  <2> HIDE DEF r
  <2> QED BY <1>3, <2>1
<1> HIDE DEF n, r
<1>7. g \in [1 .. n -> 0 .. r - 1]
  <2>1. \A j \in 1 .. n : j - 1 \in 0 .. n - 1
    BY <1>5 DEF Pos
  <2> QED BY <1>6, <2>1
<1>8. \A i \in 0 .. n - 1 : g[i + 1] = Entry(i)
  <2>1. \A i \in 0 .. n - 1 : i + 1 \in 1 .. n /\ (i + 1) - 1 = i
    BY <1>5 DEF Pos
  <2> QED BY <2>1
<1> HIDE DEF g
<1>9. /\ IsMatrix(<<r>> \o g) /\ Rows(<<r>> \o g) = r /\ Cols(<<r>> \o g) = n
      /\ \A i \in 0 .. n - 1 : Col(<<r>> \o g, i + 1) = g[i + 1]
  BY <1>2, <1>7, MatrixFacts
<1>10. ASSUME NEW i \in 0 .. Cols(f) - 1, NEW j \in 0 .. Cols(b) - 1
       PROVE  Col(Kron(f, b), (i * Cols(b) + j) + 1) = Col(f, i + 1) * Rows(b) + Col(b, j + 1)
  <2>1. i * Cols(b) + j \in 0 .. n - 1
    BY <1>1, DigitsBound DEF n
  <2> QED BY <1>3, <1>4, <1>8, <1>9, <2>1
<1> QED BY <1>4, <1>9, <1>10 DEF n, r

(* Select: a column of b selects a block of columns of f.                  *)
LEMMA SelectFacts ==
  ASSUME NEW f, IsMatrix(f), NEW b, IsMatrix(b), NEW t \in Powers,
         Cols(f) = t * Rows(b), Cols(f) \div Rows(b) = t
  PROVE  /\ IsMatrix(Select(f, b))
         /\ Rows(Select(f, b)) = Rows(f) /\ Cols(Select(f, b)) = t * Cols(b)
         /\ \A i \in 0 .. Cols(b) - 1, d \in 0 .. t - 1 :
              Col(Select(f, b), (i * t + d) + 1) = Col(f, (Col(b, i + 1) * t + d) + 1)
<1> DEFINE r == Rows(f)
           n == t * Cols(b)
           Entry(i) == Col(f, t * Col(b, (i \div t) + 1) + (i % t) + 1)
           g == [j \in 1 .. n |-> Entry(j - 1)]
<1>1. /\ Rows(f) \in Pos /\ Rows(b) \in Pos /\ Cols(f) \in Pos /\ Cols(b) \in Pos
      /\ t \in Pos
  BY MatrixType, PowersArePos
<1>2. r \in Powers /\ n \in Powers
  BY PowersClosed DEF IsMatrix
<1>3. ASSUME NEW i \in 0 .. Cols(b) - 1, NEW d \in 0 .. t - 1
      PROVE  /\ Entry(i * t + d) = Col(f, (Col(b, i + 1) * t + d) + 1)
             /\ Entry(i * t + d) \in 0 .. r - 1
  <2>1. i \in Nat
    OBVIOUS
  <2>2. (i * t + d) \div t = i /\ (i * t + d) % t = d
    BY <1>1, <2>1, Quotient
  <2>3. Col(b, i + 1) \in 0 .. Rows(b) - 1
    BY MatrixType
  <2>4. Col(b, i + 1) * t + d \in 0 .. Rows(b) * t - 1
    BY <1>1, <2>3, DigitsBound
  <2>5. t \in Nat /\ d \in Nat /\ Col(b, i + 1) \in Nat /\ Rows(b) \in Nat
    BY <1>1, <2>3 DEF Pos
  <2>6. t * Col(b, i + 1) = Col(b, i + 1) * t /\ Rows(b) * t = Cols(f)
    BY <2>5, Times
  <2>7. Entry(i * t + d) = Col(f, (Col(b, i + 1) * t + d) + 1)
    BY <2>2, <2>6
  <2> HIDE DEF Entry
  <2>8. Col(f, (Col(b, i + 1) * t + d) + 1) \in 0 .. Rows(f) - 1
    BY <2>4, <2>6, MatrixType
  <2> QED BY <2>7, <2>8
<1>4. Select(f, b) = <<r>> \o g
  BY DEF Select, Matrix
<1> HIDE DEF Entry
<1>5. n \in Pos
  BY <1>2, PowersArePos
<1>6. ASSUME NEW k \in 0 .. n - 1 PROVE Entry(k) \in 0 .. r - 1
  <2>1. t * Cols(b) = Cols(b) * t
    BY <1>1, Times DEF Pos
  <2>2. PICK i \in 0 .. Cols(b) - 1, d \in 0 .. t - 1 : k = i * t + d
    BY <1>1, <2>1, DigitsExist
  <2> HIDE DEF r
  <2> QED BY <1>3, <2>2
<1> HIDE DEF n, r
<1>7. g \in [1 .. n -> 0 .. r - 1]
  <2>1. \A j \in 1 .. n : j - 1 \in 0 .. n - 1
    BY <1>5 DEF Pos
  <2> QED BY <1>6, <2>1
<1>8. \A i \in 0 .. n - 1 : g[i + 1] = Entry(i)
  <2>1. \A i \in 0 .. n - 1 : i + 1 \in 1 .. n /\ (i + 1) - 1 = i
    BY <1>5 DEF Pos
  <2> QED BY <2>1
<1> HIDE DEF g
<1>9. /\ IsMatrix(<<r>> \o g) /\ Rows(<<r>> \o g) = r /\ Cols(<<r>> \o g) = n
      /\ \A i \in 0 .. n - 1 : Col(<<r>> \o g, i + 1) = g[i + 1]
  BY <1>2, <1>7, MatrixFacts
<1>10. ASSUME NEW i \in 0 .. Cols(b) - 1, NEW d \in 0 .. t - 1
       PROVE  Col(Select(f, b), (i * t + d) + 1) = Col(f, (Col(b, i + 1) * t + d) + 1)
  <2>1. t * Cols(b) = Cols(b) * t
    BY <1>1, Times DEF Pos
  <2>2. i * t + d \in 0 .. n - 1
    BY <1>1, <2>1, DigitsBound DEF n
  <2> QED BY <1>3, <1>4, <1>8, <1>9, <2>2
<1> QED BY <1>4, <1>9, <1>10 DEF n, r

(* logic_swap_matrix: where the columns of a swap matrix have their 1.     *)
LEMMA SwapFacts ==
  ASSUME NEW n \in Powers
  PROVE  /\ IsMatrix(SwapMatrix(2, n))
         /\ Rows(SwapMatrix(2, n)) = 2 * n /\ Cols(SwapMatrix(2, n)) = 2 * n
         /\ \A i \in 0 .. 1, j \in 0 .. n - 1 :
              Col(SwapMatrix(2, n), (i * n + j) + 1) = j * 2 + i
<1> DEFINE r == 2 * n
           Entry(i) == (i % n) * 2 + (i \div n)
           g == [j \in 1 .. r |-> Entry(j - 1)]
<1>1. n \in Pos /\ 2 \in Pos
  BY PowersArePos DEF Pos
<1>2. r \in Powers
  BY PowersClosed
<1>3. ASSUME NEW i \in 0 .. 1, NEW j \in 0 .. n - 1
      PROVE  Entry(i * n + j) = j * 2 + i /\ Entry(i * n + j) \in 0 .. r - 1
  <2>1. i \in Nat
    OBVIOUS
  <2>2. (i * n + j) \div n = i /\ (i * n + j) % n = j
    BY <1>1, <2>1, Quotient
  <2>3. j * 2 + i \in 0 .. 2 * n - 1
    BY <1>1 DEF Pos
  <2> QED BY <2>2, <2>3
<1>4. SwapMatrix(2, n) = <<r>> \o g
  BY DEF SwapMatrix, Matrix
<1> HIDE DEF Entry
<1>5. r \in Pos
  BY <1>2, PowersArePos
<1>6. ASSUME NEW k \in 0 .. r - 1 PROVE Entry(k) \in 0 .. r - 1
  <2>1. PICK i \in 0 .. 2 - 1, j \in 0 .. n - 1 : k = i * n + j
    BY <1>1, DigitsExist
  <2>2. i \in 0 .. 1
    OBVIOUS
  <2> HIDE DEF r
  <2> QED BY <1>3, <2>1, <2>2
<1> HIDE DEF r
<1>7. g \in [1 .. r -> 0 .. r - 1]
  <2>1. \A j \in 1 .. r : j - 1 \in 0 .. r - 1
    BY <1>5 DEF Pos
  <2> QED BY <1>6, <2>1
<1>8. \A i \in 0 .. r - 1 : g[i + 1] = Entry(i)
  <2>1. \A i \in 0 .. r - 1 : i + 1 \in 1 .. r /\ (i + 1) - 1 = i
    BY <1>5 DEF Pos
  <2> QED BY <2>1
<1> HIDE DEF g
<1>9. /\ IsMatrix(<<r>> \o g) /\ Rows(<<r>> \o g) = r /\ Cols(<<r>> \o g) = r
      /\ \A i \in 0 .. r - 1 : Col(<<r>> \o g, i + 1) = g[i + 1]
  BY <1>2, <1>7, MatrixFacts
<1>10. ASSUME NEW i \in 0 .. 1, NEW j \in 0 .. n - 1
       PROVE  Col(SwapMatrix(2, n), (i * n + j) + 1) = j * 2 + i
  <2>1. i * n + j \in 0 .. r - 1
    <3>1. i \in 0 .. 2 - 1
      OBVIOUS
    <3> QED BY <1>1, <3>1, DigitsBound DEF r
  <2> QED BY <1>3, <1>4, <1>8, <1>9, <2>1
<1> QED BY <1>4, <1>9, <1>10 DEF r

(* The power-reducing matrix.                                              *)
LEMMA MrFacts ==
  /\ IsMatrix(Mr) /\ Rows(Mr) = 4 /\ Cols(Mr) = 2
  /\ \A i \in 0 .. 1 : Col(Mr, i + 1) = 3 * i
<1>1. /\ Mr \in Seq(Nat) /\ Len(Mr) = 3 /\ Mr[1] = 4 /\ Mr[2] = 0 /\ Mr[3] = 3
  BY DEF Mr
<1>2. Rows(Mr) = 4 /\ Cols(Mr) = 2 /\ Col(Mr, 1) = 0 /\ Col(Mr, 2) = 3
  BY <1>1 DEF Rows, Cols, Col
<1>3. \A i \in 0 .. 1 : Col(Mr, i + 1) = 3 * i
  <2>1. Col(Mr, 0 + 1) = 3 * 0 /\ Col(Mr, 1 + 1) = 3 * 1
    BY <1>2
  <2> QED BY <2>1
<1>4. \A i \in 0 .. 1 : 3 * i \in 0 .. 3
  OBVIOUS
<1> HIDE DEF Mr
<1> QED BY <1>1, <1>2, <1>3, <1>4, PowersClosed DEF IsMatrix

(* The vector of a value.                                                  *)
LEMMA VectorFacts ==
  ASSUME NEW b \in 0 .. 1
  PROVE  /\ IsMatrix(Vector(b)) /\ Rows(Vector(b)) = 2 /\ Cols(Vector(b)) = 1
         /\ Col(Vector(b), 1) = 1 - b
<1> DEFINE v == Vector(b)
<1>1. v \in Seq(Nat) /\ Len(v) = 2 /\ v[1] = 2 /\ v[2] = 1 - b
  BY DEF Vector
<1> HIDE DEF v
<1>2. Rows(v) = 2 /\ Cols(v) = 1 /\ Col(v, 1) = 1 - b
  BY <1>1 DEF Rows, Cols, Col
<1>3. \A i \in 0 .. 0 : Col(v, i + 1) \in 0 .. 1
  BY <1>2
<1> QED BY <1>1, <1>2, <1>3, PowersClosed DEF IsMatrix, v

(* The LUTs of a chain are matrices.                                       *)
LEMMA LutFacts ==
  ASSUME NEW v \in Seq(Nat), IsLut(v)
  PROVE  /\ IsMatrix(v) /\ Rows(v) = 2
         /\ Inputs(v) \in Nat /\ 2 ^ Inputs(v) = Cols(v)
<1>1. Inputs(v) \in 0 .. Cols(v) /\ 2 ^ Inputs(v) = Cols(v)
  BY DEF IsLut, Inputs
<1>2. Len(v) \in Nat /\ Len(v) > 1 /\ Rows(v) = 2
  BY DEF IsLut
<1>3. Cols(v) \in Nat
  BY <1>2 DEF Cols
<1>4. Inputs(v) \in Nat
  BY <1>1, <1>3
<1>5. Cols(v) \in Powers
  BY <1>1, <1>4 DEF Powers
<1>6. \A i \in 0 .. Cols(v) - 1 : Col(v, i + 1) \in 0 .. Rows(v) - 1
  <2>1. \A i \in 0 .. Cols(v) - 1 : i + 1 \in 1 .. Cols(v)
    BY <1>3
  <2> QED BY <1>2, <2>1 DEF IsLut
<1> QED BY <1>1, <1>2, <1>4, <1>5, <1>6, PowersClosed DEF IsMatrix

(* A product of matrices never ends with "matrix type error!".  Either the *)
(* columns of the first are as many as the rows of the second, or more,    *)
(* and the second selects blocks of them, or the first is blown up.        *)
LEMMA ProductCases ==
  ASSUME NEW f, IsMatrix(f), NEW b, IsMatrix(b)
  PROVE  \/ \E t \in Powers : /\ Cols(f) = t * Rows(b) /\ Cols(f) \div Rows(b) = t
                              /\ Product(f, b) = Select(f, b)
         \/ \E t \in Powers : /\ Rows(b) = t * Cols(f)
                              /\ Product(f, b) = Select(Kron(f, Identity(t)), b)
<1>1. Cols(f) \in Powers /\ Rows(b) \in Powers /\ TypeError \notin {f, b}
  BY MatrixType DEF IsMatrix
<1> DEFINE u == Cols(f)
           w == Rows(b)
<1>2. CASE u % w = 0 /\ u \div w \in Powers /\ u = (u \div w) * w
  <2>1. Product(f, b) = Select(f, b)
    BY <1>1, <1>2 DEF Product
  <2> QED BY <1>2, <2>1
<1>3. CASE u % w # 0 /\ w % u = 0 /\ w \div u \in Powers /\ w = (w \div u) * u
  <2>1. Product(f, b) = Select(Kron(f, Identity(w \div u)), b)
    BY <1>1, <1>3 DEF Product
  <2> QED BY <1>3, <2>1
<1> HIDE DEF u, w
<1> QED BY <1>1, <1>2, <1>3, PowersDivide DEF u, w

(* Blown up to as many columns as the other has rows.                      *)
LEMMA BlownUp ==
  ASSUME NEW f, IsMatrix(f), NEW t \in Powers
  PROVE  LET g == Kron(f, Identity(t))
         IN  /\ IsMatrix(g) /\ Rows(g) = Rows(f) * t /\ Cols(g) = Cols(f) * t
             /\ Cols(g) = 1 * Cols(g) /\ Cols(g) \div Cols(g) = 1
             /\ \A i \in 0 .. Cols(f) - 1, j \in 0 .. t - 1 :
                  Col(g, (i * t + j) + 1) = Col(f, i + 1) * t + j
<1> DEFINE g == Kron(f, Identity(t))
<1>1. /\ IsMatrix(Identity(t)) /\ Rows(Identity(t)) = t /\ Cols(Identity(t)) = t
      /\ \A i \in 0 .. t - 1 : Col(Identity(t), i + 1) = i
  BY IdentityFacts
<1>2. /\ IsMatrix(g) /\ Rows(g) = Rows(f) * t /\ Cols(g) = Cols(f) * t
      /\ \A i \in 0 .. Cols(f) - 1, j \in 0 .. t - 1 :
           Col(g, (i * t + j) + 1) = Col(f, i + 1) * t + j
  BY <1>1, KronFacts
<1> HIDE DEF g
<1>3. Cols(g) = 1 * Cols(g) /\ Cols(g) \div Cols(g) = 1
  <2>1. Cols(g) \in Pos /\ 1 \in Nat /\ 0 \in 0 .. Cols(g) - 1
    BY <1>2, MatrixType DEF Pos
  <2>2. (1 * Cols(g) + 0) \div Cols(g) = 1
    BY <2>1, Quotient
  <2> QED BY <2>1, <2>2 DEF Pos
<1> QED BY <1>2, <1>3 DEF g

(* logic_stpm_product never fails on matrices whose sizes are powers of 2. *)
LEMMA ProductFacts ==
  ASSUME NEW f, IsMatrix(f), NEW b, IsMatrix(b)
  PROVE  IsMatrix(Product(f, b)) /\ Rows(Product(f, b)) >= Rows(f)
<1>1. Rows(f) \in Pos
  BY MatrixType
<1>2. CASE \E t \in Powers : /\ Cols(f) = t * Rows(b) /\ Cols(f) \div Rows(b) = t
                            /\ Product(f, b) = Select(f, b)
  BY <1>1, <1>2, SelectFacts DEF Pos
<1>3. CASE \E t \in Powers : /\ Rows(b) = t * Cols(f)
                            /\ Product(f, b) = Select(Kron(f, Identity(t)), b)
  <2>1. PICK t \in Powers : /\ Rows(b) = t * Cols(f)
                            /\ Product(f, b) = Select(Kron(f, Identity(t)), b)
    BY <1>3
  <2> DEFINE g == Kron(f, Identity(t))
  <2>2. /\ IsMatrix(g) /\ Rows(g) = Rows(f) * t /\ Cols(g) = Cols(f) * t
        /\ Cols(g) = 1 * Cols(g) /\ Cols(g) \div Cols(g) = 1
    BY BlownUp
  <2>3. t \in Pos /\ Cols(f) \in Pos
    BY PowersArePos, MatrixType
  <2> HIDE DEF g
  <2>4. Cols(g) = Rows(b)
    BY <2>1, <2>2, <2>3, Times DEF Pos
  <2>5. IsMatrix(Select(g, b)) /\ Rows(Select(g, b)) = Rows(g)
    BY <2>2, <2>4, PowersClosed, SelectFacts
  <2>6. Rows(f) * t >= Rows(f)
    BY <1>1, <2>3 DEF Pos
  <2> QED BY <2>1, <2>2, <2>5, <2>6 DEF g
<1> QED BY <1>2, <1>3, ProductCases

-----------------------------------------------------------------------------
(***************************************************************************)
(* What matrices do                                                        *)
(*                                                                         *)
(* <<w, v>> is one of w states, number v.  A matrix acts on a state with a *)
(* multiple of its columns: it replaces the first digit, and leaves the    *)
(* rest, which is what the semi-tensor product does.                       *)
(***************************************************************************)
Acts(m, s, t) ==
  \E k \in Pos, i \in 0 .. Cols(m) - 1 : \E x \in 0 .. k - 1 :
    /\ s = <<Cols(m) * k, i * k + x>>
    /\ t = <<Rows(m) * k, Col(m, i + 1) * k + x>>

(* A blown up matrix does the same.                                        *)
LEMMA BlownUpActs ==
  ASSUME NEW f, IsMatrix(f), NEW n \in Powers, NEW k \in Pos,
         NEW c, NEW s, NEW t, Acts(f, s, t), s = <<Cols(f) * n * k, c>>
  PROVE  Acts(Kron(f, Identity(n)), s, t)
<1> DEFINE g == Kron(f, Identity(n))
<1>1. /\ Rows(g) = Rows(f) * n /\ Cols(g) = Cols(f) * n
      /\ \A i \in 0 .. Cols(f) - 1, j \in 0 .. n - 1 :
           Col(g, (i * n + j) + 1) = Col(f, i + 1) * n + j
  BY BlownUp
<1>2. Rows(f) \in Pos /\ Cols(f) \in Pos /\ n \in Pos
  BY MatrixType, PowersArePos
<1> HIDE DEF g
<1>3. PICK l \in Pos, i \in 0 .. Cols(f) - 1 : \E x \in 0 .. l - 1 :
        /\ s = <<Cols(f) * l, i * l + x>>
        /\ t = <<Rows(f) * l, Col(f, i + 1) * l + x>>
  BY DEF Acts
<1>4. PICK x \in 0 .. l - 1 :
        /\ s = <<Cols(f) * l, i * l + x>>
        /\ t = <<Rows(f) * l, Col(f, i + 1) * l + x>>
  BY <1>3
<1>5. l = n * k
  <2>1. Cols(f) * l = Cols(f) * n * k
    BY <1>4
  <2>2. Cols(f) * l = Cols(f) * (n * k) /\ n * k \in Nat /\ l \in Nat
    BY <1>2, <2>1, Times DEF Pos
  <2> QED BY <1>2, <2>2, TimesPos
<1>6. PICK d \in 0 .. n - 1, e \in 0 .. k - 1 : x = d * k + e
  <2>1. x \in 0 .. n * k - 1
    BY <1>5
  <2> QED BY <1>2, <2>1, DigitsExist
<1>7. ASSUME NEW a \in Nat PROVE a * l + x = (a * n + d) * k + e
  <2>1. d \in Nat /\ e \in Nat /\ k \in Nat /\ n \in Nat
    BY <1>2 DEF Pos
  <2>2. a * l = (a * n) * k
    BY <1>5, <2>1, Times
  <2>3. (a * n + d) * k = (a * n) * k + d * k /\ (a * n) * k \in Nat /\ d * k \in Nat
    BY <2>1, Times
  <2> QED BY <1>6, <2>1, <2>2, <2>3
<1>8. ASSUME NEW a \in Nat PROVE a * l = (a * n) * k
  BY <1>2, <1>5, <1>8, Times DEF Pos
<1>9. i \in Nat /\ Col(f, i + 1) \in Nat /\ Rows(f) \in Nat /\ Cols(f) \in Nat
  BY <1>2, MatrixType DEF Pos
<1>10. i * n + d \in 0 .. Cols(g) - 1
  BY <1>1, <1>2, DigitsBound
<1>11. s = <<Cols(g) * k, (i * n + d) * k + e>>
  BY <1>1, <1>4, <1>7, <1>8, <1>9
<1>12. t = <<Rows(g) * k, Col(g, (i * n + d) + 1) * k + e>>
  <2>1. Col(g, (i * n + d) + 1) = Col(f, i + 1) * n + d
    BY <1>1
  <2> QED BY <1>1, <1>4, <1>7, <1>8, <1>9, <2>1
<1>13. Acts(g, s, t)
  BY <1>10, <1>11, <1>12 DEF Acts
<1> QED BY <1>13 DEF g

(* The product of matrices does what one does after the other.             *)
LEMMA SelectActs ==
  ASSUME NEW f, IsMatrix(f), NEW b, IsMatrix(b), NEW n \in Powers,
         Cols(f) = n * Rows(b), Cols(f) \div Rows(b) = n,
         NEW s, NEW u, NEW t, Acts(b, s, u), Acts(f, u, t)
  PROVE  Acts(Select(f, b), s, t)
<1> DEFINE g == Select(f, b)
<1>1. /\ Rows(g) = Rows(f) /\ Cols(g) = n * Cols(b)
      /\ \A i \in 0 .. Cols(b) - 1, d \in 0 .. n - 1 :
           Col(g, (i * n + d) + 1) = Col(f, (Col(b, i + 1) * n + d) + 1)
  BY SelectFacts
<1> HIDE DEF g
<1>2. Rows(f) \in Pos /\ Cols(f) \in Pos /\ Rows(b) \in Pos /\ Cols(b) \in Pos /\ n \in Pos
  BY MatrixType, PowersArePos
<1>3. PICK k \in Pos, i \in 0 .. Cols(b) - 1 : \E x \in 0 .. k - 1 :
        /\ s = <<Cols(b) * k, i * k + x>>
        /\ u = <<Rows(b) * k, Col(b, i + 1) * k + x>>
  BY DEF Acts
<1>4. PICK x \in 0 .. k - 1 :
        /\ s = <<Cols(b) * k, i * k + x>>
        /\ u = <<Rows(b) * k, Col(b, i + 1) * k + x>>
  BY <1>3
<1>5. PICK l \in Pos, j \in 0 .. Cols(f) - 1 : \E y \in 0 .. l - 1 :
        /\ u = <<Cols(f) * l, j * l + y>>
        /\ t = <<Rows(f) * l, Col(f, j + 1) * l + y>>
  BY DEF Acts
<1>6. PICK y \in 0 .. l - 1 :
        /\ u = <<Cols(f) * l, j * l + y>>
        /\ t = <<Rows(f) * l, Col(f, j + 1) * l + y>>
  BY <1>5
<1> DEFINE c == Col(b, i + 1)
<1>7. c \in 0 .. Rows(b) - 1 /\ c \in Nat /\ i \in Nat /\ j \in Nat
  BY <1>2, MatrixType DEF Pos
<1> HIDE DEF c
<1>8. Rows(b) * k = Cols(f) * l /\ c * k + x = j * l + y
  BY <1>4, <1>6 DEF c
<1>9. k = n * l
  <2>1. n \in Nat /\ l \in Nat /\ k \in Nat /\ Rows(b) \in Nat /\ Rows(b) \in Pos
    BY <1>2 DEF Pos
  <2>2. Cols(f) * l = Rows(b) * (n * l) /\ n * l \in Nat
    BY <2>1, Times
  <2> QED BY <1>8, <2>1, <2>2, TimesPos
<1>10. PICK d \in 0 .. n - 1, e \in 0 .. l - 1 : x = d * l + e
  <2>1. x \in 0 .. n * l - 1
    BY <1>9
  <2> QED BY <1>2, <2>1, DigitsExist
<1>11. ASSUME NEW a \in Nat
       PROVE  a * k + x = (a * n + d) * l + e /\ a * k = (a * n) * l
  <2>1. d \in Nat /\ e \in Nat /\ l \in Nat /\ n \in Nat
    BY <1>2 DEF Pos
  <2>2. a * k = (a * n) * l
    BY <1>9, <2>1, Times
  <2>3. (a * n + d) * l = (a * n) * l + d * l /\ (a * n) * l \in Nat /\ d * l \in Nat
    BY <2>1, Times
  <2> QED BY <1>10, <2>1, <2>2, <2>3
<1>12. j = c * n + d /\ y = e
  <2>1. (c * n + d) * l + e = j * l + y
    BY <1>7, <1>8, <1>11
  <2>2. c * n + d \in Nat
    BY <1>2, <1>7 DEF Pos
  <2> QED BY <1>7, <2>1, <2>2, Digits
<1>13. i * n + d \in 0 .. Cols(g) - 1
  <2>1. n * Cols(b) = Cols(b) * n
    BY <1>2, Times DEF Pos
  <2> QED BY <1>1, <1>2, <2>1, DigitsBound
<1>14. s = <<Cols(g) * l, (i * n + d) * l + e>>
  <2>1. Cols(b) * k = Cols(g) * l
    <3>1. Cols(b) \in Nat /\ n \in Nat
      BY <1>2 DEF Pos
    <3>2. Cols(b) * k = (Cols(b) * n) * l /\ n * Cols(b) = Cols(b) * n
      BY <1>11, <3>1, Times
    <3> QED BY <1>1, <3>2
  <2> QED BY <1>4, <1>7, <1>11, <2>1
<1>15. t = <<Rows(g) * l, Col(g, (i * n + d) + 1) * l + e>>
  <2>1. Col(g, (i * n + d) + 1) = Col(f, j + 1)
    BY <1>1, <1>12 DEF c
  <2> QED BY <1>1, <1>6, <1>12, <2>1
<1>16. Acts(g, s, t)
  BY <1>13, <1>14, <1>15 DEF Acts
<1> QED BY <1>16 DEF g

(* A product acts as its second factor followed by its first.              *)
LEMMA ProductActs ==
  ASSUME NEW f, IsMatrix(f), NEW b, IsMatrix(b),
         NEW s, NEW u, NEW t, Acts(b, s, u), Acts(f, u, t)
  PROVE  Acts(Product(f, b), s, t)
<1>1. CASE \E n \in Powers : /\ Cols(f) = n * Rows(b) /\ Cols(f) \div Rows(b) = n
                            /\ Product(f, b) = Select(f, b)
  BY <1>1, SelectActs
<1>2. CASE \E n \in Powers : /\ Rows(b) = n * Cols(f)
                            /\ Product(f, b) = Select(Kron(f, Identity(n)), b)
  <2>1. PICK n \in Powers : /\ Rows(b) = n * Cols(f)
                            /\ Product(f, b) = Select(Kron(f, Identity(n)), b)
    BY <1>2
  <2> DEFINE g == Kron(f, Identity(n))
  <2>2. /\ IsMatrix(g) /\ Cols(g) = Cols(f) * n
        /\ Cols(g) = 1 * Cols(g) /\ Cols(g) \div Cols(g) = 1
    BY BlownUp
  <2>3. n \in Pos /\ Cols(f) \in Pos
    BY PowersArePos, MatrixType
  <2>4. n * Cols(f) = Cols(f) * n
    BY <2>3, Times DEF Pos
  <2>5. PICK k \in Pos : \E c : u = <<Cols(f) * n * k, c>>
    BY <2>1, <2>4 DEF Acts
  <2>6. PICK c : u = <<Cols(f) * n * k, c>>
    BY <2>5
  <2>7. Acts(g, u, t)
    BY <2>6, BlownUpActs
  <2> HIDE DEF g
  <2>8. Cols(g) = Rows(b)
    BY <2>1, <2>2, <2>4
  <2>9. Acts(Select(g, b), s, t)
    BY <2>2, <2>7, <2>8, PowersClosed, SelectActs
  <2> QED BY <2>1, <2>9 DEF g
<1> QED BY <1>1, <1>2, ProductCases

-----------------------------------------------------------------------------
(* The states there are.                                                   *)
States == {s \in Pos \X Nat : s[2] < s[1]}

(* A state is a width and a position below it.                             *)
LEMMA StateFacts ==
  /\ \A w \in Pos : \A v \in 0 .. w - 1 : <<w, v>> \in States
  /\ \A s \in States : s[1] \in Pos /\ s[2] \in 0 .. s[1] - 1 /\ s = <<s[1], s[2]>>
<1>1. ASSUME NEW w \in Pos, NEW v \in 0 .. w - 1 PROVE <<w, v>> \in States
  BY DEF States, Pos
<1>2. ASSUME NEW s \in States
      PROVE  s[1] \in Pos /\ s[2] \in 0 .. s[1] - 1 /\ s = <<s[1], s[2]>>
  BY DEF States, Pos
<1> QED BY <1>1, <1>2

(* Matrices take states to states.                                         *)
LEMMA ActsType ==
  ASSUME NEW m, IsMatrix(m), NEW s, NEW t, Acts(m, s, t)
  PROVE  s \in States /\ t \in States
<1>1. PICK k \in Pos, i \in 0 .. Cols(m) - 1 : \E x \in 0 .. k - 1 :
        /\ s = <<Cols(m) * k, i * k + x>>
        /\ t = <<Rows(m) * k, Col(m, i + 1) * k + x>>
  BY DEF Acts
<1>2. PICK x \in 0 .. k - 1 :
        /\ s = <<Cols(m) * k, i * k + x>>
        /\ t = <<Rows(m) * k, Col(m, i + 1) * k + x>>
  BY <1>1
<1>3. Rows(m) \in Pos /\ Cols(m) \in Pos /\ Col(m, i + 1) \in 0 .. Rows(m) - 1
  BY MatrixType
<1>4. Cols(m) * k \in Pos /\ Rows(m) * k \in Pos
  BY <1>3, TimesPos
<1>5. i * k + x \in 0 .. Cols(m) * k - 1 /\ Col(m, i + 1) * k + x \in 0 .. Rows(m) * k - 1
  BY <1>3, DigitsBound
<1> QED BY <1>2, <1>4, <1>5, StateFacts

(* A variable puts its value in front.                                     *)
Push(b, s) == <<2 * s[1], (1 - b) * s[1] + s[2]>>

(* Putting a bit on a state.                                               *)
LEMMA PushFacts ==
  ASSUME NEW b \in 0 .. 1, NEW w \in Pos, NEW v \in 0 .. w - 1
  PROVE  /\ Push(b, <<w, v>>) = <<2 * w, (1 - b) * w + v>>
         /\ Push(b, <<w, v>>) \in States
         /\ (1 - b) * w + v \in 0 .. 2 * w - 1
<1>1. Push(b, <<w, v>>) = <<2 * w, (1 - b) * w + v>>
  BY DEF Push
<1>2. 2 \in Pos /\ 1 - b \in 0 .. 2 - 1
  BY DEF Pos
<1>3. 2 * w \in Pos /\ (1 - b) * w + v \in 0 .. 2 * w - 1
  BY <1>2, TimesPos, DigitsBound
<1> QED BY <1>1, <1>3, StateFacts

(* The vector of a value puts it on the state.                             *)
LEMMA VectorActs ==
  ASSUME NEW b \in 0 .. 1, NEW s \in States, NEW t
  PROVE  Acts(Vector(b), s, t) <=> t = Push(b, s)
<1>1. Rows(Vector(b)) = 2 /\ Cols(Vector(b)) = 1 /\ Col(Vector(b), 1) = 1 - b
  BY VectorFacts
<1> DEFINE w == s[1]
           v == s[2]
<1>2. w \in Pos /\ v \in 0 .. w - 1 /\ s = <<w, v>> /\ w \in Nat
  BY StateFacts DEF Pos
<1> HIDE DEF w, v
<1>3. ASSUME Acts(Vector(b), s, t) PROVE t = Push(b, s)
  <2> DEFINE m == Vector(b)
  <2> HIDE DEF m
  <2>1. PICK k \in Pos, i \in 0 .. Cols(m) - 1 : \E x \in 0 .. k - 1 :
          s = <<Cols(m) * k, i * k + x>> /\ t = <<Rows(m) * k, Col(m, i + 1) * k + x>>
    BY <1>3 DEF Acts, m
  <2>2. PICK x \in 0 .. k - 1 :
          s = <<Cols(m) * k, i * k + x>> /\ t = <<Rows(m) * k, Col(m, i + 1) * k + x>>
    BY <2>1
  <2>0. Rows(m) = 2 /\ Cols(m) = 1 /\ Col(m, 1) = 1 - b
    BY <1>1 DEF m
  <2>3. i = 0 /\ 1 * k = k /\ 0 * k + x = x
    BY <2>0 DEF Pos
  <2>4. s = <<k, x>> /\ t = <<2 * k, (1 - b) * k + x>>
    BY <2>0, <2>2, <2>3
  <2> QED BY <2>4 DEF Push
<1>4. ASSUME t = Push(b, s) PROVE Acts(Vector(b), s, t)
  <2>1. s = <<1 * w, 0 * w + v>>
    BY <1>2
  <2>2. t = <<2 * w, Col(Vector(b), 0 + 1) * w + v>>
    BY <1>1, <1>2, <1>4 DEF Push
  <2>3. 0 \in 0 .. Cols(Vector(b)) - 1
    BY <1>1
  <2> QED BY <1>1, <1>2, <2>1, <2>2, <2>3 DEF Acts
<1> QED BY <1>3, <1>4

(* The Kronecker product of I2 and a matrix.                               *)
LEMMA KronI2 ==
  ASSUME NEW m, IsMatrix(m)
  PROVE  /\ IsMatrix(Kron(I2, m))
         /\ Rows(Kron(I2, m)) = 2 * Rows(m) /\ Cols(Kron(I2, m)) = 2 * Cols(m)
         /\ \A i \in 0 .. 1, j \in 0 .. Cols(m) - 1 :
              Col(Kron(I2, m), (i * Cols(m) + j) + 1) = i * Rows(m) + Col(m, j + 1)
<1>1. IsMatrix(I2) /\ Rows(I2) = 2 /\ Cols(I2) = 2 /\ \A i \in 0 .. 1 : Col(I2, i + 1) = i
  BY IdentityFacts, PowersClosed DEF I2
<1>0. IsMatrix(I2)
  BY <1>1
<1>2. /\ IsMatrix(Kron(I2, m))
      /\ Rows(Kron(I2, m)) = Rows(I2) * Rows(m) /\ Cols(Kron(I2, m)) = Cols(I2) * Cols(m)
  BY <1>0, KronFacts
<1>3. \A i \in 0 .. Cols(I2) - 1, j \in 0 .. Cols(m) - 1 :
        Col(Kron(I2, m), (i * Cols(m) + j) + 1) = Col(I2, i + 1) * Rows(m) + Col(m, j + 1)
  BY <1>0, KronFacts
<1>4. 0 .. Cols(I2) - 1 = 0 .. 1
  BY <1>1
<1> QED BY <1>1, <1>2, <1>3, <1>4

(* x M = (I2 (x) M) x: the value in front is not touched.                  *)
LEMMA KronActs ==
  ASSUME NEW m, IsMatrix(m), NEW b \in 0 .. 1, NEW s, NEW t, Acts(m, s, t)
  PROVE  Acts(Kron(I2, m), Push(b, s), Push(b, t))
<1> DEFINE g == Kron(I2, m)
<1>2. /\ Rows(g) = 2 * Rows(m) /\ Cols(g) = 2 * Cols(m)
      /\ \A i \in 0 .. 1, j \in 0 .. Cols(m) - 1 :
           Col(g, (i * Cols(m) + j) + 1) = i * Rows(m) + Col(m, j + 1)
  BY KronI2
<1> HIDE DEF g
<1>3. PICK k \in Pos, i \in 0 .. Cols(m) - 1 : \E x \in 0 .. k - 1 :
        /\ s = <<Cols(m) * k, i * k + x>>
        /\ t = <<Rows(m) * k, Col(m, i + 1) * k + x>>
  BY DEF Acts
<1>4. PICK x \in 0 .. k - 1 :
        /\ s = <<Cols(m) * k, i * k + x>>
        /\ t = <<Rows(m) * k, Col(m, i + 1) * k + x>>
  BY <1>3
<1> DEFINE e == 1 - b
           c == Col(m, i + 1)
<1>5. /\ Rows(m) \in Pos /\ Cols(m) \in Pos /\ Rows(m) \in Nat /\ Cols(m) \in Nat
      /\ e \in 0 .. 1 /\ c \in Nat /\ k \in Nat /\ i \in Nat /\ x \in Nat /\ e \in Nat
  BY MatrixType DEF Pos
<1> HIDE DEF c
<1>6. ASSUME NEW r \in Nat, NEW d \in Nat
      PROVE  /\ 2 * (r * k) = (2 * r) * k
             /\ e * (r * k) + (d * k + x) = (e * r + d) * k + x
  <2> HIDE DEF e
  <2>1. 2 * (r * k) = (2 * r) * k /\ e * (r * k) = (e * r) * k
    BY <1>5, Times
  <2>2. (e * r + d) * k = (e * r) * k + d * k /\ (e * r) * k \in Nat /\ d * k \in Nat
    BY <1>5, Times
  <2> QED BY <1>5, <2>1, <2>2
<1>7. Push(b, s) = <<Cols(g) * k, (e * Cols(m) + i) * k + x>>
  BY <1>2, <1>4, <1>5, <1>6 DEF Push
<1>8. Push(b, t) = <<Rows(g) * k, (e * Rows(m) + c) * k + x>>
  BY <1>2, <1>4, <1>5, <1>6 DEF Push, c
<1> HIDE DEF e
<1>9. Col(g, (e * Cols(m) + i) + 1) = e * Rows(m) + c
  BY <1>2, <1>5 DEF c
<1>10. e * Cols(m) + i \in 0 .. Cols(g) - 1
  <2>1. 2 \in Pos /\ e \in 0 .. 2 - 1
    BY <1>5 DEF Pos
  <2> QED BY <1>2, <1>5, <2>1, DigitsBound
<1>11. Acts(g, Push(b, s), Push(b, t))
  BY <1>7, <1>8, <1>9, <1>10 DEF Acts
<1> QED BY <1>11 DEF g

(* x x = Mr x.                                                             *)
LEMMA MrActs ==
  ASSUME NEW b \in 0 .. 1, NEW s \in States
  PROVE  Acts(Mr, Push(b, s), Push(b, Push(b, s)))
<1> DEFINE w == s[1]
           v == s[2]
           e == 1 - b
<1>1. w \in Pos /\ v \in 0 .. w - 1 /\ s = <<w, v>> /\ w \in Nat /\ v \in Nat
  BY StateFacts DEF Pos
<1>2. Push(b, s) = <<2 * w, e * w + v>>
  BY DEF Push
<1>3. Push(b, Push(b, s)) = <<2 * (2 * w), e * (2 * w) + (e * w + v)>>
  BY <1>2 DEF Push
<1>4. e \in 0 .. 1 /\ e \in Nat
  OBVIOUS
<1> HIDE DEF w, v, e
<1>5. 2 * (2 * w) = 4 * w /\ e * (2 * w) + (e * w + v) = (3 * e) * w + v
  BY <1>1, <1>4
<1>6. Rows(Mr) = 4 /\ Cols(Mr) = 2 /\ Col(Mr, e + 1) = 3 * e
  BY <1>4, MrFacts
<1> QED BY <1>1, <1>2, <1>3, <1>4, <1>5, <1>6, SMTT(30) DEF Acts

(* The swap matrix moves the value in front behind the t others, of which  *)
(* there are n combinations.                                               *)
LEMMA SwapActs ==
  ASSUME NEW n \in Powers, NEW j \in 0 .. n - 1, NEW b \in 0 .. 1,
         NEW w \in Pos, NEW v \in 0 .. w - 1
  PROVE  Acts(SwapMatrix(2, n), Push(b, <<n * w, j * w + v>>),
              <<n * (2 * w), j * (2 * w) + ((1 - b) * w + v)>>)
<1> DEFINE g == SwapMatrix(2, n)
           e == 1 - b
<1>1. /\ Rows(g) = 2 * n /\ Cols(g) = 2 * n
      /\ \A i \in 0 .. 1, l \in 0 .. n - 1 : Col(g, (i * n + l) + 1) = l * 2 + i
  BY SwapFacts
<1>2. n \in Pos /\ n \in Nat /\ e \in 0 .. 1 /\ e \in Nat /\ w \in Nat /\ v \in Nat /\ j \in Nat
  BY PowersArePos DEF Pos
<1>3. Push(b, <<n * w, j * w + v>>) = <<2 * (n * w), e * (n * w) + (j * w + v)>>
  BY DEF Push
<1> HIDE DEF g, e
<1>4. Col(g, (e * n + j) + 1) = j * 2 + e
  BY <1>1, <1>2
<1>5. 2 * (n * w) = (2 * n) * w /\ n * (2 * w) = (2 * n) * w
  BY <1>2, Times
<1>6. e * (n * w) + (j * w + v) = (e * n + j) * w + v
  <2>1. e * (n * w) = (e * n) * w
    BY <1>2, Times
  <2>2. (e * n + j) * w = (e * n) * w + j * w /\ (e * n) * w \in Nat /\ j * w \in Nat
    BY <1>2, Times
  <2> QED BY <1>2, <2>1, <2>2
<1>7. j * (2 * w) + (e * w + v) = (j * 2 + e) * w + v
  <2>1. j * (2 * w) = (j * 2) * w
    BY <1>2, Times
  <2>2. (j * 2 + e) * w = (j * 2) * w + e * w /\ (j * 2) * w \in Nat /\ e * w \in Nat
    BY <1>2, Times
  <2> QED BY <1>2, <2>1, <2>2
<1>8. e * n + j \in 0 .. Cols(g) - 1
  <2>1. 2 \in Pos /\ e \in 0 .. 2 - 1
    BY <1>2 DEF Pos
  <2> QED BY <1>1, <1>2, <2>1, DigitsBound
<1>9. Acts(g, <<(2 * n) * w, (e * n + j) * w + v>>, <<(2 * n) * w, (j * 2 + e) * w + v>>)
  BY <1>1, <1>4, <1>8 DEF Acts
<1> QED BY <1>3, <1>5, <1>6, <1>7, <1>9 DEF g, e

-----------------------------------------------------------------------------
(***************************************************************************)
(* Chains.  The last element acts first.  r[i] is the state that element i *)
(* finds.                                                                  *)
(***************************************************************************)
Mats == {m \in Seq(Nat) : IsMatrix(m)}
Terms(n) == Mats \cup {<<x>> : x \in 1 .. n}

Value(v, a) == IF IsVariable(v) THEN Vector(a[v[1]]) ELSE v

Run(r, c, a) ==
  /\ r \in [0 .. Len(c) -> States]
  /\ \A i \in 1 .. Len(c) : Acts(Value(c[i], a), r[i], r[i - 1])

Gives(c, a, s, t) == \E r : Run(r, c, a) /\ r[Len(c)] = s /\ r[0] = t

(* What stands in a chain, and the matrix it is worth.                     *)
LEMMA TermsFacts ==
  ASSUME NEW n \in Nat, NEW a \in [1 .. n -> 0 .. 1]
  PROVE  /\ Terms(n) \subseteq Seq(Nat)
         /\ \A v \in Mats : v \in Terms(n) /\ IsMatrix(v) /\ ~IsVariable(v) /\ Value(v, a) = v
         /\ \A x \in 1 .. n : /\ <<x>> \in Terms(n) /\ IsVariable(<<x>>)
                              /\ Value(<<x>>, a) = Vector(a[x]) /\ a[x] \in 0 .. 1
         /\ \A v \in Terms(n) : /\ v \in Mats \/ \E x \in 1 .. n : v = <<x>>
                                /\ IsMatrix(Value(v, a)) /\ Value(v, a) \in Mats
<1>1. ASSUME NEW v \in Mats
      PROVE  v \in Terms(n) /\ IsMatrix(v) /\ ~IsVariable(v) /\ Value(v, a) = v
  BY MatrixType DEF Mats, Terms, Value
<1>2. ASSUME NEW x \in 1 .. n
      PROVE  /\ <<x>> \in Terms(n) /\ IsVariable(<<x>>) /\ <<x>> \in Seq(Nat)
             /\ Value(<<x>>, a) = Vector(a[x]) /\ a[x] \in 0 .. 1
             /\ Vector(a[x]) \in Mats
  <2>1. IsVariable(<<x>>) /\ <<x>> \in Seq(Nat) /\ <<x>>[1] = x
    BY DEF IsVariable
  <2>2. <<x>> \in Terms(n)
    BY DEF Terms
  <2>3. a[x] \in 0 .. 1
    OBVIOUS
  <2>4. Vector(a[x]) \in Mats
    BY <2>3, VectorFacts, MatrixType DEF Mats
  <2> QED BY <2>1, <2>2, <2>3, <2>4 DEF Value
<1>3. ASSUME NEW v \in Terms(n) PROVE v \in Mats \/ \E x \in 1 .. n : v = <<x>>
  BY DEF Terms
<1>4. ASSUME NEW v \in Terms(n) PROVE v \in Seq(Nat)
  BY <1>2, <1>3 DEF Mats
<1>5. \A v \in Mats : IsMatrix(v)
  BY DEF Mats
<1>6. ASSUME NEW v \in Terms(n) PROVE IsMatrix(Value(v, a)) /\ Value(v, a) \in Mats
  <2>1. CASE v \in Mats
    BY <1>1, <2>1
  <2>2. CASE \E x \in 1 .. n : v = <<x>>
    BY <1>2, <1>5, <2>2
  <2> QED BY <1>3, <2>1, <2>2
<1> QED BY <1>1, <1>2, <1>3, <1>4, <1>6

(* A chain of one element.                                                 *)
LEMMA GivesOne ==
  ASSUME NEW n \in Nat, NEW a \in [1 .. n -> 0 .. 1], NEW v \in Terms(n), NEW s, NEW t
  PROVE  Gives(<<v>>, a, s, t) <=> Acts(Value(v, a), s, t)
<1>1. Len(<<v>>) = 1 /\ <<v>>[1] = v
  OBVIOUS
<1>2. ASSUME Gives(<<v>>, a, s, t) PROVE Acts(Value(v, a), s, t)
  <2>1. PICK r : Run(r, <<v>>, a) /\ r[1] = s /\ r[0] = t
    BY <1>1, <1>2 DEF Gives
  <2>2. Acts(Value(<<v>>[1], a), r[1], r[1 - 1])
    BY <1>1, <2>1 DEF Run
  <2> QED BY <1>1, <2>1, <2>2
<1>3. ASSUME Acts(Value(v, a), s, t) PROVE Gives(<<v>>, a, s, t)
  <2> DEFINE r == [i \in 0 .. 1 |-> IF i = 0 THEN t ELSE s]
  <2>1. s \in States /\ t \in States
    BY <1>3, TermsFacts, ActsType
  <2>2. r \in [0 .. 1 -> States] /\ r[1] = s /\ r[0] = t
    BY <2>1
  <2> HIDE DEF r
  <2>3. ASSUME NEW i \in 1 .. 1 PROVE Acts(Value(<<v>>[i], a), r[i], r[i - 1])
    <3>1. i = 1 /\ i - 1 = 0
      OBVIOUS
    <3> QED BY <1>1, <1>3, <2>2, <3>1
  <2>4. Run(r, <<v>>, a)
    BY <1>1, <2>2, <2>3 DEF Run
  <2> QED BY <1>1, <2>2, <2>4 DEF Gives
<1> QED BY <1>2, <1>3

(* The places of a concatenation.                                          *)
LEMMA JoinFacts ==
  ASSUME NEW X, NEW s \in Seq(X), NEW t \in Seq(X)
  PROVE  /\ s \o t \in Seq(X) /\ Len(s \o t) = Len(s) + Len(t)
         /\ Len(s) \in Nat /\ Len(t) \in Nat
         /\ \A i \in 1 .. Len(s) : (s \o t)[i] = s[i]
         /\ \A i \in 1 .. Len(t) : (s \o t)[Len(s) + i] = t[i]
<1>1. s \o t \in Seq(X) /\ Len(s \o t) = Len(s) + Len(t) /\ Len(s) \in Nat /\ Len(t) \in Nat
  BY JoinLength
<1>2. \A i \in 1 .. Len(s) : (s \o t)[i] = s[i]
  OBVIOUS
<1>3. \A i \in 1 .. Len(t) : (s \o t)[Len(s) + i] = t[i]
  OBVIOUS
<1> QED BY <1>1, <1>2, <1>3

(* Sequences with the same elements are equal.                             *)
LEMMA SameSequence ==
  ASSUME NEW X, NEW s \in Seq(X), NEW t \in Seq(X), Len(s) = Len(t),
         \A i \in 1 .. Len(s) : s[i] = t[i]
  PROVE  s = t
<1>1. s = [i \in 1 .. Len(s) |-> s[i]] /\ t = [i \in 1 .. Len(t) |-> t[i]]
  OBVIOUS
<1> QED BY <1>1

(* What two chains do one after the other, their concatenation does.       *)
LEMMA GivesJoin ==
  ASSUME NEW X, NEW c \in Seq(X), NEW d \in Seq(X), NEW a,
         NEW s, NEW u, NEW t, Gives(d, a, s, u), Gives(c, a, u, t)
  PROVE  Gives(c \o d, a, s, t)
<1> DEFINE m == Len(c)
           n == Len(d)
           e == c \o d
<1>1. /\ m \in Nat /\ n \in Nat /\ e \in Seq(X) /\ Len(e) = m + n
      /\ \A i \in 1 .. m : e[i] = c[i]
      /\ \A i \in 1 .. n : e[m + i] = d[i]
  BY JoinFacts
<1>2. PICK q : Run(q, d, a) /\ q[n] = s /\ q[0] = u
  BY DEF Gives
<1>3. PICK r : Run(r, c, a) /\ r[m] = u /\ r[0] = t
  BY DEF Gives
<1>4. q \in [0 .. n -> States] /\ \A i \in 1 .. n : Acts(Value(d[i], a), q[i], q[i - 1])
  BY <1>2 DEF Run
<1>5. r \in [0 .. m -> States] /\ \A i \in 1 .. m : Acts(Value(c[i], a), r[i], r[i - 1])
  BY <1>3 DEF Run
<1> DEFINE w == [i \in 0 .. m + n |-> IF i <= m THEN r[i] ELSE q[i - m]]
<1> HIDE DEF m, n, e
<1>6. w \in [0 .. m + n -> States]
  <2> SUFFICES ASSUME NEW i \in 0 .. m + n PROVE (IF i <= m THEN r[i] ELSE q[i - m]) \in States
    OBVIOUS
  <2>1. CASE i <= m
    <3>1. i \in 0 .. m
      BY <1>1, <2>1
    <3> QED BY <1>5, <2>1, <3>1
  <2>2. CASE ~(i <= m)
    <3>1. i - m \in 0 .. n
      BY <1>1, <2>2
    <3> QED BY <1>4, <2>2, <3>1
  <2> QED BY <2>1, <2>2
<1>7. (\A i \in 0 .. m : w[i] = r[i]) /\ (\A i \in 0 .. n : w[m + i] = q[i])
  <2>1. ASSUME NEW i \in 0 .. m PROVE w[i] = r[i]
    BY <1>1
  <2>2. ASSUME NEW i \in 0 .. n PROVE w[m + i] = q[i]
    <3>1. m + i \in 0 .. m + n /\ (m + i) - m = i
      BY <1>1
    <3>2. CASE i = 0
      <4>1. w[m + i] = r[m]
        BY <1>1, <3>2
      <4> QED BY <1>2, <1>3, <3>2, <4>1
    <3>3. CASE i # 0
      <4>1. ~(m + i <= m)
        BY <1>1, <3>3
      <4> QED BY <3>1, <4>1
    <3> QED BY <3>2, <3>3
  <2> QED BY <2>1, <2>2
<1> HIDE DEF w
<1>8. ASSUME NEW i \in 1 .. m + n PROVE Acts(Value(e[i], a), w[i], w[i - 1])
  <2>1. CASE i \in 1 .. m
    <3>1. i \in 0 .. m /\ i - 1 \in 0 .. m
      BY <1>1, <2>1
    <3>2. w[i] = r[i] /\ w[i - 1] = r[i - 1] /\ e[i] = c[i]
      BY <1>1, <1>7, <2>1, <3>1
    <3> QED BY <1>5, <2>1, <3>2
  <2>2. CASE i \notin 1 .. m
    <3>1. PICK j \in 1 .. n : i = m + j
      <4>1. i - m \in 1 .. n /\ i = m + (i - m)
        BY <1>1, <2>2
      <4> QED BY <4>1
    <3>2. j \in 0 .. n /\ j - 1 \in 0 .. n /\ i - 1 = m + (j - 1)
      BY <1>1, <3>1
    <3>3. w[i] = q[j] /\ w[i - 1] = q[j - 1] /\ e[i] = d[j]
      BY <1>1, <1>7, <3>1, <3>2
    <3> QED BY <1>4, <3>3
  <2> QED BY <2>1, <2>2
<1>9. Run(w, e, a)
  BY <1>1, <1>6, <1>8 DEF Run
<1>10. w[0] = t /\ w[Len(e)] = s
  <2>1. 0 \in 0 .. m /\ n \in 0 .. n
    BY <1>1
  <2>2. w[0] = r[0] /\ w[m + n] = q[n]
    BY <1>7, <2>1
  <2> QED BY <1>1, <1>2, <1>3, <2>2
<1>11. Gives(e, a, s, t)
  BY <1>9, <1>10 DEF Gives
<1> QED BY <1>11 DEF e

(* And what a chain does, its parts do.                                    *)
LEMMA GivesSplit ==
  ASSUME NEW X, NEW c \in Seq(X), NEW d \in Seq(X), NEW a,
         NEW s, NEW t, Gives(c \o d, a, s, t)
  PROVE  \E u \in States : Gives(d, a, s, u) /\ Gives(c, a, u, t)
<1> DEFINE m == Len(c)
           n == Len(d)
           e == c \o d
<1>1. /\ m \in Nat /\ n \in Nat /\ e \in Seq(X) /\ Len(e) = m + n
      /\ \A i \in 1 .. m : e[i] = c[i]
      /\ \A i \in 1 .. n : e[m + i] = d[i]
  BY JoinFacts
<1>2. Gives(e, a, s, t)
  OBVIOUS
<1> HIDE DEF e
<1>3. PICK w : Run(w, e, a) /\ w[m + n] = s /\ w[0] = t
  BY <1>1, <1>2 DEF Gives
<1>4. w \in [0 .. m + n -> States] /\ \A i \in 1 .. m + n : Acts(Value(e[i], a), w[i], w[i - 1])
  BY <1>1, <1>3 DEF Run
<1> DEFINE r == [i \in 0 .. m |-> w[i]]
           q == [i \in 0 .. n |-> w[m + i]]
<1>5. Run(r, c, a) /\ r[m] = w[m] /\ r[0] = t
  <2>1. r \in [0 .. m -> States]
    <3>1. \A i \in 0 .. m : i \in 0 .. m + n
      BY <1>1
    <3> HIDE DEF m, n
    <3> QED BY <1>4, <3>1
  <2>2. ASSUME NEW i \in 1 .. m PROVE Acts(Value(c[i], a), r[i], r[i - 1])
    <3>1. i \in 0 .. m /\ i - 1 \in 0 .. m /\ i \in 1 .. m + n
      BY <1>1
    <3>2. Acts(Value(e[i], a), w[i], w[i - 1]) /\ e[i] = c[i]
      BY <1>1, <1>4, <3>1
    <3> QED BY <3>1, <3>2
  <2>3. r[m] = w[m] /\ r[0] = w[0]
    <3>1. m \in 0 .. m /\ 0 \in 0 .. m
      BY <1>1
    <3> QED BY <3>1
  <2> HIDE DEF r
  <2> QED BY <1>3, <2>1, <2>2, <2>3 DEF Run
<1>6. Run(q, d, a) /\ q[n] = s /\ q[0] = w[m]
  <2>1. q \in [0 .. n -> States]
    <3>1. \A i \in 0 .. n : m + i \in 0 .. m + n
      BY <1>1
    <3> HIDE DEF m, n
    <3> QED BY <1>4, <3>1
  <2>2. ASSUME NEW i \in 1 .. n PROVE Acts(Value(d[i], a), q[i], q[i - 1])
    <3>1. i \in 0 .. n /\ i - 1 \in 0 .. n /\ m + i \in 1 .. m + n /\ (m + i) - 1 = m + (i - 1)
      BY <1>1
    <3>2. Acts(Value(e[m + i], a), w[m + i], w[(m + i) - 1]) /\ e[m + i] = d[i]
      BY <1>1, <1>4, <3>1
    <3>3. q[i] = w[m + i] /\ q[i - 1] = w[m + (i - 1)]
      BY <3>1
    <3> HIDE DEF q
    <3> QED BY <3>1, <3>2, <3>3
  <2>3. q[n] = w[m + n] /\ q[0] = w[m]
    <3>1. n \in 0 .. n /\ 0 \in 0 .. n /\ m + 0 = m
      BY <1>1
    <3> QED BY <3>1
  <2> HIDE DEF q
  <2> QED BY <1>3, <2>1, <2>2, <2>3 DEF Run
<1>7. w[m] \in States
  <2>1. m \in 0 .. m + n
    BY <1>1
  <2> HIDE DEF m, n
  <2> QED BY <1>4, <2>1
<1> HIDE DEF r, q
<1> QED BY <1>5, <1>6, <1>7 DEF Gives

-----------------------------------------------------------------------------
(* matrix_chain_mul multiplies one matrix after the other.                 *)
LEMMA ProductRun ==
  ASSUME NEW c \in Seq(Mats), c # <<>>
  PROVE  \E q \in [0 .. Len(c) - 1 -> Mats] :
           /\ q[0] = c[1]
           /\ \A i \in 1 .. Len(c) - 1 : q[i] = Product(q[i - 1], c[i + 1])
           /\ ProductOf(c) = q[Len(c) - 1]
<1> DEFINE n == Len(c) - 1
           s == Tail(c)
           D == Mats
           base == c[1]
           F == [z \in D \X (1 .. n) |-> Product(z[1], s[z[2]])]
           Eq(h) == h = [t \in SUBSET (1 .. n) |->
                           IF t = {} THEN base
                           ELSE Product(h[t \ {Max(t)}], s[Max(t)])]
           h == CHOOSE g : Eq(g)
<1>1. /\ n \in Nat /\ Len(c) \in Nat /\ base \in D
      /\ s \in Seq(D) /\ Len(s) = n /\ DOMAIN s = 1 .. n
      /\ \A i \in 1 .. n : s[i] = c[i + 1] /\ s[i] \in D
  <2> DEFINE X == Mats
  <2>1. c \in Seq(X)
    OBVIOUS
  <2> HIDE DEF X
  <2>2. Len(c) \in Nat /\ Len(c) > 0
    BY <2>1
  <2>3. s \in Seq(X) /\ Len(s) = n /\ DOMAIN s = 1 .. n /\ c[1] \in X
    BY <2>1, <2>2
  <2>4. \A i \in 1 .. n : s[i] = c[i + 1] /\ s[i] \in X
    BY <2>1, <2>2
  <2> QED BY <2>2, <2>3, <2>4 DEF X
<1>2. \A f, b \in D : Product(f, b) \in D
  <2>1. \A f, b \in Mats : IsMatrix(Product(f, b))
    BY ProductFacts DEF Mats
  <2> QED BY <2>1, MatrixType DEF Mats
<1> HIDE DEF D
<1>3. F \in [D \X (1 .. n) -> D]
  BY <1>1, <1>2
<1>4. PICK g \in [SUBSET (1 .. n) -> D] : FoldEquation(g, n, F, base)
  <2> HIDE DEF F, n, base
  <2> QED BY <1>1, <1>3, FoldExists
<1> HIDE DEF base
<1>5. Eq(g)
  <2> SUFFICES ASSUME NEW t \in SUBSET (1 .. n)
               PROVE  g[t] = IF t = {} THEN base ELSE Product(g[t \ {Max(t)}], s[Max(t)])
    BY <1>4
  <2>1. CASE t = {}
    BY <1>4, <2>1 DEF FoldEquation
  <2>2. CASE t # {}
    <3>1. Max(t) \in 1 .. n
      BY <1>1, <2>2, MaxOfInterval
    <3>2. g[t \ {Max(t)}] \in D
      BY <1>4
    <3>3. g[t] = F[<<g[t \ {Max(t)}], Max(t)>>]
      BY <1>4, <2>2 DEF FoldEquation
    <3> QED BY <2>2, <3>1, <3>2, <3>3
  <2> QED BY <2>1, <2>2
<1>6. Eq(h)
  <2> HIDE DEF Eq
  <2> QED BY <1>5
<1>7. ProductOf(c) = h[1 .. n]
  BY <1>1 DEF ProductOf, FoldLeft, MapThenFoldSet, base
<1> HIDE DEF h
<1>8. \A t \in SUBSET (1 .. n) : h[t] \in D
  <2>1. h[{}] \in D
    BY <1>1, <1>6
  <2>2. ASSUME NEW t \in SUBSET (1 .. n), t # {}, h[t \ {Max(t)}] \in D
        PROVE  h[t] \in D
    <3>1. Max(t) \in 1 .. n
      BY <1>1, <2>2, MaxOfInterval
    <3>2. h[t] = Product(h[t \ {Max(t)}], s[Max(t)])
      BY <1>6, <2>2
    <3> QED BY <1>1, <1>2, <2>2, <3>1, <3>2
  <2> QED BY <1>1, <2>1, <2>2, FoldRange
<1>9. FoldEquation(h, n, F, base)
  <2> SUFFICES ASSUME NEW t \in SUBSET (1 .. n)
               PROVE  h[t] = IF t = {} THEN base ELSE F[<<h[t \ {Max(t)}], Max(t)>>]
    BY DEF FoldEquation
  <2>1. CASE t = {}
    BY <1>6, <2>1
  <2>2. CASE t # {}
    <3>1. Max(t) \in 1 .. n /\ h[t \ {Max(t)}] \in D
      BY <1>1, <1>8, <2>2, MaxOfInterval
    <3> QED BY <1>6, <2>2, <3>1
  <2> QED BY <2>1, <2>2
<1>10. /\ h[1 .. 0] = base
       /\ \A i \in 1 .. n : h[1 .. i] = F[<<h[1 .. i - 1], i>>]
  <2> HIDE DEF n, F
  <2> QED BY <1>1, <1>9, FoldRun
<1> DEFINE q == [i \in 0 .. n |-> h[1 .. i]]
<1>11. \A i \in 0 .. n : h[1 .. i] \in D
  BY <1>8
<1>12. ASSUME NEW i \in 1 .. n PROVE q[i] = Product(q[i - 1], c[i + 1])
  <2>1. h[1 .. i - 1] \in D
    BY <1>11
  <2>2. q[i] = h[1 .. i] /\ q[i - 1] = h[1 .. i - 1]
    OBVIOUS
  <2>3. F[<<h[1 .. i - 1], i>>] = Product(h[1 .. i - 1], s[i])
    <3> DEFINE y == h[1 .. i - 1]
    <3> HIDE DEF y
    <3> QED BY <2>1
  <2> QED BY <1>1, <1>10, <2>2, <2>3
<1>13. q \in [0 .. n -> D] /\ q[0] = base /\ q[n] = h[1 .. n]
  BY <1>1, <1>10, <1>11
<1> HIDE DEF q
<1> QED BY <1>7, <1>12, <1>13 DEF D, base

(* The product does what the chain does.                                   *)
LEMMA ProductOfFacts ==
  ASSUME NEW c \in Seq(Mats), c # <<>>
  PROVE  /\ ProductOf(c) \in Mats /\ IsMatrix(ProductOf(c))
         /\ Rows(ProductOf(c)) >= Rows(c[1])
         /\ \A n \in Nat : \A a \in [1 .. n -> 0 .. 1] : \A s, t :
              Gives(c, a, s, t) => Acts(ProductOf(c), s, t)
<1> DEFINE m == Len(c) - 1
<1>1. PICK q \in [0 .. m -> Mats] :
           /\ q[0] = c[1]
           /\ \A i \in 1 .. m : q[i] = Product(q[i - 1], c[i + 1])
           /\ ProductOf(c) = q[m]
  BY ProductRun
<1>2. m \in Nat /\ Len(c) = m + 1
  <2> DEFINE X == Mats
  <2>1. c \in Seq(X)
    OBVIOUS
  <2> HIDE DEF X
  <2> QED BY <2>1
<1>3. \A i \in 1 .. m + 1 : c[i] \in Mats
  <2> DEFINE X == Mats
  <2>1. c \in Seq(X)
    OBVIOUS
  <2> HIDE DEF X, m
  <2>2. \A i \in 1 .. m + 1 : c[i] \in X
    BY <1>2, <2>1
  <2> QED BY <2>2 DEF X
<1> HIDE DEF m
<1>4. \A f \in Mats : IsMatrix(f) /\ Rows(f) \in Nat
  BY MatrixType DEF Mats, Pos
<1>5. \A i \in 0 .. m : q[i] \in Mats
  BY <1>1
<1>6. Rows(q[m]) >= Rows(c[1])
  <2> DEFINE T == {i \in 0 .. m : Rows(q[i]) >= Rows(c[1])}
  <2>1. 0 \in T
    <3>1. 0 \in 0 .. m /\ Rows(q[0]) \in Nat
      BY <1>2, <1>4, <1>5
    <3> QED BY <1>1, <3>1
  <2>2. ASSUME NEW i \in 0 .. m - 1, i \in T PROVE i + 1 \in T
    <3>1. i \in 0 .. m /\ i + 1 \in 1 .. m /\ i + 1 \in 0 .. m /\ (i + 1) - 1 = i /\ 1 \in 1 .. m + 1
          /\ (i + 1) + 1 \in 1 .. m + 1
      BY <1>2
    <3>2. q[i + 1] = Product(q[i], c[(i + 1) + 1])
      BY <1>1, <3>1
    <3>3. IsMatrix(q[i]) /\ IsMatrix(c[(i + 1) + 1])
      BY <1>3, <1>4, <1>5, <3>1
    <3>4. Rows(q[i + 1]) >= Rows(q[i])
      BY <3>2, <3>3, ProductFacts
    <3>5. Rows(q[i]) >= Rows(c[1])
      BY <2>2
    <3>6. Rows(q[i + 1]) \in Nat /\ Rows(q[i]) \in Nat /\ Rows(c[1]) \in Nat
      BY <1>3, <1>4, <1>5, <3>1
    <3>7. Rows(q[i + 1]) >= Rows(c[1])
      BY <3>4, <3>5, <3>6
    <3> QED BY <3>1, <3>7
  <2> HIDE DEF T
  <2>3. \A i \in 0 .. m : i \in T
    BY <1>2, <2>1, <2>2, UpTo
  <2>4. m \in 0 .. m
    BY <1>2
  <2> QED BY <2>3, <2>4 DEF T
<1>7. ASSUME NEW n \in Nat, NEW a \in [1 .. n -> 0 .. 1], NEW s, NEW t, Gives(c, a, s, t)
      PROVE  Acts(q[m], s, t)
  <2>1. PICK r : Run(r, c, a) /\ r[m + 1] = s /\ r[0] = t
    BY <1>2, <1>7 DEF Gives
  <2>2. \A i \in 1 .. m + 1 : Acts(c[i], r[i], r[i - 1])
    <3>1. \A i \in 1 .. m + 1 : Acts(Value(c[i], a), r[i], r[i - 1])
      BY <1>2, <2>1 DEF Run
    <3>2. \A i \in 1 .. m + 1 : Value(c[i], a) = c[i]
      BY <1>3, TermsFacts
    <3> QED BY <3>1, <3>2
  <2> DEFINE T == {i \in 0 .. m : Acts(q[i], r[i + 1], r[0])}
  <2>3. 0 \in T
    <3>1. 0 \in 0 .. m /\ 1 \in 1 .. m + 1 /\ 1 - 1 = 0 /\ 0 + 1 = 1
      BY <1>2
    <3>2. Acts(c[1], r[1], r[1 - 1])
      BY <2>2, <3>1
    <3> QED BY <1>1, <3>1, <3>2
  <2>4. ASSUME NEW i \in 0 .. m - 1, i \in T PROVE i + 1 \in T
    <3>1. i \in 0 .. m /\ i + 1 \in 1 .. m /\ i + 1 \in 0 .. m /\ (i + 1) - 1 = i
          /\ (i + 1) + 1 \in 1 .. m + 1 /\ ((i + 1) + 1) - 1 = i + 1
      BY <1>2
    <3>2. q[i + 1] = Product(q[i], c[(i + 1) + 1])
      BY <1>1, <3>1
    <3>3. IsMatrix(q[i]) /\ IsMatrix(c[(i + 1) + 1])
      BY <1>3, <1>4, <1>5, <3>1
    <3>4. Acts(q[i], r[i + 1], r[0])
      BY <2>4
    <3>5. Acts(c[(i + 1) + 1], r[(i + 1) + 1], r[i + 1])
      BY <2>2, <3>1
    <3>6. Acts(q[i + 1], r[(i + 1) + 1], r[0])
      BY <3>2, <3>3, <3>4, <3>5, ProductActs
    <3> QED BY <3>1, <3>6
  <2> HIDE DEF T
  <2>5. \A i \in 0 .. m : i \in T
    BY <1>2, <2>3, <2>4, UpTo
  <2>6. m \in 0 .. m
    BY <1>2
  <2> QED BY <2>1, <2>5, <2>6 DEF T
<1>8. q[m] \in Mats /\ IsMatrix(q[m])
  BY <1>2, <1>4, <1>5
<1> QED BY <1>1, <1>6, <1>7, <1>8

-----------------------------------------------------------------------------
(***************************************************************************)
(* Words of values.  The state a word w ends in has the complement of the  *)
(* number that w spells as its first digit.                                *)
(***************************************************************************)
Word == Seq(0 .. 1)

NumberRun(d, num) ==
  /\ num \in [0 .. Len(d) -> Nat] /\ num[0] = 0
  /\ \A i \in 1 .. Len(d) : num[i] = 2 * num[i - 1] + d[i]
  /\ Number(d) = num[Len(d)]

(* A word is a sequence of bits.                                           *)
LEMMA WordFacts ==
  \A d \in Word : Len(d) \in Nat /\ \A i \in 1 .. Len(d) : d[i] \in 0 .. 1
BY DEF Word

(* The recursion of Number has a solution.                                 *)
LEMMA NumberFacts ==
  ASSUME NEW d \in Word
  PROVE  \E num : NumberRun(d, num)
<1> DEFINE n == Len(d)
           F == [z \in Nat \X (1 .. n) |-> 2 * z[1] + d[z[2]]]
           Eq(h) == h = [i \in 0 .. n |-> IF i = 0 THEN 0 ELSE 2 * h[i - 1] + d[i]]
           num == CHOOSE h : Eq(h)
<1>1. n \in Nat /\ \A i \in 1 .. n : d[i] \in Nat
  BY WordFacts
<1>2. F \in StepsOver(Nat, n) /\ 0 \in Nat
  <2> SUFFICES ASSUME NEW z \in Nat \X (1 .. n) PROVE 2 * z[1] + d[z[2]] \in Nat
    BY DEF StepsOver
  <2> QED BY <1>1
<1>3. PICK h : Recursion(h, Nat, n, 0, F)
  <2> HIDE DEF F, n
  <2> QED BY <1>1, <1>2, RecursionExists
<1>4. h \in [0 .. n -> Nat] /\ h[0] = 0
  BY <1>3 DEF Recursion
<1>5. \A i \in 1 .. n : h[i] = 2 * h[i - 1] + d[i]
  <2> SUFFICES ASSUME NEW i \in 1 .. n PROVE h[i] = 2 * h[i - 1] + d[i]
    OBVIOUS
  <2>1. h[i] = F[<<h[i - 1], i>>]
    BY <1>3 DEF Recursion
  <2>2. h[i - 1] \in Nat
    BY <1>1, <1>4
  <2> QED BY <2>1, <2>2
<1>6. Eq(h)
  <2> HIDE DEF F, n
  <2>1. h = [i \in 0 .. n |-> h[i]]
    BY <1>4
  <2>2. \A i \in 0 .. n : h[i] = IF i = 0 THEN 0 ELSE 2 * h[i - 1] + d[i]
    BY <1>1, <1>4, <1>5
  <2> QED BY <2>1, <2>2
<1>7. Eq(num)
  <2> HIDE DEF Eq
  <2> QED BY <1>6
<1>8. Number(d) = num[n]
  BY DEF Number
<1> HIDE DEF num, F, n
<1>9. num[0] = 0 /\ \A i \in 1 .. n : num[i] = 2 * num[i - 1] + d[i]
  <2>1. 0 \in 0 .. n /\ \A i \in 1 .. n : i \in 0 .. n /\ i # 0
    BY <1>1
  <2>2. \A i \in 0 .. n : num[i] = IF i = 0 THEN 0 ELSE 2 * num[i - 1] + d[i]
    BY <1>7
  <2> QED BY <2>1, <2>2
<1>10. num \in [0 .. n -> Nat]
  <2> DEFINE T == {i \in 0 .. n : num[i] \in Nat}
  <2>1. 0 \in T
    BY <1>1, <1>9
  <2>2. ASSUME NEW i \in 0 .. n - 1, i \in T PROVE i + 1 \in T
    <3>1. i + 1 \in 1 .. n /\ (i + 1) - 1 = i /\ i + 1 \in 0 .. n
      BY <1>1
    <3>2. num[i + 1] = 2 * num[i] + d[i + 1] /\ d[i + 1] \in Nat /\ num[i] \in Nat
      BY <1>1, <1>9, <2>2, <3>1
    <3>3. num[i + 1] \in Nat
      BY <3>2
    <3> QED BY <3>1, <3>3
  <2> HIDE DEF T
  <2>3. \A i \in 0 .. n : i \in T
    BY <1>1, <2>1, <2>2, UpTo
  <2>4. \A i \in 0 .. n : num[i] \in Nat
    BY <2>3 DEF T
  <2>5. num = [i \in 0 .. n |-> num[i]]
    BY <1>7
  <2> QED BY <2>4, <2>5
<1> QED BY <1>8, <1>9, <1>10 DEF NumberRun, n

(* The number of i bits is less than 2 ^ i.                                *)
LEMMA NumberBound ==
  ASSUME NEW d \in Word, NEW num, NumberRun(d, num)
  PROVE  \A i \in 0 .. Len(d) : num[i] \in 0 .. 2 ^ i - 1
<1> DEFINE n == Len(d)
           T == {i \in 0 .. n : num[i] \in 0 .. 2 ^ i - 1}
<1>1. n \in Nat /\ \A i \in 1 .. n : d[i] \in 0 .. 1
  BY WordFacts
<1>2. num[0] = 0 /\ \A i \in 1 .. n : num[i] = 2 * num[i - 1] + d[i]
  BY DEF NumberRun
<1> HIDE DEF n
<1>3. 0 \in T
  BY <1>1, <1>2, PowerZero
<1>4. ASSUME NEW i \in 0 .. n - 1, i \in T PROVE i + 1 \in T
  <2>1. i + 1 \in 1 .. n /\ (i + 1) - 1 = i /\ i + 1 \in 0 .. n /\ i \in Nat
    BY <1>1
  <2>2. num[i + 1] = 2 * num[i] + d[i + 1] /\ d[i + 1] \in 0 .. 1
    BY <1>1, <1>2, <2>1
  <2>3. num[i] \in 0 .. 2 ^ i - 1
    BY <1>4
  <2>4. 2 ^ (i + 1) = 2 * 2 ^ i /\ 2 ^ i \in Nat
    BY <2>1, PowerDoubles, PowersPos DEF Pos
  <2> DEFINE u == 2 ^ i
             b == d[i + 1]
             y == num[i]
  <2>5. 2 * y + b \in 0 .. 2 * u - 1
    <3>1. u \in Nat /\ y \in 0 .. u - 1 /\ b \in 0 .. 1
      BY <2>2, <2>3, <2>4
    <3> HIDE DEF u, b, y
    <3> QED BY <3>1
  <2> QED BY <2>1, <2>2, <2>4, <2>5
<1> HIDE DEF T
<1>5. \A i \in 0 .. n : i \in T
  BY <1>1, <1>3, <1>4, UpTo
<1> QED BY <1>5 DEF T, n

Spelled(d) == 2 ^ Len(d) - 1 - Number(d)

(* What a word spells is below the power of its length.                    *)
LEMMA SpelledFacts ==
  ASSUME NEW d \in Word
  PROVE  Spelled(d) \in 0 .. 2 ^ Len(d) - 1 /\ Number(d) \in Nat
<1>1. PICK num : NumberRun(d, num)
  BY NumberFacts
<1>2. Len(d) \in Nat
  BY WordFacts
<1>3. num[Len(d)] \in 0 .. 2 ^ Len(d) - 1
  BY <1>1, <1>2, NumberBound
<1>4. Number(d) \in 0 .. 2 ^ Len(d) - 1
  BY <1>1, <1>3 DEF NumberRun
<1>5. 2 ^ Len(d) \in Nat
  BY <1>2, PowersPos DEF Pos
<1> QED BY <1>4, <1>5 DEF Spelled

WordState(d, s) == <<2 ^ Len(d) * s[1], Spelled(d) * s[1] + s[2]>>

(* c stands for the word d, d[i] being the value of c[i].                  *)
Spells(c, a, d) ==
  /\ d \in Word /\ Len(c) = Len(d)
  /\ \A i \in 1 .. Len(d) : Value(c[i], a) = Vector(d[i])

(* A run over a word.                                                      *)
LEMMA WordRun ==
  ASSUME NEW c, NEW a, NEW d, Spells(c, a, d), NEW r, Run(r, c, a)
  PROVE  r[0] = WordState(d, r[Len(d)])
<1> DEFINE n == Len(d)
<1>1. PICK num : NumberRun(d, num)
  BY NumberFacts DEF Spells
<1>2. /\ n \in Nat /\ d \in Word
      /\ \A i \in 1 .. n : d[i] \in 0 .. 1
      /\ \A i \in 0 .. n : num[i] \in 0 .. 2 ^ i - 1
  BY <1>1, WordFacts, NumberBound DEF Spells
<1>3. /\ num[0] = 0 /\ \A i \in 1 .. n : num[i] = 2 * num[i - 1] + d[i]
      /\ Number(d) = num[n]
  BY <1>1 DEF NumberRun
<1>4. \A i \in 0 .. n : r[i] \in States
  BY DEF Spells, Run
<1>5. ASSUME NEW i \in 1 .. n PROVE r[i - 1] = Push(d[i], r[i])
  <2>1. Acts(Value(c[i], a), r[i], r[i - 1])
    BY DEF Spells, Run
  <2>2. Value(c[i], a) = Vector(d[i])
    BY DEF Spells
  <2>3. r[i] \in States /\ d[i] \in 0 .. 1
    BY <1>2, <1>4
  <2> QED BY <2>1, <2>2, <2>3, VectorActs
<1> DEFINE Lead(i) == 2 ^ i - 1 - num[i]
           Good(i) == r[0] = <<2 ^ i * r[i][1], Lead(i) * r[i][1] + r[i][2]>>
           T == {i \in 0 .. n : Good(i)}
<1> HIDE DEF n
<1>6. 0 \in T
  <2>1. Lead(0) = 0 /\ 2 ^ 0 = 1
    BY <1>3, PowerZero
  <2>2. r[0][1] \in Pos /\ r[0][2] \in 0 .. r[0][1] - 1 /\ r[0] = <<r[0][1], r[0][2]>>
    <3>1. r[0] \in States
      BY <1>2, <1>4
    <3> QED BY <3>1, StateFacts
  <2> DEFINE w == r[0][1]
             v == r[0][2]
  <2>3. 1 * w = w /\ 0 * w + v = v
    <3>1. w \in Nat /\ v \in Nat
      BY <2>2 DEF Pos
    <3> HIDE DEF w, v
    <3> QED BY <3>1
  <2>4. r[0] = <<2 ^ 0 * w, Lead(0) * w + v>>
    BY <2>1, <2>2, <2>3
  <2> QED BY <1>2, <2>4
<1>7. ASSUME NEW i \in 0 .. n - 1, i \in T PROVE i + 1 \in T
  <2>1. i + 1 \in 1 .. n /\ (i + 1) - 1 = i /\ i + 1 \in 0 .. n /\ i \in Nat
    BY <1>2
  <2> DEFINE w == r[i + 1][1]
             v == r[i + 1][2]
             b == d[i + 1]
             u == 2 ^ i
             f == Lead(i)
  <2>2. w \in Nat /\ v \in Nat /\ b \in 0 .. 1 /\ u \in Nat /\ f \in Nat
    <3>1. w \in Pos /\ v \in 0 .. w - 1
      BY <1>4, <2>1, StateFacts
    <3>2. u \in Nat /\ num[i] \in 0 .. u - 1
      BY <1>2, <2>1, PowersPos DEF Pos
    <3>3. f \in Nat
      <4> DEFINE y == num[i]
      <4>1. f = u - 1 - y /\ y \in 0 .. u - 1
        BY <3>2
      <4> HIDE DEF f, u, y
      <4> QED BY <3>2, <4>1
    <3> QED BY <1>2, <2>1, <3>1, <3>2, <3>3 DEF Pos
  <2>3. r[i] = <<2 * w, (1 - b) * w + v>>
    BY <1>5, <2>1 DEF Push
  <2>4. r[0] = <<u * r[i][1], f * r[i][1] + r[i][2]>>
    <3>1. Good(i)
      <4> HIDE DEF Good
      <4> QED BY <1>7
    <3> QED BY <3>1
  <2>5. r[0] = <<u * (2 * w), f * (2 * w) + ((1 - b) * w + v)>>
    BY <2>3, <2>4
  <2>6. 2 ^ (i + 1) = 2 * u /\ Lead(i + 1) = 2 * f + (1 - b)
    <3>1. 2 ^ (i + 1) = 2 * u
      BY <2>1, PowerDoubles
    <3>2. num[i + 1] = 2 * num[i] + b
      BY <1>3, <2>1
    <3> DEFINE y == num[i]
    <3>3. f = u - 1 - y /\ y \in Nat
      BY <1>2, <2>1
    <3>4. Lead(i + 1) = 2 * u - 1 - (2 * y + b)
      BY <3>1, <3>2
    <3> HIDE DEF f, u, y, b, Lead
    <3>5. 2 * u - 1 - (2 * y + b) = 2 * f + (1 - b)
      BY <2>2, <3>3
    <3> QED BY <3>1, <3>4, <3>5
  <2> HIDE DEF w, v, b, u, f, Lead
  <2>7. u * (2 * w) = (2 * u) * w
    BY <2>2, Times
  <2>8. f * (2 * w) + ((1 - b) * w + v) = (2 * f + (1 - b)) * w + v
    <3>1. f * (2 * w) = (2 * f) * w
      BY <2>2, Times
    <3> DEFINE e == 1 - b
    <3>2. e \in Nat
      BY <2>2
    <3> HIDE DEF e
    <3>3. (2 * f + e) * w = (2 * f) * w + e * w /\ (2 * f) * w \in Nat /\ e * w \in Nat
      BY <2>2, <3>2, Times
    <3> QED BY <2>2, <3>1, <3>2, <3>3 DEF e
  <2>9. r[0] = <<2 ^ (i + 1) * w, Lead(i + 1) * w + v>>
    BY <2>5, <2>6, <2>7, <2>8
  <2> QED BY <2>1, <2>9 DEF w, v
<1> HIDE DEF T
<1>8. \A i \in 0 .. n : i \in T
  BY <1>2, <1>6, <1>7, UpTo
<1>9. Good(n)
  <2>1. n \in 0 .. n
    BY <1>2
  <2> QED BY <1>8, <2>1 DEF T
<1> QED BY <1>3, <1>9 DEF WordState, Spelled, n

(* A word leads from every state to the one it spells.                     *)
LEMMA WordGives ==
  ASSUME NEW c, NEW a, NEW d, Spells(c, a, d), NEW s \in States, NEW t
  PROVE  Gives(c, a, s, t) <=> t = WordState(d, s)
<1> DEFINE n == Len(d)
<1>1. n \in Nat /\ Len(c) = n /\ \A i \in 1 .. n : d[i] \in 0 .. 1
  BY WordFacts DEF Spells
<1>2. ASSUME Gives(c, a, s, t) PROVE t = WordState(d, s)
  BY <1>1, <1>2, WordRun DEF Gives
<1> DEFINE F == [z \in States \X (1 .. n) |-> Push(d[n + 1 - z[2]], z[1])]
<1>3. F \in StepsOver(States, n)
  <2> SUFFICES ASSUME NEW z \in States, NEW i \in 1 .. n PROVE Push(d[n + 1 - i], z) \in States
    BY DEF StepsOver
  <2>1. n + 1 - i \in 1 .. n
    BY <1>1
  <2>2. d[n + 1 - i] \in 0 .. 1
    BY <1>1, <2>1
  <2>3. z[1] \in Pos /\ z[2] \in 0 .. z[1] - 1 /\ z = <<z[1], z[2]>>
    BY StateFacts
  <2>4. Push(d[n + 1 - i], <<z[1], z[2]>>) \in States
    BY <2>2, <2>3, PushFacts
  <2> QED BY <2>3, <2>4
<1>4. PICK h : Recursion(h, States, n, s, F)
  <2> HIDE DEF F, n
  <2> QED BY <1>1, <1>3, RecursionExists
<1>5. h \in [0 .. n -> States] /\ h[0] = s
  BY <1>4 DEF Recursion
<1>6. ASSUME NEW i \in 1 .. n PROVE h[i] = Push(d[n + 1 - i], h[i - 1])
  <2>1. h[i] = F[<<h[i - 1], i>>]
    BY <1>4 DEF Recursion
  <2>2. h[i - 1] \in States
    BY <1>1, <1>5
  <2> QED BY <2>1, <2>2
<1> DEFINE r == [i \in 0 .. n |-> h[n - i]]
<1> HIDE DEF n, F
<1>7. r \in [0 .. n -> States] /\ r[n] = s
  <2>1. \A i \in 0 .. n : n - i \in 0 .. n
    BY <1>1
  <2>2. n \in 0 .. n /\ n - n = 0
    BY <1>1
  <2> QED BY <1>5, <2>1, <2>2
<1>8. ASSUME NEW i \in 1 .. n PROVE Acts(Value(c[i], a), r[i], r[i - 1])
  <2>1. /\ i \in 0 .. n /\ i - 1 \in 0 .. n /\ n + 1 - i \in 1 .. n
        /\ n - (i - 1) = n + 1 - i /\ (n + 1 - i) - 1 = n - i /\ n + 1 - (n + 1 - i) = i
    BY <1>1
  <2>2. h[n + 1 - i] = Push(d[i], h[n - i])
    BY <1>6, <2>1
  <2>3. r[i] = h[n - i] /\ r[i - 1] = h[n + 1 - i]
    BY <2>1
  <2>4. r[i] \in States /\ d[i] \in 0 .. 1
    BY <1>1, <1>7, <2>1
  <2> HIDE DEF r
  <2>5. Acts(Vector(d[i]), r[i], r[i - 1])
    BY <2>2, <2>3, <2>4, VectorActs
  <2> QED BY <2>5 DEF Spells, n
<1> HIDE DEF r
<1>9. Run(r, c, a)
  BY <1>1, <1>7, <1>8 DEF Run
<1>10. r[0] = WordState(d, s)
  BY <1>7, <1>9, WordRun DEF n
<1>11. Gives(c, a, s, WordState(d, s))
  BY <1>1, <1>7, <1>9, <1>10 DEF Gives
<1> QED BY <1>2, <1>11

(* A LUT looks the word up.                                                *)
LEMMA LutActs ==
  ASSUME NEW v \in Seq(Nat), IsLut(v), NEW d \in Word, Len(d) = Inputs(v), NEW s \in States
  PROVE  /\ Output(v, d) \in 0 .. 1
         /\ Acts(v, WordState(d, s), Push(Output(v, d), s))
<1> DEFINE i == Spelled(d)
           w == s[1]
           x == s[2]
           z == Col(v, i + 1)
<1>1. Rows(v) = 2 /\ 2 ^ Inputs(v) = Cols(v) /\ Cols(v) \in Pos /\ IsMatrix(v)
  BY LutFacts, MatrixType
<1>2. i \in 0 .. Cols(v) - 1 /\ i = Cols(v) - 1 - Number(d) /\ Number(d) \in Nat
  BY <1>1, SpelledFacts DEF Spelled
<1>3. z \in 0 .. 1
  BY <1>1, <1>2, MatrixType
<1>4. i + 1 = 2 ^ Inputs(v) - Number(d)
  <2> HIDE DEF i
  <2> QED BY <1>1, <1>2 DEF Pos
<1>5. Output(v, d) = 1 - z
  BY <1>4 DEF Output
<1>6. w \in Pos /\ x \in 0 .. w - 1
  BY StateFacts
<1>7. WordState(d, s) = <<Cols(v) * w, i * w + x>>
  BY <1>1 DEF WordState
<1>8. Push(Output(v, d), s) = <<Rows(v) * w, z * w + x>>
  <2>1. 1 - (1 - z) = z
    BY <1>3
  <2> QED BY <1>1, <1>5, <2>1 DEF Push
<1>9. 1 - z \in 0 .. 1
  BY <1>3
<1> HIDE DEF i, w, x
<1>10. Acts(v, WordState(d, s), Push(Output(v, d), s))
  BY <1>2, <1>6, <1>7, <1>8 DEF Acts
<1> QED BY <1>5, <1>9, <1>10

-----------------------------------------------------------------------------
(* The chain of the values of a word.                                      *)
Vectors(d) == [i \in 1 .. Len(d) |-> Vector(d[i])]

(* The vectors of the bits of a word spell it.                             *)
LEMMA VectorsFacts ==
  ASSUME NEW d \in Word, NEW a
  PROVE  Vectors(d) \in Seq(Mats) /\ Spells(Vectors(d), a, d)
<1>1. Len(d) \in Nat /\ \A i \in 1 .. Len(d) : d[i] \in 0 .. 1
  BY WordFacts
<1>2. \A b \in 0 .. 1 : Vector(b) \in Mats /\ Value(Vector(b), a) = Vector(b)
  BY VectorFacts, MatrixType DEF Mats, Value
<1>3. \A i \in 1 .. Len(d) : Vector(d[i]) \in Mats
  BY <1>1, <1>2
<1>4. Vectors(d) \in Seq(Mats) /\ Len(Vectors(d)) = Len(d)
  <2> DEFINE X == Mats
             n == Len(d)
  <2>1. n \in Nat /\ \A i \in 1 .. n : Vector(d[i]) \in X
    BY <1>1, <1>3
  <2>2. Vectors(d) = [i \in 1 .. n |-> Vector(d[i])]
    BY DEF Vectors
  <2> HIDE DEF X, n
  <2>3. Vectors(d) \in Seq(X) /\ Len(Vectors(d)) = n
    BY <2>1, <2>2
  <2> QED BY <2>3 DEF X, n
<1>5. \A i \in 1 .. Len(d) : Value(Vectors(d)[i], a) = Vector(d[i])
  BY <1>1, <1>2 DEF Vectors
<1> QED BY <1>4, <1>5 DEF Spells

(* A word leads to states only.                                            *)
LEMMA WordStateType ==
  ASSUME NEW d \in Word, NEW s \in States
  PROVE  WordState(d, s) \in States
<1>1. Gives(Vectors(d), <<>>, s, WordState(d, s))
  BY VectorsFacts, WordGives
<1>2. Vectors(d) \in Seq(Mats)
  BY VectorsFacts
<1>3. Len(Vectors(d)) \in Nat
  <2> DEFINE X == Mats
  <2>1. Vectors(d) \in Seq(X)
    BY <1>2
  <2> HIDE DEF X
  <2> QED BY <2>1
<1> QED BY <1>1, <1>3 DEF Gives, Run

(* A word is read in any two parts, the last first.                        *)
LEMMA WordStateJoin ==
  ASSUME NEW d \in Word, NEW e \in Word, NEW s \in States
  PROVE  d \o e \in Word /\ WordState(d \o e, s) = WordState(d, WordState(e, s))
<1>1. /\ d \o e \in Word /\ Len(d \o e) = Len(d) + Len(e)
      /\ Len(d) \in Nat /\ Len(e) \in Nat
      /\ \A i \in 1 .. Len(d) : (d \o e)[i] = d[i]
      /\ \A i \in 1 .. Len(e) : (d \o e)[Len(d) + i] = e[i]
  BY JoinFacts DEF Word
<1> DEFINE a == <<>>
           c == Vectors(d) \o Vectors(e)
           m == Len(d)
           n == Len(e)
<1>2. Spells(Vectors(d), a, d) /\ Spells(Vectors(e), a, e)
  BY VectorsFacts
<1>3. /\ Len(c) = m + n
      /\ \A i \in 1 .. m : c[i] = Vectors(d)[i]
      /\ \A i \in 1 .. n : c[m + i] = Vectors(e)[i]
  <2> DEFINE X == Mats
             y == Vectors(d)
             z == Vectors(e)
  <2>1. y \in Seq(X) /\ z \in Seq(X)
    BY VectorsFacts
  <2>2. Len(y) = m /\ Len(z) = n
    BY <1>2 DEF Spells
  <2> HIDE DEF X, m, n, y, z
  <2>3. /\ Len(y \o z) = Len(y) + Len(z)
        /\ \A i \in 1 .. Len(y) : (y \o z)[i] = y[i]
        /\ \A i \in 1 .. Len(z) : (y \o z)[Len(y) + i] = z[i]
    BY <2>1, JoinFacts
  <2>4. /\ Len(y \o z) = m + n
        /\ \A i \in 1 .. m : (y \o z)[i] = y[i]
        /\ \A i \in 1 .. n : (y \o z)[m + i] = z[i]
    BY <2>2, <2>3
  <2> QED BY <2>4 DEF y, z
<1>4. \A i \in 1 .. m + n : Value(c[i], a) = Vector((d \o e)[i])
  <2> SUFFICES ASSUME NEW i \in 1 .. m + n PROVE Value(c[i], a) = Vector((d \o e)[i])
    OBVIOUS
  <2> HIDE DEF a, c
  <2>1. CASE i \in 1 .. m
    <3>1. Value(Vectors(d)[i], a) = Vector(d[i])
      BY <1>2, <2>1 DEF Spells
    <3> QED BY <1>1, <1>3, <2>1, <3>1
  <2>2. CASE i \notin 1 .. m
    <3>1. PICK j \in 1 .. n : i = m + j
      <4>1. i - m \in 1 .. n /\ i = m + (i - m)
        BY <1>1, <2>2
      <4> QED BY <4>1
    <3>2. Value(Vectors(e)[j], a) = Vector(e[j])
      BY <1>2 DEF Spells
    <3>3. c[i] = Vectors(e)[j] /\ (d \o e)[i] = e[j]
      BY <1>1, <1>3, <3>1
    <3> QED BY <3>2, <3>3
  <2> QED BY <2>1, <2>2
<1>5. Spells(c, a, d \o e)
  BY <1>1, <1>3, <1>4 DEF Spells
<1>6. Gives(c, a, s, WordState(d, WordState(e, s)))
  <2>1. Gives(Vectors(e), a, s, WordState(e, s))
    BY <1>2, WordGives
  <2>2. Gives(Vectors(d), a, WordState(e, s), WordState(d, WordState(e, s)))
    BY <1>2, WordStateType, WordGives
  <2> DEFINE X == Mats
  <2>3. Vectors(d) \in Seq(X) /\ Vectors(e) \in Seq(X)
    BY VectorsFacts
  <2> HIDE DEF X, a
  <2> QED BY <2>1, <2>2, <2>3, GivesJoin
<1> HIDE DEF c, a
<1> QED BY <1>1, <1>5, <1>6, WordGives

(* A word of one bit.                                                      *)
LEMMA OneWord ==
  ASSUME NEW b \in 0 .. 1, NEW s \in States
  PROVE  <<b>> \in Word /\ WordState(<<b>>, s) = Push(b, s)
<1>1. <<b>> \in Word /\ Len(<<b>>) = 1 /\ <<b>>[1] = b
  BY DEF Word
<1> DEFINE a == [x \in 1 .. 0 |-> 0]
           v == Vector(b)
<1>2. v \in Mats /\ Value(v, a) = v
  BY VectorFacts, MatrixType DEF Mats, Value
<1>3. Len(<<v>>) = 1 /\ <<v>>[1] = v
  OBVIOUS
<1>4. Spells(<<v>>, a, <<b>>)
  BY <1>1, <1>2, <1>3 DEF Spells
<1>5. Acts(v, s, Push(b, s))
  BY VectorActs
<1>6. a \in [1 .. 0 -> 0 .. 1] /\ v \in Terms(0)
  BY <1>2 DEF Terms
<1> HIDE DEF v, a
<1>7. Gives(<<v>>, a, s, Push(b, s))
  BY <1>2, <1>5, <1>6, GivesOne
<1> QED BY <1>1, <1>4, <1>7, WordGives

-----------------------------------------------------------------------------
(***************************************************************************)
(* The tree a chain stands for                                             *)
(***************************************************************************)
Arity(v) == IF IsVariable(v) THEN 0 ELSE Inputs(v)

Formed(c, n) ==
  /\ c \in Seq(Seq(Nat)) /\ IsPrefixNotation(c)
  /\ \A i \in 1 .. Len(c) : IsLut(c[i]) \/ \E x \in 1 .. n : c[i] = <<x>>

(* The elements of a chain in prefix notation.                             *)
LEMMA FormedFacts ==
  ASSUME NEW n \in Nat, NEW a \in [1 .. n -> 0 .. 1], NEW c, Formed(c, n)
  PROVE  /\ Len(c) \in Nat
         /\ \A i \in 1 .. Len(c) :
              \/ /\ IsVariable(c[i]) /\ Arity(c[i]) = 0
                 /\ a[c[i][1]] \in 0 .. 1 /\ Value(c[i], a) = Vector(a[c[i][1]])
              \/ /\ ~IsVariable(c[i]) /\ c[i] \in Seq(Nat) /\ IsLut(c[i]) /\ Value(c[i], a) = c[i]
                 /\ Arity(c[i]) = Inputs(c[i]) /\ Inputs(c[i]) \in Nat
<1>1. Len(c) \in Nat /\ \A i \in 1 .. Len(c) : c[i] \in Seq(Nat)
  <2> DEFINE X == Seq(Nat)
  <2>1. c \in Seq(X)
    BY DEF Formed
  <2> HIDE DEF X
  <2>2. Len(c) \in Nat /\ \A i \in 1 .. Len(c) : c[i] \in X
    BY <2>1
  <2> QED BY <2>2 DEF X
<1> SUFFICES ASSUME NEW i \in 1 .. Len(c)
             PROVE  \/ /\ IsVariable(c[i]) /\ Arity(c[i]) = 0
                       /\ a[c[i][1]] \in 0 .. 1 /\ Value(c[i], a) = Vector(a[c[i][1]])
                    \/ /\ ~IsVariable(c[i]) /\ c[i] \in Seq(Nat) /\ IsLut(c[i])
                       /\ Value(c[i], a) = c[i]
                       /\ Arity(c[i]) = Inputs(c[i]) /\ Inputs(c[i]) \in Nat
  BY <1>1
<1>2. CASE IsLut(c[i])
  <2>1. c[i] \in Seq(Nat)
    BY <1>1
  <2>2. IsMatrix(c[i]) /\ Inputs(c[i]) \in Nat
    BY <1>2, <2>1, LutFacts
  <2>3. ~IsVariable(c[i])
    BY <2>2, MatrixType
  <2> QED BY <1>2, <2>1, <2>2, <2>3 DEF Arity, Value
<1>3. CASE \E x \in 1 .. n : c[i] = <<x>>
  <2>1. PICK x \in 1 .. n : c[i] = <<x>>
    BY <1>3
  <2>2. IsVariable(c[i]) /\ c[i][1] = x
    BY <2>1 DEF IsVariable
  <2>3. a[x] \in 0 .. 1
    OBVIOUS
  <2> QED BY <2>2, <2>3 DEF Arity, Value
<1> QED BY <1>2, <1>3 DEF Formed

(* trees[i] is the number of trees in the last i elements.                 *)
Balance(c, trees) ==
  /\ trees \in [0 .. Len(c) -> Int] /\ trees[0] = 0 /\ trees[Len(c)] = 1
  /\ \A i \in 1 .. Len(c) :
       /\ trees[i] = trees[i - 1] + 1 - Arity(c[Len(c) + 1 - i])
       /\ Arity(c[Len(c) + 1 - i]) <= trees[i - 1]

(* The recursion that counts the trees has a solution.                     *)
LEMMA BalanceExists ==
  ASSUME NEW n \in Nat, NEW c, Formed(c, n)
  PROVE  \E trees : Balance(c, trees)
<1> DEFINE m == Len(c)
           F == [z \in Int \X (1 .. m) |-> z[1] + 1 - Arity(c[m + 1 - z[2]])]
           Eq(h) == h = [i \in 0 .. m |-> IF i = 0 THEN 0
                                          ELSE h[i - 1] + 1 - Arity(c[m + 1 - i])]
           trees == CHOOSE h : Eq(h)
           a == [x \in 1 .. n |-> 0]
<1>1. m \in Nat /\ \A i \in 1 .. m : Arity(c[i]) \in Nat
  <2>1. a \in [1 .. n -> 0 .. 1]
    OBVIOUS
  <2> HIDE DEF a
  <2> QED BY <2>1, FormedFacts
<1>2. \A i \in 1 .. m : m + 1 - i \in 1 .. m /\ Arity(c[m + 1 - i]) \in Int
  <2> SUFFICES ASSUME NEW i \in 1 .. m
               PROVE  m + 1 - i \in 1 .. m /\ Arity(c[m + 1 - i]) \in Int
    OBVIOUS
  <2>1. m + 1 - i \in 1 .. m
    BY <1>1
  <2> QED BY <1>1, <2>1
<1> HIDE DEF m
<1>3. F \in StepsOver(Int, m) /\ 0 \in Int
  BY <1>2 DEF StepsOver
<1>4. PICK h : Recursion(h, Int, m, 0, F)
  <2> HIDE DEF F
  <2> QED BY <1>1, <1>3, RecursionExists
<1>5. h \in [0 .. m -> Int] /\ h[0] = 0
  BY <1>4 DEF Recursion
<1>6. \A i \in 1 .. m : h[i] = h[i - 1] + 1 - Arity(c[m + 1 - i])
  <2> SUFFICES ASSUME NEW i \in 1 .. m PROVE h[i] = h[i - 1] + 1 - Arity(c[m + 1 - i])
    OBVIOUS
  <2>1. h[i] = F[<<h[i - 1], i>>]
    BY <1>4 DEF Recursion
  <2>2. h[i - 1] \in Int
    BY <1>1, <1>5
  <2> QED BY <2>1, <2>2
<1>7. Eq(h)
  <2> HIDE DEF F
  <2>1. h = [i \in 0 .. m |-> h[i]]
    BY <1>5
  <2>2. \A i \in 0 .. m : h[i] = IF i = 0 THEN 0 ELSE h[i - 1] + 1 - Arity(c[m + 1 - i])
    BY <1>1, <1>5, <1>6
  <2> QED BY <2>1, <2>2
<1>8. Eq(trees)
  <2> HIDE DEF Eq
  <2> QED BY <1>7
<1>9. /\ trees[m] = 1
      /\ \A i \in 1 .. m : Arity(c[m + 1 - i]) <= trees[i - 1]
  BY DEF Formed, IsPrefixNotation, Arity, m
<1> HIDE DEF trees, F
<1>10. trees[0] = 0 /\ \A i \in 1 .. m : trees[i] = trees[i - 1] + 1 - Arity(c[m + 1 - i])
  <2>1. 0 \in 0 .. m /\ \A i \in 1 .. m : i \in 0 .. m /\ i # 0
    BY <1>1
  <2>2. \A i \in 0 .. m : trees[i] = IF i = 0 THEN 0
                                     ELSE trees[i - 1] + 1 - Arity(c[m + 1 - i])
    BY <1>8
  <2> QED BY <2>1, <2>2
<1>11. trees \in [0 .. m -> Int]
  <2> DEFINE T == {i \in 0 .. m : trees[i] \in Int}
  <2>1. 0 \in T
    BY <1>1, <1>10
  <2>2. ASSUME NEW i \in 0 .. m - 1, i \in T PROVE i + 1 \in T
    <3>1. i + 1 \in 1 .. m /\ (i + 1) - 1 = i /\ i + 1 \in 0 .. m
      BY <1>1
    <3>2. trees[i + 1] = trees[i] + 1 - Arity(c[m + 1 - (i + 1)])
      BY <1>10, <3>1
    <3>3. trees[i] \in Int /\ Arity(c[m + 1 - (i + 1)]) \in Int
      BY <1>2, <2>2, <3>1
    <3>4. trees[i + 1] \in Int
      BY <3>2, <3>3
    <3> QED BY <3>1, <3>4
  <2> HIDE DEF T
  <2>3. \A i \in 0 .. m : i \in T
    BY <1>1, <2>1, <2>2, UpTo
  <2>4. \A i \in 0 .. m : trees[i] \in Int
    BY <2>3 DEF T
  <2>5. trees = [i \in 0 .. m |-> trees[i]]
    BY <1>8
  <2> QED BY <2>4, <2>5
<1> QED BY <1>9, <1>10, <1>11 DEF Balance, m

-----------------------------------------------------------------------------
(* A word is cut in two.                                                   *)
LEMMA CutWord ==
  ASSUME NEW q \in Word, NEW k \in 0 .. Len(q)
  PROVE  /\ SubSeq(q, 1, k) \in Word /\ Len(SubSeq(q, 1, k)) = k
         /\ SubSeq(q, k + 1, Len(q)) \in Word /\ Len(SubSeq(q, k + 1, Len(q))) = Len(q) - k
         /\ q = SubSeq(q, 1, k) \o SubSeq(q, k + 1, Len(q))
<1> DEFINE X == 0 .. 1
           d == SubSeq(q, 1, k)
           e == SubSeq(q, k + 1, Len(q))
<1>1. q \in Seq(X)
  BY DEF Word
<1> HIDE DEF X
<1>2. d \in Seq(X) /\ Len(d) = k /\ \A i \in 1 .. k : d[i] = q[i]
  BY <1>1, FrontPartFacts
<1>3. e \in Seq(X) /\ Len(e) = Len(q) - k /\ \A i \in 1 .. Len(q) - k : e[i] = q[k + i]
  BY <1>1
<1> HIDE DEF d, e
<1>4. /\ d \o e \in Seq(X) /\ Len(d \o e) = k + (Len(q) - k)
      /\ \A i \in 1 .. k : (d \o e)[i] = d[i]
      /\ \A i \in 1 .. Len(q) - k : (d \o e)[k + i] = e[i]
  <2>0. d \in Seq(X) /\ e \in Seq(X)
    BY <1>2, <1>3
  <2>1. /\ d \o e \in Seq(X) /\ Len(d \o e) = Len(d) + Len(e)
        /\ \A i \in 1 .. Len(d) : (d \o e)[i] = d[i]
        /\ \A i \in 1 .. Len(e) : (d \o e)[Len(d) + i] = e[i]
    BY <2>0, JoinFacts
  <2>2. Len(d) = k /\ Len(e) = Len(q) - k
    BY <1>2, <1>3
  <2> DEFINE y == d \o e
             l == Len(q) - k
  <2> HIDE DEF y, l
  <2>3. /\ y \in Seq(X) /\ Len(y) = k + l
        /\ \A i \in 1 .. k : y[i] = d[i]
        /\ \A i \in 1 .. l : y[k + i] = e[i]
    BY <2>1, <2>2 DEF y, l
  <2> QED BY <2>3 DEF y, l
<1> DEFINE m == Len(q)
           y == d \o e
<1>5. m \in Nat /\ k \in 0 .. m
  BY <1>1
<1> HIDE DEF m
<1>6. Len(y) = m
  <2>1. k + (m - k) = m
    BY <1>5
  <2> QED BY <1>4, <2>1 DEF m
<1>7. ASSUME NEW i \in 1 .. m PROVE y[i] = q[i]
  <2>1. CASE i \in 1 .. k
    BY <1>2, <1>4, <2>1
  <2>2. CASE i \notin 1 .. k
    <3>1. PICK j \in 1 .. m - k : i = k + j
      <4>1. i - k \in 1 .. m - k /\ i = k + (i - k)
        BY <1>5, <2>2
      <4> QED BY <4>1
    <3>2. y[k + j] = e[j] /\ e[j] = q[k + j]
      BY <1>3, <1>4 DEF m
    <3> QED BY <3>1, <3>2
  <2> QED BY <2>1, <2>2
<1>8. y \in Seq(X)
  BY <1>4
<1> HIDE DEF y
<1>9. q = y
  BY <1>1, <1>6, <1>7, <1>8, SameSequence DEF m
<1> QED BY <1>2, <1>3, <1>9 DEF y, d, e, Word, X

(* The state of one.                                                       *)
Unit == <<1, 0>>

(* The state nothing was put on.                                           *)
LEMMA UnitFacts == Unit \in States
<1>1. 1 \in Pos /\ 0 \in 0 .. 1 - 1
  BY DEF Pos
<1> QED BY <1>1, StateFacts DEF Unit

(* What TreeValue does with the stack q when it reads v.                   *)
Step(v, a, q) ==
  IF IsVariable(v) THEN <<a[v[1]]>> \o q
  ELSE <<Output(v, SubSeq(q, 1, Inputs(v)))>> \o SubSeq(q, Inputs(v) + 1, Len(q))

(* A value is put on a word.                                               *)
LEMMA PutFacts ==
  ASSUME NEW b \in 0 .. 1, NEW q \in Word
  PROVE  /\ <<b>> \o q \in Word /\ Len(<<b>> \o q) = Len(q) + 1 /\ (<<b>> \o q)[1] = b
         /\ \A s \in States : WordState(<<b>> \o q, s) = Push(b, WordState(q, s))
<1>1. <<b>> \in Word /\ Len(<<b>>) = 1 /\ <<b>>[1] = b
  BY DEF Word
<1>2. /\ <<b>> \o q \in Word /\ Len(<<b>> \o q) = 1 + Len(q) /\ Len(q) \in Nat
      /\ (<<b>> \o q)[1] = b
  <2> DEFINE X == 0 .. 1
             y == <<b>>
  <2>1. y \in Seq(X) /\ q \in Seq(X)
    BY <1>1 DEF Word
  <2>2. Len(y) = 1 /\ y[1] = b
    OBVIOUS
  <2> HIDE DEF X, y
  <2>3. /\ y \o q \in Seq(X) /\ Len(y \o q) = Len(y) + Len(q) /\ Len(q) \in Nat
        /\ \A i \in 1 .. Len(y) : (y \o q)[i] = y[i]
    BY <2>1, JoinFacts
  <2>4. (y \o q)[1] = b
    <3>1. 1 \in 1 .. Len(y)
      BY <2>2
    <3> QED BY <2>2, <2>3, <3>1
  <2> QED BY <2>2, <2>3, <2>4 DEF X, y, Word
<1>3. ASSUME NEW s \in States PROVE WordState(<<b>> \o q, s) = Push(b, WordState(q, s))
  <2>1. WordState(q, s) \in States
    BY WordStateType
  <2>2. WordState(<<b>> \o q, s) = WordState(<<b>>, WordState(q, s))
    BY <1>1, WordStateJoin
  <2> QED BY <2>1, <2>2, OneWord
<1>4. Len(<<b>> \o q) = Len(q) + 1
  <2> DEFINE l == Len(q)
             y == Len(<<b>> \o q)
  <2>1. y = 1 + l /\ l \in Nat
    BY <1>2
  <2> HIDE DEF l, y
  <2>2. y = l + 1
    BY <2>1
  <2> QED BY <2>2 DEF l, y
<1> QED BY <1>2, <1>3, <1>4

(* The element of the chain does to the states what the tree does to the   *)
(* stack.                                                                  *)
LEMMA StepFacts ==
  ASSUME NEW n \in Nat, NEW a \in [1 .. n -> 0 .. 1], NEW c, Formed(c, n),
         NEW i \in 1 .. Len(c), NEW q \in Word, Arity(c[i]) <= Len(q)
  PROVE  /\ Step(c[i], a, q) \in Word
         /\ Len(Step(c[i], a, q)) = Len(q) + 1 - Arity(c[i])
         /\ \A s \in States :
              Acts(Value(c[i], a), WordState(q, s), WordState(Step(c[i], a, q), s))
<1> DEFINE v == c[i]
<1>0. Len(q) \in Nat
  BY WordFacts
<1>1. CASE IsVariable(v)
  <2> DEFINE b == a[v[1]]
  <2>1. b \in 0 .. 1 /\ Value(v, a) = Vector(b) /\ Arity(v) = 0
    BY <1>1, FormedFacts
  <2>2. Step(v, a, q) = <<b>> \o q
    BY <1>1 DEF Step
  <2> HIDE DEF b, v
  <2>3. /\ <<b>> \o q \in Word /\ Len(<<b>> \o q) = Len(q) + 1
        /\ \A s \in States : WordState(<<b>> \o q, s) = Push(b, WordState(q, s))
    BY <2>1, PutFacts
  <2>4. ASSUME NEW s \in States PROVE Acts(Vector(b), WordState(q, s), WordState(<<b>> \o q, s))
    <3>1. WordState(q, s) \in States
      BY WordStateType
    <3> QED BY <2>1, <2>3, <3>1, VectorActs
  <2>5. Len(<<b>> \o q) = Len(q) + 1 - Arity(v)
    <3> DEFINE l == Len(q)
               y == Len(<<b>> \o q)
               z == Arity(v)
    <3>1. y = l + 1 /\ l \in Nat /\ z = 0
      BY <1>0, <2>1, <2>3
    <3> HIDE DEF l, y, z
    <3>2. y = l + 1 - z
      BY <3>1
    <3> QED BY <3>2 DEF l, y, z
  <2> QED BY <2>1, <2>2, <2>3, <2>4, <2>5 DEF v
<1>2. CASE ~IsVariable(v)
  <2> DEFINE k == Inputs(v)
             d == SubSeq(q, 1, k)
             e == SubSeq(q, k + 1, Len(q))
             b == Output(v, d)
  <2>1. v \in Seq(Nat) /\ IsLut(v) /\ Value(v, a) = v /\ Arity(v) = k /\ k \in Nat
    BY <1>2, FormedFacts
  <2>2. k \in 0 .. Len(q)
    <3> DEFINE l == Len(q)
    <3>1. k \in Nat /\ l \in Nat /\ k <= l
      BY <1>0, <2>1
    <3> HIDE DEF k, l
    <3>2. k \in 0 .. l
      BY <3>1
    <3> QED BY <3>2 DEF l
  <2>3. Step(v, a, q) = <<b>> \o e
    BY <1>2 DEF Step
  <2> HIDE DEF v, k
  <2>4. d \in Word /\ Len(d) = k /\ e \in Word /\ Len(e) = Len(q) - k /\ q = d \o e
    BY <2>2, CutWord
  <2> HIDE DEF d, e
  <2>5. b \in 0 .. 1 /\ \A s \in States : Acts(v, WordState(d, s), Push(b, s))
    <3>1. Len(d) = Inputs(v)
      BY <2>4 DEF k
    <3>2. \E s : s \in States
      BY UnitFacts
    <3> QED BY <2>1, <2>4, <3>1, <3>2, LutActs
  <2> HIDE DEF b
  <2>6. /\ <<b>> \o e \in Word /\ Len(<<b>> \o e) = Len(e) + 1
        /\ \A s \in States : WordState(<<b>> \o e, s) = Push(b, WordState(e, s))
    BY <2>4, <2>5, PutFacts
  <2>7. ASSUME NEW s \in States PROVE Acts(v, WordState(q, s), WordState(<<b>> \o e, s))
    <3>1. WordState(e, s) \in States
      BY <2>4, WordStateType
    <3>2. WordState(q, s) = WordState(d, WordState(e, s))
      BY <2>4, WordStateJoin
    <3> QED BY <2>5, <2>6, <3>1, <3>2
  <2>8. Len(<<b>> \o e) = Len(q) + 1 - Arity(v)
    <3> DEFINE l == Len(q)
               y == Len(<<b>> \o e)
               z == Arity(v)
               u == Len(e)
    <3>1. y = u + 1 /\ u = l - k /\ l \in Nat /\ z = k /\ k \in Nat
      BY <1>0, <2>1, <2>4, <2>6
    <3> HIDE DEF l, y, z, u
    <3>2. y = l + 1 - z
      BY <3>1
    <3> QED BY <3>2 DEF l, y, z
  <2> QED BY <2>1, <2>3, <2>6, <2>7, <2>8 DEF v
<1> QED BY <1>1, <1>2

-----------------------------------------------------------------------------
(* The stacks of TreeValue.                                                *)
Stacks(c, a, st) ==
  /\ st \in [0 .. Len(c) -> Word] /\ st[0] = <<>> /\ Len(st[Len(c)]) = 1
  /\ \A i \in 1 .. Len(c) :
       /\ Arity(c[Len(c) + 1 - i]) <= Len(st[i - 1])
       /\ st[i] = Step(c[Len(c) + 1 - i], a, st[i - 1])
  /\ TreeValue(c, a) = st[Len(c)][1]

(* No LUT lacks an input.                                                  *)
LEMMA StacksExist ==
  ASSUME NEW n \in Nat, NEW a \in [1 .. n -> 0 .. 1], NEW c, Formed(c, n)
  PROVE  \E st : Stacks(c, a, st)
<1> DEFINE m == Len(c)
           v(i) == c[m + 1 - i]
           F == [z \in Word \X (1 .. m) |->
                   IF Arity(v(z[2])) <= Len(z[1]) THEN Step(v(z[2]), a, z[1]) ELSE <<>>]
           Eq(h) == h = [i \in 0 .. m |-> IF i = 0 THEN <<>> ELSE Step(c[m + 1 - i], a, h[i - 1])]
           st == CHOOSE h : Eq(h)
<1>1. PICK trees : Balance(c, trees)
  BY BalanceExists
<1>2. m \in Nat
  BY FormedFacts
<1>3. /\ trees[0] = 0 /\ trees[m] = 1
      /\ \A i \in 1 .. m : /\ trees[i] = trees[i - 1] + 1 - Arity(v(i))
                           /\ Arity(v(i)) <= trees[i - 1]
  BY <1>1 DEF Balance
<1>4. ASSUME NEW i \in 1 .. m, NEW q \in Word, Arity(v(i)) <= Len(q)
      PROVE  Step(v(i), a, q) \in Word /\ Len(Step(v(i), a, q)) = Len(q) + 1 - Arity(v(i))
  <2>1. m + 1 - i \in 1 .. m
    BY <1>2
  <2> QED BY <1>4, <2>1, StepFacts
<1>5. TreeValue(c, a) = st[m][1]
  BY DEF TreeValue, Step
<1>0. <<>> \in Word /\ Len(<<>>) = 0
  BY DEF Word
<1> HIDE DEF v
<1>6. F \in StepsOver(Word, m)
  <2> SUFFICES ASSUME NEW q \in Word, NEW i \in 1 .. m
               PROVE  (IF Arity(v(i)) <= Len(q) THEN Step(v(i), a, q) ELSE <<>>) \in Word
    BY DEF StepsOver
  <2> QED BY <1>0, <1>4
<1> HIDE DEF m
<1>7. PICK h : Recursion(h, Word, m, <<>>, F)
  <2> HIDE DEF F
  <2> QED BY <1>0, <1>2, <1>6, RecursionExists
<1>8. h \in [0 .. m -> Word] /\ h[0] = <<>>
  BY <1>7 DEF Recursion
<1>9. ASSUME NEW i \in 1 .. m, Arity(v(i)) <= Len(h[i - 1])
      PROVE  h[i] = Step(v(i), a, h[i - 1])
  <2>1. h[i] = F[<<h[i - 1], i>>]
    BY <1>7 DEF Recursion
  <2>2. h[i - 1] \in Word
    <3>1. i - 1 \in 0 .. m
      BY <1>2
    <3> QED BY <1>8, <3>1
  <2> QED BY <1>9, <2>1, <2>2
<1> HIDE DEF F
<1> DEFINE T == {i \in 0 .. m : Len(h[i]) = trees[i]}
<1>10. \A i \in 0 .. m : i \in T
  <2>1. 0 \in T
    BY <1>0, <1>2, <1>3, <1>8
  <2>2. ASSUME NEW i \in 0 .. m - 1, i \in T PROVE i + 1 \in T
    <3>1. i + 1 \in 1 .. m /\ (i + 1) - 1 = i /\ i + 1 \in 0 .. m /\ i \in 0 .. m
      BY <1>2
    <3>2. Len(h[i]) = trees[i] /\ h[i] \in Word
      BY <1>8, <2>2, <3>1
    <3>3. Arity(v(i + 1)) <= Len(h[(i + 1) - 1])
      BY <1>3, <3>1, <3>2
    <3>4. h[i + 1] = Step(v(i + 1), a, h[i])
      BY <1>9, <3>1, <3>3
    <3>5. Len(h[i + 1]) = Len(h[i]) + 1 - Arity(v(i + 1))
      BY <1>4, <3>1, <3>2, <3>3, <3>4
    <3>6. trees[i + 1] = trees[i] + 1 - Arity(v(i + 1))
      BY <1>3, <3>1
    <3> QED BY <3>1, <3>2, <3>5, <3>6
  <2> HIDE DEF T
  <2> QED BY <1>2, <2>1, <2>2, UpTo
<1>11. \A i \in 0 .. m : Len(h[i]) = trees[i]
  BY <1>10 DEF T
<1> HIDE DEF T
<1>12. ASSUME NEW i \in 1 .. m
       PROVE  Arity(v(i)) <= Len(h[i - 1]) /\ h[i] = Step(v(i), a, h[i - 1])
  <2>1. i - 1 \in 0 .. m
    BY <1>2
  <2>2. Arity(v(i)) <= Len(h[i - 1])
    BY <1>3, <1>11, <2>1
  <2> QED BY <1>9, <2>2
<1>13. Eq(h)
  <2>1. h = [i \in 0 .. m |-> h[i]]
    BY <1>8
  <2>2. \A i \in 0 .. m : h[i] = IF i = 0 THEN <<>> ELSE Step(c[m + 1 - i], a, h[i - 1])
    BY <1>2, <1>8, <1>12 DEF v
  <2> QED BY <2>1, <2>2
<1>14. Eq(st)
  <2> HIDE DEF Eq
  <2> QED BY <1>13
<1> HIDE DEF st
<1>15. st[0] = <<>> /\ \A i \in 1 .. m : st[i] = Step(v(i), a, st[i - 1])
  <2>1. 0 \in 0 .. m /\ \A i \in 1 .. m : i \in 0 .. m /\ i # 0
    BY <1>2
  <2>2. \A i \in 0 .. m : st[i] = IF i = 0 THEN <<>> ELSE Step(v(i), a, st[i - 1])
    BY <1>14 DEF v
  <2> QED BY <2>1, <2>2
<1> DEFINE U == {i \in 0 .. m : st[i] = h[i]}
<1>16. \A i \in 0 .. m : i \in U
  <2>1. 0 \in U
    BY <1>2, <1>8, <1>15
  <2>2. ASSUME NEW i \in 0 .. m - 1, i \in U PROVE i + 1 \in U
    <3>1. i + 1 \in 1 .. m /\ (i + 1) - 1 = i /\ i + 1 \in 0 .. m
      BY <1>2
    <3>2. st[i + 1] = Step(v(i + 1), a, st[i]) /\ h[i + 1] = Step(v(i + 1), a, h[i])
      BY <1>12, <1>15, <3>1
    <3>3. st[i] = h[i]
      BY <2>2
    <3>4. st[i + 1] = h[i + 1]
      BY <3>2, <3>3
    <3> QED BY <3>1, <3>4
  <2> HIDE DEF U
  <2> QED BY <1>2, <2>1, <2>2, UpTo
<1>17. st = h
  <2>1. h = [i \in 0 .. m |-> h[i]] /\ st = [i \in 0 .. m |-> st[i]]
    BY <1>8, <1>14
  <2>2. \A i \in 0 .. m : st[i] = h[i]
    BY <1>16
  <2> QED BY <2>1, <2>2
<1>18. Len(h[m]) = 1
  <2>1. m \in 0 .. m
    BY <1>2
  <2> QED BY <1>3, <1>11, <2>1
<1>19. Stacks(c, a, h)
  BY <1>5, <1>8, <1>12, <1>17, <1>18 DEF Stacks, m, v
<1> QED BY <1>19

(* The empty word changes nothing.                                         *)
LEMMA NoWord ==
  ASSUME NEW s \in States
  PROVE  WordState(<<>>, s) = s
<1> DEFINE r == [i \in 0 .. 0 |-> s]
           d == <<>>
           a == <<>>
<1>1. d \in Word /\ Len(d) = 0
  BY DEF Word
<1>2. Spells(d, a, d)
  BY <1>1 DEF Spells
<1>3. r \in [0 .. 0 -> States] /\ r[0] = s
  OBVIOUS
<1> HIDE DEF r, d, a
<1>4. Run(r, d, a)
  BY <1>1, <1>3 DEF Run
<1>5. r[0] = WordState(d, r[Len(d)])
  BY <1>2, <1>4, WordRun
<1> QED BY <1>1, <1>3, <1>5 DEF d

(* A chain leads from one state to the value of its tree.                  *)
LEMMA TreeGives ==
  ASSUME NEW n \in Nat, NEW a \in [1 .. n -> 0 .. 1], NEW c, Formed(c, n)
  PROVE  /\ TreeValue(c, a) \in 0 .. 1
         /\ Gives(c, a, Unit, <<2, 1 - TreeValue(c, a)>>)
<1> DEFINE m == Len(c)
           b == TreeValue(c, a)
<1>1. PICK st : Stacks(c, a, st)
  BY StacksExist
<1>2. m \in Nat
  BY FormedFacts
<1>3. /\ st \in [0 .. m -> Word] /\ st[0] = <<>> /\ Len(st[m]) = 1 /\ b = st[m][1]
      /\ \A i \in 1 .. m : /\ Arity(c[m + 1 - i]) <= Len(st[i - 1])
                           /\ st[i] = Step(c[m + 1 - i], a, st[i - 1])
  BY <1>1 DEF Stacks
<1> HIDE DEF b
<1>4. b \in 0 .. 1 /\ st[m] = <<b>>
  <2> HIDE DEF m
  <2>1. st[m] \in Word
    BY <1>2, <1>3
  <2>2. 1 \in 1 .. Len(st[m])
    BY <1>3
  <2>3. b \in 0 .. 1
    BY <1>3, <2>1, <2>2, WordFacts
  <2> DEFINE q == st[m]
             X == 0 .. 1
  <2>4. q \in Seq(X) /\ Len(q) = 1 /\ q[1] = b /\ b \in X
    BY <1>3, <2>1, <2>3 DEF Word
  <2> HIDE DEF q, X
  <2>5. q = <<b>>
    BY <2>4
  <2> QED BY <2>3, <2>5 DEF q
<1> DEFINE r == [i \in 0 .. m |-> WordState(st[m - i], Unit)]
<1>5. r \in [0 .. m -> States]
  <2> SUFFICES ASSUME NEW i \in 0 .. m PROVE WordState(st[m - i], Unit) \in States
    OBVIOUS
  <2>1. m - i \in 0 .. m
    BY <1>2
  <2>2. st[m - i] \in Word
    BY <1>3, <2>1
  <2> QED BY <2>2, UnitFacts, WordStateType
<1>6. ASSUME NEW i \in 1 .. m PROVE Acts(Value(c[i], a), r[i], r[i - 1])
  <2> DEFINE j == m + 1 - i
  <2>1. /\ j \in 1 .. m /\ m + 1 - j = i /\ j - 1 \in 0 .. m
        /\ i \in 0 .. m /\ i - 1 \in 0 .. m /\ m - i = j - 1 /\ m - (i - 1) = j
    BY <1>2
  <2>2. r[i] = WordState(st[j - 1], Unit) /\ r[i - 1] = WordState(st[j], Unit)
    BY <2>1
  <2>3. st[j - 1] \in Word /\ Arity(c[i]) <= Len(st[j - 1]) /\ st[j] = Step(c[i], a, st[j - 1])
    BY <1>3, <2>1
  <2> HIDE DEF j, r
  <2>4. Acts(Value(c[i], a), WordState(st[j - 1], Unit), WordState(Step(c[i], a, st[j - 1]), Unit))
    BY <2>3, UnitFacts, StepFacts
  <2> QED BY <2>2, <2>3, <2>4
<1>7. r[m] = Unit
  <2>1. m \in 0 .. m /\ m - m = 0
    BY <1>2
  <2>2. r[m] = WordState(st[0], Unit)
    BY <2>1
  <2> QED BY <1>3, <2>2, NoWord, UnitFacts
<1>8. r[0] = <<2, 1 - b>>
  <2>1. 0 \in 0 .. m /\ m - 0 = m
    BY <1>2
  <2>2. r[0] = WordState(st[m], Unit)
    BY <2>1
  <2>3. r[0] = Push(b, Unit)
    BY <1>4, <2>2, UnitFacts, OneWord
  <2>4. Push(b, Unit) = <<2 * 1, (1 - b) * 1 + 0>>
    BY DEF Push, Unit
  <2>5. 2 * 1 = 2 /\ (1 - b) * 1 + 0 = 1 - b
    BY <1>4
  <2> QED BY <2>3, <2>4, <2>5
<1> HIDE DEF r
<1>9. Run(r, c, a)
  BY <1>5, <1>6 DEF Run
<1>10. Gives(c, a, Unit, <<2, 1 - b>>)
  BY <1>7, <1>8, <1>9 DEF Gives
<1> QED BY <1>4, <1>10 DEF b

-----------------------------------------------------------------------------
(* Concatenation is associative.                                           *)
LEMMA JoinAssoc ==
  ASSUME NEW X, NEW r \in Seq(X), NEW s \in Seq(X), NEW t \in Seq(X)
  PROVE  (r \o s) \o t = r \o (s \o t)
<1> DEFINE u == r \o s
           v == s \o t
           y == u \o t
           z == r \o v
           k == Len(r)
           l == Len(s)
           m == Len(t)
<1>1. /\ u \in Seq(X) /\ Len(u) = k + l /\ k \in Nat /\ l \in Nat
      /\ \A i \in 1 .. k : u[i] = r[i]
      /\ \A i \in 1 .. l : u[k + i] = s[i]
  BY JoinFacts
<1>2. /\ v \in Seq(X) /\ Len(v) = l + m /\ m \in Nat
      /\ \A i \in 1 .. l : v[i] = s[i]
      /\ \A i \in 1 .. m : v[l + i] = t[i]
  BY JoinFacts
<1> HIDE DEF u, v
<1>3. /\ y \in Seq(X) /\ Len(y) = Len(u) + m
      /\ \A i \in 1 .. Len(u) : y[i] = u[i]
      /\ \A i \in 1 .. m : y[Len(u) + i] = t[i]
  <2>1. u \in Seq(X)
    BY <1>1
  <2> QED BY <2>1, JoinFacts
<1>4. /\ z \in Seq(X) /\ Len(z) = k + Len(v)
      /\ \A i \in 1 .. k : z[i] = r[i]
      /\ \A i \in 1 .. Len(v) : z[k + i] = v[i]
  <2>1. v \in Seq(X)
    BY <1>2
  <2> QED BY <2>1, JoinFacts
<1> HIDE DEF y, z, k, l, m
<1>5. /\ Len(y) = (k + l) + m
      /\ \A i \in 1 .. k + l : y[i] = u[i]
      /\ \A i \in 1 .. m : y[(k + l) + i] = t[i]
  BY <1>1, <1>3
<1>6. /\ Len(z) = k + (l + m)
      /\ \A i \in 1 .. l + m : z[k + i] = v[i]
  BY <1>2, <1>4
<1>7. Len(y) = Len(z)
  <2>1. (k + l) + m = k + (l + m)
    BY <1>1, <1>2
  <2> QED BY <1>5, <1>6, <2>1
<1>8. ASSUME NEW i \in 1 .. (k + l) + m PROVE y[i] = z[i]
  <2>1. CASE i \in 1 .. k
    <3>1. i \in 1 .. k + l
      BY <1>1, <2>1
    <3> QED BY <1>1, <1>4, <1>5, <2>1, <3>1
  <2>2. CASE i \in k + 1 .. k + l
    <3>1. PICK j \in 1 .. l : i = k + j
      <4>1. i - k \in 1 .. l /\ i = k + (i - k)
        BY <1>1, <2>2
      <4> QED BY <4>1
    <3>2. k + j \in 1 .. k + l /\ j \in 1 .. l + m
      BY <1>1, <1>2, <3>1
    <3>3. y[k + j] = u[k + j] /\ z[k + j] = v[j]
      BY <1>5, <1>6, <3>2
    <3> QED BY <1>1, <1>2, <3>1, <3>3
  <2>3. CASE i \in (k + l) + 1 .. (k + l) + m
    <3>1. PICK j \in 1 .. m : i = (k + l) + j
      <4>1. i - (k + l) \in 1 .. m /\ i = (k + l) + (i - (k + l))
        BY <1>1, <1>2, <2>3
      <4> QED BY <4>1
    <3>2. l + j \in 1 .. l + m /\ (k + l) + j = k + (l + j)
      BY <1>1, <1>2, <3>1
    <3>3. y[i] = t[j]
      BY <1>5, <3>1
    <3>4. z[k + (l + j)] = v[l + j] /\ v[l + j] = t[j]
      BY <1>2, <1>6, <3>1, <3>2
    <3> QED BY <3>1, <3>2, <3>3, <3>4
  <2>4. i \in 1 .. k \/ i \in k + 1 .. k + l \/ i \in (k + l) + 1 .. (k + l) + m
    BY <1>1, <1>2
  <2> QED BY <2>1, <2>2, <2>3, <2>4
<1>9. y = z
  BY <1>3, <1>4, <1>5, <1>7, <1>8, SameSequence
<1> QED BY <1>9 DEF y, z, u, v

(* The same, of any three sequences.                                       *)
LEMMA JoinsAssoc ==
  \A X : \A r, s, t \in Seq(X) : (r \o s) \o t = r \o (s \o t)
BY JoinAssoc, SMTT(30)

(* A sequence is what stands before an element, it, and what follows.      *)
LEMMA CutAt ==
  ASSUME NEW X, NEW c \in Seq(X), NEW i \in 1 .. Len(c)
  PROVE  /\ SubSeq(c, 1, i - 1) \in Seq(X) /\ Len(SubSeq(c, 1, i - 1)) = i - 1
         /\ SubSeq(c, i + 1, Len(c)) \in Seq(X) /\ Len(SubSeq(c, i + 1, Len(c))) = Len(c) - i
         /\ c[i] \in X /\ <<c[i]>> \in Seq(X)
         /\ \A j \in 1 .. i - 1 : SubSeq(c, 1, i - 1)[j] = c[j]
         /\ \A j \in 1 .. Len(c) - i : SubSeq(c, i + 1, Len(c))[j] = c[i + j]
         /\ c = SubSeq(c, 1, i - 1) \o (<<c[i]>> \o SubSeq(c, i + 1, Len(c)))
<1> DEFINE m == Len(c)
           k == i - 1
           l == m - i
           d == SubSeq(c, 1, k)
           e == SubSeq(c, i + 1, m)
           o == <<c[i]>>
<1>1. m \in Nat /\ k \in 0 .. m /\ l \in Nat /\ k + 1 = i /\ i + l = m
  OBVIOUS
<1>2. d \in Seq(X) /\ Len(d) = k /\ \A j \in 1 .. k : d[j] = c[j]
  BY <1>1, FrontPartFacts
<1>3. e \in Seq(X) /\ Len(e) = l /\ \A j \in 1 .. l : e[j] = c[i + j]
  OBVIOUS
<1>4. c[i] \in X /\ o \in Seq(X) /\ Len(o) = 1 /\ o[1] = c[i]
  OBVIOUS
<1> DEFINE f == o \o e
           y == d \o f
<1> HIDE DEF m, k, l, d, e, o
<1>5. /\ f \in Seq(X) /\ Len(f) = Len(o) + Len(e)
      /\ \A j \in 1 .. Len(o) : f[j] = o[j]
      /\ \A j \in 1 .. Len(e) : f[Len(o) + j] = e[j]
  <2>1. o \in Seq(X) /\ e \in Seq(X)
    BY <1>3, <1>4
  <2> QED BY <2>1, JoinFacts
<1> HIDE DEF f
<1>6. /\ f \in Seq(X) /\ Len(f) = 1 + l /\ f[1] = c[i]
      /\ \A j \in 1 .. l : f[1 + j] = c[i + j]
  <2>1. 1 \in 1 .. Len(o)
    BY <1>4
  <2>2. Len(o) = 1 /\ Len(e) = l
    BY <1>3, <1>4
  <2>3. f[1] = c[i] /\ Len(f) = 1 + l /\ \A j \in 1 .. l : f[1 + j] = e[j]
    BY <1>4, <1>5, <2>1, <2>2
  <2> QED BY <1>3, <1>5, <2>3
<1>7. /\ y \in Seq(X) /\ Len(y) = Len(d) + Len(f)
      /\ \A j \in 1 .. Len(d) : y[j] = d[j]
      /\ \A j \in 1 .. Len(f) : y[Len(d) + j] = f[j]
  <2>1. d \in Seq(X) /\ f \in Seq(X)
    BY <1>2, <1>6
  <2> QED BY <2>1, JoinFacts
<1> HIDE DEF y
<1>8. /\ Len(y) = k + (1 + l)
      /\ \A j \in 1 .. k : y[j] = d[j]
      /\ \A j \in 1 .. 1 + l : y[k + j] = f[j]
  <2>1. Len(d) = k /\ Len(f) = 1 + l
    BY <1>2, <1>6
  <2> QED BY <1>7, <2>1
<1>9. Len(y) = m
  BY <1>1, <1>8
<1>10. ASSUME NEW j \in 1 .. m PROVE y[j] = c[j]
  <2>1. CASE j \in 1 .. k
    BY <1>2, <1>8, <2>1
  <2>2. CASE j = i
    <3>1. j = k + 1 /\ 1 \in 1 .. 1 + l
      BY <1>1, <2>2
    <3>2. y[k + 1] = f[1]
      BY <1>8, <3>1
    <3> QED BY <1>6, <2>2, <3>1, <3>2
  <2>3. CASE j \in i + 1 .. m
    <3>1. PICK n \in 1 .. l : j = i + n
      <4>1. j - i \in 1 .. l /\ j = i + (j - i)
        BY <1>1, <2>3
      <4> QED BY <4>1
    <3>2. 1 + n \in 1 .. 1 + l /\ j = k + (1 + n)
      BY <1>1, <3>1
    <3>3. y[k + (1 + n)] = f[1 + n]
      BY <1>8, <3>2
    <3> QED BY <1>6, <3>1, <3>2, <3>3
  <2>4. j \in 1 .. k \/ j = i \/ j \in i + 1 .. m
    BY <1>1
  <2> QED BY <2>1, <2>2, <2>3, <2>4
<1>11. c = y
  <2>1. c \in Seq(X) /\ Len(c) = m
    BY DEF m
  <2> QED BY <1>7, <1>9, <1>10, <2>1, SameSequence
<1> QED BY <1>2, <1>3, <1>4, <1>11 DEF y, f, d, e, o, m, k, l

-----------------------------------------------------------------------------
(***************************************************************************)
(* Rewriting.  The chain c becomes d when d does what c does.              *)
(***************************************************************************)
Becomes(c, d, a) == \A s, t : Gives(c, a, s, t) => Gives(d, a, s, t)

(* One rewriting after another.                                            *)
LEMMA BecomesThrough ==
  ASSUME NEW c, NEW d, NEW e, NEW a, Becomes(c, d, a), Becomes(d, e, a)
  PROVE  Becomes(c, e, a)
BY DEF Becomes

(* Before and after other chains.                                          *)
LEMMA BecomesInside ==
  ASSUME NEW X, NEW c \in Seq(X), NEW d \in Seq(X), NEW e \in Seq(X), NEW a, Becomes(c, d, a)
  PROVE  Becomes(c \o e, d \o e, a) /\ Becomes(e \o c, e \o d, a)
<1>1. Becomes(c \o e, d \o e, a)
  <2> SUFFICES ASSUME NEW s, NEW t, Gives(c \o e, a, s, t) PROVE Gives(d \o e, a, s, t)
    BY DEF Becomes
  <2>1. PICK u \in States : Gives(e, a, s, u) /\ Gives(c, a, u, t)
    BY GivesSplit
  <2>2. Gives(d, a, u, t)
    BY <2>1 DEF Becomes
  <2> QED BY <2>1, <2>2, GivesJoin
<1>2. Becomes(e \o c, e \o d, a)
  <2> SUFFICES ASSUME NEW s, NEW t, Gives(e \o c, a, s, t) PROVE Gives(e \o d, a, s, t)
    BY DEF Becomes
  <2>1. PICK u \in States : Gives(c, a, s, u) /\ Gives(e, a, u, t)
    BY GivesSplit
  <2>2. Gives(d, a, s, u)
    BY <2>1 DEF Becomes
  <2> QED BY <2>1, <2>2, GivesJoin
<1> QED BY <1>1, <1>2

-----------------------------------------------------------------------------
(* Sequences of fewer elements.                                            *)
LEMMA SeqWidens ==
  ASSUME NEW X, NEW Y, X \subseteq Y, NEW s \in Seq(X)
  PROVE  s \in Seq(Y)
<1>1. Len(s) \in Nat /\ s = [i \in 1 .. Len(s) |-> s[i]] /\ \A i \in 1 .. Len(s) : s[i] \in X
  OBVIOUS
<1> DEFINE n == Len(s)
<1> HIDE DEF n
<1>2. n \in Nat /\ s = [i \in 1 .. n |-> s[i]] /\ \A i \in 1 .. n : s[i] \in Y
  BY <1>1 DEF n
<1> QED BY <1>2

(* One variable as a chain.                                                *)
Alone(x) == << <<x>> >>

(* A chain of one variable puts its value on the state.                    *)
LEMMA AloneGives ==
  ASSUME NEW n \in Nat, NEW a \in [1 .. n -> 0 .. 1], NEW x \in 1 .. n
  PROVE  /\ Alone(x) \in Seq(Terms(n)) /\ Len(Alone(x)) = 1 /\ Alone(x)[1] = <<x>>
         /\ a[x] \in 0 .. 1
         /\ \A s \in States : \A t : Gives(Alone(x), a, s, t) <=> t = Push(a[x], s)
<1> DEFINE v == <<x>>
<1>1. v \in Terms(n) /\ Value(v, a) = Vector(a[x]) /\ a[x] \in 0 .. 1
  BY TermsFacts
<1> HIDE DEF v
<1>2. <<v>> \in Seq(Terms(n)) /\ Len(<<v>>) = 1 /\ <<v>>[1] = v
  BY <1>1
<1>3. ASSUME NEW s \in States, NEW t PROVE Gives(<<v>>, a, s, t) <=> t = Push(a[x], s)
  <2>1. Gives(<<v>>, a, s, t) <=> Acts(Value(v, a), s, t)
    BY <1>1, GivesOne
  <2> QED BY <1>1, <2>1, VectorActs
<1> QED BY <1>1, <1>2, <1>3 DEF Alone, v

(* One matrix as a chain.                                                  *)
LEMMA MatrixGives ==
  ASSUME NEW n \in Nat, NEW a \in [1 .. n -> 0 .. 1], NEW m \in Mats
  PROVE  /\ <<m>> \in Seq(Terms(n)) /\ Len(<<m>>) = 1 /\ <<m>>[1] = m
         /\ \A s, t : Gives(<<m>>, a, s, t) <=> Acts(m, s, t)
<1>1. m \in Terms(n) /\ Value(m, a) = m
  BY TermsFacts
<1>2. <<m>> \in Seq(Terms(n)) /\ Len(<<m>>) = 1 /\ <<m>>[1] = m
  BY <1>1
<1>3. ASSUME NEW s, NEW t PROVE Gives(<<m>>, a, s, t) <=> Acts(m, s, t)
  BY <1>1, GivesOne
<1> QED BY <1>2, <1>3

(* x M = (I2 (x) M) x                                                      *)
LEMMA Passed ==
  ASSUME NEW n \in Nat, NEW a \in [1 .. n -> 0 .. 1], NEW x \in 1 .. n,
         NEW R \in Seq(Mats), R # <<>>
  PROVE  /\ Kron(I2, ProductOf(R)) \in Mats
         /\ Becomes(Alone(x) \o R, <<Kron(I2, ProductOf(R))>> \o Alone(x), a)
<1> DEFINE M == ProductOf(R)
           k == Kron(I2, M)
           b == a[x]
           X == Terms(n)
<1>1. IsMatrix(M) /\ \A s, t : Gives(R, a, s, t) => Acts(M, s, t)
  BY ProductOfFacts
<1> HIDE DEF M
<1>2. k \in Mats
  <2>1. IsMatrix(k)
    BY <1>1, KronI2
  <2> QED BY <2>1, MatrixType DEF Mats
<1>3. /\ Alone(x) \in Seq(X) /\ b \in 0 .. 1
      /\ \A s \in States : \A t : Gives(Alone(x), a, s, t) <=> t = Push(b, s)
  BY AloneGives
<1>4. <<k>> \in Seq(X) /\ \A s, t : Gives(<<k>>, a, s, t) <=> Acts(k, s, t)
  BY <1>2, MatrixGives
<1>5. R \in Seq(X)
  <2>1. Mats \subseteq X
    BY DEF Terms
  <2> QED BY <2>1, SeqWidens
<1>6. ASSUME NEW s, NEW t, Gives(Alone(x) \o R, a, s, t)
      PROVE  Gives(<<k>> \o Alone(x), a, s, t)
  <2> HIDE DEF X, k
  <2>1. PICK u \in States : Gives(R, a, s, u) /\ Gives(Alone(x), a, u, t)
    BY <1>3, <1>5, <1>6, GivesSplit
  <2>2. t = Push(b, u) /\ Acts(M, s, u)
    BY <1>1, <1>3, <2>1
  <2>3. s \in States
    BY <1>1, <2>2, ActsType
  <2>4. Acts(k, Push(b, s), t)
    BY <1>1, <1>3, <2>2, KronActs DEF k
  <2>5. Gives(Alone(x), a, s, Push(b, s)) /\ Gives(<<k>>, a, Push(b, s), t)
    BY <1>3, <1>4, <2>3, <2>4
  <2> QED BY <1>3, <1>4, <2>5, GivesJoin
<1> QED BY <1>2, <1>6 DEF Becomes, M

(* x x = Mr x                                                              *)
LEMMA Reduced ==
  ASSUME NEW n \in Nat, NEW a \in [1 .. n -> 0 .. 1], NEW x \in 1 .. n
  PROVE  Mr \in Mats /\ Becomes(Alone(x) \o Alone(x), <<Mr>> \o Alone(x), a)
<1> DEFINE b == a[x]
           X == Terms(n)
           o == Alone(x)
           m == Mr
<1>1. m \in Mats
  BY MrFacts, MatrixType DEF Mats
<1>2. /\ o \in Seq(X) /\ b \in 0 .. 1
      /\ \A s \in States : \A t : Gives(o, a, s, t) <=> t = Push(b, s)
  BY AloneGives
<1>3. <<m>> \in Seq(X) /\ \A s, t : Gives(<<m>>, a, s, t) <=> Acts(m, s, t)
  BY <1>1, MatrixGives
<1>4. ASSUME NEW s, NEW t, Gives(o \o o, a, s, t) PROVE Gives(<<m>> \o o, a, s, t)
  <2> HIDE DEF X, o
  <2>1. PICK u \in States : Gives(o, a, s, u) /\ Gives(o, a, u, t)
    BY <1>2, <1>4, GivesSplit
  <2>2. s \in States
    <3>1. Value(<<x>>, a) = Vector(b) /\ <<x>> \in Terms(n)
      BY TermsFacts
    <3>2. Acts(Vector(b), s, u)
      BY <2>1, <3>1, GivesOne DEF o, Alone
    <3>3. IsMatrix(Vector(b))
      BY <1>2, VectorFacts
    <3> QED BY <3>2, <3>3, ActsType
  <2>3. u = Push(b, s) /\ t = Push(b, u)
    BY <1>2, <2>1, <2>2
  <2>4. Acts(m, u, t)
    BY <1>2, <2>2, <2>3, MrActs
  <2>5. Gives(o, a, s, u) /\ Gives(<<m>>, a, u, t)
    BY <1>3, <2>1, <2>4
  <2> HIDE DEF m
  <2> QED BY <1>2, <1>3, <2>5, GivesJoin
<1> QED BY <1>1, <1>4 DEF Becomes

(* Chains of variables spell words.                                        *)
Singles(n) == {<<x>> : x \in 1 .. n}

(* A chain of variables spells the word of their values.                   *)
LEMMA SinglesSpell ==
  ASSUME NEW n \in Nat, NEW a \in [1 .. n -> 0 .. 1], NEW c \in Seq(Singles(n))
  PROVE  /\ c \in Seq(Terms(n)) /\ \E d \in Word : Spells(c, a, d)
         /\ \A i \in 1 .. Len(c) : \E x \in 1 .. n : c[i] = <<x>>
<1> DEFINE X == Singles(n)
           m == Len(c)
<1>1. c \in Seq(Terms(n))
  <2>1. X \subseteq Terms(n)
    BY DEF Singles, Terms
  <2> QED BY <2>1, SeqWidens
<1>2. m \in Nat /\ \A i \in 1 .. m : c[i] \in X
  <2> HIDE DEF X
  <2>1. c \in Seq(X)
    BY DEF X
  <2> QED BY <2>1
<1>3. \A i \in 1 .. m : \E x \in 1 .. n : c[i] = <<x>>
  BY <1>2 DEF Singles
<1> DEFINE d == [i \in 1 .. m |-> a[c[i][1]]]
<1>4. ASSUME NEW i \in 1 .. m
      PROVE  d[i] \in 0 .. 1 /\ Value(c[i], a) = Vector(d[i])
  <2>1. PICK x \in 1 .. n : c[i] = <<x>>
    BY <1>3
  <2>2. Value(<<x>>, a) = Vector(a[x]) /\ a[x] \in 0 .. 1 /\ <<x>>[1] = x
    BY TermsFacts
  <2> QED BY <2>1, <2>2
<1> HIDE DEF m
<1>5. d \in Seq(0 .. 1) /\ Len(d) = m
  <2> DEFINE B == 0 .. 1
  <2>1. d = [i \in 1 .. m |-> d[i]] /\ \A i \in 1 .. m : d[i] \in B
    BY <1>4
  <2> HIDE DEF B, d
  <2>2. d \in Seq(B) /\ Len(d) = m
    BY <1>2, <2>1, SMTT(30)
  <2> QED BY <2>2 DEF B
<1> HIDE DEF d
<1>6. Spells(c, a, d) /\ d \in Word
  BY <1>4, <1>5 DEF Spells, Word, m
<1> QED BY <1>1, <1>3, <1>6 DEF m

(* The swap matrix brings the variable behind k others to the front.       *)
LEMMA Swapped ==
  ASSUME NEW n \in Nat, NEW a \in [1 .. n -> 0 .. 1], NEW x \in 1 .. n, NEW y \in Seq(Singles(n))
  PROVE  /\ SwapMatrix(2, 2 ^ Len(y)) \in Mats
         /\ Becomes(y \o Alone(x), <<SwapMatrix(2, 2 ^ Len(y))>> \o (Alone(x) \o y), a)
<1> DEFINE b == a[x]
           X == Terms(n)
           o == Alone(x)
           l == 2 ^ Len(y)
           m == SwapMatrix(2, l)
<1>0. PICK d \in Word : Spells(y, a, d)
  BY SinglesSpell
<1>1. Len(y) = Len(d) /\ Len(d) \in Nat /\ l \in Powers /\ y \in Seq(X)
  <2>1. Len(y) = Len(d) /\ Len(d) \in Nat
    BY <1>0, WordFacts DEF Spells
  <2>2. l \in Powers
    BY <2>1, PowersPos
  <2> QED BY <2>1, <2>2, SinglesSpell
<1>2. m \in Mats
  <2>1. IsMatrix(m)
    BY <1>1, SwapFacts
  <2> QED BY <2>1, MatrixType DEF Mats
<1>3. /\ o \in Seq(X) /\ b \in 0 .. 1
      /\ \A s \in States : \A t : Gives(o, a, s, t) <=> t = Push(b, s)
  BY AloneGives
<1>4. \A s \in States : \A t : Gives(y, a, s, t) <=> t = WordState(d, s)
  BY <1>0, WordGives
<1>5. ASSUME NEW s \in States
      PROVE  Acts(m, Push(b, WordState(d, s)), WordState(d, Push(b, s)))
  <2> DEFINE w == s[1]
             v == s[2]
             j == Spelled(d)
  <2>1. w \in Pos /\ v \in 0 .. w - 1
    BY StateFacts
  <2>2. j \in 0 .. l - 1 /\ l = 2 ^ Len(d)
    BY <1>1, SpelledFacts
  <2>3. WordState(d, s) = <<l * w, j * w + v>>
    BY <2>2 DEF WordState
  <2>4. WordState(d, Push(b, s)) = <<l * (2 * w), j * (2 * w) + ((1 - b) * w + v)>>
    BY <2>2 DEF WordState, Push
  <2> HIDE DEF w, v, j, l, b
  <2>5. Acts(m, Push(b, <<l * w, j * w + v>>), <<l * (2 * w), j * (2 * w) + ((1 - b) * w + v)>>)
    BY <1>1, <1>3, <2>1, <2>2, SwapActs
  <2> QED BY <2>3, <2>4, <2>5
<1> HIDE DEF m
<1>6. <<m>> \in Seq(X) /\ \A s, t : Gives(<<m>>, a, s, t) <=> Acts(m, s, t)
  BY <1>2, MatrixGives
<1>7. ASSUME NEW s, NEW t, Gives(y \o o, a, s, t) PROVE Gives(<<m>> \o (o \o y), a, s, t)
  <2> HIDE DEF X, o
  <2>1. PICK u \in States : Gives(o, a, s, u) /\ Gives(y, a, u, t)
    BY <1>1, <1>3, <1>7, GivesSplit
  <2>2. s \in States
    <3>1. Value(<<x>>, a) = Vector(b) /\ <<x>> \in Terms(n)
      BY TermsFacts
    <3>2. Acts(Vector(b), s, u)
      BY <2>1, <3>1, GivesOne DEF o, Alone
    <3>3. IsMatrix(Vector(b))
      BY <1>3, VectorFacts
    <3> QED BY <3>2, <3>3, ActsType
  <2>3. u = Push(b, s) /\ t = WordState(d, u)
    BY <1>3, <1>4, <2>1, <2>2
  <2> DEFINE q == WordState(d, s)
  <2>4. q \in States
    BY <2>2, WordStateType
  <2>5. Gives(y, a, s, q) /\ Gives(o, a, q, Push(b, q)) /\ Acts(m, Push(b, q), t)
    BY <1>3, <1>4, <1>5, <2>2, <2>3, <2>4
  <2>6. Gives(o \o y, a, s, Push(b, q)) /\ o \o y \in Seq(X)
    <3> HIDE DEF q, b
    <3>1. o \in Seq(X) /\ y \in Seq(X)
      BY <1>1, <1>3
    <3> QED BY <2>5, <3>1, GivesJoin, JoinLength
  <2>7. Gives(<<m>>, a, Push(b, q), t)
    BY <1>6, <2>5
  <2> HIDE DEF q, b
  <2> QED BY <1>6, <2>6, <2>7, GivesJoin
<1> QED BY <1>2, <1>7 DEF Becomes, m

-----------------------------------------------------------------------------
(* A part of a chain is rewritten.                                         *)
LEMMA Rewritten ==
  ASSUME NEW X, NEW A \in Seq(X), NEW c \in Seq(X), NEW d \in Seq(X), NEW B \in Seq(X),
         NEW a, Becomes(c, d, a)
  PROVE  Becomes(A \o (c \o B), A \o (d \o B), a)
<1>1. Becomes(c \o B, d \o B, a)
  BY BecomesInside
<1> DEFINE y == c \o B
           z == d \o B
<1>2. y \in Seq(X) /\ z \in Seq(X)
  BY JoinLength
<1> HIDE DEF y, z
<1>3. Becomes(y, z, a)
  BY <1>1 DEF y, z
<1>4. Becomes(A \o y, A \o z, a)
  BY <1>2, <1>3, BecomesInside
<1> QED BY <1>4 DEF y, z

(* What follows a variable of the chain is multiplied out and passed.      *)
LEMMA ChainPasses ==
  ASSUME NEW n \in Nat, NEW a \in [1 .. n -> 0 .. 1], NEW x \in 1 .. n,
         NEW R \in Seq(Mats), R # <<>>, NEW A \in Seq(Terms(n)), NEW B \in Seq(Terms(n))
  PROVE  Becomes((A \o (Alone(x) \o R)) \o B,
                 (A \o <<Kron(I2, ProductOf(R))>>) \o (Alone(x) \o B), a)
<1> DEFINE X == Terms(n)
           o == Alone(x)
           k == <<Kron(I2, ProductOf(R))>>
<1>1. o \in Seq(X) /\ k \in Seq(X) /\ R \in Seq(X)
  <2>1. Mats \subseteq X
    BY DEF Terms
  <2>2. R \in Seq(X)
    BY <2>1, SeqWidens
  <2> QED BY <2>2, AloneGives, Passed, MatrixGives
<1>2. Becomes(o \o R, k \o o, a)
  BY Passed
<1>3. A \in Seq(X) /\ B \in Seq(X)
  OBVIOUS
<1> HIDE DEF X, o, k
<1>0. \A r, s, t \in Seq(X) : (r \o s) \o t = r \o (s \o t)
  BY JoinAssoc, SMTT(30)
<1>4. o \o R \in Seq(X) /\ k \o o \in Seq(X) /\ o \o B \in Seq(X)
  BY <1>1, <1>3, JoinLength
<1>5. Becomes(A \o ((o \o R) \o B), A \o ((k \o o) \o B), a)
  BY <1>2, <1>3, <1>4, Rewritten
<1>6. A \o ((o \o R) \o B) = (A \o (o \o R)) \o B
  BY <1>0, <1>3, <1>4, ZenonT(40)
<1>7. (k \o o) \o B = k \o (o \o B)
  BY <1>0, <1>1, <1>3, ZenonT(40)
<1>8. A \o (k \o (o \o B)) = (A \o k) \o (o \o B)
  <2> DEFINE v == o \o B
  <2>1. v \in Seq(X)
    BY <1>4
  <2> HIDE DEF v
  <2>0. A \in Seq(X) /\ k \in Seq(X)
    BY <1>1, <1>3
  <2>2. (A \o k) \o v = A \o (k \o v)
    BY <1>0, <2>0, <2>1, Zenon
  <2> QED BY <2>2 DEF v
<1>9. Becomes((A \o (o \o R)) \o B, (A \o k) \o (o \o B), a)
  BY <1>5, <1>6, <1>7, <1>8
<1> QED BY <1>9 DEF o, k

(* A variable meets itself behind the chain.                               *)
LEMMA ChainReduces ==
  ASSUME NEW n \in Nat, NEW a \in [1 .. n -> 0 .. 1], NEW x \in 1 .. n,
         NEW C \in Seq(Terms(n)), NEW B \in Seq(Terms(n))
  PROVE  Becomes(C \o (Alone(x) \o (Alone(x) \o B)), (C \o <<Mr>>) \o (Alone(x) \o B), a)
<1> DEFINE X == Terms(n)
           o == Alone(x)
           k == <<Mr>>
<1>1. o \in Seq(X) /\ k \in Seq(X)
  BY AloneGives, Reduced, MatrixGives
<1>2. Becomes(o \o o, k \o o, a)
  BY Reduced
<1>3. C \in Seq(X) /\ B \in Seq(X)
  OBVIOUS
<1> HIDE DEF X, o, k
<1>0. \A r, s, t \in Seq(X) : (r \o s) \o t = r \o (s \o t)
  BY JoinAssoc, SMTT(30)
<1>4. o \o o \in Seq(X) /\ k \o o \in Seq(X) /\ o \o B \in Seq(X)
  BY <1>1, <1>3, JoinLength
<1>5. Becomes(C \o ((o \o o) \o B), C \o ((k \o o) \o B), a)
  BY <1>2, <1>3, <1>4, Rewritten
<1>6. (o \o o) \o B = o \o (o \o B) /\ (k \o o) \o B = k \o (o \o B)
  BY <1>0, <1>1, <1>3, Zenon
<1>7. C \o (k \o (o \o B)) = (C \o k) \o (o \o B)
  <2> DEFINE v == o \o B
  <2>1. v \in Seq(X)
    BY <1>4
  <2> HIDE DEF v
  <2>0. C \in Seq(X) /\ k \in Seq(X)
    BY <1>1, <1>3
  <2>2. (C \o k) \o v = C \o (k \o v)
    BY <1>0, <2>0, <2>1, Zenon
  <2> QED BY <2>2 DEF v
<1>8. Becomes(C \o (o \o (o \o B)), (C \o k) \o (o \o B), a)
  BY <1>5, <1>6, <1>7
<1> QED BY <1>8 DEF o, k

(* A variable behind the chain is swapped to the front.                    *)
LEMMA ChainSwaps ==
  ASSUME NEW n \in Nat, NEW a \in [1 .. n -> 0 .. 1], NEW x \in 1 .. n,
         NEW y \in Seq(Singles(n)), NEW C \in Seq(Terms(n)), NEW B \in Seq(Terms(n))
  PROVE  Becomes(C \o (y \o (Alone(x) \o B)),
                 (C \o <<SwapMatrix(2, 2 ^ Len(y))>>) \o (Alone(x) \o (y \o B)), a)
<1> DEFINE X == Terms(n)
           o == Alone(x)
           k == <<SwapMatrix(2, 2 ^ Len(y))>>
<1>1. o \in Seq(X) /\ k \in Seq(X) /\ y \in Seq(X)
  BY AloneGives, Swapped, MatrixGives, SinglesSpell, ZenonT(40)
<1>2. Becomes(y \o o, k \o (o \o y), a)
  BY Swapped
<1>3. C \in Seq(X) /\ B \in Seq(X)
  OBVIOUS
<1> HIDE DEF X, o, k
<1>0. \A r, s, t \in Seq(X) : (r \o s) \o t = r \o (s \o t)
  BY JoinAssoc, SMTT(30)
<1>4. o \o y \in Seq(X) /\ y \o o \in Seq(X) /\ o \o B \in Seq(X) /\ y \o B \in Seq(X)
  BY <1>1, <1>3, JoinLength
<1>5. k \o (o \o y) \in Seq(X) /\ o \o (y \o B) \in Seq(X)
  BY <1>1, <1>4, JoinLength
<1>6. Becomes(C \o ((y \o o) \o B), C \o ((k \o (o \o y)) \o B), a)
  BY <1>2, <1>3, <1>4, <1>5, Rewritten
<1>7. (y \o o) \o B = y \o (o \o B) /\ (o \o y) \o B = o \o (y \o B)
  BY <1>0, <1>1, <1>3, ZenonT(40)
<1>8. (k \o (o \o y)) \o B = k \o ((o \o y) \o B)
  <2> DEFINE v == o \o y
  <2>1. v \in Seq(X)
    BY <1>4
  <2> HIDE DEF v
  <2>0. k \in Seq(X) /\ B \in Seq(X)
    BY <1>1, <1>3
  <2>2. (k \o v) \o B = k \o (v \o B)
    BY <1>0, <2>0, <2>1, Zenon
  <2> QED BY <2>2 DEF v
<1>9. C \o (k \o (o \o (y \o B))) = (C \o k) \o (o \o (y \o B))
  <2> DEFINE v == o \o (y \o B)
  <2>1. v \in Seq(X)
    BY <1>5
  <2> HIDE DEF v
  <2>0. C \in Seq(X) /\ k \in Seq(X)
    BY <1>1, <1>3
  <2>2. (C \o k) \o v = C \o (k \o v)
    BY <1>0, <2>0, <2>1, Zenon
  <2> QED BY <2>2 DEF v
<1>10. Becomes(C \o (y \o (o \o B)), (C \o k) \o (o \o (y \o B)), a)
  BY <1>6, <1>7, <1>8, <1>9
<1> QED BY <1>10 DEF o, k

-----------------------------------------------------------------------------
(* The variables behind the chain hold the ranks f, the first the highest. *)
Ranked(f, m, ord, n) ==
  /\ m \in Nat /\ f \in [1 .. n -> 0 .. m]
  /\ ord \in Seq(Singles(n)) /\ Len(ord) = m
  /\ \A y \in 1 .. n : \A i \in 1 .. m : ord[i] = <<y>> <=> f[y] = m + 1 - i

(* One variable, as an arrangement.                                        *)
LEMMA AloneFacts ==
  ASSUME NEW n \in Nat, NEW x \in 1 .. n
  PROVE  /\ Alone(x) \in Seq(Singles(n)) /\ Len(Alone(x)) = 1 /\ Alone(x)[1] = <<x>>
         /\ \A y \in 1 .. n : <<x>> = <<y>> <=> x = y
<1> DEFINE v == <<x>>
           X == Singles(n)
<1>1. v \in X
  BY DEF Singles
<1>2. \A y \in 1 .. n : <<x>> = <<y>> <=> x = y
  <2> SUFFICES ASSUME NEW y \in 1 .. n, <<x>> = <<y>> PROVE x = y
    OBVIOUS
  <2>1. <<x>>[1] = <<y>>[1]
    OBVIOUS
  <2> QED BY <2>1
<1> HIDE DEF v, X
<1>3. <<v>> \in Seq(X) /\ Len(<<v>>) = 1 /\ <<v>>[1] = v
  BY <1>1
<1> QED BY <1>2, <1>3 DEF Alone, v, X

(* A variable met for the first time comes first.                          *)
LEMMA RankNew ==
  ASSUME NEW n \in Nat, NEW f, NEW m, NEW ord, Ranked(f, m, ord, n),
         NEW x \in 1 .. n, f[x] = 0
  PROVE  Ranked([f EXCEPT ![x] = m + 1], m + 1, Alone(x) \o ord, n)
<1> DEFINE g == [f EXCEPT ![x] = m + 1]
           w == Alone(x) \o ord
           X == Singles(n)
           o == Alone(x)
<1>1. /\ m \in Nat /\ f \in [1 .. n -> 0 .. m] /\ ord \in Seq(X) /\ Len(ord) = m
      /\ \A y \in 1 .. n : \A i \in 1 .. m : ord[i] = <<y>> <=> f[y] = m + 1 - i
  BY DEF Ranked
<1>2. /\ o \in Seq(X) /\ Len(o) = 1 /\ o[1] = <<x>>
      /\ \A y \in 1 .. n : <<x>> = <<y>> <=> x = y
  BY AloneFacts
<1>3. g \in [1 .. n -> 0 .. m + 1] /\ g[x] = m + 1 /\ \A y \in 1 .. n : y # x => g[y] = f[y]
  BY <1>1
<1> HIDE DEF X, o, g
<1>4. w \in Seq(X) /\ Len(w) = m + 1 /\ w[1] = <<x>> /\ \A i \in 1 .. m : w[i + 1] = ord[i]
  <2>1. o \in Seq(X) /\ ord \in Seq(X)
    BY <1>1, <1>2
  <2>2. /\ o \o ord \in Seq(X) /\ Len(o \o ord) = Len(o) + Len(ord)
        /\ \A i \in 1 .. Len(o) : (o \o ord)[i] = o[i]
        /\ \A i \in 1 .. Len(ord) : (o \o ord)[Len(o) + i] = ord[i]
    BY <2>1, JoinFacts
  <2>3. w = o \o ord
    BY DEF o
  <2> HIDE DEF w
  <2>4. /\ w \in Seq(X) /\ Len(w) = 1 + m
        /\ \A i \in 1 .. 1 : w[i] = o[i]
        /\ \A i \in 1 .. m : w[1 + i] = ord[i]
    BY <1>1, <1>2, <2>2, <2>3
  <2>5. 1 + m = m + 1 /\ \A i \in 1 .. m : 1 + i = i + 1
    BY <1>1
  <2>6. w[1] = o[1]
    BY <2>4
  <2>7. ASSUME NEW i \in 1 .. m PROVE w[i + 1] = ord[i]
    BY <2>4, <2>5
  <2> QED BY <1>2, <2>4, <2>5, <2>6, <2>7
<1> HIDE DEF w
<1>5. ASSUME NEW y \in 1 .. n, NEW i \in 1 .. m + 1
      PROVE  w[i] = <<y>> <=> g[y] = (m + 1) + 1 - i
  <2>1. CASE i = 1
    <3>1. w[i] = <<y>> <=> x = y
      BY <1>2, <1>4, <2>1
    <3>2. g[y] = m + 1 <=> x = y
      <4>1. f[y] # m + 1
        BY <1>1
      <4> QED BY <1>3, <4>1
    <3>3. (m + 1) + 1 - i = m + 1
      BY <1>1, <2>1
    <3> QED BY <3>1, <3>2, <3>3
  <2>2. CASE i # 1
    <3>1. PICK j \in 1 .. m : i = j + 1
      <4>1. i - 1 \in 1 .. m /\ i = (i - 1) + 1
        BY <1>1, <2>2
      <4> QED BY <4>1
    <3>2. w[i] = ord[j] /\ (m + 1) + 1 - i = m + 1 - j
      BY <1>1, <1>4, <3>1
    <3>3. ord[j] = <<y>> <=> f[y] = m + 1 - j
      BY <1>1
    <3>4. CASE y = x
      <4>1. f[y] # m + 1 - j /\ g[y] # m + 1 - j
        BY <1>1, <1>3, <3>4
      <4> QED BY <3>2, <3>3, <4>1
    <3>5. CASE y # x
      BY <1>3, <3>2, <3>3, <3>5
    <3> QED BY <3>4, <3>5
  <2> QED BY <2>1, <2>2
<1>6. m + 1 \in Nat
  BY <1>1
<1>7. Ranked(g, m + 1, w, n)
  BY <1>3, <1>4, <1>5, <1>6 DEF Ranked, X
<1> QED BY <1>7 DEF g, w

(* ord is y, the variable x and B; w has x in front instead.               *)
Promoted(f, m, ord, n, x, y, B, w) ==
  /\ Len(y) = m - f[x] /\ ord = y \o (Alone(x) \o B)
  /\ Ranked(Promote(f, x, m), m, w, n)
  /\ w[1] = <<x>>
  /\ \A i \in 1 .. m - f[x] : w[i + 1] = ord[i]
  /\ \A i \in 1 .. m : ord[i] = <<x>> => i = m - f[x] + 1

(* A variable met again comes first; those that stood before it step back. *)
LEMMA RankPromoted ==
  ASSUME NEW n \in Nat, NEW f, NEW m, NEW ord, Ranked(f, m, ord, n),
         NEW x \in 1 .. n, f[x] # 0
  PROVE  \E y \in Seq(Singles(n)), B \in Seq(Singles(n)) :
           Promoted(f, m, ord, n, x, y, B, Alone(x) \o (y \o B))
<1> DEFINE k == m - f[x]
           X == Singles(n)
           y == SubSeq(ord, 1, (k + 1) - 1)
           B == SubSeq(ord, (k + 1) + 1, Len(ord))
           o == Alone(x)
           g == Promote(f, x, m)
           w == o \o (y \o B)
<1>1. /\ m \in Nat /\ f \in [1 .. n -> 0 .. m] /\ ord \in Seq(X) /\ Len(ord) = m
      /\ \A z \in 1 .. n : \A i \in 1 .. m : ord[i] = <<z>> <=> f[z] = m + 1 - i
  BY DEF Ranked
<1>2. /\ o \in Seq(X) /\ Len(o) = 1 /\ o[1] = <<x>>
      /\ \A z \in 1 .. n : <<x>> = <<z>> <=> x = z
  BY AloneFacts
<1>3. k \in 0 .. m - 1 /\ k + 1 \in 1 .. m /\ f[x] = m - k /\ f[x] = m + 1 - (k + 1)
  <2> DEFINE r == f[x]
  <2>1. r \in 1 .. m /\ k = m - r /\ m \in Nat
    BY <1>1
  <2> HIDE DEF r, k
  <2>2. k \in 0 .. m - 1 /\ k + 1 \in 1 .. m /\ r = m - k /\ r = m + 1 - (k + 1)
    BY <2>1
  <2> QED BY <2>2 DEF r
<1>4. /\ g \in [1 .. n -> 0 .. m]
      /\ \A z \in 1 .. n : g[z] = IF z = x THEN m ELSE IF f[z] > f[x] THEN f[z] - 1 ELSE f[z]
  <2>1. DOMAIN f = 1 .. n
    BY <1>1
  <2>2. g = [z \in 1 .. n |-> IF z = x THEN m ELSE IF f[z] > f[x] THEN f[z] - 1 ELSE f[z]]
    BY <2>1 DEF Promote
  <2>3. ASSUME NEW z \in 1 .. n
        PROVE  (IF z = x THEN m ELSE IF f[z] > f[x] THEN f[z] - 1 ELSE f[z]) \in 0 .. m
    <3> DEFINE r == f[x]
               q == f[z]
    <3>1. r \in 0 .. m /\ q \in 0 .. m
      BY <1>1
    <3> HIDE DEF r, q
    <3>2. (IF z = x THEN m ELSE IF q > r THEN q - 1 ELSE q) \in 0 .. m
      BY <1>1, <3>1
    <3> QED BY <3>2 DEF r, q
  <2> QED BY <2>2, <2>3
<1>5. ord[k + 1] = <<x>> /\ \A i \in 1 .. m : ord[i] = <<x>> => i = k + 1
  <2>1. ord[k + 1] = <<x>>
    BY <1>1, <1>3
  <2>2. ASSUME NEW i \in 1 .. m, ord[i] = <<x>> PROVE i = k + 1
    <3>1. f[x] = m + 1 - i
      BY <1>1, <2>2
    <3> HIDE DEF k
    <3> QED BY <1>1, <1>3, <3>1
  <2> QED BY <2>1, <2>2
<1> HIDE DEF X, k, o, g
<1>6. /\ y \in Seq(X) /\ Len(y) = k /\ B \in Seq(X) /\ Len(B) = m - (k + 1)
      /\ \A j \in 1 .. k : y[j] = ord[j]
      /\ \A j \in 1 .. m - (k + 1) : B[j] = ord[(k + 1) + j]
      /\ ord = y \o (o \o B)
  <2>1. k + 1 \in 1 .. Len(ord) /\ ord \in Seq(X) /\ (k + 1) - 1 = k
    BY <1>1, <1>3
  <2> DEFINE i == k + 1
  <2> HIDE DEF i
  <2>2. /\ SubSeq(ord, 1, i - 1) \in Seq(X) /\ Len(SubSeq(ord, 1, i - 1)) = i - 1
        /\ SubSeq(ord, i + 1, Len(ord)) \in Seq(X)
        /\ Len(SubSeq(ord, i + 1, Len(ord))) = Len(ord) - i
        /\ \A j \in 1 .. i - 1 : SubSeq(ord, 1, i - 1)[j] = ord[j]
        /\ \A j \in 1 .. Len(ord) - i : SubSeq(ord, i + 1, Len(ord))[j] = ord[i + j]
        /\ ord = SubSeq(ord, 1, i - 1) \o (<<ord[i]>> \o SubSeq(ord, i + 1, Len(ord)))
    BY <2>1, CutAt, ZenonT(40) DEF i
  <2>3. <<ord[i]>> = o
    BY <1>5 DEF i, o, Alone
  <2>4. y = SubSeq(ord, 1, i - 1) /\ B = SubSeq(ord, i + 1, Len(ord)) /\ i - 1 = k
    BY <2>1 DEF i
  <2> HIDE DEF y, B
  <2> QED BY <1>1, <2>2, <2>3, <2>4 DEF i
<1> HIDE DEF y, B
<1> DEFINE v == y \o B
<1>7. /\ v \in Seq(X) /\ Len(v) = k + (m - (k + 1))
      /\ \A i \in 1 .. k : v[i] = y[i]
      /\ \A i \in 1 .. m - (k + 1) : v[k + i] = B[i]
  <2>1. y \in Seq(X) /\ B \in Seq(X)
    BY <1>6
  <2>2. /\ v \in Seq(X) /\ Len(v) = Len(y) + Len(B)
        /\ \A i \in 1 .. Len(y) : v[i] = y[i]
        /\ \A i \in 1 .. Len(B) : v[Len(y) + i] = B[i]
    BY <2>1, JoinFacts
  <2> HIDE DEF v
  <2> QED BY <1>6, <2>2
<1>8. /\ w \in Seq(X) /\ Len(w) = 1 + (k + (m - (k + 1)))
      /\ w[1] = <<x>>
      /\ \A i \in 1 .. k + (m - (k + 1)) : w[1 + i] = v[i]
  <2>0. w = o \o v
    OBVIOUS
  <2> HIDE DEF v, w
  <2>1. o \in Seq(X) /\ v \in Seq(X)
    BY <1>2, <1>7
  <2>2. /\ w \in Seq(X) /\ Len(w) = Len(o) + Len(v)
        /\ \A i \in 1 .. Len(o) : w[i] = o[i]
        /\ \A i \in 1 .. Len(v) : w[Len(o) + i] = v[i]
    BY <2>0, <2>1, JoinFacts
  <2>3. 1 \in 1 .. Len(o)
    BY <1>2
  <2>4. w[1] = <<x>>
    BY <1>2, <2>2, <2>3
  <2> QED BY <1>2, <1>7, <2>2, <2>4
<1> HIDE DEF v, w
<1>9. Len(w) = m
  BY <1>1, <1>3, <1>8
<1>10. \A i \in 1 .. k : w[i + 1] = ord[i]
  <2> SUFFICES ASSUME NEW i \in 1 .. k PROVE w[i + 1] = ord[i]
    OBVIOUS
  <2>1. i \in 1 .. k + (m - (k + 1)) /\ i + 1 = 1 + i
    BY <1>1, <1>3
  <2>2. w[1 + i] = v[i]
    BY <1>8, <2>1
  <2> QED BY <1>6, <1>7, <2>1, <2>2
<1>11. \A i \in k + 2 .. m : w[i] = ord[i]
  <2> SUFFICES ASSUME NEW i \in k + 2 .. m PROVE w[i] = ord[i]
    OBVIOUS
  <2>1. PICK j \in 1 .. m - (k + 1) : i = (k + 1) + j
    <3>1. i - (k + 1) \in 1 .. m - (k + 1) /\ i = (k + 1) + (i - (k + 1))
      BY <1>1, <1>3
    <3> QED BY <3>1
  <2>2. k + j \in 1 .. k + (m - (k + 1)) /\ i = 1 + (k + j)
    BY <1>1, <1>3, <2>1
  <2>3. w[1 + (k + j)] = v[k + j]
    BY <1>8, <2>2
  <2>4. v[k + j] = B[j] /\ B[j] = ord[(k + 1) + j]
    BY <1>6, <1>7
  <2> QED BY <2>1, <2>2, <2>3, <2>4
<1>12. ASSUME NEW z \in 1 .. n, NEW i \in 1 .. m
       PROVE  w[i] = <<z>> <=> g[z] = m + 1 - i
  <2> DEFINE q == f[z]
             r == f[x]
  <2>0. q \in 0 .. m /\ r = m - k /\ m \in Nat /\ k \in 0 .. m - 1
    BY <1>1, <1>3
  <2>1. g[z] = IF z = x THEN m ELSE IF q > r THEN q - 1 ELSE q
    BY <1>4
  <2>2. CASE z = x
    <3>1. g[z] = m
      BY <2>1, <2>2
    <3>2. w[i] = <<x>> <=> i = 1
      <4>1. CASE i = 1
        BY <1>8, <4>1
      <4>2. CASE i \in 2 .. k + 1
        <5>1. i - 1 \in 1 .. k /\ i - 1 \in 1 .. m /\ (i - 1) + 1 = i /\ i - 1 # k + 1
          BY <2>0, <4>2
        <5>2. w[i] = ord[i - 1]
          BY <1>10, <5>1
        <5> QED BY <1>5, <4>2, <5>1, <5>2
      <4>3. CASE i \in k + 2 .. m
        <5>1. i # k + 1 /\ i # 1
          BY <2>0, <4>3
        <5> QED BY <1>5, <1>11, <4>3, <5>1
      <4>4. i = 1 \/ i \in 2 .. k + 1 \/ i \in k + 2 .. m
        BY <2>0
      <4> QED BY <4>1, <4>2, <4>3, <4>4
    <3>3. m = m + 1 - i <=> i = 1
      BY <2>0
    <3> QED BY <2>2, <3>1, <3>2, <3>3
  <2>3. CASE z # x
    <3>1. q # r
      <4>1. ord[k + 1] # <<z>>
        BY <1>2, <1>5, <2>3
      <4>2. q # m + 1 - (k + 1)
        BY <1>1, <1>3, <4>1
      <4> QED BY <1>3, <4>2
    <3>2. g[z] = IF q > r THEN q - 1 ELSE q
      BY <2>1, <2>3
    <3>3. CASE i = 1
      <4>1. w[i] # <<z>>
        BY <1>2, <1>8, <2>3, <3>3
      <4>2. g[z] # m + 1 - i
        <5> HIDE DEF q, r
        <5> QED BY <2>0, <3>1, <3>2, <3>3
      <4> QED BY <4>1, <4>2
    <3>4. CASE i \in 2 .. k + 1
      <4>1. i - 1 \in 1 .. k /\ i - 1 \in 1 .. m /\ (i - 1) + 1 = i
        BY <2>0, <3>4
      <4>2. w[i] = ord[i - 1]
        BY <1>10, <4>1
      <4>3. ord[i - 1] = <<z>> <=> q = m + 1 - (i - 1)
        BY <1>1, <4>1
      <4>4. q = m + 1 - (i - 1) <=> g[z] = m + 1 - i
        <5> HIDE DEF q, r
        <5> QED BY <2>0, <3>1, <3>2, <3>4
      <4> QED BY <4>2, <4>3, <4>4
    <3>5. CASE i \in k + 2 .. m
      <4>1. w[i] = ord[i]
        BY <1>11, <3>5
      <4>2. ord[i] = <<z>> <=> q = m + 1 - i
        BY <1>1
      <4>3. q = m + 1 - i <=> g[z] = m + 1 - i
        <5> HIDE DEF q, r
        <5> QED BY <2>0, <3>1, <3>2, <3>5
      <4> QED BY <4>1, <4>2, <4>3
    <3>6. i = 1 \/ i \in 2 .. k + 1 \/ i \in k + 2 .. m
      BY <2>0
    <3> QED BY <3>3, <3>4, <3>5, <3>6
  <2> QED BY <2>2, <2>3
<1>13. Ranked(g, m, w, n)
  BY <1>1, <1>4, <1>8, <1>9, <1>12 DEF Ranked, X
<1>14. y \in Seq(Singles(n)) /\ B \in Seq(Singles(n)) /\ Len(y) = m - f[x]
  BY <1>6 DEF X, k
<1>15. Promoted(f, m, ord, n, x, y, B, w)
  BY <1>5, <1>6, <1>8, <1>10, <1>13, <1>14 DEF Promoted, g, o, k
<1> QED BY <1>14, <1>15 DEF w, v, o

-----------------------------------------------------------------------------
(* NumVars of a chain.                                                     *)
NumberOf(c) == Max(Variables(c) \cup {0})

(* What is known of a chain that is handed over.                           *)
Handed(c, n) ==
  /\ n \in Nat /\ Formed(c, n) /\ NumberedByOccurrence(c)
  /\ Len(c) \in Nat \ {0} /\ c \in Seq(Terms(n))
  /\ c[1] \in Mats /\ Rows(c[1]) = 2
  /\ \A x \in 1 .. n : \E i \in 1 .. Len(c) : c[i] = <<x>>

(* What get_node_matrix hands over is a tree in prefix notation over variables*)
(* numbered from 1 without gaps.                                           *)
LEMMA ChainFacts ==
  ASSUME NEW c \in Chains
  PROVE  Handed(c, NumberOf(c))
<1> DEFINE m == Len(c)
           S == Variables(c) \cup {0}
           n == NumberOf(c)
           X == Seq(Nat)
<1>1. /\ c \in Seq(X) /\ c # <<>> /\ IsLut(c[1])
      /\ \A i \in DOMAIN c : IsLut(c[i]) \/ (Len(c[i]) = 1 /\ c[i][1] > 0)
      /\ IsPrefixNotation(c) /\ NumberedByOccurrence(c)
  BY ChainsAssumption
<1>2. m \in Nat \ {0} /\ DOMAIN c = 1 .. m /\ \A i \in 1 .. m : c[i] \in X
  <2> HIDE DEF X
  <2> QED BY <1>1
<1>3. \A i \in 1 .. m : c[i] \in Seq(Nat)
  BY <1>2
<1>4. ASSUME NEW i \in 1 .. m, IsLut(c[i])
      PROVE  c[i] \in Mats /\ Rows(c[i]) = 2 /\ ~IsVariable(c[i])
  <2>1. IsMatrix(c[i]) /\ Rows(c[i]) = 2
    BY <1>3, <1>4, LutFacts
  <2>2. c[i] \in Mats
    BY <1>3, <2>1 DEF Mats
  <2> QED BY <2>1, <2>2, MatrixType
<1>5. ASSUME NEW i \in 1 .. m, ~IsLut(c[i])
      PROVE  IsVariable(c[i]) /\ c[i][1] \in Nat \ {0} /\ c[i] = <<c[i][1]>>
  <2> DEFINE v == c[i]
  <2>1. v \in Seq(Nat) /\ Len(v) = 1 /\ v[1] > 0
    BY <1>1, <1>2, <1>3, <1>5
  <2> HIDE DEF v
  <2>2. v[1] \in Nat \ {0} /\ v = <<v[1]>>
    BY <2>1
  <2> QED BY <2>1, <2>2 DEF v, IsVariable
<1> HIDE DEF m, X
<1>6. \A y \in S : y \in Nat /\ (y # 0 => \E i \in 1 .. m : ~IsLut(c[i]) /\ y = c[i][1])
  <2> SUFFICES ASSUME NEW y \in Variables(c)
               PROVE  y \in Nat /\ \E i \in 1 .. m : ~IsLut(c[i]) /\ y = c[i][1]
    OBVIOUS
  <2>1. PICK i \in 1 .. m : IsVariable(c[i]) /\ y = c[i][1]
    BY <1>2 DEF Variables
  <2>2. ~IsLut(c[i])
    BY <1>4, <2>1
  <2> QED BY <1>5, <2>1, <2>2
<1>7. \A i \in 1 .. m : ~IsLut(c[i]) => c[i][1] \in S
  BY <1>2, <1>5 DEF Variables
<1>8. \E b \in Nat : \A y \in S : y <= b
  <2> DEFINE D == {i \in 1 .. m : ~IsLut(c[i])}
             f == [i \in D |-> c[i][1]]
  <2>1. D \in SUBSET (1 .. m) /\ \A d \in D : f[d] \in Nat /\ f[d] = c[d][1]
    BY <1>5
  <2>2. PICK b \in Nat : \A d \in D : f[d] <= b
    <3> HIDE DEF f, D
    <3> QED BY <1>2, <2>1, Bounded
  <2>3. ASSUME NEW y \in S PROVE y <= b
    <3>1. CASE y = 0
      BY <3>1
    <3>2. CASE y # 0
      <4>1. PICK i \in 1 .. m : ~IsLut(c[i]) /\ y = c[i][1]
        BY <1>6, <3>2
      <4>2. i \in D
        BY <4>1
      <4> HIDE DEF D, f
      <4> QED BY <2>1, <2>2, <4>1, <4>2
    <3> QED BY <3>1, <3>2
  <2> QED BY <2>3
<1>9. n \in S /\ n \in Nat /\ \A y \in S : y <= n
  <2>1. n = Max(S)
    BY DEF NumberOf
  <2>2. 0 \in S
    OBVIOUS
  <2> HIDE DEF S, n
  <2>3. S \in SUBSET Nat /\ S # {}
    BY <1>6, <2>2
  <2>4. Max(S) \in S /\ \A y \in S : Max(S) >= y
    BY <1>8, <2>3, MaxOfNumbers
  <2> QED BY <1>6, <2>1, <2>4
<1>10. \A i \in 1 .. m : IsLut(c[i]) \/ \E x \in 1 .. n : c[i] = <<x>>
  <2> SUFFICES ASSUME NEW i \in 1 .. m, ~IsLut(c[i]) PROVE \E x \in 1 .. n : c[i] = <<x>>
    OBVIOUS
  <2>1. c[i][1] \in Nat \ {0} /\ c[i] = <<c[i][1]>> /\ c[i][1] <= n
    BY <1>5, <1>7, <1>9
  <2>2. c[i][1] \in 1 .. n
    <3> DEFINE y == c[i][1]
    <3> HIDE DEF y, n
    <3>1. y \in Nat \ {0} /\ y <= n /\ n \in Nat
      BY <1>9, <2>1 DEF y
    <3>2. y \in 1 .. n
      BY <3>1
    <3> QED BY <3>2 DEF y
  <2> QED BY <2>1, <2>2
<1>11. c \in Seq(Terms(n))
  <2> DEFINE Y == Terms(n)
  <2>1. \A i \in 1 .. m : c[i] \in Y
    BY <1>4, <1>10 DEF Terms
  <2> HIDE DEF Y
  <2>2. c \in Seq(X) /\ Len(c) = m
    BY <1>1 DEF m
  <2>3. c \in Seq(Y)
    BY <2>1, <2>2
  <2> QED BY <2>3 DEF Y
<1>12. Formed(c, n)
  BY <1>1, <1>10 DEF Formed, m, X
<1> HIDE DEF S, n
<1>13. ASSUME NEW x \in 1 .. n PROVE \E i \in 1 .. m : c[i] = <<x>>
  <2> DEFINE T == {j \in 0 .. n - 1 : \E i \in 1 .. m : c[i] = <<n - j>>}
             k == n - 1
  <2>1. k \in Nat /\ n - x \in 0 .. k /\ n - (n - x) = x
    BY <1>9
  <2>2. 0 \in T
    <3>1. PICK i \in 1 .. m : ~IsLut(c[i]) /\ n = c[i][1]
      BY <1>6, <1>9
    <3>2. c[i] = <<n - 0>> /\ 0 \in 0 .. n - 1
      BY <1>5, <1>9, <3>1
    <3> QED BY <3>2
  <2>3. ASSUME NEW j \in 0 .. k - 1, j \in T PROVE j + 1 \in T
    <3>1. PICK i \in 1 .. m : c[i] = <<n - j>>
      BY <2>3
    <3>2. j + 1 \in 0 .. n - 1 /\ (n - j) - 1 = n - (j + 1) /\ n - j # 1
      BY <1>9
    <3>3. IsVariable(c[i]) /\ c[i][1] = n - j
      BY <3>1 DEF IsVariable
    <3>4. PICK l \in 1 .. i - 1 : c[l] = <<c[i][1] - 1>>
      <4>1. c[i][1] # 1
        BY <3>2, <3>3
      <4> QED BY <1>1, <1>2, <3>3, <4>1 DEF NumberedByOccurrence
    <3>5. l \in 1 .. m /\ c[l] = <<n - (j + 1)>>
      BY <1>2, <3>2, <3>3, <3>4
    <3> QED BY <3>2, <3>5
  <2>4. \A j \in 0 .. k : j \in T
    <3> HIDE DEF T, k
    <3> QED BY <2>1, <2>2, <2>3, UpTo
  <2>5. n - x \in T
    BY <2>1, <2>4
  <2> QED BY <2>1, <2>5
<1>14. c[1] \in Mats /\ Rows(c[1]) = 2
  <2>1. 1 \in 1 .. m
    BY <1>2
  <2> QED BY <1>1, <1>4, <2>1
<1> QED BY <1>1, <1>2, <1>9, <1>11, <1>12, <1>13, <1>14 DEF Handed, m, n

(* One LUT over different variables: they are in order.                    *)
LEMMA InOrder ==
  ASSUME NEW c, NEW n, Handed(c, n), Len(c) = n + 1
  PROVE  \A x \in 1 .. n : c[x + 1] = <<x>>
<1>1. /\ n \in Nat /\ NumberedByOccurrence(c) /\ DOMAIN c = 1 .. n + 1
      /\ ~IsVariable(c[1])
      /\ \A x \in 1 .. n : \E i \in 1 .. n + 1 : c[i] = <<x>>
  <2>1. c[1] \in Mats /\ n \in Nat /\ NumberedByOccurrence(c)
        /\ \A x \in 1 .. n : \E i \in 1 .. n + 1 : c[i] = <<x>>
    BY DEF Handed
  <2>2. ~IsVariable(c[1])
    BY <2>1, MatrixType DEF Mats
  <2>3. DOMAIN c = 1 .. n + 1
    <3> DEFINE X == Terms(n)
    <3>1. c \in Seq(X)
      BY DEF Handed
    <3> HIDE DEF X
    <3> QED BY <3>1
  <2> QED BY <2>1, <2>2, <2>3
<1>2. ASSUME NEW x \in 1 .. n, NEW i \in 1 .. n + 1, c[i] = <<x>>
      PROVE  i # 1 /\ (x # 1 => \E j \in 1 .. i - 1 : c[j] = <<x - 1>>)
  <2>1. IsVariable(c[i]) /\ c[i][1] = x
    BY <1>2 DEF IsVariable
  <2>2. i # 1
    BY <1>1, <2>1
  <2>3. x = 1 \/ \E j \in 1 .. i - 1 : c[j] = <<x - 1>>
    BY <1>1, <2>1 DEF NumberedByOccurrence
  <2> QED BY <2>2, <2>3
<1> DEFINE Late(x) == \A i \in 1 .. n + 1 : c[i] = <<x>> => i >= x + 1
           Early(x) == \E i \in 1 .. n + 1 : c[i] = <<x>> /\ i <= x + 1
           T == {x \in 0 .. n : x = 0 \/ Late(x)}
           U == {j \in 0 .. n : j = n \/ Early(n - j)}
<1>3. \A x \in 0 .. n : x \in T
  <2>1. 0 \in T
    BY <1>1
  <2>2. ASSUME NEW x \in 0 .. n - 1, x \in T PROVE x + 1 \in T
    <3>1. x + 1 \in 1 .. n /\ x + 1 \in 0 .. n /\ (x + 1) - 1 = x
      BY <1>1
    <3>2. ASSUME NEW i \in 1 .. n + 1, c[i] = <<x + 1>> PROVE i >= (x + 1) + 1
      <4>1. i # 1 /\ (x + 1 # 1 => \E j \in 1 .. i - 1 : c[j] = <<x>>)
        BY <1>2, <3>1, <3>2
      <4>2. CASE x = 0
        BY <4>1, <4>2
      <4>3. CASE x # 0
        <5>1. PICK j \in 1 .. i - 1 : c[j] = <<x>>
          BY <4>1, <4>3
        <5>2. j \in 1 .. n + 1
          BY <1>1
        <5>3. j >= x + 1
          BY <2>2, <4>3, <5>1, <5>2
        <5> QED BY <5>3
      <4> QED BY <4>2, <4>3
    <3> QED BY <3>1, <3>2
  <2> HIDE DEF T
  <2> QED BY <1>1, <2>1, <2>2, UpTo
<1>4. \A j \in 0 .. n : j \in U
  <2>1. 0 \in U
    <3>1. CASE n = 0
      BY <1>1, <3>1
    <3>2. CASE n # 0
      <4>1. n \in 1 .. n
        BY <1>1, <3>2
      <4>2. PICK i \in 1 .. n + 1 : c[i] = <<n>>
        BY <1>1, <4>1
      <4>3. n - 0 = n /\ i <= n + 1
        BY <1>1
      <4>4. Early(n - 0)
        BY <4>2, <4>3
      <4> QED BY <1>1, <4>4
    <3> QED BY <3>1, <3>2
  <2>2. ASSUME NEW j \in 0 .. n - 1, j \in U PROVE j + 1 \in U
    <3>1. j + 1 \in 0 .. n /\ n - j \in 1 .. n /\ (n - j) - 1 = n - (j + 1) /\ j # n
      BY <1>1
    <3>2. CASE j + 1 = n
      BY <3>1, <3>2
    <3>3. CASE j + 1 # n
      <4>1. PICK i \in 1 .. n + 1 : c[i] = <<n - j>> /\ i <= (n - j) + 1
        BY <2>2, <3>1
      <4>2. n - j # 1
        BY <1>1, <3>3
      <4>3. PICK l \in 1 .. i - 1 : c[l] = <<(n - j) - 1>>
        BY <1>2, <3>1, <4>1, <4>2
      <4>4. l \in 1 .. n + 1 /\ l <= (n - (j + 1)) + 1
        BY <1>1, <3>1, <4>1
      <4>5. Early(n - (j + 1))
        BY <3>1, <4>3, <4>4
      <4> HIDE DEF Early
      <4> QED BY <3>1, <4>5
    <3> QED BY <3>2, <3>3
  <2> HIDE DEF U
  <2> QED BY <1>1, <2>1, <2>2, UpTo
<1>5. ASSUME NEW x \in 1 .. n PROVE c[x + 1] = <<x>>
  <2>1. x \in 0 .. n /\ x # 0 /\ n - x \in 0 .. n /\ n - x # n /\ n - (n - x) = x
    BY <1>1
  <2>2. Late(x)
    BY <1>3, <2>1
  <2>3. Early(x)
    <3> HIDE DEF Early
    <3>1. Early(n - (n - x))
      BY <1>4, <2>1
    <3> QED BY <2>1, <3>1
  <2>4. PICK i \in 1 .. n + 1 : c[i] = <<x>> /\ i <= x + 1
    BY <2>3
  <2>5. i = x + 1
    <3>1. i >= x + 1
      BY <2>2, <2>4
    <3> QED BY <2>4, <3>1
  <2> QED BY <2>4, <2>5
<1> QED BY <1>5

-----------------------------------------------------------------------------
(* The chain c, followed by ord, is worth what the tree g is worth.        *)
Kept(c, ord, g, n) ==
  \A a \in [1 .. n -> 0 .. 1] : Gives(c \o ord, a, Unit, <<2, 1 - TreeValue(g, a)>>)

(* Rewriting keeps it.                                                     *)
LEMMA KeptOn ==
  ASSUME NEW c, NEW ord, NEW d, NEW w, NEW g, NEW n, Kept(c, ord, g, n),
         \A a \in [1 .. n -> 0 .. 1] : Becomes(c \o ord, d \o w, a)
  PROVE  Kept(d, w, g, n)
BY DEF Kept, Becomes

(* A product of 2, one factor of which is not 1; a product of 1.           *)
LEMMA SmallProducts ==
  /\ \A r, k \in Pos : r >= 2 /\ r * k = 2 => r = 2 /\ k = 1
  /\ \A r, k \in Pos : r * k = 1 => r = 1 /\ k = 1
  /\ \A r \in Nat : r * 1 = r
<1>1. ASSUME NEW r \in Pos, NEW k \in Pos, k > 1 PROVE r * k > r
  <2>1. r \in Nat /\ k \in Nat /\ 1 \in Nat /\ 1 < k /\ r > 0
    BY <1>1 DEF Pos
  <2>2. 1 * r < k * r
    BY <2>1, TimesLess
  <2>3. 1 * r = r /\ k * r = r * k
    BY <2>1, Times
  <2>4. r * k \in Nat
    BY <2>1, Times
  <2> QED BY <2>1, <2>2, <2>3, <2>4
<1>2. \A r \in Nat : r * 1 = r
  OBVIOUS
<1>3. ASSUME NEW r \in Pos, NEW k \in Pos, r >= 2, r * k = 2 PROVE r = 2 /\ k = 1
  <2>1. k = 1
    <3>1. CASE k > 1
      <4> DEFINE y == r * k
      <4>1. y > r /\ y = 2 /\ r \in Nat
        BY <1>1, <1>3, <3>1 DEF Pos
      <4> HIDE DEF y
      <4> QED BY <1>3, <4>1
    <3>2. CASE ~(k > 1)
      BY <3>2 DEF Pos
    <3> QED BY <3>1, <3>2
  <2>2. r * 1 = 2 /\ r \in Nat
    BY <1>3, <2>1 DEF Pos
  <2> QED BY <1>2, <2>1, <2>2
<1>4. ASSUME NEW r \in Pos, NEW k \in Pos, r * k = 1 PROVE r = 1 /\ k = 1
  <2>1. k = 1
    <3>1. CASE k > 1
      <4> DEFINE y == r * k
      <4>1. y > r /\ y = 1 /\ r \in Nat \ {0}
        BY <1>1, <1>4, <3>1 DEF Pos
      <4> HIDE DEF y
      <4> QED BY <4>1
    <3>2. CASE ~(k > 1)
      BY <3>2 DEF Pos
    <3> QED BY <3>1, <3>2
  <2>2. r * 1 = 1 /\ r \in Nat
    BY <1>4, <2>1 DEF Pos
  <2> QED BY <1>2, <2>1, <2>2
<1> QED BY <1>2, <1>3, <1>4

(* What a variable stands for.                                             *)
LEMMA ValueOf ==
  \A n \in Nat : \A a \in [1 .. n -> 0 .. 1] : \A x \in 1 .. n :
    Value(<<x>>, a) = Vector(a[x])
BY TermsFacts

(* v is the LUT of the tree g.                                             *)
IsTree(v, g, n) ==
  /\ Rows(v) = 2 /\ Cols(v) = 2 ^ n
  /\ \A a \in [1 .. n -> 0 .. 1] :
       1 - Col(v, 2 ^ n - Number([x \in 1 .. n |-> a[x]])) = TreeValue(g, a)

(* When all variables stand behind it in their order, the product of the   *)
(* chain is the LUT of the tree.                                           *)
LEMMA Normalised ==
  ASSUME NEW g, NEW n, Handed(g, n), NEW c \in Seq(Mats), c # <<>>, Rows(c[1]) = 2,
         NEW ord \in Seq(Singles(n)), Len(ord) = n, \A x \in 1 .. n : ord[x] = <<x>>,
         Kept(c, ord, g, n)
  PROVE  IsTree(ProductOf(c), g, n)
<1> DEFINE P == ProductOf(c)
           X == Terms(n)
<1>1. n \in Nat /\ Formed(g, n)
  BY DEF Handed
<1>2. /\ IsMatrix(P) /\ Rows(P) >= 2
      /\ \A a \in [1 .. n -> 0 .. 1] : \A s, t : Gives(c, a, s, t) => Acts(P, s, t)
  BY <1>1, ProductOfFacts
<1>3. c \in Seq(X)
  <2>1. Mats \subseteq X
    BY DEF Terms
  <2> QED BY <2>1, SeqWidens
<1> HIDE DEF P
<1>4. Rows(P) \in Pos /\ Cols(P) \in Pos
      /\ \A i \in 0 .. Cols(P) - 1 : Col(P, i + 1) \in 0 .. Rows(P) - 1
  BY <1>2, MatrixType
<1>5. ASSUME NEW a \in [1 .. n -> 0 .. 1]
      PROVE  /\ Rows(P) = 2 /\ Cols(P) = 2 ^ n
             /\ 1 - Col(P, 2 ^ n - Number([x \in 1 .. n |-> a[x]])) = TreeValue(g, a)
  <2> DEFINE d == [x \in 1 .. n |-> a[x]]
             b == TreeValue(g, a)
             q == 2 ^ n
             j == Spelled(d)
             y == Number(d)
  <2>0. \A x \in 1 .. n : Value(<<x>>, a) = Vector(a[x])
    <3> HIDE DEF X
    <3> QED BY <1>1, ValueOf
  <2>1. d \in Word /\ Len(d) = n
    BY <1>1 DEF Word
  <2>2. ASSUME NEW x \in 1 .. n PROVE Value(ord[x], a) = Vector(d[x])
    <3>1. ord[x] = <<x>>
      OBVIOUS
    <3>2. Value(<<x>>, a) = Vector(a[x])
      BY <2>0
    <3> QED BY <3>1, <3>2
  <2>3. ord \in Seq(X)
    BY <1>1, SinglesSpell
  <2>4. b \in 0 .. 1
    BY <1>1, TreeGives
  <2>5. Gives(c \o ord, a, Unit, <<2, 1 - b>>)
    BY DEF Kept
  <2>6. j \in 0 .. q - 1 /\ y \in Nat /\ j = q - 1 - y /\ q \in Pos
    BY <1>1, <2>1, SpelledFacts, PowersPos DEF Spelled
  <2> HIDE DEF d, X, b
  <2>7. Spells(ord, a, d)
    BY <2>1, <2>2 DEF Spells
  <2>8. PICK u \in States : Gives(ord, a, Unit, u) /\ Gives(c, a, u, <<2, 1 - b>>)
    BY <1>3, <2>3, <2>5, GivesSplit
  <2>9. u = WordState(d, Unit)
    BY <2>7, <2>8, UnitFacts, WordGives
  <2>10. u = <<q, j>>
    <3>1. u = <<q * 1, j * 1 + 0>>
      BY <2>1, <2>9 DEF WordState, Unit
    <3> HIDE DEF q, j
    <3>2. q * 1 = q /\ j * 1 + 0 = j
      BY <2>6 DEF Pos
    <3> QED BY <3>1, <3>2
  <2>11. Acts(P, u, <<2, 1 - b>>)
    BY <1>2, <2>8
  <2>12. PICK k \in Pos, i \in 0 .. Cols(P) - 1 : \E x \in 0 .. k - 1 :
           u = <<Cols(P) * k, i * k + x>> /\ <<2, 1 - b>> = <<Rows(P) * k, Col(P, i + 1) * k + x>>
    BY <2>11 DEF Acts
  <2>13. PICK x \in 0 .. k - 1 :
           u = <<Cols(P) * k, i * k + x>> /\ <<2, 1 - b>> = <<Rows(P) * k, Col(P, i + 1) * k + x>>
    BY <2>12
  <2> HIDE DEF q, j, y
  <2>14. Rows(P) * k = 2 /\ Col(P, i + 1) * k + x = 1 - b /\ Cols(P) * k = q /\ i * k + x = j
    BY <2>10, <2>13
  <2>15. Rows(P) = 2 /\ k = 1
    BY <1>2, <1>4, <2>14, SmallProducts
  <2>16. x = 0
    BY <2>15
  <2> DEFINE z == Col(P, i + 1)
             cols == Cols(P)
  <2>17. z * 1 + 0 = 1 - b /\ cols * 1 = q /\ i * 1 + 0 = j
    BY <2>14, <2>15, <2>16
  <2>18. z \in Nat /\ cols \in Nat /\ i \in Nat
    BY <1>4 DEF Pos
  <2> HIDE DEF z, cols
  <2>19. z = 1 - b /\ cols = q /\ i = j
    BY <2>17, <2>18
  <2>20. i + 1 = q - y
    BY <2>6, <2>19 DEF Pos
  <2>21. Col(P, q - y) = 1 - b
    BY <2>19, <2>20 DEF z
  <2>22. 1 - (1 - b) = b
    BY <2>4
  <2> QED BY <2>15, <2>19, <2>21, <2>22 DEF cols, q, y, d, b
<1>6. [x \in 1 .. n |-> 0] \in [1 .. n -> 0 .. 1]
  OBVIOUS
<1> QED BY <1>5, <1>6 DEF P, IsTree

(* The product of the values is the value of the tree.                     *)
LEMMA Meaning ==
  ASSUME NEW n \in Nat, NEW a \in [1 .. n -> 0 .. 1], NEW c \in Seq(Terms(n)), c # <<>>,
         NEW b \in 0 .. 1, Gives(c, a, Unit, <<2, 1 - b>>)
  PROVE  ProductOf([i \in 1 .. Len(c) |-> Value(c[i], a)]) = Vector(b)
<1> DEFINE m == Len(c)
           v == [i \in 1 .. m |-> Value(c[i], a)]
           P == ProductOf(v)
           X == Terms(n)
<1>1. m \in Nat \ {0} /\ \A i \in 1 .. m : c[i] \in X
  <2>1. c \in Seq(X)
    OBVIOUS
  <2> HIDE DEF X
  <2> QED BY <2>1
<1>2. \A i \in 1 .. m : Value(c[i], a) \in Mats
  BY <1>1, TermsFacts
<1> HIDE DEF m, X
<1>3. v \in Seq(Mats) /\ Len(v) = m /\ \A i \in 1 .. m : v[i] = Value(c[i], a)
  <2> DEFINE Y == Mats
  <2>1. \A i \in 1 .. m : Value(c[i], a) \in Y
    BY <1>2
  <2> HIDE DEF Y
  <2>2. v \in Seq(Y) /\ Len(v) = m
    BY <1>1, <2>1
  <2> QED BY <2>2 DEF Y
<1> HIDE DEF v
<1>4. v # <<>>
  <2>1. Len(<<>>) = 0 /\ Len(v) # 0
    BY <1>1, <1>3
  <2> QED BY <2>1, Zenon
<1>5. \A i \in 1 .. m : Value(v[i], a) = Value(c[i], a)
  <2> SUFFICES ASSUME NEW i \in 1 .. m PROVE Value(v[i], a) = Value(c[i], a)
    OBVIOUS
  <2>1. v[i] \in Mats
    BY <1>2, <1>3
  <2>2. Value(v[i], a) = v[i]
    BY <2>1, TermsFacts
  <2> QED BY <1>3, <2>2
<1>6. Gives(v, a, Unit, <<2, 1 - b>>)
  <2>1. PICK r : Run(r, c, a) /\ r[m] = Unit /\ r[0] = <<2, 1 - b>>
    BY DEF Gives, m
  <2>2. Run(r, v, a)
    BY <1>3, <1>5, <2>1 DEF Run, m
  <2> QED BY <1>3, <2>1, <2>2 DEF Gives
<1>7. IsMatrix(P) /\ Acts(P, Unit, <<2, 1 - b>>)
  BY <1>3, <1>4, <1>6, ProductOfFacts
<1> HIDE DEF P
<1>8. /\ P \in Seq(Nat) /\ Rows(P) \in Pos /\ Cols(P) \in Pos
      /\ \A i \in 0 .. Cols(P) - 1 : Col(P, i + 1) \in 0 .. Rows(P) - 1
  BY <1>7, MatrixType
<1>9. PICK k \in Pos, i \in 0 .. Cols(P) - 1 : \E x \in 0 .. k - 1 :
        Unit = <<Cols(P) * k, i * k + x>> /\ <<2, 1 - b>> = <<Rows(P) * k, Col(P, i + 1) * k + x>>
  BY <1>7 DEF Acts
<1>10. PICK x \in 0 .. k - 1 :
        Unit = <<Cols(P) * k, i * k + x>> /\ <<2, 1 - b>> = <<Rows(P) * k, Col(P, i + 1) * k + x>>
  BY <1>9
<1>11. Cols(P) * k = 1 /\ Rows(P) * k = 2 /\ Col(P, i + 1) * k + x = 1 - b
  BY <1>10 DEF Unit
<1>12. Cols(P) = 1 /\ k = 1
  BY <1>8, <1>11, SmallProducts
<1>13. x = 0 /\ i = 0
  BY <1>12
<1>14. Rows(P) = 2 /\ Col(P, 1) = 1 - b
  <2> DEFINE r == Rows(P)
             z == Col(P, 1)
  <2>1. r \in Nat /\ z \in Nat
    <3>1. Col(P, 0 + 1) \in 0 .. Rows(P) - 1
      BY <1>8, <1>13
    <3> QED BY <1>8, <3>1 DEF Pos
  <2>2. r * 1 = 2 /\ z * 1 + 0 = 1 - b
    BY <1>11, <1>12, <1>13
  <2> HIDE DEF r, z
  <2>3. r = 2 /\ z = 1 - b
    BY <2>1, <2>2
  <2> QED BY <2>3 DEF r, z
<1>15. Len(P) = 2 /\ P[1] = 2 /\ P[2] = 1 - b
  <2>1. P[1] = 2 /\ P[1 + 1] = 1 - b /\ Len(P) - 1 = 1
    BY <1>12, <1>14 DEF Rows, Col, Cols
  <2> DEFINE l == Len(P)
  <2>2. l \in Nat /\ l - 1 = 1
    BY <1>8, <2>1
  <2> HIDE DEF l
  <2>3. l = 2
    BY <2>2
  <2> QED BY <2>1, <2>3 DEF l
<1>16. P = <<2, 1 - b>>
  BY <1>8, <1>15
<1> QED BY <1>16 DEF Vector, P, v, m

-----------------------------------------------------------------------------
(***************************************************************************)
(* The states of normalize_matrix: g is the chain that was handed over, c  *)
(* the chain, f the ranks, m the number of variables met, q the position,  *)
(* n the number of variables.                                              *)
(***************************************************************************)
Led(g, c, n) == c \in Seq(Terms(n)) /\ Len(c) > 0 /\ c[1] = g[1]

(* Behind position q there are matrices only.                              *)
Solid(c, q) == \A i \in q + 1 .. Len(c) : c[i] \in Mats

(* c is A, the variable x and the matrices R.                              *)
Around(g, n, c, q, x, A, R) ==
  /\ Led(g, A, n) /\ Len(A) = q - 1
  /\ \A i \in 1 .. q - 1 : A[i] = c[i]
  /\ R \in Seq(Mats) /\ Len(R) = Len(c) - q
  /\ c = A \o (Alone(x) \o R)

(* d is c and one element more, m.                                         *)
Longer(c, m, d) ==
  /\ d = c \o <<m>> /\ Len(c) \in Nat /\ Len(d) = Len(c) + 1
  /\ \A i \in 1 .. Len(c) : d[i] = c[i]
  /\ d[Len(c) + 1] = m

(* A variable without a rank is still to come, up to position q.           *)
Coming(f, c, q, n) == \A y \in 1 .. n : f[y] = 0 => \E i \in 1 .. q : c[i] = <<y>>

(* d is c up to position q.                                                *)
SameTo(c, d, q) == \A i \in 1 .. q : d[i] = c[i]

(* d is c up to position q, and from there on it has matrices only.        *)
Lessened(c, d, q) == SameTo(c, d, q - 1) /\ Solid(d, q - 1)

(* d ends at position q with a matrix, where c has the variable x, and does *)
(* what e does once x stands behind it.                                    *)
MovedTo(g, n, c, q, x, e, d) ==
  /\ Led(g, d, n) /\ q > 1 /\ Len(d) = q /\ d[q] \in Mats
  /\ SameTo(c, d, q - 1)
  /\ \A a \in [1 .. n -> 0 .. 1] : \A B \in Seq(Terms(n)) :
       Becomes(e \o B, d \o (Alone(x) \o B), a)

(* Behind the position are matrices only, and a variable that was not met  *)
(* is still to come.                                                       *)
ScanState(g, c, f, q, ord, n) ==
  /\ q \in 0 .. Len(c) /\ Solid(c, q)
  /\ Coming(f, c, q, n)
  /\ Kept(c, ord, g, n)

(* The last variables stand first, in their order.                         *)
RestoreState(g, c, f, m, q, ord, n) ==
  /\ c \in Seq(Mats) /\ m = n /\ q \in 0 .. n
  /\ \A y \in 1 .. n : f[y] # 0
  /\ \A y \in 1 .. n : y > q => ord[y - q] = <<y>>
  /\ Kept(c, ord, g, n)

(* Append is a concatenation.                                              *)
LEMMA AppendIsJoin ==
  ASSUME NEW X, NEW s \in Seq(X), NEW x \in X
  PROVE  Append(s, x) = s \o <<x>> /\ <<x>> \in Seq(X)
<1>1. /\ Append(s, x) \in Seq(X) /\ Len(Append(s, x)) = Len(s) + 1 /\ Len(s) \in Nat
      /\ \A k \in 1 .. Len(s) : Append(s, x)[k] = s[k]
      /\ Append(s, x)[Len(s) + 1] = x
  BY AppendFacts
<1> DEFINE o == <<x>>
           a == Append(s, x)
           l == Len(s)
<1>2. o \in Seq(X) /\ Len(o) = 1 /\ o[1] = x
  OBVIOUS
<1> HIDE DEF o, a
<1> DEFINE j == s \o o
<1>3. /\ j \in Seq(X) /\ Len(j) = Len(s) + Len(o)
      /\ \A i \in 1 .. Len(s) : j[i] = s[i]
      /\ \A i \in 1 .. Len(o) : j[Len(s) + i] = o[i]
  <2>1. o \in Seq(X)
    BY <1>2
  <2> QED BY <2>1, JoinFacts
<1> HIDE DEF j, l
<1>4. /\ j \in Seq(X) /\ Len(j) = l + 1
      /\ \A i \in 1 .. l : j[i] = s[i]
      /\ j[l + 1] = x
  <2>1. 1 \in 1 .. Len(o)
    BY <1>2
  <2> QED BY <1>2, <1>3, <2>1 DEF l
<1>5. /\ a \in Seq(X) /\ Len(a) = l + 1 /\ l \in Nat
      /\ \A i \in 1 .. l : a[i] = s[i]
      /\ a[l + 1] = x
  BY <1>1 DEF a, l
<1>6. ASSUME NEW i \in 1 .. l + 1 PROVE a[i] = j[i]
  <2>1. i \in 1 .. l \/ i = l + 1
    BY <1>5
  <2> QED BY <1>4, <1>5, <2>1
<1>7. a = j
  <2>1. Len(a) = l + 1 /\ Len(j) = Len(a) /\ a \in Seq(X) /\ j \in Seq(X)
    BY <1>4, <1>5
  <2> QED BY <1>6, <2>1, SameSequence
<1> QED BY <1>2, <1>7 DEF a, j, o

(* The matrix a variable passes by becomes one for it and another.         *)
LEMMA PassedMatrix ==
  ASSUME NEW R \in Seq(Mats), R # <<>>
  PROVE  Kron(I2, ProductOf(R)) \in Mats
<1>1. IsMatrix(Kron(I2, ProductOf(R)))
  BY ProductOfFacts, KronI2
<1> QED BY <1>1, MatrixType DEF Mats

(* A chain that is longer by a matrix.                                     *)
LEMMA ChainGrows ==
  ASSUME NEW n \in Nat, NEW g, NEW c, Led(g, c, n), NEW M \in Mats
  PROVE  Led(g, Append(c, M), n) /\ Longer(c, M, Append(c, M))
<1> DEFINE X == Terms(n)
<1>1. c \in Seq(X) /\ M \in X /\ Len(c) > 0 /\ c[1] = g[1]
  BY DEF Led, Terms
<1> HIDE DEF X
<1>2. Append(c, M) = c \o <<M>>
  BY <1>1, AppendIsJoin
<1>3. /\ Append(c, M) \in Seq(X) /\ Len(Append(c, M)) = Len(c) + 1
      /\ Len(c) \in Nat
      /\ \A k \in 1 .. Len(c) : Append(c, M)[k] = c[k]
      /\ Append(c, M)[Len(c) + 1] = M
  BY <1>1, AppendFacts
<1>4. Append(c, M)[1] = g[1] /\ Len(Append(c, M)) > 0
  <2> DEFINE l == Len(c)
  <2>1. 1 \in 1 .. l /\ l + 1 > 0
    BY <1>1, <1>3
  <2> HIDE DEF l
  <2> QED BY <1>1, <1>3, <2>1 DEF l
<1> QED BY <1>2, <1>3, <1>4 DEF Led, Longer, X

(* The chain around the position of a variable.                            *)
LEMMA ChainAt ==
  ASSUME NEW g, NEW n, Handed(g, n), NEW c, Led(g, c, n),
         NEW q \in 1 .. Len(c), NEW x \in 1 .. n, c[q] = <<x>>, Solid(c, q)
  PROVE  /\ q > 1 /\ Len(c) \in Nat
         /\ Around(g, n, c, q, x, SubSeq(c, 1, q - 1), SubSeq(c, q + 1, Len(c)))
<1> DEFINE X == Terms(n)
           A == SubSeq(c, 1, q - 1)
           R == SubSeq(c, q + 1, Len(c))
<1>1. n \in Nat /\ c \in Seq(X) /\ c[1] = g[1] /\ g[1] \in Mats
  BY DEF Led, Handed
<1>2. ~IsVariable(c[1])
  BY <1>1, MatrixType DEF Mats
<1>3. q # 1
  <2>1. Len(<<x>>) = 1
    OBVIOUS
  <2>2. IsVariable(c[q])
    BY <2>1 DEF IsVariable
  <2> QED BY <1>2, <2>2, Zenon
<1> HIDE DEF X
<1>4. /\ A \in Seq(X) /\ Len(A) = q - 1
      /\ R \in Seq(X) /\ Len(R) = Len(c) - q
      /\ \A j \in 1 .. q - 1 : A[j] = c[j]
      /\ \A j \in 1 .. Len(c) - q : R[j] = c[q + j]
      /\ c = A \o (<<c[q]>> \o R)
  <2>1. c \in Seq(X) /\ q \in 1 .. Len(c)
    BY <1>1
  <2> QED BY <2>1, CutAt, ZenonT(40)
<1>5. Len(c) \in Nat
  BY <1>1
<1> HIDE DEF A, R
<1> DEFINE l == Len(c)
           k == l - q
<1>6. k \in Nat /\ l \in Nat /\ q \in 1 .. l /\ k = l - q /\ q > 1 /\ \A j \in 1 .. k : q + j \in q + 1 .. l
  <2>1. l \in Nat /\ q \in 1 .. l
    BY <1>5
  <2> HIDE DEF l
  <2> QED BY <1>3, <2>1
<1>7. R \in Seq(Mats)
  <2> DEFINE Y == Mats
  <2>1. \A j \in 1 .. k : R[j] \in Y
    <3> SUFFICES ASSUME NEW j \in 1 .. k PROVE R[j] \in Y
      OBVIOUS
    <3>1. q + j \in q + 1 .. l
      BY <1>6
    <3> QED BY <1>4, <3>1 DEF Solid
  <2> HIDE DEF Y, k, l
  <2>2. R \in Seq(X) /\ Len(R) = k
    BY <1>4 DEF k, l
  <2>3. R \in Seq(Y)
    BY <2>1, <2>2
  <2> QED BY <2>3 DEF Y
<1>8. Len(A) > 0 /\ A[1] = g[1]
  <2>1. q - 1 > 0 /\ 1 \in 1 .. q - 1
    BY <1>6
  <2> QED BY <1>1, <1>4, <2>1
<1>9. c = A \o (Alone(x) \o R)
  BY <1>4 DEF Alone
<1> QED BY <1>4, <1>5, <1>6, <1>7, <1>8, <1>9 DEF Led, Around, A, R, X

(* MoveBehind(e), where e is the chain or the chain and a swap matrix.     *)
LEMMA Moved ==
  ASSUME NEW g, NEW n, Handed(g, n), NEW c, Led(g, c, n), NEW e, Led(g, e, n),
         NEW q \in 1 .. Len(c), NEW x \in 1 .. n, c[q] = <<x>>,
         Len(e) \in Nat, Len(e) > q, Len(c) \in Nat, Len(e) >= Len(c),
         \A i \in 1 .. Len(c) : e[i] = c[i],
         Solid(e, q), NEW d, d = Append(SubSeq(c, 1, q - 1), Kron(I2, ProductOf(SubSeq(e, q + 1, Len(e)))))
  PROVE  MovedTo(g, n, c, q, x, e, d)
<1> DEFINE R == SubSeq(e, q + 1, Len(e))
           A == SubSeq(c, 1, q - 1)
           A2 == SubSeq(e, 1, q - 1)
           K == Kron(I2, ProductOf(R))
           X == Terms(n)
<1>1. n \in Nat
  BY DEF Handed
<1>2. e[q] = <<x>> /\ q \in 1 .. Len(e)
  <2> DEFINE l == Len(e)
  <2>1. q \in 1 .. l
    <3>1. q \in Nat \ {0} /\ l \in Nat /\ l > q
      OBVIOUS
    <3> HIDE DEF l
    <3> QED BY <3>1
  <2> QED BY <2>1
<1>3. /\ q > 1
      /\ Led(g, A2, n) /\ Len(A2) = q - 1
      /\ \A i \in 1 .. q - 1 : A2[i] = e[i]
      /\ R \in Seq(Mats) /\ Len(R) = Len(e) - q
      /\ e = A2 \o (Alone(x) \o R)
  <2>1. Handed(g, n) /\ Led(g, e, n) /\ q \in 1 .. Len(e) /\ x \in 1 .. n /\ e[q] = <<x>>
        /\ Solid(e, q)
    BY <1>2
  <2>2. q > 1 /\ Around(g, n, e, q, x, A2, R)
    BY <2>1, ChainAt, Zenon
  <2> QED BY <2>2, Zenon DEF Around
<1>4. A2 = A /\ \A i \in 1 .. q - 1 : A[i] = c[i]
  <2>1. c \in Seq(X) /\ A2 \in Seq(X)
    BY <1>3 DEF Led
  <2> HIDE DEF X, A2
  <2>2. q - 1 \in 0 .. Len(c) /\ \A i \in 1 .. q - 1 : i \in 1 .. Len(c)
    <3> DEFINE l == Len(c)
    <3>1. l \in Nat /\ q \in 1 .. l
      OBVIOUS
    <3> HIDE DEF l
    <3>2. q - 1 \in 0 .. l /\ \A i \in 1 .. q - 1 : i \in 1 .. l
      BY <3>1
    <3> QED BY <3>2 DEF l
  <2>3. A \in Seq(X) /\ Len(A) = q - 1 /\ \A i \in 1 .. q - 1 : A[i] = c[i]
    BY <2>1, <2>2, FrontPartFacts
  <2>4. \A i \in 1 .. q - 1 : A2[i] = A[i]
    BY <1>3, <2>2, <2>3
  <2> HIDE DEF A
  <2>5. A2 = A
    BY <1>3, <2>1, <2>3, <2>4, SameSequence
  <2> QED BY <2>3, <2>5
<1>5. R # <<>>
  <2>1. Len(R) # 0
    <3> DEFINE l == Len(e)
               k == Len(R)
    <3>1. l \in Nat /\ l > q /\ k = l - q /\ q \in Nat
      BY <1>3
    <3> HIDE DEF l, k
    <3>2. k # 0
      BY <3>1
    <3> QED BY <3>2 DEF k
  <2>2. Len(<<>>) = 0
    OBVIOUS
  <2> QED BY <2>1, <2>2, Zenon
<1> HIDE DEF R, A2
<1>6. /\ K \in Mats
  BY <1>3, <1>5, PassedMatrix
<1> HIDE DEF K, A
<1>7. /\ Led(g, d, n) /\ d = A \o <<K>> /\ Len(d) = Len(A) + 1 /\ Len(A) = q - 1
      /\ \A i \in 1 .. Len(A) : d[i] = A[i]
      /\ d[Len(A) + 1] = K
  <2>1. Led(g, A, n) /\ Len(A) = q - 1
    BY <1>3, <1>4
  <2>2. d = Append(A, K)
    BY DEF A, K, R
  <2>3. n \in Nat /\ Led(g, A, n) /\ K \in Mats
    BY <1>1, <1>6, <2>1
  <2>4. Led(g, d, n) /\ Longer(A, K, d)
    BY <2>2, <2>3, ChainGrows, Zenon
  <2> QED BY <2>1, <2>4, Zenon DEF Longer
<1>8. Len(d) = q /\ d[q] \in Mats /\ \A i \in 1 .. q - 1 : d[i] = c[i]
  <2>1. (q - 1) + 1 = q
    OBVIOUS
  <2> QED BY <1>4, <1>6, <1>7, <2>1
<1>9. ASSUME NEW a \in [1 .. n -> 0 .. 1], NEW B \in Seq(Terms(n))
      PROVE  Becomes(e \o B, d \o (Alone(x) \o B), a)
  <2>1. A \in Seq(Terms(n))
    BY <1>3, <1>4 DEF Led
  <2>2. Becomes((A \o (Alone(x) \o R)) \o B, (A \o <<K>>) \o (Alone(x) \o B), a)
    BY <1>1, <1>3, <1>5, <2>1, ChainPasses DEF K
  <2> QED BY <1>3, <1>4, <1>7, <2>2
<1> QED BY <1>3, <1>7, <1>8, <1>9 DEF MovedTo, SameTo

-----------------------------------------------------------------------------
(* The state while the chain is scanned.                                   *)
Scan(g, c, f, m, q, ord, n) ==
  Led(g, c, n) /\ Ranked(f, m, ord, n) /\ ScanState(g, c, f, q, ord, n)

(* Different variables are different terms.                                *)
LEMMA VariableFacts ==
  /\ \A x, y \in Nat : <<x>> = <<y>> => x = y
  /\ \A x \in Nat : IsVariable(<<x>>) /\ <<x>> \notin Mats
<1>1. ASSUME NEW x \in Nat, NEW y \in Nat, <<x>> = <<y>> PROVE x = y
  <2>1. <<x>>[1] = x /\ <<y>>[1] = y
    OBVIOUS
  <2> QED BY <1>1, <2>1
<1>2. ASSUME NEW x \in Nat PROVE IsVariable(<<x>>) /\ <<x>> \notin Mats
  <2>1. Len(<<x>>) = 1
    OBVIOUS
  <2>2. IsVariable(<<x>>)
    BY <2>1 DEF IsVariable
  <2>3. \A v \in Mats : ~IsVariable(v)
    BY MatrixType DEF Mats
  <2> QED BY <2>2, <2>3
<1> QED BY <1>1, <1>2

(* ord begins with the variable x.                                         *)
Begins(ord, x, n) == \E B \in Seq(Singles(n)) : ord = Alone(x) \o B

(* The variable of the highest rank stands first behind the chain.         *)
LEMMA FirstBehind ==
  ASSUME NEW n \in Nat, NEW f, NEW m, NEW ord, Ranked(f, m, ord, n),
         NEW x \in 1 .. n, f[x] # 0, f[x] = m
  PROVE  Begins(ord, x, n)
<1>1. PICK y \in Seq(Singles(n)), B \in Seq(Singles(n)) :
        Len(y) = m - f[x] /\ ord = y \o (Alone(x) \o B)
  <2>1. PICK y \in Seq(Singles(n)), B \in Seq(Singles(n)) :
          Promoted(f, m, ord, n, x, y, B, Alone(x) \o (y \o B))
    BY RankPromoted, Zenon
  <2> QED BY <2>1, Zenon DEF Promoted
<1> DEFINE X == Singles(n)
           z == Alone(x) \o B
<1>2. Alone(x) \in Seq(X)
  BY AloneFacts
<1>3. m \in Nat
  BY DEF Ranked
<1>4. Len(y) = 0
  BY <1>1, <1>3
<1> HIDE DEF X
<1>5. z \in Seq(X)
  <2>1. Alone(x) \in Seq(X) /\ B \in Seq(X)
    BY <1>2 DEF X
  <2> QED BY <2>1, JoinFacts
<1> HIDE DEF z
<1>6. y \o z = z
  <2>1. y \in Seq(X)
    BY DEF X
  <2>2. y = <<>>
    BY <1>4, <2>1
  <2> QED BY <1>5, <2>2
<1>7. ord = z
  BY <1>1, <1>6 DEF z
<1> QED BY <1>7 DEF z, Begins

(* Singles are terms.                                                      *)
LEMMA SinglesAreTerms ==
  ASSUME NEW n \in Nat, NEW s \in Seq(Singles(n))
  PROVE  s \in Seq(Terms(n))
<1>1. Singles(n) \subseteq Terms(n)
  BY DEF Singles, Terms
<1> QED BY <1>1, SeqWidens

(* c is A, which is one element shorter, and the variable x.               *)
EndsIn(g, n, c, q, x, A) ==
  /\ q > 1 /\ q \in Nat /\ Led(g, A, n) /\ Len(A) = q - 1
  /\ SameTo(c, A, q - 1)
  /\ c = A \o Alone(x)

(* The chain before its last element, when this is the variable x.         *)
LEMMA EndsWith ==
  ASSUME NEW g, NEW n, Handed(g, n), NEW c, Led(g, c, n),
         NEW q, q = Len(c), NEW x \in 1 .. n, c[q] = <<x>>
  PROVE  EndsIn(g, n, c, q, x, SubSeq(c, 1, q - 1))
<1> DEFINE A == SubSeq(c, 1, q - 1)
           R == SubSeq(c, q + 1, Len(c))
           X == Terms(n)
<1>1. q \in Nat /\ q > 0
  BY DEF Led
<1>2. q \in 1 .. Len(c) /\ Solid(c, q)
  BY <1>1 DEF Solid
<1>3. q > 1 /\ Around(g, n, c, q, x, A, R)
  <2>1. Handed(g, n) /\ Led(g, c, n) /\ q \in 1 .. Len(c) /\ x \in 1 .. n /\ c[q] = <<x>>
        /\ Solid(c, q)
    BY <1>2
  <2> QED BY <2>1, ChainAt, Zenon
<1>4. Alone(x) \in Seq(X) /\ R \in Seq(X) /\ Len(R) = 0
  <2>1. n \in Nat
    BY DEF Handed
  <2>2. Alone(x) \in Seq(Singles(n))
    BY <2>1, AloneFacts
  <2>3. Alone(x) \in Seq(X)
    BY <2>1, <2>2, SinglesAreTerms
  <2> HIDE DEF R
  <2>4. R \in Seq(Mats) /\ Len(R) = 0
    BY <1>1, <1>3 DEF Around
  <2>5. Mats \subseteq X
    BY DEF Terms
  <2> QED BY <2>3, <2>4, <2>5, SeqWidens
<1> HIDE DEF A, R
<1>5. Alone(x) \o R = Alone(x)
  <2> DEFINE o == Alone(x)
  <2> HIDE DEF X, o
  <2>1. o \in Seq(X) /\ R \in Seq(X) /\ Len(R) = 0
    BY <1>4 DEF o
  <2>2. R = <<>>
    BY <2>1
  <2>3. o \o R = o
    BY <2>1, <2>2
  <2> QED BY <2>3 DEF o
<1>6. c = A \o Alone(x)
  BY <1>3, <1>5 DEF Around
<1> QED BY <1>1, <1>3, <1>6 DEF Around, EndsIn, SameTo, A

-----------------------------------------------------------------------------
(* The variables still to come once x at position q was dealt with.        *)
LEMMA StillToCome ==
  ASSUME NEW n \in Nat, NEW f, NEW h, NEW c, NEW d, NEW q \in Nat, NEW x \in 1 .. n,
         Coming(f, c, q, n), c[q] = <<x>>, SameTo(c, d, q - 1),
         \A y \in 1 .. n : h[y] = 0 => f[y] = 0 /\ y # x
  PROVE  Coming(h, d, q - 1, n)
<1> SUFFICES ASSUME NEW y \in 1 .. n, h[y] = 0 PROVE \E i \in 1 .. q - 1 : d[i] = <<y>>
  BY DEF Coming
<1>1. f[y] = 0 /\ y # x
  OBVIOUS
<1>2. PICK i \in 1 .. q : c[i] = <<y>>
  BY <1>1 DEF Coming
<1>3. i # q
  BY <1>1, <1>2, VariableFacts
<1>4. i \in 1 .. q - 1
  BY <1>3
<1> QED BY <1>2, <1>4 DEF SameTo

(* A variable met for the first time at the end of the chain.              *)
LEMMA FirstAtEndKeeps ==
  ASSUME NEW g, NEW n, Handed(g, n), NEW c, NEW f, NEW m, NEW q, NEW ord,
         Scan(g, c, f, m, q, ord, n), NEW x \in 1 .. n,
         q > 0, c[q] = <<x>>, f[x] = 0, q = Len(c)
  PROVE  /\ Scan(g, SubSeq(c, 1, q - 1), [f EXCEPT ![x] = m + 1], m + 1, q - 1,
                 Alone(x) \o ord, n)
         /\ Lessened(c, SubSeq(c, 1, q - 1), q)
<1> DEFINE A == SubSeq(c, 1, q - 1)
           X == Terms(n)
           h == [f EXCEPT ![x] = m + 1]
           o == Alone(x)
<1>1. n \in Nat /\ Led(g, c, n) /\ Ranked(f, m, ord, n) /\ Kept(c, ord, g, n)
      /\ Coming(f, c, q, n)
  BY DEF Scan, ScanState, Handed
<1>2. /\ q > 1 /\ q \in Nat /\ Led(g, A, n) /\ Len(A) = q - 1
      /\ SameTo(c, A, q - 1)
      /\ c = A \o o
  <2>1. Handed(g, n) /\ Led(g, c, n) /\ q = Len(c) /\ x \in 1 .. n /\ c[q] = <<x>>
    BY <1>1
  <2>2. EndsIn(g, n, c, q, x, A)
    BY <2>1, EndsWith, Zenon
  <2> QED BY <2>2 DEF EndsIn
<1>3. Ranked(h, m + 1, o \o ord, n)
  BY <1>1, RankNew
<1>4. c \o ord = A \o (o \o ord)
  <2>1. A \in Seq(X)
    BY <1>2 DEF Led
  <2>2. ord \in Seq(X) /\ o \in Seq(X)
    BY <1>1, AloneFacts, SinglesAreTerms DEF Ranked
  <2> HIDE DEF X, A, o
  <2>3. (A \o o) \o ord = A \o (o \o ord)
    BY <2>1, <2>2, JoinAssoc, SMTT(30)
  <2> QED BY <1>2, <2>3
<1>5. Kept(A, o \o ord, g, n)
  BY <1>1, <1>4 DEF Kept
<1>6. Coming(h, A, q - 1, n)
  <2>1. \A y \in 1 .. n : h[y] = 0 => f[y] = 0 /\ y # x
    <3>1. m + 1 # 0 /\ DOMAIN f = 1 .. n
      BY <1>1 DEF Ranked
    <3> QED BY <3>1
  <2> HIDE DEF A, h
  <2>2. /\ n \in Nat /\ q \in Nat /\ x \in 1 .. n /\ c[q] = <<x>>
        /\ Coming(f, c, q, n) /\ SameTo(c, A, q - 1)
    BY <1>1, <1>2
  <2> QED BY <2>1, <2>2, StillToCome, Zenon
<1> HIDE DEF A, h, o
<1>7. q - 1 \in 0 .. Len(A) /\ Solid(A, q - 1)
  BY <1>2 DEF Solid
<1>8. Scan(g, A, h, m + 1, q - 1, o \o ord, n)
  BY <1>2, <1>3, <1>5, <1>6, <1>7 DEF Scan, ScanState
<1>9. Lessened(c, A, q)
  BY <1>2, <1>7 DEF Lessened
<1> QED BY <1>8, <1>9 DEF A, h, o

(* What MoveBehind makes of the chain.                                     *)
Behinded(c, e, q) == Append(SubSeq(c, 1, q - 1), Kron(I2, ProductOf(SubSeq(e, q + 1, Len(e)))))

(* The chain as it stands.                                                 *)
LEMMA MovedAsItIs ==
  ASSUME NEW g, NEW n, Handed(g, n), NEW c, NEW f, NEW m, NEW q, NEW ord,
         Scan(g, c, f, m, q, ord, n), NEW x \in 1 .. n,
         q > 0, c[q] = <<x>>, q # Len(c)
  PROVE  MovedTo(g, n, c, q, x, c, Behinded(c, c, q)) /\ q \in Nat
<1> DEFINE d == Behinded(c, c, q)
<1>1. /\ Led(g, c, n) /\ Solid(c, q) /\ q \in 0 .. Len(c) /\ Len(c) \in Nat
  <2>1. c \in Seq(Terms(n))
    BY DEF Scan, Led
  <2>2. Len(c) \in Nat
    BY <2>1
  <2> QED BY <2>2 DEF Scan, ScanState
<1>2. q \in 1 .. Len(c) /\ Len(c) > q /\ Len(c) >= Len(c) /\ q \in Nat
  <2> DEFINE l == Len(c)
  <2>1. l \in Nat /\ q \in 0 .. l /\ q > 0 /\ q # l
    BY <1>1
  <2> HIDE DEF l
  <2>2. q \in 1 .. l /\ l > q /\ l >= l /\ q \in Nat
    BY <2>1
  <2> QED BY <2>2 DEF l
<1>3. d = Append(SubSeq(c, 1, q - 1), Kron(I2, ProductOf(SubSeq(c, q + 1, Len(c)))))
  BY DEF Behinded
<1> HIDE DEF d
<1>4. MovedTo(g, n, c, q, x, c, d)
  BY <1>1, <1>2, <1>3, Moved
<1> QED BY <1>2, <1>4 DEF d

(* A variable met for the first time before the end of the chain.          *)
LEMMA FirstKeeps ==
  ASSUME NEW g, NEW n, Handed(g, n), NEW c, NEW f, NEW m, NEW q, NEW ord,
         Scan(g, c, f, m, q, ord, n), NEW x \in 1 .. n,
         q > 0, c[q] = <<x>>, f[x] = 0, q # Len(c)
  PROVE  /\ Scan(g, Behinded(c, c, q), [f EXCEPT ![x] = m + 1], m + 1, q, Alone(x) \o ord, n)
         /\ Lessened(c, Behinded(c, c, q), q)
<1> DEFINE d == Behinded(c, c, q)
           h == [f EXCEPT ![x] = m + 1]
           o == Alone(x)
<1>1. n \in Nat /\ Led(g, c, n) /\ Ranked(f, m, ord, n) /\ Kept(c, ord, g, n)
      /\ Coming(f, c, q, n)
  BY DEF Scan, ScanState, Handed
<1>2. MovedTo(g, n, c, q, x, c, d) /\ q \in Nat
  BY MovedAsItIs
<1>3. Ranked(h, m + 1, o \o ord, n)
  BY <1>1, RankNew
<1>4. Kept(d, o \o ord, g, n)
  <2>1. ord \in Seq(Terms(n))
    BY <1>1, SinglesAreTerms DEF Ranked
  <2> HIDE DEF d
  <2>2. \A a \in [1 .. n -> 0 .. 1] : Becomes(c \o ord, d \o (o \o ord), a)
    BY <1>2, <2>1 DEF MovedTo
  <2> QED BY <1>1, <2>2, KeptOn
<1>5. Coming(h, d, q - 1, n)
  <2>1. \A y \in 1 .. n : h[y] = 0 => f[y] = 0 /\ y # x
    <3>1. m + 1 # 0 /\ DOMAIN f = 1 .. n
      BY <1>1 DEF Ranked
    <3> QED BY <3>1
  <2> HIDE DEF d, h
  <2>2. /\ n \in Nat /\ q \in Nat /\ x \in 1 .. n /\ c[q] = <<x>>
        /\ Coming(f, c, q, n) /\ SameTo(c, d, q - 1)
    BY <1>1, <1>2 DEF MovedTo
  <2> QED BY <2>1, <2>2, StillToCome, Zenon
<1> HIDE DEF d, h, o
<1>6. Coming(h, d, q, n)
  <2>1. 1 .. q - 1 \subseteq 1 .. q
    BY <1>2
  <2> QED BY <1>5, <2>1 DEF Coming
<1>7. q \in 0 .. Len(d) /\ Solid(d, q) /\ Led(g, d, n)
  BY <1>2 DEF Solid, MovedTo
<1>8. Scan(g, d, h, m + 1, q, o \o ord, n)
  BY <1>3, <1>4, <1>6, <1>7 DEF Scan, ScanState
<1>9. Lessened(c, d, q)
  <2>1. Len(d) = q /\ d[q] \in Mats /\ SameTo(c, d, q - 1)
    BY <1>2 DEF MovedTo
  <2>2. \A i \in (q - 1) + 1 .. q : i = q
    BY <1>2
  <2> QED BY <2>1, <2>2 DEF Lessened, Solid
<1> QED BY <1>8, <1>9 DEF d, h, o

-----------------------------------------------------------------------------
(* x has the highest rank.                                                 *)
IsFirst(f, m, x) == f[x] # 0 /\ f[x] = m

(* The power-reducing matrix is a matrix of the chain.                     *)
LEMMA MrIsMatrix == Mr \in Mats
BY MrFacts, MatrixType DEF Mats

(* A variable met again at the end of the chain, the first one behind it.  *)
LEMMA AgainAtEndKeeps ==
  ASSUME NEW g, NEW n, Handed(g, n), NEW c, NEW f, NEW m, NEW q, NEW ord,
         Scan(g, c, f, m, q, ord, n), NEW x \in 1 .. n,
         q > 0, c[q] = <<x>>, IsFirst(f, m, x), q = Len(c)
  PROVE  /\ Scan(g, Append(SubSeq(c, 1, q - 1), Mr), f, m, q, ord, n)
         /\ Lessened(c, Append(SubSeq(c, 1, q - 1), Mr), q)
<1> DEFINE A == SubSeq(c, 1, q - 1)
           d == Append(A, Mr)
           X == Terms(n)
           o == Alone(x)
<1>1. n \in Nat /\ Led(g, c, n) /\ Ranked(f, m, ord, n) /\ Kept(c, ord, g, n)
      /\ Coming(f, c, q, n)
  BY DEF Scan, ScanState, Handed
<1>2. /\ q > 1 /\ q \in Nat /\ Led(g, A, n) /\ Len(A) = q - 1
      /\ SameTo(c, A, q - 1)
      /\ c = A \o o
  <2>1. Handed(g, n) /\ Led(g, c, n) /\ q = Len(c) /\ x \in 1 .. n /\ c[q] = <<x>>
    BY <1>1
  <2>2. EndsIn(g, n, c, q, x, A)
    BY <2>1, EndsWith, Zenon
  <2> QED BY <2>2 DEF EndsIn
<1>3. PICK B \in Seq(Singles(n)) : ord = o \o B
  <2>1. n \in Nat /\ Ranked(f, m, ord, n) /\ x \in 1 .. n /\ f[x] # 0 /\ f[x] = m
    BY <1>1 DEF IsFirst
  <2>2. Begins(ord, x, n)
    BY <2>1, FirstBehind, Zenon
  <2> QED BY <2>2 DEF Begins
<1>4. A \in Seq(X) /\ B \in Seq(X) /\ o \in Seq(X) /\ ord \in Seq(X)
  <2>1. A \in Seq(X)
    BY <1>2 DEF Led
  <2> QED BY <1>1, <2>1, AloneFacts, SinglesAreTerms DEF Ranked
<1> HIDE DEF A, X, o
<1>5. Led(g, d, n) /\ Longer(A, Mr, d)
  <2>1. n \in Nat /\ Led(g, A, n) /\ Mr \in Mats
    BY <1>1, <1>2, MrIsMatrix
  <2> QED BY <2>1, ChainGrows, Zenon
<1>6. Kept(d, ord, g, n)
  <2>1. c \o ord = A \o (o \o (o \o B))
    <3>1. (A \o o) \o ord = A \o (o \o ord)
      <4>1. A \in Seq(X) /\ o \in Seq(X) /\ ord \in Seq(X)
        BY <1>4
      <4> QED BY <4>1, JoinAssoc, SMTT(30)
    <3> QED BY <1>2, <1>3, <3>1
  <2>2. d \o ord = (A \o <<Mr>>) \o (o \o B)
    BY <1>3, <1>5 DEF Longer
  <2>3. \A a \in [1 .. n -> 0 .. 1] :
          Becomes(A \o (o \o (o \o B)), (A \o <<Mr>>) \o (o \o B), a)
    <3>1. A \in Seq(Terms(n)) /\ B \in Seq(Terms(n)) /\ n \in Nat /\ x \in 1 .. n
      BY <1>1, <1>4 DEF X
    <3> QED BY <3>1, ChainReduces, Zenon DEF o
  <2>4. \A a \in [1 .. n -> 0 .. 1] : Becomes(c \o ord, d \o ord, a)
    BY <2>1, <2>2, <2>3, Zenon
  <2> HIDE DEF d
  <2> QED BY <1>1, <2>4, KeptOn
<1> HIDE DEF d
<1>7. Len(d) = q /\ SameTo(c, d, q - 1)
  <2> DEFINE l == Len(A)
  <2>0. l = q - 1
    BY <1>2
  <2>1. \A i \in 1 .. l : d[i] = A[i] /\ A[i] = c[i]
    BY <1>2, <1>5 DEF Longer, SameTo
  <2> HIDE DEF l
  <2>2. \A i \in 1 .. q - 1 : d[i] = c[i]
    BY <2>0, <2>1
  <2>3. Len(d) = l + 1
    BY <1>5 DEF Longer, l
  <2> QED BY <1>2, <2>0, <2>2, <2>3 DEF SameTo
<1>8. Coming(f, d, q, n)
  <2>1. \A y \in 1 .. n : f[y] = 0 => f[y] = 0 /\ y # x
    BY DEF IsFirst
  <2>2. /\ n \in Nat /\ q \in Nat /\ x \in 1 .. n /\ c[q] = <<x>>
        /\ Coming(f, c, q, n) /\ SameTo(c, d, q - 1)
    BY <1>1, <1>2, <1>7
  <2>3. Coming(f, d, q - 1, n)
    BY <2>1, <2>2, StillToCome, Zenon
  <2>4. 1 .. q - 1 \subseteq 1 .. q
    BY <1>2
  <2> QED BY <2>3, <2>4 DEF Coming
<1>9. q \in 0 .. Len(d) /\ Solid(d, q)
  BY <1>2, <1>7 DEF Solid
<1>10. Scan(g, d, f, m, q, ord, n)
  BY <1>1, <1>5, <1>6, <1>8, <1>9 DEF Scan, ScanState
<1>11. Lessened(c, d, q)
  <2>1. (q - 1) + 1 = q /\ \A i \in (q - 1) + 1 .. q : i = q
    BY <1>2
  <2>2. d[q] = Mr
    BY <1>2, <1>5, <2>1 DEF Longer
  <2> QED BY <1>7, <2>1, <2>2, MrIsMatrix DEF Lessened, Solid
<1> QED BY <1>10, <1>11 DEF d, A

(* After MoveBehind, Mr is appended: x x = Mr x.                           *)
LEMMA MovedReduces ==
  ASSUME NEW g, NEW n, Handed(g, n), NEW c, NEW e, NEW q \in Nat, NEW x \in 1 .. n,
         NEW d, MovedTo(g, n, c, q, x, e, d), NEW B \in Seq(Singles(n)),
         Kept(e, Alone(x) \o B, g, n)
  PROVE  /\ Led(g, Append(d, Mr), n) /\ Len(Append(d, Mr)) = q + 1
         /\ Lessened(c, Append(d, Mr), q)
         /\ Solid(Append(d, Mr), q)
         /\ Kept(Append(d, Mr), Alone(x) \o B, g, n)
<1> DEFINE z == Append(d, Mr)
           X == Terms(n)
           o == Alone(x)
           ord == o \o B
<1>1. /\ n \in Nat /\ Led(g, d, n) /\ q > 1 /\ Len(d) = q /\ d[q] \in Mats
      /\ SameTo(c, d, q - 1)
      /\ \A a \in [1 .. n -> 0 .. 1] : \A r \in Seq(X) : Becomes(e \o r, d \o (o \o r), a)
  BY DEF MovedTo, Handed
<1>2. d \in Seq(X) /\ B \in Seq(X) /\ o \in Seq(X)
  <2>1. d \in Seq(X)
    BY <1>1 DEF Led
  <2> QED BY <1>1, <2>1, AloneFacts, SinglesAreTerms
<1> HIDE DEF X, o
<1>3. ord \in Seq(X)
  BY <1>2, JoinFacts
<1>4. Led(g, z, n) /\ Longer(d, Mr, z)
  <2>1. n \in Nat /\ Led(g, d, n) /\ Mr \in Mats
    BY <1>1, MrIsMatrix
  <2> QED BY <2>1, ChainGrows, Zenon
<1>5. Kept(z, ord, g, n)
  <2>1. \A a \in [1 .. n -> 0 .. 1] : Becomes(e \o ord, d \o (o \o ord), a)
    BY <1>1, <1>3, Zenon
  <2>2. \A a \in [1 .. n -> 0 .. 1] :
          Becomes(d \o (o \o (o \o B)), (d \o <<Mr>>) \o (o \o B), a)
    <3>1. d \in Seq(Terms(n)) /\ B \in Seq(Terms(n)) /\ n \in Nat /\ x \in 1 .. n
      BY <1>1, <1>2 DEF X
    <3> QED BY <3>1, ChainReduces, Zenon DEF o
  <2>3. z = d \o <<Mr>>
    BY <1>4 DEF Longer
  <2>4. \A a \in [1 .. n -> 0 .. 1] : Becomes(d \o (o \o ord), z \o ord, a)
    BY <2>2, <2>3, Zenon
  <2>5. Kept(e, ord, g, n)
    BY DEF o
  <2> HIDE DEF z, ord
  <2>6. Kept(d, o \o ord, g, n)
    BY <2>1, <2>5, KeptOn
  <2> QED BY <2>4, <2>6, KeptOn
<1> HIDE DEF z, ord
<1>6. Len(z) = q + 1 /\ z[q + 1] \in Mats /\ \A i \in 1 .. q : z[i] = d[i]
  <2>1. Len(d) = q /\ Mr \in Mats
    BY <1>1, MrIsMatrix
  <2> QED BY <1>4, <2>1 DEF Longer
<1>7. SameTo(c, z, q - 1)
  <2>1. 1 .. q - 1 \subseteq 1 .. q
    OBVIOUS
  <2> QED BY <1>1, <1>6, <2>1 DEF SameTo
<1>8. z[q] \in Mats
  BY <1>1, <1>6
<1>9. Solid(z, q) /\ Lessened(c, z, q)
  <2>1. \A i \in q + 1 .. q + 1 : i = q + 1
    OBVIOUS
  <2>2. \A i \in (q - 1) + 1 .. q + 1 : i = q \/ i = q + 1
    OBVIOUS
  <2> QED BY <1>6, <1>7, <1>8, <2>1, <2>2 DEF Lessened, Solid
<1> QED BY <1>4, <1>5, <1>6, <1>9 DEF z, ord, o

(* The chain z is a state of the scan, and has a variable less than c.     *)
Advanced(g, c, z, h, m, q, w, n) == Scan(g, z, h, m, q, w, n) /\ Lessened(c, z, q)

(* A variable met again before the end of the chain.                       *)
LEMMA AgainKeeps ==
  ASSUME NEW g, NEW n, Handed(g, n), NEW c, NEW e, NEW f, NEW h, NEW m, NEW q \in Nat,
         NEW x \in 1 .. n, c[q] = <<x>>, Coming(f, c, q, n),
         NEW d, MovedTo(g, n, c, q, x, e, d), NEW B \in Seq(Singles(n)),
         Kept(e, Alone(x) \o B, g, n), Ranked(h, m, Alone(x) \o B, n),
         \A y \in 1 .. n : h[y] = 0 => f[y] = 0 /\ y # x
  PROVE  Advanced(g, c, Append(d, Mr), h, m, q, Alone(x) \o B, n)
<1> DEFINE z == Append(d, Mr)
           ord == Alone(x) \o B
<1>1. /\ Led(g, z, n) /\ Len(z) = q + 1 /\ Lessened(c, z, q)
      /\ Solid(z, q) /\ Kept(z, ord, g, n)
  BY MovedReduces
<1>2. n \in Nat
  BY DEF Handed
<1> HIDE DEF z
<1>3. Coming(h, z, q - 1, n)
  <2>1. SameTo(c, z, q - 1)
    BY <1>1 DEF Lessened
  <2> QED BY <1>2, <2>1, StillToCome, Zenon
<1>4. Coming(h, z, q, n)
  <2>1. 1 .. q - 1 \subseteq 1 .. q
    OBVIOUS
  <2> QED BY <1>3, <2>1 DEF Coming
<1>5. q \in 0 .. Len(z)
  BY <1>1
<1> QED BY <1>1, <1>4, <1>5 DEF Advanced, Scan, ScanState, z

(* A variable met again, the first one behind the chain.                   *)
LEMMA AgainFirstKeeps ==
  ASSUME NEW g, NEW n, Handed(g, n), NEW c, NEW f, NEW m, NEW q, NEW ord,
         Scan(g, c, f, m, q, ord, n), NEW x \in 1 .. n,
         q > 0, c[q] = <<x>>, IsFirst(f, m, x), q # Len(c)
  PROVE  /\ Scan(g, Append(Behinded(c, c, q), Mr), f, m, q, ord, n)
         /\ Lessened(c, Append(Behinded(c, c, q), Mr), q)
<1> DEFINE d == Behinded(c, c, q)
<1>1. n \in Nat /\ Led(g, c, n) /\ Ranked(f, m, ord, n) /\ Kept(c, ord, g, n)
      /\ Coming(f, c, q, n)
  BY DEF Scan, ScanState, Handed
<1>2. MovedTo(g, n, c, q, x, c, d) /\ q \in Nat
  BY MovedAsItIs
<1>3. PICK B \in Seq(Singles(n)) : ord = Alone(x) \o B
  <2>1. n \in Nat /\ Ranked(f, m, ord, n) /\ x \in 1 .. n /\ f[x] # 0 /\ f[x] = m
    BY <1>1 DEF IsFirst
  <2>2. Begins(ord, x, n)
    BY <2>1, FirstBehind, Zenon
  <2> QED BY <2>2 DEF Begins
<1> HIDE DEF d
<1>4. Advanced(g, c, Append(d, Mr), f, m, q, Alone(x) \o B, n)
  <2>1. \A y \in 1 .. n : f[y] = 0 => f[y] = 0 /\ y # x
    BY DEF IsFirst
  <2>2. /\ Handed(g, n) /\ q \in Nat /\ x \in 1 .. n /\ c[q] = <<x>> /\ Coming(f, c, q, n)
        /\ MovedTo(g, n, c, q, x, c, d) /\ B \in Seq(Singles(n))
        /\ Kept(c, Alone(x) \o B, g, n) /\ Ranked(f, m, Alone(x) \o B, n)
    BY <1>1, <1>2, <1>3
  <2> QED BY <2>1, <2>2, AgainKeeps, Zenon
<1> QED BY <1>3, <1>4 DEF Advanced, d

(* Promoting leaves the ranks of the others nonzero and zero.              *)
LEMMA PromotedZero ==
  ASSUME NEW n \in Nat, NEW f, NEW m, NEW ord, Ranked(f, m, ord, n), NEW x \in 1 .. n, f[x] # 0
  PROVE  \A y \in 1 .. n : /\ Promote(f, x, m)[y] = 0 => f[y] = 0 /\ y # x
                           /\ f[y] # 0 => Promote(f, x, m)[y] # 0
<1> SUFFICES ASSUME NEW y \in 1 .. n
             PROVE  Promote(f, x, m)[y] = 0 <=> f[y] = 0
  OBVIOUS
<1> DEFINE r == f[x]
           s == f[y]
<1>1. DOMAIN f = 1 .. n /\ r \in 1 .. m /\ s \in 0 .. m /\ m \in Nat
  BY DEF Ranked
<1>2. Promote(f, x, m)[y] = IF y = x THEN m ELSE IF s > r THEN s - 1 ELSE s
  BY <1>1 DEF Promote
<1>3. y = x => s # 0
  OBVIOUS
<1> HIDE DEF r, s
<1>4. Promote(f, x, m)[y] = 0 <=> s = 0
  BY <1>1, <1>2, <1>3
<1> QED BY <1>4 DEF s

(* e is c and the matrix that brings x to the front of what stands behind. *)
Fronts(g, n, c, f, m, ord, x, e) ==
  /\ SwapMatrix(2, 2 ^ (m - f[x])) \in Mats
  /\ Led(g, e, n) /\ Longer(c, SwapMatrix(2, 2 ^ (m - f[x])), e)
  /\ \E y \in Seq(Singles(n)), B \in Seq(Singles(n)) :
       /\ y \o B \in Seq(Singles(n))
       /\ Promoted(f, m, ord, n, x, y, B, Alone(x) \o (y \o B))
       /\ Kept(e, Alone(x) \o (y \o B), g, n)

(* A swap matrix at the end of the chain brings x to the front.            *)
LEMMA ChainSwapped ==
  ASSUME NEW g, NEW n, Handed(g, n), NEW c, Led(g, c, n), NEW f, NEW m, NEW ord,
         Ranked(f, m, ord, n), Kept(c, ord, g, n), NEW x \in 1 .. n, f[x] # 0,
         NEW e, e = Append(c, SwapMatrix(2, 2 ^ (m - f[x])))
  PROVE  Fronts(g, n, c, f, m, ord, x, e)
<1> DEFINE M == SwapMatrix(2, 2 ^ (m - f[x]))
           X == Terms(n)
           S == Singles(n)
           o == Alone(x)
<1>1. n \in Nat
  BY DEF Handed
<1>2. PICK y \in Seq(S), B \in Seq(S) : Promoted(f, m, ord, n, x, y, B, o \o (y \o B))
  BY <1>1, RankPromoted, Zenon
<1>3. Len(y) = m - f[x] /\ ord = y \o (o \o B)
  BY <1>2, Zenon DEF Promoted
<1>4. M \in Mats /\ c \in Seq(X) /\ B \in Seq(X) /\ y \o B \in Seq(S)
  <2>1. \A a \in [1 .. n -> 0 .. 1] : SwapMatrix(2, 2 ^ Len(y)) \in Mats
    BY <1>1, Swapped
  <2>2. [i \in 1 .. n |-> 0] \in [1 .. n -> 0 .. 1]
    OBVIOUS
  <2>3. M \in Mats
    BY <1>3, <2>1, <2>2
  <2>4. B \in Seq(X)
    BY <1>1, SinglesAreTerms
  <2>5. y \o B \in Seq(S)
    <3> HIDE DEF S
    <3>1. y \in Seq(S) /\ B \in Seq(S)
      OBVIOUS
    <3> QED BY <3>1, JoinFacts
  <2> QED BY <2>3, <2>4, <2>5 DEF Led
<1>5. Led(g, e, n) /\ Longer(c, M, e)
  <2> HIDE DEF M
  <2>1. n \in Nat /\ Led(g, c, n) /\ M \in Mats /\ e = Append(c, M)
    BY <1>1, <1>4 DEF M
  <2> QED BY <2>1, ChainGrows, Zenon
<1>6. Kept(e, o \o (y \o B), g, n)
  <2>1. \A a \in [1 .. n -> 0 .. 1] :
          Becomes(c \o (y \o (o \o B)), (c \o <<M>>) \o (o \o (y \o B)), a)
    <3>1. c \in Seq(Terms(n)) /\ B \in Seq(Terms(n)) /\ n \in Nat /\ x \in 1 .. n
          /\ y \in Seq(Singles(n)) /\ Len(y) = m - f[x]
      BY <1>1, <1>3, <1>4
    <3>2. \A a \in [1 .. n -> 0 .. 1] :
            Becomes(c \o (y \o (o \o B)),
                    (c \o <<SwapMatrix(2, 2 ^ Len(y))>>) \o (o \o (y \o B)), a)
      BY <3>1, ChainSwaps, Zenon
    <3> QED BY <3>1, <3>2
  <2>2. e = c \o <<M>>
    BY <1>5 DEF Longer
  <2> DEFINE w == o \o (y \o B)
  <2> HIDE DEF M, o
  <2>3. \A a \in [1 .. n -> 0 .. 1] : Becomes(c \o ord, e \o w, a)
    BY <1>3, <2>1, <2>2, Zenon DEF o
  <2> HIDE DEF w
  <2>4. Kept(e, w, g, n)
    BY <2>3, KeptOn
  <2> QED BY <2>4 DEF w
<1> QED BY <1>2, <1>4, <1>5, <1>6 DEF Fronts

-----------------------------------------------------------------------------
(* A variable met again further back.                                      *)
LEMMA AgainBehindKeeps ==
  ASSUME NEW g, NEW n, Handed(g, n), NEW c, NEW f, NEW m, NEW q, NEW ord,
         Scan(g, c, f, m, q, ord, n), NEW x \in 1 .. n,
         q > 0, c[q] = <<x>>, f[x] # 0,
         NEW e, e = Append(c, SwapMatrix(2, 2 ^ (m - f[x])))
  PROVE  /\ \E w : Scan(g, Append(Behinded(c, e, q), Mr), Promote(f, x, m), m, q, w, n)
         /\ Lessened(c, Append(Behinded(c, e, q), Mr), q)
<1> DEFINE M == SwapMatrix(2, 2 ^ (m - f[x]))
           d == Behinded(c, e, q)
           h == Promote(f, x, m)
<1>1. n \in Nat /\ Led(g, c, n) /\ Ranked(f, m, ord, n) /\ Kept(c, ord, g, n)
      /\ Coming(f, c, q, n) /\ Solid(c, q) /\ q \in 0 .. Len(c) /\ Len(c) \in Nat
  <2>1. c \in Seq(Terms(n))
    BY DEF Scan, Led
  <2>2. Len(c) \in Nat
    BY <2>1
  <2> QED BY <2>2 DEF Scan, ScanState, Handed
<1>2. /\ M \in Mats /\ Led(g, e, n) /\ Longer(c, M, e)
      /\ \E y \in Seq(Singles(n)), B \in Seq(Singles(n)) :
           /\ y \o B \in Seq(Singles(n))
           /\ Promoted(f, m, ord, n, x, y, B, Alone(x) \o (y \o B))
           /\ Kept(e, Alone(x) \o (y \o B), g, n)
  <2>1. Fronts(g, n, c, f, m, ord, x, e)
    BY <1>1, ChainSwapped
  <2> QED BY <2>1, Zenon DEF Fronts
<1>3. PICK y \in Seq(Singles(n)), B \in Seq(Singles(n)) :
        /\ y \o B \in Seq(Singles(n))
        /\ Promoted(f, m, ord, n, x, y, B, Alone(x) \o (y \o B))
        /\ Kept(e, Alone(x) \o (y \o B), g, n)
  BY <1>2
<1> DEFINE z == y \o B
<1>4. z \in Seq(Singles(n)) /\ Kept(e, Alone(x) \o z, g, n) /\ Ranked(h, m, Alone(x) \o z, n)
  BY <1>3 DEF Promoted
<1> HIDE DEF z, M
<1>5. /\ q \in 1 .. Len(c) /\ q \in Nat /\ Len(e) \in Nat /\ Len(e) > q /\ Len(e) >= Len(c)
      /\ \A i \in 1 .. Len(c) : e[i] = c[i]
      /\ Solid(e, q)
  <2> DEFINE l == Len(c)
             k == Len(e)
  <2>1. l \in Nat /\ q \in 0 .. l /\ q > 0 /\ k = l + 1
    BY <1>1, <1>2 DEF Longer
  <2>2. \A i \in 1 .. l : e[i] = c[i]
    BY <1>2 DEF Longer
  <2>3. e[l + 1] \in Mats
    BY <1>2 DEF Longer
  <2>4. \A i \in q + 1 .. l : c[i] \in Mats
    BY <1>1 DEF Solid
  <2> HIDE DEF l, k
  <2>5. q \in 1 .. l /\ q \in Nat /\ k \in Nat /\ k > q /\ k >= l
    BY <2>1
  <2>6. ASSUME NEW i \in q + 1 .. k PROVE e[i] \in Mats
    <3>1. i = l + 1 \/ (i \in q + 1 .. l /\ i \in 1 .. l)
      BY <2>1
    <3> QED BY <2>2, <2>3, <2>4, <3>1
  <2> QED BY <2>2, <2>5, <2>6 DEF l, k, Solid
<1>6. MovedTo(g, n, c, q, x, e, d)
  <2>1. d = Append(SubSeq(c, 1, q - 1), Kron(I2, ProductOf(SubSeq(e, q + 1, Len(e)))))
    BY DEF Behinded
  <2> HIDE DEF d
  <2> QED BY <1>1, <1>2, <1>5, <2>1, Moved
<1>7. \A v \in 1 .. n : h[v] = 0 => f[v] = 0 /\ v # x
  BY <1>1, PromotedZero
<1> HIDE DEF d, h
<1>8. Advanced(g, c, Append(d, Mr), h, m, q, Alone(x) \o z, n)
  <2>1. /\ Handed(g, n) /\ q \in Nat /\ x \in 1 .. n /\ c[q] = <<x>> /\ Coming(f, c, q, n)
        /\ MovedTo(g, n, c, q, x, e, d) /\ z \in Seq(Singles(n))
        /\ Kept(e, Alone(x) \o z, g, n) /\ Ranked(h, m, Alone(x) \o z, n)
    BY <1>1, <1>4, <1>5, <1>6
  <2> QED BY <1>7, <2>1, AgainKeeps, Zenon
<1> QED BY <1>8 DEF Advanced, d, h

(* A matrix is passed.                                                     *)
LEMMA PassKeeps ==
  ASSUME NEW g, NEW n, Handed(g, n), NEW c, NEW f, NEW m, NEW q, NEW ord,
         Scan(g, c, f, m, q, ord, n), q > 0, ~IsVariable(c[q])
  PROVE  Scan(g, c, f, m, q - 1, ord, n)
<1>1. /\ n \in Nat /\ Led(g, c, n) /\ Coming(f, c, q, n) /\ Solid(c, q)
      /\ q \in 0 .. Len(c) /\ Len(c) \in Nat /\ c \in Seq(Terms(n))
  <2>1. c \in Seq(Terms(n))
    BY DEF Scan, Led
  <2>2. Len(c) \in Nat
    BY <2>1
  <2> QED BY <2>1, <2>2 DEF Scan, ScanState, Handed
<1> DEFINE l == Len(c)
<1>2. q \in 1 .. l /\ q - 1 \in 0 .. l /\ q \in Nat /\ l \in Nat
  <2>1. l \in Nat /\ q \in 0 .. l /\ q > 0
    BY <1>1
  <2> HIDE DEF l
  <2> QED BY <2>1
<1>3. c[q] \in Mats
  <2>1. c[q] \in Terms(n)
    <3> DEFINE X == Terms(n)
    <3> HIDE DEF X
    <3>1. c \in Seq(X) /\ q \in 1 .. Len(c)
      BY <1>1, <1>2 DEF X
    <3>2. c[q] \in X
      BY <3>1
    <3> QED BY <3>2 DEF X
  <2>2. \A x \in 1 .. n : IsVariable(<<x>>)
    <3>1. \A x \in 1 .. n : x \in Nat
      OBVIOUS
    <3> QED BY <3>1, VariableFacts, Zenon
  <2> QED BY <2>1, <2>2 DEF Terms
<1> HIDE DEF l
<1>4. Solid(c, q - 1)
  <2>1. ASSUME NEW i \in (q - 1) + 1 .. l PROVE c[i] \in Mats
    <3>1. i = q \/ i \in q + 1 .. l
      BY <1>2
    <3> QED BY <1>1, <1>3, <3>1 DEF Solid, l
  <2> QED BY <2>1 DEF Solid, l
<1>5. Coming(f, c, q - 1, n)
  <2>1. ASSUME NEW y \in 1 .. n, f[y] = 0 PROVE \E i \in 1 .. q - 1 : c[i] = <<y>>
    <3>1. PICK i \in 1 .. q : c[i] = <<y>>
      BY <1>1, <2>1 DEF Coming
    <3>2. IsVariable(<<y>>)
      BY <1>1, VariableFacts
    <3>3. i # q
      BY <3>1, <3>2
    <3>4. i \in 1 .. q - 1
      BY <1>2, <3>3
    <3> QED BY <3>1, <3>4
  <2> QED BY <2>1 DEF Coming
<1> QED BY <1>1, <1>2, <1>4, <1>5 DEF Scan, ScanState, l

(* Once every variable has a rank, there are as many ranks as variables.   *)
LEMMA AllRanked ==
  ASSUME NEW n \in Nat, NEW f, NEW m, NEW ord, Ranked(f, m, ord, n),
         \A y \in 1 .. n : f[y] # 0
  PROVE  m = n
<1>1. /\ m \in Nat /\ f \in [1 .. n -> 0 .. m] /\ ord \in Seq(Singles(n)) /\ Len(ord) = m
      /\ \A y \in 1 .. n : \A i \in 1 .. m : ord[i] = <<y>> <=> f[y] = m + 1 - i
  BY DEF Ranked
<1>2. \A y \in 1 .. n : f[y] \in 1 .. m
  <2> SUFFICES ASSUME NEW y \in 1 .. n PROVE f[y] \in 1 .. m
    OBVIOUS
  <2>1. f[y] \in 0 .. m /\ f[y] # 0
    BY <1>1
  <2> QED BY <1>1, <2>1
<1>3. \A r \in 1 .. m : m + 1 - r \in 1 .. m /\ r = m + 1 - (m + 1 - r)
  BY <1>1
<1>4. ASSUME NEW r \in 1 .. m PROVE \E y \in 1 .. n : f[y] = r
  <2> DEFINE i == m + 1 - r
             X == Singles(n)
  <2>1. i \in 1 .. m /\ r = m + 1 - i
    BY <1>3
  <2> HIDE DEF i
  <2>2. ord[i] \in X
    <3> HIDE DEF X
    <3>1. ord \in Seq(X) /\ i \in 1 .. Len(ord)
      BY <1>1, <2>1 DEF X
    <3> QED BY <3>1
  <2>3. PICK y \in 1 .. n : ord[i] = <<y>>
    BY <2>2 DEF Singles
  <2> QED BY <1>1, <2>1, <2>3
<1>5. ASSUME NEW y \in 1 .. n, NEW z \in 1 .. n, f[y] = f[z] PROVE y = z
  <2> DEFINE i == m + 1 - f[y]
  <2>1. i \in 1 .. m /\ f[y] = m + 1 - i
    BY <1>2, <1>3
  <2> HIDE DEF i
  <2>2. ord[i] = <<y>> /\ ord[i] = <<z>>
    BY <1>1, <1>5, <2>1
  <2> QED BY <2>2, VariableFacts
<1> DEFINE S == 1 .. n
           T == 1 .. m
<1>6. IsFiniteSet(S) /\ Cardinality(S) = n /\ Cardinality(T) = m
  BY <1>1, FS_Interval
<1>7. ExistsBijection(S, T)
  <2>1. f \in [S -> T]
    BY <1>1, <1>2
  <2>2. f \in Bijection(S, T)
    <3>1. \A y, z \in S : f[y] = f[z] => y = z
      BY <1>5
    <3>2. \A r \in T : \E y \in S : f[y] = r
      BY <1>4
    <3> HIDE DEF S, T
    <3>3. f \in Injection(S, T)
      BY <2>1, <3>1 DEF Injection, IsInjective
    <3>4. f \in Surjection(S, T)
      BY <2>1, <3>2 DEF Surjection
    <3> QED BY <3>3, <3>4 DEF Bijection
  <2> QED BY <2>2 DEF ExistsBijection
<1> HIDE DEF S, T
<1>8. Cardinality(T) = Cardinality(S)
  BY <1>6, <1>7, FS_Bijection
<1> QED BY <1>6, <1>8

-----------------------------------------------------------------------------
(* The state while the variables are brought into their order.             *)
Restoring(g, c, f, m, q, ord, n) ==
  Led(g, c, n) /\ Ranked(f, m, ord, n) /\ RestoreState(g, c, f, m, q, ord, n)

(* All variables are met: only matrices are left in the chain.             *)
LEMMA RestoreStarts ==
  ASSUME NEW g, NEW n, Handed(g, n), NEW c, NEW f, NEW m, NEW ord,
         Scan(g, c, f, m, 0, ord, n)
  PROVE  Restoring(g, c, f, m, n, ord, n)
<1>1. n \in Nat /\ Led(g, c, n) /\ Ranked(f, m, ord, n) /\ Kept(c, ord, g, n)
      /\ Coming(f, c, 0, n) /\ Solid(c, 0) /\ c \in Seq(Terms(n))
  BY DEF Scan, ScanState, Handed, Led
<1>2. \A y \in 1 .. n : f[y] # 0
  BY <1>1 DEF Coming
<1>3. m = n
  BY <1>1, <1>2, AllRanked
<1>4. c \in Seq(Mats)
  <2> DEFINE X == Terms(n)
             Y == Mats
             l == Len(c)
  <2>1. \A i \in 1 .. l : c[i] \in Y
    BY <1>1 DEF Solid
  <2> HIDE DEF X, Y
  <2>2. c \in Seq(X)
    BY <1>1 DEF X
  <2>3. c \in Seq(Y)
    BY <2>1, <2>2
  <2> QED BY <2>3 DEF Y
<1>5. n \in 0 .. n /\ \A y \in 1 .. n : ~(y > n)
  BY <1>1
<1> QED BY <1>1, <1>2, <1>3, <1>4, <1>5 DEF Restoring, RestoreState

(* One more variable is brought to the front.                              *)
LEMMA RestoreKeeps ==
  ASSUME NEW g, NEW n, Handed(g, n), NEW c, NEW f, NEW m, NEW q, NEW ord,
         Restoring(g, c, f, m, q, ord, n), q > 0,
         NEW e, e = Append(c, SwapMatrix(2, 2 ^ (m - f[q])))
  PROVE  \E w : Restoring(g, e, Promote(f, q, n), m, q - 1, w, n)
<1> DEFINE M == SwapMatrix(2, 2 ^ (m - f[q]))
           h == Promote(f, q, n)
<1>1. /\ n \in Nat /\ m = n /\ Led(g, c, n) /\ Ranked(f, m, ord, n) /\ Kept(c, ord, g, n)
      /\ c \in Seq(Mats) /\ q \in 0 .. n /\ \A y \in 1 .. n : f[y] # 0
      /\ \A y \in 1 .. n : y > q => ord[y - q] = <<y>>
  BY DEF Restoring, RestoreState, Handed
<1>2. q \in 1 .. n /\ f[q] # 0
  <2>1. q \in 1 .. n
    BY <1>1
  <2> QED BY <1>1, <2>1
<1>3. Fronts(g, n, c, f, m, ord, q, e)
  BY <1>1, <1>2, ChainSwapped
<1>4. /\ M \in Mats /\ Led(g, e, n) /\ Longer(c, M, e)
      /\ \E y \in Seq(Singles(n)), B \in Seq(Singles(n)) :
           /\ y \o B \in Seq(Singles(n))
           /\ Promoted(f, m, ord, n, q, y, B, Alone(q) \o (y \o B))
           /\ Kept(e, Alone(q) \o (y \o B), g, n)
  BY <1>3, Zenon DEF Fronts
<1>5. PICK y \in Seq(Singles(n)), B \in Seq(Singles(n)) :
        /\ Promoted(f, m, ord, n, q, y, B, Alone(q) \o (y \o B))
        /\ Kept(e, Alone(q) \o (y \o B), g, n)
  BY <1>4
<1> DEFINE w == Alone(q) \o (y \o B)
<1>6. /\ Kept(e, w, g, n) /\ Ranked(h, m, w, n) /\ w[1] = <<q>>
      /\ \A i \in 1 .. m - f[q] : w[i + 1] = ord[i]
      /\ \A i \in 1 .. m : ord[i] = <<q>> => i = m - f[q] + 1
  BY <1>1, <1>5 DEF Promoted
<1> HIDE DEF w, h, M
<1>7. e \in Seq(Mats)
  <2> DEFINE Y == Mats
  <2> HIDE DEF Y
  <2>1. c \in Seq(Y) /\ M \in Y /\ e = Append(c, M)
    BY <1>1, <1>4 DEF Y, M
  <2>2. e \in Seq(Y)
    BY <2>1
  <2> QED BY <2>2 DEF Y
<1>8. \A v \in 1 .. n : h[v] # 0
  BY <1>1, <1>2, PromotedZero DEF h
<1> DEFINE k == m - f[q]
<1>9. k \in 0 .. n - 1 /\ f[q] = m + 1 - (k + 1)
  <2> DEFINE r == f[q]
  <2>1. r \in 0 .. m /\ r # 0 /\ m = n /\ n \in Nat /\ k = m - r
    BY <1>1, <1>2 DEF Ranked
  <2> HIDE DEF r, k
  <2>2. k \in 0 .. n - 1 /\ r = m + 1 - (k + 1)
    BY <2>1
  <2> QED BY <2>2 DEF r
<1>10. ord[k + 1] = <<q>>
  <2>1. k + 1 \in 1 .. m
    BY <1>1, <1>9, SMTT(30)
  <2> HIDE DEF k
  <2> QED BY <1>1, <1>2, <1>9, <2>1 DEF Ranked
<1>11. n - q <= k
  <2> SUFFICES ASSUME ~(n - q <= k) PROVE FALSE
    OBVIOUS
  <2> HIDE DEF k
  <2>1. q + (k + 1) \in 1 .. n /\ q + (k + 1) > q /\ (q + (k + 1)) - q = k + 1
    BY <1>1, <1>2, <1>9
  <2>2. ord[(q + (k + 1)) - q] = <<q + (k + 1)>>
    BY <1>1, <2>1
  <2>3. <<q>> = <<q + (k + 1)>>
    BY <1>10, <2>1, <2>2
  <2>4. q = q + (k + 1)
    <3>1. q \in Nat /\ q + (k + 1) \in Nat
      BY <1>2, <2>1
    <3> QED BY <2>3, <3>1, VariableFacts
  <2> QED BY <1>2, <1>9, <2>4
<1>12. ASSUME NEW v \in 1 .. n, v > q - 1 PROVE w[v - (q - 1)] = <<v>>
  <2>1. CASE v = q
    <3>1. v - (q - 1) = 1
      BY <1>2, <2>1
    <3> QED BY <1>6, <2>1, <3>1
  <2>2. CASE v # q
    <3> HIDE DEF k
    <3>1. v > q /\ v - q \in 1 .. k /\ v - (q - 1) = (v - q) + 1
      <4>1. n \in Nat
        BY <1>1
      <4> QED BY <1>2, <1>9, <1>11, <1>12, <2>2, <4>1
    <3>2. w[(v - q) + 1] = ord[v - q]
      BY <1>6, <3>1 DEF k
    <3>3. ord[v - q] = <<v>>
      BY <1>1, <3>1
    <3> QED BY <3>1, <3>2, <3>3
  <2> QED BY <2>1, <2>2
<1>13. q - 1 \in 0 .. n
  <2>1. n \in Nat /\ q \in 1 .. n
    BY <1>1, <1>2
  <2> QED BY <2>1
<1>14. Restoring(g, e, h, m, q - 1, w, n)
  BY <1>1, <1>4, <1>6, <1>7, <1>8, <1>12, <1>13 DEF Restoring, RestoreState
<1> QED BY <1>14 DEF h

(* The product returned is the LUT of the tree.                            *)
LEMMA ReturnIsTree ==
  ASSUME NEW g, NEW n, Handed(g, n), NEW c, NEW f, NEW m, NEW ord,
         Restoring(g, c, f, m, 0, ord, n)
  PROVE  IsTree(ProductOf(c), g, n)
<1>1. /\ n \in Nat /\ c \in Seq(Mats) /\ Len(c) > 0 /\ c[1] = g[1] /\ Rows(g[1]) = 2
      /\ ord \in Seq(Singles(n)) /\ Len(ord) = n /\ Kept(c, ord, g, n)
      /\ \A y \in 1 .. n : y > 0 => ord[y - 0] = <<y>>
  BY DEF Restoring, RestoreState, Handed, Led, Ranked
<1>2. c # <<>>
  <2>1. Len(<<>>) = 0
    OBVIOUS
  <2> QED BY <1>1, <2>1
<1>3. \A y \in 1 .. n : ord[y] = <<y>>
  <2>1. \A y \in 1 .. n : y > 0 /\ y - 0 = y
    OBVIOUS
  <2> QED BY <1>1, <2>1
<1>4. Rows(c[1]) = 2
  BY <1>1
<1> QED BY <1>1, <1>2, <1>3, <1>4, Normalised

(* The product of one matrix.                                              *)
LEMMA ProductOfOne ==
  ASSUME NEW v \in Mats
  PROVE  ProductOf(<<v>>) = v /\ <<v>> \in Seq(Mats) /\ <<v>> # <<>> /\ <<v>>[1] = v
<1> DEFINE c == <<v>>
           Y == Mats
<1> HIDE DEF Y
<1>1. c \in Seq(Y) /\ Len(c) = 1 /\ c[1] = v /\ c # <<>>
  <2>1. v \in Y
    BY DEF Y
  <2> QED BY <2>1
<1>2. PICK q \in [0 .. Len(c) - 1 -> Mats] : q[0] = c[1] /\ ProductOf(c) = q[Len(c) - 1]
  <2> HIDE DEF c
  <2>1. c \in Seq(Mats) /\ c # <<>>
    BY <1>1 DEF Y
  <2> QED BY <2>1, ProductRun
<1> HIDE DEF c
<1>3. Len(c) - 1 = 0
  BY <1>1
<1>4. ProductOf(c) = v
  BY <1>1, <1>2, <1>3
<1> QED BY <1>1, <1>4 DEF c, Y

(* A chain of one LUT and its variables in their order is normal.          *)
LEMMA NormalAlready ==
  ASSUME NEW g, NEW n, Handed(g, n), Len(g) = n + 1
  PROVE  IsTree(g[1], g, n)
<1> DEFINE v == g[1]
           X == Terms(n)
           ord == SubSeq(g, 1 + 1, Len(g))
<1>1. /\ n \in Nat /\ Formed(g, n) /\ Len(g) = n + 1 /\ g \in Seq(X) /\ v \in Mats
      /\ Rows(v) = 2 /\ \A x \in 1 .. n : g[x + 1] = <<x>>
  BY InOrder DEF Handed
<1>2. /\ ord \in Seq(X) /\ Len(ord) = n /\ \A j \in 1 .. n : ord[j] = g[1 + j]
      /\ g = <<>> \o (<<v>> \o ord) /\ <<v>> \in Seq(X)
  <2> HIDE DEF X
  <2>1. g \in Seq(X) /\ 1 \in 1 .. Len(g) /\ Len(g) - 1 = n /\ 1 - 1 = 0
    BY <1>1
  <2>2. SubSeq(g, 1, 0) = <<>>
    <3>1. 0 \in 0 .. Len(g)
      BY <2>1
    <3>2. SubSeq(g, 1, 0) \in Seq(X) /\ Len(SubSeq(g, 1, 0)) = 0
      BY <2>1, <3>1, FrontPartFacts
    <3> QED BY <3>2
  <2>3. /\ SubSeq(g, 1 + 1, Len(g)) \in Seq(X)
        /\ Len(SubSeq(g, 1 + 1, Len(g))) = Len(g) - 1
        /\ <<g[1]>> \in Seq(X)
        /\ \A j \in 1 .. Len(g) - 1 : SubSeq(g, 1 + 1, Len(g))[j] = g[1 + j]
        /\ g = SubSeq(g, 1, 1 - 1) \o (<<g[1]>> \o SubSeq(g, 1 + 1, Len(g)))
    BY <2>1, CutAt
  <2> HIDE DEF ord
  <2> QED BY <2>1, <2>2, <2>3 DEF ord
<1> HIDE DEF ord, v
<1>3. g = <<v>> \o ord
  <2> DEFINE z == <<v>> \o ord
             o == <<v>>
  <2> HIDE DEF X, o
  <2>1. o \in Seq(X) /\ ord \in Seq(X)
    BY <1>2 DEF o
  <2>2. o \o ord \in Seq(X)
    BY <2>1, JoinFacts
  <2>3. z \in Seq(X)
    BY <2>2 DEF o
  <2> HIDE DEF z
  <2>4. <<>> \o z = z
    BY <2>3
  <2>5. g = <<>> \o z
    BY <1>2 DEF z
  <2> QED BY <2>4, <2>5 DEF z
<1>4. \A x \in 1 .. n : ord[x] = <<x>>
  <2>1. \A x \in 1 .. n : x + 1 = 1 + x
    BY <1>1
  <2> QED BY <1>1, <1>2, <2>1
<1>5. ord \in Seq(Singles(n))
  <2> DEFINE Y == Singles(n)
  <2>1. \A x \in 1 .. n : ord[x] \in Y
    BY <1>4 DEF Singles
  <2> HIDE DEF X, Y
  <2>2. ord \in Seq(X) /\ Len(ord) = n
    BY <1>2
  <2>3. ord \in Seq(Y)
    BY <2>1, <2>2
  <2> QED BY <2>3 DEF Y
<1>6. Kept(<<v>>, ord, g, n)
  BY <1>1, <1>3, TreeGives DEF Kept
<1>7. ProductOf(<<v>>) = v /\ <<v>> \in Seq(Mats) /\ <<v>> # <<>> /\ <<v>>[1] = v
  BY <1>1, ProductOfOne
<1> DEFINE c == <<v>>
<1>8. c \in Seq(Mats) /\ c # <<>> /\ Rows(c[1]) = 2 /\ ProductOf(c) = v /\ Kept(c, ord, g, n)
  BY <1>1, <1>6, <1>7
<1> HIDE DEF c
<1>9. IsTree(ProductOf(c), g, n)
  BY <1>2, <1>4, <1>5, <1>8, Normalised
<1> QED BY <1>8, <1>9 DEF v

(* The chain as it was handed over.                                        *)
LEMMA ScanStarts ==
  ASSUME NEW g, NEW n, Handed(g, n)
  PROVE  Scan(g, g, [x \in 1 .. n |-> 0], 0, Len(g), <<>>, n)
<1> DEFINE f == [x \in 1 .. n |-> 0]
<1>1. /\ n \in Nat /\ Formed(g, n) /\ Len(g) \in Nat \ {0} /\ g \in Seq(Terms(n))
      /\ \A x \in 1 .. n : \E i \in 1 .. Len(g) : g[i] = <<x>>
  BY DEF Handed
<1>2. Led(g, g, n)
  BY <1>1 DEF Led
<1>3. Ranked(f, 0, <<>>, n)
  <2>1. <<>> \in Seq(Singles(n)) /\ Len(<<>>) = 0 /\ f \in [1 .. n -> 0 .. 0]
    OBVIOUS
  <2>2. 1 .. 0 = {}
    OBVIOUS
  <2> QED BY <2>1, <2>2 DEF Ranked
<1>4. Kept(g, <<>>, g, n)
  <2>1. g \o <<>> = g
    <3> DEFINE X == Terms(n)
    <3> HIDE DEF X
    <3>1. g \in Seq(X)
      BY <1>1 DEF X
    <3> QED BY <3>1
  <2> QED BY <1>1, <2>1, TreeGives DEF Kept
<1>5. Coming(f, g, Len(g), n)
  BY <1>1 DEF Coming
<1>6. Len(g) \in 0 .. Len(g) /\ Solid(g, Len(g))
  BY <1>1 DEF Solid
<1> QED BY <1>2, <1>3, <1>4, <1>5, <1>6 DEF Scan, ScanState

-----------------------------------------------------------------------------
(* A chain with fewer variables.                                           *)
LEMMA FewerOccurrences ==
  ASSUME NEW n \in Nat, NEW c \in Seq(Terms(n)), NEW d \in Seq(Terms(n)),
         NEW q \in 1 .. Len(c), IsVariable(c[q]), Lessened(c, d, q)
  PROVE  /\ Occurrences(d) \in Nat /\ Occurrences(c) \in Nat
         /\ Occurrences(d) < Occurrences(c)
<1> DEFINE S == {i \in DOMAIN c : IsVariable(c[i])}
           T == {i \in DOMAIN d : IsVariable(d[i])}
<1>1. /\ Len(c) \in Nat /\ DOMAIN c = 1 .. Len(c)
      /\ Len(d) \in Nat /\ DOMAIN d = 1 .. Len(d)
  <2> DEFINE X == Terms(n)
  <2> HIDE DEF X
  <2>1. c \in Seq(X) /\ d \in Seq(X)
    BY DEF X
  <2> QED BY <2>1
<1>2. q \in S
  BY <1>1
<1>3. ASSUME NEW i \in T PROVE i \in S \ {q}
  <2> DEFINE k == Len(c)
             l == Len(d)
  <2>1. i \in 1 .. l /\ IsVariable(d[i]) /\ k \in Nat /\ l \in Nat /\ q \in 1 .. k
    BY <1>1
  <2> HIDE DEF k, l
  <2>2. i \in 1 .. q - 1
    <3>1. ASSUME i \in (q - 1) + 1 .. l PROVE FALSE
      <4>1. d[i] \in Mats
        BY <3>1 DEF Lessened, Solid, l
      <4>2. ~IsVariable(d[i])
        BY <4>1, MatrixType DEF Mats
      <4> QED BY <2>1, <4>2
    <3>2. i \in 1 .. q - 1 \/ i \in (q - 1) + 1 .. l
      BY <2>1
    <3> QED BY <3>1, <3>2
  <2>3. d[i] = c[i]
    BY <2>2 DEF Lessened, SameTo
  <2>4. i \in 1 .. k /\ i # q
    BY <2>1, <2>2
  <2> QED BY <1>1, <2>1, <2>3, <2>4 DEF k
<1>4. IsFiniteSet(S)
  <2>1. IsFiniteSet(1 .. Len(c))
    BY <1>1, FS_Interval
  <2>2. S \subseteq 1 .. Len(c)
    BY <1>1
  <2> QED BY <2>1, <2>2, FS_Subset
<1> HIDE DEF S, T
<1>5. IsFiniteSet(S \ {q}) /\ Cardinality(S \ {q}) = Cardinality(S) - 1
  BY <1>2, <1>4, FS_RemoveElement
<1>6. IsFiniteSet(T) /\ Cardinality(T) <= Cardinality(S \ {q})
  BY <1>3, <1>5, FS_Subset
<1>7. Cardinality(S) \in Nat /\ Cardinality(T) \in Nat
  BY <1>4, <1>6, FS_CardinalityType
<1>8. Cardinality(T) < Cardinality(S)
  BY <1>5, <1>6, <1>7
<1> QED BY <1>7, <1>8 DEF Occurrences, S, T

(* Every element of a chain is a variable or well formed.                  *)
LEMMA ElementsWellFormed ==
  ASSUME NEW n \in Nat, NEW c \in Seq(Terms(n))
  PROVE  /\ \A i \in DOMAIN c : c[i] # TypeError
         /\ \A i \in DOMAIN c : IsVariable(c[i]) \/
              \A j \in 1 .. Cols(c[i]) : Col(c[i], j) \in 0 .. Rows(c[i]) - 1
<1>1. ASSUME NEW i \in DOMAIN c PROVE c[i] \in Terms(n)
  <2> DEFINE X == Terms(n)
  <2> HIDE DEF X
  <2>1. c \in Seq(X)
    BY DEF X
  <2>2. c[i] \in X
    BY <2>1
  <2> QED BY <2>2 DEF X
<1>2. ASSUME NEW v \in Mats
      PROVE  v # TypeError /\ \A j \in 1 .. Cols(v) : Col(v, j) \in 0 .. Rows(v) - 1
  <2>1. /\ v # TypeError /\ Cols(v) \in Pos
        /\ \A i \in 0 .. Cols(v) - 1 : Col(v, i + 1) \in 0 .. Rows(v) - 1
    BY MatrixType DEF Mats
  <2>2. ASSUME NEW j \in 1 .. Cols(v) PROVE Col(v, j) \in 0 .. Rows(v) - 1
    <3> DEFINE k == Cols(v)
    <3>1. k \in Nat /\ j \in 1 .. k
      BY <2>1 DEF Pos
    <3> HIDE DEF k
    <3>2. j - 1 \in 0 .. k - 1 /\ (j - 1) + 1 = j
      BY <3>1
    <3> QED BY <2>1, <3>2 DEF k
  <2> QED BY <2>1, <2>2
<1>3. ASSUME NEW x \in 1 .. n PROVE <<x>> # TypeError /\ IsVariable(<<x>>)
  <2>1. Len(<<x>>) = 1 /\ <<x>> # <<>>
    OBVIOUS
  <2> QED BY <2>1 DEF TypeError, IsVariable
<1>4. ASSUME NEW i \in DOMAIN c
      PROVE  /\ c[i] # TypeError
             /\ IsVariable(c[i]) \/ \A j \in 1 .. Cols(c[i]) : Col(c[i], j) \in 0 .. Rows(c[i]) - 1
  <2>1. c[i] \in Mats \/ \E x \in 1 .. n : c[i] = <<x>>
    BY <1>1 DEF Terms
  <2>2. CASE c[i] \in Mats
    BY <1>2, <2>2
  <2>3. CASE \E x \in 1 .. n : c[i] = <<x>>
    BY <1>3, <2>3
  <2> QED BY <2>1, <2>2, <2>3
<1> QED BY <1>4

(* Each rank belongs to the variable that stands in ord at its position.   *)
RankAt(f, m, ord, n, i) ==
  \E x \in 1 .. n : /\ ord[i] = <<x>> /\ f[x] = m + 1 - i
                    /\ \A y \in 1 .. n : f[y] = m + 1 - i => y = x

(* The ranks have no gaps, and each belongs to the variable ord has there. *)
LEMMA RanksOf ==
  ASSUME NEW n \in Nat, NEW f, NEW m, NEW ord, Ranked(f, m, ord, n)
  PROVE  /\ {f[x] : x \in DOMAIN f} \ {0} = 1 .. m
         /\ \A i \in 1 .. m : RankAt(f, m, ord, n, i)
<1>1. /\ m \in Nat /\ f \in [1 .. n -> 0 .. m] /\ ord \in Seq(Singles(n)) /\ Len(ord) = m
      /\ \A y \in 1 .. n : \A i \in 1 .. m : ord[i] = <<y>> <=> f[y] = m + 1 - i
  BY DEF Ranked
<1>2. ASSUME NEW i \in 1 .. m
      PROVE  \E x \in 1 .. n :
               /\ ord[i] = <<x>> /\ f[x] = m + 1 - i
               /\ \A y \in 1 .. n : f[y] = m + 1 - i => y = x
  <2> DEFINE X == Singles(n)
  <2>1. ord[i] \in X
    <3> HIDE DEF X
    <3>1. ord \in Seq(X) /\ i \in 1 .. Len(ord)
      BY <1>1 DEF X
    <3> QED BY <3>1
  <2>2. PICK x \in 1 .. n : ord[i] = <<x>>
    BY <2>1 DEF Singles
  <2>3. f[x] = m + 1 - i
    BY <1>1, <2>2
  <2>4. ASSUME NEW y \in 1 .. n, f[y] = m + 1 - i PROVE y = x
    <3>1. ord[i] = <<y>>
      BY <1>1, <2>4
    <3>2. x \in Nat /\ y \in Nat
      OBVIOUS
    <3> QED BY <2>2, <3>1, <3>2, VariableFacts
  <2> QED BY <2>2, <2>3, <2>4
<1>3. {f[x] : x \in DOMAIN f} \ {0} \subseteq 1 .. m
  <2>1. ASSUME NEW x \in 1 .. n, f[x] # 0 PROVE f[x] \in 1 .. m
    <3>1. f[x] \in 0 .. m
      BY <1>1
    <3> QED BY <1>1, <2>1, <3>1
  <2>2. DOMAIN f = 1 .. n
    BY <1>1
  <2> QED BY <2>1, <2>2
<1>4. ASSUME NEW r \in 1 .. m PROVE r \in {f[x] : x \in DOMAIN f} \ {0}
  <2> DEFINE i == m + 1 - r
  <2>1. i \in 1 .. m /\ r = m + 1 - i /\ r # 0
    BY <1>1
  <2> HIDE DEF i
  <2>2. PICK x \in 1 .. n : f[x] = m + 1 - i
    BY <1>2, <2>1
  <2>3. x \in DOMAIN f
    BY <1>1
  <2> QED BY <2>1, <2>2, <2>3
<1>5. {f[x] : x \in DOMAIN f} \ {0} = 1 .. m
  BY <1>3, <1>4
<1> QED BY <1>2, <1>5 DEF RankAt

-----------------------------------------------------------------------------
(* The product of the chain and the variables behind it under a.           *)
Worth(c, f, m, n, a) ==
  ProductOf([i \in DOMAIN c |-> IF IsVariable(c[i]) THEN Vector(a[c[i][1]]) ELSE c[i]]
            \o [i \in 1 .. m |-> Vector(a[CHOOSE x \in 1 .. n : f[x] = m + 1 - i])])

(* What the chain and the variables behind it are worth.                   *)
LEMMA MeaningAt ==
  ASSUME NEW g, NEW n, Handed(g, n), NEW c, NEW f, NEW m, NEW q, NEW ord,
         Scan(g, c, f, m, q, ord, n), NEW a \in [1 .. n -> 0 .. 1]
  PROVE  Worth(c, f, m, n, a) = Vector(TreeValue(g, a))
<1> DEFINE X == Terms(n)
           Y == Mats
           k == Len(c)
           e == c \o ord
           u == [i \in 1 .. k |-> Value(c[i], a)]
           t(i) == Vector(a[CHOOSE x \in 1 .. n : f[x] = m + 1 - i])
           w == [i \in 1 .. m |-> t(i)]
           v == [i \in 1 .. Len(e) |-> Value(e[i], a)]
<1>1. /\ n \in Nat /\ c \in Seq(X) /\ k > 0 /\ m \in Nat
      /\ ord \in Seq(X) /\ Len(ord) = m /\ Formed(g, n) /\ Kept(c, ord, g, n)
  <2>1. ord \in Seq(Singles(n)) /\ n \in Nat
    BY DEF Scan, Ranked, Handed
  <2>2. ord \in Seq(X)
    BY <2>1, SinglesAreTerms
  <2> QED BY <2>1, <2>2 DEF Scan, ScanState, Ranked, Led, Handed
<1>2. [i \in DOMAIN c |-> IF IsVariable(c[i]) THEN Vector(a[c[i][1]]) ELSE c[i]] = u
  <2>1. DOMAIN c = 1 .. k
    <3> HIDE DEF X
    <3> QED BY <1>1
  <2> QED BY <2>1 DEF Value
<1>3. \A i \in 1 .. m : w[i] = Value(ord[i], a)
  <2> SUFFICES ASSUME NEW i \in 1 .. m PROVE w[i] = Value(ord[i], a)
    OBVIOUS
  <2>1. PICK x \in 1 .. n : /\ ord[i] = <<x>> /\ f[x] = m + 1 - i
                            /\ \A y \in 1 .. n : f[y] = m + 1 - i => y = x
    <3>1. n \in Nat /\ Ranked(f, m, ord, n)
      BY <1>1 DEF Scan
    <3>2. \A j \in 1 .. m : RankAt(f, m, ord, n, j)
      BY <3>1, RanksOf
    <3> QED BY <3>2, Zenon DEF RankAt
  <2>2. (CHOOSE y \in 1 .. n : f[y] = m + 1 - i) = x
    BY <2>1, Zenon
  <2>3. Value(<<x>>, a) = Vector(a[x])
    BY <1>1, ValueOf
  <2> QED BY <2>1, <2>2, <2>3
<1> HIDE DEF w, k
<1>4. /\ e \in Seq(X) /\ Len(e) = k + m /\ k \in Nat
      /\ \A i \in 1 .. k : e[i] = c[i]
      /\ \A i \in 1 .. m : e[k + i] = ord[i]
  <2> HIDE DEF X
  <2>1. c \in Seq(X) /\ ord \in Seq(X)
    BY <1>1
  <2>2. /\ e \in Seq(X) /\ Len(e) = Len(c) + Len(ord) /\ Len(c) \in Nat
        /\ \A i \in 1 .. Len(c) : e[i] = c[i]
        /\ \A i \in 1 .. Len(ord) : e[Len(c) + i] = ord[i]
    BY <2>1, JoinFacts
  <2> HIDE DEF e
  <2> QED BY <1>1, <2>2 DEF k
<1> HIDE DEF e
<1>5. ProductOf(v) = Vector(TreeValue(g, a))
  <2>1. Len(e) # 0
    BY <1>1, <1>4
  <2>2. e # <<>>
    <3>1. Len(<<>>) = 0
      OBVIOUS
    <3> QED BY <2>1, <3>1, Zenon
  <2>3. TreeValue(g, a) \in 0 .. 1 /\ Gives(e, a, Unit, <<2, 1 - TreeValue(g, a)>>)
    BY <1>1, TreeGives DEF Kept, e
  <2> DEFINE b == TreeValue(g, a)
  <2>4. n \in Nat /\ e \in Seq(Terms(n)) /\ b \in 0 .. 1 /\ Gives(e, a, Unit, <<2, 1 - b>>)
    BY <1>1, <1>4, <2>3
  <2> HIDE DEF b
  <2>5. ProductOf(v) = Vector(b)
    BY <2>2, <2>4, Meaning
  <2> QED BY <2>5 DEF b
<1>6. \A i \in 1 .. Len(e) : Value(e[i], a) \in Y
  <2> SUFFICES ASSUME NEW i \in 1 .. Len(e) PROVE Value(e[i], a) \in Y
    OBVIOUS
  <2>1. e[i] \in X
    <3> HIDE DEF X
    <3> QED BY <1>4
  <2> QED BY <1>1, <2>1, TermsFacts
<1>7. u \o w = v
  <2> HIDE DEF Y
  <2> DEFINE z == u \o w
             l == k + m
  <2>1. l \in Nat /\ k \in Nat /\ m \in Nat /\ Len(e) = l
        /\ (\A i \in 1 .. k : i \in 1 .. l) /\ \A i \in 1 .. m : k + i \in 1 .. l
    BY <1>1, <1>4
  <2>2. v \in Seq(Y) /\ Len(v) = l /\ \A i \in 1 .. l : v[i] = Value(e[i], a)
    BY <1>6, <2>1
  <2> HIDE DEF l
  <2>3. u \in Seq(Y) /\ Len(u) = k /\ \A i \in 1 .. k : u[i] = v[i]
    <3>1. \A i \in 1 .. k : Value(c[i], a) = v[i] /\ v[i] \in Y
      BY <1>4, <1>6, <2>1, <2>2
    <3> HIDE DEF v
    <3> QED BY <2>1, <3>1
  <2>4. w \in Seq(Y) /\ Len(w) = m /\ \A i \in 1 .. m : w[i] = v[k + i]
    <3>1. \A i \in 1 .. m : w[i] = v[k + i] /\ v[k + i] \in Y
      BY <1>3, <1>4, <1>6, <2>1, <2>2
    <3>2. \A i \in 1 .. m : t(i) \in Y
      BY <3>1 DEF w
    <3> HIDE DEF v, t
    <3>3. w \in Seq(Y) /\ Len(w) = m
      BY <2>1, <3>2 DEF w
    <3> QED BY <3>1, <3>3
  <2> HIDE DEF u, v
  <2>5. /\ z \in Seq(Y) /\ Len(z) = Len(u) + Len(w)
        /\ \A i \in 1 .. Len(u) : z[i] = u[i]
        /\ \A i \in 1 .. Len(w) : z[Len(u) + i] = w[i]
    <3>1. u \in Seq(Y) /\ w \in Seq(Y)
      BY <2>3, <2>4
    <3> QED BY <3>1, JoinFacts
  <2> HIDE DEF z
  <2>6. Len(z) = l /\ (\A i \in 1 .. k : z[i] = v[i]) /\ \A i \in 1 .. m : z[k + i] = v[k + i]
    BY <2>3, <2>4, <2>5 DEF l
  <2>7. ASSUME NEW i \in 1 .. l PROVE z[i] = v[i]
    <3>1. CASE i \in 1 .. k
      BY <2>6, <3>1
    <3>2. CASE i \notin 1 .. k
      <4>1. PICK j \in 1 .. m : i = k + j
        <5>1. i - k \in 1 .. m /\ i = k + (i - k)
          BY <2>1, <3>2 DEF l
        <5> QED BY <5>1
      <4> QED BY <2>6, <4>1
    <3> QED BY <3>1, <3>2
  <2>8. z = v
    BY <2>2, <2>5, <2>6, <2>7, SameSequence
  <2> QED BY <2>8 DEF z
<1>8. Worth(c, f, m, n, a) = ProductOf(u \o w)
  <2> DEFINE z == [i \in DOMAIN c |-> IF IsVariable(c[i]) THEN Vector(a[c[i][1]]) ELSE c[i]]
  <2>1. Worth(c, f, m, n, a) = ProductOf(z \o w)
    BY Zenon DEF Worth, w
  <2>2. z = u
    BY <1>2
  <2> HIDE DEF z, u
  <2> QED BY <2>1, <2>2
<1> QED BY <1>5, <1>7, <1>8

-----------------------------------------------------------------------------
(***************************************************************************)
(* The inductive invariant.  Some arrangement ord of the variables met     *)
(* stands behind the chain: idx is its ranks, and the chain followed by it *)
(* is worth what the tree is worth.                                        *)
(***************************************************************************)
Arranged(g, c, f, m, q, r, at, ord, n) ==
  /\ Led(g, c, n) /\ Ranked(f, m, ord, n)
  /\ at = "scan" => Scan(g, c, f, m, q, ord, n)
  /\ at = "restore" => Restoring(g, c, f, m, q, ord, n)
  /\ at = "done" => IsTree(r, g, n)

IInv ==
  /\ given \in Chains
  /\ pc \in {"scan", "restore", "done"}
  /\ \E ord : Arranged(given, chain, idx, met, p, result, pc, ord, NumberOf(given))

(* The number of variables is the one the lemmas speak of.                 *)
LEMMA NumVarsIs == NumVars = NumberOf(given)
BY DEF NumVars, NumberOf

(* A state of the scan, a state of the restoring loop.                     *)
LEMMA ArrangedWhen ==
  ASSUME NEW g, NEW c, NEW f, NEW m, NEW q, NEW r, NEW at, NEW ord, NEW n
  PROVE  /\ Scan(g, c, f, m, q, ord, n) /\ at = "scan" => Arranged(g, c, f, m, q, r, at, ord, n)
         /\ Restoring(g, c, f, m, q, ord, n) /\ at = "restore"
              => Arranged(g, c, f, m, q, r, at, ord, n)
<1>1. "scan" # "restore" /\ "scan" # "done" /\ "restore" # "done"
  OBVIOUS
<1> QED BY <1>1 DEF Arranged, Scan, Restoring

(* Every chain that is handed over starts in the invariant.                *)
LEMMA InitIInv == Init => IInv
<1> SUFFICES ASSUME Init PROVE IInv
  OBVIOUS
<1> DEFINE n == NumberOf(given)
<1>1. given \in Chains /\ chain = given /\ idx = [x \in 1 .. n |-> 0] /\ met = 0
      /\ p = Len(given) /\ pc = "scan"
  BY NumVarsIs DEF Init
<1>2. Handed(given, n)
  BY <1>1, ChainFacts
<1> HIDE DEF n
<1>3. Scan(given, chain, idx, met, p, <<>>, n)
  BY <1>1, <1>2, ScanStarts
<1>4. Arranged(given, chain, idx, met, p, result, pc, <<>>, n)
  BY <1>1, <1>3, ArrangedWhen
<1> QED BY <1>1, <1>4 DEF IInv, n

(* A step of the scan at a variable leaves a state of the scan, and a      *)
(* variable less in the chain.                                             *)
LEMMA VariableSteps ==
  ASSUME IInv, NEW x \in 1 .. NumVars,
         FirstAtEnd(x) \/ First(x) \/ AgainAtEnd(x) \/ AgainFirst(x) \/ AgainBehind(x)
  PROVE  /\ pc = "scan" /\ pc' = "scan" /\ given' = given
         /\ \E w : Scan(given, chain', idx', met', p', w, NumberOf(given))
         /\ Lessened(chain, chain', p) /\ p \in 1 .. Len(chain) /\ IsVariable(chain[p])
<1> DEFINE n == NumberOf(given)
           c == chain
           f == idx
           m == met
           q == p
<1>1. Handed(given, n) /\ NumVars = n
  BY NumVarsIs, ChainFacts DEF IInv
<1>2. /\ pc = "scan" /\ pc' = "scan" /\ given' = given
      /\ q > 0 /\ c[q] = <<x>> /\ x \in 1 .. n
  BY <1>1 DEF FirstAtEnd, First, AgainAtEnd, AgainFirst, AgainBehind, Scanning
<1>3. PICK ord : Scan(given, c, f, m, q, ord, n)
  BY <1>2 DEF IInv, Arranged
<1>4. q \in 1 .. Len(c) /\ IsVariable(c[q]) /\ Len(c) \in Nat
  <2>1. c \in Seq(Terms(n))
    BY <1>3 DEF Scan, Led
  <2>2. Len(c) \in Nat
    BY <2>1
  <2>3. q \in 0 .. Len(c)
    BY <1>3 DEF Scan, ScanState
  <2>4. x \in Nat
    BY <1>2
  <2>5. IsVariable(<<x>>)
    BY <2>4, VariableFacts
  <2> QED BY <1>2, <2>2, <2>3, <2>5
<1>5. ASSUME NEW e PROVE MoveBehind(e) = Behinded(c, e, q)
  BY DEF MoveBehind, Behinded, Before, After
<1> HIDE DEF n
<1>6. CASE FirstAtEnd(x)
  <2>1. f[x] = 0 /\ q = Len(c) /\ chain' = SubSeq(c, 1, q - 1) /\ p' = q - 1
        /\ idx' = [f EXCEPT ![x] = m + 1] /\ met' = m + 1
    BY <1>6 DEF FirstAtEnd, Before
  <2>2. /\ Scan(given, SubSeq(c, 1, q - 1), [f EXCEPT ![x] = m + 1], m + 1, q - 1,
                Alone(x) \o ord, n)
        /\ Lessened(c, SubSeq(c, 1, q - 1), q)
    BY <1>1, <1>2, <1>3, <2>1, FirstAtEndKeeps
  <2> QED BY <1>2, <1>4, <2>1, <2>2 DEF n
<1>7. CASE First(x)
  <2>1. f[x] = 0 /\ q # Len(c) /\ chain' = Behinded(c, c, q) /\ p' = q
        /\ idx' = [f EXCEPT ![x] = m + 1] /\ met' = m + 1
    BY <1>5, <1>7 DEF First
  <2>2. /\ Scan(given, Behinded(c, c, q), [f EXCEPT ![x] = m + 1], m + 1, q,
                Alone(x) \o ord, n)
        /\ Lessened(c, Behinded(c, c, q), q)
    BY <1>1, <1>2, <1>3, <2>1, FirstKeeps
  <2> QED BY <1>2, <1>4, <2>1, <2>2 DEF n
<1>8. CASE AgainAtEnd(x)
  <2>1. IsFirst(f, m, x) /\ q = Len(c) /\ chain' = Append(SubSeq(c, 1, q - 1), Mr)
        /\ p' = q /\ idx' = f /\ met' = m
    BY <1>8 DEF AgainAtEnd, Before, IsFirst
  <2>2. /\ Scan(given, Append(SubSeq(c, 1, q - 1), Mr), f, m, q, ord, n)
        /\ Lessened(c, Append(SubSeq(c, 1, q - 1), Mr), q)
    BY <1>1, <1>2, <1>3, <2>1, AgainAtEndKeeps
  <2> QED BY <1>2, <1>4, <2>1, <2>2 DEF n
<1>9. CASE AgainFirst(x)
  <2>1. IsFirst(f, m, x) /\ q # Len(c) /\ chain' = Append(Behinded(c, c, q), Mr)
        /\ p' = q /\ idx' = f /\ met' = m
    BY <1>5, <1>9 DEF AgainFirst, IsFirst
  <2>2. /\ Scan(given, Append(Behinded(c, c, q), Mr), f, m, q, ord, n)
        /\ Lessened(c, Append(Behinded(c, c, q), Mr), q)
    BY <1>1, <1>2, <1>3, <2>1, AgainFirstKeeps
  <2> QED BY <1>2, <1>4, <2>1, <2>2 DEF n
<1>10. CASE AgainBehind(x)
  <2> DEFINE e == Append(c, SwapMatrix(2, 2 ^ (m - f[x])))
  <2>1. f[x] # 0 /\ chain' = Append(Behinded(c, e, q), Mr)
        /\ p' = q /\ idx' = Promote(f, x, m) /\ met' = m
    BY <1>5, <1>10 DEF AgainBehind
  <2>2. e = Append(c, SwapMatrix(2, 2 ^ (m - f[x])))
    OBVIOUS
  <2> HIDE DEF e
  <2>3. /\ \E w : Scan(given, Append(Behinded(c, e, q), Mr), Promote(f, x, m), m, q, w, n)
        /\ Lessened(c, Append(Behinded(c, e, q), Mr), q)
    BY <1>1, <1>2, <1>3, <2>1, <2>2, AgainBehindKeeps
  <2> QED BY <1>2, <1>4, <2>1, <2>3 DEF n
<1> QED BY <1>6, <1>7, <1>8, <1>9, <1>10

(* Every step keeps the invariant.                                         *)
LEMMA NextIInv == IInv /\ [Next]_vars => IInv'
<1> SUFFICES ASSUME IInv, [Next]_vars PROVE IInv'
  OBVIOUS
<1> DEFINE n == NumberOf(given)
<1>1. Handed(given, n) /\ NumVars = n /\ given \in Chains
  BY NumVarsIs, ChainFacts DEF IInv
<1>2. PICK ord : Arranged(given, chain, idx, met, p, result, pc, ord, n)
  BY DEF IInv
<1>3. ASSUME given' = given, pc' \in {"scan", "restore", "done"},
             \E w : Arranged(given, chain', idx', met', p', result', pc', w, n)
      PROVE  IInv'
  BY <1>1, <1>3 DEF IInv
<1> HIDE DEF n
<1>4. CASE AlreadyNormal
  <2>1. /\ pc = "scan" /\ Len(given) = n + 1 /\ result' = given[1] /\ pc' = "done"
        /\ given' = given /\ chain' = chain /\ idx' = idx /\ met' = met /\ p' = p
    BY <1>1, <1>4 DEF AlreadyNormal
  <2>2. IsTree(given[1], given, n)
    BY <1>1, <2>1, NormalAlready
  <2>3. Arranged(given, chain', idx', met', p', result', pc', ord, n)
    BY <1>2, <2>1, <2>2 DEF Arranged
  <2> QED BY <1>3, <2>1, <2>3
<1>5. CASE PassMatrix
  <2>1. /\ pc = "scan" /\ p > 0 /\ ~IsVariable(chain[p]) /\ p' = p - 1
        /\ given' = given /\ chain' = chain /\ idx' = idx /\ met' = met /\ pc' = "scan"
    BY <1>5 DEF PassMatrix
  <2>2. Scan(given, chain, idx, met, p - 1, ord, n)
    BY <1>1, <1>2, <2>1, PassKeeps DEF Arranged
  <2>3. Arranged(given, chain', idx', met', p', result', pc', ord, n)
    BY <2>1, <2>2, ArrangedWhen
  <2> QED BY <1>3, <2>1, <2>3
<1>6. CASE AllMet
  <2>1. /\ pc = "scan" /\ p = 0 /\ p' = n /\ pc' = "restore"
        /\ given' = given /\ chain' = chain /\ idx' = idx /\ met' = met
    BY <1>1, <1>6 DEF AllMet
  <2>2. Restoring(given, chain, idx, met, n, ord, n)
    BY <1>1, <1>2, <2>1, RestoreStarts DEF Arranged
  <2>3. Arranged(given, chain', idx', met', p', result', pc', ord, n)
    BY <2>1, <2>2, ArrangedWhen
  <2> QED BY <1>3, <2>1, <2>3
<1>7. CASE Restore
  <2> DEFINE e == Append(chain, SwapMatrix(2, 2 ^ (met - idx[p])))
  <2>1. /\ pc = "restore" /\ p > 0 /\ p' = p - 1 /\ chain' = e
        /\ idx' = Promote(idx, p, n) /\ pc' = "restore" /\ given' = given /\ met' = met
    BY <1>1, <1>7 DEF Restore
  <2>2. e = Append(chain, SwapMatrix(2, 2 ^ (met - idx[p])))
    OBVIOUS
  <2> HIDE DEF e
  <2>3. PICK w : Restoring(given, e, Promote(idx, p, n), met, p - 1, w, n)
    BY <1>1, <1>2, <2>1, <2>2, RestoreKeeps DEF Arranged
  <2>4. Arranged(given, chain', idx', met', p', result', pc', w, n)
    BY <2>1, <2>3, ArrangedWhen
  <2> QED BY <1>3, <2>1, <2>4
<1>8. CASE Return
  <2>1. /\ pc = "restore" /\ p = 0 /\ result' = ProductOf(chain) /\ pc' = "done"
        /\ given' = given /\ chain' = chain /\ idx' = idx /\ met' = met /\ p' = p
    BY <1>8 DEF Return
  <2>2. IsTree(ProductOf(chain), given, n)
    BY <1>1, <1>2, <2>1, ReturnIsTree DEF Arranged
  <2>3. Arranged(given, chain', idx', met', p', result', pc', ord, n)
    BY <1>2, <2>1, <2>2 DEF Arranged
  <2> QED BY <1>3, <2>1, <2>3
<1>9. CASE UNCHANGED vars
  <2>1. /\ given' = given /\ chain' = chain /\ idx' = idx /\ met' = met /\ p' = p
        /\ result' = result /\ pc' = pc
    BY <1>9 DEF vars
  <2>2. Arranged(given, chain', idx', met', p', result', pc', ord, n)
    BY <1>2, <2>1
  <2>3. pc' \in {"scan", "restore", "done"}
    BY <2>1 DEF IInv
  <2> QED BY <1>3, <2>1, <2>2, <2>3
<1>10. ASSUME NEW x \in 1 .. NumVars,
              FirstAtEnd(x) \/ First(x) \/ AgainAtEnd(x) \/ AgainFirst(x) \/ AgainBehind(x)
       PROVE  IInv'
  <2>1. /\ pc' = "scan" /\ given' = given
        /\ \E w : Scan(given, chain', idx', met', p', w, n)
    BY <1>10, VariableSteps DEF n
  <2>2. PICK w : Scan(given, chain', idx', met', p', w, n)
    BY <2>1
  <2>3. Arranged(given, chain', idx', met', p', result', pc', w, n)
    BY <2>1, <2>2, ArrangedWhen
  <2> QED BY <1>3, <2>1, <2>3
<1> QED BY <1>4, <1>5, <1>6, <1>7, <1>8, <1>9, <1>10 DEF Next, Done

(* The invariant holds in every state.                                     *)
THEOREM SpecIInv == Spec => []IInv
BY InitIInv, NextIInv, PTL DEF Spec

-----------------------------------------------------------------------------
(* What the invariant says of the number of variables and the chain.       *)
LEMMA IInvFacts ==
  ASSUME IInv
  PROVE  /\ Handed(given, NumVars) /\ NumVars \in Nat /\ chain \in Seq(Terms(NumVars))
         /\ pc \in {"scan", "restore", "done"}
         /\ \E ord : Arranged(given, chain, idx, met, p, result, pc, ord, NumVars)
<1>1. Handed(given, NumVars)
  BY NumVarsIs, ChainFacts DEF IInv
<1>2. \E ord : Arranged(given, chain, idx, met, p, result, pc, ord, NumVars)
  BY NumVarsIs DEF IInv
<1>3. chain \in Seq(Terms(NumVars))
  BY <1>2 DEF Arranged, Led
<1>4. NumVars \in Nat
  BY <1>1 DEF Handed
<1> QED BY <1>1, <1>2, <1>3, <1>4 DEF IInv

(* No product fails, the matrices of the chain are well formed, and the    *)
(* variables met hold the ranks 1 to met, whatever chain is handed over.   *)
THEOREM SpecTypeOK == Spec => []TypeOK
<1>1. IInv => TypeOK
  <2> SUFFICES ASSUME IInv PROVE TypeOK
    OBVIOUS
  <2>1. PICK ord : Arranged(given, chain, idx, met, p, result, pc, ord, NumVars)
    BY IInvFacts
  <2>2. NumVars \in Nat /\ chain \in Seq(Terms(NumVars)) /\ pc \in {"scan", "restore", "done"}
    BY IInvFacts
  <2>3. {idx[x] : x \in DOMAIN idx} \ {0} = 1 .. met
    BY <2>1, <2>2, RanksOf DEF Arranged
  <2>4. /\ \A i \in DOMAIN chain : chain[i] # TypeError
        /\ \A i \in DOMAIN chain : IsVariable(chain[i]) \/
             \A j \in 1 .. Cols(chain[i]) : Col(chain[i], j) \in 0 .. Rows(chain[i]) - 1
    BY <2>2, ElementsWellFormed
  <2> QED BY <2>2, <2>3, <2>4 DEF TypeOK, NeverTypeError
<1> QED BY <1>1, SpecIInv, PTL

(* At every step of the loop the chain, followed by the variables met so   *)
(* far, is worth what the tree of LUTs is worth under every assignment.    *)
THEOREM SpecMeaningKept == Spec => []MeaningKept
<1>1. IInv => MeaningKept
  <2> SUFFICES ASSUME IInv, pc = "scan", NEW a \in Assignments
               PROVE  ProductOf([i \in DOMAIN chain |->
                                   IF IsVariable(chain[i]) THEN Vector(a[chain[i][1]])
                                   ELSE chain[i]] \o Behind(a)) = Vector(TreeValue(given, a))
    BY DEF MeaningKept
  <2>1. PICK ord : Arranged(given, chain, idx, met, p, result, pc, ord, NumVars)
    BY IInvFacts
  <2>2. Handed(given, NumVars) /\ Scan(given, chain, idx, met, p, ord, NumVars)
    BY <2>1, IInvFacts DEF Arranged
  <2>3. a \in [1 .. NumVars -> 0 .. 1]
    BY DEF Assignments
  <2>4. Worth(chain, idx, met, NumVars, a) = Vector(TreeValue(given, a))
    BY <2>2, <2>3, MeaningAt
  <2> QED BY <2>4, Zenon DEF Worth, Behind
<1> QED BY <1>1, SpecIInv, PTL

(* normalize_matrix returns the LUT of the whole tree over its variables   *)
(* in their order, whatever the tree of LUTs, however many variables it    *)
(* has and however often each of them occurs.                              *)
THEOREM SpecNormalFormCorrect == Spec => []NormalFormCorrect
<1>1. IInv => NormalFormCorrect
  <2> SUFFICES ASSUME IInv, pc = "done"
               PROVE  /\ Rows(result) = 2 /\ Cols(result) = 2 ^ NumVars
                      /\ \A a \in Assignments : ValueAt(result, a) = TreeValue(given, a)
    BY DEF NormalFormCorrect
  <2>1. IsTree(result, given, NumVars)
    BY IInvFacts DEF Arranged
  <2> QED BY <2>1 DEF IsTree, Assignments, ValueAt
<1> QED BY <1>1, SpecIInv, PTL

(* The loop gets on: a step of it takes an occurrence of a variable out of *)
(* the chain, or leaves the chain and passes a matrix for good.            *)
THEOREM SpecScanAdvances == Spec => ScanAdvances
<1> DEFINE A == pc = "scan" /\ pc' = "scan" =>
                  \/ Occurrences(chain') < Occurrences(chain)
                  \/ Occurrences(chain') = Occurrences(chain) /\ p' < p
<1>1. IInv /\ IInv' /\ [Next]_vars => [A]_vars
  <2> SUFFICES ASSUME IInv, IInv', Next, pc = "scan", pc' = "scan", vars' # vars
               PROVE  \/ Occurrences(chain') < Occurrences(chain)
                      \/ Occurrences(chain') = Occurrences(chain) /\ p' < p
    OBVIOUS
  <2>1. CASE PassMatrix
    <3>1. chain' = chain /\ p' = p - 1
      BY <2>1 DEF PassMatrix
    <3>2. p \in Nat
      <4>1. PICK ord : Arranged(given, chain, idx, met, p, result, pc, ord, NumVars)
        BY IInvFacts
      <4>2. chain \in Seq(Terms(NumVars)) /\ p \in 0 .. Len(chain)
        BY <4>1, IInvFacts DEF Arranged, Scan, ScanState
      <4> QED BY <4>2
    <3> QED BY <3>1, <3>2
  <2>2. ASSUME NEW x \in 1 .. NumVars,
               FirstAtEnd(x) \/ First(x) \/ AgainAtEnd(x) \/ AgainFirst(x) \/ AgainBehind(x)
        PROVE  Occurrences(chain') < Occurrences(chain)
    <3>1. /\ Lessened(chain, chain', p) /\ p \in 1 .. Len(chain) /\ IsVariable(chain[p])
          /\ \E w : Scan(given, chain', idx', met', p', w, NumberOf(given))
      BY <2>2, VariableSteps
    <3>2. chain \in Seq(Terms(NumVars)) /\ NumVars \in Nat
      BY IInvFacts
    <3>3. chain' \in Seq(Terms(NumVars))
      BY <3>1, NumVarsIs DEF Scan, Led
    <3> QED BY <3>1, <3>2, <3>3, FewerOccurrences
  <2>3. ~AlreadyNormal /\ ~AllMet /\ ~Restore /\ ~Return /\ ~Done
    BY DEF AlreadyNormal, AllMet, Restore, Return, Done
  <2> QED BY <2>1, <2>2, <2>3 DEF Next
<1> QED BY <1>1, SpecIInv, PTL DEF Spec, ScanAdvances
=============================================================================
