----------------------------- MODULE StpVector ------------------------------
(***************************************************************************)
(* stp_vec and stp_logic_manage: logic matrices and their semi-tensor      *)
(* product, and normalize_matrix, which turns the matrix chain of a tree   *)
(* of LUTs into one LUT over the variables of the tree.                    *)
(*                                                                         *)
(* A logic matrix has one 1 in every column and is stored as a sequence:   *)
(* the number of rows, then for each column the row of its 1, counted from *)
(* 0.  A sequence of length 1 is a variable, by its number.  The value 1   *)
(* of a variable is row 0, so a LUT lists its outputs from the all-ones    *)
(* assignment down, complemented.                                          *)
(***************************************************************************)
EXTENDS Integers, Sequences, FiniteSets, SequencesExt

CONSTANT Chains     \* the matrix chains get_node_matrix may hand over

VARIABLES
  given,      \* the chain as it was handed over
  chain,      \* vec_chain
  idx,        \* idx, without its first element: rank of each variable met
  met,        \* idx[0], the number of variables met
  p,          \* p_variable, from 1
  result,     \* the value returned
  pc          \* scan, restore or done

vars == <<given, chain, idx, met, p, result, pc>>

-----------------------------------------------------------------------------
(* The matrices                                                            *)

Rows(v) == v[1]
Cols(v) == Len(v) - 1
Col(v, i) == v[i + 1]

IsVariable(v) == Len(v) = 1

Matrix(rows, cols, col(_)) == <<rows>> \o [i \in 1 .. cols |-> col(i)]

SwapMatrix_Transposed(m, n) ==
  Matrix(m * n, m * n, LAMBDA j : ((j - 1) % m) * n + ((j - 1) \div m))

(* logic_swap_matrix: exchanges a factor of m rows with one of n. *)
SwapMatrix(m, n) ==
  Matrix(m * n, m * n, LAMBDA j : ((j - 1) % n) * m + ((j - 1) \div n))

(* The empty vector returned after the message "matrix type error!".  Reading
   its rows is undefined; here whatever is computed from it is an error. *)
TypeError == <<>>

(* logic_kron_product *)
Kron(f, b) ==
  IF b = TypeError THEN TypeError
  ELSE Matrix(Rows(f) * Rows(b), Cols(f) * Cols(b),
              LAMBDA j : LET i == j - 1
                         IN  Col(f, (i \div Cols(b)) + 1) * Rows(b)
                               + Col(b, (i % Cols(b)) + 1))

Identity(n) == Matrix(n, n, LAMBDA j : j - 1)

(* Column i of b selects a block of columns of f. *)
Select(f, b) ==
  LET times == Cols(f) \div Rows(b)
  IN  Matrix(Rows(f), times * Cols(b),
             LAMBDA j : Col(f, times * Col(b, ((j - 1) \div times) + 1) + ((j - 1) % times) + 1))

(* logic_stpm_product: the factor with too few columns is blown up first. *)
Product(f, b) ==
  IF TypeError \in {f, b} THEN TypeError
  ELSE IF Cols(f) % Rows(b) = 0 THEN Select(f, b)
  ELSE IF Rows(b) % Cols(f) = 0 THEN Select(Kron(f, Identity(Rows(b) \div Cols(f))), b)
  ELSE TypeError

(* matrix_chain_mul *)
ProductOf(c) == FoldLeft(Product, c[1], Tail(c))

Mr == <<4, 0, 3>>       \* the power-reducing matrix: x x = Mr x
I2 == Identity(2)

-----------------------------------------------------------------------------
(* The chains                                                              *)

(* get_node_matrix writes a tree of LUTs in prefix notation: a LUT, then what
   its inputs are, each a variable or a LUT with its inputs. *)

IsLut(v) ==
  /\ Len(v) > 1 /\ Rows(v) = 2
  /\ \E k \in 0 .. Cols(v) : 2 ^ k = Cols(v)
  /\ \A j \in 1 .. Cols(v) : Col(v, j) \in 0 .. 1

Inputs(lut) == CHOOSE k \in 0 .. Cols(lut) : 2 ^ k = Cols(lut)

(* Read from its end, every LUT finds as many trees as it has inputs. *)
IsPrefixNotation(c) ==
  LET Arity(v) == IF IsVariable(v) THEN 0 ELSE Inputs(v)
      trees[i \in 0 .. Len(c)] ==     \* in the last i elements
        IF i = 0 THEN 0 ELSE trees[i - 1] + 1 - Arity(c[Len(c) + 1 - i])
  IN  /\ trees[Len(c)] = 1
      /\ \A i \in 1 .. Len(c) : Arity(c[Len(c) + 1 - i]) <= trees[i - 1]

(* A line that map does not know yet gets the next number. *)
NumberedByOccurrence(c) ==
  \A i \in DOMAIN c : IsVariable(c[i]) =>
    c[i][1] = 1 \/ \E j \in 1 .. i - 1 : c[j] = <<c[i][1] - 1>>

ASSUME ChainsAssumption ==
  \A c \in Chains :
    /\ c \in Seq(Seq(Nat)) /\ c # <<>> /\ IsLut(c[1])
    /\ \A i \in DOMAIN c : IsLut(c[i]) \/ (Len(c[i]) = 1 /\ c[i][1] > 0)
    /\ IsPrefixNotation(c) /\ NumberedByOccurrence(c)

-----------------------------------------------------------------------------
(* normalize_matrix                                                        *)

Variables(c) == {c[i][1] : i \in {j \in DOMAIN c : IsVariable(c[j])}}
NumVars == Max(Variables(given) \cup {0})

Init ==
  /\ given \in Chains
  /\ chain = given
  /\ idx = [x \in 1 .. NumVars |-> 0]
  /\ met = 0
  /\ p = Len(given)
  /\ result = <<>>
  /\ pc = "scan"

(* One LUT over different variables, numbered in order: normal already. *)
AlreadyNormal ==
  /\ pc = "scan" /\ chain = given /\ p = Len(chain)
  /\ Len(chain) = NumVars + 1
  /\ result' = chain[1]
  /\ pc' = "done"
  /\ UNCHANGED <<given, chain, idx, met, p>>

Scanning(x) ==
  /\ pc = "scan" /\ Len(given) # NumVars + 1
  /\ p > 0
  /\ chain[p] = <<x>>
  /\ UNCHANGED <<given, result, pc>>

PassMatrix_Stays ==
  /\ pc = "scan" /\ Len(given) # NumVars + 1
  /\ p > 0
  /\ ~IsVariable(chain[p])
  /\ p' = IF p > 1 THEN p - 1 ELSE Len(chain)
  /\ UNCHANGED <<given, chain, idx, met, result, pc>>

PassMatrix ==
  /\ pc = "scan" /\ Len(given) # NumVars + 1
  /\ p > 0
  /\ ~IsVariable(chain[p])
  /\ p' = p - 1
  /\ UNCHANGED <<given, chain, idx, met, result, pc>>

Before(q)    == SubSeq(chain, 1, q - 1)
After(c, q)  == SubSeq(c, q + 1, Len(c))

(* What follows the variable is multiplied out, and the variable moves behind
   the product M: x M = (I2 (x) M) x. *)
MoveBehind(c) == Append(Before(p), Kron(I2, ProductOf(After(c, p))))

(* A variable met for the first time is the new first factor behind the chain. *)
FirstAtEnd(x) ==
  /\ Scanning(x)
  /\ idx[x] = 0 /\ p = Len(chain)
  /\ idx' = [idx EXCEPT ![x] = met + 1]
  /\ met' = met + 1
  /\ chain' = Before(p)
  /\ p' = p - 1

First(x) ==
  /\ Scanning(x)
  /\ idx[x] = 0 /\ p # Len(chain)
  /\ idx' = [idx EXCEPT ![x] = met + 1]
  /\ met' = met + 1
  /\ chain' = MoveBehind(chain)
  /\ UNCHANGED p

(* Met again, and the first factor behind the chain: x x = Mr x. *)
AgainAtEnd(x) ==
  /\ Scanning(x)
  /\ idx[x] # 0 /\ idx[x] = met /\ p = Len(chain)
  /\ chain' = Append(Before(p), Mr)
  /\ UNCHANGED <<idx, met, p>>

AgainFirst_NotReduced(x) ==
  /\ Scanning(x)
  /\ idx[x] # 0 /\ idx[x] = met /\ p # Len(chain)
  /\ chain' = MoveBehind(chain)
  /\ UNCHANGED <<idx, met, p>>

AgainFirst(x) ==
  /\ Scanning(x)
  /\ idx[x] # 0 /\ idx[x] = met /\ p # Len(chain)
  /\ chain' = Append(MoveBehind(chain), Mr)
  /\ UNCHANGED <<idx, met, p>>

Promote_LeavesOthers(f, x, rank) == [f EXCEPT ![x] = rank]

(* The ranks once x has come first: those above it move down. *)
Promote(f, x, rank) ==
  [y \in DOMAIN f |-> IF y = x THEN rank ELSE IF f[y] > f[x] THEN f[y] - 1 ELSE f[y]]

(* Met again further back: it is swapped to the front before. *)
AgainBehind(x) ==
  /\ Scanning(x)
  /\ idx[x] # 0 /\ idx[x] # met
  /\ chain' = Append(MoveBehind(Append(chain, SwapMatrix(2, 2 ^ (met - idx[x])))), Mr)
  /\ idx' = Promote(idx, x, met)
  /\ UNCHANGED <<met, p>>

AllMet ==
  /\ pc = "scan" /\ Len(given) # NumVars + 1
  /\ p = 0
  /\ p' = NumVars
  /\ pc' = "restore"
  /\ UNCHANGED <<given, chain, idx, met, result>>

(* The variables are brought into their order, the last one first. *)
Restore ==
  /\ pc = "restore" /\ p > 0
  /\ chain' = Append(chain, SwapMatrix(2, 2 ^ (met - idx[p])))
  /\ idx' = Promote(idx, p, NumVars)
  /\ p' = p - 1
  /\ UNCHANGED <<given, met, result, pc>>

Return ==
  /\ pc = "restore" /\ p = 0
  /\ result' = ProductOf(chain)
  /\ pc' = "done"
  /\ UNCHANGED <<given, chain, idx, met, p>>

Done == pc = "done" /\ UNCHANGED vars

Next ==
  \/ AlreadyNormal \/ PassMatrix \/ AllMet \/ Restore \/ Return \/ Done
  \/ \E x \in 1 .. NumVars :
       FirstAtEnd(x) \/ First(x) \/ AgainAtEnd(x) \/ AgainFirst(x) \/ AgainBehind(x)

Spec == Init /\ [][Next]_vars

-----------------------------------------------------------------------------
(* Correctness                                                             *)

Assignments == [1 .. NumVars -> 0 .. 1]

(* The reference: the value of the tree of LUTs whose prefix notation c is.
   Read from its end, every LUT finds the values of its inputs on a stack. *)
Number(bits) ==
  LET num[i \in 0 .. Len(bits)] == IF i = 0 THEN 0 ELSE 2 * num[i - 1] + bits[i]
  IN  num[Len(bits)]

Output(lut, bits) == 1 - Col(lut, 2 ^ Inputs(lut) - Number(bits))

TreeValue(c, a) ==
  LET stack[i \in 0 .. Len(c)] ==     \* after the last i elements
        IF i = 0 THEN <<>>
        ELSE LET v    == c[Len(c) + 1 - i]
                 rest == stack[i - 1]
                 k    == Inputs(v)
             IN  IF IsVariable(v) THEN <<a[v[1]]>> \o rest
                 ELSE <<Output(v, SubSeq(rest, 1, k))>> \o SubSeq(rest, k + 1, Len(rest))
  IN  stack[Len(c)][1]

(* The value column i of the result stands for: what single_node_sim reads. *)
ValueAt(lut, a) == 1 - Col(lut, 2 ^ NumVars - Number([x \in 1 .. NumVars |-> a[x]]))

(* "matrix type error!" (stp_vector.hpp:145) is never printed: in every product
   taken, one of the inner dimensions divides the other. *)
NeverTypeError == \A i \in DOMAIN chain : chain[i] # TypeError

(* No product fails, the matrices of the chain are well formed, and ranks are
   handed out without gaps: the variables met hold the ranks 1 to met. *)
TypeOK ==
  /\ NeverTypeError
  /\ pc \in {"scan", "restore", "done"}
  /\ \A i \in DOMAIN chain : IsVariable(chain[i]) \/
       \A j \in 1 .. Cols(chain[i]) : Col(chain[i], j) \in 0 .. Rows(chain[i]) - 1
  /\ {idx[x] : x \in DOMAIN idx} \ {0} = 1 .. met

(* normalize_matrix returns the LUT of the whole tree over its variables in
   their order, whatever the tree and however often a variable occurs in it. *)
NormalFormCorrect ==
  pc = "done" =>
    /\ Rows(result) = 2 /\ Cols(result) = 2 ^ NumVars
    /\ \A a \in Assignments : ValueAt(result, a) = TreeValue(given, a)

Vector(bit) == <<2, 1 - bit>>

(* The variables behind the chain, the one of the highest rank first. *)
Behind(a) ==
  [i \in 1 .. met |-> Vector(a[CHOOSE x \in 1 .. NumVars : idx[x] = met + 1 - i])]

(* At every step of the loop the chain, followed by the variables met so far,
   is worth what the tree is worth: none of the rewriting steps loses a factor. *)
MeaningKept ==
  pc = "scan" =>
    \A a \in Assignments :
      ProductOf([i \in DOMAIN chain |->
                   IF IsVariable(chain[i]) THEN Vector(a[chain[i][1]]) ELSE chain[i]]
                \o Behind(a)) = Vector(TreeValue(given, a))

Occurrences(c) == Cardinality({i \in DOMAIN c : IsVariable(c[i])})

(* The loop ends, although half of its cases leave p_variable where it is: a
   step takes a variable out of the chain, or passes a matrix for good. *)
ScanAdvances ==
  [][pc = "scan" /\ pc' = "scan" =>
       \/ Occurrences(chain') < Occurrences(chain)
       \/ Occurrences(chain') = Occurrences(chain) /\ p' < p]_vars
=============================================================================
