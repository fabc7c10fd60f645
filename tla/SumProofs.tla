----------------------------- MODULE SumProofs ------------------------------
(***************************************************************************)
(* Sums over finite sets.  The sum of the community modules is a fold, a   *)
(* function that is defined by recursion on the subsets of a set.  Here is *)
(* why it is what it is meant to be: it does not matter which element is   *)
(* taken out first.  The proofs by induction look at the set of the        *)
(* numbers a fact holds for, and show that it is all of them.              *)
(***************************************************************************)
EXTENDS Integers, FiniteSets, Functions, FiniteSetTheorems, WellFoundedInduction, TLAPS

(* A set of numbers with zero, and with each number its successor, holds   *)
(* them all.                                                               *)
LEMMA AllNumbers ==
  ASSUME NEW A, 0 \in A, \A n \in Nat : n \in A => n + 1 \in A
  PROVE  \A n \in Nat : n \in A
<1> SUFFICES ASSUME NEW n \in Nat, n \notin A PROVE FALSE
  OBVIOUS
<1> DEFINE T == Nat \ A
           R == OpToRel(<, Nat)
<1>1. IsWellFoundedOn(R, Nat)
  BY NatLessThanWellFounded
<1>2. T \subseteq Nat /\ T # {}
  OBVIOUS
<1>3. \E x \in T : \A y \in T : ~ (<<y, x>> \in R)
  <2> HIDE DEF T, R
  <2> QED BY <1>1, <1>2, WFMin
<1>4. PICK x \in T : \A y \in T : ~ (<<y, x>> \in R)
  BY <1>3
<1>5. x # 0 /\ x - 1 \in Nat /\ x - 1 < x
  OBVIOUS
<1>6. x - 1 \in A
  <2>1. <<x - 1, x>> \in R
    BY <1>5 DEF OpToRel
  <2> QED BY <1>4, <1>5, <2>1
<1>7. x \in A
  BY <1>5, <1>6
<1> QED BY <1>7

-----------------------------------------------------------------------------
(* The element a fold takes out of a set. *)
Pick(s) == CHOOSE x \in s : TRUE

(* Function g is the fold of f's values, on the sets of D. *)
Folds(g, f, D) ==
  g = [s \in D |-> IF s = {} THEN 0 ELSE f[Pick(s)] + g[s \ {Pick(s)}]]

(* The subsets of S with at most n elements. *)
UpTo(S, n) == {s \in SUBSET S : Cardinality(s) <= n}

(* Taking its element out of a non-empty set. *)
LEMMA PickOut ==
  ASSUME NEW S, IsFiniteSet(S), NEW s \in SUBSET S, s # {}
  PROVE  /\ Pick(s) \in s
         /\ s \ {Pick(s)} \in SUBSET S
         /\ Cardinality(s) \in Nat
         /\ Cardinality(s) # 0
         /\ Cardinality(s \ {Pick(s)}) = Cardinality(s) - 1
<1>1. Pick(s) \in s
  BY DEF Pick
<1>2. IsFiniteSet(s)
  BY FS_Subset
<1>3. Cardinality(s \ {Pick(s)}) = Cardinality(s) - 1
  BY <1>1, <1>2, FS_RemoveElement
<1>4. Cardinality(s) \in Nat /\ Cardinality(s) # 0
  BY <1>2, FS_CardinalityType, FS_EmptySet
<1> QED BY <1>1, <1>3, <1>4

(* There is a fold of any f on the subsets of a finite set. *)
LEMMA FoldExists ==
  ASSUME NEW S, IsFiniteSet(S), NEW f
  PROVE  \E g : Folds(g, f, SUBSET S)
<1> DEFINE A == {n \in Nat : \E g : Folds(g, f, UpTo(S, n))}
<1>1. 0 \in A
  <2> DEFINE g == [s \in UpTo(S, 0) |-> 0]
  <2>1. \A s \in UpTo(S, 0) : s = {}
    BY FS_Subset, FS_CardinalityType, FS_EmptySet DEF UpTo
  <2>2. Folds(g, f, UpTo(S, 0))
    BY <2>1 DEF Folds
  <2> QED BY <2>2
<1>2. ASSUME NEW n \in Nat, n \in A
      PROVE  n + 1 \in A
  <2>1. PICK g : Folds(g, f, UpTo(S, n))
    BY <1>2
  <2> DEFINE h == [s \in UpTo(S, n + 1) |-> IF s = {} THEN 0 ELSE f[Pick(s)] + g[s \ {Pick(s)}]]
  <2>2. \A s \in UpTo(S, n) : s \in UpTo(S, n + 1) /\ h[s] = g[s]
    <3> TAKE s \in UpTo(S, n)
    <3>1. s \in UpTo(S, n + 1)
      BY FS_Subset, FS_CardinalityType DEF UpTo
    <3>2. g[s] = IF s = {} THEN 0 ELSE f[Pick(s)] + g[s \ {Pick(s)}]
      BY <2>1 DEF Folds
    <3> QED BY <3>1, <3>2
  <2>3. ASSUME NEW s \in UpTo(S, n + 1), s # {}
        PROVE  s \ {Pick(s)} \in UpTo(S, n)
    BY <2>3, PickOut DEF UpTo
  <2>4. ASSUME NEW s \in UpTo(S, n + 1)
        PROVE  h[s] = IF s = {} THEN 0 ELSE f[Pick(s)] + h[s \ {Pick(s)}]
    <3>1. CASE s = {}
      BY <3>1
    <3>2. CASE s # {}
      <4>1. h[s \ {Pick(s)}] = g[s \ {Pick(s)}]
        BY <2>2, <2>3, <3>2
      <4> QED BY <3>2, <4>1
    <3> QED BY <3>1, <3>2
  <2>5. h = [s \in UpTo(S, n + 1) |-> h[s]]
    OBVIOUS
  <2> HIDE DEF h
  <2>6. h = [s \in UpTo(S, n + 1) |-> IF s = {} THEN 0 ELSE f[Pick(s)] + h[s \ {Pick(s)}]]
    BY <2>4, <2>5
  <2>7. Folds(h, f, UpTo(S, n + 1))
    BY <2>6 DEF Folds
  <2> QED BY <2>7
<1>3. Cardinality(S) \in A
  <2> HIDE DEF A
  <2>1. \A n \in Nat : n \in A
    BY <1>1, <1>2, AllNumbers
  <2> QED BY <2>1, FS_CardinalityType
<1>4. UpTo(S, Cardinality(S)) = SUBSET S
  BY FS_Subset DEF UpTo
<1> QED BY <1>3, <1>4

(* A fold of numbers from a set with zero and closed under addition is in  *)
(* that set, ...                                                           *)
LEMMA FoldIn ==
  ASSUME NEW R, 0 \in R, \A x, y \in R : x + y \in R,
         NEW S, IsFiniteSet(S), NEW f \in [S -> R], NEW g, Folds(g, f, SUBSET S)
  PROVE  \A s \in SUBSET S : g[s] \in R
<1> DEFINE A == {n \in Nat : \A s \in SUBSET S : Cardinality(s) = n => g[s] \in R}
<1>1. 0 \in A
  <2> SUFFICES ASSUME NEW s \in SUBSET S, Cardinality(s) = 0 PROVE g[s] \in R
    OBVIOUS
  <2>1. s = {}
    BY FS_Subset, FS_EmptySet
  <2> QED BY <2>1 DEF Folds
<1>2. ASSUME NEW n \in Nat, n \in A
      PROVE  n + 1 \in A
  <2> SUFFICES ASSUME NEW s \in SUBSET S, Cardinality(s) = n + 1 PROVE g[s] \in R
    OBVIOUS
  <2>1. s # {}
    <3>1. n + 1 # 0
      OBVIOUS
    <3> QED BY <3>1, FS_EmptySet
  <2>2. Pick(s) \in s /\ s \ {Pick(s)} \in SUBSET S /\ Cardinality(s \ {Pick(s)}) = n
    BY <2>1, PickOut
  <2>3. g[s] = f[Pick(s)] + g[s \ {Pick(s)}]
    BY <2>1 DEF Folds
  <2>4. f[Pick(s)] \in R /\ g[s \ {Pick(s)}] \in R
    BY <1>2, <2>2
  <2> QED BY <2>3, <2>4
<1>3. \A n \in Nat : n \in A
  <2> HIDE DEF A
  <2> QED BY <1>1, <1>2, AllNumbers
<1> QED BY <1>3, FS_Subset, FS_CardinalityType

(* which for whole numbers are the whole numbers, ... *)
LEMMA FoldInt ==
  ASSUME NEW S, IsFiniteSet(S), NEW f \in [S -> Int], NEW g, Folds(g, f, SUBSET S)
  PROVE  \A s \in SUBSET S : g[s] \in Int
<1>1. 0 \in Int /\ \A x, y \in Int : x + y \in Int
  OBVIOUS
<1> QED BY <1>1, FoldIn

(* ... and any element may be taken out first. *)
LEMMA FoldAny ==
  ASSUME NEW S, IsFiniteSet(S), NEW f \in [S -> Int], NEW g, Folds(g, f, SUBSET S)
  PROVE  \A s \in SUBSET S : \A x \in s : g[s] = f[x] + g[s \ {x}]
<1> DEFINE Fact(s) == \A x \in s : g[s] = f[x] + g[s \ {x}]
           A == {n \in Nat : \A s \in SUBSET S : Cardinality(s) = n => Fact(s)}
<1>1. 0 \in A
  <2> SUFFICES ASSUME NEW s \in SUBSET S, Cardinality(s) = 0 PROVE Fact(s)
    OBVIOUS
  <2>1. s = {}
    BY FS_Subset, FS_EmptySet
  <2> QED BY <2>1
<1>2. ASSUME NEW n \in Nat, n \in A
      PROVE  n + 1 \in A
  <2> SUFFICES ASSUME NEW s \in SUBSET S, Cardinality(s) = n + 1 PROVE Fact(s)
    OBVIOUS
  <2>1. s # {} /\ IsFiniteSet(s)
    BY FS_EmptySet, FS_Subset
  <2> DEFINE c == Pick(s)
  <2>2. c \in s /\ s \ {c} \in SUBSET S /\ Cardinality(s \ {c}) = n
    BY <2>1, PickOut
  <2>3. g[s] = f[c] + g[s \ {c}]
    BY <2>1 DEF Folds
  <2> HIDE DEF c
  <2>4. ASSUME NEW x \in s, x # c
        PROVE  g[s] = f[x] + g[s \ {x}]
    <3>1. Fact(s \ {c})
      BY <1>2, <2>2
    <3>2. g[s \ {c}] = f[x] + g[(s \ {c}) \ {x}]
      BY <2>4, <3>1
    <3>3. Cardinality(s \ {x}) = Cardinality(s) - 1
      BY <2>1, FS_RemoveElement
    <3>4. s \ {x} \in SUBSET S /\ Cardinality(s \ {x}) = n
      BY <3>3
    <3>5. Fact(s \ {x})
      BY <1>2, <3>4
    <3>6. g[s \ {x}] = f[c] + g[(s \ {x}) \ {c}]
      BY <2>2, <2>4, <3>5
    <3>7. (s \ {x}) \ {c} = (s \ {c}) \ {x}
      OBVIOUS
    <3>8. f[x] \in Int /\ f[c] \in Int /\ g[(s \ {c}) \ {x}] \in Int
      BY <2>2, FoldInt
    <3> DEFINE rest == g[(s \ {c}) \ {x}]
    <3>9. g[s] = f[c] + (f[x] + rest) /\ g[s \ {x}] = f[c] + rest
      BY <2>3, <3>2, <3>6, <3>7
    <3> HIDE DEF rest
    <3> QED BY <3>8, <3>9 DEF rest
  <2> QED BY <2>3, <2>4
<1>3. \A n \in Nat : n \in A
  <2> HIDE DEF A
  <2> QED BY <1>1, <1>2, AllNumbers
<1> QED BY <1>3, FS_Subset, FS_CardinalityType

-----------------------------------------------------------------------------
(* The sum of the community modules is a fold. *)
LEMMA SumIsFold ==
  ASSUME NEW f, IsFiniteSet(DOMAIN f)
  PROVE  \E g : Folds(g, f, SUBSET DOMAIN f) /\ SumFunction(f) = g[DOMAIN f]
<1> DEFINE g == CHOOSE g : g = [s \in SUBSET DOMAIN f |->
                                  IF s = {} THEN 0 ELSE f[Pick(s)] + g[s \ {Pick(s)}]]
<1>1. Folds(g, f, SUBSET DOMAIN f)
  <2>1. \E h : Folds(h, f, SUBSET DOMAIN f)
    BY FoldExists
  <2> QED BY <2>1 DEF Folds
<1>2. SumFunction(f) = g[DOMAIN f]
  BY DEF SumFunction, SumFunctionOnSet, FoldFunctionOnSet, MapThenFoldSet, Pick
<1> QED BY <1>1, <1>2

(* The sum over nothing is zero. *)
THEOREM SumEmpty ==
  ASSUME NEW f, DOMAIN f = {}
  PROVE  SumFunction(f) = 0
<1>1. PICK g : Folds(g, f, SUBSET {}) /\ SumFunction(f) = g[{}]
  BY SumIsFold, FS_EmptySet
<1> QED BY <1>1 DEF Folds

(* A sum of whole numbers is a whole number. *)
THEOREM SumInt ==
  ASSUME NEW S, IsFiniteSet(S), NEW f \in [S -> Int]
  PROVE  SumFunction(f) \in Int
<1>1. PICK g : Folds(g, f, SUBSET S) /\ SumFunction(f) = g[S]
  BY SumIsFold
<1> QED BY <1>1, FoldInt

(* A sum of amounts is not negative. *)
LEMMA SumNat ==
  ASSUME NEW S, IsFiniteSet(S), NEW f \in [S -> Nat]
  PROVE  SumFunction(f) \in Nat
<1> DEFINE R == Nat
<1>1. PICK g : Folds(g, f, SUBSET S) /\ SumFunction(f) = g[S]
  BY SumIsFold
<1>2. 0 \in R /\ (\A x, y \in R : x + y \in R) /\ f \in [S -> R]
  OBVIOUS
<1>3. g[S] \in R
  <2> HIDE DEF R
  <2>1. \A s \in SUBSET S : g[s] \in R
    BY <1>1, <1>2, FoldIn
  <2> QED BY <2>1
<1> QED BY <1>1, <1>3

(* Any element may be taken out of a sum: what is left is the sum of the   *)
(* rest, since what a fold makes of a set does not depend on the set it is *)
(* part of.                                                                *)
THEOREM SumRemove ==
  ASSUME NEW S, IsFiniteSet(S), NEW f \in [S -> Int], NEW x \in S
  PROVE  SumFunction(f) = f[x] + SumFunction([y \in S \ {x} |-> f[y]])
<1> DEFINE T == S \ {x}
           e == [y \in T |-> f[y]]
<1>1. PICK g : Folds(g, f, SUBSET S) /\ SumFunction(f) = g[S]
  BY SumIsFold
<1>2. IsFiniteSet(T) /\ T \in SUBSET S /\ DOMAIN e = T /\ \A y \in T : e[y] = f[y]
  BY FS_RemoveElement
<1>3. PICK h : Folds(h, e, SUBSET T) /\ SumFunction(e) = h[T]
  BY <1>2, SumIsFold
<1>4. h[T] = g[T]
  <2> HIDE DEF T, e
  <2> DEFINE A == {n \in Nat : \A s \in SUBSET T : Cardinality(s) = n => h[s] = g[s]}
  <2>1. 0 \in A
    <3> SUFFICES ASSUME NEW s \in SUBSET T, Cardinality(s) = 0 PROVE h[s] = g[s]
      OBVIOUS
    <3>1. s = {}
      BY <1>2, FS_Subset, FS_EmptySet
    <3> QED BY <1>1, <1>3, <3>1 DEF Folds
  <2>2. ASSUME NEW n \in Nat, n \in A
        PROVE  n + 1 \in A
    <3> SUFFICES ASSUME NEW s \in SUBSET T, Cardinality(s) = n + 1 PROVE h[s] = g[s]
      OBVIOUS
    <3>1. s # {}
      BY FS_EmptySet
    <3>2. /\ Pick(s) \in s
          /\ s \ {Pick(s)} \in SUBSET T
          /\ Cardinality(s \ {Pick(s)}) = n
      BY <1>2, <3>1, PickOut
    <3>3. h[s \ {Pick(s)}] = g[s \ {Pick(s)}]
      BY <2>2, <3>2
    <3>4. h[s] = e[Pick(s)] + h[s \ {Pick(s)}]
      BY <1>3, <3>1 DEF Folds
    <3>5. g[s] = f[Pick(s)] + g[s \ {Pick(s)}]
      BY <1>1, <1>2, <3>1 DEF Folds
    <3> QED BY <1>2, <3>2, <3>3, <3>4, <3>5
  <2>3. \A n \in Nat : n \in A
    <3> HIDE DEF A
    <3> QED BY <2>1, <2>2, AllNumbers
  <2> QED BY <1>2, <2>3, FS_CardinalityType
<1>5. g[S] = f[x] + g[T]
  BY <1>1, FoldAny
<1> QED BY <1>1, <1>3, <1>4, <1>5

(* A sum over one thing more. *)
LEMMA SumAdds ==
  ASSUME NEW U, IsFiniteSet(U), NEW x, x \notin U,
         NEW f \in [U \cup {x} -> Int], NEW g \in [U -> Int], \A y \in U : f[y] = g[y]
  PROVE  SumFunction(f) = f[x] + SumFunction(g) /\ SumFunction(g) \in Int
<1> DEFINE S == U \cup {x}
<1>1. IsFiniteSet(S)
  BY FS_AddElement
<1>2. x \in S /\ f \in [S -> Int]
  OBVIOUS
<1>3. [y \in S \ {x} |-> f[y]] = g
  <2>1. S \ {x} = U
    OBVIOUS
  <2> QED BY <2>1
<1> HIDE DEF S
<1>4. SumFunction(f) = f[x] + SumFunction([y \in S \ {x} |-> f[y]])
  BY <1>1, <1>2, SumRemove
<1>5. SumFunction(g) \in Int
  BY SumInt
<1> QED BY <1>3, <1>4, <1>5
=============================================================================
