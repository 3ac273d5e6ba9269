----------------------------- MODULE DataLemmas ------------------------------
(***************************************************************************)
(* Facts about data that the other proofs cite: induction over the natural *)
(* numbers and over the subsets of a finite set, and sums over finite sets.*)
(* Induction is stated over the SET of values for which a formula holds,   *)
(* so that no fact here takes an operator as a parameter.                  *)
(***************************************************************************)
EXTENDS Sequences, FiniteSetsExt, FiniteSetTheorems, TLAPS

-----------------------------------------------------------------------------
(* Induction. *)

\* A set of natural numbers with 0 and every successor is all of them.
LEMMA NatInd ==
  ASSUME NEW P \in SUBSET Nat, 0 \in P, \A n \in P : n + 1 \in P
  PROVE  P = Nat
<1> DEFINE T == Nat \ P
<1> SUFFICES ASSUME T # {} PROVE FALSE
  OBVIOUS
<1>1. PICK x \in T : \A y \in T : ~ (<<y, x>> \in OpToRel(<, Nat))
  BY NatLessThanWellFounded, WFMin
<1>2. x # 0 /\ x - 1 \in Nat
  OBVIOUS
<1>3. <<x - 1, x>> \in OpToRel(<, Nat)
  BY <1>2 DEF OpToRel
<1>4. x - 1 \in P
  BY <1>1, <1>2, <1>3
<1> QED BY <1>4

\* The same for the subsets of a finite set, grown one element at a time.
LEMMA FinInd ==
  ASSUME NEW S, IsFiniteSet(S), NEW P, {} \in P,
         \A T \in SUBSET S : T \in P => \A x \in S \ T : T \cup {x} \in P
  PROVE  S \in P
<1> DEFINE B == {T \in SUBSET S : T \notin P}
<1> SUFFICES ASSUME B # {} PROVE FALSE
  OBVIOUS
<1>1. B \subseteq FiniteSubsetsOf(S)
  BY FS_Subset DEF FiniteSubsetsOf
<1>2. PICK T \in B : \A U \in B : ~ (<<U, T>> \in StrictSubsetOrdering(S))
  BY <1>1, FS_StrictSubsetOrderingWellFounded, WFMin
<1>3. PICK x \in T : TRUE
  OBVIOUS
<1>4. T \ {x} \in SUBSET S /\ T \in SUBSET S /\ T \ {x} # T /\ T \notin P
  OBVIOUS
<1>5. <<T \ {x}, T>> \in StrictSubsetOrdering(S)
  BY <1>4 DEF StrictSubsetOrdering
<1>6. T \ {x} \in P
  BY <1>2, <1>4, <1>5
<1>7. (T \ {x}) \cup {x} = T
  OBVIOUS
<1> QED BY <1>4, <1>6, <1>7

-----------------------------------------------------------------------------
(* Sums: MapThenSumSet over the values of a function. *)

SumOf(f, S) == MapThenSumSet(LAMBDA x : f[x], S)

Pick(s)      == CHOOSE x \in s : TRUE
Rec(f, g, s) == IF s = {} THEN 0 ELSE f[Pick(s)] + g[s \ {Pick(s)}]
SumFcn(f, S) == CHOOSE g : g = [s \in SUBSET S |-> Rec(f, g, s)]

LEMMA SumIsFcn == ASSUME NEW f, NEW S PROVE SumOf(f, S) = SumFcn(f, S)[S]
  BY DEF SumOf, MapThenSumSet, MapThenFoldSet, Rec, Pick, SumFcn

\* What is left of a set without the element picked is smaller.
LEMMA OneLess ==
  ASSUME NEW S, IsFiniteSet(S), NEW s \in SUBSET S, NEW x \in s
  PROVE  /\ s \ {x} \in SUBSET S /\ Cardinality(s \ {x}) = Cardinality(s) - 1
         /\ Cardinality(s) \in Nat /\ Cardinality(s \ {x}) \in Nat
<1>1. IsFiniteSet(s)
  BY FS_Subset
<1> QED BY <1>1, FS_RemoveElement, FS_CardinalityType

LEMMA PickSmaller ==
  ASSUME NEW S, IsFiniteSet(S), NEW s \in SUBSET S, s # {}
  PROVE  /\ Pick(s) \in s /\ s \ {Pick(s)} \in SUBSET S
         /\ Cardinality(s \ {Pick(s)}) = Cardinality(s) - 1
         /\ Cardinality(s) \in Nat /\ Cardinality(s \ {Pick(s)}) \in Nat
<1>1. Pick(s) \in s
  BY DEF Pick
<1> QED BY <1>1, OneLess

LEMMA NoneIsEmpty ==
  ASSUME NEW S, IsFiniteSet(S), NEW s \in SUBSET S, Cardinality(s) <= 0
  PROVE  s = {}
<1>1. IsFiniteSet(s)
  BY FS_Subset
<1>2. Cardinality(s) \in Nat
  BY <1>1, FS_CardinalityType
<1> QED BY <1>1, <1>2, FS_EmptySet

\* The recursion of a sum has a solution.
LEMMA SumFcnUnfolds ==
  ASSUME NEW f, NEW S, IsFiniteSet(S)
  PROVE  SumFcn(f, S) = [s \in SUBSET S |-> Rec(f, SumFcn(f, S), s)]
<1> DEFINE Solves(g, n) == \A s \in SUBSET S : Cardinality(s) <= n => g[s] = Rec(f, g, s)
           P == {n \in Nat : \E g : Solves(g, n)}
<1>1. 0 \in P
  <2> DEFINE g == [s \in SUBSET S |-> 0]
  <2>1. ASSUME NEW s \in SUBSET S, Cardinality(s) <= 0 PROVE s = {}
    BY <2>1, NoneIsEmpty
  <2>2. Solves(g, 0)
    BY <2>1 DEF Rec
  <2> QED BY <2>2
<1>2. ASSUME NEW n \in P PROVE n + 1 \in P
  <2>1. PICK g : Solves(g, n)
    OBVIOUS
  <2> DEFINE h == [s \in SUBSET S |-> Rec(f, g, s)]
  <2>2. ASSUME NEW s \in SUBSET S, Cardinality(s) <= n + 1 PROVE h[s] = Rec(f, h, s)
    <3>1. h[s] = Rec(f, g, s)
      OBVIOUS
    <3>2. CASE s = {}
      BY <3>1, <3>2 DEF Rec
    <3>3. CASE s # {}
      <4> DEFINE t == s \ {Pick(s)}
      <4>1. t \in SUBSET S /\ Cardinality(t) <= n
        BY <2>2, <3>3, PickSmaller
      <4>2. h[t] = Rec(f, g, t) /\ g[t] = Rec(f, g, t)
        BY <4>1, <2>1
      <4> QED BY <3>1, <3>3, <4>2 DEF Rec
    <3> QED BY <3>2, <3>3
  <2> HIDE DEF h
  <2>3. Solves(h, n + 1)
    BY <2>2
  <2> QED BY <2>3
<1> HIDE DEF P
<1>3. P = Nat
  <2>1. P \in SUBSET Nat
    BY DEF P
  <2> QED BY <1>1, <1>2, <2>1, NatInd
<1>4. PICK g : Solves(g, Cardinality(S))
  BY <1>3, FS_CardinalityType DEF P
<1> DEFINE h == [s \in SUBSET S |-> g[s]]
<1>5. \A s \in SUBSET S : Cardinality(s) <= Cardinality(S)
  BY FS_Subset
<1>6. \A s \in SUBSET S : h[s] = Rec(f, h, s)
  <2> SUFFICES ASSUME NEW s \in SUBSET S PROVE h[s] = Rec(f, h, s)
    OBVIOUS
  <2>1. h[s] = Rec(f, g, s)
    BY <1>4, <1>5
  <2>2. s # {} => h[s \ {Pick(s)}] = g[s \ {Pick(s)}]
    OBVIOUS
  <2> QED BY <2>1, <2>2 DEF Rec
<1>7. h = [s \in SUBSET S |-> Rec(f, h, s)]
  BY <1>6
<1> QED BY <1>7 DEF SumFcn

\* ... and the solutions for two sets agree where both are defined.
LEMMA SumFcnAgrees ==
  ASSUME NEW f, NEW S, IsFiniteSet(S), NEW T \in SUBSET S
  PROVE  SumFcn(f, T)[T] = SumFcn(f, S)[T]
<1>u. \A U : IsFiniteSet(U) => SumFcn(f, U) = [s \in SUBSET U |-> Rec(f, SumFcn(f, U), s)]
  BY SumFcnUnfolds, Zenon
<1> DEFINE g == SumFcn(f, T)
           h == SumFcn(f, S)
           P == {n \in Nat : \A U \in SUBSET T : Cardinality(U) <= n => g[U] = h[U]}
<1>0. IsFiniteSet(T)
  BY FS_Subset
<1>1. \A U \in SUBSET T : g[U] = Rec(f, g, U) /\ h[U] = Rec(f, h, U) /\ U \in SUBSET S
  <2>1. g = [s \in SUBSET T |-> Rec(f, g, s)]
    BY <1>0, <1>u
  <2>2. h = [s \in SUBSET S |-> Rec(f, h, s)]
    BY <1>u
  <2> HIDE DEF g, h
  <2> SUFFICES ASSUME NEW U \in SUBSET T PROVE g[U] = Rec(f, g, U) /\ h[U] = Rec(f, h, U) /\ U \in SUBSET S
    OBVIOUS
  <2>3. U \in SUBSET S
    OBVIOUS
  <2>4. g[U] = Rec(f, g, U)
    BY <2>1
  <2>5. h[U] = Rec(f, h, U)
    BY <2>2, <2>3
  <2> QED BY <2>3, <2>4, <2>5
<1> HIDE DEF g, h
<1>2. 0 \in P
  <2>1. ASSUME NEW U \in SUBSET T, Cardinality(U) <= 0 PROVE U = {}
    BY <1>0, <2>1, NoneIsEmpty
  <2> QED BY <2>1, <1>1 DEF Rec
<1>3. ASSUME NEW n \in P PROVE n + 1 \in P
  <2>1. ASSUME NEW U \in SUBSET T, Cardinality(U) <= n + 1 PROVE g[U] = h[U]
    <3>1. CASE U = {}
      BY <1>1, <3>1 DEF Rec
    <3>2. CASE U # {}
      <4>1. U \ {Pick(U)} \in SUBSET T /\ Cardinality(U \ {Pick(U)}) <= n
        BY <1>0, <2>1, <3>2, PickSmaller
      <4>2. g[U \ {Pick(U)}] = h[U \ {Pick(U)}]
        BY <4>1
      <4> QED BY <1>1, <3>2, <4>2 DEF Rec
    <3> QED BY <3>1, <3>2
  <2> QED BY <2>1
<1> HIDE DEF P
<1>4. P = Nat
  <2>1. P \in SUBSET Nat
    BY DEF P
  <2> QED BY <1>2, <1>3, <2>1, NatInd
<1> QED BY <1>0, <1>4, FS_CardinalityType DEF P, g, h

LEMMA SumEmpty == ASSUME NEW f PROVE SumOf(f, {}) = 0
<1>1. SumFcn(f, {})[{}] = Rec(f, SumFcn(f, {}), {})
  <2> DEFINE g == SumFcn(f, {})
  <2>1. g = [s \in SUBSET {} |-> Rec(f, g, s)]
    BY SumFcnUnfolds, FS_EmptySet
  <2> HIDE DEF g
  <2>2. g[{}] = Rec(f, g, {})
    BY <2>1
  <2> QED BY <2>2 DEF g
<1> QED BY <1>1, SumIsFcn DEF Rec

LEMMA SumPick ==
  ASSUME NEW f, NEW S, IsFiniteSet(S), S # {}
  PROVE  SumOf(f, S) = f[Pick(S)] + SumOf(f, S \ {Pick(S)})
<1>1. SumFcn(f, S)[S] = f[Pick(S)] + SumFcn(f, S)[S \ {Pick(S)}]
  <2> DEFINE g == SumFcn(f, S)
  <2>1. g = [s \in SUBSET S |-> Rec(f, g, s)]
    BY SumFcnUnfolds, ZenonT(40)
  <2> HIDE DEF g
  <2>2. g[S] = Rec(f, g, S)
    BY <2>1
  <2> QED BY <2>2 DEF Rec, g
<1>2. SumFcn(f, S)[S \ {Pick(S)}] = SumOf(f, S \ {Pick(S)})
  BY SumFcnAgrees, SumIsFcn
<1> QED BY <1>1, <1>2, SumIsFcn

\* A sum of integers is an integer.
LEMMA SumType ==
  ASSUME NEW f, NEW S, IsFiniteSet(S), \A x \in S : f[x] \in Int
  PROVE  SumOf(f, S) \in Int
<1> DEFINE P == {n \in Nat : \A U \in SUBSET S : Cardinality(U) <= n => SumOf(f, U) \in Int}
<1>1. 0 \in P
  <2>1. ASSUME NEW U \in SUBSET S, Cardinality(U) <= 0 PROVE U = {}
    BY <2>1, NoneIsEmpty
  <2> QED BY <2>1, SumEmpty
<1>2. ASSUME NEW n \in P PROVE n + 1 \in P
  <2>1. ASSUME NEW U \in SUBSET S, Cardinality(U) <= n + 1, U # {} PROVE SumOf(f, U) \in Int
    <3>1. U \ {Pick(U)} \in SUBSET S /\ Cardinality(U \ {Pick(U)}) <= n /\ Pick(U) \in S
      BY <2>1, PickSmaller
    <3>2. SumOf(f, U \ {Pick(U)}) \in Int
      BY <3>1
    <3>3. IsFiniteSet(U)
      BY FS_Subset
    <3> QED BY <2>1, <3>1, <3>2, <3>3, SumPick
  <2> QED BY <2>1, SumEmpty
<1> HIDE DEF P
<1>3. P = Nat
  <2>1. P \in SUBSET Nat
    BY DEF P
  <2> QED BY <1>1, <1>2, <2>1, NatInd
<1> QED BY <1>3, FS_CardinalityType DEF P

\* Any element may be taken out of a sum.
LEMMA SumTake ==
  ASSUME NEW f, NEW S, IsFiniteSet(S), \A x \in S : f[x] \in Int, NEW x \in S
  PROVE  SumOf(f, S) = f[x] + SumOf(f, S \ {x})
<1> DEFINE P == {n \in Nat : \A U \in SUBSET S : Cardinality(U) <= n =>
                    \A y \in U : SumOf(f, U) = f[y] + SumOf(f, U \ {y})}
<1>0. ASSUME NEW U \in SUBSET S PROVE IsFiniteSet(U) /\ SumOf(f, U) \in Int
  BY FS_Subset, SumType
<1>1. 0 \in P
  <2>1. ASSUME NEW U \in SUBSET S, Cardinality(U) <= 0 PROVE U = {}
    BY <2>1, NoneIsEmpty
  <2> QED BY <2>1
<1>2. ASSUME NEW n \in P PROVE n + 1 \in P
  <2>1. ASSUME NEW U \in SUBSET S, Cardinality(U) <= n + 1, NEW y \in U
        PROVE  SumOf(f, U) = f[y] + SumOf(f, U \ {y})
    <3> DEFINE p == Pick(U)
               R == U \ {p}
               Q == U \ {y}
    <3>1. p \in U /\ R \in SUBSET S /\ Q \in SUBSET S /\ Cardinality(R) <= n
      BY <2>1, PickSmaller
    <3>2. SumOf(f, U) = f[p] + SumOf(f, R)
      BY <1>0, SumPick
    <3>3. CASE y = p
      BY <3>2, <3>3
    <3>4. CASE y # p
      <4>1. SumOf(f, R) = f[y] + SumOf(f, R \ {y})
        BY <3>1, <3>4
      <4>2. IsFiniteSet(U) /\ Cardinality(U) \in Nat /\ Cardinality(Q) <= n
        <5>1. IsFiniteSet(U) /\ U # {}
          BY <1>0
        <5>2. Cardinality(U) \in Nat /\ Cardinality(Q) = Cardinality(U) - 1
          BY <5>1, FS_RemoveElement, FS_CardinalityType
        <5> QED BY <5>1, <5>2, <2>1
      <4>3. SumOf(f, Q) = f[p] + SumOf(f, Q \ {p})
        BY <3>1, <3>4, <4>2
      <4>4. Q \ {p} = R \ {y}
        OBVIOUS
      <4>5. f[p] \in Int /\ f[y] \in Int /\ SumOf(f, R \ {y}) \in Int
        BY <1>0, <3>1
      <4>6. SumOf(f, U) = f[p] + (f[y] + SumOf(f, R \ {y}))
        BY <3>2, <4>1
      <4>7. SumOf(f, Q) = f[p] + SumOf(f, R \ {y})
        BY <4>3, <4>4
      <4> HIDE DEF p, R, Q
      <4>8. \A a, b, c \in Int : a + (b + c) = b + (a + c)
        OBVIOUS
      <4>9. SumOf(f, U) = f[y] + (f[p] + SumOf(f, R \ {y}))
        BY <4>5, <4>6, <4>8
      <4> QED BY <4>7, <4>9 DEF Q
    <3> QED BY <3>3, <3>4
  <2> QED BY <2>1
<1> HIDE DEF P
<1>3. P = Nat
  <2>1. P \in SUBSET Nat
    BY DEF P
  <2> QED BY <1>1, <1>2, <2>1, NatInd
<1> QED BY <1>3, FS_CardinalityType DEF P

LEMMA SumAdd ==
  ASSUME NEW f, NEW S, IsFiniteSet(S), NEW x, x \notin S, \A y \in S \cup {x} : f[y] \in Int
  PROVE  SumOf(f, S \cup {x}) = f[x] + SumOf(f, S)
<1>1. IsFiniteSet(S \cup {x})
  BY FS_AddElement
<1>2. (S \cup {x}) \ {x} = S
  OBVIOUS
<1>3. SumOf(f, S \cup {x}) = f[x] + SumOf(f, (S \cup {x}) \ {x})
  BY <1>1, SumTake
<1> QED BY <1>2, <1>3

\* A sum depends on the values of its elements only, and is monotonic in them.
LEMMA SumMonotonic ==
  ASSUME NEW f, NEW g, NEW S, IsFiniteSet(S),
         \A x \in S : f[x] \in Int /\ g[x] \in Int /\ f[x] <= g[x]
  PROVE  SumOf(f, S) <= SumOf(g, S)
<1> DEFINE P == {T \in SUBSET S : SumOf(f, T) <= SumOf(g, T)}
<1>1. {} \in P
  BY SumEmpty
<1>2. ASSUME NEW T \in SUBSET S, T \in P, NEW x \in S \ T PROVE T \cup {x} \in P
  <2>1. IsFiniteSet(T)
    BY FS_Subset
  <2>2. SumOf(f, T \cup {x}) = f[x] + SumOf(f, T) /\ SumOf(g, T \cup {x}) = g[x] + SumOf(g, T)
    BY <2>1, SumAdd
  <2>3. SumOf(f, T) \in Int /\ SumOf(g, T) \in Int
    BY <2>1, SumType
  <2>4. SumOf(f, T) <= SumOf(g, T) /\ f[x] \in Int /\ g[x] \in Int /\ f[x] <= g[x]
    BY <1>2
  <2>5. SumOf(f, T \cup {x}) <= SumOf(g, T \cup {x})
    BY <2>2, <2>3, <2>4
  <2> QED BY <2>5
<1> HIDE DEF P
<1>3. S \in P
  BY <1>1, <1>2, FinInd
<1> QED BY <1>3 DEF P

LEMMA SumSame ==
  ASSUME NEW f, NEW g, NEW S, IsFiniteSet(S), \A x \in S : f[x] \in Int /\ g[x] = f[x]
  PROVE  SumOf(f, S) = SumOf(g, S)
<1>1. SumOf(f, S) <= SumOf(g, S) /\ SumOf(g, S) <= SumOf(f, S)
  BY SumMonotonic
<1>2. SumOf(f, S) \in Int /\ SumOf(g, S) \in Int
  BY SumType
<1> QED BY <1>1, <1>2

\* Changing one element by d changes the sum by d.
LEMMA SumBump ==
  ASSUME NEW f, NEW g, NEW S, IsFiniteSet(S), NEW x \in S, NEW d \in Int,
         \A y \in S : f[y] \in Int, g[x] = f[x] + d, \A y \in S \ {x} : g[y] = f[y]
  PROVE  SumOf(g, S) = SumOf(f, S) + d
<1> DEFINE R == S \ {x}
<1>1. IsFiniteSet(R)
  BY FS_RemoveElement
<1>2. SumOf(f, S) = f[x] + SumOf(f, R)
  BY SumTake
<1>3. \A y \in S : g[y] \in Int
  OBVIOUS
<1>4. SumOf(g, S) = g[x] + SumOf(g, R)
  BY <1>3, SumTake
<1>5. SumOf(f, R) = SumOf(g, R)
  BY <1>1, SumSame
<1>6. SumOf(f, R) \in Int
  BY <1>1, SumType
<1> HIDE DEF R
<1> QED BY <1>2, <1>4, <1>5, <1>6

\* A sum of equal elements.
LEMMA SumConst ==
  ASSUME NEW f, NEW S, IsFiniteSet(S), NEW c \in Int, \A x \in S : f[x] = c
  PROVE  SumOf(f, S) = Cardinality(S) * c
<1> DEFINE P == {T \in SUBSET S : SumOf(f, T) = Cardinality(T) * c}
<1>1. {} \in P
  BY SumEmpty, FS_EmptySet
<1>2. ASSUME NEW T \in SUBSET S, T \in P, NEW x \in S \ T PROVE T \cup {x} \in P
  <2>1. IsFiniteSet(T) /\ Cardinality(T) \in Nat
    BY FS_Subset, FS_CardinalityType
  <2>2. SumOf(f, T \cup {x}) = c + SumOf(f, T)
    BY <2>1, SumAdd
  <2>3. Cardinality(T \cup {x}) = Cardinality(T) + 1
    BY <2>1, FS_AddElement
  <2>4. SumOf(f, T) = Cardinality(T) * c
    BY <1>2
  <2>5. \A n \in Nat : (n + 1) * c = c + n * c
    OBVIOUS
  <2>6. SumOf(f, T \cup {x}) = Cardinality(T \cup {x}) * c
    BY <2>1, <2>2, <2>3, <2>4, <2>5
  <2> QED BY <2>6
<1> HIDE DEF P
<1>3. S \in P
  BY <1>1, <1>2, FinInd
<1> QED BY <1>3 DEF P
-----------------------------------------------------------------------------
(* Recursion.  A recursive function is a CHOOSE: what it computes is known    *)
(* once some function is known to solve its equation.                         *)

\* g runs over 0 .. n from a first value, step by step.
IsRun(g, n, base, F) == g[0] = base /\ \A i \in 1 .. n : g[i] = F[<<i, g[i - 1]>>]

\* g folds the subsets of S, an element p[s] taken out at each step.
IsFold(g, S, base, p, F) ==
  \A s \in SUBSET S : g[s] = IF s = {} THEN base ELSE F[<<p[s], g[s \ {p[s]}]>>]

LEMMA StepsSolve ==
  ASSUME NEW n \in Nat, NEW A, NEW base \in A, NEW F \in [(1 .. n) \X A -> A]
  PROVE  \E g \in [0 .. n -> A] : IsRun(g, n, base, F)
<1> DEFINE Solves(g, k) == g[0] = base /\ \A i \in 1 .. n : i <= k => g[i] = F[<<i, g[i - 1]>>]
           P == {k \in Nat : \E g \in [0 .. n -> A] : Solves(g, k)}
<1>1. 0 \in P
  <2>1. Solves([i \in 0 .. n |-> base], 0)
    OBVIOUS
  <2> QED BY <2>1
<1>2. ASSUME NEW k \in P PROVE k + 1 \in P
  <2>1. PICK g \in [0 .. n -> A] : Solves(g, k)
    OBVIOUS
  <2>2. CASE k + 1 \notin 1 .. n
    BY <2>1, <2>2
  <2>3. CASE k + 1 \in 1 .. n
    <3> DEFINE h == [g EXCEPT ![k + 1] = F[<<k + 1, g[k]>>]]
    <3>1. g[k] \in A /\ F[<<k + 1, g[k]>>] \in A
      BY <2>3
    <3>2. h \in [0 .. n -> A] /\ h[0] = base
      BY <2>1, <2>3, <3>1
    <3>3. \A i \in 0 .. n : h[i] = IF i = k + 1 THEN F[<<k + 1, g[k]>>] ELSE g[i]
      OBVIOUS
    <3> HIDE DEF h
    <3>4. ASSUME NEW i \in 1 .. n, i <= k + 1 PROVE h[i] = F[<<i, h[i - 1]>>]
      <4>1. i - 1 \in 0 .. n /\ i - 1 # k + 1 /\ i \in 0 .. n
        BY <3>4
      <4>2. h[i - 1] = g[i - 1]
        BY <4>1, <3>3
      <4>3. CASE i = k + 1
        <5>1. i - 1 = k
          BY <4>3
        <5>2. h[i] = F[<<i, g[i - 1]>>]
          BY <5>1, <4>1, <4>3, <3>3
        <5> QED BY <5>2, <4>2
      <4>4. CASE i # k + 1
        <5>1. i <= k /\ h[i] = g[i]
          BY <4>1, <4>4, <3>3, <3>4
        <5> QED BY <5>1, <4>2, <2>1
      <4> QED BY <4>3, <4>4
    <3>5. Solves(h, k + 1)
      BY <3>2, <3>4
    <3> QED BY <3>2, <3>5
  <2> QED BY <2>2, <2>3
<1> HIDE DEF P
<1>3. P = Nat
  <2>1. P \in SUBSET Nat
    BY DEF P
  <2> QED BY <1>1, <1>2, <2>1, NatInd
<1>4. PICK g \in [0 .. n -> A] : Solves(g, n)
  BY <1>3 DEF P
<1> QED BY <1>4 DEF IsRun

\* Two runs that take the same steps from the same start are the same.
Agree(f, g, n) == f[0] = g[0] /\ \A i \in 1 .. n : f[i - 1] = g[i - 1] => f[i] = g[i]

LEMMA StepsAgree ==
  ASSUME NEW n \in Nat, NEW f, NEW g, Agree(f, g, n)
  PROVE  \A i \in 0 .. n : f[i] = g[i]
<1> DEFINE P == {k \in Nat : k <= n => f[k] = g[k]}
<1>1. 0 \in P
  BY DEF Agree
<1>2. ASSUME NEW k \in P PROVE k + 1 \in P
  <2> SUFFICES ASSUME k + 1 <= n PROVE f[k + 1] = g[k + 1]
    OBVIOUS
  <2>1. k + 1 \in 1 .. n /\ (k + 1) - 1 = k /\ f[k] = g[k]
    OBVIOUS
  <2> QED BY <2>1 DEF Agree
<1> HIDE DEF P
<1>3. P = Nat
  <2>1. P \in SUBSET Nat
    BY DEF P
  <2> QED BY <1>1, <1>2, <2>1, NatInd
<1> QED BY <1>3 DEF P

LEMMA FoldSolves ==
  ASSUME NEW S, IsFiniteSet(S), NEW A, NEW base \in A, NEW p,
         \A s \in SUBSET S : s # {} => p[s] \in s, NEW F \in [S \X A -> A]
  PROVE  \E g \in [SUBSET S -> A] : IsFold(g, S, base, p, F)
<1> DEFINE Val(g, s) == IF s = {} THEN base ELSE F[<<p[s], g[s \ {p[s]}]>>]
           Solves(g, n) == \A s \in SUBSET S : Cardinality(s) <= n => g[s] = Val(g, s)
           P == {n \in Nat : \E g \in [SUBSET S -> A] : Solves(g, n)}
<1>0. ASSUME NEW g \in [SUBSET S -> A], NEW s \in SUBSET S PROVE Val(g, s) \in A
  <2>1. CASE s = {}
    BY <2>1
  <2>2. CASE s # {}
    <3>1. p[s] \in S /\ g[s \ {p[s]}] \in A
      BY <2>2
    <3> QED BY <2>2, <3>1
  <2> QED BY <2>1, <2>2
<1>1. 0 \in P
  <2> DEFINE g == [s \in SUBSET S |-> base]
  <2>1. ASSUME NEW s \in SUBSET S, Cardinality(s) <= 0 PROVE s = {}
    BY <2>1, NoneIsEmpty
  <2>2. Solves(g, 0)
    BY <2>1
  <2> QED BY <2>2
<1>2. ASSUME NEW n \in P PROVE n + 1 \in P
  <2>1. PICK g \in [SUBSET S -> A] : Solves(g, n)
    OBVIOUS
  <2> DEFINE h == [s \in SUBSET S |-> Val(g, s)]
  <2>2. ASSUME NEW s \in SUBSET S, Cardinality(s) <= n + 1 PROVE h[s] = Val(h, s)
    <3>1. h[s] = Val(g, s)
      OBVIOUS
    <3>2. CASE s = {}
      BY <3>1, <3>2
    <3>3. CASE s # {}
      <4> DEFINE t == s \ {p[s]}
      <4>1. t \in SUBSET S /\ Cardinality(t) <= n
        <5>1. p[s] \in s
          BY <3>3
        <5>2. t \in SUBSET S /\ Cardinality(t) = Cardinality(s) - 1 /\ Cardinality(s) \in Nat
          BY <5>1, OneLess
        <5> QED BY <5>2, <2>2
      <4>2. h[t] = Val(g, t) /\ g[t] = Val(g, t)
        BY <4>1, <2>1
      <4> QED BY <3>1, <3>3, <4>2
    <3> QED BY <3>2, <3>3
  <2>3. h \in [SUBSET S -> A]
    BY <1>0
  <2> HIDE DEF h
  <2>4. Solves(h, n + 1)
    BY <2>2
  <2> HIDE DEF Solves
  <2>5. n + 1 \in Nat
    OBVIOUS
  <2> QED BY <2>3, <2>4, <2>5
<1> HIDE DEF P
<1>3. P = Nat
  <2>1. P \in SUBSET Nat
    BY DEF P
  <2> QED BY <1>1, <1>2, <2>1, NatInd
<1>4. PICK g \in [SUBSET S -> A] : Solves(g, Cardinality(S))
  BY <1>3, FS_CardinalityType DEF P
<1>5. \A s \in SUBSET S : Cardinality(s) <= Cardinality(S)
  BY FS_Subset
<1> QED BY <1>4, <1>5 DEF IsFold

\* The largest of some of the first numbers, and what is left of a prefix.
LEMMA LargestIsIn ==
  ASSUME NEW n \in Nat, NEW s \in SUBSET (1 .. n), s # {}
  PROVE  Max(s) \in s
<1> DEFINE P == {k \in Nat : \A t \in SUBSET (1 .. k) : t # {} => \E x \in t : \A y \in t : x >= y}
<1>1. 0 \in P
  <2>1. \A t \in SUBSET (1 .. 0) : t = {}
    OBVIOUS
  <2> QED BY <2>1
<1>2. ASSUME NEW k \in P PROVE k + 1 \in P
  <2> SUFFICES ASSUME NEW t \in SUBSET (1 .. k + 1), t # {}
               PROVE  \E x \in t : \A y \in t : x >= y
    OBVIOUS
  <2>1. CASE k + 1 \in t
    BY <2>1
  <2>2. CASE k + 1 \notin t
    <3>1. t \in SUBSET (1 .. k)
      BY <2>2
    <3> QED BY <3>1
  <2> QED BY <2>1, <2>2
<1> HIDE DEF P
<1>3. P = Nat
  <2>1. P \in SUBSET Nat
    BY DEF P
  <2> QED BY <1>1, <1>2, <2>1, NatInd
<1>4. \E x \in s : \A y \in s : x >= y
  BY <1>3 DEF P
<1> QED BY <1>4 DEF Max

\* The smallest of some numbers.
LEMMA SmallestIsIn ==
  ASSUME NEW s \in SUBSET Nat, s # {}
  PROVE  Min(s) \in s /\ \A y \in s : Min(s) <= y
<1> DEFINE Least(u) == \E x \in u : \A y \in u : x <= y
           P == {k \in Nat : \A u \in SUBSET Nat : (\E y \in u : y <= k) => Least(u)}
<1>1. 0 \in P
  OBVIOUS
<1>2. ASSUME NEW k \in P PROVE k + 1 \in P
  <2> SUFFICES ASSUME NEW u \in SUBSET Nat, \E y \in u : y <= k + 1 PROVE Least(u)
    OBVIOUS
  <2>1. CASE \E y \in u : y <= k
    BY <2>1
  <2>2. CASE \A y \in u : ~ (y <= k)
    <3>1. k + 1 \in u /\ \A y \in u : k + 1 <= y
      BY <2>2
    <3> QED BY <3>1
  <2> QED BY <2>1, <2>2
<1> HIDE DEF P
<1>3. P = Nat
  <2>1. P \in SUBSET Nat
    BY DEF P
  <2> QED BY <1>1, <1>2, <2>1, NatInd
<1>4. PICK y \in s : TRUE
  OBVIOUS
<1>5. Least(s)
  BY <1>3, <1>4 DEF P
<1> QED BY <1>5 DEF Min

LEMMA LargestOfPrefix ==
  ASSUME NEW n \in Nat, n # 0
  PROVE  Max(1 .. n) = n /\ (1 .. n) \ {n} = 1 .. n - 1
  BY DEF Max
\* g folds the elements of s into base from the first to the last, by the step F:
\* what FoldLeft iterates over, the positions t so far.
IsSeqFold(g, s, base, F) ==
  \A t \in SUBSET DOMAIN s : g[t] = IF t = {} THEN base ELSE F[<<g[t \ {Max(t)}], s[Max(t)]>>]

LEMMA SeqFoldSolves ==
  ASSUME NEW E, NEW s \in Seq(E), NEW A, NEW base \in A, NEW F \in [A \X E -> A]
  PROVE  \E g \in [SUBSET DOMAIN s -> A] : IsSeqFold(g, s, base, F)
<1> DEFINE D == DOMAIN s
           G == [x \in D \X A |-> F[<<x[2], s[x[1]]>>]]
           p == [t \in SUBSET D |-> Max(t)]
<1>1. D = 1 .. Len(s) /\ Len(s) \in Nat /\ \A i \in D : s[i] \in E
  OBVIOUS
<1>2. IsFiniteSet(D)
  BY <1>1, FS_Interval
<1>3. G \in [D \X A -> A]
  <2>1. \A x \in D \X A : F[<<x[2], s[x[1]]>>] \in A
    BY <1>1
  <2> QED BY <2>1
<1>4. \A t \in SUBSET D : t # {} => p[t] \in t /\ p[t] = Max(t)
  BY <1>1, LargestIsIn
<1>5. \A t \in SUBSET D : t # {} => p[t] \in t
  BY <1>4
<1>6. \A i \in D, a \in A : G[<<i, a>>] = F[<<a, s[i]>>]
  OBVIOUS
<1> HIDE DEF G, p, D
<1>7. PICK g \in [SUBSET D -> A] : IsFold(g, D, base, p, G)
  BY <1>2, <1>3, <1>5, FoldSolves, Zenon
<1>8. ASSUME NEW t \in SUBSET D, t # {} PROVE g[t] = F[<<g[t \ {Max(t)}], s[Max(t)]>>]
  <2>1. Max(t) \in D /\ p[t] = Max(t) /\ g[t \ {Max(t)}] \in A
    BY <1>8, <1>4
  <2>2. g[t] = G[<<p[t], g[t \ {p[t]}]>>]
    BY <1>7, <1>8 DEF IsFold
  <2> QED BY <2>1, <2>2, <1>6
<1>9. g[{}] = base
  BY <1>7 DEF IsFold
<1> QED BY <1>8, <1>9 DEF IsSeqFold, D

-----------------------------------------------------------------------------
(* Sequences. *)

\* x is in the sequence s.
Holds(s, x) == \E k \in DOMAIN s : s[k] = x

\* What two sequences hold, one after the other.
LEMMA HoldsBoth ==
  ASSUME NEW S, NEW s \in Seq(S), NEW t \in Seq(S)
  PROVE  /\ s \o t \in Seq(S)
         /\ \A x : Holds(s \o t, x) <=> Holds(s, x) \/ Holds(t, x)
<1> DEFINE c == s \o t
<1>1. /\ Len(s) \in Nat /\ Len(t) \in Nat /\ DOMAIN s = 1 .. Len(s) /\ DOMAIN t = 1 .. Len(t)
      /\ c \in Seq(S) /\ DOMAIN c = 1 .. Len(s) + Len(t)
      /\ \A k \in DOMAIN c : c[k] = IF k <= Len(s) THEN s[k] ELSE t[k - Len(s)]
  OBVIOUS
<1> HIDE DEF c
<1>2. ASSUME NEW k \in DOMAIN c
      PROVE  (\E i \in DOMAIN s : s[i] = c[k]) \/ (\E i \in DOMAIN t : t[i] = c[k])
  <2>1. CASE k <= Len(s)
    BY <2>1, <1>1
  <2>2. CASE ~ (k <= Len(s))
    <3>1. k - Len(s) \in DOMAIN t
      BY <2>2, <1>1
    <3> QED BY <3>1, <2>2, <1>1
  <2> QED BY <2>1, <2>2
<1>3. ASSUME NEW i \in DOMAIN s PROVE \E k \in DOMAIN c : c[k] = s[i]
  BY <1>1
<1>4. ASSUME NEW i \in DOMAIN t PROVE \E k \in DOMAIN c : c[k] = t[i]
  <2>1. Len(s) + i \in DOMAIN c /\ ~ (Len(s) + i <= Len(s)) /\ (Len(s) + i) - Len(s) = i
    BY <1>1
  <2> QED BY <2>1, <1>1
<1>5. \A x : (\E k \in DOMAIN c : c[k] = x) <=> (\E k \in DOMAIN s : s[k] = x) \/ (\E k \in DOMAIN t : t[k] = x)
  BY <1>2, <1>3, <1>4
<1> QED BY <1>1, <1>5 DEF c, Holds
=============================================================================
