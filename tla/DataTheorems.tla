---------------------------- MODULE DataTheorems ----------------------------
(***************************************************************************)
(* What the proofs need of numbers, finite sets and sums, and the library  *)
(* does not state in a form the provers can use: its theorems of induction *)
(* are about an operator.  Here induction is about the set of all values   *)
(* of which something is true.                                             *)
(***************************************************************************)
EXTENDS Integers, FiniteSetsExt, Functions, FiniteSetTheorems, WellFoundedInduction, TLAPS

(* Least and greatest numbers. *)
LEMMA LeastOf ==
  ASSUME NEW S \in SUBSET Nat, S # {}
  PROVE  \E x \in S : \A y \in S : x <= y
  <1> DEFINE R == OpToRel(<, Nat)
  <1>1. IsWellFoundedOn(R, Nat)
    BY NatLessThanWellFounded
  <1>2. \A x, y \in Nat : x < y => <<x, y>> \in R
    BY DEF OpToRel
  <1> HIDE DEF R
  <1>3. PICK x \in S : \A y \in S : ~ (<<y, x>> \in R)
    BY <1>1, WFMin
  <1>4. ASSUME NEW y \in S PROVE x <= y
    <2>1. x \in Nat /\ y \in Nat
      OBVIOUS
    <2>2. ~ (y < x)
      BY <1>2, <1>3, <2>1
    <2> QED BY <2>1, <2>2
  <1> QED BY <1>4

LEMMA GreatestOf ==
  ASSUME NEW n \in Nat, NEW S \in SUBSET (0..n), S # {}
  PROVE  \E x \in S : \A y \in S : y <= x
  <1> DEFINE T == {n - m : m \in S}
  <1>1. T \in SUBSET Nat /\ T # {}
    <2>1. \A m \in 0..n : n - m \in Nat
      OBVIOUS
    <2>2. PICK m : m \in S
      OBVIOUS
    <2> QED BY <2>1, <2>2
  <1> HIDE DEF T
  <1>2. PICK x \in T : \A y \in T : x <= y
    BY <1>1, LeastOf
  <1>3. PICK m \in S : x = n - m
    BY <1>2 DEF T
  <1>4. \A k \in S : n - m <= n - k
    BY <1>2, <1>3 DEF T
  <1>5. \A k \in S : k <= m
    BY <1>4
  <1> QED BY <1>5

LEMMA MinOf ==
  ASSUME NEW S \in SUBSET Nat, S # {}
  PROVE  Min(S) \in S /\ \A y \in S : Min(S) <= y
  <1>1. \E x \in S : \A y \in S : x <= y
    BY LeastOf
  <1> QED BY <1>1 DEF Min

LEMMA MaxOf ==
  ASSUME NEW n \in Nat, NEW S \in SUBSET (0..n), S # {}
  PROVE  Max(S) \in S /\ \A y \in S : y <= Max(S)
  <1>1. PICK x \in S : \A y \in S : y <= x
    BY GreatestOf
  <1>2. \A y \in S : x >= y
    BY <1>1
  <1>3. Max(S) \in S /\ \A y \in S : Max(S) >= y
    BY <1>2 DEF Max
  <1> QED BY <1>3

(* Products and quotients grow with the number. *)
LEMMA TimesGrows ==
  ASSUME NEW m \in Nat, NEW a \in Nat, NEW b \in Nat, a <= b
  PROVE  m * a \in Nat /\ m * b \in Nat /\ m * a <= m * b
  <1>1. b - a \in Nat /\ b = a + (b - a)
    OBVIOUS
  <1>2. m * a \in Nat /\ m * b \in Nat /\ m * (b - a) \in Nat
    BY <1>1
  <1>3. \A x, y \in Nat : m * (x + y) = m * x + m * y
    OBVIOUS
  <1>4. m * b = m * a + m * (b - a)
    BY <1>1, <1>3
  <1> QED BY <1>2, <1>4

LEMMA TimesNext ==
  ASSUME NEW m \in Nat, NEW a \in Nat
  PROVE  m * (a + 1) = m * a + m /\ m * a \in Nat
  OBVIOUS

LEMMA DivGrows ==
  ASSUME NEW d \in Nat \ {0}, NEW a \in Nat, NEW b \in Nat, a <= b
  PROVE  a \div d \in Nat /\ b \div d \in Nat /\ a \div d <= b \div d
  <1> DEFINE p == a \div d
             q == b \div d
  <1>1. p \in Nat /\ q \in Nat
    OBVIOUS
  <1>2. d * p <= a /\ b < d * q + d
    OBVIOUS
  <1>3. ASSUME q < p PROVE FALSE
    <2>1. q + 1 \in Nat /\ q + 1 <= p
      BY <1>1, <1>3
    <2> HIDE DEF p, q
    <2>2. d * (q + 1) <= d * p /\ d * p \in Nat
      BY <1>1, <2>1, TimesGrows
    <2>3. d * (q + 1) = d * q + d /\ d * q \in Nat
      BY <1>1, TimesNext
    <2> QED BY <1>2, <2>2, <2>3
  <1> HIDE DEF p, q
  <1>4. p <= q
    BY <1>1, <1>3
  <1> QED BY <1>1, <1>4 DEF p, q

(* Induction over the natural numbers. *)
LEMMA NatInductionOn ==
  ASSUME NEW Q, 0 \in Q, \A n \in Nat : n \in Q => n + 1 \in Q
  PROVE  Nat \subseteq Q
  <1> DEFINE Bad == Nat \ Q
  <1> SUFFICES ASSUME Bad # {} PROVE FALSE
    OBVIOUS
  <1>1. Bad \in SUBSET Nat
    OBVIOUS
  <1>2. PICK m \in Bad : \A k \in Bad : m <= k
    <2> HIDE DEF Bad
    <2> QED BY <1>1, LeastOf
  <1>3. m \in Nat /\ m # 0 /\ m \notin Q
    OBVIOUS
  <1>4. m - 1 \in Nat /\ ~ (m <= m - 1) /\ (m - 1) + 1 = m
    BY <1>3
  <1>5. m - 1 \in Q
    BY <1>2, <1>4
  <1> QED BY <1>3, <1>4, <1>5

(* Induction over the subsets of a finite set. *)
LEMMA FiniteInductionOn ==
  ASSUME NEW S, IsFiniteSet(S), NEW Q, {} \in Q,
         \A T \in SUBSET S : T # {} /\ (\A x \in T : T \ {x} \in Q) => T \in Q
  PROVE  \A T \in SUBSET S : T \in Q
  <1> DEFINE R == {n \in Nat : \A T \in SUBSET S : Cardinality(T) <= n => T \in Q}
  <1>0. \A T \in SUBSET S : IsFiniteSet(T) /\ Cardinality(T) \in Nat
    BY FS_Subset, FS_CardinalityType
  <1>1. 0 \in R
    <2> SUFFICES ASSUME NEW T \in SUBSET S, Cardinality(T) <= 0 PROVE T \in Q
      OBVIOUS
    <2>1. IsFiniteSet(T) /\ Cardinality(T) = 0
      BY <1>0
    <2>2. T = {}
      BY <2>1, FS_EmptySet
    <2> QED BY <2>2
  <1>2. ASSUME NEW n \in Nat, n \in R PROVE n + 1 \in R
    <2>1. ASSUME NEW T \in SUBSET S, Cardinality(T) <= n + 1, T # {}
          PROVE  T \in Q
      <3>1. ASSUME NEW x \in T PROVE T \ {x} \in Q
        <4>1. Cardinality(T \ {x}) = Cardinality(T) - 1
          BY <1>0, FS_RemoveElement
        <4>2. Cardinality(T \ {x}) <= n
          BY <1>0, <2>1, <4>1
        <4> QED BY <1>2, <4>2
      <3> QED BY <2>1, <3>1
    <2>2. \A T \in SUBSET S : Cardinality(T) <= n + 1 => T \in Q
      BY <2>1
    <2>3. n + 1 \in Nat
      OBVIOUS
    <2> QED BY <2>2, <2>3
  <1> HIDE DEF R
  <1>3. Nat \subseteq R
    BY <1>1, <1>2, NatInductionOn
  <1> SUFFICES ASSUME NEW T \in SUBSET S PROVE T \in Q
    OBVIOUS
  <1>4. Cardinality(T) \in Nat /\ Cardinality(T) \in R
    BY <1>0, <1>3
  <1> QED BY <1>4 DEF R
----------------------------------------------------------------------------
(* Sums over finite sets.                                                  *)

Pick(s) == CHOOSE x \in s : TRUE

(* g is the function by which the sum of f over a subset is defined. *)
SumsOn(g, f, D) == g = [s \in D |-> IF s = {} THEN 0 ELSE f[Pick(s)] + g[s \ {Pick(s)}]]
Sums(g, f, S) == SumsOn(g, f, SUBSET S)

LEMMA Picked == ASSUME NEW s, s # {} PROVE Pick(s) \in s
  BY DEF Pick

LEMMA SumsExist ==
  ASSUME NEW S, IsFiniteSet(S), NEW f PROVE \E g : Sums(g, f, S)
  <1> DEFINE Upto(n) == {s \in SUBSET S : Cardinality(s) <= n}
             R == {n \in Nat : \E g : SumsOn(g, f, Upto(n))}
  <1>0. \A s \in SUBSET S : IsFiniteSet(s) /\ Cardinality(s) \in Nat
    BY FS_Subset, FS_CardinalityType
  <1>1. 0 \in R
    <2> DEFINE g == [s \in Upto(0) |-> 0]
    <2>1. ASSUME NEW s \in Upto(0) PROVE s = {}
      <3>1. IsFiniteSet(s) /\ Cardinality(s) = 0
        BY <1>0
      <3> QED BY <3>1, FS_EmptySet
    <2> HIDE DEF Upto
    <2>2. SumsOn(g, f, Upto(0))
      BY <2>1 DEF SumsOn
    <2> HIDE DEF g
    <2> QED BY <2>2
  <1>2. ASSUME NEW n \in Nat, n \in R PROVE n + 1 \in R
    <2>1. PICK g : SumsOn(g, f, Upto(n))
      BY <1>2
    <2> DEFINE D == Upto(n)
               E == Upto(n + 1)
               next(s) == IF s = {} THEN 0 ELSE f[Pick(s)] + g[s \ {Pick(s)}]
               h == [s \in E |-> next(s)]
    <2>2. D \subseteq E
      BY <1>0
    <2>3. ASSUME NEW s \in E, s # {} PROVE s \ {Pick(s)} \in D
      <3>1. s \in SUBSET S /\ Cardinality(s) <= n + 1 /\ Pick(s) \in s
        BY <2>3, Picked
      <3>2. Cardinality(s \ {Pick(s)}) = Cardinality(s) - 1
        BY <1>0, <3>1, FS_RemoveElement
      <3>3. s \ {Pick(s)} \in SUBSET S
        BY <3>1
      <3>4. Cardinality(s \ {Pick(s)}) <= n
        BY <1>0, <3>1, <3>2
      <3> QED BY <3>3, <3>4
    <2> HIDE DEF D, E
    <2>4. g = [s \in D |-> next(s)]
      BY <2>1 DEF SumsOn, D
    <2>5. \A s \in D : g[s] = next(s)
      <3> HIDE DEF next
      <3> QED BY <2>4
    <2>6. \A s \in D : h[s] = g[s]
      <3> HIDE DEF next
      <3> QED BY <2>2, <2>5
    <2>7. \A s \in E : next(s) = IF s = {} THEN 0 ELSE f[Pick(s)] + h[s \ {Pick(s)}]
      <3> HIDE DEF h
      <3> QED BY <2>3, <2>6
    <2>8. h = [s \in E |-> IF s = {} THEN 0 ELSE f[Pick(s)] + h[s \ {Pick(s)}]]
      <3>1. h = [s \in E |-> next(s)]
        OBVIOUS
      <3> HIDE DEF next, h
      <3> QED BY <2>7, <3>1
    <2>9. SumsOn(h, f, Upto(n + 1))
      <3> HIDE DEF h
      <3> QED BY <2>8 DEF SumsOn, E
    <2> HIDE DEF h, Upto
    <2>10. n + 1 \in Nat /\ \E k : SumsOn(k, f, Upto(n + 1))
      BY <2>9
    <2> QED BY <2>10
  <1> HIDE DEF R
  <1>3. Nat \subseteq R
    BY <1>1, <1>2, NatInductionOn
  <1>4. Cardinality(S) \in Nat /\ Cardinality(S) \in R
    BY <1>3, FS_CardinalityType
  <1>5. Upto(Cardinality(S)) = SUBSET S
    <2>1. \A s \in SUBSET S : Cardinality(s) <= Cardinality(S)
      BY FS_Subset
    <2> QED BY <2>1
  <1> HIDE DEF Upto
  <1> QED BY <1>4, <1>5 DEF R, Sums

(* The definition of a sum, as a function of the subsets. *)
Steps(g, f, S) == /\ g[{}] = 0
                  /\ \A s \in SUBSET S : s # {} =>
                        Pick(s) \in s /\ g[s] = f[Pick(s)] + g[s \ {Pick(s)}]

LEMMA SumsStep ==
  ASSUME NEW S, NEW f, NEW g, Sums(g, f, S)
  PROVE  Steps(g, f, S)
  <1> DEFINE next(s) == IF s = {} THEN 0 ELSE f[Pick(s)] + g[s \ {Pick(s)}]
  <1>1. g = [s \in SUBSET S |-> next(s)]
    BY DEF Sums, SumsOn
  <1>2. \A s \in SUBSET S : g[s] = next(s)
    <2> HIDE DEF next
    <2> QED BY <1>1
  <1>3. {} \in SUBSET S
    OBVIOUS
  <1> QED BY <1>2, <1>3, Picked DEF Steps

(* Functions that agree on a set have the same sums over its subsets. *)
Alike(e, f, S) == \A x \in S : e[x] = f[x]

LEMMA SumsAgree ==
  ASSUME NEW S, NEW T, S \subseteq T, IsFiniteSet(S), NEW e, NEW f, Alike(e, f, S),
         NEW g, NEW h, Sums(g, e, S), Sums(h, f, T)
  PROVE  Alike(g, h, SUBSET S)
  <1> DEFINE Q == {s \in SUBSET S : g[s] = h[s]}
  <1>0. Steps(g, e, S) /\ Steps(h, f, T)
    BY SumsStep
  <1>1. {} \in Q
    BY <1>0 DEF Steps
  <1>2. ASSUME NEW s \in SUBSET S, s # {}, \A x \in s : s \ {x} \in Q PROVE s \in Q
    <2>1. Pick(s) \in s /\ g[s] = e[Pick(s)] + g[s \ {Pick(s)}]
      BY <1>0, <1>2 DEF Steps
    <2>2. h[s] = f[Pick(s)] + h[s \ {Pick(s)}]
      BY <1>0, <1>2 DEF Steps
    <2>3. g[s \ {Pick(s)}] = h[s \ {Pick(s)}] /\ e[Pick(s)] = f[Pick(s)]
      BY <1>2, <2>1 DEF Alike
    <2> QED BY <2>1, <2>2, <2>3
  <1> HIDE DEF Q
  <1>3. \A s \in SUBSET S : s \in Q
    BY <1>1, <1>2, FiniteInductionOn
  <1> QED BY <1>3 DEF Q, Alike

LEMMA SumByFunction ==
  ASSUME NEW S, IsFiniteSet(S), NEW f, NEW T \in SUBSET S, NEW g, Sums(g, f, S)
  PROVE  SumFunctionOnSet(f, T) = g[T]
  <1> DEFINE h == CHOOSE k : Sums(k, f, T)
  <1>1. SumFunctionOnSet(f, T) = h[T]
    BY Zenon DEF SumFunctionOnSet, FoldFunctionOnSet, MapThenFoldSet, Sums, SumsOn, Pick
  <1>2. IsFiniteSet(T)
    BY FS_Subset
  <1>3. Sums(h, f, T)
    BY <1>2, SumsExist
  <1> HIDE DEF h
  <1>4. Alike(f, f, T)
    BY DEF Alike
  <1>5. h[T] = g[T]
    BY <1>2, <1>3, <1>4, SumsAgree DEF Alike
  <1> QED BY <1>1, <1>5
----------------------------------------------------------------------------
(* SumFunctionOnSet                                                        *)

LEMMA SumOfNone == ASSUME NEW f PROVE SumFunctionOnSet(f, {}) = 0
  <1>1. IsFiniteSet({})
    BY FS_EmptySet
  <1>2. PICK g : Sums(g, f, {})
    BY <1>1, SumsExist
  <1>3. SumFunctionOnSet(f, {}) = g[{}]
    BY <1>1, <1>2, SumByFunction
  <1> QED BY <1>2, <1>3, SumsStep DEF Steps

LEMMA SumsType ==
  ASSUME NEW S, IsFiniteSet(S), NEW f, \A x \in S : f[x] \in Int, NEW g, Sums(g, f, S)
  PROVE  \A T \in SUBSET S : g[T] \in Int
  <1> DEFINE Q == {T \in SUBSET S : g[T] \in Int}
  <1>0. Steps(g, f, S)
    BY SumsStep
  <1>1. {} \in Q
    BY <1>0 DEF Steps
  <1>2. ASSUME NEW T \in SUBSET S, T # {}, \A x \in T : T \ {x} \in Q PROVE T \in Q
    <2>1. PICK y \in T : g[T] = f[y] + g[T \ {y}]
      BY <1>0, <1>2 DEF Steps
    <2>2. T \ {y} \in Q
      BY <1>2
    <2> QED BY <2>1, <2>2
  <1> HIDE DEF Q
  <1>3. \A T \in SUBSET S : T \in Q
    BY <1>1, <1>2, FiniteInductionOn
  <1> QED BY <1>3 DEF Q

(* Which element is added last does not matter.                            *)
LEMMA SumSplits ==
  ASSUME NEW S, IsFiniteSet(S), NEW f, \A x \in S : f[x] \in Int
  PROVE  /\ SumFunctionOnSet(f, S) \in Int
         /\ \A x \in S : SumFunctionOnSet(f, S) = f[x] + SumFunctionOnSet(f, S \ {x})
  <1>1. PICK g : Sums(g, f, S)
    BY SumsExist
  <1>2. Steps(g, f, S) /\ \A T \in SUBSET S : g[T] \in Int
    BY <1>1, SumsType, SumsStep
  <1> DEFINE Q == {T \in SUBSET S : \A x \in T : g[T] = f[x] + g[T \ {x}]}
  <1>3. {} \in Q
    OBVIOUS
  <1>4. ASSUME NEW T \in SUBSET S, T # {}, \A x \in T : T \ {x} \in Q PROVE T \in Q
    <2> HIDE DEF Q
    <2>1. PICK y \in T : g[T] = f[y] + g[T \ {y}]
      BY <1>2, <1>4 DEF Steps
    <2>2. ASSUME NEW x \in T, NEW z \in T, x # z
          PROVE  g[T \ {x}] = f[z] + g[(T \ {x}) \ {z}]
      <3>1. T \ {x} \in Q /\ z \in T \ {x}
        BY <1>4, <2>2
      <3> QED BY <3>1 DEF Q
    <2>3. ASSUME NEW x \in T, x # y PROVE g[T] = f[x] + g[T \ {x}]
      <3> DEFINE k == g[(T \ {y}) \ {x}]
      <3>1. (T \ {x}) \ {y} = (T \ {y}) \ {x}
        OBVIOUS
      <3>2. g[T \ {y}] = f[x] + k
        BY <2>1, <2>2, <2>3
      <3>3. g[T \ {x}] = f[y] + k
        BY <2>1, <2>2, <2>3, <3>1
      <3>4. k \in Int /\ f[x] \in Int /\ f[y] \in Int
        BY <1>2, <2>1
      <3> HIDE DEF k
      <3> QED BY <2>1, <3>2, <3>3, <3>4
    <2> QED BY <1>4, <2>1, <2>3 DEF Q
  <1> HIDE DEF Q
  <1>5. S \in Q
    BY <1>3, <1>4, FiniteInductionOn, SMTT(30)
  <1>6. \A T \in SUBSET S : SumFunctionOnSet(f, T) = g[T]
    BY <1>1, SumByFunction
  <1>7. S \in SUBSET S /\ \A x \in S : S \ {x} \in SUBSET S
    OBVIOUS
  <1>8. \A x \in S : g[S] = f[x] + g[S \ {x}]
    BY <1>5 DEF Q
  <1> QED BY <1>2, <1>6, <1>7, <1>8

LEMMA SumsAreAlike ==
  ASSUME NEW S, IsFiniteSet(S), NEW e, NEW f, Alike(e, f, S)
  PROVE  SumFunctionOnSet(e, S) = SumFunctionOnSet(f, S)
  <1>1. PICK g : Sums(g, e, S)
    BY SumsExist
  <1>2. PICK h : Sums(h, f, S)
    BY SumsExist
  <1>3. S \in SUBSET S
    OBVIOUS
  <1>4. Alike(g, h, SUBSET S)
    BY <1>1, <1>2, SumsAgree
  <1>5. SumFunctionOnSet(e, S) = g[S] /\ SumFunctionOnSet(f, S) = h[S]
    BY <1>1, <1>2, <1>3, SumByFunction
  <1> QED BY <1>3, <1>4, <1>5 DEF Alike

(* More summands that are not negative make no less.                       *)
LEMMA SumGrows ==
  ASSUME NEW T, IsFiniteSet(T), NEW S \in SUBSET T, NEW f, \A x \in T : f[x] \in Int,
         \A x \in T \ S : f[x] >= 0
  PROVE  SumFunctionOnSet(f, S) <= SumFunctionOnSet(f, T)
  <1> DEFINE Q == {U \in SUBSET T : S \subseteq U => SumFunctionOnSet(f, S) <= SumFunctionOnSet(f, U)}
  <1>0. \A U \in SUBSET T : IsFiniteSet(U)
    BY FS_Subset
  <1>1. \A U \in SUBSET T : SumFunctionOnSet(f, U) \in Int
    BY <1>0, SumSplits
  <1>2. {} \in Q
    <2> SUFFICES ASSUME S \subseteq {} PROVE SumFunctionOnSet(f, S) <= SumFunctionOnSet(f, {})
      OBVIOUS
    <2>1. S = {}
      OBVIOUS
    <2> QED BY <2>1, SumOfNone
  <1>3. ASSUME NEW U \in SUBSET T, U # {}, \A x \in U : U \ {x} \in Q PROVE U \in Q
    <2> SUFFICES ASSUME S \subseteq U PROVE SumFunctionOnSet(f, S) <= SumFunctionOnSet(f, U)
      OBVIOUS
    <2>1. CASE S = U
      BY <1>1, <2>1
    <2>2. CASE S # U
      <3>1. PICK x \in U : x \notin S
        BY <2>2
      <3>2. SumFunctionOnSet(f, U) = f[x] + SumFunctionOnSet(f, U \ {x})
        BY <1>0, SumSplits
      <3>3. SumFunctionOnSet(f, S) <= SumFunctionOnSet(f, U \ {x})
        BY <1>3, <3>1
      <3>4. f[x] \in Int /\ f[x] >= 0 /\ SumFunctionOnSet(f, U \ {x}) \in Int
            /\ SumFunctionOnSet(f, S) \in Int
        BY <1>1, <3>1
      <3> QED BY <3>2, <3>3, <3>4
    <2> QED BY <2>1, <2>2
  <1> HIDE DEF Q
  <1>4. T \in Q
    BY <1>2, <1>3, FiniteInductionOn
  <1> QED BY <1>4 DEF Q
(* The values of a function at finitely many arguments are finitely many.  *)
LEMMA ImageFinite ==
  ASSUME NEW T, IsFiniteSet(T), NEW v
  PROVE  IsFiniteSet({v[x] : x \in T})
  <1> DEFINE Image == {v[x] : x \in T}
             w == [x \in T |-> v[x]]
  <1>1. w \in Surjection(T, Image)
    BY DEF Surjection
  <1> QED BY <1>1, FS_Surjection

(* Summing over the values of a one-to-one function, or over its arguments. *)
LEMMA SumOfImage ==
  ASSUME NEW T, IsFiniteSet(T), NEW v, \A x, y \in T : v[x] = v[y] => x = y,
         NEW f, NEW e, \A x \in T : e[x] = f[v[x]] /\ e[x] \in Int
  PROVE  SumFunctionOnSet(f, {v[x] : x \in T}) = SumFunctionOnSet(e, T)
  <1> DEFINE Image(U) == {v[x] : x \in U}
             Q == {U \in SUBSET T : SumFunctionOnSet(f, Image(U)) = SumFunctionOnSet(e, U)}
  <1>1. {} \in Q
    <2>1. Image({}) = {}
      OBVIOUS
    <2>2. SumFunctionOnSet(f, {}) = 0 /\ SumFunctionOnSet(e, {}) = 0
      BY SumOfNone
    <2> QED BY <2>1, <2>2
  <1>2. ASSUME NEW U \in SUBSET T, U # {}, \A x \in U : U \ {x} \in Q PROVE U \in Q
    <2>1. PICK x : x \in U
      BY <1>2
    <2>2. IsFiniteSet(U) /\ IsFiniteSet(Image(U))
      <3>1. IsFiniteSet(U)
        BY FS_Subset
      <3>2. IsFiniteSet(Image(U))
        BY <3>1, ImageFinite
      <3> QED BY <3>1, <3>2
    <2>3. Image(U) \ {v[x]} = Image(U \ {x})
      BY <2>1
    <2>4. \A z \in Image(U) : f[z] \in Int
      OBVIOUS
    <2>5. v[x] \in Image(U)
      BY <2>1
    <2> HIDE DEF Image
    <2>6. SumFunctionOnSet(f, Image(U)) = f[v[x]] + SumFunctionOnSet(f, Image(U) \ {v[x]})
      BY <2>2, <2>4, <2>5, SumSplits
    <2>7. SumFunctionOnSet(e, U) = e[x] + SumFunctionOnSet(e, U \ {x})
      BY <2>1, <2>2, SumSplits
    <2>8. SumFunctionOnSet(f, Image(U \ {x})) = SumFunctionOnSet(e, U \ {x})
      BY <1>2, <2>1
    <2>9. e[x] = f[v[x]]
      BY <2>1
    <2> QED BY <2>3, <2>6, <2>7, <2>8, <2>9
  <1> HIDE DEF Q
  <1>3. T \in Q
    BY <1>1, <1>2, FiniteInductionOn
  <1> QED BY <1>3 DEF Q
=============================================================================
