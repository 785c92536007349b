----------------------------- MODULE SumLemmas -----------------------------
(***************************************************************************)
(* What a sum over a finite set is, whatever the set: the lemmas that the  *)
(* proofs about money rest on.  SumFunctionOnSet(f, S) of the community    *)
(* modules takes the elements of S in an order that CHOOSE decides; the    *)
(* lemmas show that the order does not matter.  Each is proved with a      *)
(* smallest counterexample, a finite subset of S.                          *)
(***************************************************************************)
EXTENDS Functions, FiniteSets, FiniteSetTheorems, WellFoundedInduction, TLAPS

LEMMA SmallestOfFinite ==
  ASSUME NEW S, IsFiniteSet(S), NEW F, F \subseteq SUBSET S, F # {}
  PROVE  \E T \in F : \A U \in F : U \subseteq T => U = T
<1>1. IsWellFoundedOn(StrictSubsetOrdering(S), SUBSET S)
  BY FS_StrictSubsetOrderingWellFounded, FS_FiniteSubsetsOfFinite
<1>2. PICK T \in F : \A U \in F : <<U, T>> \notin StrictSubsetOrdering(S)
  BY <1>1, WFMin
<1> QED
  BY <1>2 DEF StrictSubsetOrdering

-----------------------------------------------------------------------------
(* The partial sums.  Sums(f, S) is a function that has the sum of f over  *)
(* every subset of S.                                                      *)

First(s) == CHOOSE x \in s : TRUE

IsSums(f, S, g) ==
  g = [s \in SUBSET S |-> IF s = {} THEN 0 ELSE f[First(s)] + g[s \ {First(s)}]]

LEMMA FirstIsElement == ASSUME NEW s, s # {} PROVE First(s) \in s
  BY DEF First

LEMMA SumIsChosen ==
  ASSUME NEW f, NEW S
  PROVE  SumFunctionOnSet(f, S) = (CHOOSE g : IsSums(f, S, g))[S]
  BY DEF SumFunctionOnSet, FoldFunctionOnSet, MapThenFoldSet, IsSums, First

(* Two such functions agree. *)
LEMMA SumsAgree ==
  ASSUME NEW f, NEW A, IsFiniteSet(A), NEW B, NEW g, IsSums(f, A, g), NEW h, IsSums(f, B, h)
  PROVE  \A s \in SUBSET (A \intersect B) : g[s] = h[s]
<1> DEFINE Bad == {s \in SUBSET (A \intersect B) : g[s] # h[s]}
<1> SUFFICES ASSUME Bad # {} PROVE FALSE
  OBVIOUS
<1>1. Bad \subseteq SUBSET A
  OBVIOUS
<1>2. PICK T \in Bad : \A U \in Bad : U \subseteq T => U = T
  <2> HIDE DEF Bad
  <2> QED
    BY <1>1, SmallestOfFinite
<1>3. T \in SUBSET A /\ T \in SUBSET B /\ g[T] # h[T]
  OBVIOUS
<1>4. /\ g[T] = IF T = {} THEN 0 ELSE f[First(T)] + g[T \ {First(T)}]
      /\ h[T] = IF T = {} THEN 0 ELSE f[First(T)] + h[T \ {First(T)}]
  BY <1>3 DEF IsSums
<1>5. T # {}
  BY <1>3, <1>4
<1>6. T \ {First(T)} \notin Bad
  BY <1>2, <1>5, FirstIsElement
<1>7. g[T \ {First(T)}] = h[T \ {First(T)}]
  BY <1>3, <1>6
<1> QED
  BY <1>3, <1>4, <1>7

(* There is one. *)
LEMMA SumsExist ==
  ASSUME NEW f, NEW S, IsFiniteSet(S)
  PROVE  \E g : IsSums(f, S, g)
<1> DEFINE Bad == {s \in SUBSET S : ~ \E g : IsSums(f, s, g)}
<1> SUFFICES ASSUME Bad # {} PROVE FALSE
  BY S \in SUBSET S
<1>0. Bad \subseteq SUBSET S
  OBVIOUS
<1>1. PICK T \in Bad : \A U \in Bad : U \subseteq T => U = T
  <2> HIDE DEF Bad
  <2> QED
    BY <1>0, SmallestOfFinite
<1> DEFINE Of(s) == CHOOSE g : IsSums(f, s, g)
           Rest(s) == s \ {First(s)}
           h == [s \in SUBSET T |-> IF s = {} THEN 0 ELSE f[First(s)] + Of(Rest(s))[Rest(s)]]
<1>2. ASSUME NEW s \in SUBSET T, s # T PROVE IsSums(f, s, Of(s)) /\ IsFiniteSet(s)
  <2>1. s \in SUBSET S
    OBVIOUS
  <2>2. \E g : IsSums(f, s, g)
    BY <1>1, <1>2, <2>1
  <2> QED
    BY <2>1, <2>2, FS_Subset
<1>3. ASSUME NEW s \in SUBSET T, s # T PROVE h[s] = Of(s)[s]
  <2>1. CASE s = {}
    <3>1. IsSums(f, s, Of(s))
      BY <1>2, <1>3
    <3> HIDE DEF Of
    <3>2. Of(s)[s] = 0
      BY <2>1, <3>1 DEF IsSums
    <3> QED
      BY <2>1, <3>2
  <2>2. CASE s # {}
    <3>1. First(s) \in s /\ Rest(s) \in SUBSET s /\ Rest(s) \in SUBSET T /\ Rest(s) # T
      BY <1>3, <2>2, FirstIsElement
    <3>2. IsSums(f, s, Of(s)) /\ IsSums(f, Rest(s), Of(Rest(s))) /\ IsFiniteSet(s)
      BY <1>2, <1>3, <3>1
    <3> HIDE DEF Of
    <3>3. Of(s)[s] = f[First(s)] + Of(s)[Rest(s)]
      BY <2>2, <3>2 DEF IsSums
    <3>4. Rest(s) \in SUBSET (s \intersect Rest(s))
      BY <3>1
    <3> HIDE DEF Rest
    <3>5. Of(s)[Rest(s)] = Of(Rest(s))[Rest(s)]
      BY <3>2, <3>4, SumsAgree
    <3>6. h[s] = f[First(s)] + Of(Rest(s))[Rest(s)]
      BY <2>2
    <3> QED
      BY <3>3, <3>5, <3>6
  <2> QED
    BY <2>1, <2>2
<1>4. ASSUME NEW s \in SUBSET T, s # {} PROVE h[s] = f[First(s)] + h[s \ {First(s)}]
  <2>1. First(s) \in s /\ Rest(s) \in SUBSET T /\ Rest(s) # T
    BY <1>4, FirstIsElement
  <2>2. h[Rest(s)] = Of(Rest(s))[Rest(s)]
    BY <1>3, <2>1
  <2>3. h[s] = f[First(s)] + Of(Rest(s))[Rest(s)]
    BY <1>4
  <2> QED
    BY <2>2, <2>3
<1>5. h[{}] = 0
  OBVIOUS
<1>6. DOMAIN h = SUBSET T /\ h = [s \in DOMAIN h |-> h[s]]
  OBVIOUS
<1> HIDE DEF h
<1>7. IsSums(f, T, h)
  BY <1>4, <1>5, <1>6 DEF IsSums
<1> QED
  BY <1>1, <1>7

(* The defining equation: a sum is nothing, or the first element's value   *)
(* and the sum of the others.                                              *)
LEMMA SumUnfold ==
  ASSUME NEW f, NEW S, IsFiniteSet(S)
  PROVE  SumFunctionOnSet(f, S) =
           IF S = {} THEN 0 ELSE f[First(S)] + SumFunctionOnSet(f, S \ {First(S)})
<1> DEFINE g == CHOOSE g : IsSums(f, S, g)
           R == S \ {First(S)}
           h == CHOOSE h : IsSums(f, R, h)
<1>1. IsFiniteSet(R) /\ R \in SUBSET (S \intersect R)
  BY FS_Subset
<1>2. IsSums(f, S, g)
  BY SumsExist
<1>3. IsSums(f, R, h)
  <2> HIDE DEF R
  <2> QED
    BY <1>1, SumsExist
<1>4. SumFunctionOnSet(f, S) = g[S] /\ SumFunctionOnSet(f, R) = h[R]
  BY SumIsChosen
<1> HIDE DEF g, h
<1>5. g[R] = h[R]
  <2> HIDE DEF R
  <2> QED
    BY <1>1, <1>2, <1>3, SumsAgree
<1>6. g[S] = IF S = {} THEN 0 ELSE f[First(S)] + g[R]
  BY <1>2 DEF IsSums
<1> QED
  BY <1>4, <1>5, <1>6

-----------------------------------------------------------------------------
(* What the proofs about money cite. *)

LEMMA SumEmpty == ASSUME NEW f PROVE SumFunctionOnSet(f, {}) = 0
  BY SumUnfold, FS_EmptySet

LEMMA SumType ==
  ASSUME NEW S, IsFiniteSet(S), NEW f, \A x \in S : f[x] \in Int
  PROVE  SumFunctionOnSet(f, S) \in Int
<1> DEFINE Bad == {s \in SUBSET S : SumFunctionOnSet(f, s) \notin Int}
<1> SUFFICES ASSUME Bad # {} PROVE FALSE
  BY S \in SUBSET S
<1>0. Bad \subseteq SUBSET S
  OBVIOUS
<1>1. PICK T \in Bad : \A U \in Bad : U \subseteq T => U = T
  <2> HIDE DEF Bad
  <2> QED
    BY <1>0, SmallestOfFinite
<1>2. T \subseteq S /\ IsFiniteSet(T)
  BY FS_Subset
<1>3. T # {} /\ First(T) \in T
  <2>1. SumFunctionOnSet(f, T) \notin Int
    BY <1>1
  <2> QED
    BY <2>1, SumEmpty, FirstIsElement
<1>4. SumFunctionOnSet(f, T) = f[First(T)] + SumFunctionOnSet(f, T \ {First(T)})
  BY <1>2, <1>3, SumUnfold
<1>5. SumFunctionOnSet(f, T \ {First(T)}) \in Int
  BY <1>1, <1>2, <1>3
<1> QED
  BY <1>2, <1>3, <1>4, <1>5

LEMMA SumNat ==
  ASSUME NEW S, IsFiniteSet(S), NEW f, \A x \in S : f[x] \in Nat
  PROVE  SumFunctionOnSet(f, S) \in Nat
<1> DEFINE Bad == {s \in SUBSET S : SumFunctionOnSet(f, s) \notin Nat}
<1> SUFFICES ASSUME Bad # {} PROVE FALSE
  BY S \in SUBSET S
<1>0. Bad \subseteq SUBSET S
  OBVIOUS
<1>1. PICK T \in Bad : \A U \in Bad : U \subseteq T => U = T
  <2> HIDE DEF Bad
  <2> QED
    BY <1>0, SmallestOfFinite
<1>2. T \subseteq S /\ IsFiniteSet(T)
  BY FS_Subset
<1>3. T # {} /\ First(T) \in T
  <2>1. SumFunctionOnSet(f, T) \notin Nat
    BY <1>1
  <2> QED
    BY <2>1, SumEmpty, FirstIsElement
<1>4. SumFunctionOnSet(f, T) = f[First(T)] + SumFunctionOnSet(f, T \ {First(T)})
  BY <1>2, <1>3, SumUnfold
<1>5. SumFunctionOnSet(f, T \ {First(T)}) \in Nat
  BY <1>1, <1>2, <1>3
<1> QED
  BY <1>2, <1>3, <1>4, <1>5

LEMMA SumZero ==
  ASSUME NEW S, IsFiniteSet(S), NEW f, \A x \in S : f[x] = 0
  PROVE  SumFunctionOnSet(f, S) = 0
<1> DEFINE Bad == {s \in SUBSET S : SumFunctionOnSet(f, s) # 0}
<1> SUFFICES ASSUME Bad # {} PROVE FALSE
  BY S \in SUBSET S
<1>0. Bad \subseteq SUBSET S
  OBVIOUS
<1>1. PICK T \in Bad : \A U \in Bad : U \subseteq T => U = T
  <2> HIDE DEF Bad
  <2> QED
    BY <1>0, SmallestOfFinite
<1>2. T \subseteq S /\ IsFiniteSet(T)
  BY FS_Subset
<1>3. T # {} /\ First(T) \in T
  BY <1>1, SumEmpty, FirstIsElement
<1>4. SumFunctionOnSet(f, T) = f[First(T)] + SumFunctionOnSet(f, T \ {First(T)})
  BY <1>2, <1>3, SumUnfold
<1>5. SumFunctionOnSet(f, T \ {First(T)}) = 0
  BY <1>1, <1>2, <1>3
<1> QED
  BY <1>2, <1>3, <1>4, <1>5

(* Only the values on the set count. *)
LEMMA SumSame ==
  ASSUME NEW S, IsFiniteSet(S), NEW f, NEW g, \A x \in S : f[x] = g[x]
  PROVE  SumFunctionOnSet(f, S) = SumFunctionOnSet(g, S)
<1> DEFINE Bad == {s \in SUBSET S : SumFunctionOnSet(f, s) # SumFunctionOnSet(g, s)}
<1> SUFFICES ASSUME Bad # {} PROVE FALSE
  BY S \in SUBSET S
<1>0. Bad \subseteq SUBSET S
  OBVIOUS
<1>1. PICK T \in Bad : \A U \in Bad : U \subseteq T => U = T
  <2> HIDE DEF Bad
  <2> QED
    BY <1>0, SmallestOfFinite
<1>2. T \subseteq S /\ IsFiniteSet(T)
  BY FS_Subset
<1>3. T # {} /\ First(T) \in T
  <2>1. SumFunctionOnSet(f, T) # SumFunctionOnSet(g, T)
    BY <1>1
  <2>2. SumFunctionOnSet(f, {}) = 0 /\ SumFunctionOnSet(g, {}) = 0
    BY SumEmpty
  <2> QED
    BY <2>1, <2>2, FirstIsElement
<1>4. /\ SumFunctionOnSet(f, T) = f[First(T)] + SumFunctionOnSet(f, T \ {First(T)})
      /\ SumFunctionOnSet(g, T) = g[First(T)] + SumFunctionOnSet(g, T \ {First(T)})
  BY <1>2, <1>3, SumUnfold
<1>5. SumFunctionOnSet(f, T \ {First(T)}) = SumFunctionOnSet(g, T \ {First(T)})
  BY <1>1, <1>2, <1>3
<1> QED
  BY <1>2, <1>3, <1>4, <1>5

(* The order does not matter: any element may be taken out first. *)
LEMMA SumRemove ==
  ASSUME NEW S, IsFiniteSet(S), NEW f, \A x \in S : f[x] \in Int, NEW a \in S
  PROVE  SumFunctionOnSet(f, S) = f[a] + SumFunctionOnSet(f, S \ {a})
<1> DEFINE Sum(s) == SumFunctionOnSet(f, s)
           Bad == {s \in SUBSET S : \E x \in s : Sum(s) # f[x] + Sum(s \ {x})}
<1> SUFFICES ASSUME Bad # {} PROVE FALSE
  BY S \in SUBSET S
<1>0. Bad \subseteq SUBSET S
  OBVIOUS
<1>1. PICK T \in Bad : \A U \in Bad : U \subseteq T => U = T
  <2> HIDE DEF Bad
  <2> QED
    BY <1>0, SmallestOfFinite
<1>2. T \subseteq S /\ IsFiniteSet(T)
  BY FS_Subset
<1>3. PICK x \in T : Sum(T) # f[x] + Sum(T \ {x})
  OBVIOUS
<1> DEFINE y == First(T)
<1>4. y \in T /\ Sum(T) = f[y] + Sum(T \ {y})
  BY <1>2, <1>3, SumUnfold, FirstIsElement
<1> HIDE DEF y
<1>5. x # y
  BY <1>3, <1>4
<1>6. Sum(T \ {y}) = f[x] + Sum((T \ {y}) \ {x})
  BY <1>1, <1>2, <1>4, <1>5
<1>7. Sum(T \ {x}) = f[y] + Sum((T \ {x}) \ {y})
  BY <1>1, <1>2, <1>4, <1>5
<1>8. (T \ {y}) \ {x} = (T \ {x}) \ {y} /\ IsFiniteSet((T \ {y}) \ {x})
  BY <1>2, FS_Subset
<1>9. Sum((T \ {y}) \ {x}) \in Int
  <2> DEFINE U == (T \ {y}) \ {x}
  <2>1. IsFiniteSet(U) /\ \A z \in U : f[z] \in Int
    BY <1>2, <1>8
  <2> HIDE DEF U
  <2>2. Sum(U) \in Int
    BY <2>1, SumType
  <2> QED
    BY <2>2 DEF U
<1>10. f[x] \in Int /\ f[y] \in Int
  BY <1>2, <1>4
<1> QED
  BY <1>3, <1>4, <1>6, <1>7, <1>8, <1>9, <1>10

(* One more element adds its value. *)
LEMMA SumAdd ==
  ASSUME NEW S, IsFiniteSet(S), NEW f, NEW a, a \notin S, \A x \in S \union {a} : f[x] \in Int
  PROVE  SumFunctionOnSet(f, S \union {a}) = SumFunctionOnSet(f, S) + f[a]
<1> DEFINE T == S \union {a}
<1>1. IsFiniteSet(T) /\ a \in T /\ T \ {a} = S /\ (\A x \in T : f[x] \in Int)
  BY FS_AddElement
<1>2. SumFunctionOnSet(f, S) \in Int
  BY SumType
<1> HIDE DEF T
<1>3. SumFunctionOnSet(f, T) = f[a] + SumFunctionOnSet(f, S)
  BY <1>1, SumRemove
<1> QED
  BY <1>1, <1>2, <1>3 DEF T

(* A value changed at one place changes the sum by the difference. *)
LEMMA SumUpdate ==
  ASSUME NEW S, IsFiniteSet(S), NEW f, \A x \in S : f[x] \in Int,
         NEW g, NEW a \in S, g[a] \in Int, \A x \in S : x # a => g[x] = f[x]
  PROVE  SumFunctionOnSet(g, S) = SumFunctionOnSet(f, S) - f[a] + g[a]
<1> DEFINE R == S \ {a}
<1>1. IsFiniteSet(R) /\ (\A x \in R : f[x] = g[x]) /\ (\A x \in R : f[x] \in Int)
      /\ (\A x \in S : g[x] \in Int)
  BY FS_Subset
<1>2. /\ SumFunctionOnSet(f, S) = f[a] + SumFunctionOnSet(f, R)
      /\ SumFunctionOnSet(g, S) = g[a] + SumFunctionOnSet(g, R)
  BY <1>1, SumRemove
<1> HIDE DEF R
<1>3. SumFunctionOnSet(f, R) = SumFunctionOnSet(g, R) /\ SumFunctionOnSet(f, R) \in Int
  BY <1>1, SumSame, SumType
<1>4. f[a] \in Int
  OBVIOUS
<1> QED
  BY <1>2, <1>3, <1>4
=============================================================================
