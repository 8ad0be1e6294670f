------------------------------ MODULE SumProofs ------------------------------
(***************************************************************************)
(* Facts about SumFunctionOnSet (Functions.tla), the sum the models use    *)
(* for money: of what is added up, in whatever order, over a finite set.   *)
(*                                                                         *)
(* The sum is a fold that chooses its elements. The proofs go by minimal   *)
(* counterexamples: a non-empty family of subsets of a finite set has a    *)
(* member without a smaller one in it (WellFoundedInduction's WFMin).      *)
(***************************************************************************)
EXTENDS Integers, Functions, FiniteSetTheorems, WellFoundedInduction, TLAPS

(* Inclusion is well-founded on the subsets of a finite set.               *)
LEMMA MinimalSet ==
  ASSUME NEW S, IsFiniteSet(S), NEW F \in SUBSET SUBSET S, F # {}
  PROVE  \E T \in F : \A U \in F : U \subseteq T => U = T
<1>1. FiniteSubsetsOf(S) = SUBSET S
  BY FS_Subset DEF FiniteSubsetsOf
<1>2. PICK T \in F : \A U \in F : <<U, T>> \notin StrictSubsetOrdering(S)
  BY <1>1, FS_StrictSubsetOrderingWellFounded, WFMin
<1> QED
  BY <1>2 DEF StrictSubsetOrdering

-----------------------------------------------------------------------------
(* The fold behind the sum                                                 *)

First(S) == CHOOSE x \in S : TRUE

\* g adds up the values of f over every subset of S.
AddsUp(g, f, S) ==
  /\ DOMAIN g = SUBSET S
  /\ \A T \in SUBSET S :
       g[T] = IF T = {} THEN 0 ELSE f[First(T)] + g[T \ {First(T)}]

Fold(f, S) ==
  CHOOSE g : g = [T \in SUBSET S |->
                    IF T = {} THEN 0 ELSE f[First(T)] + g[T \ {First(T)}]]

(* SumFunctionOnSet is that fold, over the whole set.                      *)
LEMMA SumIsFold ==
  ASSUME NEW f, NEW S
  PROVE  SumFunctionOnSet(f, S) = Fold(f, S)[S]
  BY DEF SumFunctionOnSet, FoldFunctionOnSet, MapThenFoldSet, Fold, First

(* The element the fold takes first is one of the set.                     *)
LEMMA FirstIsIn ==
  ASSUME NEW S, S # {}
  PROVE  First(S) \in S
  BY DEF First

(* Two ways to add up agree wherever both do.                              *)
LEMMA AddsUpOnce ==
  ASSUME NEW f, NEW S, IsFiniteSet(S), NEW A, NEW g, NEW h, S \subseteq A,
         AddsUp(g, f, A), AddsUp(h, f, S)
  PROVE  \A T \in SUBSET S : g[T] = h[T]
<1> DEFINE F == {T \in SUBSET S : g[T] # h[T]}
<1> SUFFICES ASSUME F # {} PROVE FALSE
  OBVIOUS
<1>1. PICK T \in F : \A U \in F : U \subseteq T => U = T
  <2> HIDE DEF F
  <2>1. F \in SUBSET SUBSET S
    BY DEF F
  <2> QED
    BY <2>1, MinimalSet
<1>2. T # {}
  BY <1>1 DEF AddsUp
<1>3. First(T) \in T /\ T \ {First(T)} \in SUBSET S /\ T \ {First(T)} # T
  BY <1>1, <1>2, FirstIsIn
<1>4. g[T \ {First(T)}] = h[T \ {First(T)}]
  BY <1>1, <1>3
<1>5. T \in SUBSET A /\ T \in SUBSET S
  BY <1>1
<1> QED
  BY <1>1, <1>2, <1>4, <1>5 DEF AddsUp

(* There is a way to add up over every finite set, and Fold is one.        *)
LEMMA FoldAddsUp ==
  ASSUME NEW f, NEW S, IsFiniteSet(S)
  PROVE  AddsUp(Fold(f, S), f, S)
<1> DEFINE F == {T \in SUBSET S : ~AddsUp(Fold(f, T), f, T)}
<1> SUFFICES ASSUME F # {} PROVE FALSE
  OBVIOUS
<1>1. PICK T \in F : \A U \in F : U \subseteq T => U = T
  <2> HIDE DEF F
  <2>1. F \in SUBSET SUBSET S
    BY DEF F
  <2> QED
    BY <2>1, MinimalSet
<1>2. \A U \in SUBSET T : U # T => AddsUp(Fold(f, U), f, U) /\ IsFiniteSet(U)
  BY <1>1, FS_Subset
<1> DEFINE g == [U \in SUBSET T |->
                   IF U = {} THEN 0
                   ELSE f[First(U)] + Fold(f, U \ {First(U)})[U \ {First(U)}]]
<1>3. \A U \in SUBSET T : U # T => g[U] = Fold(f, U)[U]
  <2> SUFFICES ASSUME NEW U \in SUBSET T, U # T
               PROVE  g[U] = Fold(f, U)[U]
    OBVIOUS
  <2>1. CASE U = {}
    BY <2>1, <1>2 DEF AddsUp
  <2>2. CASE U # {}
    <3> DEFINE V == U \ {First(U)}
    <3>1. First(U) \in U /\ V \in SUBSET T /\ V # T /\ V \subseteq U
      BY <2>2, FirstIsIn
    <3>2. Fold(f, U)[V] = Fold(f, V)[V]
      BY <3>1, <1>2, AddsUpOnce
    <3>3. Fold(f, U)[U] = f[First(U)] + Fold(f, U)[V]
      BY <2>2, <1>2 DEF AddsUp
    <3> QED
      BY <2>2, <3>2, <3>3
  <2> QED
    BY <2>1, <2>2
<1>4. g = [U \in SUBSET T |-> IF U = {} THEN 0 ELSE f[First(U)] + g[U \ {First(U)}]]
  <2>1. \A U \in SUBSET T : U # {} =>
           g[U \ {First(U)}] = Fold(f, U \ {First(U)})[U \ {First(U)}]
    <3> HIDE DEF g
    <3> QED
      BY <1>3, FirstIsIn
  <2> QED
    BY <2>1
<1>5. Fold(f, T) = [U \in SUBSET T |->
                      IF U = {} THEN 0 ELSE f[First(U)] + Fold(f, T)[U \ {First(U)}]]
  <2> HIDE DEF g
  <2> QED
    BY <1>4 DEF Fold
<1>6. AddsUp(Fold(f, T), f, T)
  <2> DEFINE h == Fold(f, T)
  <2>1. h = [U \in SUBSET T |-> IF U = {} THEN 0 ELSE f[First(U)] + h[U \ {First(U)}]]
    BY <1>5
  <2> HIDE DEF h
  <2>2. AddsUp(h, f, T)
    BY <2>1 DEF AddsUp
  <2> QED
    BY <2>2 DEF h
<1> QED
  BY <1>1, <1>6

-----------------------------------------------------------------------------
(* What the models use                                                     *)

(* Nothing adds up to zero.                                                *)
LEMMA SumOfNone ==
  ASSUME NEW f
  PROVE  SumFunctionOnSet(f, {}) = 0
<1>1. AddsUp(Fold(f, {}), f, {})
  BY FoldAddsUp, FS_EmptySet
<1> QED
  BY <1>1, SumIsFold DEF AddsUp

(* The sum takes its first element, and the sum of the rest.               *)
LEMMA SumFirst ==
  ASSUME NEW f, NEW S, IsFiniteSet(S), S # {}
  PROVE  /\ First(S) \in S
         /\ SumFunctionOnSet(f, S) = f[First(S)] + SumFunctionOnSet(f, S \ {First(S)})
<1> DEFINE R == S \ {First(S)}
<1>1. IsFiniteSet(R) /\ First(S) \in S
  BY FS_Subset, FirstIsIn
<1>2. AddsUp(Fold(f, S), f, S) /\ AddsUp(Fold(f, R), f, R)
  BY <1>1, FoldAddsUp
<1>3. Fold(f, S)[R] = Fold(f, R)[R]
  <2>1. R \subseteq S /\ R \in SUBSET R
    OBVIOUS
  <2>2. \A T \in SUBSET R : Fold(f, S)[T] = Fold(f, R)[T]
    <3> HIDE DEF R
    <3> QED
      BY <1>1, <1>2, <2>1, AddsUpOnce
  <2> QED
    BY <2>1, <2>2
<1>4. Fold(f, S)[S] = f[First(S)] + Fold(f, S)[R]
  BY <1>2 DEF AddsUp
<1> QED
  BY <1>1, <1>3, <1>4, SumIsFold

(* A sum of integers is an integer.                                        *)
LEMMA SumInt ==
  ASSUME NEW f, NEW S, IsFiniteSet(S), \A x \in S : f[x] \in Int
  PROVE  SumFunctionOnSet(f, S) \in Int
<1> DEFINE F == {T \in SUBSET S : SumFunctionOnSet(f, T) \notin Int}
<1> SUFFICES ASSUME F # {} PROVE FALSE
  BY DEF F
<1>1. PICK T \in F : \A U \in F : U \subseteq T => U = T
  <2> HIDE DEF F
  <2>1. F \in SUBSET SUBSET S
    BY DEF F
  <2> QED
    BY <2>1, MinimalSet
<1>2. T # {} /\ IsFiniteSet(T) /\ T \in SUBSET S
  <2>1. T \in SUBSET S
    BY <1>1
  <2>2. IsFiniteSet(T)
    BY <2>1, FS_Subset
  <2>3. T # {}
    <3>1. SumFunctionOnSet(f, {}) = 0
      BY SumOfNone
    <3>2. CASE T = {}
      BY <1>1, <3>1, <3>2
    <3> QED
      BY <3>2
  <2> QED
    BY <2>1, <2>2, <2>3
<1>3. /\ First(T) \in T
      /\ SumFunctionOnSet(f, T) = f[First(T)] + SumFunctionOnSet(f, T \ {First(T)})
  BY <1>2, SumFirst
<1>4. SumFunctionOnSet(f, T \ {First(T)}) \in Int
  BY <1>1, <1>2, <1>3
<1> QED
  BY <1>1, <1>2, <1>3, <1>4

(* Any element may be taken first.                                         *)
LEMMA SumRemove ==
  ASSUME NEW f, NEW S, IsFiniteSet(S), \A y \in S : f[y] \in Int, NEW x \in S
  PROVE  SumFunctionOnSet(f, S) = f[x] + SumFunctionOnSet(f, S \ {x})
<1> DEFINE F == {T \in SUBSET S : \E y \in T :
                   SumFunctionOnSet(f, T) # f[y] + SumFunctionOnSet(f, T \ {y})}
<1> SUFFICES ASSUME F # {} PROVE FALSE
  BY DEF F
<1>1. PICK T \in F : \A U \in F : U \subseteq T => U = T
  <2> HIDE DEF F
  <2>1. F \in SUBSET SUBSET S
    BY DEF F
  <2> QED
    BY <2>1, MinimalSet
<1>2. PICK y \in T : SumFunctionOnSet(f, T) # f[y] + SumFunctionOnSet(f, T \ {y})
  BY <1>1
<1> DEFINE c == First(T)
<1>3. /\ IsFiniteSet(T) /\ T \in SUBSET S /\ c \in T
      /\ SumFunctionOnSet(f, T) = f[c] + SumFunctionOnSet(f, T \ {c})
  BY <1>1, <1>2, SumFirst, FS_Subset
<1>4. c # y
  BY <1>2, <1>3
<1> HIDE DEF c
<1>5. SumFunctionOnSet(f, T \ {c}) = f[y] + SumFunctionOnSet(f, (T \ {c}) \ {y})
  <2>1. T \ {c} \notin F /\ y \in T \ {c} /\ T \ {c} \in SUBSET S
    BY <1>1, <1>2, <1>3, <1>4
  <2> QED
    BY <2>1
<1>6. SumFunctionOnSet(f, T \ {y}) = f[c] + SumFunctionOnSet(f, (T \ {y}) \ {c})
  <2>1. T \ {y} \notin F /\ c \in T \ {y} /\ T \ {y} \in SUBSET S
    BY <1>1, <1>2, <1>3, <1>4
  <2> QED
    BY <2>1
<1>7. SumFunctionOnSet(f, (T \ {c}) \ {y}) = SumFunctionOnSet(f, (T \ {y}) \ {c})
  <2>1. (T \ {c}) \ {y} = (T \ {y}) \ {c}
    OBVIOUS
  <2> QED
    BY <2>1
<1>8. /\ SumFunctionOnSet(f, (T \ {y}) \ {c}) \in Int
      /\ f[c] \in Int /\ f[y] \in Int
  <2>1. IsFiniteSet((T \ {y}) \ {c})
    BY <1>3, FS_Subset
  <2> QED
    BY <2>1, <1>2, <1>3, SumInt
<1>9. SumFunctionOnSet(f, T) = f[y] + SumFunctionOnSet(f, T \ {y})
  BY <1>3, <1>5, <1>6, <1>7, <1>8
<1> QED
  BY <1>2, <1>9

(* One more element adds its value.                                        *)
LEMMA SumAdd ==
  ASSUME NEW f, NEW S, IsFiniteSet(S), NEW x, x \notin S, \A y \in S \cup {x} : f[y] \in Int
  PROVE  SumFunctionOnSet(f, S \cup {x}) = f[x] + SumFunctionOnSet(f, S)
<1>1. IsFiniteSet(S \cup {x}) /\ x \in S \cup {x} /\ (S \cup {x}) \ {x} = S
  BY FS_AddElement
<1> QED
  BY <1>1, SumRemove

(* A sum of larger values is larger.                                       *)
LEMMA SumMonotone ==
  ASSUME NEW f, NEW g, NEW S, IsFiniteSet(S),
         \A x \in S : f[x] \in Int /\ g[x] \in Int /\ f[x] <= g[x]
  PROVE  SumFunctionOnSet(f, S) <= SumFunctionOnSet(g, S)
<1> DEFINE F == {T \in SUBSET S : ~(SumFunctionOnSet(f, T) <= SumFunctionOnSet(g, T))}
<1> SUFFICES ASSUME F # {} PROVE FALSE
  BY DEF F
<1>1. PICK T \in F : \A U \in F : U \subseteq T => U = T
  <2> HIDE DEF F
  <2>1. F \in SUBSET SUBSET S
    BY DEF F
  <2> QED
    BY <2>1, MinimalSet
<1>2. T # {} /\ IsFiniteSet(T) /\ T \in SUBSET S
  <2>1. T \in SUBSET S
    BY <1>1
  <2>2. IsFiniteSet(T)
    BY <2>1, FS_Subset
  <2>3. T # {}
    <3>1. SumFunctionOnSet(f, {}) = 0 /\ SumFunctionOnSet(g, {}) = 0
      BY SumOfNone
    <3>2. CASE T = {}
      BY <1>1, <3>1, <3>2
    <3> QED
      BY <3>2
  <2> QED
    BY <2>1, <2>2, <2>3
<1> DEFINE c == First(T)
<1>3. /\ c \in T
      /\ SumFunctionOnSet(f, T) = f[c] + SumFunctionOnSet(f, T \ {c})
      /\ SumFunctionOnSet(g, T) = g[c] + SumFunctionOnSet(g, T \ {c})
  BY <1>2, SumFirst
<1> HIDE DEF c
<1>4. SumFunctionOnSet(f, T \ {c}) <= SumFunctionOnSet(g, T \ {c})
  BY <1>1, <1>2, <1>3
<1>5. /\ SumFunctionOnSet(f, T \ {c}) \in Int /\ SumFunctionOnSet(g, T \ {c}) \in Int
      /\ f[c] \in Int /\ g[c] \in Int /\ f[c] <= g[c]
  <2>1. IsFiniteSet(T \ {c})
    BY <1>2, FS_Subset
  <2> QED
    BY <2>1, <1>2, <1>3, SumInt
<1> QED
  BY <1>1, <1>3, <1>4, <1>5

(* The sum reads the values over its set only.                             *)
LEMMA SumSame ==
  ASSUME NEW f, NEW g, NEW S, IsFiniteSet(S), \A x \in S : f[x] \in Int /\ g[x] = f[x]
  PROVE  SumFunctionOnSet(g, S) = SumFunctionOnSet(f, S)
<1>1. /\ SumFunctionOnSet(f, S) <= SumFunctionOnSet(g, S)
      /\ SumFunctionOnSet(g, S) <= SumFunctionOnSet(f, S)
      /\ SumFunctionOnSet(f, S) \in Int /\ SumFunctionOnSet(g, S) \in Int
  BY SumMonotone, SumInt
<1> QED
  BY <1>1

(* When one value changes, the sum changes by as much.                     *)
LEMMA SumChange ==
  ASSUME NEW f, NEW g, NEW S, IsFiniteSet(S), NEW x \in S,
         \A y \in S : f[y] \in Int /\ g[y] \in Int,
         \A y \in S \ {x} : g[y] = f[y]
  PROVE  SumFunctionOnSet(g, S) = SumFunctionOnSet(f, S) - f[x] + g[x]
<1>1. IsFiniteSet(S \ {x})
  BY FS_Subset
<1>2. /\ SumFunctionOnSet(f, S) = f[x] + SumFunctionOnSet(f, S \ {x})
      /\ SumFunctionOnSet(g, S) = g[x] + SumFunctionOnSet(g, S \ {x})
  BY SumRemove
<1>3. SumFunctionOnSet(g, S \ {x}) = SumFunctionOnSet(f, S \ {x})
  BY <1>1, SumSame
<1>4. SumFunctionOnSet(f, S \ {x}) \in Int
  BY <1>1, SumInt
<1> QED
  BY <1>2, <1>3, <1>4

(* Zeros add up to zero.                                                   *)
LEMMA SumOfZeros ==
  ASSUME NEW f, NEW S, IsFiniteSet(S), \A x \in S : f[x] = 0
  PROVE  SumFunctionOnSet(f, S) = 0
<1> DEFINE F == {T \in SUBSET S : SumFunctionOnSet(f, T) # 0}
<1> SUFFICES ASSUME F # {} PROVE FALSE
  BY DEF F
<1>1. PICK T \in F : \A U \in F : U \subseteq T => U = T
  <2> HIDE DEF F
  <2>1. F \in SUBSET SUBSET S
    BY DEF F
  <2> QED
    BY <2>1, MinimalSet
<1>2. T # {} /\ IsFiniteSet(T) /\ T \in SUBSET S
  <2>1. T \in SUBSET S
    BY <1>1
  <2>2. IsFiniteSet(T)
    BY <2>1, FS_Subset
  <2>3. T # {}
    <3>1. SumFunctionOnSet(f, {}) = 0
      BY SumOfNone
    <3>2. CASE T = {}
      BY <1>1, <3>1, <3>2
    <3> QED
      BY <3>2
  <2> QED
    BY <2>1, <2>2, <2>3
<1>3. /\ First(T) \in T
      /\ SumFunctionOnSet(f, T) = f[First(T)] + SumFunctionOnSet(f, T \ {First(T)})
  BY <1>2, SumFirst
<1>4. SumFunctionOnSet(f, T \ {First(T)}) = 0
  BY <1>1, <1>2, <1>3
<1> QED
  BY <1>1, <1>2, <1>3, <1>4

(* Naturals add up to a natural.                                           *)
LEMMA SumNat ==
  ASSUME NEW f, NEW S, IsFiniteSet(S), \A x \in S : f[x] \in Nat
  PROVE  SumFunctionOnSet(f, S) \in Nat
<1> DEFINE zero == [x \in S |-> 0]
<1>1. /\ SumFunctionOnSet(zero, S) = 0
      /\ SumFunctionOnSet(zero, S) <= SumFunctionOnSet(f, S)
      /\ SumFunctionOnSet(f, S) \in Int
  BY SumOfZeros, SumMonotone, SumInt
<1> QED
  BY <1>1

(* The sum of what two functions say is the sum of their sums.             *)
LEMMA SumPlus ==
  ASSUME NEW f, NEW g, NEW h, NEW S, IsFiniteSet(S),
         \A x \in S : f[x] \in Int /\ g[x] \in Int /\ h[x] = f[x] + g[x]
  PROVE  SumFunctionOnSet(h, S) = SumFunctionOnSet(f, S) + SumFunctionOnSet(g, S)
<1> DEFINE F == {T \in SUBSET S : SumFunctionOnSet(h, T)
                   # SumFunctionOnSet(f, T) + SumFunctionOnSet(g, T)}
<1> SUFFICES ASSUME F # {} PROVE FALSE
  BY DEF F
<1>1. PICK T \in F : \A U \in F : U \subseteq T => U = T
  <2> HIDE DEF F
  <2>1. F \in SUBSET SUBSET S
    BY DEF F
  <2> QED
    BY <2>1, MinimalSet
<1>2. T # {} /\ IsFiniteSet(T) /\ T \in SUBSET S
  <2>1. T \in SUBSET S
    BY <1>1
  <2>2. IsFiniteSet(T)
    BY <2>1, FS_Subset
  <2>3. T # {}
    <3>1. SumFunctionOnSet(f, {}) = 0 /\ SumFunctionOnSet(g, {}) = 0 /\ SumFunctionOnSet(h, {}) = 0
      BY SumOfNone
    <3>2. CASE T = {}
      BY <1>1, <3>1, <3>2
    <3> QED
      BY <3>2
  <2> QED
    BY <2>1, <2>2, <2>3
<1> DEFINE c == First(T)
<1>3. /\ c \in T
      /\ SumFunctionOnSet(f, T) = f[c] + SumFunctionOnSet(f, T \ {c})
      /\ SumFunctionOnSet(g, T) = g[c] + SumFunctionOnSet(g, T \ {c})
      /\ SumFunctionOnSet(h, T) = h[c] + SumFunctionOnSet(h, T \ {c})
  BY <1>2, SumFirst
<1> HIDE DEF c
<1>4. SumFunctionOnSet(h, T \ {c})
        = SumFunctionOnSet(f, T \ {c}) + SumFunctionOnSet(g, T \ {c})
  BY <1>1, <1>2, <1>3
<1>5. /\ SumFunctionOnSet(f, T \ {c}) \in Int /\ SumFunctionOnSet(g, T \ {c}) \in Int
      /\ f[c] \in Int /\ g[c] \in Int /\ h[c] = f[c] + g[c]
  <2>1. IsFiniteSet(T \ {c})
    BY <1>2, FS_Subset
  <2> QED
    BY <2>1, <1>2, <1>3, SumInt
<1> QED
  BY <1>1, <1>3, <1>4, <1>5

(* What is outside adds nothing.                                           *)
LEMMA SumSupport ==
  ASSUME NEW f, NEW S, IsFiniteSet(S), NEW R \in SUBSET S,
         \A x \in S : f[x] \in Int, \A x \in S \ R : f[x] = 0
  PROVE  SumFunctionOnSet(f, S) = SumFunctionOnSet(f, R)
<1> DEFINE F == {T \in SUBSET S : R \subseteq T
                   /\ SumFunctionOnSet(f, T) # SumFunctionOnSet(f, R)}
<1> SUFFICES ASSUME F # {} PROVE FALSE
  BY DEF F
<1>1. PICK T \in F : \A U \in F : U \subseteq T => U = T
  <2> HIDE DEF F
  <2>1. F \in SUBSET SUBSET S
    BY DEF F
  <2> QED
    BY <2>1, MinimalSet
<1>2. IsFiniteSet(T) /\ T \in SUBSET S /\ R \subseteq T /\ R # T
  BY <1>1, FS_Subset
<1>3. PICK x \in T : x \notin R
  BY <1>2
<1>4. SumFunctionOnSet(f, T) = f[x] + SumFunctionOnSet(f, T \ {x})
  BY <1>2, SumRemove
<1>5. SumFunctionOnSet(f, T \ {x}) = SumFunctionOnSet(f, R) /\ f[x] = 0
  BY <1>1, <1>2, <1>3
<1>6. SumFunctionOnSet(f, R) \in Int
  <2>1. IsFiniteSet(R)
    BY FS_Subset
  <2> QED
    BY <2>1, SumInt
<1> QED
  BY <1>1, <1>4, <1>5, <1>6

(* Less of what is not negative is less.                                   *)
LEMMA SumSubset ==
  ASSUME NEW f, NEW S, IsFiniteSet(S), NEW R \in SUBSET S, \A x \in S : f[x] \in Nat
  PROVE  SumFunctionOnSet(f, R) <= SumFunctionOnSet(f, S)
<1> DEFINE g == [x \in S |-> IF x \in R THEN f[x] ELSE 0]
<1>1. IsFiniteSet(R)
  BY FS_Subset
<1>2. SumFunctionOnSet(g, S) = SumFunctionOnSet(g, R)
  BY SumSupport
<1>3. SumFunctionOnSet(g, R) = SumFunctionOnSet(f, R)
  BY <1>1, SumSame
<1>4. SumFunctionOnSet(g, S) <= SumFunctionOnSet(f, S)
  BY SumMonotone
<1> QED
  BY <1>2, <1>3, <1>4

(* Summing by groups: each element of S belongs to one group of P.         *)
LEMMA SumByGroups ==
  ASSUME NEW f, NEW S, IsFiniteSet(S), \A x \in S : f[x] \in Int,
         NEW P, IsFiniteSet(P), NEW of, NEW g,
         \A p \in P : g[p] = SumFunctionOnSet(f, {x \in S : of[x] = p})
  PROVE  SumFunctionOnSet(g, P) = SumFunctionOnSet(f, {x \in S : of[x] \in P})
<1> DEFINE Of(Q) == {x \in S : of[x] \in Q}
           F == {Q \in SUBSET P : SumFunctionOnSet(g, Q) # SumFunctionOnSet(f, Of(Q))}
<1> SUFFICES ASSUME F # {} PROVE FALSE
  BY DEF F
<1>1. PICK Q \in F : \A U \in F : U \subseteq Q => U = Q
  <2> HIDE DEF F
  <2>1. F \in SUBSET SUBSET P
    BY DEF F
  <2> QED
    BY <2>1, MinimalSet
<1>2. Q # {} /\ IsFiniteSet(Q) /\ Q \in SUBSET P
  <2>1. Of({}) = {}
    OBVIOUS
  <2> QED
    BY <1>1, <2>1, SumOfNone, FS_Subset
<1> DEFINE c == First(Q)
           Group == {x \in S : of[x] = c}
<1>3. c \in Q /\ SumFunctionOnSet(g, Q) = g[c] + SumFunctionOnSet(g, Q \ {c})
  BY <1>2, SumFirst
<1> HIDE DEF c
<1>4. SumFunctionOnSet(g, Q \ {c}) = SumFunctionOnSet(f, Of(Q \ {c}))
  BY <1>1, <1>2, <1>3
<1>5. g[c] = SumFunctionOnSet(f, Group)
  BY <1>2, <1>3
<1> DEFINE inGroup == [x \in S |-> IF of[x] = c THEN f[x] ELSE 0]
           inRest == [x \in S |-> IF of[x] = c THEN 0 ELSE f[x]]
<1>6. IsFiniteSet(Of(Q)) /\ IsFiniteSet(Group) /\ IsFiniteSet(Of(Q \ {c}))
  BY FS_Subset
<1>7. SumFunctionOnSet(f, Of(Q))
        = SumFunctionOnSet(inGroup, Of(Q)) + SumFunctionOnSet(inRest, Of(Q))
  BY <1>6, SumPlus
<1>8. SumFunctionOnSet(inGroup, Of(Q)) = SumFunctionOnSet(f, Group)
  <2>1. Group \in SUBSET Of(Q)
    BY <1>3
  <2>2. SumFunctionOnSet(inGroup, Of(Q)) = SumFunctionOnSet(inGroup, Group)
    BY <1>6, <2>1, SumSupport
  <2>3. SumFunctionOnSet(inGroup, Group) = SumFunctionOnSet(f, Group)
    BY <1>6, SumSame
  <2> QED
    BY <2>2, <2>3
<1>9. SumFunctionOnSet(inRest, Of(Q)) = SumFunctionOnSet(f, Of(Q \ {c}))
  <2>1. Of(Q \ {c}) \in SUBSET Of(Q)
    OBVIOUS
  <2>2. SumFunctionOnSet(inRest, Of(Q)) = SumFunctionOnSet(inRest, Of(Q \ {c}))
    BY <1>6, <2>1, SumSupport
  <2>3. SumFunctionOnSet(inRest, Of(Q \ {c})) = SumFunctionOnSet(f, Of(Q \ {c}))
    BY <1>6, SumSame
  <2> QED
    BY <2>2, <2>3
<1> QED
  BY <1>1, <1>3, <1>4, <1>5, <1>7, <1>8, <1>9
=============================================================================
