-------------------------------- MODULE Sums --------------------------------
(***************************************************************************)
(* What the sum of a function over a finite set does when an element is    *)
(* taken out, and when a value changes.  SumFunctionOnSet takes the        *)
(* elements in the order CHOOSE gives them; the lemmas show that the order *)
(* does not matter.  Each is an induction over the finite subsets of a     *)
(* set, in the form that every set of counterexamples has a smallest one.  *)
(* The last two lemmas are about numbers of elements instead of sums.      *)
(***************************************************************************)
EXTENDS FiniteSetsExt, FiniteSetTheorems, TLAPS

Some(s) == CHOOSE y \in s : TRUE

\* g sums f over every subset of S, taking out some element after the other.
Sums(g, f, S) ==
  g = [s \in SUBSET S |-> IF s = {} THEN 0 ELSE f[Some(s)] + g[s \ {Some(s)}]]

\* A non-empty family of subsets of a finite set has a member none of whose
\* proper subsets is in the family.
LEMMA SmallestSet ==
  ASSUME NEW S, IsFiniteSet(S), NEW F, F \subseteq SUBSET S, F # {}
  PROVE  \E t \in F : \A u \in F : u \subseteq t => u = t
<1>1. IsWellFoundedOn(StrictSubsetOrdering(S), SUBSET S)
  BY FS_StrictSubsetOrderingWellFounded, FS_FiniteSubsetsOfFinite
<1>2. PICK t \in F : \A u \in F : <<u, t>> \notin StrictSubsetOrdering(S)
  BY <1>1, WFMin
<1> QED
  BY <1>2 DEF StrictSubsetOrdering

\* The greatest of finitely many numbers: none of them is above it.
LEMMA GreatestOf ==
  ASSUME NEW T, T \subseteq Int, IsFiniteSet(T), T # {}
  PROVE  \E t \in T : \A s \in T : s <= t
<1> DEFINE Above(t) == {s \in T : s > t}
           F == {Above(t) : t \in T}
<1>1. F \subseteq SUBSET T
  OBVIOUS
<1>2. F # {}
  OBVIOUS
<1>3. \A s, t \in T : s > t => Above(s) \subseteq Above(t) /\ s \notin Above(s) /\ s \in Above(t)
  <2> SUFFICES ASSUME NEW s \in T, NEW t \in T, s > t
               PROVE  Above(s) \subseteq Above(t) /\ s \notin Above(s) /\ s \in Above(t)
    OBVIOUS
  <2>1. \A r \in T : r > s => r > t
    OBVIOUS
  <2>2. ~(s > s)
    OBVIOUS
  <2> QED
    BY <2>1, <2>2
<1>4. \E u \in F : \A v \in F : v \subseteq u => v = u
  <2> HIDE DEF F
  <2> QED
    BY ONLY <1>1, <1>2, IsFiniteSet(T), SmallestSet
<1>5. PICK t \in T : \A s \in T : Above(s) \subseteq Above(t) => Above(s) = Above(t)
  <2>1. PICK u \in F : \A v \in F : v \subseteq u => v = u
    BY <1>4
  <2>2. PICK t \in T : u = Above(t)
    BY <2>1
  <2>3. \A s \in T : Above(s) \in F
    OBVIOUS
  <2> HIDE DEF F, Above
  <2> QED
    BY <2>1, <2>2, <2>3
<1>6. \A s \in T : ~(s > t)
  <2> HIDE DEF Above
  <2> QED
    BY <1>3, <1>5
<1> QED
  BY <1>6

\* The element taken out is one of the set.
LEMMA SomeIn == ASSUME NEW s, s # {} PROVE Some(s) \in s
BY DEF Some

\* The community modules' sum is the value of such a g at the whole set.
LEMMA SumUnfold ==
  ASSUME NEW f, NEW S
  PROVE  SumFunctionOnSet(f, S) = (CHOOSE g : Sums(g, f, S))[S]
BY DEF SumFunctionOnSet, FoldFunctionOnSet, MapThenFoldSet, Sums, Some

\* Two functions that sum f agree wherever both are defined.
LEMMA SumsUnique ==
  ASSUME NEW f, NEW S, NEW T, IsFiniteSet(S), NEW g, NEW h, Sums(g, f, S), Sums(h, f, T),
         NEW r \in SUBSET S, r \in SUBSET T
  PROVE  g[r] = h[r]
<1> DEFINE F == {s \in SUBSET S : s \in SUBSET T /\ g[s] # h[s]}
<1>0. F \subseteq SUBSET S
  OBVIOUS
<1>1. SUFFICES ASSUME F # {} PROVE FALSE
  OBVIOUS
<1> HIDE DEF F
<1>2. PICK t \in F : \A u \in F : u \subseteq t => u = t
  BY <1>0, <1>1, SmallestSet
<1> USE DEF F
<1>3. t # {}
  BY DEF Sums
<1>4. PICK x \in t : x = Some(t)
  BY <1>3, SomeIn
<1>5. g[t \ {x}] = h[t \ {x}]
  BY <1>2, <1>4
<1>6. g[t] = f[x] + g[t \ {x}]
  BY <1>3, <1>4 DEF Sums
<1>7. h[t] = f[x] + h[t \ {x}]
  BY <1>3, <1>4 DEF Sums
<1> QED
  BY <1>5, <1>6, <1>7

\* Every finite set has a g that sums f over its subsets.
LEMMA SumsExist ==
  ASSUME NEW f, NEW S, IsFiniteSet(S)
  PROVE  \E g : Sums(g, f, S)
<1> DEFINE F == {T \in SUBSET S : ~\E g : Sums(g, f, T)}
           G(T) == CHOOSE g : Sums(g, f, T)
<1>0. F \subseteq SUBSET S
  OBVIOUS
<1>1. SUFFICES ASSUME F # {} PROVE FALSE
  OBVIOUS
<1> HIDE DEF F
<1>2. PICK T \in F : \A u \in F : u \subseteq T => u = T
  BY <1>0, <1>1, SmallestSet
<1> USE DEF F
<1>3. \A u \in SUBSET T : u # T => Sums(G(u), f, u) /\ IsFiniteSet(u)
  BY <1>2, FS_Subset
<1> HIDE DEF G
<1> DEFINE g == [s \in SUBSET T |-> IF s = {} THEN 0
                                    ELSE f[Some(s)] + G(s \ {Some(s)})[s \ {Some(s)}]]
<1>4. ASSUME NEW s \in SUBSET T, s # {}
      PROVE  g[s \ {Some(s)}] = G(s \ {Some(s)})[s \ {Some(s)}]
  <2> DEFINE u == s \ {Some(s)}
             w == u \ {Some(u)}
  <2>1. Some(s) \in s /\ u \in SUBSET T /\ u # T /\ w \in SUBSET T /\ w # T
    BY <1>4, SomeIn
  <2>2. Sums(G(u), f, u) /\ IsFiniteSet(u)
    BY <2>1, <1>3
  <2>3. CASE u = {}
    BY <2>1, <2>2, <2>3 DEF Sums
  <2>4. CASE u # {}
    <3>1. Sums(G(w), f, w) /\ IsFiniteSet(w)
      BY <2>1, <1>3
    <3>2. G(u)[w] = G(w)[w]
      BY <2>2, <3>1, SumsUnique
    <3>3. G(u)[u] = f[Some(u)] + G(u)[w]
      BY <2>2, <2>4 DEF Sums
    <3>4. g[u] = f[Some(u)] + G(w)[w]
      BY <2>1, <2>4
    <3> QED
      BY <3>2, <3>3, <3>4
  <2> QED
    BY <2>3, <2>4
<1>5. Sums(g, f, T)
  BY <1>4 DEF Sums
<1> QED
  BY <1>2, <1>5

\* The sum of nothing, and the sum without the first element taken.
LEMMA SumStep ==
  ASSUME NEW f, NEW S, IsFiniteSet(S)
  PROVE  /\ SumFunctionOnSet(f, {}) = 0
         /\ S # {} => SumFunctionOnSet(f, S)
                        = f[Some(S)] + SumFunctionOnSet(f, S \ {Some(S)})
<1> DEFINE G(T) == CHOOSE g : Sums(g, f, T)
           w == S \ {Some(S)}
<1>1. \A T : SumFunctionOnSet(f, T) = G(T)[T]
  BY SumUnfold
<1>2. \A T : IsFiniteSet(T) => Sums(G(T), f, T)
  BY SumsExist
<1>3. IsFiniteSet({}) /\ IsFiniteSet(w)
  BY FS_EmptySet, FS_RemoveElement
<1> HIDE DEF G
<1>4. G({})[{}] = 0
  BY <1>2, <1>3 DEF Sums
<1>5. ASSUME S # {} PROVE G(S)[S] = f[Some(S)] + G(w)[w]
  <2>1. G(S)[S] = f[Some(S)] + G(S)[w]
    BY <1>2, <1>5 DEF Sums
  <2>2. G(S)[w] = G(w)[w]
    BY <1>2, <1>3, SumsUnique
  <2> QED
    BY <2>1, <2>2
<1> QED
  BY <1>1, <1>4, <1>5

\* A sum of integers is an integer.
LEMMA SumInt ==
  ASSUME NEW f, NEW S, IsFiniteSet(S), \A x \in S : f[x] \in Int
  PROVE  SumFunctionOnSet(f, S) \in Int
<1> DEFINE F == {s \in SUBSET S : SumFunctionOnSet(f, s) \notin Int}
<1>0. F \subseteq SUBSET S
  OBVIOUS
<1>1. SUFFICES ASSUME F # {} PROVE FALSE
  OBVIOUS
<1> HIDE DEF F
<1>2. PICK t \in F : \A u \in F : u \subseteq t => u = t
  BY <1>0, <1>1, SmallestSet
<1> USE DEF F
<1>3. IsFiniteSet(t)
  BY <1>2, FS_Subset
<1>4. t # {}
  <2>1. SumFunctionOnSet(f, t) \notin Int
    OBVIOUS
  <2>2. SumFunctionOnSet(f, {}) = 0
    BY FS_EmptySet, SumStep
  <2> QED
    BY <2>1, <2>2
<1>5. SumFunctionOnSet(f, t) = f[Some(t)] + SumFunctionOnSet(f, t \ {Some(t)})
  BY <1>3, <1>4, SumStep
<1>6. Some(t) \in t
  BY <1>4, SomeIn
<1>7. SumFunctionOnSet(f, t \ {Some(t)}) \in Int
  BY <1>2, <1>6
<1> QED
  BY <1>5, <1>6, <1>7

\* Any element may be taken out first.
LEMMA SumRemove ==
  ASSUME NEW f, NEW S, IsFiniteSet(S), \A x \in S : f[x] \in Int, NEW y \in S
  PROVE  SumFunctionOnSet(f, S) = f[y] + SumFunctionOnSet(f, S \ {y})
<1> DEFINE Sum(s) == SumFunctionOnSet(f, s)
           F == {s \in SUBSET S : \E z \in s : Sum(s) # f[z] + Sum(s \ {z})}
<1>0. F \subseteq SUBSET S
  OBVIOUS
<1>1. SUFFICES ASSUME F # {} PROVE FALSE
  OBVIOUS
<1> HIDE DEF F
<1>2. PICK t \in F : \A u \in F : u \subseteq t => u = t
  BY <1>0, <1>1, SmallestSet
<1> USE DEF F
<1>3. PICK z \in t : Sum(t) # f[z] + Sum(t \ {z})
  BY <1>2
<1> DEFINE x == Some(t)
<1>4. x \in t
  BY SomeIn
<1>5. \A s \in SUBSET S : IsFiniteSet(s) /\ Sum(s) \in Int
  BY FS_Subset, SumInt
<1>6. t \in SUBSET S /\ f[x] \in Int /\ f[z] \in Int
  BY <1>3, <1>4
<1>7. \A u \in SUBSET S : u \subseteq t /\ u # t => \A w \in u : Sum(u) = f[w] + Sum(u \ {w})
  BY <1>2
<1>8. Sum(t) = f[x] + Sum(t \ {x})
  BY <1>5, <1>6, <1>3, SumStep
<1> HIDE DEF Sum, x, F
<1>9. x # z
  BY <1>3, <1>8
<1>10. Sum(t \ {x}) = f[z] + Sum((t \ {x}) \ {z})
  <2>1. t \ {x} \in SUBSET S /\ t \ {x} \subseteq t /\ t \ {x} # t /\ z \in t \ {x}
    BY <1>3, <1>4, <1>6, <1>9
  <2> QED
    BY <2>1, <1>7
<1>11. Sum(t \ {z}) = f[x] + Sum((t \ {z}) \ {x})
  <2>1. t \ {z} \in SUBSET S /\ t \ {z} \subseteq t /\ t \ {z} # t /\ x \in t \ {z}
    BY <1>3, <1>4, <1>6, <1>9
  <2> QED
    BY <2>1, <1>7
<1>12. Sum(t) = f[z] + Sum(t \ {z})
  <2> DEFINE W == Sum((t \ {x}) \ {z})
  <2>1. (t \ {z}) \ {x} = (t \ {x}) \ {z}
    OBVIOUS
  <2>2. (t \ {x}) \ {z} \in SUBSET S
    BY <1>6
  <2>3. W \in Int
    BY <2>2, <1>5
  <2>4. Sum(t) = f[x] + (f[z] + W)
    BY <1>8, <1>10
  <2>5. Sum(t \ {z}) = f[x] + W
    BY <1>11, <2>1
  <2> HIDE DEF W
  <2> QED
    BY <2>3, <2>4, <2>5, <1>6
<1> QED
  BY <1>3, <1>12

\* The sum looks at the values within the set only.
LEMMA SumSame ==
  ASSUME NEW f, NEW g, NEW S, IsFiniteSet(S), \A x \in S : f[x] = g[x]
  PROVE  SumFunctionOnSet(f, S) = SumFunctionOnSet(g, S)
<1> DEFINE F == {s \in SUBSET S : SumFunctionOnSet(f, s) # SumFunctionOnSet(g, s)}
<1>0. F \subseteq SUBSET S
  OBVIOUS
<1>1. SUFFICES ASSUME F # {} PROVE FALSE
  OBVIOUS
<1> HIDE DEF F
<1>2. PICK t \in F : \A u \in F : u \subseteq t => u = t
  BY <1>0, <1>1, SmallestSet
<1> USE DEF F
<1>3. IsFiniteSet(t)
  BY <1>2, FS_Subset
<1>4. t # {}
  BY <1>2, <1>3, SumStep
<1>5. Some(t) \in t
  BY <1>4, SomeIn
<1>6. SumFunctionOnSet(f, t \ {Some(t)}) = SumFunctionOnSet(g, t \ {Some(t)})
  BY <1>2, <1>5
<1>7. SumFunctionOnSet(f, t) = f[Some(t)] + SumFunctionOnSet(f, t \ {Some(t)})
  BY <1>3, <1>4, SumStep
<1>8. SumFunctionOnSet(g, t) = g[Some(t)] + SumFunctionOnSet(g, t \ {Some(t)})
  BY <1>3, <1>4, SumStep
<1> QED
  BY <1>5, <1>6, <1>7, <1>8

\* A sum of nothing but zeros is zero.
LEMMA SumZero ==
  ASSUME NEW f, NEW S, IsFiniteSet(S), \A x \in S : f[x] = 0
  PROVE  SumFunctionOnSet(f, S) = 0
<1> DEFINE F == {s \in SUBSET S : SumFunctionOnSet(f, s) # 0}
<1>0. F \subseteq SUBSET S
  OBVIOUS
<1>1. SUFFICES ASSUME F # {} PROVE FALSE
  OBVIOUS
<1> HIDE DEF F
<1>2. PICK t \in F : \A u \in F : u \subseteq t => u = t
  BY <1>0, <1>1, SmallestSet
<1> USE DEF F
<1>3. IsFiniteSet(t) /\ SumFunctionOnSet(f, {}) = 0
  BY <1>2, FS_EmptySet, FS_Subset, SumStep
<1>4. t # {} /\ Some(t) \in t
  BY <1>2, <1>3, SomeIn
<1>5. SumFunctionOnSet(f, t \ {Some(t)}) = 0
  BY <1>2, <1>4
<1>6. SumFunctionOnSet(f, t) = f[Some(t)] + SumFunctionOnSet(f, t \ {Some(t)})
  BY <1>3, <1>4, SumStep
<1> QED
  BY <1>4, <1>5, <1>6

\* When one value changes, the sum changes by as much.
LEMMA SumChange ==
  ASSUME NEW f, NEW g, NEW S, IsFiniteSet(S), \A x \in S : f[x] \in Int /\ g[x] \in Int,
         NEW y \in S, \A x \in S : x # y => g[x] = f[x]
  PROVE  SumFunctionOnSet(g, S) = SumFunctionOnSet(f, S) + g[y] - f[y]
<1>1. IsFiniteSet(S \ {y})
  BY FS_RemoveElement
<1>2. SumFunctionOnSet(f, S) = f[y] + SumFunctionOnSet(f, S \ {y})
  BY SumRemove
<1>3. SumFunctionOnSet(g, S) = g[y] + SumFunctionOnSet(g, S \ {y})
  BY SumRemove
<1>4. SumFunctionOnSet(g, S \ {y}) = SumFunctionOnSet(f, S \ {y})
  BY <1>1, SumSame
<1>5. SumFunctionOnSet(f, S \ {y}) \in Int
  BY <1>1, SumInt
<1> QED
  BY <1>2, <1>3, <1>4, <1>5

\* A sum of naturals is one, and no smaller than each of them.
LEMMA SumNat ==
  ASSUME NEW f, NEW S, IsFiniteSet(S), \A x \in S : f[x] \in Nat
  PROVE  /\ SumFunctionOnSet(f, S) \in Nat
         /\ \A x \in S : f[x] <= SumFunctionOnSet(f, S)
<1> DEFINE F == {s \in SUBSET S : SumFunctionOnSet(f, s) \notin Nat}
<1>0. F \subseteq SUBSET S
  OBVIOUS
<1>1. ASSUME F # {} PROVE FALSE
  <2> HIDE DEF F
  <2>1. PICK t \in F : \A u \in F : u \subseteq t => u = t
    BY <1>0, <1>1, SmallestSet
  <2> USE DEF F
  <2>2. IsFiniteSet(t)
    BY <2>1, FS_Subset
  <2>3. t # {}
    <3>1. SumFunctionOnSet(f, t) \notin Nat
      OBVIOUS
    <3>2. SumFunctionOnSet(f, {}) = 0
      BY FS_EmptySet, SumStep
    <3> QED
      BY <3>1, <3>2
  <2>4. Some(t) \in t
    BY <2>3, SomeIn
  <2>5. SumFunctionOnSet(f, t \ {Some(t)}) \in Nat
    BY <2>1, <2>4
  <2>6. SumFunctionOnSet(f, t) = f[Some(t)] + SumFunctionOnSet(f, t \ {Some(t)})
    BY <2>2, <2>3, SumStep
  <2> QED
    BY <2>4, <2>5, <2>6
<1>2. \A s \in SUBSET S : SumFunctionOnSet(f, s) \in Nat
  BY <1>1 DEF F
<1>3. ASSUME NEW x \in S PROVE f[x] <= SumFunctionOnSet(f, S)
  <2>1. SumFunctionOnSet(f, S) = f[x] + SumFunctionOnSet(f, S \ {x})
    BY SumRemove
  <2> QED
    BY <1>2, <2>1
<1> QED
  BY <1>2, <1>3

\* Subsets of a finite set, counted: a smaller one has no more elements, one more
\* element is one more, and two without a common element fit side by side.
LEMMA Counting ==
  ASSUME NEW S, IsFiniteSet(S)
  PROVE  /\ \A T \in SUBSET S : Cardinality(T) \in Nat /\ Cardinality(T) <= Cardinality(S)
         /\ \A T, U \in SUBSET S : T \subseteq U => Cardinality(T) <= Cardinality(U)
         /\ \A T \in SUBSET S, x \in S :
              /\ x \notin T => Cardinality(T \cup {x}) = Cardinality(T) + 1
              /\ x \in T => Cardinality(T \ {x}) = Cardinality(T) - 1
         /\ \A T, U \in SUBSET S :
              T \cap U = {} => Cardinality(T) + Cardinality(U) <= Cardinality(S)
<1>1. ASSUME NEW T \in SUBSET S
      PROVE  /\ IsFiniteSet(T) /\ Cardinality(T) \in Nat /\ Cardinality(T) <= Cardinality(S)
  BY <1>1, FS_Subset, FS_CardinalityType
<1>2. ASSUME NEW T \in SUBSET S, NEW U \in SUBSET S, T \subseteq U
      PROVE  Cardinality(T) <= Cardinality(U)
  BY <1>1, <1>2, FS_Subset
<1>3. ASSUME NEW T \in SUBSET S, NEW x \in S
      PROVE  /\ x \notin T => Cardinality(T \cup {x}) = Cardinality(T) + 1
             /\ x \in T => Cardinality(T \ {x}) = Cardinality(T) - 1
  BY <1>1, FS_AddElement, FS_RemoveElement
<1>4. ASSUME NEW T \in SUBSET S, NEW U \in SUBSET S, T \cap U = {}
      PROVE  Cardinality(T) + Cardinality(U) <= Cardinality(S)
  <2>1. Cardinality(T \cup U) = Cardinality(T) + Cardinality(U) - Cardinality(T \cap U)
    BY <1>1, FS_Union
  <2>2. Cardinality(T \cap U) = 0
    BY <1>4, FS_EmptySet
  <2>3. T \cup U \in SUBSET S
    OBVIOUS
  <2>4. Cardinality(T \cup U) <= Cardinality(S)
    BY <1>1, <2>3
  <2> QED
    BY <1>1, <2>1, <2>2, <2>4
<1> QED
  BY <1>1, <1>2, <1>3, <1>4

\* A set without two different elements has no more than one.
LEMMA OneAtMost ==
  ASSUME NEW S, \A x, y \in S : x = y
  PROVE  IsFiniteSet(S) /\ Cardinality(S) \in Nat /\ Cardinality(S) <= 1
<1>1. CASE S = {}
  BY <1>1, FS_EmptySet
<1>2. CASE S # {}
  <2>1. PICK x \in S : TRUE
    BY <1>2
  <2>2. S = {x}
    BY <2>1
  <2>3. IsFiniteSet({x}) /\ Cardinality({x}) = 1
    BY FS_Singleton
  <2> QED
    BY <2>2, <2>3
<1> QED
  BY <1>1, <1>2

=============================================================================
