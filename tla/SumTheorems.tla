----------------------------- MODULE SumTheorems -----------------------------
(***************************************************************************)
(* Sums over finite sets (SumFunctionOnSet of module Functions), which the *)
(* models count points, tickets and amounts with: what a sum becomes when  *)
(* a summand is added, removed or changed.  The library's induction on     *)
(* finite sets takes an operator; here it is the set Good of what has been *)
(* proved, and the well-foundedness of strict inclusion.                   *)
(***************************************************************************)
EXTENDS Integers, Functions, FiniteSetTheorems, TLAPS

\* What holds of a set as soon as it holds of its strict subsets holds of a finite set.
LEMMA FiniteInduction ==
  ASSUME NEW S, IsFiniteSet(S), NEW Good,
         \A T \in SUBSET S : (\A U \in SUBSET T : U # T => U \in Good) => T \in Good
  PROVE  S \in Good
<1> SUFFICES ASSUME S \notin Good PROVE FALSE
  OBVIOUS
<1> DEFINE bad == {T \in SUBSET S : T \notin Good}
<1>1. bad \subseteq FiniteSubsetsOf(S)
  BY FS_Subset DEF FiniteSubsetsOf
<1>2. IsWellFoundedOn(StrictSubsetOrdering(S), FiniteSubsetsOf(S))
  BY FS_StrictSubsetOrderingWellFounded
<1>3. bad # {}
  OBVIOUS
<1> HIDE DEF bad
<1>4. PICK T \in bad : \A U \in bad : <<U, T>> \notin StrictSubsetOrdering(S)
  BY <1>1, <1>2, <1>3, WFMin
<1> QED
  BY <1>4 DEF StrictSubsetOrdering, bad

\* The element a sum takes next, and the function that a sum over S defines.
Pick(T) == CHOOSE x \in T : TRUE
Sums(g, F, S) ==
  g = [T \in SUBSET S |-> IF T = {} THEN 0 ELSE F[Pick(T)] + g[T \ {Pick(T)}]]

\* The sum, unfolded once: the value at S of a function on the subsets of S.
LEMMA SumIs ==
  ASSUME NEW F, NEW S
  PROVE  SumFunctionOnSet(F, S) = (CHOOSE g : Sums(g, F, S))[S]
BY DEF SumFunctionOnSet, FoldFunctionOnSet, MapThenFoldSet, Sums, Pick

\* The element taken next is one of the set.
LEMMA PickIn == ASSUME NEW T, T # {} PROVE Pick(T) \in T
BY DEF Pick

\* The equation of such a function, at one set.
LEMMA SumsAt ==
  ASSUME NEW F, NEW S, NEW g, Sums(g, F, S), NEW T \in SUBSET S
  PROVE  g[T] = IF T = {} THEN 0 ELSE F[Pick(T)] + g[T \ {Pick(T)}]
BY DEF Sums

\* Two such functions agree where the summands do.
LEMMA SumsAgree ==
  ASSUME NEW F, NEW H, NEW A, NEW B, NEW g, NEW h, Sums(g, F, A), Sums(h, H, B),
         NEW S, IsFiniteSet(S), S \subseteq A, S \subseteq B, \A x \in S : F[x] = H[x]
  PROVE  g[S] = h[S]
<1> DEFINE good == {T \in SUBSET S : g[T] = h[T]}
<1>1. ASSUME NEW T \in SUBSET S, \A U \in SUBSET T : U # T => U \in good
      PROVE  T \in good
  <2> T \in SUBSET A /\ T \in SUBSET B
    OBVIOUS
  <2>1. CASE T = {}
    <3>1. g[T] = 0
      BY <2>1 DEF Sums
    <3>2. h[T] = 0
      BY <2>1 DEF Sums
    <3> QED
      BY <3>1, <3>2
  <2>2. CASE T # {}
    <3>1. Pick(T) \in T /\ T \ {Pick(T)} \in SUBSET T /\ T \ {Pick(T)} # T
      BY <2>2, PickIn
    <3>2. g[T \ {Pick(T)}] = h[T \ {Pick(T)}]
      BY <1>1, <3>1
    <3>3. g[T] = F[Pick(T)] + g[T \ {Pick(T)}]
      BY <2>2 DEF Sums
    <3>4. h[T] = H[Pick(T)] + h[T \ {Pick(T)}]
      BY <2>2 DEF Sums
    <3> QED
      BY <3>1, <3>2, <3>3, <3>4
  <2> QED
    BY <2>1, <2>2
<1> HIDE DEF good
<1>2. S \in good
  BY <1>1, FiniteInduction
<1> QED
  BY <1>2 DEF good

\* There is such a function for every finite set.
LEMMA SumsExist ==
  ASSUME NEW F, NEW S, IsFiniteSet(S)
  PROVE  \E g : Sums(g, F, S)
<1> DEFINE good == {T \in SUBSET S : \E g : Sums(g, F, T)}
<1>1. ASSUME NEW T \in SUBSET S, \A U \in SUBSET T : U # T => U \in good
      PROVE  T \in good
  <2> DEFINE at(U) == (CHOOSE g : Sums(g, F, U))[U]
             g == [U \in SUBSET T |-> IF U = {} THEN 0 ELSE F[Pick(U)] + at(U \ {Pick(U)})]
  <2>1. ASSUME NEW U \in SUBSET T, U # T
        PROVE  Sums(CHOOSE k : Sums(k, F, U), F, U)
    BY <1>1, <2>1
  <2>2. ASSUME NEW U \in SUBSET T, U # T
        PROVE  at(U) = g[U]
    <3> DEFINE k == CHOOSE k : Sums(k, F, U)
    <3>1. Sums(k, F, U)
      BY <2>1, <2>2
    <3> HIDE DEF k
    <3>2. k[U] = IF U = {} THEN 0 ELSE F[Pick(U)] + k[U \ {Pick(U)}]
      BY <3>1, SumsAt
    <3>3. CASE U = {}
      BY <3>2, <3>3 DEF k
    <3>4. CASE U # {}
      <4> DEFINE V == U \ {Pick(U)}
                 m == CHOOSE m : Sums(m, F, V)
      <4>1. V \in SUBSET U /\ V \in SUBSET T /\ V # T /\ IsFiniteSet(V)
        BY <2>2, <3>4, PickIn, FS_Subset
      <4>2. Sums(m, F, V)
        BY <2>1, <4>1
      <4> HIDE DEF V, m
      <4>3. m[V] = k[V]
        BY <3>1, <4>1, <4>2, SumsAgree
      <4>4. at(V) = m[V]
        BY DEF m
      <4>5. k[U] = F[Pick(U)] + k[V]
        BY <3>2, <3>4 DEF V
      <4>6. g[U] = F[Pick(U)] + at(V)
        BY <3>4 DEF V
      <4>7. at(U) = k[U]
        BY DEF k
      <4> QED
        BY <4>3, <4>4, <4>5, <4>6, <4>7
    <3> QED
      BY <3>3, <3>4
  <2>3. ASSUME NEW U \in SUBSET T
        PROVE  g[U] = IF U = {} THEN 0 ELSE F[Pick(U)] + g[U \ {Pick(U)}]
    <3>1. CASE U = {}
      BY <3>1
    <3>2. CASE U # {}
      <4>1. U \ {Pick(U)} \in SUBSET T /\ U \ {Pick(U)} # T
        BY <3>2, PickIn
      <4>2. at(U \ {Pick(U)}) = g[U \ {Pick(U)}]
        BY <2>2, <4>1
      <4>3. g[U] = F[Pick(U)] + at(U \ {Pick(U)})
        BY <3>2
      <4> HIDE DEF g, at
      <4> QED
        BY <3>2, <4>2, <4>3
    <3> QED
      BY <3>1, <3>2
  <2>4. DOMAIN g = SUBSET T /\ g = [U \in SUBSET T |-> g[U]]
    OBVIOUS
  <2> HIDE DEF g, at
  <2>5. Sums(g, F, T)
    BY <2>3, <2>4 DEF Sums
  <2> QED
    BY <2>5
<1> HIDE DEF good
<1>2. S \in good
  BY <1>1, FiniteInduction
<1> QED
  BY <1>2 DEF good

\* The sum over a finite set, one summand at a time.
LEMMA SumStep ==
  ASSUME NEW F, NEW S, IsFiniteSet(S)
  PROVE  /\ S = {} => SumFunctionOnSet(F, S) = 0
         /\ S # {} => SumFunctionOnSet(F, S)
                        = F[Pick(S)] + SumFunctionOnSet(F, S \ {Pick(S)})
<1> DEFINE g == CHOOSE g : Sums(g, F, S)
           T == S \ {Pick(S)}
           h == CHOOSE h : Sums(h, F, T)
<1>1. Sums(g, F, S)
  BY SumsExist
<1>2. IsFiniteSet(T) /\ T \subseteq S
  BY FS_Subset
<1>3. Sums(h, F, T)
  BY <1>2, SumsExist
<1>4. SumFunctionOnSet(F, S) = g[S] /\ SumFunctionOnSet(F, T) = h[T]
  BY SumIs
<1> HIDE DEF g, h
<1>5. h[T] = g[T]
  BY <1>1, <1>2, <1>3, SumsAgree
<1>6. g[S] = IF S = {} THEN 0 ELSE F[Pick(S)] + g[S \ {Pick(S)}]
  BY <1>1, SumsAt
<1> QED
  BY <1>4, <1>5, <1>6

\* Equal summands, equal sums.
LEMMA SumSame ==
  ASSUME NEW F, NEW H, NEW S, IsFiniteSet(S), \A x \in S : F[x] = H[x]
  PROVE  SumFunctionOnSet(F, S) = SumFunctionOnSet(H, S)
<1> DEFINE g == CHOOSE g : Sums(g, F, S)
           h == CHOOSE h : Sums(h, H, S)
<1>1. Sums(g, F, S) /\ Sums(h, H, S)
  BY SumsExist
<1>2. SumFunctionOnSet(F, S) = g[S] /\ SumFunctionOnSet(H, S) = h[S]
  BY SumIs
<1> HIDE DEF g, h
<1>3. g[S] = h[S]
  BY <1>1, SumsAgree
<1> QED
  BY <1>2, <1>3

\* Sums of integers are integers.
LEMMA SumInt ==
  ASSUME NEW F, NEW S, IsFiniteSet(S), \A x \in S : F[x] \in Int
  PROVE  SumFunctionOnSet(F, S) \in Int
<1> DEFINE good == {T \in SUBSET S : SumFunctionOnSet(F, T) \in Int}
<1>1. ASSUME NEW T \in SUBSET S, \A U \in SUBSET T : U # T => U \in good
      PROVE  T \in good
  <2>1. IsFiniteSet(T)
    BY FS_Subset
  <2>2. CASE T = {}
    <3>1. SumFunctionOnSet(F, T) = 0
      BY <2>1, <2>2, SumStep
    <3> QED
      BY <3>1
  <2>3. CASE T # {}
    <3>1. Pick(T) \in T /\ T \ {Pick(T)} \in SUBSET T /\ T \ {Pick(T)} # T
      BY <2>3, PickIn
    <3>2. SumFunctionOnSet(F, T \ {Pick(T)}) \in Int /\ F[Pick(T)] \in Int
      BY <1>1, <3>1
    <3>3. SumFunctionOnSet(F, T) = F[Pick(T)] + SumFunctionOnSet(F, T \ {Pick(T)})
      BY <2>1, <2>3, SumStep
    <3> QED
      BY <3>2, <3>3
  <2> QED
    BY <2>2, <2>3
<1> HIDE DEF good
<1>2. S \in good
  BY <1>1, FiniteInduction
<1> QED
  BY <1>2 DEF good

\* Any summand can be taken out first.
LEMMA SumRemove ==
  ASSUME NEW F, NEW S, IsFiniteSet(S), \A x \in S : F[x] \in Int, NEW e \in S
  PROVE  SumFunctionOnSet(F, S) = F[e] + SumFunctionOnSet(F, S \ {e})
<1> DEFINE good == {T \in SUBSET S :
               \A x \in T : SumFunctionOnSet(F, T) = F[x] + SumFunctionOnSet(F, T \ {x})}
<1>1. ASSUME NEW T \in SUBSET S, \A U \in SUBSET T : U # T => U \in good
      PROVE  T \in good
  <2> SUFFICES ASSUME NEW x \in T
               PROVE  SumFunctionOnSet(F, T) = F[x] + SumFunctionOnSet(F, T \ {x})
    OBVIOUS
  <2> DEFINE c == Pick(T)
             U == T \ {c}
             V == T \ {x}
  <2>1. c \in T
    BY PickIn
  <2>2. IsFiniteSet(T) /\ IsFiniteSet(U) /\ IsFiniteSet(V) /\ IsFiniteSet(U \ {x})
    BY FS_Subset
  <2>3. SumFunctionOnSet(F, T) = F[c] + SumFunctionOnSet(F, U)
    BY <2>1, <2>2, SumStep
  <2>4. CASE x = c
    BY <2>3, <2>4
  <2>5. CASE x # c
    <3>1. U \in good /\ V \in good /\ x \in U /\ c \in V
      <4>1. U \in SUBSET T /\ U # T /\ V \in SUBSET T /\ V # T
        BY <2>1
      <4> QED
        BY <1>1, <2>1, <2>5, <4>1
    <3>2. SumFunctionOnSet(F, U) = F[x] + SumFunctionOnSet(F, U \ {x})
      BY <3>1
    <3>3. SumFunctionOnSet(F, V) = F[c] + SumFunctionOnSet(F, V \ {c})
      BY <3>1
    <3>4. U \ {x} = V \ {c}
      OBVIOUS
    <3>5. SumFunctionOnSet(F, U \ {x}) \in Int
      BY <2>2, SumInt
    <3>6. F[x] \in Int /\ F[c] \in Int
      BY <2>1
    <3>7. SumFunctionOnSet(F, T) = F[c] + (F[x] + SumFunctionOnSet(F, U \ {x}))
      BY <2>3, <3>2
    <3>8. F[x] + SumFunctionOnSet(F, V) = F[x] + (F[c] + SumFunctionOnSet(F, U \ {x}))
      BY <3>3, <3>4
    <3> DEFINE s == SumFunctionOnSet(F, U \ {x})
    <3>9. F[c] + (F[x] + s) = F[x] + (F[c] + s)
      <4> HIDE DEF s, c
      <4> QED
        BY <3>5, <3>6 DEF s
    <3> HIDE DEF c, U, V, good
    <3> QED
      BY <3>7, <3>8, <3>9 DEF V
  <2> QED
    BY <2>4, <2>5
<1> HIDE DEF good
<1>2. S \in good
  BY <1>1, FiniteInduction
<1> QED
  BY <1>2 DEF good

\* One summand more.
LEMMA SumMore ==
  ASSUME NEW F, NEW S, IsFiniteSet(S), NEW e, e \notin S, \A x \in S \cup {e} : F[x] \in Int
  PROVE  SumFunctionOnSet(F, S \cup {e}) = SumFunctionOnSet(F, S) + F[e]
<1>1. IsFiniteSet(S \cup {e}) /\ (S \cup {e}) \ {e} = S
  BY FS_AddElement
<1>2. SumFunctionOnSet(F, S \cup {e}) = F[e] + SumFunctionOnSet(F, (S \cup {e}) \ {e})
  BY <1>1, SumRemove
<1>3. SumFunctionOnSet(F, S) \in Int /\ F[e] \in Int
  BY SumInt
<1>4. SumFunctionOnSet(F, S \cup {e}) = F[e] + SumFunctionOnSet(F, S)
  BY <1>1, <1>2
<1> DEFINE s == SumFunctionOnSet(F, S)
<1>5. F[e] + s = s + F[e]
  BY <1>3
<1> QED
  BY <1>4, <1>5

\* One summand changed.
LEMMA SumChange ==
  ASSUME NEW F, NEW H, NEW S, IsFiniteSet(S), NEW e \in S, \A x \in S : F[x] \in Int,
         H[e] \in Int, \A x \in S \ {e} : H[x] = F[x]
  PROVE  SumFunctionOnSet(H, S) = SumFunctionOnSet(F, S) - F[e] + H[e]
<1>1. IsFiniteSet(S \ {e})
  BY FS_Subset
<1>2. SumFunctionOnSet(H, S \ {e}) = SumFunctionOnSet(F, S \ {e})
  BY <1>1, SumSame
<1>3. SumFunctionOnSet(F, S) = F[e] + SumFunctionOnSet(F, S \ {e})
  BY SumRemove
<1>4. SumFunctionOnSet(H, S) = H[e] + SumFunctionOnSet(H, S \ {e})
  <2>1. \A x \in S : H[x] \in Int
    OBVIOUS
  <2> QED
    BY <2>1, SumRemove
<1>5. SumFunctionOnSet(F, S \ {e}) \in Int /\ F[e] \in Int
  BY <1>1, SumInt
<1> QED
  BY <1>2, <1>3, <1>4, <1>5

\* Nothing adds up to nothing.
LEMMA SumZero ==
  ASSUME NEW F, NEW S, IsFiniteSet(S), \A x \in S : F[x] = 0
  PROVE  SumFunctionOnSet(F, S) = 0
<1> DEFINE good == {T \in SUBSET S : SumFunctionOnSet(F, T) = 0}
<1>1. ASSUME NEW T \in SUBSET S, \A U \in SUBSET T : U # T => U \in good
      PROVE  T \in good
  <2>1. IsFiniteSet(T)
    BY FS_Subset
  <2>2. CASE T = {}
    <3>1. SumFunctionOnSet(F, T) = 0
      BY <2>1, <2>2, SumStep
    <3> QED
      BY <3>1
  <2>3. CASE T # {}
    <3>1. Pick(T) \in T /\ T \ {Pick(T)} \in SUBSET T /\ T \ {Pick(T)} # T
      BY <2>3, PickIn
    <3>2. SumFunctionOnSet(F, T \ {Pick(T)}) = 0 /\ F[Pick(T)] = 0
      BY <1>1, <3>1
    <3>3. SumFunctionOnSet(F, T) = F[Pick(T)] + SumFunctionOnSet(F, T \ {Pick(T)})
      BY <2>1, <2>3, SumStep
    <3> QED
      BY <3>2, <3>3
  <2> QED
    BY <2>2, <2>3
<1> HIDE DEF good
<1>2. S \in good
  BY <1>1, FiniteInduction
<1> QED
  BY <1>2 DEF good

\* All but one summand are nothing.
LEMMA SumOnly ==
  ASSUME NEW F, NEW S, IsFiniteSet(S), NEW e \in S, F[e] \in Int, \A x \in S \ {e} : F[x] = 0
  PROVE  SumFunctionOnSet(F, S) = F[e]
<1>1. \A x \in S : F[x] \in Int
  OBVIOUS
<1>2. IsFiniteSet(S \ {e})
  BY FS_Subset
<1>3. SumFunctionOnSet(F, S \ {e}) = 0
  BY <1>2, SumZero
<1>4. SumFunctionOnSet(F, S) = F[e] + SumFunctionOnSet(F, S \ {e})
  BY <1>1, SumRemove
<1> QED
  BY <1>3, <1>4

\* Sums of natural numbers are natural numbers.
LEMMA SumNat ==
  ASSUME NEW F, NEW S, IsFiniteSet(S), \A x \in S : F[x] \in Nat
  PROVE  SumFunctionOnSet(F, S) \in Nat
<1> DEFINE good == {T \in SUBSET S : SumFunctionOnSet(F, T) \in Nat}
<1>1. ASSUME NEW T \in SUBSET S, \A U \in SUBSET T : U # T => U \in good
      PROVE  T \in good
  <2>1. IsFiniteSet(T)
    BY FS_Subset
  <2>2. CASE T = {}
    <3>1. SumFunctionOnSet(F, T) = 0
      BY <2>1, <2>2, SumStep
    <3> QED
      BY <3>1
  <2>3. CASE T # {}
    <3>1. Pick(T) \in T /\ T \ {Pick(T)} \in SUBSET T /\ T \ {Pick(T)} # T
      BY <2>3, PickIn
    <3>2. SumFunctionOnSet(F, T \ {Pick(T)}) \in Nat /\ F[Pick(T)] \in Nat
      BY <1>1, <3>1
    <3>3. SumFunctionOnSet(F, T) = F[Pick(T)] + SumFunctionOnSet(F, T \ {Pick(T)})
      BY <2>1, <2>3, SumStep
    <3> QED
      BY <3>2, <3>3
  <2> QED
    BY <2>2, <2>3
<1> HIDE DEF good
<1>2. S \in good
  BY <1>1, FiniteInduction
<1> QED
  BY <1>2 DEF good

\* A difference is summed term by term.
LEMMA SumMinus ==
  ASSUME NEW F, NEW G, NEW H, NEW S, IsFiniteSet(S),
         \A x \in S : F[x] \in Int /\ G[x] \in Int /\ H[x] = F[x] - G[x]
  PROVE  SumFunctionOnSet(H, S) = SumFunctionOnSet(F, S) - SumFunctionOnSet(G, S)
<1> DEFINE good == {T \in SUBSET S : SumFunctionOnSet(H, T)
                                       = SumFunctionOnSet(F, T) - SumFunctionOnSet(G, T)}
<1>1. ASSUME NEW T \in SUBSET S, \A U \in SUBSET T : U # T => U \in good
      PROVE  T \in good
  <2>1. IsFiniteSet(T)
    BY FS_Subset
  <2>2. CASE T = {}
    <3>1. /\ SumFunctionOnSet(F, T) = 0 /\ SumFunctionOnSet(G, T) = 0
          /\ SumFunctionOnSet(H, T) = 0
      BY <2>1, <2>2, SumStep
    <3> QED
      BY <3>1
  <2>3. CASE T # {}
    <3> DEFINE x == Pick(T)
               f == SumFunctionOnSet(F, T \ {x})
               g == SumFunctionOnSet(G, T \ {x})
               h == SumFunctionOnSet(H, T \ {x})
    <3>1. x \in T /\ T \ {x} \in SUBSET T /\ T \ {x} # T
      BY <2>3, PickIn
    <3>2. IsFiniteSet(T \ {x})
      BY <2>1, FS_Subset
    <3>3. f \in Int /\ g \in Int /\ F[x] \in Int /\ G[x] \in Int /\ H[x] = F[x] - G[x]
      BY <3>1, <3>2, SumInt
    <3>4. h = f - g
      BY <1>1, <3>1
    <3>5. /\ SumFunctionOnSet(F, T) = F[x] + f /\ SumFunctionOnSet(G, T) = G[x] + g
          /\ SumFunctionOnSet(H, T) = H[x] + h
      BY <2>1, <2>3, SumStep
    <3> HIDE DEF x, f, g, h
    <3>6. H[x] + h = (F[x] + f) - (G[x] + g)
      BY <3>3, <3>4
    <3> QED
      BY <3>5, <3>6
  <2> QED
    BY <2>2, <2>3
<1> HIDE DEF good
<1>2. S \in good
  BY <1>1, FiniteInduction
<1> QED
  BY <1>2 DEF good

\* Hundredths rounded one by one: each is off by half a unit at most.
LEMMA SumRounded ==
  ASSUME NEW P, NEW R, NEW v \in Int, NEW S, IsFiniteSet(S),
         \A x \in S : /\ P[x] \in Int /\ R[x] \in Int
                      /\ -99 <= 200 * P[x] - 2 * (v * R[x])
                      /\ 200 * P[x] - 2 * (v * R[x]) <= 100
  PROVE  LET gap == 200 * SumFunctionOnSet(P, S) - 2 * (v * SumFunctionOnSet(R, S)) IN
         -99 * Cardinality(S) <= gap /\ gap <= 100 * Cardinality(S)
<1> DEFINE gap(T) == 200 * SumFunctionOnSet(P, T) - 2 * (v * SumFunctionOnSet(R, T))
           good == {T \in SUBSET S : -99 * Cardinality(T) <= gap(T)
                                     /\ gap(T) <= 100 * Cardinality(T)}
<1>1. ASSUME NEW T \in SUBSET S, \A U \in SUBSET T : U # T => U \in good
      PROVE  T \in good
  <2>1. IsFiniteSet(T)
    BY FS_Subset
  <2>2. CASE T = {}
    <3>1. SumFunctionOnSet(P, T) = 0 /\ SumFunctionOnSet(R, T) = 0
      BY <2>1, <2>2, SumStep
    <3>2. Cardinality(T) = 0
      BY <2>2, FS_EmptySet
    <3>3. gap(T) = 0
      BY <3>1
    <3> QED
      BY <3>2, <3>3
  <2>3. CASE T # {}
    <3> DEFINE x == Pick(T)
               U == T \ {x}
               n == Cardinality(U)
               p == SumFunctionOnSet(P, U)
               r == SumFunctionOnSet(R, U)
    <3>1. x \in T /\ U \in SUBSET T /\ U # T
      BY <2>3, PickIn
    <3>2. IsFiniteSet(U) /\ n \in Nat /\ Cardinality(T) = n + 1
      <4>1. IsFiniteSet(U) /\ n = Cardinality(T) - 1
        <5>1. x \in T
          BY <3>1
        <5> HIDE DEF x
        <5> QED
          BY <2>1, <5>1, FS_RemoveElement
      <4>2. n \in Nat /\ Cardinality(T) \in Nat
        BY <2>1, <4>1, FS_CardinalityType
      <4> HIDE DEF U, x
      <4> QED
        BY <4>1, <4>2
    <3>3. p \in Int /\ r \in Int /\ P[x] \in Int /\ R[x] \in Int
      BY <3>1, <3>2, SumInt
    <3>4. /\ SumFunctionOnSet(P, T) = P[x] + p
          /\ SumFunctionOnSet(R, T) = R[x] + r
      BY <2>1, <2>3, SumStep
    <3>5. U \in good
      BY <1>1, <3>1
    <3>6. -99 * n <= 200 * p - 2 * (v * r) /\ 200 * p - 2 * (v * r) <= 100 * n
      BY <3>5
    <3>7. /\ -99 <= 200 * P[x] - 2 * (v * R[x])
          /\ 200 * P[x] - 2 * (v * R[x]) <= 100
      BY <3>1
    <3> HIDE DEF x, U, n, p, r
    <3>8. v * (R[x] + r) = v * R[x] + v * r /\ v * R[x] \in Int /\ v * r \in Int
      BY <3>3
    <3>9. gap(T) = 200 * (P[x] + p) - 2 * (v * R[x] + v * r)
      BY <3>4, <3>8
    <3>10. -99 * (n + 1) <= gap(T) /\ gap(T) <= 100 * (n + 1)
      <4> DEFINE a == v * R[x]
                 b == v * r
                 t == gap(T)
      <4>1. a \in Int /\ b \in Int /\ t = 200 * (P[x] + p) - 2 * (a + b)
        BY <3>8, <3>9
      <4>2. -99 * n <= 200 * p - 2 * b /\ 200 * p - 2 * b <= 100 * n
        BY <3>6
      <4>3. -99 <= 200 * P[x] - 2 * a /\ 200 * P[x] - 2 * a <= 100
        BY <3>7
      <4>4. -99 * (n + 1) <= t /\ t <= 100 * (n + 1)
        <5> HIDE DEF a, b, t
        <5> QED
          BY <3>2, <3>3, <4>1, <4>2, <4>3
      <4> QED
        BY <4>4
    <3> QED
      BY <3>2, <3>10
  <2> QED
    BY <2>2, <2>3
<1> HIDE DEF good
<1>2. S \in good
  BY <1>1, FiniteInduction
<1> QED
  BY <1>2 DEF good
==============================================================================
