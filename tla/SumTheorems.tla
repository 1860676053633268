---------------------------- MODULE SumTheorems -----------------------------
(***************************************************************************)
(* Numbers and sums over finite sets, with the proofs of what the totals,  *)
(* averages, scores and similarities of the model rely on. Each proof by   *)
(* induction over the subsets of a set takes a least subset for which the  *)
(* claim fails.                                                            *)
(***************************************************************************)
EXTENDS Frames, FiniteSetTheorems, TLAPS

-----------------------------------------------------------------------------
(***************************************************************************)
(* Totals.                                                                 *)
(***************************************************************************)

Some(s) == CHOOSE x \in s : TRUE

\* h adds up the values that G gives to the elements of the subsets of S.
IsSum(h, S, G) ==
    h = [s \in SUBSET S |-> IF s = {} THEN 0 ELSE G[Some(s)] + h[s \ {Some(s)}]]

Total(S, G) == (CHOOSE h : IsSum(h, S, G))[S]

\* The element taken from a set is one of its elements.
LEMMA SomeIn == ASSUME NEW s, s # {} PROVE Some(s) \in s
BY DEF Some

\* Among bad subsets of a finite set there is one without a bad part.
LEMMA LeastSubset ==
    ASSUME NEW S, IsFiniteSet(S), NEW Bad \in SUBSET (SUBSET S), Bad # {}
    PROVE  \E T \in Bad : \A U \in SUBSET T : U # T => U \notin Bad
<1>1. IsWellFoundedOn(StrictSubsetOrdering(S), FiniteSubsetsOf(S))
  BY FS_StrictSubsetOrderingWellFounded
<1>2. SUBSET S \subseteq FiniteSubsetsOf(S)
  BY FS_Subset DEF FiniteSubsetsOf
<1>3. PICK T \in Bad : \A U \in Bad : ~(<<U, T>> \in StrictSubsetOrdering(S))
  BY <1>1, <1>2, WFMin
<1> QED
  BY <1>3 DEF StrictSubsetOrdering

\* A sum at one of the subsets: nothing at the empty one, and one value more
\* than at the subset without the element taken.
LEMMA SumAt ==
    ASSUME NEW S, NEW G, NEW h, IsSum(h, S, G), NEW s \in SUBSET S
    PROVE  /\ s = {} => h[s] = 0
           /\ s # {} => /\ Some(s) \in s
                        /\ s \ {Some(s)} \in SUBSET s /\ s \ {Some(s)} # s
                        /\ h[s] = G[Some(s)] + h[s \ {Some(s)}]
<1> DEFINE F(g) == [t \in SUBSET S |-> IF t = {} THEN 0 ELSE G[Some(t)] + g[t \ {Some(t)}]]
<1>1. h = F(h)
  BY DEF IsSum
<1>2. F(h)[s] = IF s = {} THEN 0 ELSE G[Some(s)] + h[s \ {Some(s)}]
  OBVIOUS
<1> HIDE DEF F
<1>3. h[s] = IF s = {} THEN 0 ELSE G[Some(s)] + h[s \ {Some(s)}]
  BY <1>1, <1>2
<1> QED
  BY <1>3, SomeIn

\* Two sums agree where both are defined.
LEMMA SumsAgree ==
    ASSUME NEW A, NEW B, NEW G, NEW h, NEW k, IsSum(h, A, G), IsSum(k, B, G),
           NEW s, s \subseteq A, s \subseteq B, IsFiniteSet(s)
    PROVE  h[s] = k[s]
<1> DEFINE Bad == {t \in SUBSET s : h[t] # k[t]}
<1> SUFFICES ASSUME Bad # {} PROVE FALSE
  OBVIOUS
<1>1. PICK t \in Bad : \A u \in SUBSET t : u # t => u \notin Bad
  <2>1. Bad \in SUBSET (SUBSET s)
    OBVIOUS
  <2> HIDE DEF Bad
  <2> QED
    BY <2>1, LeastSubset
<1>2. t \in SUBSET A /\ t \in SUBSET B
  OBVIOUS
<1>3. t # {}
  BY ZenonT(60), <1>2, SumAt
<1> DEFINE u == t \ {Some(t)}
<1>4. /\ u \in SUBSET t /\ u # t
      /\ h[t] = G[Some(t)] + h[u] /\ k[t] = G[Some(t)] + k[u]
  BY <1>2, <1>3, SumAt
<1>5. h[u] = k[u]
  BY <1>1, <1>4
<1> QED
  BY <1>4, <1>5

\* Every finite set has a sum.
LEMMA SumExists ==
    ASSUME NEW S, IsFiniteSet(S), NEW G
    PROVE  \E h : IsSum(h, S, G)
<1> DEFINE Bad == {T \in SUBSET S : ~\E h : IsSum(h, T, G)}
<1> SUFFICES ASSUME Bad # {} PROVE FALSE
  OBVIOUS
<1>1. PICK T \in Bad : \A U \in SUBSET T : U # T => U \notin Bad
  <2>1. Bad \in SUBSET (SUBSET S)
    OBVIOUS
  <2> HIDE DEF Bad
  <2> QED
    BY <2>1, LeastSubset
<1> DEFINE V(s) == (CHOOSE h : IsSum(h, s, G))[s]
           Step(s) == IF s = {} THEN 0 ELSE G[Some(s)] + V(s \ {Some(s)})
           k == [s \in SUBSET T |-> IF s = T THEN Step(s) ELSE V(s)]
<1>2. ASSUME NEW s \in SUBSET T, s # T
      PROVE  IsSum(CHOOSE h : IsSum(h, s, G), s, G)
  <2>1. s \in SUBSET S /\ s \notin Bad
    BY <1>1, <1>2
  <2>2. \E h : IsSum(h, s, G)
    BY <2>1
  <2> QED
    BY <2>2
<1>3. ASSUME NEW s \in SUBSET T, s # T
      PROVE  V(s) = Step(s)
  <2> DEFINE h == CHOOSE g : IsSum(g, s, G)
             u == s \ {Some(s)}
             g == CHOOSE f : IsSum(f, u, G)
  <2>1. IsSum(h, s, G)
    BY <1>2, <1>3
  <2>2. CASE s = {}
    BY <2>1, <2>2, SumAt
  <2>3. CASE s # {}
    <3>1. u \in SUBSET s /\ h[s] = G[Some(s)] + h[u]
      BY <2>1, <2>3, SumAt
    <3>2. u \in SUBSET T /\ u # T
      BY <3>1, <1>3
    <3>3. IsSum(g, u, G)
      BY <1>2, <3>2
    <3>4. IsFiniteSet(u)
      BY <3>2, FS_Subset
    <3> HIDE DEF h, g, u
    <3>5. h[u] = g[u]
      BY <2>1, <3>1, <3>3, <3>4, SumsAgree
    <3>6. V(s) = h[s] /\ V(u) = g[u]
      BY DEF h, g
    <3>7. Step(s) = G[Some(s)] + V(u)
      BY <2>3 DEF u
    <3> QED
      BY <3>1, <3>5, <3>6, <3>7
  <2> QED
    BY <2>2, <2>3
<1>4. ASSUME NEW s \in SUBSET T
      PROVE  k[s] = IF s = {} THEN 0 ELSE G[Some(s)] + k[s \ {Some(s)}]
  <2>1. k[s] = Step(s)
    BY <1>3
  <2>2. CASE s = {}
    BY <2>1, <2>2
  <2>3. CASE s # {}
    <3> DEFINE u == s \ {Some(s)}
    <3>1. Some(s) \in s
      BY <2>3, SomeIn
    <3>2. u \in SUBSET T /\ u # T
      BY <3>1
    <3>3. k[u] = V(u)
      BY <3>2
    <3>4. Step(s) = G[Some(s)] + V(u)
      BY <2>3
    <3> QED
      BY <2>1, <2>3, <3>3, <3>4
  <2> QED
    BY <2>2, <2>3
<1>5. IsSum(k, T, G)
  <2>1. k = [s \in SUBSET T |-> k[s]]
    OBVIOUS
  <2> HIDE DEF k
  <2> QED
    BY <1>4, <2>1 DEF IsSum
<1> QED
  BY <1>5

\* The chosen sum is one.
LEMMA TotalIsSum ==
    ASSUME NEW S, IsFiniteSet(S), NEW G
    PROVE  IsSum(CHOOSE h : IsSum(h, S, G), S, G)
BY SumExists

\* The total of a set, by the element taken from it.
LEMMA TotalOfSome ==
    ASSUME NEW S, IsFiniteSet(S), NEW G
    PROVE  /\ S = {} => Total(S, G) = 0
           /\ S # {} => Total(S, G) = G[Some(S)] + Total(S \ {Some(S)}, G)
<1> DEFINE h == CHOOSE g : IsSum(g, S, G)
           U == S \ {Some(S)}
           k == CHOOSE g : IsSum(g, U, G)
<1>1. IsFiniteSet(U) /\ U \subseteq S
  BY FS_Subset
<1>2. IsSum(h, S, G) /\ IsSum(k, U, G)
  BY <1>1, SumExists
<1>3. Total(S, G) = h[S] /\ Total(U, G) = k[U]
  BY DEF Total
<1> HIDE DEF h, k
<1>4. h[U] = k[U]
  BY <1>1, <1>2, SumsAgree
<1> QED
  BY <1>2, <1>3, <1>4, SumAt

\* A sum of whole numbers is one.
LEMMA TotalInt ==
    ASSUME NEW S, IsFiniteSet(S), NEW G, \A x \in S : G[x] \in Int
    PROVE  Total(S, G) \in Int
<1> DEFINE Bad == {T \in SUBSET S : Total(T, G) \notin Int}
<1> SUFFICES ASSUME Bad # {} PROVE FALSE
  OBVIOUS
<1>1. PICK T \in Bad : \A U \in SUBSET T : U # T => U \notin Bad
  <2>1. Bad \in SUBSET (SUBSET S)
    OBVIOUS
  <2> HIDE DEF Bad
  <2> QED
    BY <2>1, LeastSubset
<1>2. IsFiniteSet(T)
  BY FS_Subset
<1>3. T # {}
  BY <1>2, TotalOfSome
<1>4. Some(T) \in T
  BY <1>3, SomeIn
<1>5. Total(T \ {Some(T)}, G) \in Int
  BY <1>1, <1>4
<1>6. Total(T, G) = G[Some(T)] + Total(T \ {Some(T)}, G)
  BY <1>2, <1>3, TotalOfSome
<1>7. G[Some(T)] \in Int /\ Total(T, G) \notin Int
  BY <1>4
<1> QED
  BY <1>5, <1>6, <1>7

\* Any element may be taken first.
LEMMA TotalStep ==
    ASSUME NEW S, IsFiniteSet(S), NEW G, \A x \in S : G[x] \in Int, NEW x \in S
    PROVE  /\ Total(S \ {x}, G) \in Int
           /\ Total(S, G) = G[x] + Total(S \ {x}, G)
<1> DEFINE Bad == {T \in SUBSET S : \E y \in T : Total(T, G) # G[y] + Total(T \ {y}, G)}
<1>1. Total(S \ {x}, G) \in Int
  <2>1. IsFiniteSet(S \ {x})
    BY FS_Subset
  <2> QED
    BY <2>1, TotalInt
<1>2. CASE Bad = {}
  BY <1>1, <1>2
<1>3. CASE Bad # {}
  <2>1. PICK T \in Bad : \A U \in SUBSET T : U # T => U \notin Bad
    <3>1. Bad \in SUBSET (SUBSET S)
      OBVIOUS
    <3> HIDE DEF Bad
    <3> QED
      BY <1>3, <3>1, LeastSubset
  <2>2. PICK y \in T : Total(T, G) # G[y] + Total(T \ {y}, G)
    OBVIOUS
  <2> DEFINE c == Some(T)
             A == T \ {c}
             B == T \ {y}
             C == T \ {c, y}
  <2>3. c \in T /\ IsFiniteSet(T) /\ IsFiniteSet(A) /\ IsFiniteSet(B) /\ IsFiniteSet(C)
    BY SomeIn, FS_Subset
  <2>4. Total(T, G) = G[c] + Total(A, G)
    BY <2>3, TotalOfSome
  <2>5. c # y
    BY <2>2, <2>4
  <2>6. A \in SUBSET T /\ A # T /\ B \in SUBSET T /\ B # T /\ y \in A /\ c \in B
    BY <2>3, <2>5
  <2>7. A \ {y} = C /\ B \ {c} = C
    OBVIOUS
  <2>8. Total(A, G) = G[y] + Total(C, G)
    <3>1. A \notin Bad /\ A \in SUBSET S
      BY <2>1, <2>6
    <3> QED
      BY <2>6, <2>7, <3>1
  <2>9. Total(B, G) = G[c] + Total(C, G)
    <3>1. B \notin Bad /\ B \in SUBSET S
      BY <2>1, <2>6
    <3> QED
      BY <2>6, <2>7, <3>1
  <2>10. Total(C, G) \in Int /\ G[c] \in Int /\ G[y] \in Int
    BY <2>3, TotalInt
  <2> HIDE DEF A, B, C, c
  <2>11. Total(T, G) = G[y] + Total(B, G)
    BY <2>4, <2>8, <2>9, <2>10
  <2> QED
    BY <2>2, <2>11 DEF B
<1> QED
  BY <1>2, <1>3

\* Greater values have a greater sum.
LEMMA TotalMonotone ==
    ASSUME NEW S, IsFiniteSet(S), NEW G, NEW H,
           \A x \in S : G[x] \in Int /\ H[x] \in Int /\ G[x] <= H[x]
    PROVE  Total(S, G) <= Total(S, H)
<1> DEFINE Bad == {T \in SUBSET S : ~(Total(T, G) <= Total(T, H))}
<1> SUFFICES ASSUME Bad # {} PROVE FALSE
  OBVIOUS
<1>1. PICK T \in Bad : \A U \in SUBSET T : U # T => U \notin Bad
  <2>1. Bad \in SUBSET (SUBSET S)
    OBVIOUS
  <2> HIDE DEF Bad
  <2> QED
    BY <2>1, LeastSubset
<1>2. IsFiniteSet(T) /\ T \in SUBSET S
  BY FS_Subset
<1>3. T # {}
  BY <1>2, TotalOfSome
<1>4. PICK x \in T : TRUE
  BY <1>3
<1> DEFINE U == T \ {x}
<1>5. Total(U, G) <= Total(U, H)
  BY <1>1, <1>4
<1>6. /\ Total(T, G) = G[x] + Total(U, G) /\ Total(U, G) \in Int
      /\ Total(T, H) = H[x] + Total(U, H) /\ Total(U, H) \in Int
  BY <1>2, TotalStep
<1>7. G[x] \in Int /\ H[x] \in Int /\ G[x] <= H[x] /\ ~(Total(T, G) <= Total(T, H))
  BY <1>2
<1> HIDE DEF U, Bad
<1> QED
  BY <1>5, <1>6, <1>7

\* The total depends on the values of the elements only.
LEMMA TotalAgrees ==
    ASSUME NEW S, IsFiniteSet(S), NEW G, NEW H,
           \A x \in S : G[x] \in Int /\ H[x] = G[x]
    PROVE  Total(S, G) = Total(S, H)
<1>1. Total(S, G) <= Total(S, H) /\ Total(S, H) <= Total(S, G)
  BY TotalMonotone
<1>2. Total(S, G) \in Int /\ Total(S, H) \in Int
  BY TotalInt
<1> QED
  BY <1>1, <1>2

\* The sum of equal values.
LEMMA TotalConstant ==
    ASSUME NEW S, IsFiniteSet(S), NEW m \in Int, NEW G, \A x \in S : G[x] = m
    PROVE  Total(S, G) = m * Cardinality(S)
<1> DEFINE Bad == {T \in SUBSET S : ~(Total(T, G) = m * Cardinality(T))}
<1> SUFFICES ASSUME Bad # {} PROVE FALSE
  OBVIOUS
<1>1. PICK T \in Bad : \A U \in SUBSET T : U # T => U \notin Bad
  <2>1. Bad \in SUBSET (SUBSET S)
    OBVIOUS
  <2> HIDE DEF Bad
  <2> QED
    BY <2>1, LeastSubset
<1>2. IsFiniteSet(T) /\ T \in SUBSET S
  BY FS_Subset
<1>3. T # {}
  BY <1>2, TotalOfSome, FS_EmptySet
<1>4. PICK x \in T : TRUE
  BY <1>3
<1> DEFINE U == T \ {x}
<1>5. Total(U, G) = m * Cardinality(U)
  BY <1>1, <1>4
<1>6. Total(T, G) = G[x] + Total(U, G)
  BY <1>2, TotalStep
<1>7. Cardinality(U) = Cardinality(T) - 1 /\ Cardinality(T) \in Int
  BY <1>2, FS_RemoveElement, FS_CardinalityType
<1>8. G[x] = m /\ ~(Total(T, G) = m * Cardinality(T))
  BY <1>2
<1> DEFINE t == Cardinality(T)
<1> HIDE DEF U, Bad, t
<1>9. m + m * (t - 1) = m * t
  BY <1>7 DEF t
<1> QED
  BY <1>5, <1>6, <1>7, <1>8, <1>9 DEF t

\* A total lies between as many least and as many greatest values.
LEMMA TotalBounded ==
    ASSUME NEW S, IsFiniteSet(S), NEW lo \in Int, NEW hi \in Int, NEW G,
           \A x \in S : G[x] \in Int /\ lo <= G[x] /\ G[x] <= hi
    PROVE  /\ Total(S, G) \in Int
           /\ lo * Cardinality(S) <= Total(S, G) /\ Total(S, G) <= hi * Cardinality(S)
<1> DEFINE L == [x \in S |-> lo]
           H == [x \in S |-> hi]
<1>1. Total(S, L) = lo * Cardinality(S) /\ Total(S, H) = hi * Cardinality(S)
  BY TotalConstant
<1>2. Total(S, L) <= Total(S, G)
  BY TotalMonotone
<1>3. Total(S, G) <= Total(S, H)
  BY TotalMonotone
<1> QED
  BY <1>1, <1>2, <1>3, TotalInt

\* The sum over two sets without a common element.
LEMMA TotalDisjoint ==
    ASSUME NEW A, IsFiniteSet(A), NEW B, IsFiniteSet(B), A \cap B = {},
           NEW G, \A x \in A \cup B : G[x] \in Int
    PROVE  Total(A \cup B, G) = Total(A, G) + Total(B, G)
<1> DEFINE Bad == {T \in SUBSET A : ~(Total(T \cup B, G) = Total(T, G) + Total(B, G))}
<1> SUFFICES ASSUME Bad # {} PROVE FALSE
  OBVIOUS
<1>1. PICK T \in Bad : \A U \in SUBSET T : U # T => U \notin Bad
  <2>1. Bad \in SUBSET (SUBSET A)
    OBVIOUS
  <2> HIDE DEF Bad
  <2> QED
    BY <2>1, LeastSubset
<1>2. IsFiniteSet(T) /\ T \in SUBSET A /\ IsFiniteSet(T \cup B)
  BY FS_Subset, FS_Union
<1>3. Total(B, G) \in Int
  BY TotalInt
<1>4. T # {}
  <2>1. Total({}, G) = 0
    BY FS_EmptySet, TotalOfSome
  <2> SUFFICES ASSUME T = {} PROVE FALSE
    OBVIOUS
  <2>2. T \cup B = B /\ Total(T, G) = 0
    BY <2>1
  <2>3. ~(Total(T \cup B, G) = Total(T, G) + Total(B, G))
    OBVIOUS
  <2> HIDE DEF Bad
  <2> QED
    BY <1>3, <2>2, <2>3
<1>5. PICK x \in T : TRUE
  BY <1>4
<1> DEFINE U == T \ {x}
<1>6. Total(U \cup B, G) = Total(U, G) + Total(B, G)
  BY <1>1, <1>5
<1>7. Total(T, G) = G[x] + Total(U, G) /\ Total(U, G) \in Int
  BY <1>2, TotalStep
<1>8. (T \cup B) \ {x} = U \cup B
  BY <1>2
<1>9. Total(T \cup B, G) = G[x] + Total(U \cup B, G)
  <2>1. \A y \in T \cup B : G[y] \in Int
    BY <1>2
  <2> QED
    BY <1>2, <1>5, <1>8, <2>1, TotalStep
<1>10. G[x] \in Int /\ ~(Total(T \cup B, G) = Total(T, G) + Total(B, G))
  BY <1>2
<1> HIDE DEF U, Bad
<1> QED
  BY <1>3, <1>6, <1>7, <1>9, <1>10

\* Leaving out what is not negative makes no sum greater.
LEMMA TotalOfPart ==
    ASSUME NEW S, IsFiniteSet(S), NEW T \in SUBSET S, NEW G, \A x \in S : G[x] \in Nat
    PROVE  Total(T, G) <= Total(S, G) /\ Total(T, G) \in Nat /\ Total(S, G) \in Nat
<1> DEFINE R == S \ T
<1>1. IsFiniteSet(T) /\ IsFiniteSet(R) /\ T \cup R = S /\ T \cap R = {}
  BY FS_Subset
<1>2. Cardinality(T) \in Int /\ Cardinality(R) \in Int
  BY <1>1, FS_CardinalityType
<1>3. Total(S, G) = Total(T, G) + Total(R, G)
  <2> HIDE DEF R
  <2> QED
    BY <1>1, TotalDisjoint
<1>4. ASSUME NEW P \in SUBSET S, IsFiniteSet(P)
      PROVE  Total(P, G) \in Nat
  <2> DEFINE Z == [x \in P |-> 0]
  <2>1. Total(P, Z) = 0 * Cardinality(P) /\ Cardinality(P) \in Int
    BY <1>4, TotalConstant, FS_CardinalityType
  <2>2. Total(P, Z) <= Total(P, G)
    BY <1>4, TotalMonotone
  <2>3. Total(P, G) \in Int
    BY <1>4, TotalInt
  <2> HIDE DEF Z
  <2> QED
    BY <2>1, <2>2, <2>3
<1>5. Total(T, G) \in Nat /\ Total(R, G) \in Nat
  BY <1>1, <1>4
<1> QED
  BY <1>3, <1>5

\* What is counted for each key is counted once in all.
LEMMA TotalOfCounts ==
    ASSUME NEW S, IsFiniteSet(S), NEW K, IsFiniteSet(K), NEW key,
           NEW G, \A k \in K : G[k] = Cardinality({e \in S : key[e] = k})
    PROVE  Total(K, G) = Cardinality({e \in S : key[e] \in K})
<1> DEFINE Having(T) == {e \in S : key[e] \in T}
           Bad == {T \in SUBSET K : ~(Total(T, G) = Cardinality(Having(T)))}
<1> SUFFICES ASSUME Bad # {} PROVE FALSE
  OBVIOUS
<1>1. PICK T \in Bad : \A U \in SUBSET T : U # T => U \notin Bad
  <2>1. Bad \in SUBSET (SUBSET K)
    OBVIOUS
  <2> HIDE DEF Bad
  <2> QED
    BY <2>1, LeastSubset
<1>2. IsFiniteSet(T) /\ T \in SUBSET K
  BY FS_Subset
<1>3. T # {}
  <2> SUFFICES ASSUME T = {} PROVE FALSE
    OBVIOUS
  <2>1. Having(T) = {} /\ Total(T, G) = 0
    BY FS_EmptySet, TotalOfSome
  <2>2. Cardinality(Having(T)) = 0
    BY <2>1, FS_EmptySet
  <2> QED
    BY <2>1, <2>2
<1>4. PICK x \in T : TRUE
  BY <1>3
<1> DEFINE U == T \ {x}
           Own == {e \in S : key[e] = x}
<1>5. Total(U, G) = Cardinality(Having(U))
  BY <1>1, <1>4
<1>6. /\ \A P \in SUBSET S : IsFiniteSet(P) /\ Cardinality(P) \in Int
      /\ Own \in SUBSET S /\ Having(U) \in SUBSET S
  BY FS_Subset, FS_CardinalityType
<1>7. \A k \in T : G[k] \in Int
  BY <1>2, <1>6
<1>8. Total(T, G) = G[x] + Total(U, G)
  BY <1>2, <1>7, TotalStep
<1>9. Cardinality(Having(T)) = Cardinality(Own) + Cardinality(Having(U))
  <2>1. Having(T) = Own \cup Having(U) /\ Own \cap Having(U) = {}
    OBVIOUS
  <2>2. IsFiniteSet(Own) /\ IsFiniteSet(Having(U)) /\ Cardinality({}) = 0
    BY <1>6, FS_EmptySet
  <2>3. Cardinality(Own) \in Int /\ Cardinality(Having(U)) \in Int
    BY <1>6
  <2> DEFINE O == Own
             H == Having(U)
             W == Having(T)
  <2>4. W = O \cup H /\ O \cap H = {} /\ IsFiniteSet(O) /\ IsFiniteSet(H)
        /\ Cardinality(O) \in Int /\ Cardinality(H) \in Int
    BY <2>1, <2>2, <2>3
  <2> HIDE DEF O, H, W
  <2>5. Cardinality(O \cup H) = Cardinality(O) + Cardinality(H) - Cardinality(O \cap H)
    BY <2>4, FS_Union
  <2>6. Cardinality(O \cap H) = 0
    BY <2>2, <2>4
  <2>7. Cardinality(W) = Cardinality(O) + Cardinality(H)
    BY <2>4, <2>5, <2>6
  <2> QED
    BY <2>7 DEF O, H, W
<1>10. G[x] = Cardinality(Own)
  BY <1>2
<1>11. Total(T, G) = Cardinality(Having(T))
  BY <1>5, <1>8, <1>9, <1>10
<1> QED
  BY <1>11

\* What the fold of the model adds up is the total.
LEMMA SumIsTotal ==
    ASSUME NEW f, IsFiniteSet(DOMAIN f)
    PROVE  SumOf(f) = Total(DOMAIN f, f)
<1> DEFINE S == DOMAIN f
           F(h) == [s \in SUBSET S |->
                      IF s = {} THEN 0
                      ELSE f[CHOOSE x \in s : TRUE] + h[s \ {CHOOSE x \in s : TRUE}]]
           iter == CHOOSE h : h = F(h)
           k == CHOOSE h : IsSum(h, S, f)
<1>1. SumOf(f) = iter[S]
  BY DEF SumOf, MapThenSumSet, MapThenFoldSet
<1>2. IsSum(k, S, f)
  BY TotalIsSum
<1>3. \A h : IsSum(h, S, f) <=> h = F(h)
  BY DEF IsSum, Some
<1>4. k = F(k)
  <2> HIDE DEF F, k
  <2> QED
    BY <1>2, <1>3
<1>5. iter = F(iter)
  <2> HIDE DEF F, k
  <2> QED
    BY <1>4
<1>6. IsSum(iter, S, f)
  BY <1>3, <1>5
<1>7. iter[S] = k[S]
  <2> HIDE DEF iter, k, F
  <2> QED
    BY <1>2, <1>6, SumsAgree
<1> QED
  BY <1>1, <1>7 DEF Total

\* The sum of multiples.
LEMMA TotalScaled ==
    ASSUME NEW S, IsFiniteSet(S), NEW k \in Int, NEW G, \A x \in S : G[x] \in Int,
           NEW H, \A x \in S : H[x] = k * G[x]
    PROVE  Total(S, H) = k * Total(S, G)
<1> DEFINE Bad == {T \in SUBSET S : ~(Total(T, H) = k * Total(T, G))}
<1> SUFFICES ASSUME Bad # {} PROVE FALSE
  OBVIOUS
<1>1. PICK T \in Bad : \A U \in SUBSET T : U # T => U \notin Bad
  <2>1. Bad \in SUBSET (SUBSET S)
    OBVIOUS
  <2> HIDE DEF Bad
  <2> QED
    BY <2>1, LeastSubset
<1>2. IsFiniteSet(T) /\ T \in SUBSET S
  BY FS_Subset
<1>3. T # {}
  <2>1. T = {} => Total(T, H) = 0 /\ Total(T, G) = 0
    BY <1>2, TotalOfSome
  <2>2. ~(Total(T, H) = k * Total(T, G)) /\ k * 0 = 0
    OBVIOUS
  <2> HIDE DEF Bad
  <2> QED
    BY <2>1, <2>2
<1>4. PICK x \in T : TRUE
  BY <1>3
<1> DEFINE U == T \ {x}
<1>5. Total(U, H) = k * Total(U, G)
  BY <1>1, <1>4
<1>6. Total(T, G) = G[x] + Total(U, G) /\ Total(U, G) \in Int
  BY <1>2, TotalStep
<1>7. \A y \in T : H[y] \in Int
  BY <1>2
<1>8. Total(T, H) = H[x] + Total(U, H)
  BY <1>2, <1>7, TotalStep
<1>9. G[x] \in Int /\ H[x] = k * G[x] /\ ~(Total(T, H) = k * Total(T, G))
  BY <1>2
<1> HIDE DEF U, Bad
<1>10. k * (G[x] + Total(U, G)) = k * G[x] + k * Total(U, G)
  BY <1>6, <1>9
<1> QED
  BY <1>5, <1>6, <1>8, <1>9, <1>10

\* A sum of numbers, one of them positive, is positive.
LEMMA TotalPositive ==
    ASSUME NEW S, IsFiniteSet(S), NEW G, \A x \in S : G[x] \in Nat, NEW x \in S, G[x] # 0
    PROVE  Total(S, G) \in Nat \ {0}
<1>1. \A y \in S : G[y] \in Int
  OBVIOUS
<1>2. Total(S, G) = G[x] + Total(S \ {x}, G)
  BY <1>1, TotalStep
<1>3. Total(S \ {x}, G) \in Nat
  <2>1. S \ {x} \in SUBSET S
    OBVIOUS
  <2> QED
    BY <2>1, TotalOfPart
<1>4. G[x] \in Nat
  OBVIOUS
<1> QED
  BY <1>2, <1>3, <1>4

-----------------------------------------------------------------------------
(***************************************************************************)
(* Quotients and bounds.                                                   *)
(***************************************************************************)

\* Division with a remainder.
LEMMA Quotient ==
    ASSUME NEW x \in Int, NEW y \in Int, y > 0
    PROVE  /\ x \div y \in Int /\ x % y \in 0..(y - 1)
           /\ x = y * (x \div y) + (x % y)
OBVIOUS

\* Bounds of a quotient.
LEMMA QuotientAtMost ==
    ASSUME NEW x \in Int, NEW y \in Int, y > 0, NEW k \in Int
    PROVE  /\ x < y * (k + 1) => x \div y <= k
           /\ k * y <= x => k <= x \div y
<1> DEFINE q == x \div y
           r == x % y
<1>1. q \in Int /\ r \in Int /\ 0 <= r /\ r < y /\ x = y * q + r
  BY Quotient
<1> HIDE DEF q, r
<1>2. ASSUME x < y * (k + 1), q > k PROVE FALSE
  <2>1. q >= k + 1
    BY <1>1, <1>2
  <2>2. y * q >= y * (k + 1)
    BY <1>1, <2>1
  <2> QED
    BY <1>1, <1>2, <2>2
<1>3. ASSUME k * y <= x, q < k PROVE FALSE
  <2>1. k >= q + 1
    BY <1>1, <1>3
  <2>2. y * k >= y * (q + 1)
    BY <1>1, <2>1
  <2> QED
    BY <1>1, <1>3, <2>2
<1> QED
  BY <1>1, <1>2, <1>3 DEF q

\* A part of a whole, on a scale of n.
LEMMA ShareOnTheScale ==
    ASSUME NEW n \in Nat, NEW b \in Nat, b # 0, NEW x \in Nat, x <= n * b
    PROVE  x \div b \in Nat /\ x \div b <= n
<1>1. n * b < b * (n + 1)
  OBVIOUS
<1>2. n * b \in Int /\ b * (n + 1) \in Int /\ 0 * b <= x
  OBVIOUS
<1>3. x < b * (n + 1)
  BY <1>1, <1>2
<1>4. x \div b \in Int
  BY Quotient
<1>5. x \div b <= n
  BY <1>3, QuotientAtMost
<1>6. 0 <= x \div b
  BY <1>2, QuotientAtMost
<1> QED
  BY <1>4, <1>5, <1>6

\* A multiple grows with what it is a multiple of.
LEMMA ProductGrows ==
    ASSUME NEW n \in Nat, NEW a \in Nat, NEW b \in Nat, a <= b
    PROVE  n * a \in Nat /\ n * b \in Nat /\ n * a <= n * b
OBVIOUS

\* The greater of two numbers.
LEMMA MaxOfTwo ==
    ASSUME NEW a \in Int, NEW b \in Int
    PROVE  Max({a, b}) \in Int /\ a <= Max({a, b}) /\ b <= Max({a, b})
<1>1. \E x \in {a, b} : \A y \in {a, b} : x >= y
  OBVIOUS
<1>2. Max({a, b}) = CHOOSE x \in {a, b} : \A y \in {a, b} : x >= y
  BY DEF Max
<1>3. Max({a, b}) \in {a, b} /\ \A y \in {a, b} : Max({a, b}) >= y
  BY <1>1, <1>2
<1> QED
  BY <1>3

-----------------------------------------------------------------------------
(***************************************************************************)
(* Counts, means and squares.                                              *)
(***************************************************************************)

\* Values that count what has each key sum up to all that has one of the keys.
LEMMA CountsAddUp ==
    ASSUME NEW E, IsFiniteSet(E), NEW key, NEW f, IsFiniteSet(DOMAIN f),
           \A k \in DOMAIN f : f[k] = Cardinality({e \in E : key[e] = k})
    PROVE  SumOf(f) = Cardinality({e \in E : key[e] \in DOMAIN f})
<1> DEFINE K == DOMAIN f
<1>1. SumOf(f) = Total(K, f)
  BY SumIsTotal
<1> HIDE DEF K
<1>2. Total(K, f) = Cardinality({e \in E : key[e] \in K})
  BY TotalOfCounts DEF K
<1> QED
  BY <1>1, <1>2 DEF K

\* Means keep the order of what they average.
LEMMA MeansKeepOrder ==
    ASSUME NEW S, IsFiniteSet(S), S # {}, NEW a, NEW b, DOMAIN a = S, DOMAIN b = S,
           \A x \in S : a[x] \in Nat /\ b[x] \in Nat /\ a[x] <= b[x]
    PROVE  /\ SumOf(a) \div Cardinality(S) \in Nat /\ SumOf(b) \div Cardinality(S) \in Nat
           /\ SumOf(a) \div Cardinality(S) <= SumOf(b) \div Cardinality(S)
<1> DEFINE n == Cardinality(S)
           x == SumOf(a)
           y == SumOf(b)
           q == y \div n
<1>1. n \in Nat /\ n # 0
  BY FS_CardinalityType, FS_EmptySet
<1>2. x = Total(S, a) /\ y = Total(S, b)
  BY SumIsTotal
<1>3. x \in Nat /\ y \in Nat
  <2>1. S \in SUBSET S
    OBVIOUS
  <2> HIDE DEF x, y
  <2>2. Total(S, a) \in Nat
    BY <2>1, TotalOfPart
  <2>3. Total(S, b) \in Nat
    BY <2>1, TotalOfPart
  <2> QED
    BY <1>2, <2>2, <2>3
<1>4. x <= y
  <2> HIDE DEF x, y
  <2>1. \A k \in S : a[k] \in Int /\ b[k] \in Int /\ a[k] <= b[k]
    OBVIOUS
  <2>2. Total(S, a) <= Total(S, b)
    BY <2>1, TotalMonotone
  <2> QED
    BY <1>2, <2>2
<1> HIDE DEF n, x, y
<1>5. q \in Int /\ y < n * (q + 1)
  <2>1. q \in Int /\ y % n \in 0..(n - 1) /\ y = n * q + (y % n)
    BY <1>1, <1>3, Quotient
  <2> DEFINE r == y % n
  <2>2. r \in Int /\ r < n /\ y = n * q + r
    BY <1>1, <2>1
  <2> HIDE DEF r, q
  <2>3. n * (q + 1) = n * q + n /\ n * q \in Int
    BY <1>1, <2>1
  <2> QED
    BY <1>1, <2>1, <2>2, <2>3
<1>6. n * (q + 1) \in Int
  <2> HIDE DEF q
  <2> QED
    BY <1>1, <1>5
<1>7. x < n * (q + 1)
  <2> DEFINE z == n * (q + 1)
  <2>1. z \in Int /\ y < z
    BY <1>5, <1>6
  <2> HIDE DEF z
  <2>2. x < z
    BY <1>3, <1>4, <2>1
  <2> QED
    BY <2>2 DEF z
<1>8. x \div n <= q
  <2> HIDE DEF q
  <2> QED
    BY <1>1, <1>3, <1>5, <1>7, QuotientAtMost
<1>9. x \div n \in Nat /\ q \in Nat
  <2>1. 0 * n = 0 /\ n > 0 /\ x \in Int /\ y \in Int /\ n \in Int
    BY <1>1, <1>3
  <2>2. x \div n \in Int /\ q \in Int
    BY <2>1, Quotient
  <2> DEFINE zero == 0
  <2>3. zero \in Int /\ zero * n <= x /\ zero * n <= y
    BY <1>3, <2>1
  <2> HIDE DEF zero
  <2>4. zero <= x \div n
    BY <2>1, <2>3, QuotientAtMost
  <2>5. zero <= y \div n
    BY <2>1, <2>3, QuotientAtMost
  <2> QED
    BY <2>2, <2>4, <2>5 DEF zero
<1> QED
  BY <1>8, <1>9 DEF n, x, y

\* Squares order as their roots do.
LEMMA SquaresKeepOrder ==
    ASSUME NEW a \in Nat, NEW b \in Nat
    PROVE  /\ a * a \in Nat
           /\ a * a <= b * b => a <= b
           /\ a <= b => a * a <= b * b
           /\ a * a < (b + 1) * (b + 1) => a <= b
<1>1. a * a \in Nat /\ b * b \in Nat
  OBVIOUS
<1>2. ASSUME a > b PROVE a * a > b * b /\ a * a >= (b + 1) * (b + 1)
  <2>1. a >= b + 1
    BY <1>2
  <2>2. a * a >= a * (b + 1)
    BY <2>1
  <2>3. a * (b + 1) >= (b + 1) * (b + 1)
    BY <2>1
  <2>4. (b + 1) * (b + 1) = b * b + 2 * b + 1
    OBVIOUS
  <2> QED
    BY <1>1, <2>2, <2>3, <2>4
<1>3. ASSUME a <= b PROVE a * a <= b * b
  <2>1. a * a <= a * b
    BY <1>3
  <2>2. a * b <= b * b
    BY <1>3
  <2> QED
    BY <2>1, <2>2
<1>4. (b + 1) * (b + 1) \in Int
  OBVIOUS
<1> QED
  BY <1>1, <1>2, <1>3, <1>4

\* One more term on both sides of the inequality of Cauchy and Schwarz.
LEMMA OneMoreTerm ==
    ASSUME NEW a \in Nat, NEW b \in Nat, NEW c \in Nat, NEW x \in Nat, NEW y \in Nat,
           c * c <= a * b
    PROVE  (c + x * y) * (c + x * y) <= (a + x * x) * (b + y * y)
<1> DEFINE p == (x * x) * b
           q == (y * y) * a
           k == (x * y) * c
           s == (x * y) * (x * y)
<1>1. p \in Nat /\ q \in Nat /\ k \in Nat /\ s \in Nat /\ c * c \in Nat /\ a * b \in Nat
  OBVIOUS
<1>2. k * k <= p * q
  <2>1. k * k = s * (c * c) /\ p * q = s * (a * b)
    OBVIOUS
  <2> DEFINE e == c * c
             f == a * b
  <2>2. e \in Nat /\ f \in Nat /\ e <= f /\ s \in Nat
    BY <1>1
  <2> HIDE DEF e, f, s
  <2>3. s * e <= s * f
    BY <2>2
  <2> QED
    BY <2>1, <2>3 DEF e, f
<1>3. k + k <= p + q
  <2> HIDE DEF p, q, k
  <2>1. (k + k) * (k + k) = 4 * (k * k)
    BY <1>1
  <2>2. (p + q) * (p + q) = (p - q) * (p - q) + 4 * (p * q)
    BY <1>1
  <2>3. (p - q) * (p - q) >= 0
    BY <1>1
  <2>4. (k + k) * (k + k) <= (p + q) * (p + q)
    <3> DEFINE u == (p - q) * (p - q)
               v == p * q
               w == k * k
    <3>1. u \in Int /\ v \in Int /\ w \in Int /\ u >= 0 /\ w <= v
      BY <1>1, <1>2, <2>3
    <3> HIDE DEF u, v, w
    <3>2. 4 * w <= u + 4 * v
      BY <3>1
    <3> QED
      BY <2>1, <2>2, <3>2 DEF u, v, w
  <2>5. k + k \in Nat /\ p + q \in Nat
    BY <1>1
  <2> QED
    BY <2>4, <2>5, SquaresKeepOrder
<1>4. (c + x * y) * (c + x * y) = c * c + (k + k) + s
  <2> DEFINE z == x * y
  <2>1. z \in Nat /\ k = z * c /\ s = z * z
    OBVIOUS
  <2> HIDE DEF z, k, s
  <2>2. (c + z) * (c + z) = c * c + (k + k) + s
    BY <2>1
  <2> QED
    BY <2>2 DEF z
<1>5. (a + x * x) * (b + y * y) = a * b + (p + q) + s
  <2> DEFINE e == x * x
             f == y * y
  <2>1. e \in Nat /\ f \in Nat /\ p = e * b /\ q = f * a /\ s = e * f
    OBVIOUS
  <2> HIDE DEF e, f, p, q, s
  <2>2. (a + e) * (b + f) = a * b + (p + q) + s
    BY <2>1
  <2> QED
    BY <2>2 DEF e, f
<1> HIDE DEF p, q, k, s
<1> QED
  BY <1>1, <1>3, <1>4, <1>5

\* The inequality of Cauchy and Schwarz for sums of whole numbers.
LEMMA CauchySchwarz ==
    ASSUME NEW S, IsFiniteSet(S), NEW v, NEW w, \A x \in S : v[x] \in Nat /\ w[x] \in Nat,
           NEW A, \A x \in S : A[x] = v[x] * v[x],
           NEW B, \A x \in S : B[x] = w[x] * w[x],
           NEW C, \A x \in S : C[x] = v[x] * w[x]
    PROVE  /\ Total(S, A) \in Nat /\ Total(S, B) \in Nat /\ Total(S, C) \in Nat
           /\ Total(S, C) * Total(S, C) <= Total(S, A) * Total(S, B)
<1>1. \A x \in S : A[x] \in Nat /\ B[x] \in Nat /\ C[x] \in Nat
  OBVIOUS
<1>2. ASSUME NEW T \in SUBSET S
      PROVE  Total(T, A) \in Nat /\ Total(T, B) \in Nat /\ Total(T, C) \in Nat
  <2>1. Total(T, A) \in Nat
    BY <1>1, TotalOfPart
  <2>2. Total(T, B) \in Nat
    BY <1>1, TotalOfPart
  <2>3. Total(T, C) \in Nat
    BY <1>1, TotalOfPart
  <2> QED
    BY <2>1, <2>2, <2>3
<1> DEFINE Bad == {T \in SUBSET S :
                      ~(Total(T, C) * Total(T, C) <= Total(T, A) * Total(T, B))}
<1>3. Bad = {}
  <2> SUFFICES ASSUME Bad # {} PROVE FALSE
    OBVIOUS
  <2>1. PICK T \in Bad : \A U \in SUBSET T : U # T => U \notin Bad
    <3>1. Bad \in SUBSET (SUBSET S)
      OBVIOUS
    <3> HIDE DEF Bad
    <3> QED
      BY <3>1, LeastSubset
  <2>2. T \in SUBSET S /\ IsFiniteSet(T)
        /\ ~(Total(T, C) * Total(T, C) <= Total(T, A) * Total(T, B))
    BY FS_Subset
  <2>3. T # {}
    <3>1. Total({}, A) = 0 /\ Total({}, B) = 0 /\ Total({}, C) = 0
      BY FS_EmptySet, TotalOfSome
    <3> HIDE DEF Bad
    <3> QED
      BY <2>2, <3>1
  <2>4. PICK x \in T : TRUE
    BY <2>3
  <2> DEFINE U == T \ {x}
  <2>5. Total(U, C) * Total(U, C) <= Total(U, A) * Total(U, B)
    BY <2>1, <2>2
  <2>6. Total(T, A) = A[x] + Total(U, A)
    <3>1. \A y \in T : A[y] \in Int
      BY <1>1, <2>2
    <3> QED
      BY <2>2, <3>1, TotalStep
  <2>7. Total(T, B) = B[x] + Total(U, B)
    <3>1. \A y \in T : B[y] \in Int
      BY <1>1, <2>2
    <3> QED
      BY <2>2, <3>1, TotalStep
  <2>8. Total(T, C) = C[x] + Total(U, C)
    <3>1. \A y \in T : C[y] \in Int
      BY <1>1, <2>2
    <3> QED
      BY <2>2, <3>1, TotalStep
  <2> DEFINE a == Total(U, A)
             b == Total(U, B)
             c == Total(U, C)
             m == v[x]
             n == w[x]
  <2>9. a \in Nat /\ b \in Nat /\ c \in Nat /\ m \in Nat /\ n \in Nat /\ c * c <= a * b
    BY <1>2, <2>2, <2>5
  <2>10. /\ Total(T, A) = a + m * m /\ Total(T, B) = b + n * n /\ Total(T, C) = c + m * n
    <3>1. A[x] = m * m /\ B[x] = n * n /\ C[x] = m * n
      BY <2>2
    <3> HIDE DEF m, n, a, b, c
    <3>2. m * m \in Int /\ n * n \in Int /\ m * n \in Int
      BY <2>9
    <3> QED
      BY <2>6, <2>7, <2>8, <2>9, <3>1, <3>2 DEF a, b, c
  <2> HIDE DEF a, b, c, m, n, Bad, U
  <2>11. (c + m * n) * (c + m * n) <= (a + m * m) * (b + n * n)
    BY <2>9, OneMoreTerm
  <2> QED
    BY <2>2, <2>10, <2>11
<1>4. S \notin Bad
  BY <1>3
<1> QED
  BY <1>2, <1>4
=============================================================================
