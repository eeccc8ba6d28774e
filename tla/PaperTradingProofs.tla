-------------------------- MODULE PaperTradingProofs --------------------------
(***************************************************************************)
(* What the shared operators of PaperTrading do, for every account, risk    *)
(* record, price and quantity: how each fill changes the books, how much    *)
(* the sizes leave, what the engine's record remembers of a mark, and what  *)
(* a loop of sales leaves.  Before them, facts about data: the least element *)
(* of a set of naturals and the least subset of a finite set, which stand in *)
(* for induction; sums over finite sets; products and quotients of whole     *)
(* numbers; sequences.                                                       *)
(***************************************************************************)
EXTENDS PaperTrading, SequencesExt, SequenceTheorems, FiniteSetTheorems, WellFoundedInduction, TLAPS

-----------------------------------------------------------------------------
(* Least elements *)

\* A non-empty set of naturals has a least element.
LEMMA LeastNat ==
  ASSUME NEW T, T \subseteq Nat, T # {}
  PROVE  \E x \in T : \A y \in T : x <= y
<1>1. \E x \in T : \A y \in T : ~(<<y, x>> \in OpToRel(<, Nat))
  BY NatLessThanWellFounded, WFMin
<1>2. \A x, y \in Nat : <<y, x>> \in OpToRel(<, Nat) <=> y < x
  BY DEF OpToRel
<1>3. PICK x \in T : \A y \in T : ~(<<y, x>> \in OpToRel(<, Nat))
  BY <1>1
<1>4. ASSUME NEW y \in T PROVE x <= y
  <2>1. x \in Nat /\ y \in Nat
    OBVIOUS
  <2>2. ~(y < x)
    BY <1>2, <1>3, <2>1
  <2>. QED
    BY <2>1, <2>2
<1>. QED
  BY <1>4

-----------------------------------------------------------------------------
(* Sums over finite sets *)

\* A non-empty family of subsets of a finite set has a least one: none of its
\* proper subsets is in the family.
LEMMA LeastSubset ==
  ASSUME NEW S, IsFiniteSet(S), NEW F, F \subseteq SUBSET S, F # {}
  PROVE  \E T \in F : \A U \in SUBSET T : U # T => U \notin F
<1> DEFINE C == {Cardinality(T) : T \in F}
<1>1. \A T \in F : IsFiniteSet(T) /\ Cardinality(T) \in Nat
  BY FS_Subset, FS_CardinalityType
<1>2. C \subseteq Nat /\ C # {}
  BY <1>1
<1>3. PICK c \in C : \A d \in C : c <= d
  BY <1>2, LeastNat
<1>4. PICK T \in F : c = Cardinality(T)
  OBVIOUS
<1>5. ASSUME NEW U \in SUBSET T, U # T, U \in F PROVE FALSE
  <2>1. IsFiniteSet(T) /\ Cardinality(T) \in Nat /\ Cardinality(U) \in Nat
    BY <1>1, <1>5
  <2>2. Cardinality(U) <= Cardinality(T) /\ Cardinality(T) # Cardinality(U)
    BY <1>5, <2>1, FS_Subset
  <2>3. Cardinality(T) <= Cardinality(U)
    BY <1>3, <1>4, <1>5
  <2>. QED
    BY <2>1, <2>2, <2>3
<1>. QED
  BY <1>5

\* The equation of the sums of f over the subsets of S.
Sums(f, S, iter) ==
  iter = [s \in SUBSET S |-> IF s = {} THEN 0
                             ELSE LET x == CHOOSE y \in s : TRUE IN f[x] + iter[s \ {x}]]

\* Two solutions agree where the functions and the sets do.
LEMMA SumsAgree ==
  ASSUME NEW f, NEW g, NEW S, NEW T, NEW a, NEW b, Sums(f, S, a), Sums(g, T, b),
         NEW V, V \subseteq S \cap T, IsFiniteSet(V), \A x \in V : f[x] = g[x]
  PROVE  a[V] = b[V]
<1> DEFINE F == {U \in SUBSET V : a[U] # b[U]}
<1> SUFFICES ASSUME F # {} PROVE FALSE
  OBVIOUS
<1>1. PICK U \in F : \A W \in SUBSET U : W # U => W \notin F
  <2>1. F \subseteq SUBSET V
    OBVIOUS
  <2> HIDE DEF F
  <2>. QED
    BY <2>1, LeastSubset
<1> DEFINE x == CHOOSE y \in U : TRUE
<1>2. a[U] = IF U = {} THEN 0 ELSE f[x] + a[U \ {x}]
  BY DEF Sums
<1>3. b[U] = IF U = {} THEN 0 ELSE g[x] + b[U \ {x}]
  BY DEF Sums
<1>4. CASE U = {}
  BY <1>2, <1>3, <1>4
<1>5. CASE U # {}
  <2>1. x \in U
    BY <1>5
  <2> HIDE DEF x
  <2>2. a[U \ {x}] = b[U \ {x}]
    BY <1>1, <2>1
  <2>3. f[x] = g[x]
    BY <2>1
  <2>. QED
    BY <1>2, <1>3, <1>5, <2>2, <2>3
<1>. QED
  BY <1>4, <1>5

\* Over a finite set there is a solution.
LEMMA SumsExist ==
  ASSUME NEW f, NEW S, IsFiniteSet(S)
  PROVE  \E iter : Sums(f, S, iter)
<1> DEFINE F == {T \in SUBSET S : ~\E iter : Sums(f, T, iter)}
<1> SUFFICES ASSUME F # {} PROVE FALSE
  OBVIOUS
<1>1. PICK T \in F : \A U \in SUBSET T : U # T => U \notin F
  <2>1. F \subseteq SUBSET S
    OBVIOUS
  <2> HIDE DEF F
  <2>. QED
    BY <2>1, LeastSubset
<1> DEFINE K(V) == CHOOSE iter : Sums(f, V, iter)
           first(U) == CHOOSE y \in U : TRUE
           g == [U \in SUBSET T |->
                   IF U = {} THEN 0 ELSE f[first(U)] + K(U \ {first(U)})[U \ {first(U)}]]
<1>2. ASSUME NEW V \in SUBSET T, V # T PROVE Sums(f, V, K(V))
  <2>1. \E iter : Sums(f, V, iter)
    BY <1>1, <1>2
  <2>. QED
    BY <2>1
<1>3. ASSUME NEW U \in SUBSET T, U # {} PROVE first(U) \in U
  BY <1>3
<1>4. ASSUME NEW V \in SUBSET T, V # T PROVE K(V)[V] = g[V]
  <2>1. Sums(f, V, K(V))
    BY <1>2, <1>4
  <2>2. K(V)[V] = IF V = {} THEN 0 ELSE f[first(V)] + K(V)[V \ {first(V)}]
    <3> HIDE DEF K
    <3>. QED
      BY <2>1 DEF Sums
  <2>3. CASE V = {}
    BY <2>2, <2>3
  <2>4. CASE V # {}
    <3> DEFINE W == V \ {first(V)}
    <3>1. W \in SUBSET T /\ W # T /\ W \subseteq V \cap W
      BY <1>3, <2>4
    <3>2. Sums(f, W, K(W))
      BY <1>2, <3>1
    <3>3. IsFiniteSet(W)
      BY <3>1, FS_Subset
    <3>4. K(V)[W] = K(W)[W]
      <4> HIDE DEF K, W
      <4>. QED
        BY <2>1, <3>1, <3>2, <3>3, SumsAgree
    <3>5. g[V] = f[first(V)] + K(W)[W]
      BY <2>4
    <3>. QED
      BY <2>2, <2>4, <3>4, <3>5
  <2>. QED
    BY <2>3, <2>4
<1>5. \A U \in SUBSET T : U # {} => K(U \ {first(U)})[U \ {first(U)}] = g[U \ {first(U)}]
  <2>1. ASSUME NEW U \in SUBSET T, U # {}
        PROVE  U \ {first(U)} \in SUBSET T /\ U \ {first(U)} # T
    BY <1>3, <2>1
  <2>. QED
    BY <1>4, <2>1
<1>6. g = [U \in SUBSET T |-> IF U = {} THEN 0 ELSE f[first(U)] + g[U \ {first(U)}]]
  <2>1. g = [U \in SUBSET T |->
                   IF U = {} THEN 0 ELSE f[first(U)] + K(U \ {first(U)})[U \ {first(U)}]]
    OBVIOUS
  <2> HIDE DEF g, K, first
  <2>2. \A U \in SUBSET T :
           (IF U = {} THEN 0 ELSE f[first(U)] + K(U \ {first(U)})[U \ {first(U)}])
             = (IF U = {} THEN 0 ELSE f[first(U)] + g[U \ {first(U)}])
    BY <1>5
  <2>. QED
    BY <2>1, <2>2
<1>7. Sums(f, T, g)
  <2> HIDE DEF g
  <2>. QED
    BY <1>6 DEF Sums
<1>. QED
  BY <1>1, <1>7

LEMMA SumIsSums ==
  ASSUME NEW f, NEW S, IsFiniteSet(S)
  PROVE  \E iter : Sums(f, S, iter) /\ SumFunctionOnSet(f, S) = iter[S]
<1>1. SumFunctionOnSet(f, S) = (CHOOSE iter : Sums(f, S, iter))[S]
  BY DEF SumFunctionOnSet, FoldFunctionOnSet, MapThenFoldSet, Sums
<1>. QED
  BY <1>1, SumsExist

LEMMA SumEmpty == ASSUME NEW f PROVE SumFunctionOnSet(f, {}) = 0
<1>1. PICK iter : Sums(f, {}, iter) /\ SumFunctionOnSet(f, {}) = iter[{}]
  BY SumIsSums, FS_EmptySet
<1>. QED
  BY <1>1 DEF Sums

\* A sum is a function of the values.
LEMMA SumAgree ==
  ASSUME NEW f, NEW g, NEW S, IsFiniteSet(S), \A x \in S : f[x] = g[x]
  PROVE  SumFunctionOnSet(f, S) = SumFunctionOnSet(g, S)
<1>1. PICK a : Sums(f, S, a) /\ SumFunctionOnSet(f, S) = a[S]
  BY SumIsSums
<1>2. PICK b : Sums(g, S, b) /\ SumFunctionOnSet(g, S) = b[S]
  BY SumIsSums
<1>3. a[S] = b[S]
  BY <1>1, <1>2, SumsAgree
<1>. QED
  BY <1>1, <1>2, <1>3

\* Sums of integers are integers, and any summand may be taken out.
LEMMA SumsPlus ==
  ASSUME NEW f, NEW S, IsFiniteSet(S), \A x \in S : f[x] \in Int, NEW iter, Sums(f, S, iter)
  PROVE  /\ \A U \in SUBSET S : iter[U] \in Int
         /\ \A U \in SUBSET S : \A y \in U : iter[U] = f[y] + iter[U \ {y}]
<1> DEFINE first(U) == CHOOSE y \in U : TRUE
<1>1. \A U \in SUBSET S : iter[U] = IF U = {} THEN 0 ELSE f[first(U)] + iter[U \ {first(U)}]
  BY DEF Sums
<1>2. \A U \in SUBSET S : U # {} => first(U) \in U
  OBVIOUS
<1> HIDE DEF first
<1>3. \A U \in SUBSET S : iter[U] \in Int
  <2> DEFINE F == {U \in SUBSET S : iter[U] \notin Int}
  <2> SUFFICES ASSUME F # {} PROVE FALSE
    OBVIOUS
  <2>1. PICK U \in F : \A W \in SUBSET U : W # U => W \notin F
    <3>1. F \subseteq SUBSET S
      OBVIOUS
    <3> HIDE DEF F
    <3>. QED
      BY <3>1, LeastSubset
  <2>0. U \in SUBSET S /\ iter[U] \notin Int
    OBVIOUS
  <2>2. CASE U = {}
    <3>1. iter[U] = 0
      BY <1>1, <2>0, <2>2
    <3>. QED
      BY <2>0, <3>1
  <2>3. CASE U # {}
    <3>1. iter[U \ {first(U)}] \in Int /\ f[first(U)] \in Int
      BY <1>2, <2>1, <2>3
    <3>2. iter[U] = f[first(U)] + iter[U \ {first(U)}]
      BY <1>1, <2>0, <2>3
    <3>. QED
      BY <2>0, <3>1, <3>2
  <2>. QED
    BY <2>2, <2>3
<1>4. \A U \in SUBSET S : \A y \in U : iter[U] = f[y] + iter[U \ {y}]
  <2> DEFINE F == {U \in SUBSET S : \E y \in U : iter[U] # f[y] + iter[U \ {y}]}
  <2> SUFFICES ASSUME F # {} PROVE FALSE
    OBVIOUS
  <2>1. PICK U \in F : \A W \in SUBSET U : W # U => W \notin F
    <3>1. F \subseteq SUBSET S
      OBVIOUS
    <3> HIDE DEF F
    <3>. QED
      BY <3>1, LeastSubset
  <2>2. PICK y \in U : iter[U] # f[y] + iter[U \ {y}]
    OBVIOUS
  <2>3. first(U) \in U /\ iter[U] = f[first(U)] + iter[U \ {first(U)}]
    BY <1>1, <1>2, <2>2
  <2>4. first(U) # y
    BY <2>2, <2>3
  <2>5. iter[U \ {first(U)}] = f[y] + iter[(U \ {first(U)}) \ {y}]
    <3>1. U \ {first(U)} \notin F /\ y \in U \ {first(U)}
      BY <2>1, <2>3, <2>4
    <3>. QED
      BY <3>1
  <2>6. iter[U \ {y}] = f[first(U)] + iter[(U \ {y}) \ {first(U)}]
    <3>1. U \ {y} \notin F /\ first(U) \in U \ {y}
      BY <2>1, <2>2, <2>3, <2>4
    <3>. QED
      BY <3>1
  <2>7. (U \ {first(U)}) \ {y} = (U \ {y}) \ {first(U)}
    OBVIOUS
  <2>8. PICK p \in Int, q \in Int, rest \in Int :
          p = f[y] /\ q = f[first(U)] /\ rest = iter[(U \ {first(U)}) \ {y}]
    <3>1. (U \ {first(U)}) \ {y} \in SUBSET S
      OBVIOUS
    <3>. QED
      BY <1>3, <2>2, <2>3, <3>1
  <2>9. iter[U] = q + (p + rest) /\ iter[U \ {y}] = q + rest
    BY <2>3, <2>5, <2>6, <2>7, <2>8
  <2>10. iter[U] # p + (q + rest)
    BY <2>2, <2>8, <2>9
  <2>. QED
    BY <2>9, <2>10
<1>. QED
  BY <1>3, <1>4

LEMMA SumInt ==
  ASSUME NEW f, NEW S, IsFiniteSet(S), \A x \in S : f[x] \in Int
  PROVE  SumFunctionOnSet(f, S) \in Int
<1>1. PICK a : Sums(f, S, a) /\ SumFunctionOnSet(f, S) = a[S]
  BY SumIsSums
<1>. QED
  BY <1>1, SumsPlus

LEMMA SumRemove ==
  ASSUME NEW f, NEW S, IsFiniteSet(S), \A x \in S : f[x] \in Int, NEW y \in S
  PROVE  SumFunctionOnSet(f, S) = f[y] + SumFunctionOnSet(f, S \ {y})
<1>1. PICK a : Sums(f, S, a) /\ SumFunctionOnSet(f, S) = a[S]
  BY SumIsSums
<1>2. IsFiniteSet(S \ {y})
  BY FS_RemoveElement
<1>3. PICK b : Sums(f, S \ {y}, b) /\ SumFunctionOnSet(f, S \ {y}) = b[S \ {y}]
  BY <1>2, SumIsSums
<1>4. a[S] = f[y] + a[S \ {y}]
  BY <1>1, SumsPlus
<1>5. a[S \ {y}] = b[S \ {y}]
  BY <1>1, <1>2, <1>3, SumsAgree
<1>. QED
  BY <1>1, <1>3, <1>4, <1>5

\* One more summand, whatever the other values are kept as.
LEMMA SumAdd ==
  ASSUME NEW f, NEW g, NEW S, IsFiniteSet(S), NEW y, y \notin S,
         \A x \in S : f[x] \in Int /\ g[x] = f[x], g[y] \in Int
  PROVE  SumFunctionOnSet(g, S \cup {y}) = SumFunctionOnSet(f, S) + g[y]
<1>1. IsFiniteSet(S \cup {y})
  BY FS_AddElement
<1>2. SumFunctionOnSet(g, S \cup {y}) = g[y] + SumFunctionOnSet(g, (S \cup {y}) \ {y})
  BY <1>1, SumRemove
<1>3. (S \cup {y}) \ {y} = S
  OBVIOUS
<1>4. SumFunctionOnSet(g, S) = SumFunctionOnSet(f, S)
  BY SumAgree
<1>5. PICK sum \in Int : sum = SumFunctionOnSet(f, S)
  BY SumInt
<1>6. SumFunctionOnSet(g, S \cup {y}) = g[y] + sum
  BY <1>2, <1>3, <1>4, <1>5
<1>. QED
  BY <1>5, <1>6

\* Sums of naturals are naturals.
LEMMA SumNat ==
  ASSUME NEW f, NEW S, IsFiniteSet(S), \A x \in S : f[x] \in Nat
  PROVE  SumFunctionOnSet(f, S) \in Nat
<1> DEFINE F == {U \in SUBSET S : SumFunctionOnSet(f, U) \notin Nat}
<1> SUFFICES ASSUME F # {} PROVE FALSE
  OBVIOUS
<1>1. PICK U \in F : \A W \in SUBSET U : W # U => W \notin F
  <2>1. F \subseteq SUBSET S
    OBVIOUS
  <2> HIDE DEF F
  <2>. QED
    BY <2>1, LeastSubset
<1>2. CASE U = {}
  BY <1>2, SumEmpty
<1>3. CASE U # {}
  <2>1. PICK y \in U : TRUE
    BY <1>3
  <2>2. IsFiniteSet(U) /\ \A x \in U : f[x] \in Int
    BY FS_Subset
  <2>3. SumFunctionOnSet(f, U) = f[y] + SumFunctionOnSet(f, U \ {y})
    BY <2>2, SumRemove
  <2>4. SumFunctionOnSet(f, U \ {y}) \in Nat
    BY <1>1
  <2>. QED
    BY <2>3, <2>4
<1>. QED
  BY <1>2, <1>3

-----------------------------------------------------------------------------
(* Sums over several sets *)

\* Sums over disjoint sets add up.
LEMMA SumUnion ==
  ASSUME NEW f, NEW S, IsFiniteSet(S), NEW T, IsFiniteSet(T), S \cap T = {},
         \A x \in S \cup T : f[x] \in Int
  PROVE  SumFunctionOnSet(f, S \cup T) = SumFunctionOnSet(f, S) + SumFunctionOnSet(f, T)
<1> DEFINE F == {U \in SUBSET T : SumFunctionOnSet(f, S \cup U) # SumFunctionOnSet(f, S) + SumFunctionOnSet(f, U)}
<1> SUFFICES ASSUME F # {} PROVE FALSE
  OBVIOUS
<1>1. PICK U \in F : \A W \in SUBSET U : W # U => W \notin F
  <2>1. F \subseteq SUBSET T
    OBVIOUS
  <2> HIDE DEF F
  <2>. QED
    BY <2>1, LeastSubset
<1>2. SumFunctionOnSet(f, S) \in Int
  BY SumInt
<1>3. CASE U = {}
  <2>1. S \cup U = S /\ SumFunctionOnSet(f, U) = 0
    BY <1>3, SumEmpty
  <2>2. SumFunctionOnSet(f, S \cup U) # SumFunctionOnSet(f, S) + SumFunctionOnSet(f, U)
    OBVIOUS
  <2>3. SumFunctionOnSet(f, S) # SumFunctionOnSet(f, S) + 0
    <3>1. PICK V : V = S \cup U
      OBVIOUS
    <3>. QED
      BY <2>1, <2>2, <3>1
  <2>. QED
    BY <1>2, <2>3
<1>4. CASE U # {}
  <2>1. PICK y \in U : TRUE
    BY <1>4
  <2> DEFINE W == U \ {y}
  <2>2. SumFunctionOnSet(f, S \cup W) = SumFunctionOnSet(f, S) + SumFunctionOnSet(f, W)
    BY <1>1, <2>1
  <2>3. IsFiniteSet(U) /\ IsFiniteSet(S \cup U) /\ IsFiniteSet(W)
    BY FS_Subset, FS_Union
  <2>4. (S \cup U) \ {y} = S \cup W
    BY <2>1
  <2>5. SumFunctionOnSet(f, S \cup U) = f[y] + SumFunctionOnSet(f, S \cup W)
    <3>1. PICK V : V = S \cup U
      OBVIOUS
    <3>2. SumFunctionOnSet(f, V) = f[y] + SumFunctionOnSet(f, V \ {y})
      BY <2>1, <2>3, <3>1, SumRemove
    <3>. QED
      BY <2>4, <3>1, <3>2
  <2>6. SumFunctionOnSet(f, U) = f[y] + SumFunctionOnSet(f, W)
    BY <2>1, <2>3, SumRemove
  <2>7. SumFunctionOnSet(f, W) \in Int /\ f[y] \in Int
    BY <2>1, <2>3, SumInt
  <2>. QED
    BY <1>2, <2>2, <2>5, <2>6, <2>7
<1>. QED
  BY <1>3, <1>4

\* The sum of a sum.
LEMMA SumPlus ==
  ASSUME NEW f, NEW g, NEW h, NEW S, IsFiniteSet(S),
         \A x \in S : f[x] \in Int /\ g[x] \in Int /\ h[x] = f[x] + g[x]
  PROVE  SumFunctionOnSet(h, S) = SumFunctionOnSet(f, S) + SumFunctionOnSet(g, S)
<1> DEFINE F == {U \in SUBSET S : SumFunctionOnSet(h, U) # SumFunctionOnSet(f, U) + SumFunctionOnSet(g, U)}
<1> SUFFICES ASSUME F # {} PROVE FALSE
  OBVIOUS
<1>1. PICK U \in F : \A W \in SUBSET U : W # U => W \notin F
  <2>1. F \subseteq SUBSET S
    OBVIOUS
  <2> HIDE DEF F
  <2>. QED
    BY <2>1, LeastSubset
<1>2. CASE U = {}
  BY <1>2, SumEmpty
<1>3. CASE U # {}
  <2>1. PICK y \in U : TRUE
    BY <1>3
  <2> DEFINE W == U \ {y}
  <2>2. SumFunctionOnSet(h, W) = SumFunctionOnSet(f, W) + SumFunctionOnSet(g, W)
    BY <1>1, <2>1
  <2>3. IsFiniteSet(U) /\ IsFiniteSet(W)
    BY FS_Subset
  <2>4. /\ SumFunctionOnSet(f, U) = f[y] + SumFunctionOnSet(f, W)
        /\ SumFunctionOnSet(g, U) = g[y] + SumFunctionOnSet(g, W)
        /\ SumFunctionOnSet(h, U) = h[y] + SumFunctionOnSet(h, W)
    BY <2>1, <2>3, SumRemove
  <2>5. SumFunctionOnSet(f, W) \in Int /\ SumFunctionOnSet(g, W) \in Int /\ f[y] \in Int /\ g[y] \in Int
        /\ h[y] = f[y] + g[y]
    BY <2>1, <2>3, SumInt
  <2>. QED
    BY <2>2, <2>4, <2>5
<1>. QED
  BY <1>2, <1>3

\* The sum of a multiple.
LEMMA SumTimes ==
  ASSUME NEW k \in Int, NEW f, NEW h, NEW S, IsFiniteSet(S), \A x \in S : f[x] \in Int /\ h[x] = k * f[x]
  PROVE  SumFunctionOnSet(h, S) = k * SumFunctionOnSet(f, S)
<1> DEFINE F == {U \in SUBSET S : SumFunctionOnSet(h, U) # k * SumFunctionOnSet(f, U)}
<1> SUFFICES ASSUME F # {} PROVE FALSE
  OBVIOUS
<1>1. PICK U \in F : \A W \in SUBSET U : W # U => W \notin F
  <2>1. F \subseteq SUBSET S
    OBVIOUS
  <2> HIDE DEF F
  <2>. QED
    BY <2>1, LeastSubset
<1>2. CASE U = {}
  BY <1>2, SumEmpty
<1>3. CASE U # {}
  <2>1. PICK y \in U : TRUE
    BY <1>3
  <2> DEFINE W == U \ {y}
  <2>2. SumFunctionOnSet(h, W) = k * SumFunctionOnSet(f, W)
    BY <1>1, <2>1
  <2>3. IsFiniteSet(U) /\ IsFiniteSet(W)
    BY FS_Subset
  <2>4. \A x \in S : h[x] \in Int
    OBVIOUS
  <2>5. /\ SumFunctionOnSet(f, U) = f[y] + SumFunctionOnSet(f, W)
        /\ SumFunctionOnSet(h, U) = h[y] + SumFunctionOnSet(h, W)
    BY <2>1, <2>3, <2>4, SumRemove
  <2>6. PICK a \in Int, b \in Int : a = SumFunctionOnSet(f, W) /\ b = f[y]
    BY <2>1, <2>3, SumInt
  <2>7. h[y] = k * b /\ k * (b + a) = k * b + k * a
    BY <2>1, <2>6
  <2>. QED
    BY <2>2, <2>5, <2>6, <2>7
<1>. QED
  BY <1>2, <1>3

\* The order of the summands does not matter, nor what they are indexed by.
LEMMA SumReindex ==
  ASSUME NEW f, NEW g, NEW S, IsFiniteSet(S), NEW T, NEW m, m \in Bijection(S, T),
         \A x \in S : f[x] \in Int /\ f[x] = g[m[x]]
  PROVE  SumFunctionOnSet(f, S) = SumFunctionOnSet(g, T)
<1> DEFINE Img(U) == {m[x] : x \in U}
           F == {U \in SUBSET S : SumFunctionOnSet(f, U) # SumFunctionOnSet(g, Img(U))}
<1>1. /\ m \in [S -> T] /\ \A x, y \in S : m[x] = m[y] => x = y
      /\ \A t \in T : \E x \in S : m[x] = t
  BY DEF Bijection, Injection, Surjection, IsInjective
<1>2. Img(S) = T
  BY <1>1
<1>3. SUFFICES ASSUME F # {} PROVE FALSE
  BY <1>2
<1>4. PICK U \in F : \A W \in SUBSET U : W # U => W \notin F
  <2>1. F \subseteq SUBSET S
    OBVIOUS
  <2> HIDE DEF F
  <2>. QED
    BY <1>3, <2>1, LeastSubset
<1>5. CASE U = {}
  <2>1. Img(U) = {}
    BY <1>5
  <2> HIDE DEF Img
  <2>. QED
    BY <1>5, <2>1, SumEmpty DEF F
<1>6. CASE U # {}
  <2>1. PICK y \in U : TRUE
    BY <1>6
  <2> DEFINE W == U \ {y}
  <2>2. SumFunctionOnSet(f, W) = SumFunctionOnSet(g, Img(W))
    BY <1>4, <2>1
  <2>3. IsFiniteSet(U) /\ IsFiniteSet(W) /\ \A x \in U : f[x] \in Int
    BY FS_Subset
  <2>4. SumFunctionOnSet(f, U) = f[y] + SumFunctionOnSet(f, W)
    BY <2>1, <2>3, SumRemove
  <2>5. m[y] \in Img(U) /\ Img(U) \ {m[y]} = Img(W)
    BY <1>1, <2>1
  <2>6. IsFiniteSet(Img(U))
    <3>1. [x \in U |-> m[x]] \in Surjection(U, Img(U))
      BY DEF Surjection
    <3> HIDE DEF Img
    <3>. QED
      BY <2>3, <3>1, FS_Surjection
  <2>7. \A t \in Img(U) : g[t] \in Int
    BY <1>1
  <2>8. SumFunctionOnSet(g, Img(U)) = g[m[y]] + SumFunctionOnSet(g, Img(W))
    <3>1. PICK V, t : V = Img(U) /\ t = m[y]
      OBVIOUS
    <3>2. SumFunctionOnSet(g, V) = g[t] + SumFunctionOnSet(g, V \ {t})
      BY <2>5, <2>6, <2>7, <3>1, SumRemove
    <3>. QED
      BY <2>5, <3>1, <3>2
  <2>9. f[y] = g[m[y]]
    BY <2>1
  <2>. QED
    BY <2>2, <2>4, <2>8, <2>9
<1>. QED
  BY <1>5, <1>6

-----------------------------------------------------------------------------
(* Whole numbers *)

LEMMA Times ==
  ASSUME NEW a \in Nat, NEW b \in Nat, NEW c \in Nat, a <= b
  PROVE  a * c <= b * c
<1>1. \A k \in Nat : (a + k) * c = a * c + k * c
  OBVIOUS
<1>2. (b - a) * c \in Nat /\ b - a \in Nat
  OBVIOUS
<1>. QED
  BY <1>1, <1>2

\* What a quotient bounds, its multiple bounds.
LEMMA DivTimes ==
  ASSUME NEW a \in Nat, NEW b \in Nat \ {0}, NEW k \in 0..a \div b
  PROVE  k * b <= a
<1>1. a \div b \in Nat /\ (a \div b) * b <= a
  OBVIOUS
<1>2. k * b <= (a \div b) * b
  BY <1>1, Times
<1>. QED
  BY <1>1, <1>2

\* A quotient grows with what is divided.
LEMMA DivMonotone ==
  ASSUME NEW a \in Nat, NEW b \in Nat, NEW c \in Nat \ {0}, a <= b
  PROVE  a \div c <= b \div c
OBVIOUS

\* A percentage added to a whole amount leaves a whole one.
LEMMA MarkedUp ==
  ASSUME NEW a \in Nat \ {0}, NEW pct \in Nat
  PROVE  (a * (100 + pct)) \div 100 \in Nat \ {0}
<1>1. PICK p \in Nat : p = a * (100 + pct)
  OBVIOUS
<1>2. 1 * (100 + pct) <= a * (100 + pct)
  BY Times
<1>3. 100 <= p
  BY <1>1, <1>2
<1>4. 100 \div 100 <= p \div 100
  BY <1>3, DivMonotone
<1>. QED
  BY <1>1, <1>4

-----------------------------------------------------------------------------
(* Sequences *)

LEMMA SeqDomain ==
  ASSUME NEW S, NEW s \in Seq(S)
  PROVE  /\ Len(s) \in Nat /\ DOMAIN s = 1 .. Len(s) /\ \A n \in DOMAIN s : s[n] \in S
         /\ ToSet(s) \subseteq S
         /\ \A x : x \in ToSet(s) <=> \E n \in DOMAIN s : x = s[n]
<1>1. Len(s) \in Nat /\ DOMAIN s = 1 .. Len(s) /\ \A n \in DOMAIN s : s[n] \in S
  BY LenProperties, ElementOfSeq
<1>. QED
  BY <1>1 DEF ToSet

\* An order of a set lists each member once.
LEMMA OrderOf ==
  ASSUME NEW S, IsFiniteSet(S), NEW order \in SetToSeqs(S)
  PROVE  /\ DOMAIN order = 1 .. Cardinality(S) /\ Cardinality(S) \in Nat
         /\ \A n \in DOMAIN order : order[n] \in S
         /\ \A m, n \in DOMAIN order : order[m] = order[n] => m = n
         /\ \A x \in S : \E n \in DOMAIN order : order[n] = x
<1> DEFINE D == 1 .. Cardinality(S)
<1>1. Cardinality(S) \in Nat
  BY FS_CardinalityType
<1>2. order \in [D -> S] /\ \A i, j \in D : i # j => order[i] # order[j]
  BY DEF SetToSeqs
<1>3. order \in Injection(D, S)
  BY <1>2 DEF Injection, IsInjective
<1>4. Cardinality(D) = Cardinality(S)
  <2>1. Cardinality(D) = IF 1 > Cardinality(S) THEN 0 ELSE Cardinality(S) - 1 + 1
    BY <1>1, FS_Interval
  <2>. QED
    BY <1>1, <2>1
<1>5. order \in Surjection(D, S)
  BY <1>3, <1>4, FS_Injection
<1>6. \A x \in S : \E n \in D : order[n] = x
  BY <1>5 DEF Surjection
<1>. QED
  BY <1>1, <1>2, <1>6

\* No instrument is listed twice.
Distinct(p) == \A m, n \in DOMAIN p : p[m].instrument = p[n].instrument => m = n

LEMMA Removed ==
  ASSUME NEW S, NEW s \in Seq(S), NEW k \in DOMAIN s
  PROVE  /\ RemoveAt(s, k) \in Seq(S)
         /\ DOMAIN RemoveAt(s, k) = 1 .. Len(s) - 1
         /\ \A n \in DOMAIN RemoveAt(s, k) : RemoveAt(s, k)[n] = IF n < k THEN s[n] ELSE s[n + 1]
<1> DEFINE a == SubSeq(s, 1, k - 1)
           b == SubSeq(s, k + 1, Len(s))
           t == RemoveAt(s, k)
<1>1. Len(s) \in Nat /\ DOMAIN s = 1 .. Len(s) /\ k \in 1 .. Len(s) /\ \A n \in DOMAIN s : s[n] \in S
  BY SeqDomain
<1>2. a \in Seq(S) /\ Len(a) = k - 1 /\ \A i \in 1 .. k - 1 : a[i] = s[i]
  <2>1. \A i \in 1 .. k - 1 : s[i] \in S
    BY <1>1
  <2>2. /\ a \in Seq(S) /\ Len(a) = (IF 1 <= k - 1 THEN k - 1 - 1 + 1 ELSE 0)
        /\ \A i \in 1 .. k - 1 - 1 + 1 : a[i] = s[1 + i - 1]
    BY <1>1, <2>1, SubSeqProperties
  <2>. QED
    BY <1>1, <2>2
<1>3. b \in Seq(S) /\ Len(b) = Len(s) - k /\ \A i \in 1 .. Len(s) - k : b[i] = s[k + i]
  <2>1. \A i \in k + 1 .. Len(s) : s[i] \in S
    BY <1>1
  <2>2. /\ b \in Seq(S) /\ Len(b) = (IF k + 1 <= Len(s) THEN Len(s) - (k + 1) + 1 ELSE 0)
        /\ \A i \in 1 .. Len(s) - (k + 1) + 1 : b[i] = s[k + 1 + i - 1]
    BY <1>1, <2>1, SubSeqProperties
  <2>. QED
    BY <1>1, <2>2
<1>4. t = a \o b
  BY DEF RemoveAt
<1> HIDE DEF a, b, t
<1>5. /\ t \in Seq(S) /\ Len(t) = Len(s) - 1
      /\ \A i \in 1 .. Len(s) - 1 : t[i] = IF i <= k - 1 THEN a[i] ELSE b[i - (k - 1)]
  <2>1. Len(a) + Len(b) = Len(s) - 1
    BY <1>1, <1>2, <1>3
  <2>2. /\ t \in Seq(S) /\ Len(t) = Len(a) + Len(b)
        /\ \A i \in 1 .. Len(a) + Len(b) : t[i] = IF i <= Len(a) THEN a[i] ELSE b[i - Len(a)]
    <3>1. a \in Seq(S) /\ b \in Seq(S)
      BY <1>2, <1>3
    <3>. QED
      BY <1>4, <3>1, ConcatProperties
  <2>. QED
    BY <1>2, <2>1, <2>2
<1>6. DOMAIN t = 1 .. Len(s) - 1
  BY <1>5, LenProperties
<1>7. ASSUME NEW n \in 1 .. Len(s) - 1 PROVE t[n] = IF n < k THEN s[n] ELSE s[n + 1]
  <2>1. CASE n < k
    BY <1>1, <1>2, <1>5, <1>7, <2>1
  <2>2. CASE ~(n < k)
    <3>1. t[n] = b[n - (k - 1)] /\ n - (k - 1) \in 1 .. Len(s) - k /\ k + (n - (k - 1)) = n + 1
      BY <1>1, <1>5, <1>7, <2>2
    <3>. QED
      BY <1>3, <2>2, <3>1
  <2>. QED
    BY <2>1, <2>2
<1>. QED
  BY <1>5, <1>6, <1>7 DEF t

\* One of a list is taken off.
LEMMA DistinctRemoved ==
  ASSUME NEW S, NEW p \in Seq(S), Distinct(p), NEW k \in DOMAIN p
  PROVE  /\ RemoveAt(p, k) \in Seq(S) /\ Distinct(RemoveAt(p, k))
         /\ ToSet(RemoveAt(p, k)) = ToSet(p) \ {p[k]}
         /\ \A a \in ToSet(RemoveAt(p, k)) : a.instrument # p[k].instrument
<1> DEFINE q == RemoveAt(p, k)
           old(n) == IF n < k THEN n ELSE n + 1
<1>1. /\ Len(p) \in Nat /\ DOMAIN p = 1 .. Len(p) /\ k \in 1 .. Len(p)
      /\ \A x : x \in ToSet(p) <=> \E n \in DOMAIN p : x = p[n]
  BY SeqDomain
<1>2. /\ q \in Seq(S) /\ DOMAIN q = 1 .. Len(p) - 1
      /\ \A n \in DOMAIN q : q[n] = IF n < k THEN p[n] ELSE p[n + 1]
  BY Removed
<1>3. \A x : x \in ToSet(q) <=> \E n \in DOMAIN q : x = q[n]
  BY <1>2, SeqDomain
<1> HIDE DEF q
<1>4. \A n \in DOMAIN q : q[n] = p[old(n)] /\ old(n) \in DOMAIN p /\ old(n) # k
  BY <1>1, <1>2
<1>5. \A m \in DOMAIN p : m # k => \E n \in DOMAIN q : old(n) = m
  <2>1. ASSUME NEW m \in DOMAIN p, m < k PROVE m \in DOMAIN q /\ old(m) = m
    BY <1>1, <1>2, <2>1
  <2>2. ASSUME NEW m \in DOMAIN p, m > k PROVE m - 1 \in DOMAIN q /\ old(m - 1) = m
    BY <1>1, <1>2, <2>2
  <2>3. \A m \in DOMAIN p : m # k => m < k \/ m > k
    BY <1>1
  <2>. QED
    BY <2>1, <2>2, <2>3
<1>6. \A m, n \in DOMAIN q : old(m) = old(n) => m = n
  BY <1>1, <1>2
<1>7. Distinct(q)
  <2> HIDE DEF old
  <2>. QED
    BY <1>4, <1>6 DEF Distinct
<1>8. ToSet(q) = ToSet(p) \ {p[k]}
  <2> HIDE DEF old
  <2>1. \A m \in DOMAIN p : p[m] = p[k] => m = k
    BY <1>1 DEF Distinct
  <2>2. ASSUME NEW x \in ToSet(q) PROVE x \in ToSet(p) /\ x # p[k]
    <3>1. PICK n \in DOMAIN q : x = q[n]
      BY <1>3
    <3>. QED
      BY <1>1, <1>4, <2>1, <3>1
  <2>3. ASSUME NEW x \in ToSet(p), x # p[k] PROVE x \in ToSet(q)
    <3>1. PICK m \in DOMAIN p : x = p[m]
      BY <1>1
    <3>2. PICK n \in DOMAIN q : old(n) = m
      BY <1>5, <2>3, <3>1
    <3>. QED
      BY <1>3, <1>4, <3>1, <3>2
  <2>. QED
    BY <2>2, <2>3
<1>9. \A a \in ToSet(q) : a.instrument # p[k].instrument
  <2> HIDE DEF old
  <2>. QED
    BY <1>1, <1>3, <1>4 DEF Distinct
<1>. QED
  BY <1>2, <1>7, <1>8, <1>9 DEF q

\* The first of a list is taken off.
LEMMA DistinctTail ==
  ASSUME NEW S, NEW p \in Seq(S), Distinct(p), p # <<>>
  PROVE  /\ Tail(p) \in Seq(S) /\ Distinct(Tail(p)) /\ Head(p) \in ToSet(p)
         /\ ToSet(Tail(p)) \subseteq ToSet(p)
         /\ \A a \in ToSet(Tail(p)) : a.instrument # Head(p).instrument
<1> DEFINE q == Tail(p)
<1>1. /\ Len(p) \in Nat /\ DOMAIN p = 1 .. Len(p) /\ Len(p) # 0
      /\ \A x : x \in ToSet(p) <=> \E n \in DOMAIN p : x = p[n]
  BY SeqDomain, EmptySeq
<1>2. q \in Seq(S) /\ Len(q) = Len(p) - 1 /\ \A i \in 1 .. Len(q) : q[i] = p[i + 1]
  BY HeadTailProperties
<1>3. /\ DOMAIN q = 1 .. Len(p) - 1
      /\ \A x : x \in ToSet(q) <=> \E n \in DOMAIN q : x = q[n]
  BY <1>2, SeqDomain
<1>4. Head(p) = p[1]
  OBVIOUS
<1> HIDE DEF q
<1>5. \A n \in DOMAIN q : q[n] = p[n + 1] /\ n + 1 \in DOMAIN p /\ n + 1 # 1
  BY <1>1, <1>2, <1>3
<1>6. \A m, n \in DOMAIN q : m + 1 = n + 1 => m = n
  BY <1>1, <1>3
<1>7. Distinct(q)
  BY <1>5, <1>6 DEF Distinct
<1>8. 1 \in DOMAIN p
  BY <1>1
<1>. QED
  BY <1>1, <1>2, <1>3, <1>4, <1>5, <1>7, <1>8 DEF q, Distinct

\* Two lists without an instrument in common.
LEMMA DistinctJoined ==
  ASSUME NEW S, NEW p \in Seq(S), NEW q \in Seq(S), Distinct(p), Distinct(q),
         \A a \in ToSet(p), b \in ToSet(q) : a.instrument # b.instrument
  PROVE  p \o q \in Seq(S) /\ Distinct(p \o q) /\ ToSet(p \o q) = ToSet(p) \cup ToSet(q)
<1> DEFINE r == p \o q
<1>1. /\ Len(p) \in Nat /\ DOMAIN p = 1 .. Len(p) /\ Len(q) \in Nat /\ DOMAIN q = 1 .. Len(q)
      /\ \A x : x \in ToSet(p) <=> \E n \in DOMAIN p : x = p[n]
      /\ \A x : x \in ToSet(q) <=> \E n \in DOMAIN q : x = q[n]
  BY SeqDomain
<1>2. /\ r \in Seq(S) /\ DOMAIN r = 1 .. Len(p) + Len(q)
      /\ \A i \in DOMAIN r : r[i] = IF i <= Len(p) THEN p[i] ELSE q[i - Len(p)]
  <2>1. /\ r \in Seq(S) /\ Len(r) = Len(p) + Len(q)
        /\ \A i \in 1 .. Len(p) + Len(q) : r[i] = IF i <= Len(p) THEN p[i] ELSE q[i - Len(p)]
    BY ConcatProperties
  <2> HIDE DEF r
  <2>. QED
    BY <2>1, LenProperties
<1>3. \A x : x \in ToSet(r) <=> \E n \in DOMAIN r : x = r[n]
  BY <1>2, SeqDomain
<1> HIDE DEF r
<1>4. \A i \in DOMAIN r : \/ i \in DOMAIN p /\ r[i] = p[i] /\ i <= Len(p)
                          \/ i - Len(p) \in DOMAIN q /\ r[i] = q[i - Len(p)] /\ i > Len(p)
  BY <1>1, <1>2
<1>5. Distinct(r)
  <2>1. SUFFICES ASSUME NEW m \in DOMAIN r, NEW n \in DOMAIN r, r[m].instrument = r[n].instrument
                 PROVE  m = n
    BY DEF Distinct
  <2>2. CASE m <= Len(p) /\ n <= Len(p)
    BY <1>1, <1>2, <1>4, <2>1, <2>2 DEF Distinct
  <2>3. CASE m > Len(p) /\ n > Len(p)
    <3>1. m - Len(p) \in DOMAIN q /\ n - Len(p) \in DOMAIN q
          /\ r[m] = q[m - Len(p)] /\ r[n] = q[n - Len(p)]
      BY <1>1, <1>2, <1>4, <2>3
    <3>2. m - Len(p) = n - Len(p)
      BY <2>1, <3>1 DEF Distinct
    <3>. QED
      BY <1>1, <1>2, <3>2
  <2>7. ASSUME NEW k \in DOMAIN r, NEW l \in DOMAIN r, k <= Len(p), l > Len(p)
        PROVE  r[k].instrument # r[l].instrument
    <3>1. r[k] \in ToSet(p)
      <4>1. k \in DOMAIN p /\ r[k] = p[k]
        BY <1>1, <1>2, <2>7
      <4>. QED
        BY <1>1, <4>1
    <3>2. r[l] \in ToSet(q)
      <4>1. l - Len(p) \in DOMAIN q /\ r[l] = q[l - Len(p)]
        BY <1>1, <1>2, <2>7
      <4>. QED
        BY <1>1, <4>1
    <3>. QED
      BY <3>1, <3>2
  <2>4. CASE m <= Len(p) /\ n > Len(p)
    BY <2>1, <2>4, <2>7
  <2>5. CASE m > Len(p) /\ n <= Len(p)
    BY <2>1, <2>5, <2>7
  <2>6. \A k \in DOMAIN r : k <= Len(p) \/ k > Len(p)
    BY <1>1, <1>2
  <2>. QED
    BY <2>2, <2>3, <2>4, <2>5, <2>6
<1>6. ToSet(r) = ToSet(p) \cup ToSet(q)
  <2>1. ASSUME NEW x \in ToSet(r) PROVE x \in ToSet(p) \cup ToSet(q)
    BY <1>1, <1>3, <1>4
  <2>2. ASSUME NEW x \in ToSet(p) PROVE x \in ToSet(r)
    <3>1. PICK n \in DOMAIN p : x = p[n]
      BY <1>1
    <3>2. n \in DOMAIN r /\ r[n] = p[n]
      BY <1>1, <1>2
    <3>. QED
      BY <1>3, <3>1, <3>2
  <2>3. ASSUME NEW x \in ToSet(q) PROVE x \in ToSet(r)
    <3>1. PICK n \in DOMAIN q : x = q[n]
      BY <1>1
    <3>2. Len(p) + n \in DOMAIN r /\ r[Len(p) + n] = q[n]
      BY <1>1, <1>2
    <3>. QED
      BY <1>3, <3>1, <3>2
  <2>. QED
    BY <2>1, <2>2, <2>3
<1>. QED
  BY <1>2, <1>5, <1>6 DEF r

\* A list made of an order of a set, one action for each member.
LEMMA DistinctListed ==
  ASSUME NEW S \in SUBSET Instruments, NEW order \in SetToSeqs(S),
         NEW T, NEW f, \A i \in S : f[i] \in T /\ f[i].instrument = i,
         NEW q, q = [n \in DOMAIN order |-> f[order[n]]]
  PROVE  q \in Seq(T) /\ Distinct(q) /\ ToSet(q) = {f[i] : i \in S}
<1>1. /\ DOMAIN order = 1 .. Cardinality(S) /\ Cardinality(S) \in Nat
      /\ \A n \in DOMAIN order : order[n] \in S
      /\ \A m, n \in DOMAIN order : order[m] = order[n] => m = n
      /\ \A x \in S : \E n \in DOMAIN order : order[n] = x
  <2>1. IsFiniteSet(S)
    BY FS_Subset, HoldingsAssumption
  <2>. QED
    BY <2>1, OrderOf
<1>2. /\ DOMAIN q = DOMAIN order
      /\ \A n \in DOMAIN q : q[n] = f[order[n]] /\ order[n] \in S /\ q[n] \in T /\ q[n].instrument = order[n]
  BY <1>1
<1>3. q \in Seq(T)
  <2>1. PICK N \in Nat : N = Cardinality(S)
    BY <1>1
  <2>2. q \in [1 .. N -> T]
    BY <1>1, <1>2, <2>1
  <2>. QED
    BY <2>2 DEF Seq
<1>4. Distinct(q)
  BY <1>1, <1>2 DEF Distinct
<1>5. ToSet(q) = {f[i] : i \in S}
  <2>1. \A x : x \in ToSet(q) <=> \E n \in DOMAIN q : x = q[n]
    BY <1>3, SeqDomain
  <2>. QED
    BY <1>1, <1>2, <2>1
<1>. QED
  BY <1>3, <1>4, <1>5

\* A list made of an order of a set.
LEMMA Listed ==
  ASSUME NEW S \in SUBSET Instruments, NEW order \in SetToSeqs(S), NEW T,
         NEW f, \A i \in S : f[i] \in T, NEW q, q = [n \in DOMAIN order |-> f[order[n]]]
  PROVE  q \in Seq(T)
<1>1. /\ DOMAIN order = 1 .. Cardinality(S) /\ Cardinality(S) \in Nat
      /\ \A n \in DOMAIN order : order[n] \in S
  <2>1. IsFiniteSet(S)
    BY FS_Subset, HoldingsAssumption
  <2>. QED
    BY <2>1, OrderOf
<1>2. PICK N \in Nat : N = Cardinality(S)
  BY <1>1
<1>3. q \in [1 .. N -> T]
  BY <1>1, <1>2
<1>. QED
  BY <1>3

-----------------------------------------------------------------------------
(* The account *)

\* The equity of an account is whole and not negative.
LEMMA EquityType ==
  ASSUME NEW acc \in Account, NEW prices \in [Instruments -> Nat]
  PROVE  Equity(acc, prices) \in Nat
<1> DEFINE value == [i \in Instruments |-> acc.held[i] * prices[i]]
<1>1. acc.cash \in Nat /\ acc.held \in [Instruments -> Nat]
  BY DEF Account
<1>2. ASSUME NEW i \in Instruments PROVE value[i] \in Nat
  <2>1. acc.held[i] \in Nat /\ prices[i] \in Nat
    BY <1>1
  <2>2. \A a, b \in Nat : a * b \in Nat
    OBVIOUS
  <2>. QED
    BY <2>1, <2>2
<1>3. SumFunctionOnSet(value, Instruments) \in Nat
  <2> HIDE DEF value
  <2>. QED
    BY <1>2, SumNat, HoldingsAssumption
<1>4. SumFunction(value) = SumFunctionOnSet(value, Instruments)
  BY DEF SumFunction
<1> DEFINE sum == SumFunctionOnSet(value, Instruments)
<1>5. Equity(acc, prices) = acc.cash + 100 * sum
  BY <1>4 DEF Equity
<1> HIDE DEF sum, value
<1>. QED
  BY <1>1, <1>3, <1>5 DEF sum

Made(side, i, qty, price, status) ==
  [side |-> side, instrument |-> i, qty |-> qty, price |-> price, status |-> status]

With(acc, id, order) == [acc EXCEPT !.orders[id] = order]

\* The record of an order leaves the cash and the positions.
LEMMA WithOrder ==
  ASSUME NEW acc \in Account, NEW id \in Ids, NEW order \in Order
  PROVE  /\ With(acc, id, order) \in Account
         /\ With(acc, id, order).cash = acc.cash
         /\ With(acc, id, order).held = acc.held
         /\ With(acc, id, order).orders = [acc.orders EXCEPT ![id] = order]
<1> DEFINE orders == [acc.orders EXCEPT ![id] = order]
<1>1. orders \in [Ids -> Order \cup {NoOrder}]
  BY DEF Account
<1>2. With(acc, id, order) = [acc EXCEPT !.orders = orders]
  BY DEF With
<1> HIDE DEF orders
<1>3. /\ [acc EXCEPT !.orders = orders] \in Account
      /\ [acc EXCEPT !.orders = orders].cash = acc.cash
      /\ [acc EXCEPT !.orders = orders].held = acc.held
      /\ [acc EXCEPT !.orders = orders].orders = orders
  BY <1>1 DEF Account
<1>. QED
  BY <1>2, <1>3 DEF orders

Cost(qty, price) == (100 + CommissionPct) * qty * price
Proceeds(qty, price) == (100 - CommissionPct) * qty * price

LEMMA Amounts100 ==
  ASSUME NEW qty \in Nat \ {0}, NEW price \in Nat \ {0}
  PROVE  /\ Gross(qty, price) + Commission(qty, price) = Cost(qty, price)
         /\ Gross(qty, price) - Commission(qty, price) = Proceeds(qty, price)
         /\ Cost(qty, price) \in Nat /\ Proceeds(qty, price) \in Nat
<1>1. CommissionPct \in Nat /\ 100 - CommissionPct \in Nat
  BY AccountAssumption
<1>2. PICK v \in Nat : v = qty * price
  OBVIOUS
<1>3. \A k \in Int : k * qty * price = k * v
  BY <1>2
<1>4. /\ 100 * v + CommissionPct * v = (100 + CommissionPct) * v
      /\ 100 * v - CommissionPct * v = (100 - CommissionPct) * v
      /\ (100 + CommissionPct) * v \in Nat /\ (100 - CommissionPct) * v \in Nat
  BY <1>1, <1>2
<1>. QED
  BY <1>1, <1>3, <1>4 DEF Gross, Commission, Cost, Proceeds

\* _fill_buy
LEMMA BuyFilled ==
  ASSUME NEW acc \in Account, NEW id \in Ids, NEW i \in Instruments,
         NEW qty \in Nat \ {0}, NEW price \in Nat \ {0}, Cost(qty, price) <= acc.cash
  PROVE  /\ FillBuy(acc, id, i, qty, price) \in Account
         /\ FillBuy(acc, id, i, qty, price).orders =
              [acc.orders EXCEPT ![id] = Made("BUY", i, qty, price, "FILLED")]
         /\ FillBuy(acc, id, i, qty, price).cash = acc.cash - Cost(qty, price)
         /\ FillBuy(acc, id, i, qty, price).held = [acc.held EXCEPT ![i] = @ + qty]
<1>1. acc.cash \in Nat /\ acc.held \in [Instruments -> Nat]
  BY DEF Account
<1>2. /\ Gross(qty, price) \in Int /\ Commission(qty, price) \in Int
      /\ Cost(qty, price) \in Nat
      /\ Cost(qty, price) = Gross(qty, price) + Commission(qty, price)
  BY Amounts100, AccountAssumption DEF Gross, Commission
<1> DEFINE rec == With(acc, id, Made("BUY", i, qty, price, "FILLED"))
           held == [acc.held EXCEPT ![i] = @ + qty]
           cash == acc.cash - Cost(qty, price)
           new == [rec EXCEPT !.cash = cash, !.held = held]
<1>3. Made("BUY", i, qty, price, "FILLED") \in Order
  BY DEF Made, Order
<1>4. rec \in Account /\ rec.cash = acc.cash /\ rec.held = acc.held
      /\ rec.orders = [acc.orders EXCEPT ![id] = Made("BUY", i, qty, price, "FILLED")]
  BY <1>3, WithOrder
<1> HIDE DEF rec
<1>5. held \in [Instruments -> Nat] /\ cash \in Nat
  BY <1>1, <1>2
<1>6. FillBuy(acc, id, i, qty, price) = new
  BY <1>1, <1>2, <1>4 DEF FillBuy, rec, Recorded, With, Made
<1> HIDE DEF held, cash
<1>7. new \in Account /\ new.cash = cash /\ new.held = held /\ new.orders = rec.orders
  BY <1>4, <1>5 DEF Account
<1>. QED
  BY <1>4, <1>6, <1>7 DEF held, cash

LEMMA BuyRejected ==
  ASSUME NEW acc \in Account, NEW id \in Ids, NEW i \in Instruments,
         NEW qty \in Nat \ {0}, NEW price \in Nat \ {0}, ~(Cost(qty, price) <= acc.cash)
  PROVE  /\ FillBuy(acc, id, i, qty, price) \in Account
         /\ FillBuy(acc, id, i, qty, price).orders =
              [acc.orders EXCEPT ![id] = Made("BUY", i, qty, price, "REJECTED")]
         /\ FillBuy(acc, id, i, qty, price).cash = acc.cash
         /\ FillBuy(acc, id, i, qty, price).held = acc.held
<1>1. acc.cash \in Nat /\ acc.held \in [Instruments -> Nat]
  BY DEF Account
<1>2. /\ Cost(qty, price) \in Nat
      /\ Cost(qty, price) = Gross(qty, price) + Commission(qty, price)
  BY Amounts100
<1>3. Made("BUY", i, qty, price, "REJECTED") \in Order
  BY DEF Made, Order
<1>4. FillBuy(acc, id, i, qty, price) = With(acc, id, Made("BUY", i, qty, price, "REJECTED"))
  BY <1>1, <1>2 DEF FillBuy, Recorded, With, Made
<1>. QED
  BY <1>3, <1>4, WithOrder

\* _fill_sell
LEMMA SellFilled ==
  ASSUME NEW acc \in Account, NEW id \in Ids, NEW i \in Instruments,
         NEW qty \in Nat \ {0}, NEW price \in Nat \ {0}, qty <= acc.held[i]
  PROVE  /\ FillSell(acc, id, i, qty, price) \in Account
         /\ FillSell(acc, id, i, qty, price).orders =
              [acc.orders EXCEPT ![id] = Made("SELL", i, qty, price, "FILLED")]
         /\ FillSell(acc, id, i, qty, price).cash = acc.cash + Proceeds(qty, price)
         /\ FillSell(acc, id, i, qty, price).held = [acc.held EXCEPT ![i] = @ - qty]
<1>1. acc.cash \in Nat /\ acc.held \in [Instruments -> Nat]
  BY DEF Account
<1>2. /\ Gross(qty, price) \in Int /\ Commission(qty, price) \in Int
      /\ Proceeds(qty, price) \in Nat
      /\ Proceeds(qty, price) = Gross(qty, price) - Commission(qty, price)
  BY Amounts100, AccountAssumption DEF Gross, Commission
<1> DEFINE rec == With(acc, id, Made("SELL", i, qty, price, "FILLED"))
           held == [acc.held EXCEPT ![i] = @ - qty]
           cash == acc.cash + Proceeds(qty, price)
           new == [rec EXCEPT !.cash = cash, !.held = held]
<1>3. Made("SELL", i, qty, price, "FILLED") \in Order
  BY DEF Made, Order
<1>4. rec \in Account /\ rec.cash = acc.cash /\ rec.held = acc.held
      /\ rec.orders = [acc.orders EXCEPT ![id] = Made("SELL", i, qty, price, "FILLED")]
  BY <1>3, WithOrder
<1> HIDE DEF rec
<1>5. held \in [Instruments -> Nat] /\ cash \in Nat
  BY <1>1, <1>2
<1>6. FillSell(acc, id, i, qty, price) = new
  BY <1>1, <1>2, <1>4 DEF FillSell, rec, Recorded, With, Made
<1> HIDE DEF held, cash
<1>7. new \in Account /\ new.cash = cash /\ new.held = held /\ new.orders = rec.orders
  BY <1>4, <1>5 DEF Account
<1>. QED
  BY <1>4, <1>6, <1>7 DEF held, cash

LEMMA SellRejected ==
  ASSUME NEW acc \in Account, NEW id \in Ids, NEW i \in Instruments,
         NEW qty \in Nat \ {0}, NEW price \in Nat \ {0}, ~(qty <= acc.held[i])
  PROVE  /\ FillSell(acc, id, i, qty, price) \in Account
         /\ FillSell(acc, id, i, qty, price).orders =
              [acc.orders EXCEPT ![id] = Made("SELL", i, qty, price, "REJECTED")]
         /\ FillSell(acc, id, i, qty, price).cash = acc.cash
         /\ FillSell(acc, id, i, qty, price).held = acc.held
<1>1. acc.cash \in Nat /\ acc.held \in [Instruments -> Nat]
  BY DEF Account
<1>2. /\ Proceeds(qty, price) \in Nat
      /\ Proceeds(qty, price) = Gross(qty, price) - Commission(qty, price)
  BY Amounts100
<1>3. Made("SELL", i, qty, price, "REJECTED") \in Order
  BY DEF Made, Order
<1>4. FillSell(acc, id, i, qty, price) = With(acc, id, Made("SELL", i, qty, price, "REJECTED"))
  BY <1>1, <1>2 DEF FillSell, Recorded, With, Made
<1>. QED
  BY <1>3, <1>4, WithOrder

LEMMA AccountTypes ==
  ASSUME NEW acc \in Account
  PROVE  /\ acc.cash \in Nat /\ acc.held \in [Instruments -> Nat]
         /\ acc.orders \in [Ids -> Order \cup {NoOrder}]
         /\ \A i \in Instruments : acc.held[i] \in Nat
BY DEF Account

\* The ids of a set are placed, and no others.
OnlyPlaced(acc, new, ids) == \A id \in Ids : Known(new, id) <=> Known(acc, id) \/ id \in ids

\* One position is enlarged, or opened, by an order that fills.
BoughtOne(acc, new, id, i, price, qty) ==
  /\ new \in Account /\ qty \in Nat \ {0}
  /\ OnlyPlaced(acc, new, {id})
  /\ new.orders = [acc.orders EXCEPT ![id] = Made("BUY", i, qty, price, "FILLED")]
  /\ new.held = [acc.held EXCEPT ![i] = @ + qty]
  /\ new.cash = acc.cash - Cost(qty, price)

LEMMA MadeIsAnOrder ==
  ASSUME NEW i \in Instruments, NEW qty \in Nat \ {0}, NEW price \in Nat \ {0},
         NEW side \in {"BUY", "SELL"}, NEW status \in {"FILLED", "REJECTED"}
  PROVE  /\ Made(side, i, qty, price, status) \in Order
         /\ Made(side, i, qty, price, status) # NoOrder
         /\ Made(side, i, qty, price, status).status = status
         /\ Made(side, i, qty, price, status).qty = qty
         /\ Made(side, i, qty, price, status).price = price
BY DEF Made, Order, NoOrder

\* submit_buy of a new order that the cash can pay: filled, or not placed at all.
LEMMA BuyOutcome ==
  ASSUME NEW acc \in Account, NEW r, NEW id \in Ids, NEW i \in Instruments, NEW equity,
         NEW price \in Nat \ {0}, NEW qty \in Nat, ~Known(acc, id), Cost(qty, price) <= acc.cash,
         NEW new, new = SubmitBuy(acc, r, id, i, equity, price, qty)
  PROVE  \/ ~r.kill /\ BoughtOne(acc, new, id, i, price, qty) /\ Submitted(acc, new, id)
         \/ new = acc /\ ~Submitted(acc, new, id)
<1>1. CASE Approved(r, equity, OpenCount(acc)) /\ qty > 0
  <2>1. qty \in Nat \ {0}
    BY <1>1
  <2>2. new = FillBuy(acc, id, i, qty, price)
    BY <1>1 DEF SubmitBuy
  <2>3. /\ new \in Account
        /\ new.orders = [acc.orders EXCEPT ![id] = Made("BUY", i, qty, price, "FILLED")]
        /\ new.cash = acc.cash - Cost(qty, price)
        /\ new.held = [acc.held EXCEPT ![i] = @ + qty]
    BY <2>1, <2>2, BuyFilled
  <2>4. PICK order \in Order : /\ order = Made("BUY", i, qty, price, "FILLED")
                               /\ order # NoOrder /\ order.status = "FILLED"
    BY <2>1, MadeIsAnOrder
  <2>5. \A x \in Ids : new.orders[x] = IF x = id THEN order ELSE acc.orders[x]
    BY <2>3, <2>4, AccountTypes
  <2>6. OnlyPlaced(acc, new, {id})
    BY <2>4, <2>5 DEF OnlyPlaced, Known
  <2>7. Submitted(acc, new, id)
    BY <2>4, <2>5 DEF Submitted, Known
  <2>. QED
    BY <1>1, <2>1, <2>3, <2>6, <2>7 DEF BoughtOne, Approved
<1>2. CASE ~(Approved(r, equity, OpenCount(acc)) /\ qty > 0)
  <2>1. new = acc
    BY <1>2 DEF SubmitBuy
  <2>. QED
    BY <2>1 DEF Submitted
<1>. QED
  BY <1>1, <1>2

-----------------------------------------------------------------------------
(* Sizes *)

LEMMA SmallestOf ==
  ASSUME NEW S, \E x \in S : \A y \in S : x <= y
  PROVE  Smallest(S) \in S /\ \A y \in S : Smallest(S) <= y
BY DEF Smallest

\* The size by weight leaves room for the commission, and for the limit.
LEMMA WeightFits ==
  ASSUME NEW cash \in Nat, NEW price \in Nat \ {0}
  PROVE  LET qty == SizedByWeight(cash, price)
         IN /\ qty \in Nat
            /\ Cost(qty, price) <= cash
            /\ 100 * qty * price <= SinglePct * Capital
<1> DEFINE byWeight == (SinglePct * Capital) \div (100 * price)
           byLimit == DeployedLimit \div price
           byCash == cash \div ((100 + CommissionPct) * price)
           qty == SizedByWeight(cash, price)
<1>1. SinglePct * Capital \in Nat /\ DeployedLimit \in Nat /\ 100 + CommissionPct \in Nat \ {0}
  BY AccountAssumption, LimitsAssumption
<1>2. 100 * price \in Nat \ {0} /\ (100 + CommissionPct) * price \in Nat \ {0}
  BY <1>1
<1>3. byWeight \in Nat /\ byLimit \in Nat /\ byCash \in Nat
  BY <1>1, <1>2
<1>4. qty = Smallest({byWeight, byLimit, byCash})
  BY DEF SizedByWeight
<1> HIDE DEF qty
<1>5. qty \in Nat /\ qty <= byWeight /\ qty <= byCash
  <2> HIDE DEF byWeight, byLimit, byCash
  <2>1. \E x \in {byWeight, byLimit, byCash} : \A y \in {byWeight, byLimit, byCash} : x <= y
    BY <1>3
  <2>. QED
    BY <1>3, <1>4, <2>1, SmallestOf
<1>6. qty * (100 * price) <= SinglePct * Capital
  <2>1. qty \in 0 .. byWeight
    BY <1>3, <1>5
  <2>. QED
    BY <1>1, <1>2, <2>1, DivTimes
<1>7. qty * ((100 + CommissionPct) * price) <= cash
  <2>1. qty \in 0 .. byCash
    BY <1>3, <1>5
  <2>. QED
    BY <1>1, <1>2, <2>1, DivTimes
<1>8. /\ qty * (100 * price) = 100 * qty * price
      /\ qty * ((100 + CommissionPct) * price) = (100 + CommissionPct) * qty * price
  BY <1>1, <1>5
<1>. QED
  BY <1>5, <1>6, <1>7, <1>8 DEF qty, Cost

\* A smaller order costs no more.
LEMMA CostGrows ==
  ASSUME NEW qty \in Nat, NEW most \in Nat, NEW price \in Nat, qty <= most
  PROVE  /\ Cost(qty, price) \in Nat /\ Cost(most, price) \in Nat
         /\ Cost(qty, price) <= Cost(most, price)
         /\ 100 * qty * price <= 100 * most * price
<1>1. PICK a \in Nat, b \in Nat : a = qty * price /\ b = most * price
  OBVIOUS
<1>2. a <= b
  BY <1>1, Times
<1>3. ASSUME NEW k \in Nat
      PROVE  k * qty * price \in Nat /\ k * most * price \in Nat /\ k * qty * price <= k * most * price
  <2>1. k * qty * price = k * a /\ k * most * price = k * b
    BY <1>1
  <2>2. k * a <= k * b /\ k * a \in Nat /\ k * b \in Nat
    <3>1. a * k <= b * k
      BY <1>2, Times
    <3>. QED
      BY <3>1
  <2>. QED
    BY <2>1, <2>2
<1>4. 100 + CommissionPct \in Nat /\ 100 \in Nat
  BY AccountAssumption
<1>. QED
  BY <1>3, <1>4 DEF Cost

\* The size with a stop is no larger.
LEMMA SizedAtFits ==
  ASSUME NEW cash \in Nat, NEW price \in Nat \ {0}, NEW of \in Nat \ {0}, NEW all \in Nat
  PROVE  LET qty == SizedAt(cash, price, of, all)
         IN /\ qty \in Nat
            /\ Cost(qty, price) <= cash
            /\ 100 * qty * price <= SinglePct * Capital
<1> DEFINE byRisk == (all * RiskPerTrade) \div (of * price)
           most == SizedByWeight(cash, price)
           qty == SizedAt(cash, price, of, all)
<1>1. byRisk \in Nat
  <2>1. all * RiskPerTrade \in Nat /\ of * price \in Nat \ {0}
    BY LimitsAssumption
  <2>. QED
    BY <2>1
<1>2. most \in Nat /\ Cost(most, price) <= cash /\ 100 * most * price <= SinglePct * Capital
  BY WeightFits
<1>3. qty = Smallest({byRisk, most})
  BY DEF SizedAt
<1> HIDE DEF byRisk, most, qty
<1>4. qty \in Nat /\ qty <= most
  <2>1. \E x \in {byRisk, most} : \A y \in {byRisk, most} : x <= y
    BY <1>1, <1>2
  <2>. QED
    BY <1>1, <1>2, <1>3, <2>1, SmallestOf
<1>5. /\ Cost(qty, price) \in Nat /\ Cost(most, price) \in Nat
      /\ Cost(qty, price) <= Cost(most, price)
      /\ 100 * qty * price <= 100 * most * price
  BY <1>2, <1>4, CostGrows
<1>6. /\ 100 * qty * price \in Int /\ 100 * most * price \in Int /\ SinglePct * Capital \in Int
  BY <1>2, <1>4, AccountAssumption, LimitsAssumption
<1>. QED
  BY <1>2, <1>4, <1>5, <1>6 DEF qty

LEMMA SizedFits ==
  ASSUME NEW cash \in Nat, NEW price \in Nat \ {0}, NEW stopPct \in Nat \ {0}
  PROVE  LET qty == Sized(cash, price, stopPct)
         IN /\ qty \in Nat
            /\ Cost(qty, price) <= cash
            /\ 100 * qty * price <= SinglePct * Capital
BY SizedAtFits DEF Sized

-----------------------------------------------------------------------------
(* The engine's record *)

LEMMA MonthType == ASSUME NEW d \in Nat \ {0} PROVE MonthOf(d) \in Nat \ {0}
BY CalendarAssumption DEF MonthOf

\* A later day is in the same month or a later one.
LEMMA MonthMonotone ==
  ASSUME NEW c \in Nat \ {0}, NEW d \in Nat \ {0}, c <= d
  PROVE  MonthOf(c) <= MonthOf(d)
<1>1. c - 1 \in Nat /\ d - 1 \in Nat /\ c - 1 <= d - 1
  OBVIOUS
<1>2. (c - 1) \div DaysPerMonth <= (d - 1) \div DaysPerMonth
  BY <1>1, DivMonotone, CalendarAssumption
<1>3. (c - 1) \div DaysPerMonth \in Int /\ (d - 1) \div DaysPerMonth \in Int
  BY CalendarAssumption
<1>. QED
  BY <1>2, <1>3 DEF MonthOf

\* A record with a wider peak breaches whenever a lower high does.
LEMMA BreachGrows ==
  ASSUME NEW low \in Int, NEW high \in Int, NEW equity \in Int, low <= high, Breached(low, equity)
  PROVE  Breached(high, equity)
<1>1. DrawdownPct \in 1 .. 100
  BY LimitsAssumption
<1>2. low > 0 /\ 100 * (low - equity) >= DrawdownPct * low
  BY DEF Breached
<1>3. 100 - DrawdownPct \in Nat /\ high - low \in Nat /\ high > 0
  BY <1>1, <1>2
<1>4. (100 - DrawdownPct) * (high - low) >= 0
  <2>1. \A a, b \in Nat : a * b >= 0
    OBVIOUS
  <2>. QED
    BY <1>3, <2>1
<1>5. (100 - DrawdownPct) * (high - low) = 100 * high - 100 * low - DrawdownPct * high + DrawdownPct * low
  BY <1>1
<1>6. PICK p \in Int, q \in Int : p = DrawdownPct * high /\ q = DrawdownPct * low
  BY <1>1
<1>7. 100 * (high - equity) >= p
  BY <1>2, <1>4, <1>5, <1>6
<1>. QED
  BY <1>3, <1>6, <1>7 DEF Breached

LEMMA MarkedRecord ==
  ASSUME NEW r \in Risk, NEW equity \in Int, NEW d \in Nat \ {0}
  PROVE  LET m == Marked(r, equity, d)
         IN /\ m \in Risk
            /\ m.peak = IF equity > r.peak THEN equity ELSE r.peak
            /\ m.current = equity /\ m.day = d /\ m.month = MonthOf(d)
            /\ m.dayStart = IF r.day = d THEN r.dayStart ELSE equity
            /\ m.monthStart = IF r.month = MonthOf(d) THEN r.monthStart ELSE equity
            /\ m.kill = (r.kill \/ Breached(m.peak, equity))
<1> DEFINE peak == IF equity > r.peak THEN equity ELSE r.peak
           kill == r.kill \/ Breached(peak, equity)
           dayStart == IF r.day = d THEN r.dayStart ELSE equity
           monthStart == IF r.month = MonthOf(d) THEN r.monthStart ELSE equity
<1>1. peak \in Int /\ dayStart \in Int /\ monthStart \in Int /\ MonthOf(d) \in Nat
  BY MonthType DEF Risk
<1>2. kill \in BOOLEAN
  <2>1. r.kill \in BOOLEAN
    BY DEF Risk
  <2> HIDE DEF peak
  <2>. QED
    BY <2>1, Zenon DEF Breached
<1>3. Marked(r, equity, d) =
        [peak |-> peak, current |-> equity, day |-> d, month |-> MonthOf(d),
         dayStart |-> dayStart, monthStart |-> monthStart, kill |-> kill]
  BY DEF Marked
<1>4. kill = (r.kill \/ Breached(peak, equity))
  OBVIOUS
<1> HIDE DEF kill, dayStart, monthStart, peak
<1>5. Marked(r, equity, d) \in Risk
  BY <1>1, <1>2, <1>3 DEF Risk
<1>6. /\ Marked(r, equity, d).peak = peak
      /\ Marked(r, equity, d).current = equity
      /\ Marked(r, equity, d).day = d
      /\ Marked(r, equity, d).month = MonthOf(d)
      /\ Marked(r, equity, d).dayStart = dayStart
      /\ Marked(r, equity, d).monthStart = monthStart
      /\ Marked(r, equity, d).kill = kill
  BY <1>3
<1>. QED
  BY <1>4, <1>5, <1>6 DEF dayStart, monthStart, peak

LEMMA ResetRecord ==
  ASSUME NEW r \in Risk
  PROVE  /\ Reset(r) \in Risk
         /\ Reset(r).peak = IF r.day = 0 THEN r.peak ELSE r.current
         /\ Reset(r).kill = FALSE
         /\ Reset(r).current = r.current /\ Reset(r).day = r.day /\ Reset(r).month = r.month
         /\ Reset(r).dayStart = r.dayStart /\ Reset(r).monthStart = r.monthStart
BY DEF Reset, Risk

-----------------------------------------------------------------------------
(* Selling several positions *)

SellOne(order, i, acc) == SubmitSell(acc, order.risk, order.id[i], i, acc.held[i], order.price[i])

\* The equation of the loop over the subsets of S.
Sells(order, base, S, iter) ==
  iter = [s \in SUBSET S |-> IF s = {} THEN base
                             ELSE LET x == CHOOSE y \in s : TRUE IN SellOne(order, x, iter[s \ {x}])]

LEMMA SellsAgree ==
  ASSUME NEW order, NEW base, NEW S, NEW T, NEW a, NEW b, Sells(order, base, S, a), Sells(order, base, T, b),
         NEW V, V \subseteq S \cap T, IsFiniteSet(V)
  PROVE  a[V] = b[V]
<1> DEFINE F == {U \in SUBSET V : a[U] # b[U]}
<1> SUFFICES ASSUME F # {} PROVE FALSE
  OBVIOUS
<1>1. PICK U \in F : \A W \in SUBSET U : W # U => W \notin F
  <2>1. F \subseteq SUBSET V
    OBVIOUS
  <2> HIDE DEF F
  <2>. QED
    BY <2>1, LeastSubset
<1> DEFINE x == CHOOSE y \in U : TRUE
<1>2. a[U] = IF U = {} THEN base ELSE SellOne(order, x, a[U \ {x}])
  BY DEF Sells
<1>3. b[U] = IF U = {} THEN base ELSE SellOne(order, x, b[U \ {x}])
  BY DEF Sells
<1>4. CASE U = {}
  BY <1>2, <1>3, <1>4
<1>5. CASE U # {}
  <2>1. x \in U
    BY <1>5
  <2> HIDE DEF x
  <2>2. a[U \ {x}] = b[U \ {x}]
    BY <1>1, <2>1
  <2>. QED
    BY <1>2, <1>3, <1>5, <2>2
<1>. QED
  BY <1>4, <1>5

\* Over a finite set there is a solution.
LEMMA SellsExist ==
  ASSUME NEW order, NEW base, NEW S, IsFiniteSet(S)
  PROVE  \E iter : Sells(order, base, S, iter)
<1> DEFINE F == {T \in SUBSET S : ~\E iter : Sells(order, base, T, iter)}
<1> SUFFICES ASSUME F # {} PROVE FALSE
  OBVIOUS
<1>1. PICK T \in F : \A U \in SUBSET T : U # T => U \notin F
  <2>1. F \subseteq SUBSET S
    OBVIOUS
  <2> HIDE DEF F
  <2>. QED
    BY <2>1, LeastSubset
<1> DEFINE K(V) == CHOOSE iter : Sells(order, base, V, iter)
           first(U) == CHOOSE y \in U : TRUE
           g == [U \in SUBSET T |->
                   IF U = {} THEN base ELSE SellOne(order, first(U), K(U \ {first(U)})[U \ {first(U)}])]
<1>2. ASSUME NEW V \in SUBSET T, V # T PROVE Sells(order, base, V, K(V))
  <2>1. \E iter : Sells(order, base, V, iter)
    BY <1>1, <1>2
  <2>. QED
    BY <2>1
<1>3. ASSUME NEW U \in SUBSET T, U # {} PROVE first(U) \in U
  BY <1>3
<1>4. ASSUME NEW V \in SUBSET T, V # T PROVE K(V)[V] = g[V]
  <2>1. Sells(order, base, V, K(V))
    BY <1>2, <1>4
  <2>2. K(V)[V] = IF V = {} THEN base ELSE SellOne(order, first(V), K(V)[V \ {first(V)}])
    <3> HIDE DEF K
    <3>. QED
      BY <2>1 DEF Sells
  <2>3. CASE V = {}
    BY <2>2, <2>3
  <2>4. CASE V # {}
    <3> DEFINE W == V \ {first(V)}
    <3>1. W \in SUBSET T /\ W # T /\ W \subseteq V \cap W
      BY <1>3, <2>4
    <3>2. Sells(order, base, W, K(W))
      BY <1>2, <3>1
    <3>3. IsFiniteSet(W)
      BY <3>1, FS_Subset
    <3>4. K(V)[W] = K(W)[W]
      <4> HIDE DEF K, W
      <4>. QED
        BY <2>1, <3>1, <3>2, <3>3, SellsAgree
    <3>5. g[V] = SellOne(order, first(V), K(W)[W])
      BY <2>4
    <3>. QED
      BY <2>2, <2>4, <3>4, <3>5
  <2>. QED
    BY <2>3, <2>4
<1>5. \A U \in SUBSET T : U # {} => K(U \ {first(U)})[U \ {first(U)}] = g[U \ {first(U)}]
  <2>1. ASSUME NEW U \in SUBSET T, U # {}
        PROVE  U \ {first(U)} \in SUBSET T /\ U \ {first(U)} # T
    BY <1>3, <2>1
  <2>. QED
    BY <1>4, <2>1
<1>6. g = [U \in SUBSET T |-> IF U = {} THEN base ELSE SellOne(order, first(U), g[U \ {first(U)}])]
  <2>1. g = [U \in SUBSET T |->
                   IF U = {} THEN base ELSE SellOne(order, first(U), K(U \ {first(U)})[U \ {first(U)}])]
    OBVIOUS
  <2> HIDE DEF g, K, first
  <2>2. \A U \in SUBSET T :
           (IF U = {} THEN base ELSE SellOne(order, first(U), K(U \ {first(U)})[U \ {first(U)}]))
             = (IF U = {} THEN base ELSE SellOne(order, first(U), g[U \ {first(U)}]))
    BY <1>5
  <2>. QED
    BY <2>1, <2>2
<1>7. Sells(order, base, T, g)
  <2> HIDE DEF g
  <2>. QED
    BY <1>6 DEF Sells
<1>. QED
  BY <1>1, <1>7

LEMMA SellEachIsSells ==
  ASSUME NEW acc, NEW risk, NEW exits, IsFiniteSet(exits), NEW id, NEW price
  PROVE  \E iter : /\ Sells([risk |-> risk, id |-> id, price |-> price], acc, exits, iter)
                   /\ SellEach(acc, risk, exits, id, price) = iter[exits]
<1> DEFINE order == [risk |-> risk, id |-> id, price |-> price]
<1>1. \E iter : Sells(order, acc, exits, iter)
  <2> HIDE DEF order
  <2>. QED
    BY SellsExist
<1>2. SellEach(acc, risk, exits, id, price) = (CHOOSE iter : Sells(order, acc, exits, iter))[exits]
  BY DEF SellEach, FoldSet, MapThenFoldSet, Sells, SellOne
<1>. QED
  BY <1>1, <1>2

\* What the loop did with the positions of a set U.
SoldAll(acc, new, U, id, price) ==
  /\ new \in Account
  /\ \A i \in Instruments : new.held[i] = IF i \in U THEN 0 ELSE acc.held[i]
  /\ \A i \in U : new.orders[id[i]] = Made("SELL", i, acc.held[i], price[i], "FILLED")
  /\ \A x \in Ids : (\A i \in U : id[i] # x) => new.orders[x] = acc.orders[x]
  /\ new.cash = acc.cash + SumFunctionOnSet([i \in U |-> Proceeds(acc.held[i], price[i])], U)

\* The orders a loop can place: new ids of its own for each position.
Sellable(acc, exits, id, price) ==
  /\ \A i \in exits : /\ id[i] \in Ids /\ ~Known(acc, id[i])
                       /\ acc.held[i] > 0 /\ price[i] \in Nat \ {0}
  /\ \A i, j \in exits : i # j => id[i] # id[j]

LEMMA SoldOneMore ==
  ASSUME NEW acc \in Account, NEW risk, NEW U \in SUBSET Instruments, NEW id, NEW price,
         Sellable(acc, U, id, price), NEW x \in U, NEW old,
         SoldAll(acc, old, U \ {x}, id, price)
  PROVE  SoldAll(acc, SubmitSell(old, risk, id[x], x, old.held[x], price[x]), U, id, price)
<1> DEFINE V == U \ {x}
           qty == acc.held[x]
           new == SubmitSell(old, risk, id[x], x, old.held[x], price[x])
           amount == [i \in U |-> Proceeds(acc.held[i], price[i])]
           less == [i \in V |-> Proceeds(acc.held[i], price[i])]
<1>1. /\ old \in Account /\ old.held[x] = qty /\ x \in Instruments /\ id[x] \in Ids
      /\ acc.held \in [Instruments -> Nat] /\ qty \in Nat \ {0} /\ price[x] \in Nat \ {0}
      /\ old.held \in [Instruments -> Nat] /\ old.orders \in [Ids -> Order \cup {NoOrder}]
      /\ old.cash \in Nat
  <2>1. acc.held \in [Instruments -> Nat]
    BY DEF Account
  <2>2. old \in Account /\ old.held[x] = acc.held[x]
    BY DEF SoldAll
  <2>. QED
    BY <2>1, <2>2 DEF Sellable, Account
<1>2. ~Known(old, id[x])
  <2>1. \A i \in V : id[i] # id[x]
    BY DEF Sellable
  <2>2. old.orders[id[x]] = acc.orders[id[x]]
    BY <1>1, <2>1 DEF SoldAll
  <2>. QED
    BY <2>2 DEF Known, Sellable
<1>3. new = FillSell(old, id[x], x, qty, price[x])
  BY <1>1, <1>2 DEF SubmitSell
<1>4. /\ new \in Account
      /\ new.orders = [old.orders EXCEPT ![id[x]] = Made("SELL", x, qty, price[x], "FILLED")]
      /\ new.cash = old.cash + Proceeds(qty, price[x])
      /\ new.held = [old.held EXCEPT ![x] = @ - qty]
  <2> HIDE DEF qty, new
  <2>1. qty <= old.held[x]
    BY <1>1
  <2>2. PICK p \in Nat \ {0}, o \in Ids : p = price[x] /\ o = id[x]
    BY <1>1
  <2>. QED
    BY <1>1, <1>3, <2>1, <2>2, SellFilled
<1> HIDE DEF new
<1>5. \A i \in Instruments : new.held[i] = IF i \in U THEN 0 ELSE acc.held[i]
  <2>1. \A i \in Instruments : old.held[i] = IF i \in V THEN 0 ELSE acc.held[i]
    BY DEF SoldAll
  <2>. QED
    BY <1>1, <1>4, <2>1
<1>6. \A i \in U : new.orders[id[i]] = Made("SELL", i, acc.held[i], price[i], "FILLED")
  <2>1. \A i \in V : old.orders[id[i]] = Made("SELL", i, acc.held[i], price[i], "FILLED")
    BY DEF SoldAll
  <2>2. \A i \in V : id[i] \in Ids /\ id[i] # id[x]
    BY DEF Sellable
  <2>. QED
    BY <1>1, <1>4, <2>1, <2>2
<1>7. \A y \in Ids : (\A i \in U : id[i] # y) => new.orders[y] = acc.orders[y]
  <2>1. \A y \in Ids : (\A i \in V : id[i] # y) => old.orders[y] = acc.orders[y]
    BY DEF SoldAll
  <2>. QED
    BY <1>1, <1>4, <2>1
<1>8. new.cash = acc.cash + SumFunctionOnSet(amount, U)
  <2>1. old.cash = acc.cash + SumFunctionOnSet(less, V)
    BY DEF SoldAll
  <2>2. ASSUME NEW i \in U PROVE amount[i] \in Nat
    <3>1. acc.held[i] \in Nat \ {0} /\ price[i] \in Nat \ {0}
      BY <1>1 DEF Sellable
    <3>2. Proceeds(acc.held[i], price[i]) \in Nat
      BY <3>1, Amounts100
    <3>. QED
      BY <3>2
  <2>3. IsFiniteSet(U) /\ IsFiniteSet(V)
    BY FS_Subset, HoldingsAssumption
  <2>4. amount[x] = Proceeds(qty, price[x]) /\ \A i \in V : less[i] = amount[i]
    OBVIOUS
  <2> HIDE DEF amount, less, V
  <2>5. SumFunctionOnSet(amount, U) = amount[x] + SumFunctionOnSet(amount, V)
    BY <2>2, <2>3, SumRemove DEF V
  <2>6. SumFunctionOnSet(less, V) = SumFunctionOnSet(amount, V)
    BY <2>3, <2>4, SumAgree
  <2>7. SumFunctionOnSet(amount, V) \in Int /\ amount[x] \in Int /\ acc.cash \in Int
    <3>1. \A i \in V : amount[i] \in Int
      BY <2>2 DEF V
    <3>. QED
      BY <2>2, <2>3, <3>1, SumInt DEF Account
  <2>. QED
    BY <1>4, <2>1, <2>4, <2>5, <2>6, <2>7
<1>. QED
  BY <1>4, <1>5, <1>6, <1>7, <1>8 DEF SoldAll, new

LEMMA SoldEach ==
  ASSUME NEW acc \in Account, NEW risk, NEW exits \in SUBSET Instruments, NEW id, NEW price,
         Sellable(acc, exits, id, price)
  PROVE  SoldAll(acc, SellEach(acc, risk, exits, id, price), exits, id, price)
<1> DEFINE order == [risk |-> risk, id |-> id, price |-> price]
<1>1. IsFiniteSet(exits)
  BY FS_Subset, HoldingsAssumption
<1>2. PICK iter : Sells(order, acc, exits, iter) /\ SellEach(acc, risk, exits, id, price) = iter[exits]
  BY <1>1, SellEachIsSells
<1> DEFINE F == {U \in SUBSET exits : ~SoldAll(acc, iter[U], U, id, price)}
<1>3. SUFFICES ASSUME F # {} PROVE FALSE
  BY <1>2
<1>4. PICK U \in F : \A W \in SUBSET U : W # U => W \notin F
  <2>1. F \subseteq SUBSET exits
    OBVIOUS
  <2> HIDE DEF F
  <2>. QED
    BY <1>1, <1>3, <2>1, LeastSubset
<1> DEFINE x == CHOOSE y \in U : TRUE
<1>5. iter[U] = IF U = {} THEN acc ELSE SellOne(order, x, iter[U \ {x}])
  BY <1>2 DEF Sells
<1>6. CASE U = {}
  <2>1. iter[U] = acc
    BY <1>5, <1>6
  <2>2. SumFunctionOnSet([i \in U |-> Proceeds(acc.held[i], price[i])], U) = 0
    BY <1>6, SumEmpty
  <2>3. acc.cash \in Nat
    BY DEF Account
  <2>4. SoldAll(acc, acc, U, id, price)
    BY <1>6, <2>2, <2>3 DEF SoldAll
  <2>. QED
    BY <2>1, <2>4
<1>7. CASE U # {}
  <2>1. x \in U /\ U \in SUBSET Instruments
    BY <1>7
  <2>2. iter[U] = SubmitSell(iter[U \ {x}], risk, id[x], x, iter[U \ {x}].held[x], price[x])
    BY <1>5, <1>7 DEF SellOne
  <2> HIDE DEF x
  <2>3. SoldAll(acc, iter[U \ {x}], U \ {x}, id, price)
    BY <1>4, <2>1
  <2>4. Sellable(acc, U, id, price)
    BY DEF Sellable
  <2>5. SoldAll(acc, iter[U], U, id, price)
    <3>1. PICK old : old = iter[U \ {x}]
      OBVIOUS
    <3>2. SoldAll(acc, old, U \ {x}, id, price)
      BY <2>3, <3>1
    <3>3. SoldAll(acc, SubmitSell(old, risk, id[x], x, old.held[x], price[x]), U, id, price)
      BY <2>1, <2>4, <3>2, SoldOneMore
    <3>. QED
      BY <2>2, <3>1, <3>3
  <2>. QED
    BY <2>5
<1>. QED
  BY <1>6, <1>7

SoldIds(acc, new, exits, id) ==
  \A x \in Ids : Known(new, x) <=> Known(acc, x) \/ \E i \in exits : x = id[i]

\* The orders of the loop are placed, and no others.
LEMMA SoldPlaces ==
  ASSUME NEW acc \in Account, NEW exits \in SUBSET Instruments, NEW id, NEW price,
         Sellable(acc, exits, id, price), NEW new, SoldAll(acc, new, exits, id, price)
  PROVE  SoldIds(acc, new, exits, id)
<1>1. ASSUME NEW i \in exits PROVE Known(new, id[i])
  <2>1. new.orders[id[i]] = Made("SELL", i, acc.held[i], price[i], "FILLED")
    BY DEF SoldAll
  <2>2. i \in Instruments /\ acc.held[i] \in Nat \ {0} /\ price[i] \in Nat \ {0}
    BY AccountTypes DEF Sellable
  <2>3. Made("SELL", i, acc.held[i], price[i], "FILLED") # NoOrder
    BY <2>2, MadeIsAnOrder
  <2>. QED
    BY <2>1, <2>3 DEF Known
<1>2. \A x \in Ids : (\A i \in exits : id[i] # x) => new.orders[x] = acc.orders[x]
  BY DEF SoldAll
<1>. QED
  BY <1>1, <1>2 DEF Known, SoldIds
=============================================================================
