------------------------------- MODULE Sums -------------------------------
EXTENDS Integers, FiniteSets, Functions, FiniteSetTheorems, WellFoundedInduction, TLAPS

(***************************************************************************)
(* Facts about the community operator SumFunctionOnSet(f, S), the sum of   *)
(* f[x] over the finite set S.  The ledger's invariants are sums over      *)
(* budgets, transactions and transfers; the Python code computes them with *)
(* aggregate queries (verify_balances.py), so the proofs need to know how  *)
(* a sum changes when one row does.                                        *)
(*                                                                         *)
(* The sum is defined by CHOOSE-ing a recursive function (MapThenFoldSet). *)
(* SumUnfold, IterUnique and IterExists open that definition once; nothing *)
(* outside this module depends on it.                                      *)
(***************************************************************************)

\* Induction on the subsets of a finite set: a family that contains every
\* set all of whose proper subsets it contains, contains every subset.
LEMMA SubsetInduction ==
  ASSUME NEW S, IsFiniteSet(S), NEW Good,
         \A T \in SUBSET S :
            (\A U \in SUBSET T : U # T => U \in Good) => T \in Good
  PROVE  \A T \in SUBSET S : T \in Good
<1> DEFINE Bad == {T \in SUBSET S : T \notin Good}
<1> SUFFICES ASSUME Bad # {} PROVE FALSE
    OBVIOUS
<1>1. Bad \subseteq FiniteSubsetsOf(S)
  BY FS_Subset DEF FiniteSubsetsOf
<1>2. PICK T \in Bad : \A U \in Bad : ~(<<U, T>> \in StrictSubsetOrdering(S))
  <2> HIDE DEF Bad
  <2> QED
  BY <1>1, FS_StrictSubsetOrderingWellFounded, WFMin
<1>3. \A U \in SUBSET T : U # T => U \in Good
  BY <1>2 DEF StrictSubsetOrdering
<1> QED
  BY <1>2, <1>3

\* g is the recursive function by which the sum of f over S is defined.
Iter(f, S, g) ==
  g = [s \in SUBSET S |->
         IF s = {} THEN 0
         ELSE LET x == CHOOSE x \in s : TRUE IN f[x] + g[s \ {x}]]

\* The community sum is the value at S of the chosen recursive function.
LEMMA SumUnfold ==
  ASSUME NEW f, NEW S
  PROVE  SumFunctionOnSet(f, S) = (CHOOSE g : Iter(f, S, g))[S]
BY DEF SumFunctionOnSet, FoldFunctionOnSet, MapThenFoldSet, Iter

\* The element the fold takes first.
Pick(s) == CHOOSE x \in s : TRUE

\* The recursive functions chosen for two sets agree on what they share.
LEMMA IterUnique ==
  ASSUME NEW f, NEW A, NEW B, NEW g, NEW h, IsFiniteSet(A),
         Iter(f, A, g), Iter(f, B, h)
  PROVE  \A T \in SUBSET (A \cap B) : g[T] = h[T]
<1> DEFINE Good == {T \in SUBSET (A \cap B) : g[T] = h[T]}
<1>1. IsFiniteSet(A \cap B)
  BY FS_Intersection
<1>2. ASSUME NEW T \in SUBSET (A \cap B),
             \A U \in SUBSET T : U # T => U \in Good
      PROVE  T \in Good
  <2>1. CASE T = {}
    BY <2>1 DEF Iter
  <2>2. CASE T # {}
    <3> DEFINE x == Pick(T)
    <3>1. x \in T
      BY <2>2 DEF Pick
    <3>2. g[T \ {x}] = h[T \ {x}]
      BY <3>1, <1>2
    <3>3. g[T] = f[x] + g[T \ {x}] /\ h[T] = f[x] + h[T \ {x}]
      BY <2>2 DEF Iter, Pick
    <3> QED BY <3>2, <3>3
  <2> QED BY <2>1, <2>2
<1> HIDE DEF Good
<1>3. \A T \in SUBSET (A \cap B) : T \in Good
  BY <1>1, <1>2, SubsetInduction
<1> QED BY <1>3 DEF Good

\* Every finite set has such a recursive function.
LEMMA IterExists ==
  ASSUME NEW f, NEW S, IsFiniteSet(S)
  PROVE  \E g : Iter(f, S, g)
<1> DEFINE Good == {T \in SUBSET S : \E g : Iter(f, T, g)}
           G(T) == CHOOSE g : Iter(f, T, g)
<1>1. ASSUME NEW T \in SUBSET S,
             \A U \in SUBSET T : U # T => U \in Good
      PROVE  T \in Good
  <2>1. \A U \in SUBSET T : U # T => Iter(f, U, G(U))
    BY <1>1
  <2> HIDE DEF G
  <2>2. ASSUME NEW U \in SUBSET T, U # T, U # {}
        PROVE  G(U)[U] = f[Pick(U)] + G(U \ {Pick(U)})[U \ {Pick(U)}]
    <3> DEFINE x == Pick(U)
               V == U \ {x}
    <3>1. x \in U
      BY <2>2 DEF Pick
    <3>2. Iter(f, U, G(U)) /\ Iter(f, V, G(V))
      BY <2>1, <2>2, <3>1
    <3>3. G(U)[U] = f[x] + G(U)[V]
      BY <3>2, <2>2 DEF Iter, Pick
    <3>4. IsFiniteSet(U)
      BY FS_Subset
    <3>5. V \in SUBSET (U \cap V)
      OBVIOUS
    <3>6. G(U)[V] = G(V)[V]
      <4> HIDE DEF V
      <4> QED BY <3>2, <3>4, <3>5, IterUnique
    <3> QED BY <3>3, <3>6
  <2>3. ASSUME {} # T PROVE G({})[{}] = 0
    BY <2>1, <2>3 DEF Iter
  <2> DEFINE top == IF T = {} THEN 0 ELSE f[Pick(T)] + G(T \ {Pick(T)})[T \ {Pick(T)}]
             g == [U \in SUBSET T |-> IF U = T THEN top ELSE G(U)[U]]
  <2>4. ASSUME NEW U \in SUBSET T
        PROVE  g[U] = IF U = {} THEN 0 ELSE f[Pick(U)] + g[U \ {Pick(U)}]
    <3>1. CASE U = {}
      BY <2>3, <3>1
    <3>2. CASE U # {}
      <4>1. Pick(U) \in U
        BY <3>2 DEF Pick
      <4>2. U \ {Pick(U)} # T /\ U \ {Pick(U)} \in SUBSET T
        BY <4>1
      <4>3. CASE U = T
        BY <4>2, <4>3, <3>2
      <4>4. CASE U # T
        BY <4>2, <4>4, <3>2, <2>2
      <4> QED BY <4>3, <4>4
    <3> QED BY <3>1, <3>2
  <2>5. Iter(f, T, g)
    <3> DEFINE rhs == [s \in SUBSET T |->
                         IF s = {} THEN 0 ELSE LET x == CHOOSE x \in s : TRUE IN f[x] + g[s \ {x}]]
    <3>1. \A U \in SUBSET T : g[U] = rhs[U]
      <4> HIDE DEF g
      <4> QED BY <2>4 DEF Pick
    <3>2. g = [U \in SUBSET T |-> g[U]]
      OBVIOUS
    <3>3. rhs = [U \in SUBSET T |-> rhs[U]]
      OBVIOUS
    <3> HIDE DEF g, rhs
    <3>4. g = rhs
      BY <3>1, <3>2, <3>3
    <3> QED BY <3>4 DEF Iter, rhs
  <2> QED BY <2>5
<1> HIDE DEF Good
<1>2. \A T \in SUBSET S : T \in Good
  BY <1>1, SubsetInduction
<1> QED BY <1>2 DEF Good

\* The sum over no rows is zero.
LEMMA SumEmpty ==
  ASSUME NEW f
  PROVE  SumFunctionOnSet(f, {}) = 0
<1>1. IsFiniteSet({})
  BY FS_EmptySet
<1>2. PICK g : Iter(f, {}, g)
  BY <1>1, IterExists
<1>3. Iter(f, {}, CHOOSE h : Iter(f, {}, h))
  BY <1>2
<1> DEFINE G == CHOOSE h : Iter(f, {}, h)
<1>4. G[{}] = 0
  <2> HIDE DEF G
  <2>1. Iter(f, {}, G)
    BY <1>3 DEF G
  <2> QED BY <2>1 DEF Iter
<1> QED BY <1>4, SumUnfold

\* The sum is the picked row's value plus the sum of the others.
LEMMA SumPick ==
  ASSUME NEW f, NEW S, IsFiniteSet(S), S # {}
  PROVE  SumFunctionOnSet(f, S)
           = f[Pick(S)] + SumFunctionOnSet(f, S \ {Pick(S)})
<1> DEFINE V == S \ {Pick(S)}
           G == CHOOSE h : Iter(f, S, h)
           H == CHOOSE h : Iter(f, V, h)
<1>1. Pick(S) \in S
  BY DEF Pick
<1>2. IsFiniteSet(V)
  BY FS_RemoveElement
<1>3. Iter(f, S, G)
  BY IterExists
<1>4. Iter(f, V, H)
  BY <1>2, IterExists
<1> HIDE DEF G, H
<1>5. G[S] = f[Pick(S)] + G[V]
  BY <1>3 DEF Iter, Pick
<1>6. V \in SUBSET (S \cap V)
  OBVIOUS
<1>7. G[V] = H[V]
  <2> HIDE DEF V
  <2> QED BY <1>3, <1>4, <1>6, IterUnique
<1>8. SumFunctionOnSet(f, S) = G[S] /\ SumFunctionOnSet(f, V) = H[V]
  BY SumUnfold DEF G, H
<1> QED BY <1>5, <1>7, <1>8

\* A finite sum of integers is an integer.
LEMMA SumInt ==
  ASSUME NEW S, IsFiniteSet(S), NEW f, \A x \in S : f[x] \in Int
  PROVE  SumFunctionOnSet(f, S) \in Int
<1> DEFINE Good == {T \in SUBSET S : SumFunctionOnSet(f, T) \in Int}
<1>1. ASSUME NEW T \in SUBSET S,
             \A U \in SUBSET T : U # T => U \in Good
      PROVE  T \in Good
  <2>1. CASE T = {}
    BY <2>1, SumEmpty
  <2>2. CASE T # {}
    <3>1. Pick(T) \in T
      BY <2>2 DEF Pick
    <3>2. IsFiniteSet(T)
      BY FS_Subset
    <3>3. SumFunctionOnSet(f, T) = f[Pick(T)] + SumFunctionOnSet(f, T \ {Pick(T)})
      BY <2>2, <3>2, SumPick
    <3>4. SumFunctionOnSet(f, T \ {Pick(T)}) \in Int
      BY <1>1, <3>1
    <3>5. f[Pick(T)] \in Int
      BY <3>1
    <3> QED BY <3>3, <3>4, <3>5
  <2> QED BY <2>1, <2>2
<1> HIDE DEF Good
<1>2. \A T \in SUBSET S : T \in Good
  BY <1>1, SubsetInduction
<1> QED BY <1>2 DEF Good

\* Of naturals, one.
LEMMA SumNat ==
  ASSUME NEW S, IsFiniteSet(S), NEW f, \A x \in S : f[x] \in Nat
  PROVE  SumFunctionOnSet(f, S) \in Nat
<1> DEFINE Good == {T \in SUBSET S : SumFunctionOnSet(f, T) \in Nat}
<1>1. ASSUME NEW T \in SUBSET S,
             \A U \in SUBSET T : U # T => U \in Good
      PROVE  T \in Good
  <2>1. CASE T = {}
    BY <2>1, SumEmpty
  <2>2. CASE T # {}
    <3>1. Pick(T) \in T
      BY <2>2 DEF Pick
    <3>2. IsFiniteSet(T)
      BY FS_Subset
    <3>3. SumFunctionOnSet(f, T) = f[Pick(T)] + SumFunctionOnSet(f, T \ {Pick(T)})
      BY <2>2, <3>2, SumPick
    <3>4. SumFunctionOnSet(f, T \ {Pick(T)}) \in Nat
      BY <1>1, <3>1
    <3>5. f[Pick(T)] \in Nat
      BY <3>1
    <3> QED BY <3>3, <3>4, <3>5
  <2> QED BY <2>1, <2>2
<1> HIDE DEF Good
<1>2. \A T \in SUBSET S : T \in Good
  BY <1>1, SubsetInduction
<1> QED BY <1>2 DEF Good

\* Any row, not just the picked one, can be taken out of a sum.
LEMMA SumRemove ==
  ASSUME NEW S, IsFiniteSet(S), NEW f, \A x \in S : f[x] \in Int, NEW y \in S
  PROVE  SumFunctionOnSet(f, S) = f[y] + SumFunctionOnSet(f, S \ {y})
<1> DEFINE Good == {T \in SUBSET S :
                      \A z \in T : SumFunctionOnSet(f, T)
                                     = f[z] + SumFunctionOnSet(f, T \ {z})}
<1>1. ASSUME NEW T \in SUBSET S,
             \A U \in SUBSET T : U # T => U \in Good
      PROVE  T \in Good
  <2> SUFFICES ASSUME NEW z \in T
               PROVE  SumFunctionOnSet(f, T) = f[z] + SumFunctionOnSet(f, T \ {z})
      OBVIOUS
  <2> DEFINE p == Pick(T)
  <2>1. p \in T
    BY DEF Pick
  <2>2. IsFiniteSet(T)
    BY FS_Subset
  <2>3. SumFunctionOnSet(f, T) = f[p] + SumFunctionOnSet(f, T \ {p})
    BY <2>2, SumPick
  <2> HIDE DEF p
  <2>4. CASE z = p
    BY <2>3, <2>4
  <2>5. CASE z # p
    <3>1. SumFunctionOnSet(f, T \ {p}) = f[z] + SumFunctionOnSet(f, (T \ {p}) \ {z})
      BY <2>1, <2>5, <1>1
    <3>2. SumFunctionOnSet(f, T \ {z}) = f[p] + SumFunctionOnSet(f, (T \ {z}) \ {p})
      BY <2>1, <2>5, <1>1
    <3>3. SumFunctionOnSet(f, (T \ {z}) \ {p}) = SumFunctionOnSet(f, (T \ {p}) \ {z})
      <4>1. (T \ {p}) \ {z} = (T \ {z}) \ {p}
        OBVIOUS
      <4> QED BY <4>1
    <3>4. SumFunctionOnSet(f, (T \ {p}) \ {z}) \in Int
      <4>1. IsFiniteSet((T \ {p}) \ {z})
        BY <2>2, FS_RemoveElement
      <4> QED BY <4>1, SumInt
    <3>5. f[p] \in Int /\ f[z] \in Int
      BY <2>1
    <3>6. SumFunctionOnSet(f, T \ {z}) = f[p] + SumFunctionOnSet(f, (T \ {p}) \ {z})
      BY <3>2, <3>3
    <3>7. \A a, b, c, d, e \in Int : a = b + c /\ c = d + e => a = d + (b + e)
      OBVIOUS
    <3> QED BY <2>3, <3>1, <3>4, <3>5, <3>6, <3>7
  <2> QED BY <2>4, <2>5
<1> HIDE DEF Good
<1>2. \A T \in SUBSET S : T \in Good
  BY <1>1, SubsetInduction
<1> QED BY <1>2 DEF Good

\* The sum of a pointwise sum is the sum of the two sums.
LEMMA SumPlus ==
  ASSUME NEW S, IsFiniteSet(S), NEW f, NEW g, NEW h,
         \A x \in S : f[x] \in Int /\ g[x] \in Int /\ h[x] = f[x] + g[x]
  PROVE  SumFunctionOnSet(h, S) = SumFunctionOnSet(f, S) + SumFunctionOnSet(g, S)
<1> DEFINE Good == {T \in SUBSET S :
              SumFunctionOnSet(h, T) = SumFunctionOnSet(f, T) + SumFunctionOnSet(g, T)}
<1>1. ASSUME NEW T \in SUBSET S,
             \A U \in SUBSET T : U # T => U \in Good
      PROVE  T \in Good
  <2>1. CASE T = {}
    BY <2>1, SumEmpty
  <2>2. CASE T # {}
    <3> DEFINE p == Pick(T)
               V == T \ {p}
    <3>1. p \in T
      BY <2>2 DEF Pick
    <3>2. IsFiniteSet(T) /\ IsFiniteSet(V)
      BY FS_Subset
    <3>3. /\ SumFunctionOnSet(f, T) = f[p] + SumFunctionOnSet(f, V)
          /\ SumFunctionOnSet(g, T) = g[p] + SumFunctionOnSet(g, V)
          /\ SumFunctionOnSet(h, T) = h[p] + SumFunctionOnSet(h, V)
      BY <2>2, <3>2, SumPick
    <3>4. SumFunctionOnSet(h, V) = SumFunctionOnSet(f, V) + SumFunctionOnSet(g, V)
      BY <1>1, <3>1
    <3>5. SumFunctionOnSet(f, V) \in Int /\ SumFunctionOnSet(g, V) \in Int
      BY <3>2, SumInt
    <3>6. f[p] \in Int /\ g[p] \in Int /\ h[p] = f[p] + g[p]
      BY <3>1
    <3> HIDE DEF p, V
    <3>7. \A a, b, c, d \in Int : (a + b) + (c + d) = (a + c) + (b + d)
      OBVIOUS
    <3>8. SumFunctionOnSet(h, T) = SumFunctionOnSet(f, T) + SumFunctionOnSet(g, T)
      BY <3>3, <3>4, <3>5, <3>6, <3>7
    <3> QED BY <3>8
  <2> QED BY <2>1, <2>2
<1> HIDE DEF Good
<1>2. \A T \in SUBSET S : T \in Good
  BY <1>1, SubsetInduction
<1> QED BY <1>2 DEF Good

\* Functions that agree on the set have the same sum.
LEMMA SumEqual ==
  ASSUME NEW S, IsFiniteSet(S), NEW f, NEW g, \A x \in S : g[x] = f[x]
  PROVE  SumFunctionOnSet(g, S) = SumFunctionOnSet(f, S)
<1> DEFINE Good == {T \in SUBSET S : SumFunctionOnSet(g, T) = SumFunctionOnSet(f, T)}
<1>1. ASSUME NEW T \in SUBSET S,
             \A U \in SUBSET T : U # T => U \in Good
      PROVE  T \in Good
  <2>1. CASE T = {}
    BY <2>1, SumEmpty
  <2>2. CASE T # {}
    <3> DEFINE p == Pick(T)
    <3>1. p \in T
      BY <2>2 DEF Pick
    <3>2. IsFiniteSet(T)
      BY FS_Subset
    <3>3. /\ SumFunctionOnSet(f, T) = f[p] + SumFunctionOnSet(f, T \ {p})
          /\ SumFunctionOnSet(g, T) = g[p] + SumFunctionOnSet(g, T \ {p})
      BY <2>2, <3>2, SumPick
    <3>4. SumFunctionOnSet(g, T \ {p}) = SumFunctionOnSet(f, T \ {p})
      BY <1>1, <3>1
    <3>5. g[p] = f[p]
      BY <3>1
    <3> QED BY <3>3, <3>4, <3>5
  <2> QED BY <2>1, <2>2
<1> HIDE DEF Good
<1>2. \A T \in SUBSET S : T \in Good
  BY <1>1, SubsetInduction
<1> QED BY <1>2 DEF Good

\* A sum of zeros is zero.
LEMMA SumZero ==
  ASSUME NEW S, IsFiniteSet(S), NEW f, \A x \in S : f[x] = 0
  PROVE  SumFunctionOnSet(f, S) = 0
<1>1. SumFunctionOnSet(f, S) = SumFunctionOnSet(f, S) + SumFunctionOnSet(f, S)
  BY SumPlus
<1>2. SumFunctionOnSet(f, S) \in Int
  BY SumInt
<1>3. \A a \in Int : a = a + a => a = 0
  OBVIOUS
<1> QED BY <1>1, <1>2, <1>3

\* The sum of a pointwise difference is the difference of the sums.
LEMMA SumMinus ==
  ASSUME NEW S, IsFiniteSet(S), NEW f, NEW g, NEW h,
         \A x \in S : f[x] \in Int /\ g[x] \in Int /\ h[x] = f[x] - g[x]
  PROVE  SumFunctionOnSet(h, S) = SumFunctionOnSet(f, S) - SumFunctionOnSet(g, S)
<1>1. \A x \in S : h[x] \in Int /\ g[x] \in Int /\ f[x] = h[x] + g[x]
  OBVIOUS
<1>2. SumFunctionOnSet(f, S) = SumFunctionOnSet(h, S) + SumFunctionOnSet(g, S)
  BY <1>1, SumPlus
<1>3. SumFunctionOnSet(h, S) \in Int /\ SumFunctionOnSet(g, S) \in Int
  BY <1>1, SumInt
<1>4. \A a, b, c \in Int : c = a + b => a = c - b
  OBVIOUS
<1>5. SumFunctionOnSet(f, S) \in Int
  BY SumInt
<1> QED BY <1>2, <1>3, <1>4, <1>5

\* Changing one row changes the sum by that row's change: what saving one
\* allocation, one transaction or one transfer does to a total.
LEMMA SumChangeOne ==
  ASSUME NEW S, IsFiniteSet(S), NEW f, NEW g, NEW y \in S,
         \A x \in S : f[x] \in Int, g[y] \in Int,
         \A x \in S \ {y} : g[x] = f[x]
  PROVE  SumFunctionOnSet(g, S) = SumFunctionOnSet(f, S) + (g[y] - f[y])
<1>1. \A x \in S : g[x] \in Int
  OBVIOUS
<1>2. SumFunctionOnSet(f, S) = f[y] + SumFunctionOnSet(f, S \ {y})
  BY SumRemove
<1>3. SumFunctionOnSet(g, S) = g[y] + SumFunctionOnSet(g, S \ {y})
  BY <1>1, SumRemove
<1>4. IsFiniteSet(S \ {y})
  BY FS_RemoveElement
<1>5. SumFunctionOnSet(g, S \ {y}) = SumFunctionOnSet(f, S \ {y})
  BY <1>4, SumEqual
<1>6. SumFunctionOnSet(f, S \ {y}) \in Int
  BY <1>4, SumInt
<1>7. \A a, b, c \in Int : a + b = (c + b) + (a - c)
  OBVIOUS
<1> QED BY <1>2, <1>3, <1>5, <1>6, <1>7

\* A sum with at most one non-zero row is that row.
LEMMA SumSingle ==
  ASSUME NEW S, IsFiniteSet(S), NEW f, NEW y \in S, f[y] \in Int,
         \A x \in S \ {y} : f[x] = 0
  PROVE  SumFunctionOnSet(f, S) = f[y]
<1>1. \A x \in S : f[x] \in Int
  OBVIOUS
<1>2. SumFunctionOnSet(f, S) = f[y] + SumFunctionOnSet(f, S \ {y})
  BY <1>1, SumRemove
<1>3. SumFunctionOnSet(f, S \ {y}) = 0
  <2>1. IsFiniteSet(S \ {y})
    BY FS_RemoveElement
  <2> QED BY <2>1, SumZero
<1> QED BY <1>2, <1>3

\* F is a table of integers with rows A and columns B, G is F with rows and
\* columns exchanged, and r holds the sums of the rows.
IntTable(F, A, B) == \A a \in A, b \in B : F[a][b] \in Int
Transposed(F, G, A, B) == \A b \in B, a \in A : G[b][a] = F[a][b]
RowSums(r, F, A, B) == \A a \in A : r[a] = SumFunctionOnSet(F[a], B)

\* Exchanging the order of a double sum: summing the allocations per
\* transaction and then over transactions gives what summing them per budget
\* and then over budgets gives.
LEMMA SumSwap ==
  ASSUME NEW A, IsFiniteSet(A), NEW B, IsFiniteSet(B), NEW F, NEW G, NEW rows, NEW cols,
         IntTable(F, A, B), Transposed(F, G, A, B),
         RowSums(rows, F, A, B), RowSums(cols, G, B, A)
  PROVE  SumFunctionOnSet(rows, A) = SumFunctionOnSet(cols, B)
<1> USE DEF IntTable, Transposed, RowSums
<1> DEFINE col(b) == [a \in A |-> F[a][b]]
           sub(T) == [b \in B |-> SumFunctionOnSet(col(b), T)]
           Good == {T \in SUBSET A : SumFunctionOnSet(rows, T) = SumFunctionOnSet(sub(T), B)}
<1>0. \A b \in B : \A a \in A : col(b)[a] = F[a][b] /\ F[a][b] \in Int
  OBVIOUS
<1>1. ASSUME NEW T \in SUBSET A,
             \A U \in SUBSET T : U # T => U \in Good
      PROVE  T \in Good
  <2>1. CASE T = {}
    <3>1. \A b \in B : sub({})[b] = 0
      BY SumEmpty
    <3>2. SumFunctionOnSet(sub({}), B) = 0
      <4> HIDE DEF sub
      <4> QED BY <3>1, SumZero
    <3>3. SumFunctionOnSet(rows, {}) = 0
      BY SumEmpty
    <3> QED BY <2>1, <3>2, <3>3
  <2>2. CASE T # {}
    <3> DEFINE p == Pick(T)
               V == T \ {p}
    <3>1. p \in T
      BY <2>2 DEF Pick
    <3>2. IsFiniteSet(T) /\ IsFiniteSet(V)
      BY FS_Subset
    <3>3. SumFunctionOnSet(rows, T) = rows[p] + SumFunctionOnSet(rows, V)
      BY <2>2, <3>2, SumPick
    <3>4. SumFunctionOnSet(rows, V) = SumFunctionOnSet(sub(V), B)
      BY <1>1, <3>1
    <3>5. rows[p] = SumFunctionOnSet(F[p], B)
      BY <3>1
    <3>6. ASSUME NEW b \in B
          PROVE  /\ F[p][b] \in Int /\ sub(V)[b] \in Int
                 /\ sub(T)[b] = F[p][b] + sub(V)[b]
      <4>1. SumFunctionOnSet(col(b), T) = col(b)[p] + SumFunctionOnSet(col(b), V)
        <5> HIDE DEF col
        <5> QED BY <2>2, <3>2, SumPick
      <4>2. SumFunctionOnSet(col(b), V) \in Int
        <5>1. \A a \in V : col(b)[a] \in Int
          BY <1>0
        <5> HIDE DEF col, V
        <5> QED BY <3>2, <5>1, SumInt
      <4>3. sub(V)[b] = SumFunctionOnSet(col(b), V) /\ sub(T)[b] = SumFunctionOnSet(col(b), T)
        OBVIOUS
      <4>4. F[p][b] \in Int /\ col(b)[p] = F[p][b]
        BY <3>1, <1>0
      <4> HIDE DEF sub, col, V, p
      <4> QED BY <4>1, <4>2, <4>3, <4>4
    <3> HIDE DEF sub, V, p
    <3>7. SumFunctionOnSet(sub(T), B) = SumFunctionOnSet(F[p], B) + SumFunctionOnSet(sub(V), B)
      BY <3>6, SumPlus
    <3>8. SumFunctionOnSet(rows, T) = SumFunctionOnSet(sub(T), B)
      BY <3>3, <3>4, <3>5, <3>7
    <3> QED BY <3>8
  <2> QED BY <2>1, <2>2
<1>2. \A T \in SUBSET A : T \in Good
  <2> HIDE DEF Good
  <2> QED BY <1>1, SubsetInduction
<1>3. SumFunctionOnSet(rows, A) = SumFunctionOnSet(sub(A), B)
  BY <1>2
<1>4. SumFunctionOnSet(sub(A), B) = SumFunctionOnSet(cols, B)
  <2>1. ASSUME NEW b \in B
        PROVE  sub(A)[b] = cols[b]
    <3>1. \A a \in A : col(b)[a] = G[b][a]
      OBVIOUS
    <3>2. sub(A)[b] = SumFunctionOnSet(col(b), A)
      OBVIOUS
    <3> HIDE DEF col, sub
    <3> QED BY <3>1, <3>2, SumEqual
  <2> HIDE DEF sub
  <2> QED BY <2>1, SumEqual
<1> QED BY <1>3, <1>4

\* Zeroing the rows outside T sums over T only.
LEMMA SumMask ==
  ASSUME NEW S, IsFiniteSet(S), NEW T \in SUBSET S, NEW f, \A x \in S : f[x] \in Int,
         NEW g, \A x \in S : g[x] = IF x \in T THEN f[x] ELSE 0
  PROVE  SumFunctionOnSet(g, S) = SumFunctionOnSet(f, T)
<1> DEFINE Good == {U \in SUBSET S : SumFunctionOnSet(g, U) = SumFunctionOnSet(f, U \cap T)}
<1>1. ASSUME NEW U \in SUBSET S,
             \A V \in SUBSET U : V # U => V \in Good
      PROVE  U \in Good
  <2>1. CASE U = {}
    <3>1. U \cap T = {}
      BY <2>1
    <3> QED BY <2>1, <3>1, SumEmpty
  <2>2. CASE U # {}
    <3>1. PICK p \in U : TRUE
      BY <2>2
    <3>2. IsFiniteSet(U) /\ IsFiniteSet(U \cap T)
      BY FS_Subset
    <3>3. \A x \in U : g[x] \in Int
      OBVIOUS
    <3>4. SumFunctionOnSet(g, U) = g[p] + SumFunctionOnSet(g, U \ {p})
      BY <3>2, <3>3, SumRemove
    <3>5. SumFunctionOnSet(g, U \ {p}) = SumFunctionOnSet(f, (U \ {p}) \cap T)
      BY <1>1
    <3>6. IsFiniteSet((U \ {p}) \cap T)
      BY <3>2, FS_Subset
    <3>7. SumFunctionOnSet(f, (U \ {p}) \cap T) \in Int
      BY <3>6, SumInt
    <3>8. CASE p \in T
      <4>1. (U \cap T) \ {p} = (U \ {p}) \cap T
        OBVIOUS
      <4>2. SumFunctionOnSet(f, U \cap T) = f[p] + SumFunctionOnSet(f, (U \cap T) \ {p})
        BY <3>2, <3>8, SumRemove
      <4> QED BY <3>4, <3>5, <3>8, <4>1, <4>2
    <3>9. CASE p \notin T
      <4>1. (U \ {p}) \cap T = U \cap T
        BY <3>9
      <4>2. g[p] = 0
        BY <3>9
      <4>3. \A c \in Int : 0 + c = c
        OBVIOUS
      <4> QED BY <3>4, <3>5, <3>7, <4>1, <4>2, <4>3
    <3> QED BY <3>8, <3>9
  <2> QED BY <2>1, <2>2
<1> HIDE DEF Good
<1>2. \A U \in SUBSET S : U \in Good
  BY <1>1, SubsetInduction
<1>3. S \cap T = T
  OBVIOUS
<1> QED BY <1>2, <1>3 DEF Good

\* A sum splits into the sum over a part and the sum over the rest.
LEMMA SumPartition ==
  ASSUME NEW S, IsFiniteSet(S), NEW T \in SUBSET S, NEW f, \A x \in S : f[x] \in Int
  PROVE  SumFunctionOnSet(f, S) = SumFunctionOnSet(f, T) + SumFunctionOnSet(f, S \ T)
<1> DEFINE g == [x \in S |-> IF x \in T THEN f[x] ELSE 0]
           h == [x \in S |-> IF x \in S \ T THEN f[x] ELSE 0]
<1>1. \A x \in S : g[x] = (IF x \in T THEN f[x] ELSE 0)
  OBVIOUS
<1>2. \A x \in S : h[x] = (IF x \in S \ T THEN f[x] ELSE 0)
  OBVIOUS
<1> HIDE DEF g, h
<1>3. \A x \in S : g[x] \in Int /\ h[x] \in Int /\ f[x] = g[x] + h[x]
  BY <1>1, <1>2
<1>4. SumFunctionOnSet(f, S) = SumFunctionOnSet(g, S) + SumFunctionOnSet(h, S)
  BY <1>3, SumPlus
<1>5. SumFunctionOnSet(g, S) = SumFunctionOnSet(f, T)
  BY <1>1, SumMask
<1>6. SumFunctionOnSet(h, S) = SumFunctionOnSet(f, S \ T)
  <2>1. S \ T \in SUBSET S
    OBVIOUS
  <2> QED BY <1>2, <2>1, SumMask
<1> QED BY <1>4, <1>5, <1>6

-----------------------------------------------------------------------------
(* Orders of finite sets.                                                    *)

\* R puts the elements of S in a line.
Lines(R, S) ==
  /\ \A x \in S : <<x, x>> \notin R
  /\ \A x, y \in S : x = y \/ <<x, y>> \in R \/ <<y, x>> \in R
  /\ \A x, y, z \in S : <<x, y>> \in R /\ <<y, z>> \in R => <<x, z>> \in R

LEMMA LinesFirst ==
  ASSUME NEW S, IsFiniteSet(S), NEW R, Lines(R, S)
  PROVE  \A T \in SUBSET S : T # {} => \E x \in T : \A y \in T : y = x \/ <<x, y>> \in R
<1> DEFINE Good == {T \in SUBSET S : T # {} => \E x \in T : \A y \in T : y = x \/ <<x, y>> \in R}
<1>1. ASSUME NEW T \in SUBSET S, \A U \in SUBSET T : U # T => U \in Good
      PROVE  T \in Good
  <2> SUFFICES ASSUME NEW z \in T
               PROVE  \E x \in T : \A y \in T : y = x \/ <<x, y>> \in R
    OBVIOUS
  <2>1. CASE T = {z}
    BY <2>1
  <2>2. CASE T # {z}
    <3>1. T \ {z} \in Good /\ T \ {z} # {}
      BY <1>1, <2>2
    <3>2. PICK x \in T \ {z} : \A y \in T \ {z} : y = x \/ <<x, y>> \in R
      BY <3>1
    <3>3. CASE <<x, z>> \in R
      BY <3>2, <3>3
    <3>4. CASE <<z, x>> \in R
      <4>1. \A y \in T : y = z \/ <<z, y>> \in R
        BY <3>2, <3>4 DEF Lines
      <4> QED BY <4>1
    <3> QED BY <3>2, <3>3, <3>4 DEF Lines
  <2> QED BY <2>1, <2>2
<1> HIDE DEF Good
<1>2. \A T \in SUBSET S : T \in Good
  BY <1>1, SubsetInduction
<1> QED BY <1>2 DEF Good

LEMMA LinesBackwards ==
  ASSUME NEW S, NEW R, Lines(R, S)
  PROVE  Lines({p \in S \X S : <<p[2], p[1]>> \in R}, S)
<1> DEFINE Q == {p \in S \X S : <<p[2], p[1]>> \in R}
<1>1. \A x, y \in S : <<y, x>> \in Q <=> <<x, y>> \in R
  OBVIOUS
<1> HIDE DEF Q
<1>2. Lines(Q, S)
  BY <1>1 DEF Lines
<1> QED BY <1>2 DEF Q

LEMMA LinesLast ==
  ASSUME NEW S, IsFiniteSet(S), NEW R, Lines(R, S)
  PROVE  \A T \in SUBSET S : T # {} => \E x \in T : \A y \in T : y = x \/ <<y, x>> \in R
<1> DEFINE Q == {p \in S \X S : <<p[2], p[1]>> \in R}
<1>1. \A x, y \in S : <<y, x>> \in Q <=> <<x, y>> \in R
  OBVIOUS
<1>2. Lines(Q, S)
  BY LinesBackwards
<1> HIDE DEF Q
<1>3. \A T \in SUBSET S : T # {} => \E x \in T : \A y \in T : y = x \/ <<x, y>> \in Q
  BY <1>2, LinesFirst
<1> QED BY <1>1, <1>3

\* What holds of an element when it holds of those before it, holds of all.
LEMMA LinesInduction ==
  ASSUME NEW S, IsFiniteSet(S), NEW R, Lines(R, S), NEW W \in SUBSET S, NEW Good,
         \A x \in W : (\A y \in W : <<y, x>> \in R => y \in Good) => x \in Good
  PROVE  \A x \in W : x \in Good
<1> DEFINE Bad == {x \in W : x \notin Good}
<1> SUFFICES ASSUME Bad # {} PROVE FALSE
  OBVIOUS
<1>1. PICK x \in Bad : \A y \in Bad : y = x \/ <<x, y>> \in R
  <2>1. Bad \in SUBSET S
    OBVIOUS
  <2>2. \A T \in SUBSET S : T # {} => \E x \in T : \A y \in T : y = x \/ <<x, y>> \in R
    BY LinesFirst
  <2> HIDE DEF Bad
  <2> QED BY <2>1, <2>2
<1>2. ASSUME NEW y \in W, <<y, x>> \in R PROVE y \in Good
  BY <1>1, <1>2 DEF Lines
<1> QED BY <1>1, <1>2

\* A finite set of naturals has no two elements with as many below them.
LEMMA Ranks ==
  ASSUME NEW S \in SUBSET Nat, IsFiniteSet(S), NEW n, n = Cardinality(S), NEW rank,
         rank = [b \in S |-> Cardinality({x \in S : x < b}) + 1]
  PROVE  /\ n \in Nat /\ rank \in [S -> 1..n]
         /\ \A b \in S : Cardinality({x \in S : x < b}) \in Nat
         /\ \A a, b \in S : (a < b => rank[a] < rank[b]) /\ (rank[a] = rank[b] => a = b)
         /\ \A k \in 1..n : \E b \in S : rank[b] = k
<1>1. n \in Nat
  BY FS_CardinalityType
<1>2. ASSUME NEW b \in S
      PROVE  /\ IsFiniteSet({x \in S : x < b}) /\ Cardinality({x \in S : x < b}) \in Nat
             /\ Cardinality({x \in S : x < b}) < n
  <2>1. {x \in S : x < b} \in SUBSET S /\ {x \in S : x < b} # S
    BY <1>1
  <2> QED BY <1>1, <2>1, FS_Subset, FS_CardinalityType
<1>3. ASSUME NEW a \in S, NEW b \in S, a < b
      PROVE  Cardinality({x \in S : x < a}) < Cardinality({x \in S : x < b})
  <2>1. {x \in S : x < a} \in SUBSET {x \in S : x < b}
    <3>1. \A x \in S : x < a => x < b
      BY <1>1, <1>3
    <3> QED BY <3>1
  <2>2. a \in {x \in S : x < b} /\ a \notin {x \in S : x < a}
    BY <1>1, <1>3
  <2>3. {x \in S : x < a} # {x \in S : x < b}
    BY <2>2
  <2>4. Cardinality({x \in S : x < a}) <= Cardinality({x \in S : x < b})
    BY <1>2, <2>1, FS_Subset
  <2>5. Cardinality({x \in S : x < a}) # Cardinality({x \in S : x < b})
    BY <1>2, <2>1, <2>3, FS_Subset
  <2> QED BY <1>2, <2>4, <2>5
<1>4. rank \in Injection(S, 1..n)
  <2>1. rank \in [S -> 1..n]
    BY <1>1, <1>2
  <2>2. ASSUME NEW a \in S, NEW b \in S, rank[a] = rank[b] PROVE a = b
    <3>1. Cardinality({x \in S : x < a}) = Cardinality({x \in S : x < b})
      BY <1>2, <2>2
    <3> QED BY <1>1, <1>2, <1>3, <3>1
  <2> QED BY <2>1, <2>2 DEF Injection, IsInjective
<1>5. rank \in Surjection(S, 1..n)
  <2>1. IsFiniteSet(1..n) /\ Cardinality(1..n) = n
    BY <1>1, FS_Interval
  <2> QED BY <1>4, <2>1, FS_Injection
<1>6. \A k \in 1..n : \E b \in S : rank[b] = k
  BY <1>5 DEF Surjection
<1>7. rank \in [S -> 1..n] /\ \A a, b \in S : rank[a] = rank[b] => a = b
  BY <1>4 DEF Injection, IsInjective
<1>8. \A a, b \in S : a < b => rank[a] < rank[b]
  BY <1>2, <1>3
<1>9. \A b \in S : Cardinality({x \in S : x < b}) \in Nat
  BY <1>2
<1> QED BY <1>1, <1>6, <1>7, <1>8, <1>9

\* Four rows that are four.
LEMMA FourRows ==
  ASSUME NEW w, NEW x, NEW y, NEW z, Cardinality({w, x, y, z}) = 4
  PROVE  w # x /\ w # y /\ w # z /\ x # y /\ x # z /\ y # z
<1>1. ASSUME NEW i, NEW j, NEW k
      PROVE IsFiniteSet({i, j, k}) /\ Cardinality({i, j, k}) <= 3
  <2>1. IsFiniteSet({i}) /\ Cardinality({i}) = 1
    BY FS_Singleton
  <2>2. ASSUME NEW S, NEW e, NEW n \in Nat, IsFiniteSet(S), Cardinality(S) <= n
        PROVE  IsFiniteSet(S \union {e}) /\ Cardinality(S \union {e}) <= n + 1
    <3>1. Cardinality(S) \in Nat
      BY <2>2, FS_CardinalityType
    <3>2. Cardinality(S \union {e}) = IF e \in S THEN Cardinality(S) ELSE Cardinality(S) + 1
      BY <2>2, FS_AddElement
    <3>3. IsFiniteSet(S \union {e})
      BY <2>2, FS_AddElement
    <3> QED BY <2>2, <3>1, <3>2, <3>3
  <2>3. PICK S : S = {i} /\ IsFiniteSet(S) /\ Cardinality(S) <= 1
    BY <2>1
  <2>5. PICK T : T = S \union {j} /\ IsFiniteSet(T) /\ Cardinality(T) <= 2
    <3>1. IsFiniteSet(S \union {j}) /\ Cardinality(S \union {j}) <= 1 + 1
      BY <2>2, <2>3, 1 \in Nat, Zenon
    <3> QED BY <3>1, 1 + 1 = 2
  <2>6. IsFiniteSet(T \union {k}) /\ Cardinality(T \union {k}) <= 3
    <3>1. IsFiniteSet(T \union {k}) /\ Cardinality(T \union {k}) <= 2 + 1
      BY <2>2, <2>5, 2 \in Nat, Zenon
    <3> QED BY <3>1, 2 + 1 = 3
  <2>7. T \union {k} = {i, j, k}
    BY <2>3, <2>5
  <2> QED BY <2>6, <2>7
<1>2. ASSUME NEW i, NEW j, NEW k, {w, x, y, z} = {i, j, k} PROVE FALSE
  <2>1. Cardinality({w, x, y, z}) <= 3
    BY <1>1, <1>2, Zenon
  <2> QED BY <2>1
<1>3. CASE w = x
  BY <1>2, <1>3, {w, x, y, z} = {w, y, z}
<1>4. CASE w = y
  BY <1>2, <1>4, {w, x, y, z} = {w, x, z}
<1>5. CASE w = z
  BY <1>2, <1>5, {w, x, y, z} = {w, x, y}
<1>6. CASE x = y
  BY <1>2, <1>6, {w, x, y, z} = {w, x, z}
<1>7. CASE x = z
  BY <1>2, <1>7, {w, x, y, z} = {w, x, y}
<1>8. CASE y = z
  BY <1>2, <1>8, {w, x, y, z} = {w, x, y}
<1> QED BY <1>3, <1>4, <1>5, <1>6, <1>7, <1>8
=============================================================================
