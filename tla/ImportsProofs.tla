--------------------------- MODULE ImportsProofs ---------------------------
(***************************************************************************)
(* Proofs about Imports, for any kinds of charges, amounts, dates and      *)
(* bounds: the balances and the stored running balances are explained by   *)
(* the rows, a scrape of now leaves what the bank lists, and a posted      *)
(* charge is stored once.                                                  *)
(*                                                                         *)
(* A sync goes through the page in loops, which the model has as recursive *)
(* functions on intervals; the lemmas of the first parts open each of them *)
(* once.                                                                   *)
(***************************************************************************)
EXTENDS Imports, Sums, SequenceTheorems

-----------------------------------------------------------------------------
(* Recursive functions on intervals.                                       *)

\* Induction up to n.
LEMMA IntervalInduction ==
  ASSUME NEW n \in Nat, NEW S, 0 \in S,
         \A i \in 0..n : i < n /\ i \in S => i + 1 \in S
  PROVE  \A i \in 0..n : i \in S
<1> DEFINE Good == {T \in SUBSET (0..n) : \A i \in 0..n : T = 0..i => i \in S}
<1>1. IsFiniteSet(0..n)
  BY FS_Interval
<1>2. ASSUME NEW T \in SUBSET (0..n), \A U \in SUBSET T : U # T => U \in Good
      PROVE  T \in Good
  <2> SUFFICES ASSUME NEW i \in 0..n, T = 0..i, i # 0
               PROVE  i \in S
    OBVIOUS
  <2>1. i - 1 \in 0..n /\ i - 1 < n /\ (i - 1) + 1 = i
    OBVIOUS
  <2>2. 0..(i - 1) \in SUBSET T /\ 0..(i - 1) # T
    <3>1. i \in T /\ i \notin 0..(i - 1)
      OBVIOUS
    <3> QED BY <3>1
  <2>3. i - 1 \in S
    BY <1>2, <2>1, <2>2
  <2> QED BY <2>1, <2>3
<1>3. \A T \in SUBSET (0..n) : T \in Good
  <2> HIDE DEF Good
  <2> QED BY <1>1, <1>2, SubsetInduction
<1> SUFFICES ASSUME NEW i \in 0..n PROVE i \in S
  OBVIOUS
<1>4. 0..i \in SUBSET (0..n)
  OBVIOUS
<1> QED BY <1>3, <1>4

\* f starts from x and goes on with the values of G.
Unrolls(f, n, D, x, G) ==
  f \in [0..n -> D] /\ f[0] = x /\ \A i \in 1..n : f[i] = G[<<f[i - 1], i>>]

LEMMA UnrollsExists ==
  ASSUME NEW n \in Nat, NEW D, NEW x \in D, NEW G \in [D \X (1..n) -> D]
  PROVE  \E f : Unrolls(f, n, D, x, G)
<1> DEFINE Good == {m \in 0..n : \E f : Unrolls(f, m, D, x, G)}
<1>1. 0 \in Good
  <2> DEFINE f == [i \in 0..0 |-> x]
  <2>1. Unrolls(f, 0, D, x, G)
    BY DEF Unrolls
  <2> QED BY <2>1
<1>2. ASSUME NEW m \in 0..n, m < n, m \in Good PROVE m + 1 \in Good
  <2>1. PICK f : Unrolls(f, m, D, x, G)
    BY <1>2
  <2> DEFINE g == [i \in 0..(m + 1) |-> IF i = m + 1 THEN G[<<f[m], m + 1>>] ELSE f[i]]
  <2>2. f \in [0..m -> D] /\ f[0] = x /\ \A i \in 1..m : f[i] = G[<<f[i - 1], i>>]
    BY <2>1 DEF Unrolls
  <2>3. f[m] \in D /\ m + 1 \in 1..n
    BY <1>2, <2>2
  <2>4. G[<<f[m], m + 1>>] \in D
    BY <2>3
  <2>5. g \in [0..(m + 1) -> D] /\ g[0] = x
    BY <2>2, <2>4
  <2>6. ASSUME NEW i \in 1..(m + 1) PROVE g[i] = G[<<g[i - 1], i>>]
    <3>1. CASE i = m + 1
      <4>1. i - 1 = m /\ g[i - 1] = f[m] /\ g[i] = G[<<f[m], m + 1>>]
        BY <3>1
      <4> QED BY <3>1, <4>1
    <3>2. CASE i # m + 1
      <4>1. i \in 1..m /\ i - 1 \in 0..m /\ g[i - 1] = f[i - 1] /\ g[i] = f[i]
        BY <3>2
      <4> QED BY <2>2, <4>1
    <3> QED BY <3>1, <3>2
  <2> HIDE DEF g
  <2>7. Unrolls(g, m + 1, D, x, G)
    BY <2>5, <2>6 DEF Unrolls
  <2>8. m + 1 \in 0..n
    BY <1>2
  <2> QED BY <2>7, <2>8
<1>3. \A m \in 0..n : m \in Good
  <2> HIDE DEF Good
  <2> QED BY <1>1, <1>2, IntervalInduction
<1> QED BY <1>3

-----------------------------------------------------------------------------
(* Rows and sums of their amounts.                                         *)

TxRow == [kind : Kinds, pending : BOOLEAN, cut : BOOLEAN]
PostedRow == {r \in TxRow : ~r.pending}
PendingRow == {r \in TxRow : r.pending}

LEMMA NewRow ==
  ASSUME NEW k \in Kinds, NEW isPending \in BOOLEAN, NEW isCut \in BOOLEAN
  PROVE  /\ New(k, isPending, isCut) \in TxRow
         /\ New(k, isPending, isCut).kind = k
         /\ New(k, isPending, isCut).pending = isPending
         /\ New(k, isPending, isCut).cut = isCut
BY DEF New, TxRow

LEMMA AmountInt ==
  ASSUME NEW r \in TxRow
  PROVE  AmountOf(r) \in Int
BY AmountAssumption DEF AmountOf, TxRow

\* The recursive function by which a sum is defined.
SumSteps(s, I, f) ==
  f = [i \in 0..Len(s) |->
         IF i = 0 THEN 0 ELSE f[i - 1] + IF i \in I THEN AmountOf(s[i]) ELSE 0]

LEMMA SumOfUnfold ==
  ASSUME NEW s, NEW I
  PROVE  SumOf(s, I) = (CHOOSE f : SumSteps(s, I, f))[Len(s)]
BY DEF SumOf, SumSteps

LEMMA SumOfSteps ==
  ASSUME NEW s \in Seq(TxRow), NEW I
  PROVE  \E f \in [0..Len(s) -> Int] :
           /\ f[0] = 0
           /\ \A i \in 1..Len(s) :
                f[i] = f[i - 1] + IF i \in I THEN AmountOf(s[i]) ELSE 0
           /\ f[Len(s)] = SumOf(s, I)
<1> DEFINE n == Len(s)
           G == [q \in Int \X (1..n) |-> q[1] + IF q[2] \in I THEN AmountOf(s[q[2]]) ELSE 0]
<1>1. n \in Nat /\ \A i \in 1..n : s[i] \in TxRow
  BY LenProperties, ElementOfSeq
<1>2. \A i \in 1..n : AmountOf(s[i]) \in Int
  BY <1>1, AmountInt
<1>3. G \in [Int \X (1..n) -> Int]
  BY <1>2
<1>4. PICK f : Unrolls(f, n, Int, 0, G)
  <2>1. 0 \in Int
    OBVIOUS
  <2> HIDE DEF n, G
  <2> QED BY <1>1, <1>3, <2>1, UnrollsExists
<1>5. f \in [0..n -> Int] /\ f[0] = 0 /\ \A i \in 1..n : f[i] = G[<<f[i - 1], i>>]
  BY <1>4 DEF Unrolls
<1>6. ASSUME NEW i \in 1..n
      PROVE  f[i] = f[i - 1] + IF i \in I THEN AmountOf(s[i]) ELSE 0
  <2>1. i - 1 \in 0..n
    BY <1>1
  <2>2. f[i - 1] \in Int
    BY <1>5, <2>1
  <2> QED BY <1>5, <2>2
<1>7. SumSteps(s, I, f)
  <2> HIDE DEF G
  <2>1. \A i \in 0..n : f[i] = IF i = 0 THEN 0
                                ELSE f[i - 1] + IF i \in I THEN AmountOf(s[i]) ELSE 0
    BY <1>1, <1>5, <1>6
  <2>2. f = [i \in 0..n |-> IF i = 0 THEN 0
                             ELSE f[i - 1] + IF i \in I THEN AmountOf(s[i]) ELSE 0]
    BY <1>5, <2>1
  <2> QED BY <2>2 DEF SumSteps
<1> DEFINE g == CHOOSE h : SumSteps(s, I, h)
<1>8. SumSteps(s, I, g)
  BY <1>7
<1>9. SumOf(s, I) = g[n]
  BY SumOfUnfold
<1> HIDE DEF g, G
<1>10. \A i \in 0..n : g[i] = IF i = 0 THEN 0
                               ELSE g[i - 1] + IF i \in I THEN AmountOf(s[i]) ELSE 0
  BY <1>8 DEF SumSteps
<1> DEFINE Good == {i \in 0..n : g[i] = f[i]}
<1>11. 0 \in Good
  BY <1>1, <1>5, <1>10
<1>12. ASSUME NEW i \in 0..n, i < n, i \in Good PROVE i + 1 \in Good
  <2>1. i + 1 \in 1..n /\ (i + 1) - 1 = i /\ i + 1 # 0 /\ i + 1 \in 0..n
    BY <1>1, <1>12
  <2>2. g[i + 1] = g[i] + IF i + 1 \in I THEN AmountOf(s[i + 1]) ELSE 0
    BY <1>10, <2>1
  <2>3. f[i + 1] = f[i] + IF i + 1 \in I THEN AmountOf(s[i + 1]) ELSE 0
    BY <1>6, <2>1
  <2>4. g[i] = f[i]
    BY <1>12
  <2> QED BY <2>1, <2>2, <2>3, <2>4
<1>13. \A i \in 0..n : i \in Good
  <2> HIDE DEF Good
  <2> QED BY <1>1, <1>11, <1>12, IntervalInduction
<1>14. g[n] = f[n]
  BY <1>1, <1>13
<1> QED BY <1>5, <1>6, <1>9, <1>14

\* It is the sum of a function on a set.
Amounts(s) == [i \in DOMAIN s |-> AmountOf(s[i])]

LEMMA SumOfIsSum ==
  ASSUME NEW s \in Seq(TxRow), NEW I \in SUBSET DOMAIN s
  PROVE  /\ IsFiniteSet(I) /\ \A i \in I : Amounts(s)[i] \in Int
         /\ SumOf(s, I) = SumFunctionOnSet(Amounts(s), I)
         /\ SumOf(s, I) \in Int
<1> DEFINE n == Len(s)
           A == Amounts(s)
<1>1. n \in Nat /\ DOMAIN s = 1..n /\ \A i \in 1..n : s[i] \in TxRow
  BY LenProperties, ElementOfSeq
<1>2. A = [i \in 1..n |-> AmountOf(s[i])] /\ \A i \in 1..n : A[i] \in Int
  BY <1>1, AmountInt DEF Amounts
<1>3. IsFiniteSet(1..n)
  BY <1>1, FS_Interval
<1>4. ASSUME NEW J \in SUBSET (1..n) PROVE IsFiniteSet(J) /\ \A i \in J : A[i] \in Int
  BY <1>2, <1>3, FS_Subset
<1>5. PICK f \in [0..n -> Int] :
        /\ f[0] = 0
        /\ \A i \in 1..n : f[i] = f[i - 1] + IF i \in I THEN AmountOf(s[i]) ELSE 0
        /\ f[n] = SumOf(s, I)
  BY SumOfSteps
<1> HIDE DEF A, n
<1> DEFINE Good == {i \in 0..n : f[i] = SumFunctionOnSet(A, I \cap (1..i))}
<1>6. 0 \in Good
  <2>1. I \cap (1..0) = {}
    OBVIOUS
  <2>2. SumFunctionOnSet(A, {}) = 0
    BY SumEmpty
  <2> QED BY <1>1, <1>5, <2>1, <2>2
<1>7. ASSUME NEW i \in 0..n, i < n, i \in Good PROVE i + 1 \in Good
  <2>1. i + 1 \in 1..n /\ (i + 1) - 1 = i
    BY <1>1, <1>7
  <2>2. f[i + 1] = f[i] + IF i + 1 \in I THEN AmountOf(s[i + 1]) ELSE 0
    BY <1>5, <2>1
  <2>3. f[i] = SumFunctionOnSet(A, I \cap (1..i)) /\ f[i] \in Int
    BY <1>5, <1>7
  <2>4. CASE i + 1 \notin I
    <3>1. I \cap (1..(i + 1)) = I \cap (1..i)
      BY <2>4
    <3>2. f[i + 1] = f[i]
      BY <2>2, <2>3, <2>4
    <3>3. i + 1 \in 0..n
      BY <1>1, <2>1
    <3> QED BY <2>3, <3>1, <3>2, <3>3
  <2>5. CASE i + 1 \in I
    <3> DEFINE J == I \cap (1..(i + 1))
    <3>1. J \in SUBSET (1..n) /\ i + 1 \in J /\ J \ {i + 1} = I \cap (1..i)
      BY <1>1, <2>1, <2>5
    <3> HIDE DEF J
    <3>2. SumFunctionOnSet(A, J) = A[i + 1] + SumFunctionOnSet(A, J \ {i + 1})
      BY <1>4, <3>1, SumRemove
    <3>3. A[i + 1] = AmountOf(s[i + 1]) /\ A[i + 1] \in Int
      BY <1>2, <2>1
    <3>4. SumFunctionOnSet(A, J) = A[i + 1] + f[i]
      BY <2>3, <3>1, <3>2
    <3>5. f[i + 1] = f[i] + A[i + 1]
      BY <2>2, <2>5, <3>3
    <3>6. f[i + 1] = SumFunctionOnSet(A, J)
      BY <2>3, <3>3, <3>4, <3>5
    <3>7. i + 1 \in 0..n
      BY <1>1, <2>1
    <3> QED BY <3>6, <3>7 DEF J
  <2> QED BY <2>4, <2>5
<1>8. \A i \in 0..n : i \in Good
  <2> HIDE DEF Good
  <2> QED BY <1>1, <1>6, <1>7, IntervalInduction
<1>9. I \cap (1..n) = I /\ I \in SUBSET (1..n)
  BY <1>1
<1>10. SumOf(s, I) = SumFunctionOnSet(A, I)
  BY <1>1, <1>5, <1>8, <1>9
<1>11. n \in 0..n /\ f[n] \in Int
  BY <1>1, <1>5
<1>12. SumOf(s, I) \in Int
  BY <1>5, <1>11
<1>13. IsFiniteSet(I) /\ \A i \in I : A[i] \in Int
  BY <1>4, <1>9
<1> QED BY <1>10, <1>12, <1>13 DEF A

LEMMA SumOfSplit ==
  ASSUME NEW s \in Seq(TxRow), NEW I \in SUBSET DOMAIN s, NEW J \in SUBSET I
  PROVE  SumOf(s, I) = SumOf(s, J) + SumOf(s, I \ J)
<1>1. J \in SUBSET DOMAIN s /\ I \ J \in SUBSET DOMAIN s
  OBVIOUS
<1>2. /\ SumOf(s, I) = SumFunctionOnSet(Amounts(s), I)
      /\ IsFiniteSet(I) /\ \A i \in I : Amounts(s)[i] \in Int
  BY SumOfIsSum
<1>3. /\ SumOf(s, J) = SumFunctionOnSet(Amounts(s), J)
      /\ SumOf(s, I \ J) = SumFunctionOnSet(Amounts(s), I \ J)
  BY <1>1, SumOfIsSum
<1> QED BY <1>2, <1>3, SumPartition

\* It depends on the rows at these places only.
LEMMA SumOfAgree ==
  ASSUME NEW s \in Seq(TxRow), NEW t \in Seq(TxRow),
         NEW I \in SUBSET DOMAIN s, I \in SUBSET DOMAIN t, \A i \in I : s[i] = t[i]
  PROVE  SumOf(s, I) = SumOf(t, I)
<1>1. /\ SumOf(s, I) = SumFunctionOnSet(Amounts(s), I)
      /\ SumOf(t, I) = SumFunctionOnSet(Amounts(t), I) /\ IsFiniteSet(I)
  BY SumOfIsSum
<1>2. \A i \in I : Amounts(s)[i] = Amounts(t)[i]
  BY DEF Amounts
<1> HIDE DEF Amounts
<1>3. SumFunctionOnSet(Amounts(s), I) = SumFunctionOnSet(Amounts(t), I)
  BY <1>1, <1>2, SumEqual
<1> QED BY <1>1, <1>3

LEMMA SumOfNothing ==
  ASSUME NEW s \in Seq(TxRow)
  PROVE  SumOf(s, {}) = 0
<1>1. {} \in SUBSET DOMAIN s
  OBVIOUS
<1>2. SumOf(s, {}) = SumFunctionOnSet(Amounts(s), {})
  BY <1>1, SumOfIsSum
<1> QED BY <1>2, SumEmpty

\* One sequence of rows goes on from another.
Extends(t, s) == Len(s) <= Len(t) /\ \A i \in 1..Len(s) : t[i] = s[i]

LEMMA TotalExtended ==
  ASSUME NEW s \in Seq(TxRow), NEW t \in Seq(TxRow), Extends(t, s)
  PROVE  /\ Total(t) = Total(s) + SumOf(t, Len(s) + 1 .. Len(t))
         /\ Total(s) \in Int /\ Total(t) \in Int /\ SumOf(t, Len(s) + 1 .. Len(t)) \in Int
<1> DEFINE I == 1..Len(t)
           J == 1..Len(s)
<1>1. /\ Len(s) \in Nat /\ Len(t) \in Nat /\ DOMAIN s = J /\ DOMAIN t = I
      /\ Len(s) <= Len(t) /\ \A i \in J : t[i] = s[i]
  BY LenProperties DEF Extends
<1>2. J \in SUBSET I /\ I \ J = Len(s) + 1 .. Len(t)
  BY <1>1
<1> HIDE DEF I, J
<1>3. SumOf(t, I) = SumOf(t, J) + SumOf(t, I \ J)
  BY <1>1, <1>2, SumOfSplit
<1>4. SumOf(t, J) = SumOf(s, J)
  BY <1>1, <1>2, SumOfAgree
<1>5. SumOf(t, I) \in Int /\ SumOf(t, J) \in Int /\ SumOf(t, I \ J) \in Int
  <2>1. I \in SUBSET DOMAIN t /\ J \in SUBSET DOMAIN t /\ I \ J \in SUBSET DOMAIN t
    BY <1>1, <1>2
  <2> QED BY <2>1, SumOfIsSum
<1>6. Total(s) = SumOf(s, J) /\ Total(t) = SumOf(t, I)
  BY <1>1 DEF Total
<1> QED BY <1>2, <1>3, <1>4, <1>5, <1>6

LEMMA TotalAppend ==
  ASSUME NEW s \in Seq(TxRow), NEW r \in TxRow
  PROVE  Total(Append(s, r)) = Total(s) + AmountOf(r)
<1> DEFINE t == Append(s, r)
           n == Len(s) + 1
<1>1. /\ t \in Seq(TxRow) /\ Len(s) \in Nat /\ Len(t) = n
      /\ (\A i \in 1..Len(s) : t[i] = s[i]) /\ t[n] = r
  BY AppendProperties, LenProperties
<1>2. DOMAIN t = 1..n /\ n \in 1..n /\ n..Len(t) = {n} /\ Len(s) <= Len(t)
  BY <1>1, LenProperties
<1> HIDE DEF t
<1>3. Extends(t, s)
  BY <1>1, <1>2 DEF Extends
<1>4. Total(t) = Total(s) + SumOf(t, {n})
  <2>1. Total(t) = Total(s) + SumOf(t, Len(s) + 1 .. Len(t))
    BY <1>1, <1>3, TotalExtended
  <2> QED BY <1>2, <2>1
<1>5. SumOf(t, {n}) = AmountOf(r)
  <2>1. {n} \in SUBSET DOMAIN t
    BY <1>2
  <2>2. SumOf(t, {n}) = SumFunctionOnSet(Amounts(t), {n}) /\ IsFiniteSet({n})
    BY <1>1, <2>1, SumOfIsSum
  <2>3. Amounts(t)[n] = AmountOf(r) /\ AmountOf(r) \in Int
    BY <1>1, <1>2, AmountInt DEF Amounts
  <2> HIDE DEF n
  <2>4. SumFunctionOnSet(Amounts(t), {n}) = Amounts(t)[n]
    BY <2>2, <2>3, SumSingle
  <2> QED BY <2>2, <2>3, <2>4
<1> QED BY <1>4, <1>5 DEF t

-----------------------------------------------------------------------------
(* How often a sequence has an element of a set.                           *)

Places(s, W) == {i \in DOMAIN s : s[i] \in W}
Times(s, W) == Cardinality(Places(s, W))

LEMMA TimesNat ==
  ASSUME NEW V, NEW s \in Seq(V), NEW W
  PROVE  IsFiniteSet(Places(s, W)) /\ Times(s, W) \in Nat
<1>1. Places(s, W) \in SUBSET (1..Len(s)) /\ Len(s) \in Nat
  BY LenProperties DEF Places
<1>2. IsFiniteSet(1..Len(s))
  BY <1>1, FS_Interval
<1>3. IsFiniteSet(Places(s, W))
  BY <1>1, <1>2, FS_Subset
<1> QED BY <1>3, FS_CardinalityType DEF Times

LEMMA TimesEmpty ==
  ASSUME NEW W
  PROVE  Times(<<>>, W) = 0
<1>1. Places(<<>>, W) = {}
  BY DEF Places
<1> QED BY <1>1, FS_EmptySet DEF Times

LEMMA TimesAppend ==
  ASSUME NEW V, NEW s \in Seq(V), NEW r \in V, NEW W
  PROVE  Times(Append(s, r), W) = IF r \in W THEN Times(s, W) + 1 ELSE Times(s, W)
<1> DEFINE t == Append(s, r)
           n == Len(s) + 1
<1>1. /\ t \in Seq(V) /\ Len(s) \in Nat /\ Len(t) = n
      /\ (\A i \in 1..Len(s) : t[i] = s[i]) /\ t[n] = r
  BY AppendProperties, LenProperties
<1>2. DOMAIN t = 1..n /\ DOMAIN s = 1..Len(s)
  BY <1>1, LenProperties
<1>3. n \notin 1..Len(s) /\ \A i : i \in 1..n <=> i \in 1..Len(s) \/ i = n
  BY <1>1
<1> HIDE DEF t, n
<1>4. IsFiniteSet(Places(s, W))
  BY TimesNat
<1>5. CASE r \in W
  <2>1. Places(t, W) = Places(s, W) \cup {n} /\ n \notin Places(s, W)
    BY <1>1, <1>2, <1>3, <1>5 DEF Places
  <2>2. Cardinality(Places(s, W) \cup {n}) = Cardinality(Places(s, W)) + 1
    BY <1>4, <2>1, FS_AddElement
  <2> QED BY <1>5, <2>1, <2>2 DEF Times, t
<1>6. CASE r \notin W
  <2>1. Places(t, W) = Places(s, W)
    BY <1>1, <1>2, <1>3, <1>6 DEF Places
  <2> QED BY <1>6, <2>1 DEF Times, t
<1> QED BY <1>5, <1>6

LEMMA TimesConcat ==
  ASSUME NEW V, NEW s \in Seq(V), NEW t \in Seq(V), NEW W
  PROVE  Times(s \o t, W) = Times(s, W) + Times(t, W)
<1> DEFINE m == Len(s)
           n == Len(t)
           u == s \o t
           A == Places(s, W)
           B == Places(t, W)
           C == {i \in (m + 1)..(m + n) : t[i - m] \in W}
<1>1. /\ m \in Nat /\ n \in Nat /\ u \in Seq(V) /\ Len(u) = m + n
      /\ \A i \in 1..(m + n) : u[i] = IF i <= m THEN s[i] ELSE t[i - m]
  BY ConcatProperties, LenProperties
<1>2. DOMAIN u = 1..(m + n) /\ DOMAIN s = 1..m /\ DOMAIN t = 1..n
  BY <1>1, LenProperties
<1>3. IsFiniteSet(A) /\ IsFiniteSet(B)
  BY TimesNat
<1> HIDE DEF u, m, n
<1>4. A \subseteq 1..m /\ B \subseteq 1..n
  BY <1>2 DEF Places
<1>5. Places(u, W) = A \cup C
  <2>1. ASSUME NEW i \in 1..(m + n), i <= m
        PROVE  i \in Places(u, W) <=> i \in A \cup C
    <3>1. i \in 1..m /\ i \notin (m + 1)..(m + n) /\ u[i] = s[i]
      BY <1>1, <2>1
    <3> QED BY <1>2, <3>1 DEF Places
  <2>2. ASSUME NEW i \in 1..(m + n), ~(i <= m)
        PROVE  i \in Places(u, W) <=> i \in A \cup C
    <3>1. i \notin 1..m /\ i \in (m + 1)..(m + n) /\ u[i] = t[i - m]
      BY <1>1, <2>2
    <3> QED BY <1>2, <3>1 DEF Places
  <2>3. A \cup C \subseteq 1..(m + n)
    BY <1>1, <1>4
  <2>4. Places(u, W) \subseteq 1..(m + n)
    BY <1>2 DEF Places
  <2> HIDE DEF A, C
  <2> QED BY <2>1, <2>2, <2>3, <2>4
<1>6. A \cap C = {}
  BY <1>1, <1>4
<1>7. IsFiniteSet(C) /\ Cardinality(C) = Cardinality(B)
  <2> DEFINE f == [j \in B |-> j + m]
  <2>1. \A j \in B : j \in 1..n /\ t[j] \in W
    BY <1>2 DEF Places
  <2>2. ASSUME NEW j \in B PROVE j + m \in C
    <3>1. j \in 1..n /\ (j + m) - m = j /\ j + m \in (m + 1)..(m + n)
      BY <1>1, <2>1
    <3> QED BY <2>1, <3>1
  <2>3. ASSUME NEW i \in C PROVE i - m \in B /\ (i - m) + m = i
    <3>1. i - m \in 1..n /\ (i - m) + m = i
      BY <1>1
    <3> QED BY <1>2, <3>1 DEF Places
  <2>4. ASSUME NEW i \in B, NEW j \in B, i + m = j + m PROVE i = j
    BY <1>1, <2>1, <2>4
  <2> HIDE DEF B, C
  <2>5. f \in [B -> C]
    BY <2>2
  <2>6. \A i \in C : \E j \in B : f[j] = i
    BY <2>3
  <2>7. \A i, j \in B : f[i] = f[j] => i = j
    BY <2>4
  <2>8. f \in Bijection(B, C)
    BY <2>5, <2>6, <2>7 DEF Bijection, Injection, Surjection, IsInjective
  <2> HIDE DEF f
  <2>9. ExistsBijection(B, C)
    BY <2>8 DEF ExistsBijection
  <2> QED BY <1>3, <2>9, FS_Bijection
<1> HIDE DEF A, B, C
<1>8. Cardinality(A \cup C) = Cardinality(A) + Cardinality(C) - Cardinality(A \cap C)
  BY <1>3, <1>7, FS_Union
<1>9. Cardinality(A \cap C) = 0
  BY <1>6, FS_EmptySet
<1>10. Cardinality(A) \in Nat /\ Cardinality(C) \in Nat
  BY <1>3, <1>7, FS_CardinalityType
<1> QED BY <1>5, <1>7, <1>8, <1>9, <1>10 DEF Times, A, B, u

-----------------------------------------------------------------------------
(* What a sync keeps, inserts and lists.                                   *)

\* Two functions that go on in the same way from the same start are the same.
LEMMA SameSteps ==
  ASSUME NEW n \in Nat, NEW f, NEW g, g[0] = f[0],
         \A i \in 1..n : g[i - 1] = f[i - 1] => g[i] = f[i]
  PROVE  g[n] = f[n]
<1> DEFINE Good == {i \in 0..n : g[i] = f[i]}
<1>1. 0 \in Good
  OBVIOUS
<1>2. ASSUME NEW i \in 0..n, i < n, i \in Good PROVE i + 1 \in Good
  <2>1. i + 1 \in 1..n /\ (i + 1) - 1 = i /\ i + 1 \in 0..n
    BY <1>2
  <2>2. g[i] = f[i]
    BY <1>2
  <2> QED BY <2>1, <2>2
<1>3. \A i \in 0..n : i \in Good
  <2> HIDE DEF Good
  <2> QED BY <1>1, <1>2, IntervalInduction
<1> QED BY <1>3

KeptSteps(s, I, f) ==
  f = [i \in 0..Len(s) |->
         IF i = 0 THEN <<>> ELSE IF i \in I THEN Append(f[i - 1], s[i]) ELSE f[i - 1]]

LEMMA KeptUnfold ==
  ASSUME NEW s, NEW I
  PROVE  Kept(s, I) = (CHOOSE f : KeptSteps(s, I, f))[Len(s)]
BY DEF Kept, KeptSteps

LEMMA KeptRuns ==
  ASSUME NEW s \in Seq(TxRow), NEW I
  PROVE  \E f \in [0..Len(s) -> Seq(TxRow)] :
           /\ f[0] = <<>>
           /\ \A i \in 1..Len(s) :
                f[i] = IF i \in I THEN Append(f[i - 1], s[i]) ELSE f[i - 1]
           /\ f[Len(s)] = Kept(s, I)
<1> DEFINE n == Len(s)
           D == Seq(TxRow)
           G == [q \in D \X (1..n) |-> IF q[2] \in I THEN Append(q[1], s[q[2]]) ELSE q[1]]
<1>1. n \in Nat /\ \A i \in 1..n : s[i] \in TxRow
  BY LenProperties, ElementOfSeq
<1>2. G \in [D \X (1..n) -> D] /\ <<>> \in D
  BY <1>1, AppendProperties
<1>3. PICK f : Unrolls(f, n, D, <<>>, G)
  <2> HIDE DEF n, G, D
  <2> QED BY <1>1, <1>2, UnrollsExists
<1>4. f \in [0..n -> D] /\ f[0] = <<>> /\ \A i \in 1..n : f[i] = G[<<f[i - 1], i>>]
  BY <1>3 DEF Unrolls
<1>5. ASSUME NEW i \in 1..n
      PROVE  f[i] = IF i \in I THEN Append(f[i - 1], s[i]) ELSE f[i - 1]
  <2>1. i - 1 \in 0..n
    BY <1>1
  <2>2. f[i - 1] \in D
    BY <1>4, <2>1
  <2> QED BY <1>4, <2>2
<1> HIDE DEF G, D
<1>6. \A i \in 0..n : f[i] = IF i = 0 THEN <<>>
                              ELSE IF i \in I THEN Append(f[i - 1], s[i]) ELSE f[i - 1]
  <2> TAKE i \in 0..n
  <2>1. CASE i = 0
    BY <1>4, <2>1
  <2>2. CASE i # 0
    <3>1. i \in 1..n
      BY <1>1, <2>2
    <3> HIDE DEF n
    <3> QED BY <1>5, <2>2, <3>1
  <2> QED BY <2>1, <2>2
<1>7. KeptSteps(s, I, f)
  <2>1. f = [i \in 0..n |-> IF i = 0 THEN <<>>
                            ELSE IF i \in I THEN Append(f[i - 1], s[i]) ELSE f[i - 1]]
    BY <1>4, <1>6
  <2> QED BY <2>1 DEF KeptSteps
<1> DEFINE g == CHOOSE h : KeptSteps(s, I, h)
<1>8. KeptSteps(s, I, g)
  BY <1>7
<1>9. Kept(s, I) = g[n]
  BY KeptUnfold
<1> HIDE DEF g
<1>10. \A i \in 0..n : g[i] = IF i = 0 THEN <<>>
                              ELSE IF i \in I THEN Append(g[i - 1], s[i]) ELSE g[i - 1]
  BY <1>8 DEF KeptSteps
<1>11. g[n] = f[n]
  <2>1. g[0] = f[0]
    BY <1>1, <1>4, <1>10
  <2>2. ASSUME NEW i \in 1..n, g[i - 1] = f[i - 1] PROVE g[i] = f[i]
    <3>1. i \in 0..n /\ i # 0
      BY <1>1
    <3> QED BY <1>5, <1>10, <2>2, <3>1
  <2> HIDE DEF n
  <2> QED BY <1>1, <2>1, <2>2, SameSteps
<1> QED BY <1>4, <1>5, <1>9, <1>11 DEF D

LEMMA KeptFacts ==
  ASSUME NEW s \in Seq(TxRow), NEW I \in SUBSET DOMAIN s, NEW W \in SUBSET TxRow,
         \A i \in I : s[i] \in W, NEW U
  PROVE  /\ Kept(s, I) \in Seq(W)
         /\ Total(Kept(s, I)) = SumOf(s, I)
         /\ Times(Kept(s, I), U) = Cardinality({i \in I : s[i] \in U})
<1> DEFINE n == Len(s)
           In(i) == I \cap (1..i)
           With(i) == {j \in In(i) : s[j] \in U}
<1>1. n \in Nat /\ DOMAIN s = 1..n /\ \A i \in 1..n : s[i] \in TxRow
  BY LenProperties, ElementOfSeq
<1>2. PICK f \in [0..n -> Seq(TxRow)] :
        /\ f[0] = <<>>
        /\ \A i \in 1..n : f[i] = IF i \in I THEN Append(f[i - 1], s[i]) ELSE f[i - 1]
        /\ f[n] = Kept(s, I)
  BY KeptRuns
<1> HIDE DEF n
<1> DEFINE Good == {i \in 0..n : /\ f[i] \in Seq(W)
                                 /\ Total(f[i]) = SumOf(s, In(i))
                                 /\ Times(f[i], U) = Cardinality(With(i))}
<1>3. 0 \in Good
  <2>1. In(0) = {} /\ With(0) = {}
    OBVIOUS
  <2>2. <<>> \in Seq(W) /\ <<>> \in Seq(TxRow)
    OBVIOUS
  <2>3. DOMAIN <<>> = {}
    OBVIOUS
  <2>4. Total(<<>>) = 0
    BY <2>2, <2>3, SumOfNothing DEF Total
  <2>5. SumOf(s, {}) = 0
    BY SumOfNothing
  <2>6. Times(<<>>, U) = 0 /\ Cardinality({}) = 0
    BY TimesEmpty, FS_EmptySet
  <2> QED BY <1>1, <1>2, <2>1, <2>2, <2>4, <2>5, <2>6
<1>4. ASSUME NEW i \in 0..n, i < n, i \in Good PROVE i + 1 \in Good
  <2>1. i + 1 \in 1..n /\ (i + 1) - 1 = i /\ i + 1 \in 0..n /\ i + 1 \notin 1..i
    BY <1>1, <1>4
  <2>2. /\ f[i] \in Seq(W) /\ Total(f[i]) = SumOf(s, In(i))
        /\ Times(f[i], U) = Cardinality(With(i))
    BY <1>4
  <2>3. f[i + 1] = IF i + 1 \in I THEN Append(f[i], s[i + 1]) ELSE f[i]
    BY <1>2, <2>1
  <2>4. CASE i + 1 \notin I
    <3>1. In(i + 1) = In(i)
      BY <2>4
    <3>2. With(i + 1) = With(i)
      BY <3>1
    <3> HIDE DEF In, With
    <3> QED BY <2>1, <2>2, <2>3, <2>4, <3>1, <3>2
  <2>5. CASE i + 1 \in I
    <3> DEFINE r == s[i + 1]
    <3>1. r \in W /\ r \in TxRow
      BY <2>5
    <3>2. f[i] \in Seq(TxRow)
      BY <1>2
    <3>3. Append(f[i], r) \in Seq(W) /\ Total(Append(f[i], r)) = Total(f[i]) + AmountOf(r)
      BY <2>2, <3>1, <3>2, AppendProperties, TotalAppend
    <3>4. In(i + 1) = In(i) \cup {i + 1} /\ i + 1 \notin In(i) /\ In(i) \in SUBSET In(i + 1)
      BY <2>1, <2>5
    <3>5. In(i + 1) \in SUBSET DOMAIN s
      OBVIOUS
    <3>6. SumOf(s, In(i + 1)) = SumOf(s, In(i)) + AmountOf(r)
      <4>1. In(i + 1) \ In(i) = {i + 1} /\ {i + 1} \in SUBSET DOMAIN s
        BY <1>1, <2>1, <3>4
      <4>2. SumOf(s, In(i + 1)) = SumOf(s, In(i)) + SumOf(s, {i + 1})
        <5> HIDE DEF In
        <5> QED BY <3>4, <3>5, <4>1, SumOfSplit
      <4>3. SumOf(s, {i + 1}) = SumFunctionOnSet(Amounts(s), {i + 1}) /\ IsFiniteSet({i + 1})
        BY <4>1, SumOfIsSum
      <4>4. Amounts(s)[i + 1] = AmountOf(r) /\ AmountOf(r) \in Int
        BY <3>1, <4>1, AmountInt DEF Amounts
      <4>5. SumFunctionOnSet(Amounts(s), {i + 1}) = Amounts(s)[i + 1]
        <5> DEFINE k == i + 1
        <5> HIDE DEF k
        <5>1. IsFiniteSet({k}) /\ Amounts(s)[k] \in Int
          BY <4>3, <4>4 DEF k
        <5>2. SumFunctionOnSet(Amounts(s), {k}) = Amounts(s)[k]
          BY <5>1, SumSingle
        <5> QED BY <5>2 DEF k
      <4> QED BY <4>2, <4>3, <4>4, <4>5
    <3>7. Times(Append(f[i], r), U) = Cardinality(With(i + 1))
      <4>1. IsFiniteSet(In(i))
        <5>1. IsFiniteSet(1..i)
          BY FS_Interval
        <5> QED BY <5>1, FS_Intersection
      <4>2. IsFiniteSet(With(i)) /\ i + 1 \notin With(i)
        <5>1. With(i) \in SUBSET In(i)
          OBVIOUS
        <5> HIDE DEF In, With
        <5> QED BY <3>4, <4>1, <5>1, FS_Subset
      <4>3. Times(Append(f[i], r), U) = IF r \in U THEN Times(f[i], U) + 1 ELSE Times(f[i], U)
        BY <3>1, <3>2, TimesAppend
      <4>4. CASE r \in U
        <5>1. With(i + 1) = With(i) \cup {i + 1}
          BY <3>4, <4>4
        <5> HIDE DEF With
        <5>2. Cardinality(With(i) \cup {i + 1}) = Cardinality(With(i)) + 1
          BY <4>2, FS_AddElement
        <5> QED BY <2>2, <4>3, <4>4, <5>1, <5>2
      <4>5. CASE r \notin U
        <5>1. With(i + 1) = With(i)
          BY <3>4, <4>5
        <5> HIDE DEF With
        <5> QED BY <2>2, <4>3, <4>5, <5>1
      <4> QED BY <4>4, <4>5
    <3> HIDE DEF In, With
    <3> QED BY <2>1, <2>2, <2>3, <2>5, <3>3, <3>6, <3>7
  <2> QED BY <2>4, <2>5
<1>5. \A i \in 0..n : i \in Good
  <2> HIDE DEF Good
  <2> QED BY <1>1, <1>3, <1>4, IntervalInduction
<1>6. In(n) = I /\ With(n) = {i \in I : s[i] \in U} /\ n \in 0..n
  BY <1>1
<1> HIDE DEF In, With
<1> QED BY <1>2, <1>5, <1>6

\* Each kind is listed once.
LEMMA ListedOnce ==
  /\ Len(Listing) \in Nat
  /\ \A i \in 1..Len(Listing) : Oldest(i) \in Kinds
  /\ \A i, j \in 1..Len(Listing) : Oldest(i) = Oldest(j) => i = j
  /\ \A k \in Kinds : \E i \in 1..Len(Listing) : Oldest(i) = k
  /\ IsFiniteSet(Kinds)
<1> DEFINE n == Len(Listing)
<1>1. Listing \in Seq(Kinds) /\ Cardinality(Kinds) = n
  BY ListingAssumption
<1>2. n \in Nat /\ DOMAIN Listing = 1..n /\ Listing \in [1..n -> Kinds]
  BY <1>1, LenProperties
<1>3. Kinds = {Listing[i] : i \in 1..n}
  BY <1>2 DEF Kinds, Range
<1> HIDE DEF n
<1>4. Listing \in Surjection(1..n, Kinds)
  BY <1>2, <1>3 DEF Surjection
<1>5. IsFiniteSet(1..n) /\ Cardinality(1..n) = n
  BY <1>2, FS_Interval
<1>6. Listing \in Injection(1..n, Kinds) /\ IsFiniteSet(Kinds)
  <2>1. /\ IsFiniteSet(Kinds)
        /\ Cardinality(Kinds) = Cardinality(1..n) <=> Listing \in Injection(1..n, Kinds)
    BY <1>4, <1>5, FS_Surjection
  <2> QED BY <1>1, <1>5, <2>1 DEF n
<1>7. \A i, j \in 1..n : Listing[i] = Listing[j] => i = j
  BY <1>6 DEF Injection, IsInjective
<1>8. \A i \in 1..n : n + 1 - i \in 1..n /\ n + 1 - (n + 1 - i) = i
  BY <1>2
<1>9. \A i \in 1..n : Oldest(i) = Listing[n + 1 - i]
  BY DEF Oldest, n
<1>10. \A i \in 1..n : Oldest(i) \in Kinds
  BY <1>2, <1>8, <1>9
<1>11. ASSUME NEW i \in 1..n, NEW j \in 1..n, Oldest(i) = Oldest(j) PROVE i = j
  <2>1. n + 1 - i = n + 1 - j
    BY <1>7, <1>8, <1>9, <1>11
  <2> QED BY <1>2, <2>1
<1>12. ASSUME NEW k \in Kinds PROVE \E i \in 1..n : Oldest(i) = k
  <2>1. PICK j \in 1..n : Listing[j] = k
    BY <1>3
  <2>2. n + 1 - j \in 1..n /\ Oldest(n + 1 - j) = k
    BY <1>8, <1>9, <2>1
  <2> QED BY <2>2
<1> QED BY <1>2, <1>6, <1>10, <1>11, <1>12 DEF n

FromSteps(start, part, f) ==
  f = [i \in 0..Len(Listing) |->
         IF i = 0 THEN start ELSE f[i - 1] \o part[Oldest(i)]]

LEMMA FromUnfold ==
  ASSUME NEW start, NEW part
  PROVE  FromOldest(start, part) = (CHOOSE f : FromSteps(start, part, f))[Len(Listing)]
BY DEF FromOldest, FromSteps

LEMMA FromRuns ==
  ASSUME NEW V, NEW start \in Seq(V), NEW part \in [Kinds -> Seq(V)]
  PROVE  \E f \in [0..Len(Listing) -> Seq(V)] :
           /\ f[0] = start
           /\ \A i \in 1..Len(Listing) : f[i] = f[i - 1] \o part[Oldest(i)]
           /\ f[Len(Listing)] = FromOldest(start, part)
<1> DEFINE n == Len(Listing)
           D == Seq(V)
           G == [q \in D \X (1..n) |-> q[1] \o part[Oldest(q[2])]]
<1>1. n \in Nat /\ \A i \in 1..n : part[Oldest(i)] \in Seq(V)
  BY ListedOnce
<1>2. G \in [D \X (1..n) -> D] /\ start \in D
  BY <1>1, ConcatProperties
<1>3. PICK f : Unrolls(f, n, D, start, G)
  <2> HIDE DEF n, G, D
  <2> QED BY <1>1, <1>2, UnrollsExists
<1>4. f \in [0..n -> D] /\ f[0] = start /\ \A i \in 1..n : f[i] = G[<<f[i - 1], i>>]
  BY <1>3 DEF Unrolls
<1>5. ASSUME NEW i \in 1..n
      PROVE  f[i] = f[i - 1] \o part[Oldest(i)]
  <2>1. i - 1 \in 0..n
    BY <1>1
  <2>2. f[i - 1] \in D
    BY <1>4, <2>1
  <2> QED BY <1>4, <2>2
<1> HIDE DEF G, D
<1>6. \A i \in 0..n : f[i] = IF i = 0 THEN start ELSE f[i - 1] \o part[Oldest(i)]
  <2> TAKE i \in 0..n
  <2>1. CASE i = 0
    BY <1>4, <2>1
  <2>2. CASE i # 0
    <3>1. i \in 1..n
      BY <1>1, <2>2
    <3> HIDE DEF n
    <3> QED BY <1>5, <2>2, <3>1
  <2> QED BY <2>1, <2>2
<1>7. FromSteps(start, part, f)
  <2>1. f = [i \in 0..n |-> IF i = 0 THEN start ELSE f[i - 1] \o part[Oldest(i)]]
    BY <1>4, <1>6
  <2> QED BY <2>1 DEF FromSteps
<1> DEFINE g == CHOOSE h : FromSteps(start, part, h)
<1>8. FromSteps(start, part, g)
  BY <1>7
<1>9. FromOldest(start, part) = g[n]
  BY FromUnfold
<1> HIDE DEF g
<1>10. \A i \in 0..n : g[i] = IF i = 0 THEN start ELSE g[i - 1] \o part[Oldest(i)]
  BY <1>8 DEF FromSteps
<1>11. g[n] = f[n]
  <2>1. g[0] = f[0]
    BY <1>1, <1>4, <1>10
  <2>2. ASSUME NEW i \in 1..n, g[i - 1] = f[i - 1] PROVE g[i] = f[i]
    <3>1. i \in 0..n /\ i # 0
      BY <1>1
    <3> QED BY <1>5, <1>10, <2>2, <3>1
  <2> HIDE DEF n
  <2> QED BY <1>1, <2>1, <2>2, SameSteps
<1> QED BY <1>4, <1>5, <1>9, <1>11 DEF D

LEMMA ExtendsSelf ==
  ASSUME NEW V, NEW s \in Seq(V)
  PROVE  Extends(s, s)
BY LenProperties DEF Extends

LEMMA ExtendsTransitive ==
  ASSUME NEW V, NEW s \in Seq(V), NEW t \in Seq(V), NEW u \in Seq(V),
         Extends(t, s), Extends(u, t)
  PROVE  Extends(u, s)
<1>1. Len(s) \in Nat /\ Len(t) \in Nat /\ Len(u) \in Nat
  BY LenProperties
<1> QED BY <1>1 DEF Extends

\* What comes after start is of the parts.
LEMMA FromOldestExtends ==
  ASSUME NEW V, NEW U \in SUBSET V, NEW start \in Seq(V), NEW part \in [Kinds -> Seq(U)]
  PROVE  /\ FromOldest(start, part) \in Seq(V)
         /\ Extends(FromOldest(start, part), start)
         /\ \A j \in Len(start) + 1 .. Len(FromOldest(start, part)) :
              FromOldest(start, part)[j] \in U
<1> DEFINE n == Len(Listing)
           Later(t) == \A j \in Len(start) + 1 .. Len(t) : t[j] \in U
<1>1. n \in Nat /\ \A i \in 1..n : Oldest(i) \in Kinds
  BY ListedOnce
<1>2. \A k \in Kinds : part[k] \in Seq(V) /\ part[k] \in Seq(U)
  BY SeqMonotonic
<1>3. part \in [Kinds -> Seq(V)]
  BY <1>2
<1>4. PICK f \in [0..n -> Seq(V)] :
        /\ f[0] = start
        /\ \A i \in 1..n : f[i] = f[i - 1] \o part[Oldest(i)]
        /\ f[n] = FromOldest(start, part)
  BY <1>3, FromRuns
<1> HIDE DEF n
<1> DEFINE Good == {i \in 0..n : Extends(f[i], start) /\ Later(f[i])}
<1>5. 0 \in Good
  <2>1. Len(start) \in Nat
    BY LenProperties
  <2>2. Len(start) + 1 .. Len(start) = {}
    BY <2>1
  <2>3. Later(start)
    BY <2>2
  <2> QED BY <1>1, <1>4, <2>3, ExtendsSelf
<1>6. ASSUME NEW i \in 0..n, i < n, i \in Good PROVE i + 1 \in Good
  <2>1. i + 1 \in 1..n /\ (i + 1) - 1 = i /\ i + 1 \in 0..n
    BY <1>1, <1>6
  <2> DEFINE s == f[i]
             p == part[Oldest(i + 1)]
             t == f[i + 1]
  <2>2. s \in Seq(V) /\ p \in Seq(V) /\ p \in Seq(U) /\ t = s \o p /\ t \in Seq(V)
    BY <1>1, <1>2, <1>4, <2>1
  <2>3. Extends(s, start) /\ Later(s)
    BY <1>6
  <2> HIDE DEF s, p
  <2>4. /\ Len(s) \in Nat /\ Len(p) \in Nat /\ Len(t) = Len(s) + Len(p) /\ Len(start) \in Nat
        /\ \A j \in 1 .. Len(s) + Len(p) : t[j] = IF j <= Len(s) THEN s[j] ELSE p[j - Len(s)]
    BY <2>2, ConcatProperties, LenProperties
  <2>5. \A j \in 1..Len(p) : p[j] \in U
    BY <2>2, ElementOfSeq
  <2> HIDE DEF t
  <2>6. Extends(t, s)
    BY <2>4 DEF Extends
  <2>7. Extends(t, start)
    BY <2>2, <2>3, <2>6, ExtendsTransitive
  <2>8. Later(t)
    <3> TAKE j \in Len(start) + 1 .. Len(t)
    <3>1. CASE j <= Len(s)
      <4>1. j \in Len(start) + 1 .. Len(s) /\ t[j] = s[j]
        BY <2>4, <3>1
      <4> QED BY <2>3, <4>1
    <3>2. CASE ~(j <= Len(s))
      <4>1. j - Len(s) \in 1..Len(p) /\ t[j] = p[j - Len(s)]
        BY <2>4, <3>2
      <4> QED BY <2>5, <4>1
    <3> QED BY <3>1, <3>2
  <2> QED BY <2>1, <2>7, <2>8 DEF t
<1>7. \A i \in 0..n : i \in Good
  <2> HIDE DEF Good
  <2> QED BY <1>1, <1>5, <1>6, IntervalInduction
<1>8. n \in 0..n
  BY <1>1
<1> QED BY <1>4, <1>7, <1>8

\* Of the elements of W it has those of start and those of the one part that has any.
LEMMA FromOldestTimes ==
  ASSUME NEW V, NEW start \in Seq(V), NEW part \in [Kinds -> Seq(V)],
         NEW W, NEW k \in Kinds, \A j \in Kinds \ {k} : Times(part[j], W) = 0
  PROVE  Times(FromOldest(start, part), W) = Times(start, W) + Times(part[k], W)
<1> DEFINE n == Len(Listing)
<1>1. /\ n \in Nat /\ \A i \in 1..n : Oldest(i) \in Kinds
      /\ \A i, j \in 1..n : Oldest(i) = Oldest(j) => i = j
  BY ListedOnce
<1>2. PICK m \in 1..n : Oldest(m) = k
  BY ListedOnce
<1>3. PICK f \in [0..n -> Seq(V)] :
        /\ f[0] = start
        /\ \A i \in 1..n : f[i] = f[i - 1] \o part[Oldest(i)]
        /\ f[n] = FromOldest(start, part)
  BY FromRuns
<1> HIDE DEF n
<1>4. Times(start, W) \in Nat /\ Times(part[k], W) \in Nat
  BY TimesNat
<1> DEFINE Upto(i) == IF i < m THEN Times(start, W) ELSE Times(start, W) + Times(part[k], W)
           Good == {i \in 0..n : Times(f[i], W) = Upto(i)}
<1>5. 0 \in Good
  BY <1>1, <1>3
<1>6. ASSUME NEW i \in 0..n, i < n, i \in Good PROVE i + 1 \in Good
  <2>1. i + 1 \in 1..n /\ (i + 1) - 1 = i /\ i + 1 \in 0..n
    BY <1>1, <1>6
  <2>2. f[i] \in Seq(V) /\ part[Oldest(i + 1)] \in Seq(V) /\ f[i + 1] = f[i] \o part[Oldest(i + 1)]
    BY <1>1, <1>3, <2>1
  <2>3. Times(f[i + 1], W) = Times(f[i], W) + Times(part[Oldest(i + 1)], W)
    BY <2>2, TimesConcat
  <2>4. Times(f[i], W) = Upto(i)
    BY <1>6
  <2>5. CASE i + 1 = m
    <3>1. Times(f[i + 1], W) = Times(start, W) + Times(part[k], W)
      BY <1>2, <2>3, <2>4, <2>5
    <3> QED BY <2>1, <2>5, <3>1
  <2>6. CASE i + 1 # m
    <3>1. Oldest(i + 1) \in Kinds \ {k}
      BY <1>1, <1>2, <2>1, <2>6
    <3>2. Times(part[Oldest(i + 1)], W) = 0
      BY <3>1
    <3>3. Upto(i + 1) = Upto(i) /\ Upto(i) \in Nat
      BY <1>4, <2>6
    <3> QED BY <2>1, <2>3, <2>4, <3>2, <3>3
  <2> QED BY <2>5, <2>6
<1>7. \A i \in 0..n : i \in Good
  <2> HIDE DEF Good
  <2> QED BY <1>1, <1>5, <1>6, IntervalInduction
<1>8. n \in 0..n /\ ~(n < m)
  BY <1>1, <1>2
<1> QED BY <1>3, <1>7, <1>8

\* One round of the loop over the posted charges of page s.
KnownAfter(s, k, before) ==
  IF s.settled[k] = 0
     \/ \E j \in DOMAIN before : Recognised(k, k \in s.cut, before[j])
  THEN before ELSE Append(before, New(k, FALSE, k \in s.cut))

PostedSteps(s, kept, f) ==
  f = [i \in 0..Len(Listing) |->
         IF i = 0 THEN kept ELSE KnownAfter(s, Oldest(i), f[i - 1])]

LEMMA PostedUnfold ==
  ASSUME NEW s, NEW kept
  PROVE  InsertPosted(s, kept) = (CHOOSE f : PostedSteps(s, kept, f))[Len(Listing)]
BY DEF InsertPosted, PostedSteps, KnownAfter

LEMMA NewPosted ==
  ASSUME NEW k \in Kinds, NEW S
  PROVE  /\ New(k, FALSE, k \in S) \in PostedRow
         /\ New(k, FALSE, k \in S).kind = k
         /\ New(k, FALSE, k \in S).cut <=> k \in S
<1>1. CASE k \in S
  <2>1. (k \in S) = TRUE
    BY <1>1
  <2>2. New(k, FALSE, k \in S) = New(k, FALSE, TRUE)
    BY <2>1
  <2> QED BY <1>1, <2>2, NewRow DEF PostedRow
<1>2. CASE k \notin S
  <2>1. (k \in S) = FALSE
    BY <1>2
  <2>2. New(k, FALSE, k \in S) = New(k, FALSE, FALSE)
    BY <2>1
  <2> QED BY <1>2, <2>2, NewRow DEF PostedRow
<1> QED BY <1>1, <1>2

LEMMA PostedRuns ==
  ASSUME NEW s \in Pages, NEW kept \in Seq(PostedRow)
  PROVE  \E f \in [0..Len(Listing) -> Seq(PostedRow)] :
           /\ f[0] = kept
           /\ \A i \in 1..Len(Listing) : f[i] = KnownAfter(s, Oldest(i), f[i - 1])
           /\ f[Len(Listing)] = InsertPosted(s, kept)
<1> DEFINE n == Len(Listing)
           D == Seq(PostedRow)
           G == [q \in D \X (1..n) |-> KnownAfter(s, Oldest(q[2]), q[1])]
<1>1. n \in Nat /\ \A i \in 1..n : Oldest(i) \in Kinds
  BY ListedOnce
<1>2. ASSUME NEW k \in Kinds, NEW t \in D PROVE KnownAfter(s, k, t) \in D
  BY NewPosted, AppendProperties DEF KnownAfter
<1>3. G \in [D \X (1..n) -> D] /\ kept \in D
  BY <1>1, <1>2
<1>4. PICK f : Unrolls(f, n, D, kept, G)
  <2> HIDE DEF n, G, D
  <2> QED BY <1>1, <1>3, UnrollsExists
<1>5. f \in [0..n -> D] /\ f[0] = kept /\ \A i \in 1..n : f[i] = G[<<f[i - 1], i>>]
  BY <1>4 DEF Unrolls
<1>6. ASSUME NEW i \in 1..n
      PROVE  f[i] = KnownAfter(s, Oldest(i), f[i - 1])
  <2>1. i - 1 \in 0..n
    BY <1>1
  <2>2. f[i - 1] \in D
    BY <1>5, <2>1
  <2> QED BY <1>5, <2>2
<1> HIDE DEF G, D
<1>7. \A i \in 0..n : f[i] = IF i = 0 THEN kept ELSE KnownAfter(s, Oldest(i), f[i - 1])
  <2> TAKE i \in 0..n
  <2>1. CASE i = 0
    BY <1>5, <2>1
  <2>2. CASE i # 0
    <3>1. i \in 1..n
      BY <1>1, <2>2
    <3> HIDE DEF n
    <3> QED BY <1>6, <2>2, <3>1
  <2> QED BY <2>1, <2>2
<1>8. PostedSteps(s, kept, f)
  <2>1. f = [i \in 0..n |-> IF i = 0 THEN kept ELSE KnownAfter(s, Oldest(i), f[i - 1])]
    BY <1>5, <1>7
  <2> QED BY <2>1 DEF PostedSteps
<1> DEFINE g == CHOOSE h : PostedSteps(s, kept, h)
<1>9. PostedSteps(s, kept, g)
  BY <1>8
<1>10. InsertPosted(s, kept) = g[n]
  BY PostedUnfold
<1> HIDE DEF g
<1>11. \A i \in 0..n : g[i] = IF i = 0 THEN kept ELSE KnownAfter(s, Oldest(i), g[i - 1])
  BY <1>9 DEF PostedSteps
<1>12. g[n] = f[n]
  <2>1. g[0] = f[0]
    BY <1>1, <1>5, <1>11
  <2>2. ASSUME NEW i \in 1..n, g[i - 1] = f[i - 1] PROVE g[i] = f[i]
    <3>1. i \in 0..n /\ i # 0
      BY <1>1
    <3> QED BY <1>6, <1>11, <2>2, <3>1
  <2> HIDE DEF n
  <2> QED BY <1>1, <2>1, <2>2, SameSteps
<1> QED BY <1>5, <1>6, <1>10, <1>12 DEF D

NoneCut(t) == \A j \in DOMAIN t : ~t[j].cut
OfKind(k) == {r \in PostedRow : r.kind = k}
FoundIn(t, k) == \E j \in DOMAIN t : Stem[t[j].kind] = Stem[k]
\* Nothing was inserted for kind k, or the first row of it.
FirstOfKind(s, kept, t, k) ==
  Times(t, OfKind(k)) = Times(kept, OfKind(k))
    \/ (Times(t, OfKind(k)) = 1 /\ s.settled[k] > 0)

\* One round keeps what it finds, and inserts at most a first row of its kind.
LEMMA KnownStep ==
  ASSUME NEW s \in Pages, NEW k \in Kinds, NEW before \in Seq(PostedRow), NEW t,
         t = KnownAfter(s, k, before)
  PROVE  /\ t \in Seq(PostedRow) /\ Extends(t, before)
         /\ s.settled[k] > 0 => FoundIn(t, k)
         /\ NoneCut(t) => NoneCut(before)
         /\ NoneCut(t) =>
              \A j \in Kinds : \/ Times(t, OfKind(j)) = Times(before, OfKind(j))
                               \/ (Times(t, OfKind(j)) = 1 /\ s.settled[j] > 0)
<1> DEFINE r == New(k, FALSE, k \in s.cut)
<1>1. r \in PostedRow /\ r.kind = k /\ (r.cut <=> k \in s.cut)
  BY NewPosted
<1>2. /\ DOMAIN before = 1..Len(before) /\ Len(before) \in Nat
      /\ \A j \in DOMAIN before : before[j] \in PostedRow
  BY LenProperties, ElementOfSeq
<1>3. s.settled[k] \in Nat
  BY DEF Pages, Counts
<1>4. CASE s.settled[k] = 0
  <2>1. t = before
    BY <1>4 DEF KnownAfter
  <2> QED BY <1>4, <2>1, ExtendsSelf
<1>5. CASE s.settled[k] # 0 /\ \E j \in DOMAIN before : Recognised(k, k \in s.cut, before[j])
  <2>1. t = before
    BY <1>5 DEF KnownAfter
  <2>2. PICK j \in DOMAIN before : Recognised(k, k \in s.cut, before[j])
    BY <1>5
  <2>3. Stem[before[j].kind] = Stem[k]
    BY <2>2 DEF Recognised, Exactly, Truncated
  <2>4. FoundIn(t, k)
    BY <2>1, <2>3 DEF FoundIn
  <2> QED BY <2>1, <2>4, ExtendsSelf
<1>6. CASE s.settled[k] # 0 /\ ~\E j \in DOMAIN before : Recognised(k, k \in s.cut, before[j])
  <2>1. t = Append(before, r)
    BY <1>6 DEF KnownAfter
  <2> HIDE DEF r
  <2>2. /\ t \in Seq(PostedRow) /\ Len(t) = Len(before) + 1
        /\ (\A j \in 1..Len(before) : t[j] = before[j]) /\ t[Len(before) + 1] = r
    BY <1>1, <2>1, AppendProperties
  <2>3. DOMAIN t = 1..(Len(before) + 1)
    BY <2>2, LenProperties
  <2>4. Extends(t, before)
    BY <1>2, <2>2 DEF Extends
  <2>5. Len(before) + 1 \in DOMAIN t
    BY <1>2, <2>3
  <2>6. FoundIn(t, k)
    BY <1>1, <2>2, <2>5 DEF FoundIn
  <2>7. NoneCut(t) => NoneCut(before)
    BY <1>2, <2>2, <2>3 DEF NoneCut
  <2>8. ASSUME NoneCut(t), NEW j \in Kinds
        PROVE  \/ Times(t, OfKind(j)) = Times(before, OfKind(j))
               \/ (Times(t, OfKind(j)) = 1 /\ s.settled[j] > 0)
    <3>1. Times(t, OfKind(j)) = IF r \in OfKind(j) THEN Times(before, OfKind(j)) + 1
                                ELSE Times(before, OfKind(j))
      BY <1>1, <2>1, TimesAppend
    <3>2. CASE j # k
      <4>1. r \notin OfKind(j)
        BY <1>1, <3>2 DEF OfKind
      <4> QED BY <3>1, <4>1
    <3>3. CASE j = k
      <4>1. r \in OfKind(j)
        BY <1>1, <3>3 DEF OfKind
      <4>2. ~r.cut
        BY <2>2, <2>5, <2>8 DEF NoneCut
      <4>3. ASSUME NEW i \in DOMAIN before, before[i] \in OfKind(k) PROVE FALSE
        <5>1. ~before[i].cut
          BY <2>7, <2>8, <4>3 DEF NoneCut
        <5>2. before[i].kind = k /\ ~before[i].pending
          BY <4>3 DEF OfKind, PostedRow
        <5>3. Recognised(k, k \in s.cut, before[i])
          BY <1>1, <4>2, <5>1, <5>2 DEF Recognised, Exactly
        <5> QED BY <1>6, <4>3, <5>3
      <4>4. Places(before, OfKind(k)) = {}
        BY <4>3 DEF Places
      <4>5. Times(before, OfKind(j)) = 0
        BY <3>3, <4>4, FS_EmptySet DEF Times
      <4> QED BY <1>3, <1>6, <3>1, <3>3, <4>1, <4>5
    <3> QED BY <3>2, <3>3
  <2> QED BY <2>2, <2>4, <2>6, <2>7, <2>8
<1> QED BY <1>4, <1>5, <1>6

LEMMA InsertPostedFacts ==
  ASSUME NEW s \in Pages, NEW kept \in Seq(PostedRow)
  PROVE  /\ InsertPosted(s, kept) \in Seq(PostedRow)
         /\ Extends(InsertPosted(s, kept), kept)
         /\ \A k \in Kinds : s.settled[k] > 0 => FoundIn(InsertPosted(s, kept), k)
         /\ NoneCut(InsertPosted(s, kept)) =>
              \A k \in Kinds : FirstOfKind(s, kept, InsertPosted(s, kept), k)
<1> DEFINE n == Len(Listing)
<1>1. n \in Nat /\ \A i \in 1..n : Oldest(i) \in Kinds
  BY ListedOnce
<1>2. PICK f \in [0..n -> Seq(PostedRow)] :
        /\ f[0] = kept
        /\ \A i \in 1..n : f[i] = KnownAfter(s, Oldest(i), f[i - 1])
        /\ f[n] = InsertPosted(s, kept)
  BY PostedRuns
<1> HIDE DEF n
<1> DEFINE Good == {i \in 0..n :
                      /\ Extends(f[i], kept)
                      /\ \A m \in 1..i : s.settled[Oldest(m)] > 0 => FoundIn(f[i], Oldest(m))
                      /\ NoneCut(f[i]) => \A k \in Kinds : FirstOfKind(s, kept, f[i], k)}
<1>3. 0 \in Good
  <2>1. \A k \in Kinds : FirstOfKind(s, kept, kept, k)
    BY DEF FirstOfKind
  <2>2. 1..0 = {} /\ 0 \in 0..n
    BY <1>1
  <2> QED BY <1>2, <2>1, <2>2, ExtendsSelf
<1>4. ASSUME NEW i \in 0..n, i < n, i \in Good PROVE i + 1 \in Good
  <2>1. i + 1 \in 1..n /\ (i + 1) - 1 = i /\ i + 1 \in 0..n
    BY <1>1, <1>4
  <2> DEFINE a == f[i]
             t == f[i + 1]
             h == Oldest(i + 1)
  <2>2. a \in Seq(PostedRow) /\ t = KnownAfter(s, h, a) /\ h \in Kinds
    BY <1>1, <1>2, <2>1
  <2>3. /\ Extends(a, kept)
        /\ \A m \in 1..i : s.settled[Oldest(m)] > 0 => FoundIn(a, Oldest(m))
        /\ NoneCut(a) => \A k \in Kinds : FirstOfKind(s, kept, a, k)
    BY <1>4
  <2> HIDE DEF a, t
  <2>4. /\ t \in Seq(PostedRow) /\ Extends(t, a)
        /\ s.settled[h] > 0 => FoundIn(t, h)
        /\ NoneCut(t) => NoneCut(a)
        /\ NoneCut(t) => \A j \in Kinds : \/ Times(t, OfKind(j)) = Times(a, OfKind(j))
                                          \/ (Times(t, OfKind(j)) = 1 /\ s.settled[j] > 0)
    <3> HIDE DEF h
    <3> QED BY <2>2, KnownStep
  <2>5. Extends(t, kept)
    BY <2>2, <2>3, <2>4, ExtendsTransitive
  <2>6. ASSUME NEW m \in 1..(i + 1), s.settled[Oldest(m)] > 0 PROVE FoundIn(t, Oldest(m))
    <3>1. CASE m = i + 1
      BY <2>4, <2>6, <3>1
    <3>2. CASE m # i + 1
      <4>1. m \in 1..i
        BY <3>2
      <4>2. PICK j \in DOMAIN a : Stem[a[j].kind] = Stem[Oldest(m)]
        BY <2>3, <2>6, <4>1 DEF FoundIn
      <4>3. /\ DOMAIN a = 1..Len(a) /\ DOMAIN t = 1..Len(t)
            /\ Len(a) \in Nat /\ Len(t) \in Nat
        BY <2>2, <2>4, LenProperties
      <4>4. j \in DOMAIN t /\ t[j] = a[j]
        BY <2>4, <4>2, <4>3 DEF Extends
      <4> QED BY <4>2, <4>4 DEF FoundIn
    <3> QED BY <3>1, <3>2
  <2>7. ASSUME NoneCut(t), NEW k \in Kinds PROVE FirstOfKind(s, kept, t, k)
    BY <2>3, <2>4, <2>7 DEF FirstOfKind
  <2> QED BY <2>1, <2>5, <2>6, <2>7 DEF t
<1>5. \A i \in 0..n : i \in Good
  <2> HIDE DEF Good
  <2> QED BY <1>1, <1>3, <1>4, IntervalInduction
<1>6. n \in 0..n /\ \A k \in Kinds : \E m \in 1..n : Oldest(m) = k
  BY <1>1, ListedOnce DEF n
<1> QED BY <1>2, <1>5, <1>6

-----------------------------------------------------------------------------
(* A sync, for any account and page.                                       *)

\* A row appended to those that are there, a posted one.
LEMMA SettledAppend ==
  ASSUME NEW s \in Seq(TxRow), NEW r \in PostedRow
  PROVE  SumOf(Append(s, r), Settled(Append(s, r))) = SumOf(s, Settled(s)) + AmountOf(r)
<1> DEFINE t == Append(s, r)
           n == Len(s) + 1
<1>1. /\ t \in Seq(TxRow) /\ Len(s) \in Nat /\ Len(t) = n
      /\ (\A i \in 1..Len(s) : t[i] = s[i]) /\ t[n] = r /\ r \in TxRow /\ ~r.pending
  BY AppendProperties, LenProperties DEF PostedRow
<1>2. /\ DOMAIN t = 1..n /\ DOMAIN s = 1..Len(s) /\ n \notin 1..Len(s)
      /\ \A i : i \in 1..n <=> i \in 1..Len(s) \/ i = n
  BY <1>1, LenProperties
<1> HIDE DEF t, n
<1>3. /\ Settled(t) \ Settled(s) = {n} /\ Settled(s) \in SUBSET Settled(t)
      /\ Settled(t) \in SUBSET DOMAIN t /\ Settled(s) \in SUBSET DOMAIN s
      /\ n \in DOMAIN t /\ {n} \in SUBSET DOMAIN t
  BY <1>1, <1>2 DEF Settled
<1>4. SumOf(t, Settled(t)) = SumOf(t, Settled(s)) + SumOf(t, {n})
  BY <1>1, <1>3, SumOfSplit
<1>5. SumOf(t, Settled(s)) = SumOf(s, Settled(s))
  <2>1. Settled(s) \in SUBSET DOMAIN t /\ \A i \in Settled(s) : s[i] = t[i]
    BY <1>1, <1>2, <1>3
  <2> HIDE DEF Settled
  <2> QED BY <1>1, <1>3, <2>1, SumOfAgree
<1>6. SumOf(t, {n}) = AmountOf(r)
  <2>1. SumOf(t, {n}) = SumFunctionOnSet(Amounts(t), {n}) /\ IsFiniteSet({n})
    BY <1>1, <1>3, SumOfIsSum
  <2>2. Amounts(t)[n] = AmountOf(r) /\ AmountOf(r) \in Int
    BY <1>1, <1>3, AmountInt DEF Amounts
  <2>3. SumFunctionOnSet(Amounts(t), {n}) = Amounts(t)[n]
    BY <2>1, <2>2, SumSingle
  <2> QED BY <2>1, <2>2, <2>3
<1> QED BY <1>4, <1>5, <1>6 DEF t

\* What is kept of old are its posted rows, all of them.
LEMMA KeepsPosted ==
  ASSUME NEW old \in Seq(TxRow)
  PROVE  /\ Settled(old) \in SUBSET DOMAIN old
         /\ Kept(old, Settled(old)) \in Seq(PostedRow)
         /\ Total(Kept(old, Settled(old))) = SumOf(old, Settled(old))
         /\ \A k \in Kinds : Times(Kept(old, Settled(old)), OfKind(k)) = Times(old, OfKind(k))
         /\ NoneCut(Kept(old, Settled(old))) => \A i \in Settled(old) : ~old[i].cut
<1> DEFINE I == Settled(old)
<1>1. I \in SUBSET DOMAIN old /\ \A i \in DOMAIN old : i \in I <=> ~old[i].pending
  BY DEF Settled
<1>2. \A i \in DOMAIN old : old[i] \in TxRow
  BY LenProperties, ElementOfSeq
<1>3. (\A i \in I : old[i] \in PostedRow) /\ PostedRow \in SUBSET TxRow
  BY <1>1, <1>2 DEF PostedRow
<1> HIDE DEF I
<1>4. \A U : /\ Kept(old, I) \in Seq(PostedRow)
             /\ Total(Kept(old, I)) = SumOf(old, I)
             /\ Times(Kept(old, I), U) = Cardinality({i \in I : old[i] \in U})
  BY <1>1, <1>3, KeptFacts
<1>5. ASSUME NEW k \in Kinds PROVE Times(Kept(old, I), OfKind(k)) = Times(old, OfKind(k))
  <2>1. {i \in I : old[i] \in OfKind(k)} = Places(old, OfKind(k))
    BY <1>1 DEF Places, OfKind, PostedRow
  <2> QED BY <1>4, <2>1 DEF Times
<1>6. ASSUME NoneCut(Kept(old, I)), NEW i \in I PROVE ~old[i].cut
  <2> DEFINE U == {r \in PostedRow : r.cut}
             C == {j \in I : old[j] \in U}
  <2>1. \A j \in DOMAIN Kept(old, I) : Kept(old, I)[j] \notin U
    BY <1>6 DEF NoneCut
  <2>2. Places(Kept(old, I), U) = {}
    BY <2>1 DEF Places
  <2>3. Cardinality(C) = 0
    <3>1. Times(Kept(old, I), U) = Cardinality(C)
      <4> HIDE DEF U
      <4> QED BY <1>4
    <3>2. Times(Kept(old, I), U) = 0
      BY <2>2, FS_EmptySet DEF Times
    <3> QED BY <3>1, <3>2
  <2>4. IsFiniteSet(C)
    <3>1. C \in SUBSET (1..Len(old)) /\ Len(old) \in Nat
      BY <1>1, LenProperties
    <3>2. IsFiniteSet(1..Len(old))
      BY <3>1, FS_Interval
    <3> QED BY <3>1, <3>2, FS_Subset
  <2>5. C = {}
    <3> HIDE DEF C
    <3> QED BY <2>3, <2>4, FS_EmptySet
  <2> QED BY <1>3, <2>5
<1> QED BY <1>1, <1>4, <1>5, <1>6 DEF I

\* The pending rows of kind k.
WaitingRow(k) == {r \in PendingRow : r.kind = k}
PendingPart(s) == [k \in Kinds |-> [n \in 1..s.waiting[k] |-> New(k, TRUE, FALSE)]]

Repeated(r, n) == [i \in 1..n |-> r]

LEMMA RepeatedSeq ==
  ASSUME NEW V, NEW n \in Nat, NEW r \in V
  PROVE  /\ Repeated(r, n) \in Seq(V)
         /\ \A i \in DOMAIN Repeated(r, n) : Repeated(r, n)[i] = r
<1>1. Repeated(r, n) \in [1..n -> V]
  BY DEF Repeated
<1> QED BY <1>1, IsASeq DEF Repeated

LEMMA RepeatedTimes ==
  ASSUME NEW n \in Nat, NEW r, NEW W
  PROVE  /\ r \in W => Times(Repeated(r, n), W) = n
         /\ r \notin W => Times(Repeated(r, n), W) = 0
<1>1. DOMAIN Repeated(r, n) = 1..n /\ \A i \in 1..n : Repeated(r, n)[i] = r
  BY DEF Repeated
<1>2. ASSUME r \in W PROVE Times(Repeated(r, n), W) = n
  <2>1. Places(Repeated(r, n), W) = 1..n
    BY <1>1, <1>2 DEF Places
  <2>2. Cardinality(1..n) = n
    BY FS_Interval
  <2> QED BY <2>1, <2>2 DEF Times
<1>3. ASSUME r \notin W PROVE Times(Repeated(r, n), W) = 0
  <2>1. Places(Repeated(r, n), W) = {}
    BY <1>1, <1>3 DEF Places
  <2> QED BY <2>1, FS_EmptySet DEF Times
<1> QED BY <1>2, <1>3

LEMMA PendingPartFacts ==
  ASSUME NEW s \in Pages
  PROVE  /\ PendingPart(s) \in [Kinds -> Seq(PendingRow)]
         /\ \A j, k \in Kinds :
              Times(PendingPart(s)[j], WaitingRow(k)) = IF j = k THEN s.waiting[k] ELSE 0
         /\ \A j \in Kinds : \A i \in DOMAIN PendingPart(s)[j] : ~PendingPart(s)[j][i].cut
<1>1. s.waiting \in [Kinds -> Nat]
  BY DEF Pages, Counts
<1>2. ASSUME NEW j \in Kinds
      PROVE  /\ New(j, TRUE, FALSE) \in PendingRow /\ ~New(j, TRUE, FALSE).cut
             /\ New(j, TRUE, FALSE).kind = j
             /\ PendingPart(s)[j] = Repeated(New(j, TRUE, FALSE), s.waiting[j])
  BY NewRow DEF PendingRow, PendingPart, Repeated
<1>3. ASSUME NEW j \in Kinds, NEW k \in Kinds
      PROVE  /\ PendingPart(s)[j] \in Seq(PendingRow)
             /\ Times(PendingPart(s)[j], WaitingRow(k)) = IF j = k THEN s.waiting[k] ELSE 0
  <2> DEFINE r == New(j, TRUE, FALSE)
  <2>1. r \in PendingRow /\ r.kind = j /\ s.waiting[j] \in Nat
    BY <1>1, <1>2
  <2>2. r \in WaitingRow(k) <=> j = k
    BY <2>1 DEF WaitingRow
  <2> DEFINE m == s.waiting[j]
             W == WaitingRow(k)
  <2>3. m \in Nat
    BY <2>1
  <2> HIDE DEF r, m, W
  <2>4. Repeated(r, m) \in Seq(PendingRow)
    BY <2>1, <2>3, RepeatedSeq
  <2>5. /\ r \in W => Times(Repeated(r, m), W) = m
        /\ r \notin W => Times(Repeated(r, m), W) = 0
    BY <2>3, RepeatedTimes
  <2> QED BY <1>2, <2>2, <2>4, <2>5 DEF r, m, W
<1>4. ASSUME NEW j \in Kinds, NEW i \in DOMAIN PendingPart(s)[j]
      PROVE  ~PendingPart(s)[j][i].cut
  <2> DEFINE r == New(j, TRUE, FALSE)
             m == s.waiting[j]
  <2>1. m \in Nat /\ r \in PendingRow /\ ~r.cut /\ PendingPart(s)[j] = Repeated(r, m)
    BY <1>1, <1>2
  <2> HIDE DEF r, m
  <2>2. \A h \in DOMAIN Repeated(r, m) : Repeated(r, m)[h] = r
    BY <2>1, RepeatedSeq
  <2> QED BY <2>1, <2>2
<1>5. PendingPart(s) \in [Kinds -> Seq(PendingRow)]
  BY <1>3 DEF PendingPart
<1> QED BY <1>3, <1>4, <1>5

\* The rows a sync of page s leaves, known the posted ones among them: they come
\* first, and then what the page shows as pending.
LEMMA InsertPendingFacts ==
  ASSUME NEW s \in Pages, NEW known \in Seq(PostedRow)
  PROVE  /\ InsertPending(s, known) \in Seq(TxRow)
         /\ Extends(InsertPending(s, known), known)
         /\ Settled(InsertPending(s, known)) = DOMAIN known
         /\ \A k \in Kinds :
              /\ Times(InsertPending(s, known), WaitingRow(k)) = s.waiting[k]
              /\ Times(InsertPending(s, known), OfKind(k)) = Times(known, OfKind(k))
         /\ (\A i \in DOMAIN InsertPending(s, known) :
               InsertPending(s, known)[i].pending => ~InsertPending(s, known)[i].cut)
<1> DEFINE new == InsertPending(s, known)
           Whole == {r \in PendingRow : ~r.cut}
<1>1. new = FromOldest(known, PendingPart(s))
  BY DEF InsertPending, PendingPart
<1> HIDE DEF new
<1>2. /\ known \in Seq(TxRow) /\ PostedRow \in SUBSET TxRow
      /\ Whole \in SUBSET TxRow /\ PendingRow \in SUBSET TxRow
  BY SeqMonotonic DEF PostedRow, PendingRow
<1>3. \A j \in Kinds : PendingPart(s)[j] \in Seq(PendingRow)
  BY PendingPartFacts
<1>4. PendingPart(s) \in [Kinds -> Seq(Whole)]
  <2>1. ASSUME NEW j \in Kinds PROVE PendingPart(s)[j] \in Seq(Whole)
    <3> DEFINE p == PendingPart(s)[j]
    <3>1. p \in Seq(PendingRow) /\ \A i \in DOMAIN p : ~p[i].cut
      BY PendingPartFacts
    <3> HIDE DEF p
    <3>2. /\ DOMAIN p = 1..Len(p) /\ Len(p) \in Nat
          /\ \A i \in 1..Len(p) : p[i] \in PendingRow
      BY <3>1, LenProperties, ElementOfSeq
    <3>3. \A i \in 1..Len(p) : p[i] \in Whole
      BY <3>1, <3>2
    <3>4. p \in [1..Len(p) -> Whole]
      <4>1. p \in [1..Len(p) -> PendingRow]
        BY <3>1, LenProperties
      <4> QED BY <4>1, <3>3
    <3> QED BY <3>2, <3>4, IsASeq DEF p
  <2> QED BY <2>1, PendingPartFacts
<1>5. PendingPart(s) \in [Kinds -> Seq(TxRow)]
  <2>1. \A j \in Kinds : PendingPart(s)[j] \in Seq(TxRow)
    BY <1>2, <1>3, SeqMonotonic
  <2> QED BY <2>1, PendingPartFacts
<1>6. /\ new \in Seq(TxRow) /\ Extends(new, known)
      /\ \A j \in Len(known) + 1 .. Len(new) : new[j] \in Whole
  <2> HIDE DEF Whole
  <2> QED BY <1>1, <1>2, <1>4, FromOldestExtends
<1>7. /\ DOMAIN new = 1..Len(new) /\ DOMAIN known = 1..Len(known)
      /\ Len(new) \in Nat /\ Len(known) \in Nat /\ Len(known) <= Len(new)
      /\ \A i \in 1..Len(known) : new[i] = known[i] /\ known[i] \in PostedRow
  BY <1>6, LenProperties, ElementOfSeq DEF Extends
<1>8. \A i \in DOMAIN new : ~(i \in DOMAIN known) => i \in Len(known) + 1 .. Len(new)
  BY <1>7
<1>9. Settled(new) = DOMAIN known
  <2>1. ASSUME NEW i \in DOMAIN new PROVE ~new[i].pending <=> i \in DOMAIN known
    <3>1. CASE i \in DOMAIN known
      BY <1>7, <3>1 DEF PostedRow
    <3>2. CASE i \notin DOMAIN known
      BY <1>6, <1>8, <3>2 DEF PendingRow
    <3> QED BY <3>1, <3>2
  <2>2. DOMAIN known \subseteq DOMAIN new
    BY <1>7
  <2> QED BY <2>1, <2>2 DEF Settled
<1>10. ASSUME NEW i \in DOMAIN new, new[i].pending PROVE ~new[i].cut
  <2>1. i \notin DOMAIN known
    BY <1>7, <1>10 DEF PostedRow
  <2> QED BY <1>6, <1>8, <2>1
<1>11. ASSUME NEW k \in Kinds PROVE Times(new, WaitingRow(k)) = s.waiting[k]
  <2>1. \A j \in Kinds \ {k} : Times(PendingPart(s)[j], WaitingRow(k)) = 0
    BY PendingPartFacts
  <2>2. Times(new, WaitingRow(k))
          = Times(known, WaitingRow(k)) + Times(PendingPart(s)[k], WaitingRow(k))
    BY <1>1, <1>2, <1>5, <2>1, FromOldestTimes
  <2>3. Places(known, WaitingRow(k)) = {}
    BY <1>7 DEF Places, WaitingRow, PendingRow, PostedRow
  <2>4. Times(known, WaitingRow(k)) = 0
    BY <2>3, FS_EmptySet DEF Times
  <2>5. Times(PendingPart(s)[k], WaitingRow(k)) = s.waiting[k] /\ s.waiting[k] \in Nat
    BY PendingPartFacts DEF Pages, Counts
  <2> QED BY <2>2, <2>4, <2>5
<1>12. ASSUME NEW k \in Kinds PROVE Times(new, OfKind(k)) = Times(known, OfKind(k))
  <2>1. ASSUME NEW i \in DOMAIN new PROVE new[i] \in OfKind(k) <=> i \in Places(known, OfKind(k))
    <3>1. CASE i \in DOMAIN known
      BY <1>7, <3>1 DEF Places
    <3>2. CASE i \notin DOMAIN known
      BY <1>6, <1>8, <3>2 DEF Places, OfKind, PostedRow, PendingRow
    <3> QED BY <3>1, <3>2
  <2>2. DOMAIN known \subseteq DOMAIN new
    BY <1>7
  <2>3. Places(new, OfKind(k)) = Places(known, OfKind(k))
    BY <2>1, <2>2 DEF Places
  <2> QED BY <2>3 DEF Times
<1> QED BY <1>6, <1>9, <1>10, <1>11, <1>12 DEF new

\* What a sync keeps of old, the posted rows it then knows of, and all its rows.
KeptBy(old) == Kept(old, Settled(old))
KnownBy(s, old) == InsertPosted(s, KeptBy(old))
RowsBy(s, old) == InsertPending(s, KnownBy(s, old))

LEMMA SyncRows ==
  ASSUME NEW s \in Pages, NEW old \in Seq(TxRow)
  PROVE  /\ KeptBy(old) \in Seq(PostedRow) /\ KeptBy(old) \in Seq(TxRow)
         /\ KnownBy(s, old) \in Seq(PostedRow) /\ KnownBy(s, old) \in Seq(TxRow)
         /\ RowsBy(s, old) \in Seq(TxRow)
         /\ Extends(KnownBy(s, old), KeptBy(old))
         /\ Extends(RowsBy(s, old), KnownBy(s, old))
         /\ Extends(RowsBy(s, old), KeptBy(old))
         /\ Settled(RowsBy(s, old)) = DOMAIN KnownBy(s, old)
<1>1. KeptBy(old) \in Seq(PostedRow)
  BY KeepsPosted DEF KeptBy
<1>2. KnownBy(s, old) \in Seq(PostedRow) /\ Extends(KnownBy(s, old), KeptBy(old))
  BY <1>1, InsertPostedFacts DEF KnownBy
<1>3. /\ RowsBy(s, old) \in Seq(TxRow) /\ Extends(RowsBy(s, old), KnownBy(s, old))
      /\ Settled(RowsBy(s, old)) = DOMAIN KnownBy(s, old)
  BY <1>2, InsertPendingFacts DEF RowsBy
<1>4. KeptBy(old) \in Seq(TxRow) /\ KnownBy(s, old) \in Seq(TxRow)
  BY <1>1, <1>2, SeqMonotonic DEF PostedRow
<1>5. Extends(RowsBy(s, old), KeptBy(old))
  BY <1>2, <1>3, <1>4, ExtendsTransitive
<1> QED BY <1>1, <1>2, <1>3, <1>4, <1>5

\* The sums of a sync, for the balances.
LEMMA SyncSums ==
  ASSUME NEW s \in Pages, NEW old \in Seq(TxRow)
  PROVE  /\ Total(RowsBy(s, old))
              = Total(old) - SumOf(old, DOMAIN old \ Settled(old))
                + SumOf(RowsBy(s, old), Len(KeptBy(old)) + 1 .. Len(RowsBy(s, old)))
         /\ SumOf(RowsBy(s, old), Settled(RowsBy(s, old)))
              = SumOf(old, Settled(old))
                + SumOf(KnownBy(s, old), Len(KeptBy(old)) + 1 .. Len(KnownBy(s, old)))
         /\ SumOf(old, DOMAIN old \ Settled(old)) \in Int
         /\ SumOf(RowsBy(s, old), Len(KeptBy(old)) + 1 .. Len(RowsBy(s, old))) \in Int
         /\ SumOf(KnownBy(s, old), Len(KeptBy(old)) + 1 .. Len(KnownBy(s, old))) \in Int
         /\ Total(old) \in Int /\ SumOf(old, Settled(old)) \in Int
<1> DEFINE kept == KeptBy(old)
           known == KnownBy(s, old)
           new == RowsBy(s, old)
           wiped == DOMAIN old \ Settled(old)
<1>1. /\ kept \in Seq(TxRow) /\ known \in Seq(TxRow) /\ new \in Seq(TxRow)
      /\ Extends(known, kept) /\ Extends(new, known) /\ Extends(new, kept)
      /\ Settled(new) = DOMAIN known
  BY SyncRows
<1>2. Total(kept) = SumOf(old, Settled(old)) /\ Settled(old) \in SUBSET DOMAIN old
  BY KeepsPosted DEF KeptBy
<1>3. /\ Total(old) = SumOf(old, Settled(old)) + SumOf(old, wiped)
      /\ SumOf(old, wiped) \in Int /\ SumOf(old, Settled(old)) \in Int /\ Total(old) \in Int
  <2>1. DOMAIN old \in SUBSET DOMAIN old /\ wiped \in SUBSET DOMAIN old
    OBVIOUS
  <2>2. SumOf(old, DOMAIN old) = SumOf(old, Settled(old)) + SumOf(old, wiped)
    BY <1>2, <2>1, SumOfSplit
  <2>3. \A I \in SUBSET DOMAIN old : SumOf(old, I) \in Int
    BY SumOfIsSum
  <2> QED BY <1>2, <2>1, <2>2, <2>3 DEF Total
<1> HIDE DEF kept, known, new
<1>4. /\ Total(new) = Total(kept) + SumOf(new, Len(kept) + 1 .. Len(new))
      /\ SumOf(new, Len(kept) + 1 .. Len(new)) \in Int
  BY <1>1, TotalExtended
<1>5. /\ Total(known) = Total(kept) + SumOf(known, Len(kept) + 1 .. Len(known))
      /\ SumOf(known, Len(kept) + 1 .. Len(known)) \in Int
  BY <1>1, TotalExtended
<1>6. SumOf(new, Settled(new)) = Total(known)
  <2>1. /\ DOMAIN known = 1..Len(known) /\ DOMAIN new = 1..Len(new)
        /\ Len(known) \in Nat /\ Len(new) \in Nat
    BY <1>1, LenProperties
  <2>2. DOMAIN known \in SUBSET DOMAIN new /\ \A i \in DOMAIN known : known[i] = new[i]
    BY <1>1, <2>1 DEF Extends
  <2>3. DOMAIN known \in SUBSET DOMAIN known
    OBVIOUS
  <2>4. SumOf(known, DOMAIN known) = SumOf(new, DOMAIN known)
    BY <1>1, <2>2, <2>3, SumOfAgree
  <2> QED BY <1>1, <2>4 DEF Total
<1> QED BY <1>2, <1>3, <1>4, <1>5, <1>6 DEF kept, known, new

\* The step itself.
LEMMA SyncStep ==
  ASSUME NEW s \in Pages, Sync(s)
  PROVE  /\ UNCHANGED <<waiting, settled, client>>
         /\ rows' = RowsBy(s, rows) /\ Len(rows') <= MaxRows
         /\ available' = available - SumOf(rows, DOMAIN rows \ Settled(rows))
                         + SumOf(rows', Len(KeptBy(rows)) + 1 .. Len(rows'))
         /\ posted' = posted + SumOf(KnownBy(s, rows),
                                     Len(KeptBy(rows)) + 1 .. Len(KnownBy(s, rows)))
         /\ unalloc' = unalloc - SumOf(rows, DOMAIN rows \ Settled(rows))
                         + SumOf(rows', Len(KeptBy(rows)) + 1 .. Len(rows'))
         /\ report' = [page |-> [s EXCEPT !.cut = {}], mismatch |-> Mismatch(s),
                       snapshots |-> Snapshots(rows', available', posted')]
         /\ raced' = (raced \/ (client # Idle /\ Len(KnownBy(s, rows)) > Len(KeptBy(rows))))
<1>1. {i \in DOMAIN rows : ~Wiped(rows[i], s)} = Settled(rows)
  BY DEF Wiped, Settled
<1>2. {i \in DOMAIN rows : Wiped(rows[i], s)} = DOMAIN rows \ Settled(rows)
  BY DEF Wiped, Settled
<1> QED BY <1>1, <1>2 DEF Sync, bank, KeptBy, KnownBy, RowsBy, WipedAllocations

\* Every page that is posted is of this form.
LEMMA PagesArePages ==
  PossiblePages \subseteq Pages
<1>1. UpToCount \subseteq Counts
  <2>1. \A f \in UpToCount : f \in [Kinds -> 0..AllOf]
    BY DEF UpToCount
  <2>2. AllOf \in Int
    BY ListedOnce, ListingAssumption, SumNat DEF AllOf
  <2>3. 0..AllOf \subseteq Nat
    BY <2>2
  <2> QED BY <2>1, <2>3 DEF Counts
<1> QED BY <1>1 DEF PossiblePages, Pages

LEMMA EndingInt ==
  ASSUME NEW s \in Pages
  PROVE  Ending(s) \in Int
<1> DEFINE f == [k \in Kinds |-> s.settled[k] * Amount[k] + s.waiting[k] * Authorised[k]]
<1>1. \A k \in Kinds : s.settled[k] \in Nat /\ s.waiting[k] \in Nat
  BY DEF Pages, Counts
<1>2. \A k \in Kinds : Amount[k] \in Int /\ Authorised[k] \in Int
  BY AmountAssumption
<1>3. \A m, n \in Int : m * n \in Int
  OBVIOUS
<1>4. ASSUME NEW k \in Kinds PROVE f[k] \in Int
  <2>1. s.settled[k] * Amount[k] \in Int /\ s.waiting[k] * Authorised[k] \in Int
    BY <1>1, <1>2, <1>3
  <2> QED BY <2>1
<1> HIDE DEF f
<1>5. SumFunctionOnSet(f, Kinds) \in Int
  BY <1>4, ListedOnce, SumInt
<1> QED BY <1>5, BoundsAssumption DEF Ending, f

-----------------------------------------------------------------------------
(* Types.                                                                  *)

LEMMA StatementTypes ==
  ASSUME settled \in Counts
  PROVE  /\ Statement \in Seq(Kinds)
         /\ \A k \in Kinds : Times(Statement, {k}) = settled[k]
<1> DEFINE part == [k \in Kinds |-> [n \in 1..settled[k] |-> k]]
<1>1. ASSUME NEW k \in Kinds
      PROVE  settled[k] \in Nat /\ part[k] = Repeated(k, settled[k]) /\ part[k] \in Seq(Kinds)
  <2>1. settled[k] \in Nat /\ part[k] = Repeated(k, settled[k])
    BY DEF Counts, Repeated
  <2>2. Repeated(k, settled[k]) \in Seq(Kinds)
    BY <2>1, RepeatedSeq
  <2> QED BY <2>1, <2>2
<1>2. part \in [Kinds -> Seq(Kinds)]
  BY <1>1
<1>3. Statement = FromOldest(<<>>, part)
  BY DEF Statement
<1> HIDE DEF part
<1>4. <<>> \in Seq(Kinds) /\ Kinds \in SUBSET Kinds
  BY EmptySeq
<1>5. Statement \in Seq(Kinds)
  BY <1>2, <1>3, <1>4, FromOldestExtends
<1>6. ASSUME NEW k \in Kinds PROVE Times(Statement, {k}) = settled[k]
  <2>1. ASSUME NEW j \in Kinds \ {k} PROVE Times(part[j], {k}) = 0
    <3>1. j \notin {k} /\ settled[j] \in Nat /\ part[j] = Repeated(j, settled[j])
      BY <1>1
    <3>2. Times(Repeated(j, settled[j]), {k}) = 0
      BY <3>1, RepeatedTimes
    <3> QED BY <3>1, <3>2
  <2>2. Times(Statement, {k}) = Times(<<>>, {k}) + Times(part[k], {k})
    <3> DEFINE W == {k}
               none == <<>>
    <3>1. none \in Seq(Kinds) /\ Statement = FromOldest(none, part)
      BY <1>3, <1>4
    <3>2. \A j \in Kinds \ {k} : Times(part[j], W) = 0
      BY <2>1
    <3> HIDE DEF W, none
    <3>3. Times(FromOldest(none, part), W) = Times(none, W) + Times(part[k], W)
      BY <1>2, <3>1, <3>2, FromOldestTimes
    <3> QED BY <3>1, <3>3 DEF W, none
  <2>3. Times(<<>>, {k}) = 0
    BY TimesEmpty
  <2>4. Times(part[k], {k}) = settled[k] /\ settled[k] \in Nat
    <3>1. k \in {k} /\ settled[k] \in Nat /\ part[k] = Repeated(k, settled[k])
      BY <1>1
    <3>2. Times(Repeated(k, settled[k]), {k}) = settled[k]
      BY <3>1, RepeatedTimes
    <3> QED BY <3>1, <3>2
  <2> QED BY <2>2, <2>3, <2>4
<1> QED BY <1>5, <1>6

LEMMA RowsOfNat ==
  ASSUME rows \in Seq(TxRow), NEW k \in Kinds
  PROVE  /\ IsFiniteSet({i \in DOMAIN rows : HasKey(rows[i], k)})
         /\ RowsOf(k) \in Nat
<1>1. {i \in DOMAIN rows : HasKey(rows[i], k)} \in SUBSET (1..Len(rows)) /\ Len(rows) \in Nat
  BY LenProperties
<1>2. IsFiniteSet(1..Len(rows))
  BY <1>1, FS_Interval
<1>3. IsFiniteSet({i \in DOMAIN rows : HasKey(rows[i], k)})
  BY <1>1, <1>2, FS_Subset
<1> QED BY <1>3, FS_CardinalityType DEF RowsOf

Types ==
  /\ waiting \in Counts /\ settled \in Counts
  /\ rows \in Seq(TxRow) /\ Len(rows) <= MaxRows
  /\ available \in Int /\ posted \in Int /\ unalloc \in Int
  /\ (report = NoReport \/ (report.page \in Pages /\ report.mismatch \in Int))
  /\ client.todo \in Seq(Kinds) /\ client.have \in Counts
  /\ client = [todo |-> client.todo, have |-> client.have]
  /\ raced \in BOOLEAN

LEMMA TypesUnfolded ==
  TypeOK <=> Types
BY DEF TypeOK, Types, TxRow

LEMMA TypeInit ==
  Init => TypeOK
<1> SUFFICES ASSUME Init PROVE Types
  BY TypesUnfolded
<1>1. rows = <<>> /\ rows \in Seq(TxRow) /\ Len(rows) = 0
  BY EmptySeq DEF Init
<1>2. waiting \in Counts /\ settled \in Counts
  BY DEF Init, Counts
<1>3. /\ client.todo \in Seq(Kinds) /\ client.have \in Counts
      /\ client = [todo |-> client.todo, have |-> client.have]
  BY EmptySeq DEF Init, Idle, Counts
<1>4. available \in Int /\ posted \in Int /\ unalloc \in Int /\ report = NoReport
  BY BoundsAssumption DEF Init
<1>5. raced \in BOOLEAN
  BY DEF Init
<1>6. Len(rows) <= MaxRows
  BY <1>1, BoundsAssumption
<1> QED BY <1>1, <1>2, <1>3, <1>4, <1>5, <1>6 DEF Types

LEMMA TypeSync ==
  ASSUME TypeOK, NEW s \in Pages, Sync(s)
  PROVE  TypeOK'
<1>1. Types
  BY TypesUnfolded
<1>2. rows \in Seq(TxRow)
  BY <1>1 DEF Types
<1>3. /\ SumOf(rows, DOMAIN rows \ Settled(rows)) \in Int
      /\ SumOf(RowsBy(s, rows), Len(KeptBy(rows)) + 1 .. Len(RowsBy(s, rows))) \in Int
      /\ SumOf(KnownBy(s, rows), Len(KeptBy(rows)) + 1 .. Len(KnownBy(s, rows))) \in Int
  BY <1>2, SyncSums
<1>4. rows' = RowsBy(s, rows) /\ RowsBy(s, rows) \in Seq(TxRow)
  BY <1>2, SyncRows, SyncStep
<1>5. available' \in Int /\ posted' \in Int /\ unalloc' \in Int
  <2>1. available' = available - SumOf(rows, DOMAIN rows \ Settled(rows))
                     + SumOf(rows', Len(KeptBy(rows)) + 1 .. Len(rows'))
    BY SyncStep
  <2>2. posted' = posted + SumOf(KnownBy(s, rows),
                                 Len(KeptBy(rows)) + 1 .. Len(KnownBy(s, rows)))
    BY SyncStep
  <2>3. unalloc' = unalloc - SumOf(rows, DOMAIN rows \ Settled(rows))
                     + SumOf(rows', Len(KeptBy(rows)) + 1 .. Len(rows'))
    BY SyncStep
  <2>4. available \in Int /\ posted \in Int /\ unalloc \in Int
    BY <1>1 DEF Types
  <2> QED BY <1>3, <1>4, <2>1, <2>2, <2>3, <2>4
<1>6. report'.page \in Pages /\ report'.mismatch \in Int
  <2>1. Mismatch(s) = available' - Ending(s) /\ Ending(s) \in Int
    BY EndingInt DEF Mismatch
  <2>2. [s EXCEPT !.cut = {}] \in Pages
    BY DEF Pages
  <2>3. report' = [page |-> [s EXCEPT !.cut = {}], mismatch |-> Mismatch(s),
                   snapshots |-> Snapshots(rows', available', posted')]
    BY SyncStep
  <2>4. report'.page = [s EXCEPT !.cut = {}] /\ report'.mismatch = Mismatch(s)
    BY <2>3
  <2> QED BY <1>5, <2>1, <2>2, <2>4
<1>7. raced' \in BOOLEAN
  BY <1>1, SyncStep DEF Types
<1>8. UNCHANGED <<waiting, settled, client>> /\ Len(rows') <= MaxRows
  BY SyncStep
<1>9. Types'
  BY <1>1, <1>4, <1>5, <1>6, <1>7, <1>8 DEF Types
<1> QED BY <1>9, TypesUnfolded DEF TypeOK, Types, TxRow

LEMMA TypeStep ==
  ASSUME TypeOK, [Next]_vars
  PROVE  TypeOK'
<1>1. Types
  BY TypesUnfolded
<1>2. SUFFICES Types'
  BY DEF TypeOK, Types, TxRow
<1>3. CASE Read
  BY <1>1, <1>3 DEF Read, Types, bank, account
<1>4. ASSUME NEW k \in Kinds, Authorise(k) PROVE Types'
  BY <1>1, <1>4 DEF Authorise, Types, account, Counts
<1>5. ASSUME NEW k \in Kinds, Settle(k) PROVE Types'
  BY <1>1, <1>5 DEF Settle, Types, account, Counts
<1>6. ASSUME NEW k \in Kinds, DropCharge(k) PROVE Types'
  BY <1>1, <1>6 DEF DropCharge, Types, account, Counts
<1>7. ASSUME NEW s \in PossiblePages, Replay(s) PROVE Types'
  <2>1. s \in Pages /\ Sync(s)
    BY <1>7, PagesArePages DEF Replay
  <2>2. TypeOK'
    BY <2>1, TypeSync
  <2> QED BY <2>2 DEF TypeOK, Types, TxRow
<1>8. ASSUME NEW n \in 1..Len(Statement), Start(n) PROVE Types'
  <2>1. Statement \in Seq(Kinds)
    BY <1>1, StatementTypes DEF Types
  <2>2. SubSeq(Statement, 1, n) \in Seq(Kinds)
    BY <2>1, SubSeqProperties, LenProperties
  <2>3. \A k \in Kinds : RowsOf(k) \in Nat
    BY <1>1, RowsOfNat DEF Types
  <2>4. [k \in Kinds |-> RowsOf(k)] \in Counts
    BY <2>3 DEF Counts
  <2>5. client' = [todo |-> SubSeq(Statement, 1, n), have |-> [k \in Kinds |-> RowsOf(k)]]
    BY <1>8 DEF Start
  <2>6. client'.todo \in Seq(Kinds) /\ client'.have \in Counts
        /\ client' = [todo |-> client'.todo, have |-> client'.have]
    BY <2>2, <2>4, <2>5
  <2>7. UNCHANGED <<waiting, settled, rows, available, posted, unalloc, raced, report>>
    BY <1>8 DEF Start, bank, account
  <2> QED BY <1>1, <2>6, <2>7 DEF Types
<1>9. ASSUME client.todo # <<>>
      PROVE  NextKind \in Kinds /\ Tail(client.todo) \in Seq(Kinds)
  BY <1>1, <1>9, HeadTailProperties DEF Types, NextKind
<1>10. CASE Skip
  <2>1. /\ NextKind \in Kinds /\ Tail(client.todo) \in Seq(Kinds)
        /\ client.have[NextKind] \in Nat /\ client.have[NextKind] > 0
    BY <1>1, <1>9, <1>10 DEF Skip, Types, Counts
  <2>2. client' = [todo |-> Tail(client.todo),
                   have |-> [client.have EXCEPT ![NextKind] = @ - 1]]
    BY <1>10 DEF Skip, Found
  <2>3. [client.have EXCEPT ![NextKind] = @ - 1] \in Counts
    BY <1>1, <2>1 DEF Types, Counts
  <2>4. UNCHANGED <<waiting, settled, rows, available, posted, unalloc, raced, report>>
    BY <1>10 DEF Skip, bank, account
  <2> QED BY <1>1, <2>1, <2>2, <2>3, <2>4 DEF Types
<1>11. CASE Post
  <2>1. /\ NextKind \in Kinds /\ Tail(client.todo) \in Seq(Kinds)
        /\ Amount[NextKind] \in Int /\ Len(rows) < MaxRows
    BY <1>9, <1>11, AmountAssumption DEF Post
  <2> DEFINE r == New(NextKind, FALSE, FALSE)
  <2>2. r \in TxRow
    BY <2>1, NewRow
  <2> HIDE DEF r
  <2>3. rows' = Append(rows, r)
    BY <1>11 DEF Post, r
  <2>4. rows' \in Seq(TxRow) /\ Len(rows') = Len(rows) + 1 /\ Len(rows) \in Nat
    BY <1>1, <2>2, <2>3, AppendProperties, LenProperties DEF Types
  <2>5. client' = [client EXCEPT !.todo = Tail(@)]
    BY <1>11 DEF Post
  <2>6. client'.todo \in Seq(Kinds) /\ client'.have \in Counts
        /\ client' = [todo |-> client'.todo, have |-> client'.have]
    BY <1>1, <2>1, <2>5 DEF Types
  <2>7. /\ available' = available + Amount[NextKind] /\ posted' = posted + Amount[NextKind]
        /\ unalloc' = unalloc + Amount[NextKind] /\ UNCHANGED <<waiting, settled, raced, report>>
    BY <1>11 DEF Post, bank
  <2>8. Len(rows') <= MaxRows
    BY <2>1, <2>4, BoundsAssumption
  <2> QED BY <1>1, <2>1, <2>4, <2>6, <2>7, <2>8 DEF Types
<1>12. CASE Refused
  <2>1. Tail(client.todo) \in Seq(Kinds)
    BY <1>9, <1>12 DEF Refused
  <2>2. client' = [client EXCEPT !.todo = Tail(@)]
    BY <1>12 DEF Refused
  <2>3. client'.todo \in Seq(Kinds) /\ client'.have \in Counts
        /\ client' = [todo |-> client'.todo, have |-> client'.have]
    BY <1>1, <2>1, <2>2 DEF Types
  <2>4. UNCHANGED <<waiting, settled, rows, available, posted, unalloc, raced, report>>
    BY <1>12 DEF Refused, bank, account
  <2> QED BY <1>1, <2>3, <2>4 DEF Types
<1>13. CASE Finish
  <2>1. Idle.todo \in Seq(Kinds) /\ Idle.have \in Counts
        /\ Idle = [todo |-> Idle.todo, have |-> Idle.have]
    BY EmptySeq DEF Idle, Counts
  <2>2. client' = Idle
        /\ UNCHANGED <<waiting, settled, rows, available, posted, unalloc, raced, report>>
    BY <1>13 DEF Finish, bank, account
  <2> QED BY <1>1, <2>1, <2>2 DEF Types
<1>14. CASE UNCHANGED vars
  BY <1>1, <1>14 DEF vars, bank, account, Types
<1> QED
  BY <1>3, <1>4, <1>5, <1>6, <1>7, <1>8, <1>10, <1>11, <1>12, <1>13, <1>14 DEF Next, Act

\* Every reachable state has the types it should have: what the importer counts
\* never goes below zero, and no row has a kind, a page or a balance of another
\* form (service/sync_scrape.py, importers/import_transactions.py).
THEOREM TypeCorrect == Spec => []TypeOK
<1>1. TypeOK /\ [Next]_vars => TypeOK'
  BY TypeStep
<1> QED BY <1>1, TypeInit, PTL DEF Spec

-----------------------------------------------------------------------------
(* Balances.                                                               *)

LEMMA BalancesInit ==
  Init => BalancesExplained
<1> SUFFICES ASSUME Init PROVE BalancesExplained
  OBVIOUS
<1>1. rows = <<>> /\ rows \in Seq(TxRow) /\ DOMAIN rows = {}
  BY EmptySeq DEF Init
<1>2. Settled(rows) = {}
  BY <1>1 DEF Settled
<1>3. Total(rows) = 0 /\ SumOf(rows, Settled(rows)) = 0
  BY <1>1, <1>2, SumOfNothing DEF Total
<1> QED BY <1>3, BoundsAssumption DEF Init, BalancesExplained

LEMMA BalancesSync ==
  ASSUME TypeOK, BalancesExplained, NEW s \in Pages, Sync(s)
  PROVE  BalancesExplained'
<1>1. rows \in Seq(TxRow) /\ available \in Int /\ posted \in Int /\ unalloc \in Int
  BY TypesUnfolded DEF Types
<1>2. /\ available = Opening + Total(rows) /\ posted = Opening + SumOf(rows, Settled(rows))
      /\ unalloc = available /\ Opening \in Int
  BY BoundsAssumption DEF BalancesExplained
<1>3. rows' = RowsBy(s, rows)
  BY SyncStep
<1> DEFINE wiped == SumOf(rows, DOMAIN rows \ Settled(rows))
           inserted == SumOf(RowsBy(s, rows), Len(KeptBy(rows)) + 1 .. Len(RowsBy(s, rows)))
           more == SumOf(KnownBy(s, rows), Len(KeptBy(rows)) + 1 .. Len(KnownBy(s, rows)))
<1>4. available' = available - wiped + inserted
  BY <1>3, SyncStep
<1>5. posted' = posted + more
  BY SyncStep
<1>6. unalloc' = unalloc - wiped + inserted
  BY <1>3, SyncStep
<1>7. /\ Total(RowsBy(s, rows)) = Total(rows) - wiped + inserted
      /\ SumOf(RowsBy(s, rows), Settled(RowsBy(s, rows))) = SumOf(rows, Settled(rows)) + more
      /\ wiped \in Int /\ inserted \in Int /\ more \in Int
      /\ Total(rows) \in Int /\ SumOf(rows, Settled(rows)) \in Int
  BY <1>1, SyncSums
<1> HIDE DEF wiped, inserted, more
<1>8. available' = Opening + Total(RowsBy(s, rows))
  BY <1>2, <1>4, <1>7
<1>9. posted' = Opening + SumOf(RowsBy(s, rows), Settled(RowsBy(s, rows)))
  BY <1>2, <1>5, <1>7
<1>10. unalloc' = available'
  BY <1>2, <1>4, <1>6
<1> QED BY <1>3, <1>8, <1>9, <1>10 DEF BalancesExplained

LEMMA BalancesPost ==
  ASSUME TypeOK, BalancesExplained, Post
  PROVE  BalancesExplained'
<1> DEFINE r == New(NextKind, FALSE, FALSE)
<1>1. rows \in Seq(TxRow) /\ client.todo \in Seq(Kinds)
  BY TypesUnfolded DEF Types
<1>2. NextKind \in Kinds
  BY <1>1, HeadTailProperties DEF Post, NextKind
<1>3. r \in TxRow /\ r \in PostedRow /\ AmountOf(r) = Amount[NextKind]
  BY <1>2, NewRow DEF PostedRow, AmountOf
<1>4. rows' = Append(rows, r)
  BY DEF Post
<1> HIDE DEF r
<1>5. Total(rows') = Total(rows) + Amount[NextKind]
  BY <1>1, <1>3, <1>4, TotalAppend
<1>6. SumOf(rows', Settled(rows')) = SumOf(rows, Settled(rows)) + Amount[NextKind]
  BY <1>1, <1>3, <1>4, SettledAppend
<1>7. Total(rows) \in Int /\ SumOf(rows, Settled(rows)) \in Int
  <2>1. DOMAIN rows \in SUBSET DOMAIN rows /\ Settled(rows) \in SUBSET DOMAIN rows
    BY DEF Settled
  <2> QED BY <1>1, <2>1, SumOfIsSum DEF Total
<1>8. Amount[NextKind] \in Int
  BY <1>2, AmountAssumption
<1>9. /\ available' = available + Amount[NextKind] /\ posted' = posted + Amount[NextKind]
      /\ unalloc' = unalloc + Amount[NextKind]
  BY DEF Post
<1>10. /\ available = Opening + Total(rows) /\ posted = Opening + SumOf(rows, Settled(rows))
       /\ unalloc = available /\ Opening \in Int
  BY BoundsAssumption DEF BalancesExplained
<1>11. /\ available' = Opening + Total(rows') /\ posted' = Opening + SumOf(rows', Settled(rows'))
       /\ unalloc' = available'
  BY <1>5, <1>6, <1>7, <1>8, <1>9, <1>10
<1> QED BY <1>11 DEF BalancesExplained

\* Steps other than Sync and Post leave the account as it is.
LEMMA AccountOnlyBy ==
  ASSUME [Next]_vars
  PROVE  \/ \E s \in Pages : Sync(s)
         \/ Post
         \/ UNCHANGED account
<1>1. ASSUME NEW s \in PossiblePages, Replay(s) PROVE s \in Pages /\ Sync(s)
  BY <1>1, PagesArePages DEF Replay
<1>2. CASE Read
  BY <1>2 DEF Read
<1>3. CASE Act
  BY <1>1, <1>3 DEF Act, Authorise, Settle, DropCharge, Start, Skip, Refused, Finish
<1>4. CASE UNCHANGED vars
  BY <1>4 DEF vars
<1> QED BY <1>2, <1>3, <1>4 DEF Next

\* The deltas a sync accumulates over wiped and inserted rows, and those of each
\* posted row, keep both balances and Unallocated explained by the rows that are
\* there (service/sync_scrape.py, _sync_scrape_locked; transaction.create).
THEOREM BalancesCorrect == Spec => []BalancesExplained
<1>1. TypeOK /\ BalancesExplained /\ [Next]_vars => BalancesExplained'
  <2> SUFFICES ASSUME TypeOK, BalancesExplained, [Next]_vars PROVE BalancesExplained'
    OBVIOUS
  <2>1. CASE UNCHANGED account
    BY <2>1 DEF account, BalancesExplained
  <2> QED BY <2>1, AccountOnlyBy, BalancesSync, BalancesPost
<1> QED BY <1>1, BalancesInit, TypeCorrect, PTL DEF Spec

-----------------------------------------------------------------------------
(* Stored running balances.                                                *)

\* UpTo, of any rows.
Before(t, i, j) ==
  \/ i = j \/ Day[t[i].kind] < Day[t[j].kind]
  \/ Day[t[i].kind] = Day[t[j].kind] /\ i < j
Counted(t, withPending) == {i \in DOMAIN t : withPending \/ ~t[i].pending}
CountedBefore(t, j, withPending) ==
  {i \in DOMAIN t : Before(t, i, j) /\ (withPending \/ ~t[i].pending)}

\* Rolling back by the newer rows leaves those up to j.
LEMMA RolledBackTo ==
  ASSUME NEW t \in Seq(TxRow), NEW j \in DOMAIN t, NEW withPending \in BOOLEAN
  PROVE  /\ SumOf(t, Counted(t, withPending)) - RolledBack(t, j, withPending)
              = SumOf(t, CountedBefore(t, j, withPending))
         /\ SumOf(t, Counted(t, withPending)) \in Int
         /\ RolledBack(t, j, withPending) \in Int
         /\ SumOf(t, CountedBefore(t, j, withPending)) \in Int
<1> DEFINE I == Counted(t, withPending)
           J == CountedBefore(t, j, withPending)
           R == {i \in DOMAIN t : Newer(t, i, j) /\ (withPending \/ ~t[i].pending)}
<1>1. DOMAIN t = 1..Len(t) /\ Len(t) \in Nat /\ \A i \in DOMAIN t : t[i] \in TxRow
  BY LenProperties, ElementOfSeq
<1>2. \A i \in DOMAIN t : i \in Int /\ t[i].kind \in Kinds
  BY <1>1 DEF TxRow
<1>3. ASSUME NEW i \in DOMAIN t PROVE Newer(t, i, j) <=> ~Before(t, i, j)
  <2>1. i \in Int /\ j \in Int /\ Day[t[i].kind] \in Int /\ Day[t[j].kind] \in Int
    BY <1>2, ListingAssumption
  <2> QED BY <2>1 DEF Newer, Before
<1>4. R = I \ J /\ J \in SUBSET I /\ I \in SUBSET DOMAIN t
  <2>1. \A i \in DOMAIN t : i \in R <=> i \in I /\ i \notin J
    BY <1>3 DEF Counted, CountedBefore
  <2> QED BY <2>1 DEF Counted, CountedBefore
<1>5. RolledBack(t, j, withPending) = SumOf(t, R)
  BY DEF RolledBack
<1> HIDE DEF I, J, R
<1>6. SumOf(t, I) = SumOf(t, J) + SumOf(t, R)
  BY <1>4, SumOfSplit
<1>7. SumOf(t, I) \in Int /\ SumOf(t, J) \in Int /\ SumOf(t, R) \in Int
  <2>1. J \in SUBSET DOMAIN t /\ R \in SUBSET DOMAIN t
    BY <1>4
  <2> QED BY <1>4, <2>1, SumOfIsSum
<1> QED BY <1>5, <1>6, <1>7 DEF I, J

LEMMA SnapshotRow ==
  ASSUME NEW t, NEW avail, NEW post, NEW j \in DOMAIN t
  PROVE  /\ Snapshots(t, avail, post)[j].available = avail - RolledBack(t, j, TRUE)
         /\ Snapshots(t, avail, post)[j].posted = post - RolledBack(t, j, FALSE)
<1>1. Snapshots(t, avail, post)[j] = [available |-> avail - RolledBack(t, j, TRUE),
                                      posted |-> post - RolledBack(t, j, FALSE)]
  BY DEF Snapshots
<1> DEFINE a == avail - RolledBack(t, j, TRUE)
           p == post - RolledBack(t, j, FALSE)
<1>2. Snapshots(t, avail, post)[j] = [available |-> a, posted |-> p]
  BY <1>1
<1> HIDE DEF a, p
<1>3. Snapshots(t, avail, post)[j].available = a /\ Snapshots(t, avail, post)[j].posted = p
  BY <1>2
<1> QED BY <1>3 DEF a, p

LEMMA SnapshotsSync ==
  ASSUME TypeOK, BalancesExplained, NEW s \in Pages, Sync(s)
  PROVE  SnapshotsExplained'
<1>1. rows \in Seq(TxRow)
  BY TypesUnfolded DEF Types
<1>2. rows' \in Seq(TxRow)
  BY <1>1, SyncStep, SyncRows
<1>3. PICK t \in Seq(TxRow) : t = rows'
  BY <1>2
<1>4. BalancesExplained'
  BY BalancesSync
<1>5. available' = Opening + Total(t) /\ posted' = Opening + SumOf(t, Settled(t))
  BY <1>3, <1>4 DEF BalancesExplained
<1>6. report' = [page |-> [s EXCEPT !.cut = {}], mismatch |-> Mismatch(s),
                 snapshots |-> Snapshots(rows', available', posted')]
  BY SyncStep
<1>7. report'.snapshots = Snapshots(t, available', posted')
  BY <1>3, <1>6
<1>8. Counted(t, TRUE) = DOMAIN t /\ Counted(t, FALSE) = Settled(t)
  BY DEF Counted, Settled
<1>9. ASSUME NEW j \in DOMAIN t
      PROVE  /\ report'.snapshots[j].available = Opening + SumOf(t, CountedBefore(t, j, TRUE))
             /\ report'.snapshots[j].posted = Opening + SumOf(t, CountedBefore(t, j, FALSE))
  <2>1. /\ report'.snapshots[j].available = available' - RolledBack(t, j, TRUE)
        /\ report'.snapshots[j].posted = posted' - RolledBack(t, j, FALSE)
    BY <1>7, SnapshotRow
  <2>2. /\ Total(t) - RolledBack(t, j, TRUE) = SumOf(t, CountedBefore(t, j, TRUE))
        /\ Total(t) \in Int /\ RolledBack(t, j, TRUE) \in Int
    BY <1>8, RolledBackTo DEF Total
  <2>3. /\ SumOf(t, Settled(t)) - RolledBack(t, j, FALSE) = SumOf(t, CountedBefore(t, j, FALSE))
        /\ SumOf(t, Settled(t)) \in Int /\ RolledBack(t, j, FALSE) \in Int
    BY <1>8, RolledBackTo
  <2> DEFINE r == RolledBack(t, j, TRUE)
             q == RolledBack(t, j, FALSE)
             a == SumOf(t, CountedBefore(t, j, TRUE))
             p == SumOf(t, CountedBefore(t, j, FALSE))
  <2>4. /\ Total(t) - r = a /\ Total(t) \in Int /\ r \in Int
        /\ SumOf(t, Settled(t)) - q = p /\ SumOf(t, Settled(t)) \in Int /\ q \in Int
    BY <2>2, <2>3
  <2>5. report'.snapshots[j].available = available' - r /\ report'.snapshots[j].posted = posted' - q
    BY <2>1
  <2> HIDE DEF r, q, a, p
  <2>6. available' - r = Opening + a /\ posted' - q = Opening + p
    BY <1>5, <2>4, BoundsAssumption
  <2> QED BY <2>5, <2>6 DEF a, p
<1>10. ASSUME NEW j \in DOMAIN t
       PROVE  /\ SumUpTo(j, TRUE)' = Opening + SumOf(t, CountedBefore(t, j, TRUE))
              /\ SumUpTo(j, FALSE)' = Opening + SumOf(t, CountedBefore(t, j, FALSE))
  BY <1>3 DEF SumUpTo, UpTo, CountedBefore, Before
<1> QED BY <1>3, <1>9, <1>10 DEF SnapshotsExplained

\* A report is there only right after the sync that made it.
LEMMA ReportOnlyBy ==
  ASSUME [Next]_vars
  PROVE  \/ \E s \in Pages : Sync(s)
         \/ report' = NoReport
         \/ UNCHANGED vars
<1>1. ASSUME NEW s \in PossiblePages, Replay(s) PROVE s \in Pages /\ Sync(s)
  BY <1>1, PagesArePages DEF Replay
<1>2. CASE Read
  BY <1>2 DEF Read
<1>3. CASE report = NoReport /\ Act
  BY <1>1, <1>3 DEF Act, Authorise, Settle, DropCharge, Start, Skip, Post, Refused, Finish
<1> QED BY <1>2, <1>3 DEF Next

\* After a sync every row's stored balances are the opening balance plus the rows
\* up to it in the order the user sees, wherever late rows came in between
\* (service/transaction.py, recompute_transaction_snapshots).
THEOREM SnapshotsCorrect == Spec => []SnapshotsExplained
<1>1. Init => SnapshotsExplained
  BY DEF Init, SnapshotsExplained
<1>2. TypeOK /\ BalancesExplained /\ SnapshotsExplained /\ [Next]_vars => SnapshotsExplained'
  <2> SUFFICES ASSUME TypeOK, BalancesExplained, SnapshotsExplained, [Next]_vars
               PROVE  SnapshotsExplained'
    OBVIOUS
  <2>1. CASE report' = NoReport
    BY <2>1 DEF SnapshotsExplained, NoReport
  <2>2. CASE UNCHANGED vars
    BY <2>2 DEF vars, account, SnapshotsExplained, SumUpTo, UpTo
  <2> QED BY <2>1, <2>2, ReportOnlyBy, SnapshotsSync
<1> QED BY <1>1, <1>2, TypeCorrect, BalancesCorrect, PTL DEF Spec

-----------------------------------------------------------------------------
(* What is stored of the bank's charges.                                   *)

LEMMA StoredTimes ==
  ASSUME NEW t \in Seq(TxRow), NEW k \in Kinds
  PROVE  /\ Cardinality({i \in DOMAIN t : t[i].kind = k /\ t[i].pending = TRUE})
              = Times(t, WaitingRow(k))
         /\ Cardinality({i \in DOMAIN t : t[i].kind = k /\ t[i].pending = FALSE})
              = Times(t, OfKind(k))
<1>1. \A i \in DOMAIN t : t[i] \in TxRow
  BY LenProperties, ElementOfSeq
<1>2. \A i \in DOMAIN t : t[i].pending \in BOOLEAN
  BY <1>1 DEF TxRow
<1>3. \A i \in DOMAIN t : t[i].kind = k /\ t[i].pending = TRUE <=> t[i] \in WaitingRow(k)
  BY <1>1, <1>2 DEF WaitingRow, PendingRow
<1>4. \A i \in DOMAIN t : t[i].kind = k /\ t[i].pending = FALSE <=> t[i] \in OfKind(k)
  BY <1>1, <1>2 DEF OfKind, PostedRow
<1>5. {i \in DOMAIN t : t[i].kind = k /\ t[i].pending = TRUE} = Places(t, WaitingRow(k))
  BY <1>3 DEF Places
<1>6. {i \in DOMAIN t : t[i].kind = k /\ t[i].pending = FALSE} = Places(t, OfKind(k))
  BY <1>4 DEF Places
<1> QED BY <1>5, <1>6 DEF Times

LEMMA StoredIs ==
  ASSUME rows \in Seq(TxRow), NEW k \in Kinds
  PROVE  /\ Stored(k, TRUE) = Times(rows, WaitingRow(k))
         /\ Stored(k, FALSE) = Times(rows, OfKind(k))
BY StoredTimes DEF Stored

LEMMA StoredIsNext ==
  ASSUME rows' \in Seq(TxRow), NEW k \in Kinds
  PROVE  /\ Stored(k, TRUE)' = Times(rows', WaitingRow(k))
         /\ Stored(k, FALSE)' = Times(rows', OfKind(k))
<1>1. PICK t \in Seq(TxRow) : t = rows'
  OBVIOUS
<1>2. /\ Stored(k, TRUE)' = Cardinality({i \in DOMAIN t : t[i].kind = k /\ t[i].pending = TRUE})
      /\ Stored(k, FALSE)' = Cardinality({i \in DOMAIN t : t[i].kind = k /\ t[i].pending = FALSE})
  BY <1>1 DEF Stored
<1> QED BY <1>1, <1>2, StoredTimes

LEMMA CurrentSync ==
  ASSUME TypeOK, NEW s \in Pages, Sync(s)
  PROVE  CurrentScrapeWins'
<1> SUFFICES ASSUME report'.page = Page({})', NEW k \in Kinds
             PROVE  /\ Stored(k, TRUE)' = waiting'[k]
                    /\ settled'[k] > 0 =>
                         \E i \in DOMAIN rows' : ~rows'[i].pending /\ Stem[rows'[i].kind] = Stem[k]
  BY DEF CurrentScrapeWins
<1>1. rows \in Seq(TxRow)
  BY TypesUnfolded DEF Types
<1> DEFINE known == KnownBy(s, rows)
           new == RowsBy(s, rows)
<1>2. /\ known \in Seq(PostedRow) /\ new \in Seq(TxRow)
      /\ Extends(new, known) /\ KeptBy(rows) \in Seq(PostedRow)
  BY <1>1, SyncRows
<1>3. rows' = new /\ UNCHANGED <<waiting, settled>>
  BY SyncStep
<1>4. s.settled = settled' /\ s.waiting = waiting'
  <2>1. report' = [page |-> [s EXCEPT !.cut = {}], mismatch |-> Mismatch(s),
                   snapshots |-> Snapshots(rows', available', posted')]
    BY SyncStep
  <2>2. report'.page = [s EXCEPT !.cut = {}]
    BY <2>1
  <2>3. Page({})' = [settled |-> settled', waiting |-> waiting', cut |-> {}]
    BY DEF Page
  <2>4. [s EXCEPT !.cut = {}].settled = s.settled /\ [s EXCEPT !.cut = {}].waiting = s.waiting
    BY DEF Pages
  <2> QED BY <2>2, <2>3, <2>4
<1>5. Stored(k, TRUE)' = waiting'[k]
  <2>1. Times(InsertPending(s, known), WaitingRow(k)) = s.waiting[k]
    <3> HIDE DEF known
    <3> QED BY <1>2, InsertPendingFacts
  <2>2. Times(new, WaitingRow(k)) = s.waiting[k]
    BY <2>1 DEF RowsBy
  <2>3. Stored(k, TRUE)' = Times(new, WaitingRow(k))
    BY <1>2, <1>3, StoredIsNext
  <2> QED BY <1>4, <2>2, <2>3
<1>6. ASSUME settled'[k] > 0
      PROVE  \E i \in DOMAIN rows' : ~rows'[i].pending /\ Stem[rows'[i].kind] = Stem[k]
  <2>1. s.settled[k] > 0
    BY <1>4, <1>6
  <2>2. FoundIn(known, k)
    BY <1>2, <2>1, InsertPostedFacts DEF KnownBy
  <2>3. PICK i \in DOMAIN known : Stem[known[i].kind] = Stem[k]
    BY <2>2 DEF FoundIn
  <2>4. /\ DOMAIN known = 1..Len(known) /\ DOMAIN new = 1..Len(new)
        /\ Len(known) \in Nat /\ Len(new) \in Nat /\ \A j \in DOMAIN known : known[j] \in PostedRow
    BY <1>2, LenProperties, ElementOfSeq
  <2>5. i \in DOMAIN new /\ new[i] = known[i] /\ ~known[i].pending
    BY <1>2, <2>4 DEF Extends, PostedRow
  <2> QED BY <1>3, <2>3, <2>5
<1> QED BY <1>5, <1>6

\* A sync of the page as it is now leaves no trace of what was pending before,
\* and something of everything that is posted (_sync_scrape_locked: the wipe of
\* pending rows, the insertion of those the bank shows).
THEOREM CurrentScrapeCorrect == Spec => []CurrentScrapeWins
<1>1. Init => CurrentScrapeWins
  BY DEF Init, CurrentScrapeWins
<1>2. TypeOK /\ CurrentScrapeWins /\ [Next]_vars => CurrentScrapeWins'
  <2> SUFFICES ASSUME TypeOK, CurrentScrapeWins, [Next]_vars
               PROVE  CurrentScrapeWins'
    OBVIOUS
  <2>1. CASE report' = NoReport
    BY <2>1 DEF CurrentScrapeWins, NoReport
  <2>2. CASE UNCHANGED vars
    BY <2>2 DEF vars, account, bank, CurrentScrapeWins, Stored, Page
  <2> QED BY <2>1, <2>2, ReportOnlyBy, CurrentSync
<1> QED BY <1>1, <1>2, TypeCorrect, PTL DEF Spec

-----------------------------------------------------------------------------
(* Stored once.                                                            *)

\* Only posted rows have a description cut short.
PendingWhole == \A i \in DOMAIN rows : rows[i].pending => ~rows[i].cut

\* The posted rows of a kind and those the importer is still to post are no
\* more than the bank has.
Due(k) == Stored(k, FALSE) + Times(client.todo, {k}) - client.have[k]
NoneTooMany ==
  ~raced /\ ~SomeCut =>
    \A k \in Kinds : Stored(k, FALSE) <= settled[k] /\ Due(k) <= settled[k]

LEMMA SyncCut ==
  ASSUME TypeOK, PendingWhole, NEW s \in Pages, Sync(s)
  PROVE  /\ PendingWhole'
         /\ ~SomeCut' => NoneCut(KnownBy(s, rows)) /\ NoneCut(KeptBy(rows)) /\ ~SomeCut
<1>1. rows \in Seq(TxRow)
  BY TypesUnfolded DEF Types
<1> DEFINE kept == KeptBy(rows)
           known == KnownBy(s, rows)
           new == RowsBy(s, rows)
<1>2. /\ known \in Seq(PostedRow) /\ new \in Seq(TxRow) /\ kept \in Seq(PostedRow)
      /\ Extends(new, known) /\ Extends(known, kept)
  BY <1>1, SyncRows
<1>3. rows' = new
  BY SyncStep
<1>4. PendingWhole'
  <2>1. \A i \in DOMAIN new : new[i].pending => ~new[i].cut
    <3>1. new = InsertPending(s, known)
      BY DEF RowsBy
    <3> HIDE DEF known, new
    <3> QED BY <1>2, <3>1, InsertPendingFacts
  <2> QED BY <1>3, <2>1 DEF PendingWhole
<1>5. ASSUME ~SomeCut' PROVE NoneCut(known) /\ NoneCut(kept) /\ ~SomeCut
  <2>1. /\ DOMAIN kept = 1..Len(kept) /\ DOMAIN known = 1..Len(known) /\ DOMAIN new = 1..Len(new)
        /\ Len(kept) \in Nat /\ Len(known) \in Nat /\ Len(new) \in Nat
    BY <1>2, LenProperties
  <2>2. \A i \in DOMAIN new : ~new[i].cut
    BY <1>3, <1>5 DEF SomeCut
  <2> HIDE DEF kept, known, new
  <2>3. NoneCut(known)
    BY <1>2, <2>1, <2>2 DEF Extends, NoneCut
  <2>4. NoneCut(kept)
    BY <1>2, <2>1, <2>3 DEF Extends, NoneCut
  <2>5. \A i \in Settled(rows) : ~rows[i].cut
    BY <1>1, <2>4, KeepsPosted DEF KeptBy, kept
  <2>6. \A i \in DOMAIN rows : ~rows[i].cut
    BY <2>5 DEF Settled, PendingWhole
  <2> QED BY <2>3, <2>4, <2>6 DEF SomeCut
<1> QED BY <1>4, <1>5

\* A sync adds the first row of a kind, of a charge the bank has posted.
LEMMA OnceSync ==
  ASSUME TypeOK, PendingWhole, NoneTooMany, NEW s \in Pages, Sync(s),
         \A k \in Kinds : s.settled[k] <= settled[k]
  PROVE  NoneTooMany'
<1> SUFFICES ASSUME ~raced', ~SomeCut', NEW k \in Kinds
             PROVE  Stored(k, FALSE)' <= settled'[k] /\ Due(k)' <= settled'[k]
  BY DEF NoneTooMany
<1>1. rows \in Seq(TxRow) /\ settled \in Counts /\ client.have \in Counts
      /\ client.todo \in Seq(Kinds) /\ raced \in BOOLEAN
  BY TypesUnfolded DEF Types
<1> DEFINE kept == KeptBy(rows)
           known == KnownBy(s, rows)
           new == RowsBy(s, rows)
           T(t) == Times(t, OfKind(k))
<1>2. /\ known \in Seq(PostedRow) /\ new \in Seq(TxRow) /\ kept \in Seq(PostedRow)
      /\ Extends(known, kept)
  BY <1>1, SyncRows
<1>3. /\ rows' = new /\ settled' = settled /\ client' = client
      /\ raced' = (raced \/ (client # Idle /\ Len(known) > Len(kept)))
  BY SyncStep
<1>4. NoneCut(known) /\ ~SomeCut
  BY SyncCut
<1>5. ~raced /\ ~(client # Idle /\ Len(known) > Len(kept))
  BY <1>1, <1>3
<1>6. Stored(k, FALSE) <= settled[k] /\ Due(k) <= settled[k]
  BY <1>4, <1>5 DEF NoneTooMany
<1>7. Stored(k, FALSE) = T(rows) /\ Stored(k, FALSE)' = T(new)
  BY <1>1, <1>2, <1>3, StoredIs, StoredIsNext
<1>8. T(kept) = T(rows)
  BY <1>1, KeepsPosted DEF KeptBy
<1>9. T(new) = T(known)
  <2>1. new = InsertPending(s, known)
    BY DEF RowsBy
  <2> HIDE DEF known, new
  <2> QED BY <1>2, <2>1, InsertPendingFacts
<1>10. T(known) = T(kept) \/ (T(known) = 1 /\ s.settled[k] > 0)
  <2>1. known = InsertPosted(s, kept)
    BY DEF KnownBy
  <2> HIDE DEF known, kept
  <2>2. FirstOfKind(s, kept, known, k)
    BY <1>2, <1>4, <2>1, InsertPostedFacts
  <2> QED BY <2>2 DEF FirstOfKind
<1>11. settled[k] \in Nat /\ s.settled[k] \in Nat
  BY <1>1 DEF Counts, Pages
<1>12. T(rows) \in Nat /\ T(new) \in Nat /\ Times(client.todo, {k}) \in Nat
       /\ client.have[k] \in Nat
  BY <1>1, <1>2, TimesNat DEF Counts
<1>13. Due(k) = T(rows) + Times(client.todo, {k}) - client.have[k]
       /\ Due(k)' = T(new) + Times(client.todo, {k}) - client.have[k]
  BY <1>3, <1>7 DEF Due
<1>14. CASE client = Idle
  <2>1. Times(client.todo, {k}) = 0 /\ client.have[k] = 0
    BY <1>14, TimesEmpty DEF Idle
  <2>2. T(new) <= settled[k]
    <3> HIDE DEF T
    <3>1. s.settled[k] <= settled[k] /\ T(rows) <= settled[k]
      BY <1>6, <1>7
    <3> QED BY <1>8, <1>9, <1>10, <1>11, <1>12, <3>1
  <2>3. Due(k)' = T(new)
    <3>1. T(new) \in Nat
      BY <1>12
    <3> HIDE DEF T, new
    <3> QED BY <1>13, <2>1, <3>1
  <2> QED BY <1>3, <1>7, <2>2, <2>3
<1>15. CASE client # Idle
  <2>1. known = kept
    <3>1. /\ Len(kept) \in Nat /\ Len(known) \in Nat
          /\ kept \in [1..Len(kept) -> PostedRow] /\ known \in [1..Len(known) -> PostedRow]
      BY <1>2, LenProperties
    <3>2. /\ Len(kept) <= Len(known) /\ ~(Len(known) > Len(kept))
          /\ \A i \in 1..Len(kept) : known[i] = kept[i]
      BY <1>2, <1>5, <1>15 DEF Extends
    <3> HIDE DEF known, kept
    <3>3. Len(known) = Len(kept)
      <4> DEFINE m == Len(kept)
                 n == Len(known)
      <4>1. m \in Nat /\ n \in Nat /\ m <= n /\ ~(n > m)
        BY <3>1, <3>2
      <4> HIDE DEF m, n
      <4>2. m = n
        BY <4>1
      <4> QED BY <4>2 DEF m, n
    <3> QED BY <3>1, <3>2, <3>3
  <2>2. T(new) = T(rows)
    BY <1>8, <1>9, <2>1
  <2> HIDE DEF T, new
  <2> QED BY <1>3, <1>6, <1>7, <1>13, <2>2
<1> QED BY <1>14, <1>15

OnceTypes ==
  /\ rows \in Seq(TxRow) /\ settled \in Counts /\ client.have \in Counts
  /\ client.todo \in Seq(Kinds) /\ raced \in BOOLEAN

LEMMA OnceTypesHold ==
  ASSUME TypeOK
  PROVE  OnceTypes
BY TypesUnfolded DEF Types, OnceTypes

\* What the importer does with the next row: it has one less to do.
LEMMA NextTimes ==
  ASSUME OnceTypes, client.todo # <<>>
  PROVE  /\ NextKind \in Kinds /\ Tail(client.todo) \in Seq(Kinds)
         /\ Times(client.todo, {NextKind}) = Times(Tail(client.todo), {NextKind}) + 1
         /\ \A k \in Kinds \ {NextKind} :
              Times(client.todo, {k}) = Times(Tail(client.todo), {k})
         /\ \A k \in Kinds : Times(Tail(client.todo), {k}) \in Nat
<1> DEFINE u == client.todo
           h == Head(u)
           w == Tail(u)
<1>1. u \in Seq(Kinds) /\ u # <<>>
  BY DEF OnceTypes
<1> HIDE DEF u
<1>2. h \in Kinds /\ w \in Seq(Kinds) /\ <<h>> \in Seq(Kinds)
  BY <1>1, HeadTailProperties
<1>3. u = <<h>> \o w
  BY <1>1, HeadTailProperties
<1> DEFINE one == <<h>>
<1>4. one \in Seq(Kinds) /\ DOMAIN one = 1..1 /\ one[1] = h
  BY <1>2
<1> HIDE DEF one
<1>5. ASSUME NEW k \in Kinds
      PROVE  /\ Times(u, {k}) = Times(one, {k}) + Times(w, {k})
             /\ Times(w, {k}) \in Nat
  <2>1. \A W : Times(one \o w, W) = Times(one, W) + Times(w, W)
    BY <1>2, <1>4, TimesConcat
  <2>2. u = one \o w
    BY <1>3 DEF one
  <2> QED BY <1>2, <2>1, <2>2, TimesNat
<1>6. Times(one, {h}) = 1
  <2>1. Places(one, {h}) = {1}
    BY <1>4 DEF Places
  <2> QED BY <2>1, FS_Singleton DEF Times
<1>7. ASSUME NEW k \in Kinds \ {h} PROVE Times(one, {k}) = 0
  <2>1. Places(one, {k}) = {}
    BY <1>4 DEF Places
  <2> QED BY <2>1, FS_EmptySet DEF Times
<1>8. NextKind = h
  BY DEF NextKind, u
<1>9. Times(u, {h}) = Times(w, {h}) + 1
  <2>1. Times(u, {h}) = 1 + Times(w, {h}) /\ Times(w, {h}) \in Nat
    BY <1>2, <1>5, <1>6
  <2> HIDE DEF h, w
  <2> QED BY <2>1
<1>10. ASSUME NEW k \in Kinds \ {h} PROVE Times(u, {k}) = Times(w, {k})
  <2>1. Times(u, {k}) = 0 + Times(w, {k}) /\ Times(w, {k}) \in Nat
    BY <1>5, <1>7, <1>10
  <2> HIDE DEF h, w
  <2> QED BY <2>1
<1> QED BY <1>2, <1>5, <1>8, <1>9, <1>10 DEF u

\* The statement begins: what is known covers what is stored.
LEMMA OnceStart ==
  ASSUME TypeOK, NoneTooMany, NEW n \in 1..Len(Statement), Start(n)
  PROVE  NoneTooMany'
<1> SUFFICES ASSUME ~raced', ~SomeCut', NEW k \in Kinds
             PROVE  Stored(k, FALSE)' <= settled'[k] /\ Due(k)' <= settled'[k]
  BY DEF NoneTooMany
<1>1. OnceTypes
  BY OnceTypesHold
<1>2. /\ UNCHANGED <<settled, rows, raced>>
      /\ client' = [todo |-> SubSeq(Statement, 1, n), have |-> [j \in Kinds |-> RowsOf(j)]]
  BY DEF Start, bank, account
<1>3. ~raced /\ ~SomeCut
  BY <1>2 DEF SomeCut
<1>4. Stored(k, FALSE) <= settled[k] /\ Stored(k, FALSE)' = Stored(k, FALSE)
  BY <1>2, <1>3 DEF NoneTooMany, Stored
<1>5. Stored(k, FALSE) = Times(rows, OfKind(k)) /\ Times(rows, OfKind(k)) \in Nat
  BY <1>1, StoredIs, TimesNat DEF OnceTypes
<1>6. Times(rows, OfKind(k)) <= RowsOf(k) /\ RowsOf(k) \in Nat
  <2> DEFINE A == Places(rows, OfKind(k))
             B == {i \in DOMAIN rows : HasKey(rows[i], k)}
  <2>1. A \subseteq B
    <3>1. ASSUME NEW i \in DOMAIN rows, rows[i] \in OfKind(k) PROVE HasKey(rows[i], k)
      BY <1>3, <3>1 DEF SomeCut, HasKey, OfKind, PostedRow, AmountOf
    <3> QED BY <3>1 DEF Places
  <2>2. IsFiniteSet(B) /\ RowsOf(k) \in Nat
    BY <1>1, RowsOfNat DEF OnceTypes
  <2> HIDE DEF A, B
  <2>3. Cardinality(A) <= Cardinality(B)
    BY <2>1, <2>2, FS_Subset
  <2> QED BY <2>2, <2>3 DEF Times, RowsOf, A, B
<1>7. Times(SubSeq(Statement, 1, n), {k}) <= settled[k]
  <2> DEFINE u == SubSeq(Statement, 1, n)
             A == Places(u, {k})
             B == Places(Statement, {k})
  <2>1. Statement \in Seq(Kinds) /\ Times(Statement, {k}) = settled[k]
    BY <1>1, StatementTypes DEF OnceTypes
  <2>2. Len(Statement) \in Nat /\ DOMAIN Statement = 1..Len(Statement)
    BY <2>1, LenProperties
  <2>3. /\ u \in Seq(Kinds) /\ Len(u) = n /\ \A i \in 1..n : u[i] = Statement[i]
    <3>1. \A i \in 1..Len(Statement) : Statement[i] \in Kinds
      BY <2>1, ElementOfSeq
    <3>2. /\ SubSeq(Statement, 1, n) \in Seq(Kinds)
          /\ Len(SubSeq(Statement, 1, n)) = IF 1 <= n THEN n - 1 + 1 ELSE 0
          /\ \A i \in 1..(n - 1 + 1) : SubSeq(Statement, 1, n)[i] = Statement[1 + i - 1]
      BY <2>1, <2>2, SubSeqProperties
    <3>3. n \in Nat /\ 1 <= n /\ n - 1 + 1 = n /\ \A i \in 1..n : 1 + i - 1 = i
      BY <2>2
    <3> QED BY <3>2, <3>3
  <2>4. DOMAIN u = 1..n /\ 1..n \subseteq 1..Len(Statement)
    BY <2>2, <2>3, LenProperties
  <2>5. A \subseteq B
    BY <2>2, <2>3, <2>4 DEF Places
  <2>6. IsFiniteSet(B)
    BY <2>1, TimesNat
  <2>7. Cardinality(A) <= Cardinality(B)
    <3> HIDE DEF A, B
    <3> QED BY <2>5, <2>6, FS_Subset
  <2> QED BY <2>1, <2>7 DEF Times
<1>8. Times(SubSeq(Statement, 1, n), {k}) \in Nat /\ settled[k] \in Nat
  <2>1. Statement \in Seq(Kinds)
    BY <1>1, StatementTypes DEF OnceTypes
  <2>2. SubSeq(Statement, 1, n) \in Seq(Kinds)
    BY <2>1, SubSeqProperties, LenProperties
  <2> QED BY <1>1, <2>2, TimesNat DEF OnceTypes, Counts
<1>9. Due(k)' = Stored(k, FALSE) + Times(SubSeq(Statement, 1, n), {k}) - RowsOf(k)
  BY <1>2, <1>4 DEF Due
<1> DEFINE a == Stored(k, FALSE)
           b == Times(SubSeq(Statement, 1, n), {k})
           c == RowsOf(k)
<1>10. /\ a \in Nat /\ b \in Nat /\ c \in Nat /\ a <= c /\ b <= settled[k] /\ settled[k] \in Nat
       /\ Due(k)' = a + b - c
  BY <1>5, <1>6, <1>7, <1>8, <1>9
<1> HIDE DEF a, b, c
<1>11. Due(k)' <= settled[k]
  BY <1>10
<1> QED BY <1>2, <1>4, <1>11

LEMMA OnceSkip ==
  ASSUME TypeOK, NoneTooMany, Skip
  PROVE  NoneTooMany'
<1> SUFFICES ASSUME ~raced', ~SomeCut', NEW k \in Kinds
             PROVE  Stored(k, FALSE)' <= settled'[k] /\ Due(k)' <= settled'[k]
  BY DEF NoneTooMany
<1>1. OnceTypes /\ client.todo # <<>> /\ client.have[NextKind] > 0
  BY OnceTypesHold DEF Skip
<1>2. /\ UNCHANGED <<settled, rows, raced>>
      /\ client' = [todo |-> Tail(client.todo),
                    have |-> [client.have EXCEPT ![NextKind] = @ - 1]]
  BY DEF Skip, bank, account, Found
<1>3. /\ Stored(k, FALSE)' = Stored(k, FALSE)
      /\ Stored(k, FALSE) <= settled[k] /\ Due(k) <= settled[k]
  BY <1>2 DEF NoneTooMany, Stored, SomeCut
<1>4. Stored(k, FALSE) \in Nat /\ client.have \in Counts /\ client.have[k] \in Nat
  BY <1>1, StoredIs, TimesNat DEF OnceTypes, Counts
<1>5. /\ client'.todo = Tail(client.todo)
      /\ client'.have[k] = IF k = NextKind THEN client.have[k] - 1 ELSE client.have[k]
  BY <1>2, <1>4 DEF Counts
<1> DEFINE a == Stored(k, FALSE)
           b == Times(Tail(client.todo), {k})
           c == client.have[k]
           d == Times(client.todo, {k})
           e == client'.have[k]
<1>6. /\ a \in Nat /\ b \in Nat /\ c \in Nat /\ Due(k) = a + d - c
      /\ (k = NextKind => d = b + 1 /\ e = c - 1)
      /\ (k # NextKind => d = b /\ e = c)
  BY <1>1, <1>4, <1>5, NextTimes DEF Due
<1>7. Due(k)' = a + b - e
  BY <1>3, <1>5 DEF Due
<1> HIDE DEF a, b, c, d, e
<1>8. Due(k)' = Due(k)
  <2>1. CASE k = NextKind
    BY <1>6, <1>7, <2>1
  <2>2. CASE k # NextKind
    BY <1>6, <1>7, <2>2
  <2> QED BY <2>1, <2>2
<1> QED BY <1>2, <1>3, <1>8

LEMMA OnceRefused ==
  ASSUME TypeOK, NoneTooMany, Refused
  PROVE  NoneTooMany'
<1> SUFFICES ASSUME ~raced', ~SomeCut', NEW k \in Kinds
             PROVE  Stored(k, FALSE)' <= settled'[k] /\ Due(k)' <= settled'[k]
  BY DEF NoneTooMany
<1>1. OnceTypes /\ client.todo # <<>>
  BY OnceTypesHold DEF Refused
<1>2. UNCHANGED <<settled, rows, raced>> /\ client' = [client EXCEPT !.todo = Tail(@)]
  BY DEF Refused, bank, account
<1>3. /\ Stored(k, FALSE)' = Stored(k, FALSE)
      /\ Stored(k, FALSE) <= settled[k] /\ Due(k) <= settled[k]
  BY <1>2 DEF NoneTooMany, Stored, SomeCut
<1>4. client = [todo |-> client.todo, have |-> client.have]
  BY TypesUnfolded DEF Types
<1>5. client'.todo = Tail(client.todo) /\ client'.have = client.have
  BY <1>2, <1>4
<1>6. Stored(k, FALSE) \in Nat /\ client.have[k] \in Nat /\ settled[k] \in Nat
  BY <1>1, StoredIs, TimesNat DEF OnceTypes, Counts
<1> DEFINE a == Stored(k, FALSE)
           b == Times(Tail(client.todo), {k})
           c == client.have[k]
           d == Times(client.todo, {k})
<1>7. /\ a \in Nat /\ b \in Nat /\ c \in Nat /\ Due(k) = a + d - c /\ Due(k)' = a + b - c
      /\ (d = b + 1 \/ d = b) /\ settled[k] \in Nat
  BY <1>1, <1>3, <1>5, <1>6, NextTimes DEF Due
<1> HIDE DEF a, b, c, d
<1>8. Due(k)' <= settled[k]
  BY <1>3, <1>7
<1> QED BY <1>2, <1>3, <1>8

LEMMA OncePost ==
  ASSUME TypeOK, PendingWhole, NoneTooMany, Post
  PROVE  NoneTooMany' /\ PendingWhole'
<1>1. OnceTypes /\ client.todo # <<>> /\ client.have[NextKind] = 0
  BY OnceTypesHold DEF Post
<1>2. NextKind \in Kinds
  BY <1>1, NextTimes
<1> DEFINE r == New(NextKind, FALSE, FALSE)
<1>3. r \in PostedRow /\ r \in TxRow /\ r.kind = NextKind /\ ~r.pending /\ ~r.cut
  BY <1>2, NewRow DEF PostedRow
<1>4. /\ rows' = Append(rows, r) /\ UNCHANGED <<settled, raced>>
      /\ client' = [client EXCEPT !.todo = Tail(@)]
  BY DEF Post, bank
<1> HIDE DEF r
<1>5. /\ rows \in Seq(TxRow) /\ rows' \in Seq(TxRow) /\ Len(rows) \in Nat
      /\ Len(rows') = Len(rows) + 1 /\ rows'[Len(rows) + 1] = r
      /\ \A i \in 1..Len(rows) : rows'[i] = rows[i]
  BY <1>1, <1>3, <1>4, AppendProperties, LenProperties DEF OnceTypes
<1>6. /\ DOMAIN rows = 1..Len(rows) /\ DOMAIN rows' = 1..(Len(rows) + 1)
      /\ \A i \in 1..(Len(rows) + 1) : i \in 1..Len(rows) \/ i = Len(rows) + 1
      /\ 1..Len(rows) \subseteq 1..(Len(rows) + 1)
  BY <1>5, LenProperties
<1>7. PendingWhole'
  BY <1>3, <1>5, <1>6 DEF PendingWhole
<1>8. ASSUME ~raced', ~SomeCut', NEW k \in Kinds
      PROVE  Stored(k, FALSE)' <= settled'[k] /\ Due(k)' <= settled'[k]
  <2>1. ~raced /\ ~SomeCut
    BY <1>4, <1>5, <1>6, <1>8 DEF SomeCut
  <2>2. Stored(k, FALSE) <= settled[k] /\ Due(k) <= settled[k]
    BY <2>1 DEF NoneTooMany
  <2>3. Stored(k, FALSE) = Times(rows, OfKind(k)) /\ Stored(k, FALSE)' = Times(rows', OfKind(k))
    BY <1>5, StoredIs, StoredIsNext
  <2>4. r \in OfKind(k) <=> k = NextKind
    BY <1>3 DEF OfKind
  <2>5. Times(rows', OfKind(k))
          = IF r \in OfKind(k) THEN Times(rows, OfKind(k)) + 1 ELSE Times(rows, OfKind(k))
    BY <1>3, <1>4, <1>5, TimesAppend
  <2>6. Times(rows, OfKind(k)) \in Nat /\ client.have[k] \in Nat /\ settled[k] \in Nat
    BY <1>1, TimesNat DEF OnceTypes, Counts
  <2>7. client = [todo |-> client.todo, have |-> client.have]
    BY TypesUnfolded DEF Types
  <2>8. client'.todo = Tail(client.todo) /\ client'.have = client.have
    BY <1>4, <2>7
  <2> DEFINE a == Stored(k, FALSE)
             a1 == Stored(k, FALSE)'
             b == Times(Tail(client.todo), {k})
             c == client.have[k]
             d == Times(client.todo, {k})
  <2>9. /\ a \in Nat /\ b \in Nat /\ c \in Nat /\ Due(k) = a + d - c /\ Due(k)' = a1 + b - c
        /\ (k = NextKind => d = b + 1 /\ a1 = a + 1 /\ c = 0)
        /\ (k # NextKind => d = b /\ a1 = a)
        /\ settled[k] \in Nat
    BY <1>1, <2>3, <2>4, <2>5, <2>6, <2>8, NextTimes DEF Due
  <2>10. a <= settled[k] /\ settled'[k] = settled[k]
    BY <1>4, <2>2
  <2> HIDE DEF a, a1, b, c, d
  <2>11. CASE k = NextKind
    <3>1. a + (b + 1) <= settled[k]
      BY <2>2, <2>9, <2>11
    <3>2. a1 <= settled[k] /\ Due(k)' <= settled[k]
      BY <2>9, <2>11, <3>1
    <3> QED BY <2>10, <3>2 DEF a1
  <2>12. CASE k # NextKind
    <3>1. a1 <= settled[k] /\ Due(k)' <= settled[k]
      BY <2>2, <2>9, <2>10, <2>12
    <3> QED BY <2>10, <3>1 DEF a1
  <2> QED BY <2>11, <2>12
<1>9. NoneTooMany'
  BY <1>8 DEF NoneTooMany
<1> QED BY <1>7, <1>9

LEMMA OnceFinish ==
  ASSUME TypeOK, NoneTooMany, Finish
  PROVE  NoneTooMany'
<1> SUFFICES ASSUME ~raced', ~SomeCut', NEW k \in Kinds
             PROVE  Stored(k, FALSE)' <= settled'[k] /\ Due(k)' <= settled'[k]
  BY DEF NoneTooMany
<1>1. OnceTypes
  BY OnceTypesHold
<1>2. UNCHANGED <<settled, rows, raced>> /\ client' = Idle
  BY DEF Finish, bank, account
<1>3. Stored(k, FALSE)' = Stored(k, FALSE) /\ Stored(k, FALSE) <= settled[k]
  BY <1>2 DEF NoneTooMany, Stored, SomeCut
<1>4. Stored(k, FALSE) \in Nat
  BY <1>1, StoredIs, TimesNat DEF OnceTypes
<1>5. client'.todo = <<>> /\ client'.have[k] = 0
  BY <1>2 DEF Idle
<1>6. Due(k)' = Stored(k, FALSE)' + 0 - 0
  BY <1>5, TimesEmpty DEF Due
<1> DEFINE a == Stored(k, FALSE)
           b == Stored(k, FALSE)'
<1>7. a \in Nat /\ b = a /\ a <= settled[k] /\ settled'[k] = settled[k] /\ Due(k)' = b + 0 - 0
  BY <1>2, <1>3, <1>4, <1>6
<1> HIDE DEF a, b
<1>8. b <= settled'[k] /\ Due(k)' <= settled'[k]
  BY <1>7
<1> QED BY <1>8 DEF b

\* The bank's own steps take nothing back.
LEMMA OnceBank ==
  ASSUME TypeOK, NoneTooMany, UNCHANGED <<rows, client, raced>>,
         settled' \in Counts, \A k \in Kinds : settled[k] <= settled'[k]
  PROVE  NoneTooMany'
<1> SUFFICES ASSUME ~raced', ~SomeCut', NEW k \in Kinds
             PROVE  Stored(k, FALSE)' <= settled'[k] /\ Due(k)' <= settled'[k]
  BY DEF NoneTooMany
<1>1. OnceTypes
  BY OnceTypesHold
<1>2. /\ Stored(k, FALSE)' = Stored(k, FALSE) /\ Due(k)' = Due(k)
      /\ Stored(k, FALSE) <= settled[k] /\ Due(k) <= settled[k]
  BY DEF NoneTooMany, Stored, SomeCut, Due
<1>3. Stored(k, FALSE) \in Nat /\ client.have[k] \in Nat /\ Times(client.todo, {k}) \in Nat
  BY <1>1, StoredIs, TimesNat DEF OnceTypes, Counts
<1>4. settled[k] \in Nat /\ settled'[k] \in Nat /\ settled[k] <= settled'[k]
  BY <1>1 DEF OnceTypes, Counts
<1> DEFINE a == Stored(k, FALSE)
           b == Times(client.todo, {k})
           c == client.have[k]
           d == Stored(k, FALSE)'
<1>5. a \in Nat /\ b \in Nat /\ c \in Nat /\ Due(k) = a + b - c /\ d = a
  BY <1>2, <1>3 DEF Due
<1>6. a <= settled[k] /\ Due(k) <= settled[k] /\ Due(k)' = Due(k)
  BY <1>2
<1> HIDE DEF a, b, c, d
<1>7. d <= settled'[k] /\ Due(k)' <= settled'[k]
  BY <1>4, <1>5, <1>6
<1> QED BY <1>7 DEF d

LEMMA OnceStep ==
  ASSUME TypeOK, PendingWhole, NoneTooMany, [Next]_vars
  PROVE  PendingWhole' /\ NoneTooMany'
<1>1. settled \in Counts /\ waiting \in Counts
  BY DEF TypeOK
<1>2. ASSUME UNCHANGED <<rows, client, raced, settled>> PROVE PendingWhole' /\ NoneTooMany'
  <2>1. PendingWhole'
    BY <1>2 DEF PendingWhole
  <2>2. \A k \in Kinds : settled[k] <= settled'[k]
    BY <1>1, <1>2 DEF Counts
  <2> QED BY <1>1, <1>2, <2>1, <2>2, OnceBank
<1>3. CASE Read
  BY <1>2, <1>3 DEF Read, bank, account
<1>4. ASSUME NEW k \in Kinds, Authorise(k) PROVE PendingWhole' /\ NoneTooMany'
  BY <1>2, <1>4 DEF Authorise, account
<1>5. ASSUME NEW k \in Kinds, Settle(k) PROVE PendingWhole' /\ NoneTooMany'
  <2>1. UNCHANGED <<rows, client, raced>> /\ settled' = [settled EXCEPT ![k] = @ + 1]
    BY <1>5 DEF Settle, account
  <2>2. settled' \in Counts /\ \A j \in Kinds : settled[j] <= settled'[j]
    BY <1>1, <2>1 DEF Counts
  <2>3. PendingWhole'
    BY <2>1 DEF PendingWhole
  <2> QED BY <2>1, <2>2, <2>3, OnceBank
<1>6. ASSUME NEW k \in Kinds, DropCharge(k) PROVE PendingWhole' /\ NoneTooMany'
  BY <1>2, <1>6 DEF DropCharge, account
<1>7. ASSUME NEW s \in PossiblePages, Replay(s) PROVE PendingWhole' /\ NoneTooMany'
  <2>1. s \in Pages /\ Sync(s) /\ \A k \in Kinds : s.settled[k] <= settled[k]
    BY <1>7, PagesArePages DEF Replay, Earlier
  <2> QED BY <2>1, SyncCut, OnceSync
<1>8. ASSUME NEW n \in 1..Len(Statement), Start(n) PROVE PendingWhole' /\ NoneTooMany'
  <2>1. PendingWhole'
    BY <1>8 DEF PendingWhole, Start, account
  <2> QED BY <1>8, <2>1, OnceStart
<1>9. CASE Skip
  BY <1>9, OnceSkip DEF PendingWhole, Skip, account
<1>10. CASE Post
  BY <1>10, OncePost
<1>11. CASE Refused
  BY <1>11, OnceRefused DEF PendingWhole, Refused, account
<1>12. CASE Finish
  BY <1>12, OnceFinish DEF PendingWhole, Finish, account
<1>13. CASE UNCHANGED vars
  BY <1>2, <1>13 DEF vars, bank, account
<1> QED
  BY <1>3, <1>4, <1>5, <1>6, <1>7, <1>8, <1>9, <1>10, <1>11, <1>12, <1>13 DEF Next, Act

\* A posted charge is stored once, however often and late scrapes of it are
\* replayed and statements imported again after any interruption (sync_scrape.py,
\* existing_keys and _matches_truncated; import_transactions.py, the counts of
\* _fetch_existing): unless a scrape inserted rows in the middle of an import, or
\* the stored description is one that the bank's page had cut.
THEOREM StoredOnceCorrect == Spec => []StoredOnce
<1>1. Init => PendingWhole /\ NoneTooMany
  <2> SUFFICES ASSUME Init PROVE PendingWhole /\ NoneTooMany
    OBVIOUS
  <2>1. rows = <<>> /\ DOMAIN rows = {} /\ rows \in Seq(TxRow)
    BY EmptySeq DEF Init
  <2>2. ASSUME NEW k \in Kinds
        PROVE  Stored(k, FALSE) <= settled[k] /\ Due(k) <= settled[k]
    <3>1. Stored(k, FALSE) = 0
      BY <2>1, StoredIs, TimesEmpty
    <3>2. settled[k] = 0 /\ client.todo = <<>> /\ client.have[k] = 0
      BY DEF Init, Idle
    <3>3. Times(client.todo, {k}) = 0
      BY <3>2, TimesEmpty
    <3> DEFINE a == Stored(k, FALSE)
    <3>4. a = 0 /\ Due(k) = a + 0 - 0
      BY <3>1, <3>2, <3>3 DEF Due
    <3> HIDE DEF a
    <3>5. a <= settled[k] /\ Due(k) <= settled[k]
      BY <3>2, <3>4
    <3> QED BY <3>5 DEF a
  <2> QED BY <2>1, <2>2 DEF PendingWhole, NoneTooMany
<1>2. TypeOK /\ (PendingWhole /\ NoneTooMany) /\ [Next]_vars => (PendingWhole /\ NoneTooMany)'
  BY OnceStep
<1>3. PendingWhole /\ NoneTooMany => StoredOnce
  BY DEF NoneTooMany, StoredOnce
<1> QED BY <1>1, <1>2, <1>3, TypeCorrect, PTL DEF Spec
=============================================================================
