---------------------------- MODULE LedgerProofs ----------------------------
(***************************************************************************)
(* The ledger's invariants, proved for every set of accounts, budgets,     *)
(* transactions and transfers.                                             *)
(*                                                                         *)
(* BudgetsAccounted is not inductive: knowing that the balances add up     *)
(* does not tell what deleting one budget may leave behind.  The inductive *)
(* invariant explains each balance separately: References (who may point   *)
(* at whom), Blank (rows that do not exist carry nothing, and a pending    *)
(* transaction was never split), AccountsMatchTransactions,                *)
(* AllocationsAccounted, BudgetExplained and GoalFunded.  The account-     *)
(* level sum is then a change of the order of summation.                   *)
(***************************************************************************)
EXTENDS Ledger, Sums

\* Rows that do not exist carry nothing, and a transaction that no split may
\* have touched has nothing beyond its amount.
Blank ==
  /\ \A a \in Account : a \notin accounts =>
       available[a] = 0 /\ posted[a] = 0 /\ opening[a].available = 0 /\ opening[a].posted = 0
  /\ \A b \in Budget : ~Live(b) => funded[b] = 0 /\ b \notin archived
  /\ \A t \in Tx : t \notin txs => amount[t] = 0
  /\ \A t \in Tx : t \notin txs \/ t \in pending => excess[t] = 0
  /\ \A t \in Tx, b \in Budget : <<t, b>> \notin rows => alloc[t][b] = 0

-----------------------------------------------------------------------------
\* The contribution of a transfer to a budget is an integer, and so is the
\* contribution of any set of transfers.
LEMMA NetInt ==
  ASSUME TypeOK
  PROVE  /\ \A i \in Itx, b \in Budget : Net(i, b) \in Int
         /\ \A S \in SUBSET Itx, b \in Budget : NetOf(S, b) \in Int
<1>1. \A i \in Itx, b \in Budget : Net(i, b) \in Int
  BY DEF TypeOK, TransferType, Net, Effect
<1>2. ASSUME NEW S \in SUBSET Itx, NEW b \in Budget
      PROVE  NetOf(S, b) \in Int
  <2> DEFINE f == [i \in Itx |-> Net(i, b)]
  <2>1. IsFiniteSet(S) /\ \A i \in S : f[i] \in Int
    BY <1>1, PoolsAssumption, FS_Subset
  <2> HIDE DEF f
  <2>2. Total(f, S) \in Int
    BY <2>1, SumInt DEF Total
  <2> QED BY <2>2 DEF NetOf, f
<1> QED BY <1>1, <1>2

\* What deleting budgets would sweep is an integer.
LEMMA ResidualInt ==
  ASSUME TypeOK, NEW D \in SUBSET Budget
  PROVE  Residual(D) \in Int
<1> DEFINE f == [d \in Budget |-> balance[d] - NetOf(Crossing(D), d)]
<1>1. Crossing(D) \in SUBSET Itx
  BY DEF Crossing, Touching
<1>2. \A d \in D : f[d] \in Int
  <2>1. \A d \in D : NetOf(Crossing(D), d) \in Int
    BY <1>1, NetInt
  <2>2. \A d \in D : balance[d] \in Int
    BY DEF TypeOK
  <2> QED BY <2>1, <2>2
<1>3. IsFiniteSet(D)
  BY PoolsAssumption, FS_Subset
<1> HIDE DEF f
<1>4. Total(f, D) \in Int
  BY <1>2, <1>3, SumInt DEF Total
<1> QED BY <1>4 DEF Residual, f

\* Nothing has no sign.
LEMMA SignedZero == \A n : \A z \in Int : z = 0 => Signed(n, z) = 0
<1>1. \A z \in Int : 0 - z = -z
  OBVIOUS
<1>2. \A z \in Int : z = 0 => 0 - z = 0
  OBVIOUS
<1>3. \A z \in Int : z = 0 => -z = 0
  BY <1>1, <1>2
<1> QED BY <1>3 DEF Signed

\* The parts a split request writes are integers of the transaction's sign.
LEMMA SplitInt ==
  ASSUME TypeOK, NEW t \in Tx, NEW m \in [Budget -> Nat]
  PROVE  /\ Total(m, Budget) \in Int
         /\ SplitRemainder(t, m) \in Int
         /\ Magnitude(amount[t]) \in Nat
         /\ \A b \in Budget : SplitPart(t, m, b) \in Nat
         /\ \A b \in Budget : Signed(amount[t], SplitPart(t, m, b)) \in Int
         /\ Signed(amount[t], m[UnallocatedFor(t)]) \in Int
         /\ \A p \in PassedOver(t) : SecondRow(t, m, p) \in Int /\ Excess(t, m, p) \in Int
<1>0. UnallocatedFor(t) \in Budget
  BY HomesAssumption DEF UnallocatedFor
<1>1. Total(m, Budget) \in Int
  BY PoolsAssumption, SumInt DEF Total
<1>2. Magnitude(amount[t]) \in Nat
  BY DEF TypeOK, Magnitude
<1>3. SplitRemainder(t, m) \in Int
  BY <1>1, <1>2 DEF SplitRemainder
<1>4. \A b \in Budget : SplitPart(t, m, b) \in Nat
  BY <1>3 DEF SplitPart
<1>5. Signed(amount[t], m[UnallocatedFor(t)]) \in Int
  BY <1>0 DEF Signed, TypeOK
<1>6. ASSUME NEW p \in PassedOver(t)
      PROVE  SecondRow(t, m, p) \in Int /\ Excess(t, m, p) \in Int
  <2>1. p \in Int
    <3>1. twin[t] \in Int /\ alloc[t][UnallocatedFor(t)] \in Int
      BY <1>0 DEF TypeOK
    <3> QED BY <3>1 DEF PassedOver
  <2>2. SecondRow(t, m, p) \in Int
    BY <1>5, <2>1 DEF SecondRow
  <2>3. Excess(t, m, p) \in Int
    BY <1>5, <2>2 DEF Excess
  <2> QED BY <2>2, <2>3
<1>7. \A b \in Budget : Signed(amount[t], SplitPart(t, m, b)) \in Int
  BY <1>4 DEF Signed
<1> QED BY <1>1, <1>2, <1>3, <1>4, <1>5, <1>6, <1>7

\* What Unallocated's rows add up to after a split: the rows a budget's part
\* goes to, and nothing when it gets no part.
LEMMA SecondOfNone ==
  ASSUME NEW t \in Tx, NEW m \in [Budget -> Nat], NEW p,
         SplitPart(t, m, UnallocatedFor(t)) = 0
  PROVE  SecondRow(t, m, p) = 0
<1>1. CASE SplitRemainder(t, m) > 0
  BY <1>1 DEF SplitPart, SecondRow
<1>2. CASE ~(SplitRemainder(t, m) > 0)
  BY <1>2 DEF SplitPart, SecondRow
<1> QED BY <1>1, <1>2

-----------------------------------------------------------------------------
\* Types are preserved by every step.
LEMMA TypeStep ==
  ASSUME TypeOK, [Next]_vars
  PROVE  TypeOK'
<1> USE HomesAssumption, AmountsAssumption
<1>1. ASSUME NEW a \in Account, NEW avail \in Opening, NEW post \in Opening,
             CreateAccount(a, avail, post)
      PROVE  TypeOK'
  BY <1>1 DEF TypeOK, CreateAccount, Kinds, txVars
<1>2. ASSUME NEW a \in Account, DeleteAccount(a)
      PROVE  TypeOK'
  <2>1. itx' \in [Itx -> TransferType]
    BY <1>2 DEF TypeOK, DeleteAccount, NoTransfer, TransferType
  <2> QED BY <1>2, <2>1 DEF TypeOK, DeleteAccount, Kinds
<1>3. ASSUME NEW t \in Tx, NEW m \in Amount, NEW p \in BOOLEAN, CreateTx(t, m, p)
      PROVE  TypeOK'
  BY <1>3 DEF TypeOK, CreateTx, Credit, UnallocatedFor, budgetVars
<1>4. ASSUME NEW t \in Tx, PostTx(t)
      PROVE  TypeOK'
  BY <1>4 DEF TypeOK, PostTx, Credit, budgetVars, moneyVars
<1>5. ASSUME NEW t \in Tx, NEW m \in Amount, ResolveTx(t, m)
      PROVE  TypeOK'
  <2>1. m \in Int /\ amount[t] \in Int /\ UnallocatedFor(t) \in Budget
    BY <1>5 DEF TypeOK, UnallocatedFor, ResolveTx
  <2>2. alloc' \in [Tx -> [Budget -> Int]] /\ balance' \in [Budget -> Int]
    <3>1. CASE m = amount[t]
      BY <1>5, <3>1 DEF TypeOK, ResolveTx
    <3>2. CASE m # amount[t]
      <4>1. /\ alloc' = [alloc EXCEPT ![t][UnallocatedFor(t)] = m]
            /\ balance' = [balance EXCEPT ![UnallocatedFor(t)] = @ - alloc[t][UnallocatedFor(t)] + m]
        BY <1>5, <3>2 DEF ResolveTx
      <4>2. alloc[t][UnallocatedFor(t)] \in Int /\ balance[UnallocatedFor(t)] \in Int
        BY <2>1 DEF TypeOK
      <4> QED BY <4>1, <4>2, <2>1 DEF TypeOK
    <3> QED BY <3>1, <3>2
  <2>3. available' \in [Account -> Int] /\ posted' \in [Account -> Int]
    BY <1>5, <2>1 DEF TypeOK, ResolveTx, Credit
  <2> QED BY <1>5, <2>1, <2>2, <2>3 DEF TypeOK, ResolveTx, budgetVars
<1>6. ASSUME NEW t \in Tx, DeleteTx(t)
      PROVE  TypeOK'
  BY <1>6 DEF TypeOK, DeleteTx, Credit, budgetVars
<1>7. ASSUME NEW t \in Tx, NEW m \in SplitRequests, NEW p \in PassedOver(t),
             Split(t, m, p)
      PROVE  TypeOK'
  <2>1. m \in [Budget -> Nat]
    <3>1. Part \union {0} \subseteq Nat
      OBVIOUS
    <3> QED BY <3>1 DEF SplitRequests
  <2>2. \A b \in Budget : Signed(amount[t], SplitPart(t, m, b)) \in Int
    BY <2>1, SplitInt
  <2>3. SecondRow(t, m, p) \in Int /\ Excess(t, m, p) \in Int
    BY <2>1, SplitInt
  <2>4. \A b \in Budget : alloc[t][b] \in Int /\ balance[b] \in Int
    BY DEF TypeOK
  <2>5. alloc' \in [Tx -> [Budget -> Int]] /\ balance' \in [Budget -> Int]
    BY <1>7, <2>2, <2>3, <2>4 DEF TypeOK, Split
  <2>6. twin' \in [Tx -> Int] /\ excess' \in [Tx -> Int]
    BY <1>7, <2>3 DEF TypeOK, Split
  <2>7. t \in txs
    BY <1>7 DEF Split
  <2> QED BY <1>7, <2>5, <2>6, <2>7 DEF TypeOK, Split, accountVars, budgetVars
<1>8. ASSUME NEW b \in Budget, NEW k \in Kinds, NEW c \in Budget \union {None},
             CreateBudget(b, k, c)
      PROVE  TypeOK'
  BY <1>8 DEF TypeOK, CreateBudget, Kinds, accountVars, moneyVars, txVars
<1>9. ASSUME NEW b \in Budget, NEW c \in Budget, UpdateBudget(b, c)
      PROVE  TypeOK'
  BY <1>9 DEF TypeOK, UpdateBudget, Kinds, accountVars, moneyVars, txVars
<1>10. ASSUME NEW b \in Budget, NEW i \in Itx, NEW j \in Itx, ArchiveBudget(b, i, j)
       PROVE  TypeOK'
  <2>1. fillup[b] \in Budget \union {None} /\ Unallocated[Home[b]] \in Budget
    BY DEF TypeOK
  <2>2. Drained(b) \in Nat /\ Drained(fillup[b]) \in Nat
    BY <2>1 DEF TypeOK, Drained, Live
  <2>3. itx' \in [Itx -> TransferType]
    BY <1>10, <2>1, <2>2 DEF TypeOK, ArchiveBudget, TransferType
  <2>4. \A x \in Budget : /\ Effect(fillup[b], Unallocated[Home[b]], Drained(fillup[b]), x) \in Int
                          /\ Effect(b, Unallocated[Home[b]], Drained(b), x) \in Int
    BY <2>2 DEF Effect
  <2>5. balance' \in [Budget -> Int] /\ funded' \in [Budget -> Int]
    BY <1>10, <2>4 DEF TypeOK, ArchiveBudget
  <2>6. archived' \subseteq Budget
    BY <1>10, <2>1 DEF TypeOK, ArchiveBudget, WithChild
  <2> QED BY <1>10, <2>3, <2>5, <2>6 DEF TypeOK, ArchiveBudget, accountVars, txVars
<1>11. ASSUME NEW b \in Budget, DeleteBudget(b)
       PROVE  TypeOK'
  <2> DEFINE D == WithChild(b)
  <2>1. D \in SUBSET Budget
    BY DEF TypeOK, WithChild
  <2>2. Residual(D) \in Int
    BY <2>1, ResidualInt
  <2>3. \A x \in Budget : NetOf(Crossing(D), x) \in Int
    <3>1. Crossing(D) \in SUBSET Itx
      BY DEF Crossing, Touching
    <3> QED BY <3>1, NetInt
  <2> HIDE DEF D
  <2>4. balance' \in [Budget -> Int] /\ funded' \in [Budget -> Int]
    BY <1>11, <2>2, <2>3 DEF TypeOK, DeleteBudget, D
  <2>5. itx' \in [Itx -> TransferType]
    BY <1>11 DEF TypeOK, DeleteBudget, NoTransfer, TransferType
  <2>6. kind' \in [Budget -> Kinds \union {"none"}] /\ fillup' \in [Budget -> Budget \union {None}]
    BY <1>11 DEF TypeOK, DeleteBudget
  <2> QED BY <1>11, <2>4, <2>5, <2>6 DEF TypeOK, DeleteBudget, accountVars, txVars
<1>12. ASSUME NEW i \in Itx, NEW s \in Budget, NEW d \in Budget, NEW m \in Part,
              Transfer(i, s, d, m)
       PROVE  TypeOK'
  <2>1. \A x \in Budget : Effect(s, d, m, x) \in Int
    BY DEF Effect
  <2> QED BY <1>12, <2>1 DEF TypeOK, Transfer, TransferType, accountVars, budgetVars, txVars
<1>13. ASSUME NEW i \in Itx, ReverseTransfer(i)
       PROVE  TypeOK'
  <2>1. \A x \in Budget : Net(i, x) \in Int
    BY NetInt
  <2> QED BY <1>13, <2>1 DEF TypeOK, ReverseTransfer, NoTransfer, TransferType, accountVars,
                             budgetVars, txVars
<1>14. CASE UNCHANGED vars
  BY <1>14 DEF TypeOK, vars, accountVars, budgetVars, moneyVars, txVars
<1> QED
  BY <1>1, <1>2, <1>3, <1>4, <1>5, <1>6, <1>7, <1>8, <1>9, <1>10, <1>11, <1>12, <1>13, <1>14
  DEF Next, AccountStep, TxStep, BudgetStep, TransferStep

-----------------------------------------------------------------------------
\* References between rows stay within one account and never dangle.
LEMMA ReferencesStep ==
  ASSUME TypeOK, References, Blank, [Next]_vars
  PROVE  References'
<1> USE HomesAssumption, AmountsAssumption DEF References, AccountRefs, RowRefs, TransferRefs, ChildRefs, Live, IsGoal
<1>1. ASSUME NEW a \in Account, NEW avail \in Opening, NEW post \in Opening,
             CreateAccount(a, avail, post)
      PROVE  References'
  <2>1. AccountRefs' /\ RowRefs'
    BY <1>1 DEF TypeOK, CreateAccount, Blank, txVars, UnallocatedFor
  <2>2. kind[Unallocated[a]] = "none"
    BY <1>1 DEF TypeOK, CreateAccount
  <2>3. TransferRefs'
    BY <1>1, <2>2 DEF TypeOK, CreateAccount
  <2>4. ChildRefs'
    BY <1>1, <2>2 DEF TypeOK, CreateAccount
  <2> QED BY <2>1, <2>3, <2>4
<1>2. ASSUME NEW a \in Account, DeleteAccount(a)
      PROVE  References'
  BY <1>2 DEF TypeOK, DeleteAccount, NoTransfer, UnallocatedFor
<1>3. ASSUME NEW t \in Tx, NEW m \in Amount, NEW p \in BOOLEAN, CreateTx(t, m, p)
      PROVE  References'
  BY <1>3 DEF TypeOK, CreateTx, UnallocatedFor, budgetVars
<1>4. ASSUME NEW t \in Tx, PostTx(t)
      PROVE  References'
  BY <1>4 DEF TypeOK, PostTx, UnallocatedFor, budgetVars
<1>5. ASSUME NEW t \in Tx, NEW m \in Amount, ResolveTx(t, m)
      PROVE  References'
  BY <1>5 DEF TypeOK, ResolveTx, UnallocatedFor, budgetVars
<1>6. ASSUME NEW t \in Tx, DeleteTx(t)
      PROVE  References'
  BY <1>6 DEF TypeOK, DeleteTx, UnallocatedFor, budgetVars
<1>7. ASSUME NEW t \in Tx, NEW m \in SplitRequests, NEW p \in PassedOver(t),
             Split(t, m, p)
      PROVE  References'
  BY <1>7 DEF TypeOK, Split, SplitIsValid, SplitPart, UnallocatedFor, Named, accountVars, budgetVars
<1>8. ASSUME NEW b \in Budget, NEW k \in Kinds, NEW c \in Budget \union {None},
             CreateBudget(b, k, c)
      PROVE  References'
  BY <1>8 DEF TypeOK, CreateBudget, ChildFor, Unused, Kinds, UnallocatedFor, accountVars, txVars
<1>9. ASSUME NEW b \in Budget, NEW c \in Budget, UpdateBudget(b, c)
      PROVE  References'
  BY <1>9 DEF TypeOK, UpdateBudget, ChildFor, Unused, UnallocatedFor, accountVars, txVars
<1>10. ASSUME NEW b \in Budget, NEW i \in Itx, NEW j \in Itx, ArchiveBudget(b, i, j)
       PROVE  References'
  <2> DEFINE u == Unallocated[Home[b]]
             f == fillup[b]
  <2>1. Live(b) /\ b # u /\ u \in Budget /\ Live(u) /\ Home[u] = Home[b]
    BY <1>10 DEF TypeOK, ArchiveBudget
  <2>2. f # u
    <3>1. kind[u] = "goal"
      BY <2>1
    <3>2. f # None => kind[f] = "fillup"
      OBVIOUS
    <3> QED BY <2>1, <3>1, <3>2
  <2>3. Drained(f) > 0 => f \in Budget /\ Live(f) /\ Home[f] = Home[b]
    BY DEF TypeOK, Drained
  <2>4. AccountRefs' /\ RowRefs'
    BY <1>10 DEF TypeOK, ArchiveBudget, WithChild, UnallocatedFor, accountVars, txVars
  <2>5. TransferRefs'
    BY <1>10, <2>1, <2>2, <2>3 DEF TypeOK, ArchiveBudget, Drained, NoTransfer
  <2>6. ChildRefs'
    BY <1>10 DEF TypeOK, ArchiveBudget
  <2> QED BY <2>4, <2>5, <2>6
<1>11. ASSUME NEW b \in Budget, DeleteBudget(b)
       PROVE  References'
  <2>1. AccountRefs'
    BY <1>11 DEF TypeOK, DeleteBudget, WithChild, accountVars, txVars
  <2>2. RowRefs'
    BY <1>11 DEF TypeOK, DeleteBudget, NotAllocated, UnallocatedFor, txVars
  <2>3. TransferRefs'
    BY <1>11 DEF TypeOK, DeleteBudget, Touching, NoTransfer
  <2>4. ChildRefs'
    BY <1>11 DEF TypeOK, DeleteBudget, WithChild
  <2> QED BY <2>1, <2>2, <2>3, <2>4
<1>12. ASSUME NEW i \in Itx, NEW s \in Budget, NEW d \in Budget, NEW m \in Part,
              Transfer(i, s, d, m)
       PROVE  References'
  BY <1>12 DEF TypeOK, Transfer, UnallocatedFor, accountVars, budgetVars, txVars
<1>13. ASSUME NEW i \in Itx, ReverseTransfer(i)
       PROVE  References'
  BY <1>13 DEF TypeOK, ReverseTransfer, UnallocatedFor, accountVars, budgetVars, txVars
<1>14. CASE UNCHANGED vars
  BY <1>14 DEF vars, accountVars, budgetVars, txVars, UnallocatedFor
<1> QED
  BY <1>1, <1>2, <1>3, <1>4, <1>5, <1>6, <1>7, <1>8, <1>9, <1>10, <1>11, <1>12, <1>13, <1>14
  DEF Next, AccountStep, TxStep, BudgetStep, TransferStep

-----------------------------------------------------------------------------
\* Rows that do not exist keep carrying nothing.
LEMMA BlankStep ==
  ASSUME TypeOK, References, Blank, [Next]_vars
  PROVE  Blank'
<1> USE HomesAssumption, AmountsAssumption DEF Blank, Live
<1>1. ASSUME NEW a \in Account, NEW avail \in Opening, NEW post \in Opening,
             CreateAccount(a, avail, post)
      PROVE  Blank'
  BY <1>1 DEF TypeOK, CreateAccount, txVars
<1>2. ASSUME NEW a \in Account, DeleteAccount(a)
      PROVE  Blank'
  BY <1>2 DEF TypeOK, DeleteAccount
<1>3. ASSUME NEW t \in Tx, NEW m \in Amount, NEW p \in BOOLEAN, CreateTx(t, m, p)
      PROVE  Blank'
  BY <1>3 DEF TypeOK, CreateTx, Credit, UnallocatedFor, budgetVars
<1>4. ASSUME NEW t \in Tx, PostTx(t)
      PROVE  Blank'
  BY <1>4 DEF TypeOK, PostTx, Credit, References, AccountRefs, budgetVars, moneyVars
<1>5. ASSUME NEW t \in Tx, NEW m \in Amount, ResolveTx(t, m)
      PROVE  Blank'
  <2>1. /\ \A a \in Account : a \notin accounts =>
             available'[a] = 0 /\ posted'[a] = 0
        /\ \A x \in Tx : x \notin txs => amount'[x] = 0
    BY <1>5 DEF TypeOK, ResolveTx, Credit, References, AccountRefs
  <2>2. \A x \in Tx, b \in Budget : <<x, b>> \notin rows => alloc'[x][b] = 0
    <3>1. CASE m = amount[t]
      BY <1>5, <3>1 DEF ResolveTx
    <3>2. CASE m # amount[t]
      <4>1. <<t, UnallocatedFor(t)>> \in rows /\ alloc' = [alloc EXCEPT ![t][UnallocatedFor(t)] = m]
        BY <1>5, <3>2 DEF ResolveTx
      <4> QED BY <4>1 DEF TypeOK
    <3> QED BY <3>1, <3>2
  <2> QED BY <1>5, <2>1, <2>2 DEF ResolveTx, budgetVars
<1>6. ASSUME NEW t \in Tx, DeleteTx(t)
      PROVE  Blank'
  BY <1>6 DEF TypeOK, DeleteTx, Credit, References, AccountRefs, budgetVars
<1>7. ASSUME NEW t \in Tx, NEW m \in SplitRequests, NEW p \in PassedOver(t),
             Split(t, m, p)
      PROVE  Blank'
  <2>1. m \in [Budget -> Nat]
    <3>1. Part \union {0} \subseteq Nat
      OBVIOUS
    <3> QED BY <3>1 DEF SplitRequests
  <2>2. \A b \in Budget : SplitPart(t, m, b) \in Nat
    BY <2>1, SplitInt
  <2>3. ASSUME NEW b \in Budget, SplitPart(t, m, b) = 0
        PROVE  alloc'[t][b] = 0
    <3>1. Signed(amount[t], SplitPart(t, m, b)) = 0
      BY <2>3, SignedZero
    <3>2. b = UnallocatedFor(t) => SecondRow(t, m, p) = 0
      BY <2>1, <2>3, SecondOfNone
    <3>3. alloc'[t][b] = Signed(amount[t], SplitPart(t, m, b))
                           + (IF b = UnallocatedFor(t) THEN SecondRow(t, m, p) ELSE 0)
      BY <1>7 DEF TypeOK, Split
    <3> QED BY <3>1, <3>2, <3>3
  <2>4. ASSUME NEW y \in Tx, NEW b \in Budget, <<y, b>> \notin rows'
        PROVE  alloc'[y][b] = 0
    <3>1. CASE y = t
      <4>1. ~(SplitPart(t, m, b) > 0)
        BY <1>7, <2>4, <3>1 DEF Split
      <4> QED BY <2>2, <2>3, <3>1, <4>1
    <3>2. CASE y # t
      <4>1. <<y, b>> \notin rows /\ alloc'[y] = alloc[y]
        BY <1>7, <2>4, <3>2 DEF Split, TypeOK
      <4> QED BY <4>1
    <3> QED BY <3>1, <3>2
  <2>5. \A y \in Tx : y \notin txs' \/ y \in pending' => excess'[y] = 0
    BY <1>7 DEF TypeOK, Split
  <2> QED BY <1>7, <2>4, <2>5 DEF Split, accountVars, budgetVars
<1>8. ASSUME NEW b \in Budget, NEW k \in Kinds, NEW c \in Budget \union {None},
             CreateBudget(b, k, c)
      PROVE  Blank'
  BY <1>8 DEF TypeOK, CreateBudget, Kinds, accountVars, moneyVars, txVars
<1>9. ASSUME NEW b \in Budget, NEW c \in Budget, UpdateBudget(b, c)
      PROVE  Blank'
  BY <1>9 DEF TypeOK, UpdateBudget, accountVars, moneyVars, txVars
<1>10. ASSUME NEW b \in Budget, NEW i \in Itx, NEW j \in Itx, ArchiveBudget(b, i, j)
       PROVE  Blank'
  <2>1. archived' = archived \union WithChild(b) /\ WithChild(b) \subseteq {x \in Budget : Live(x)}
    BY <1>10 DEF TypeOK, ArchiveBudget, WithChild, References, ChildRefs
  <2> QED BY <1>10, <2>1 DEF TypeOK, ArchiveBudget, IsGoal, accountVars, txVars
<1>11. ASSUME NEW b \in Budget, DeleteBudget(b)
       PROVE  Blank'
  BY <1>11 DEF TypeOK, DeleteBudget, IsGoal, accountVars, txVars
<1>12. ASSUME NEW i \in Itx, NEW s \in Budget, NEW d \in Budget, NEW m \in Part,
              Transfer(i, s, d, m)
       PROVE  Blank'
  BY <1>12 DEF TypeOK, Transfer, IsGoal, accountVars, budgetVars, txVars
<1>13. ASSUME NEW i \in Itx, ReverseTransfer(i)
       PROVE  Blank'
  BY <1>13 DEF TypeOK, ReverseTransfer, IsGoal, accountVars, budgetVars, txVars
<1>14. CASE UNCHANGED vars
  BY <1>14 DEF vars, accountVars, budgetVars, moneyVars, txVars
<1> QED
  BY <1>1, <1>2, <1>3, <1>4, <1>5, <1>6, <1>7, <1>8, <1>9, <1>10, <1>11, <1>12, <1>13, <1>14
  DEF Next, AccountStep, TxStep, BudgetStep, TransferStep

-----------------------------------------------------------------------------
\* One transaction changes, and its account's balances by the same amounts:
\* the balances still match the transactions.
LEMMA AccountDelta ==
  ASSUME TypeOK, TypeOK', AccountsMatchTransactions, NEW t \in Tx,
         \A x \in Tx \ {t} : amount'[x] = amount[x] /\ (x \in pending' <=> x \in pending),
         opening' = opening,
         Credit(TxHome[t], amount'[t] - amount[t], Settled(t)' - Settled(t))
  PROVE  AccountsMatchTransactions'
<1> USE HomesAssumption
<1> SUFFICES ASSUME NEW a \in Account
             PROVE  /\ available'[a] = opening'[a].available + Total(AvailablePart(a)', Tx)
                    /\ posted'[a] = opening'[a].posted + Total(PostedPart(a)', Tx)
    BY DEF AccountsMatchTransactions
<1>1. /\ available[a] = opening[a].available + Total(AvailablePart(a), Tx)
      /\ posted[a] = opening[a].posted + Total(PostedPart(a), Tx)
  BY DEF AccountsMatchTransactions
<1>2. /\ \A x \in Tx : AvailablePart(a)[x] \in Int /\ AvailablePart(a)'[x] \in Int
      /\ \A x \in Tx : PostedPart(a)[x] \in Int /\ PostedPart(a)'[x] \in Int
  BY DEF TypeOK, AvailablePart, PostedPart, Settled
<1>3. /\ \A x \in Tx \ {t} : AvailablePart(a)'[x] = AvailablePart(a)[x]
      /\ \A x \in Tx \ {t} : PostedPart(a)'[x] = PostedPart(a)[x]
  BY DEF AvailablePart, PostedPart, Settled
<1>4. Total(AvailablePart(a)', Tx)
        = Total(AvailablePart(a), Tx) + (AvailablePart(a)'[t] - AvailablePart(a)[t])
  <2>1. \A x \in Tx : AvailablePart(a)[x] \in Int
    BY <1>2
  <2>2. AvailablePart(a)'[t] \in Int
    BY <1>2
  <2>3. \A x \in Tx \ {t} : AvailablePart(a)'[x] = AvailablePart(a)[x]
    BY <1>3
  <2> QED BY <2>1, <2>2, <2>3, PoolsAssumption, SumChangeOne DEF Total
<1>5. Total(PostedPart(a)', Tx)
        = Total(PostedPart(a), Tx) + (PostedPart(a)'[t] - PostedPart(a)[t])
  <2>1. \A x \in Tx : PostedPart(a)[x] \in Int
    BY <1>2
  <2>2. PostedPart(a)'[t] \in Int
    BY <1>2
  <2>3. \A x \in Tx \ {t} : PostedPart(a)'[x] = PostedPart(a)[x]
    BY <1>3
  <2> QED BY <2>1, <2>2, <2>3, PoolsAssumption, SumChangeOne DEF Total
<1>6. Total(AvailablePart(a), Tx) \in Int /\ Total(PostedPart(a), Tx) \in Int
  BY <1>2, PoolsAssumption, SumInt DEF Total
<1>7. Settled(t) \in Int /\ Settled(t)' \in Int /\ amount[t] \in Int /\ amount'[t] \in Int
  BY DEF TypeOK, Settled
<1>8. /\ opening[a].available \in Int /\ opening[a].posted \in Int
      /\ available[a] \in Int /\ posted[a] \in Int
  BY DEF TypeOK
<1>9. CASE TxHome[t] = a
  <2>1. /\ available'[a] = available[a] + (amount'[t] - amount[t])
        /\ posted'[a] = posted[a] + (Settled(t)' - Settled(t))
    BY <1>9 DEF TypeOK, Credit
  <2>2. /\ AvailablePart(a)'[t] = amount'[t] /\ AvailablePart(a)[t] = amount[t]
        /\ PostedPart(a)'[t] = Settled(t)' /\ PostedPart(a)[t] = Settled(t)
    BY <1>9 DEF AvailablePart, PostedPart
  <2> HIDE DEF TypeOK
  <2> QED BY <1>1, <1>4, <1>5, <1>6, <1>7, <1>8, <2>1, <2>2
<1>10. CASE TxHome[t] # a
  <2>1. available'[a] = available[a] /\ posted'[a] = posted[a]
    BY <1>10 DEF TypeOK, Credit
  <2>2. /\ AvailablePart(a)'[t] = 0 /\ AvailablePart(a)[t] = 0
        /\ PostedPart(a)'[t] = 0 /\ PostedPart(a)[t] = 0
    BY <1>10 DEF AvailablePart, PostedPart
  <2> QED BY <1>1, <1>4, <1>5, <1>6, <1>8, <2>1, <2>2
<1> QED BY <1>9, <1>10

\* The account balances match the transactions after every step.
LEMMA AccountsStep ==
  ASSUME TypeOK, References, Blank, AccountsMatchTransactions, [Next]_vars
  PROVE  AccountsMatchTransactions'
<1> USE HomesAssumption, AmountsAssumption
<1>0. TypeOK'
  BY TypeStep
<1>1. ASSUME NEW a \in Account, NEW avail \in Opening, NEW post \in Opening,
             CreateAccount(a, avail, post)
      PROVE  AccountsMatchTransactions'
  <2> SUFFICES ASSUME NEW c \in Account
               PROVE  /\ available'[c] = opening'[c].available + Total(AvailablePart(c)', Tx)
                      /\ posted'[c] = opening'[c].posted + Total(PostedPart(c)', Tx)
      BY DEF AccountsMatchTransactions
  <2>1. AvailablePart(c)' = AvailablePart(c) /\ PostedPart(c)' = PostedPart(c)
    BY <1>1 DEF CreateAccount, txVars, AvailablePart, PostedPart, Settled
  <2>2. CASE c # a
    BY <1>1, <2>1, <2>2 DEF CreateAccount, AccountsMatchTransactions, TypeOK
  <2>3. CASE c = a
    <3>1. \A x \in Tx : AvailablePart(a)[x] = 0 /\ PostedPart(a)[x] = 0
      BY <1>1 DEF CreateAccount, References, AccountRefs, Blank, AvailablePart, PostedPart, Settled
    <3>2. Total(AvailablePart(a), Tx) = 0 /\ Total(PostedPart(a), Tx) = 0
      BY <3>1, PoolsAssumption, SumZero DEF Total
    <3>3. /\ available'[a] = avail /\ opening'[a].available = avail
          /\ posted'[a] = post /\ opening'[a].posted = post
      BY <1>1 DEF CreateAccount, TypeOK
    <3>4. avail \in Int /\ post \in Int
      OBVIOUS
    <3>5. Total(AvailablePart(a)', Tx) = 0 /\ Total(PostedPart(a)', Tx) = 0
      BY <2>1, <2>3, <3>2
    <3> QED BY <2>3, <3>3, <3>4, <3>5
  <2> QED BY <2>2, <2>3
<1>2. ASSUME NEW a \in Account, DeleteAccount(a)
      PROVE  AccountsMatchTransactions'
  <2> SUFFICES ASSUME NEW c \in Account
               PROVE  /\ available'[c] = opening'[c].available + Total(AvailablePart(c)', Tx)
                      /\ posted'[c] = opening'[c].posted + Total(PostedPart(c)', Tx)
      BY DEF AccountsMatchTransactions
  <2>1. CASE c # a
    <3>1. AvailablePart(c)' = AvailablePart(c) /\ PostedPart(c)' = PostedPart(c)
      BY <1>2, <2>1 DEF DeleteAccount, AvailablePart, PostedPart, Settled, TypeOK
    <3> QED BY <1>2, <2>1, <3>1 DEF DeleteAccount, AccountsMatchTransactions, TypeOK
  <2>2. CASE c = a
    <3>1. \A x \in Tx : AvailablePart(a)'[x] = 0 /\ PostedPart(a)'[x] = 0
      BY <1>2 DEF DeleteAccount, AvailablePart, PostedPart, Settled
    <3>2. Total(AvailablePart(a)', Tx) = 0 /\ Total(PostedPart(a)', Tx) = 0
      BY <3>1, PoolsAssumption, SumZero DEF Total
    <3>3. /\ available'[a] = 0 /\ opening'[a].available = 0
          /\ posted'[a] = 0 /\ opening'[a].posted = 0
      BY <1>2 DEF DeleteAccount, TypeOK
    <3> QED BY <2>2, <3>2, <3>3
  <2> QED BY <2>1, <2>2
<1>3. ASSUME NEW t \in Tx, NEW m \in Amount, NEW p \in BOOLEAN, CreateTx(t, m, p)
      PROVE  AccountsMatchTransactions'
  <2>1. amount[t] = 0 /\ amount'[t] = m /\ Settled(t) = 0 /\ Settled(t)' = IF p THEN 0 ELSE m
    BY <1>3 DEF CreateTx, TypeOK, Blank, Settled
  <2>2. Credit(TxHome[t], amount'[t] - amount[t], Settled(t)' - Settled(t))
    BY <1>3, <2>1 DEF CreateTx
  <2>3. \A x \in Tx \ {t} : amount'[x] = amount[x] /\ (x \in pending' <=> x \in pending)
    BY <1>3 DEF CreateTx, TypeOK
  <2> QED BY <1>0, <1>3, <2>2, <2>3, AccountDelta DEF CreateTx
<1>4. ASSUME NEW t \in Tx, PostTx(t)
      PROVE  AccountsMatchTransactions'
  <2>1. amount'[t] = amount[t] /\ Settled(t) = 0 /\ Settled(t)' = amount[t] /\ amount[t] \in Int
    BY <1>4 DEF PostTx, TypeOK, Settled
  <2>2. Credit(TxHome[t], amount'[t] - amount[t], Settled(t)' - Settled(t))
    BY <1>4, <2>1 DEF PostTx
  <2>3. \A x \in Tx \ {t} : amount'[x] = amount[x] /\ (x \in pending' <=> x \in pending)
    BY <1>4 DEF PostTx, TypeOK
  <2> QED BY <1>0, <1>4, <2>2, <2>3, AccountDelta DEF PostTx
<1>5. ASSUME NEW t \in Tx, NEW m \in Amount, ResolveTx(t, m)
      PROVE  AccountsMatchTransactions'
  <2>1. amount'[t] = m /\ Settled(t) = 0 /\ Settled(t)' = m
    BY <1>5 DEF ResolveTx, TypeOK, Settled
  <2>2. Credit(TxHome[t], amount'[t] - amount[t], Settled(t)' - Settled(t))
    BY <1>5, <2>1 DEF ResolveTx
  <2>3. \A x \in Tx \ {t} : amount'[x] = amount[x] /\ (x \in pending' <=> x \in pending)
    BY <1>5 DEF ResolveTx, TypeOK
  <2> QED BY <1>0, <1>5, <2>2, <2>3, AccountDelta DEF ResolveTx
<1>6. ASSUME NEW t \in Tx, DeleteTx(t)
      PROVE  AccountsMatchTransactions'
  <2>1. amount'[t] = 0 /\ Settled(t)' = 0 /\ amount[t] \in Int
    BY <1>6 DEF DeleteTx, TypeOK, Settled
  <2>2. Credit(TxHome[t], amount'[t] - amount[t], Settled(t)' - Settled(t))
    <3>1. amount'[t] - amount[t] = -amount[t]
      BY <2>1
    <3>2. Settled(t)' - Settled(t) = IF t \in pending THEN 0 ELSE -amount[t]
      BY <2>1 DEF Settled
    <3> QED BY <1>6, <3>1, <3>2 DEF DeleteTx
  <2>3. \A x \in Tx \ {t} : amount'[x] = amount[x] /\ (x \in pending' <=> x \in pending)
    BY <1>6 DEF DeleteTx, TypeOK
  <2> QED BY <1>0, <1>6, <2>2, <2>3, AccountDelta DEF DeleteTx
<1>7. ASSUME UNCHANGED <<opening, available, posted, pending, amount>>
      PROVE  AccountsMatchTransactions'
  <2>1. \A c \in Account : AvailablePart(c)' = AvailablePart(c) /\ PostedPart(c)' = PostedPart(c)
    BY <1>7 DEF AvailablePart, PostedPart, Settled
  <2> QED BY <1>7, <2>1 DEF AccountsMatchTransactions
<1>8. ASSUME NEW t \in Tx, NEW m \in SplitRequests, NEW p \in PassedOver(t),
             Split(t, m, p)
      PROVE  AccountsMatchTransactions'
  BY <1>7, <1>8 DEF Split, accountVars
<1>9. ASSUME BudgetStep \/ TransferStep
      PROVE  AccountsMatchTransactions'
  BY <1>7, <1>9 DEF BudgetStep, TransferStep, CreateBudget, UpdateBudget, ArchiveBudget, DeleteBudget,
                    Transfer, ReverseTransfer, accountVars, txVars
<1>10. CASE UNCHANGED vars
  BY <1>7, <1>10 DEF vars, accountVars, txVars
<1> QED
  BY <1>1, <1>2, <1>3, <1>4, <1>5, <1>6, <1>8, <1>9, <1>10
  DEF Next, AccountStep, TxStep

-----------------------------------------------------------------------------
\* Negating every part negates the total: the parts of a debit.
LEMMA SumNegate ==
  ASSUME NEW S, IsFiniteSet(S), NEW f, \A x \in S : f[x] \in Int,
         NEW g, \A x \in S : g[x] = -f[x]
  PROVE  SumFunctionOnSet(g, S) = -SumFunctionOnSet(f, S)
<1> DEFINE z == [x \in S |-> 0]
<1>1. \A x \in S : z[x] = 0
  OBVIOUS
<1> HIDE DEF z
<1>2. SumFunctionOnSet(z, S) = 0
  BY <1>1, SumZero
<1>3. \A x \in S : z[x] \in Int /\ f[x] \in Int /\ g[x] = z[x] - f[x]
  BY <1>1
<1>4. SumFunctionOnSet(g, S) = SumFunctionOnSet(z, S) - SumFunctionOnSet(f, S)
  BY <1>3, SumMinus
<1>5. SumFunctionOnSet(f, S) \in Int
  BY SumInt
<1>6. \A n \in Int : 0 - n = -n
  OBVIOUS
<1> QED BY <1>2, <1>4, <1>5, <1>6

\* A split writes allocations that add up to the transaction and to what it
\* notes as excess, whatever was allocated before.
LEMMA SplitCovers ==
  ASSUME TypeOK, NEW t \in Tx, NEW m \in [Budget -> Nat], NEW p \in PassedOver(t),
         Total(m, Budget) <= Magnitude(amount[t]),
         NEW new, new = [b \in Budget |->
                           Signed(amount[t], SplitPart(t, m, b))
                             + (IF b = UnallocatedFor(t) THEN SecondRow(t, m, p) ELSE 0)]
  PROVE  Total(new, Budget) = amount[t] + Excess(t, m, p)
<1> USE HomesAssumption, PoolsAssumption
<1> DEFINE u == UnallocatedFor(t)
           part == [b \in Budget |-> SplitPart(t, m, b)]
           signed == [b \in Budget |-> Signed(amount[t], SplitPart(t, m, b))]
           over == IF SplitRemainder(t, m) > 0 THEN m[u] ELSE 0
<1>1. u \in Budget
  BY DEF UnallocatedFor
<1>2. /\ Total(m, Budget) \in Int /\ SplitRemainder(t, m) \in Int
      /\ Magnitude(amount[t]) \in Nat
      /\ \A b \in Budget : SplitPart(t, m, b) \in Nat
      /\ \A b \in Budget : Signed(amount[t], SplitPart(t, m, b)) \in Int
      /\ SecondRow(t, m, p) \in Int
  BY SplitInt
<1>3. SplitRemainder(t, m) = Magnitude(amount[t]) - Total(m, Budget)
  BY DEF SplitRemainder
<1>4. over \in Int /\ part[u] - m[u] = SplitRemainder(t, m) - over
  <2>1. m[u] \in Nat
    BY <1>1
  <2>2. CASE SplitRemainder(t, m) > 0
    <3>1. part[u] = SplitRemainder(t, m) /\ over = m[u]
      BY <1>1, <2>2 DEF SplitPart
    <3> HIDE DEF part, over
    <3> QED BY <1>2, <2>1, <3>1
  <2>3. CASE ~(SplitRemainder(t, m) > 0)
    <3>1. part[u] = m[u] /\ over = 0
      BY <1>1, <2>3 DEF SplitPart
    <3>2. SplitRemainder(t, m) = 0
      <4>1. \A k, n, r \in Int : r = k - n /\ n <= k /\ ~(r > 0) => r = 0
        OBVIOUS
      <4>2. Magnitude(amount[t]) \in Int
        BY <1>2
      <4> HIDE DEF part, over
      <4> QED BY <1>2, <1>3, <2>3, <4>1, <4>2
    <3> HIDE DEF part, over
    <3> QED BY <2>1, <3>1, <3>2
  <2> QED BY <2>2, <2>3
<1>5. \A b \in Budget \ {u} : part[b] = m[b]
  BY DEF SplitPart
<1>6. \A b \in Budget : part[b] \in Int
  BY <1>2
<1>7. Total(part, Budget) = Total(m, Budget) + (part[u] - m[u])
  <2>1. \A b \in Budget : m[b] \in Int
    OBVIOUS
  <2>2. part[u] \in Int
    BY <1>1, <1>6
  <2>3. IsFiniteSet(Budget)
    OBVIOUS
  <2> HIDE DEF part, u
  <2>4. SumFunctionOnSet(part, Budget) = SumFunctionOnSet(m, Budget) + (part[u] - m[u])
    BY ONLY <1>1, <1>5, <2>1, <2>2, <2>3, SumChangeOne
  <2> QED BY <2>4 DEF Total
<1>8. Total(part, Budget) = Magnitude(amount[t]) - over
  <2> HIDE DEF part, over, u
  <2> QED BY <1>2, <1>3, <1>4, <1>7
<1>9. Total(signed, Budget) = amount[t] - Signed(amount[t], over)
  <2>0. amount[t] \in Int
    BY DEF TypeOK
  <2>1. CASE amount[t] < 0
    <3>1. \A b \in Budget : signed[b] = -part[b]
      BY <2>1 DEF Signed
    <3>2. Total(signed, Budget) = -Total(part, Budget)
      <4> HIDE DEF part, signed
      <4> QED BY <1>6, <3>1, SumNegate DEF Total
    <3>3. Magnitude(amount[t]) = -amount[t] /\ Signed(amount[t], over) = -over
      BY <2>1 DEF Magnitude, Signed
    <3> HIDE DEF part, signed, over
    <3> QED BY <1>4, <1>8, <2>0, <3>2, <3>3
  <2>2. CASE ~(amount[t] < 0)
    <3>1. signed = part /\ Magnitude(amount[t]) = amount[t] /\ Signed(amount[t], over) = over
      BY <2>2 DEF Signed, Magnitude
    <3> HIDE DEF part, signed, over
    <3> QED BY <1>8, <3>1
  <2> QED BY <2>1, <2>2
<1>10. Total(new, Budget) = Total(signed, Budget) + SecondRow(t, m, p)
  <2>1. \A b \in Budget : signed[b] \in Int
    BY <1>2
  <2>2. new[u] = signed[u] + SecondRow(t, m, p)
    BY <1>1
  <2>3. \A b \in Budget \ {u} : new[b] = signed[b]
    <3>1. \A b \in Budget \ {u} : new[b] = signed[b] + 0
      OBVIOUS
    <3> HIDE DEF signed
    <3> QED BY <2>1, <3>1
  <2>4. signed[u] \in Int /\ new[u] \in Int /\ new[u] - signed[u] = SecondRow(t, m, p)
    <3>1. signed[u] \in Int
      BY <1>1, <2>1
    <3> HIDE DEF signed, u
    <3> QED BY <1>2, <2>2, <3>1
  <2>5. IsFiniteSet(Budget)
    OBVIOUS
  <2>6. new[u] \in Int
    BY <2>4
  <2> HIDE DEF signed, u
  <2>7. SumFunctionOnSet(new, Budget) = SumFunctionOnSet(signed, Budget) + (new[u] - signed[u])
    BY ONLY <1>1, <2>1, <2>3, <2>5, <2>6, SumChangeOne
  <2> QED BY <2>4, <2>7 DEF Total
<1>11. /\ Excess(t, m, p) = SecondRow(t, m, p) - Signed(amount[t], over)
       /\ Signed(amount[t], over) \in Int /\ amount[t] \in Int
  <2>1. amount[t] \in Int
    BY DEF TypeOK
  <2>2. Signed(amount[t], over) \in Int
    <3> HIDE DEF over
    <3> QED BY <1>4 DEF Signed
  <2>3. Signed(amount[t], 0) = 0
    BY 0 \in Int, SignedZero
  <2>4. Signed(amount[t], over) = IF SplitRemainder(t, m) > 0 THEN Signed(amount[t], m[u]) ELSE 0
    BY <2>3
  <2> QED BY <2>1, <2>2, <2>4 DEF Excess
<1> HIDE DEF u, part, signed, over
<1> QED BY <1>2, <1>9, <1>10, <1>11

\* Every step keeps each transaction's allocations at its amount and its excess.
LEMMA CoverStep ==
  ASSUME TypeOK, References, Blank, AllocationsAccounted, [Next]_vars
  PROVE  AllocationsAccounted'
<1> USE HomesAssumption, AmountsAssumption, PoolsAssumption
<1>0. TypeOK'
  BY TypeStep
<1>1. ASSUME NEW t \in Tx, Total(alloc'[t], Budget) = amount'[t] + excess'[t],
             \A x \in Tx \ {t} : /\ alloc'[x] = alloc[x] /\ amount'[x] = amount[x]
                                /\ excess'[x] = excess[x]
      PROVE  AllocationsAccounted'
  BY <1>1 DEF AllocationsAccounted
<1>2. ASSUME UNCHANGED <<alloc, amount, excess>>
      PROVE  AllocationsAccounted'
  BY <1>2 DEF AllocationsAccounted
<1>3. ASSUME NEW t \in Tx, \A b \in Budget \ {UnallocatedFor(t)} : alloc'[t][b] = 0,
             alloc'[t][UnallocatedFor(t)] \in Int
      PROVE  Total(alloc'[t], Budget) = alloc'[t][UnallocatedFor(t)]
  <2>1. UnallocatedFor(t) \in Budget
    BY DEF UnallocatedFor
  <2> QED BY <1>3, <2>1, SumSingle DEF Total
<1>4. ASSUME NEW a \in Account, DeleteAccount(a)
      PROVE  AllocationsAccounted'
  <2> SUFFICES ASSUME NEW t \in Tx
               PROVE  Total(alloc'[t], Budget) = amount'[t] + excess'[t]
      BY DEF AllocationsAccounted
  <2>1. CASE TxHome[t] = a
    <3>1. amount'[t] = 0 /\ excess'[t] = 0 /\ \A b \in Budget : alloc'[t][b] = 0
      BY <1>4, <2>1 DEF DeleteAccount
    <3> QED BY <3>1, SumZero DEF Total
  <2>2. CASE TxHome[t] # a
    BY <1>4, <2>2 DEF DeleteAccount, AllocationsAccounted
  <2> QED BY <2>1, <2>2
<1>5. ASSUME NEW t \in Tx, NEW m \in Amount, NEW p \in BOOLEAN, CreateTx(t, m, p)
      PROVE  AllocationsAccounted'
  <2>1. /\ \A b \in Budget \ {UnallocatedFor(t)} : alloc'[t][b] = 0
        /\ alloc'[t][UnallocatedFor(t)] = m /\ amount'[t] = m
        /\ \A x \in Tx \ {t} : alloc'[x] = alloc[x] /\ amount'[x] = amount[x]
        /\ excess' = excess /\ excess[t] = 0 /\ m \in Int
    <3>0. \A b \in Budget : <<t, b>> \notin rows
      BY <1>5 DEF CreateTx, TypeOK
    <3>1. \A b \in Budget : alloc[t][b] = 0
      BY <3>0 DEF Blank
    <3>2. UnallocatedFor(t) \in Budget
      BY DEF UnallocatedFor
    <3>3. /\ alloc' = [alloc EXCEPT ![t][UnallocatedFor(t)] = m]
          /\ amount' = [amount EXCEPT ![t] = m]
      BY <1>5 DEF CreateTx
    <3>4. excess' = excess /\ excess[t] = 0 /\ m \in Int
      BY <1>5 DEF CreateTx, Blank
    <3> QED BY <3>1, <3>2, <3>3, <3>4 DEF TypeOK
  <2>2. Total(alloc'[t], Budget) = m
    BY <1>3, <2>1
  <2> QED BY <1>1, <2>1, <2>2
<1>6. ASSUME NEW t \in Tx, NEW m \in Amount, ResolveTx(t, m)
      PROVE  AllocationsAccounted'
  <2>1. CASE m = amount[t]
    <3>1. UNCHANGED <<alloc, amount, excess>>
      BY <1>6, <2>1 DEF ResolveTx, TypeOK
    <3> QED BY <1>2, <3>1
  <2>2. CASE m # amount[t]
    <3>0. alloc' = [alloc EXCEPT ![t][UnallocatedFor(t)] = m] /\ amount' = [amount EXCEPT ![t] = m]
      BY <1>6, <2>2 DEF ResolveTx
    <3>1. \A b \in Budget \ {UnallocatedFor(t)} : alloc[t][b] = 0
      BY <1>6 DEF ResolveTx, References, RowRefs, Blank
    <3>2. /\ \A b \in Budget \ {UnallocatedFor(t)} : alloc'[t][b] = 0
          /\ alloc'[t][UnallocatedFor(t)] = m /\ amount'[t] = m
          /\ \A x \in Tx \ {t} : alloc'[x] = alloc[x] /\ amount'[x] = amount[x]
      BY <3>0, <3>1 DEF TypeOK, UnallocatedFor
    <3>3. Total(alloc'[t], Budget) = m
      BY <1>3, <3>2
    <3>4. excess' = excess /\ excess[t] = 0 /\ m \in Int
      BY <1>6 DEF ResolveTx, Blank
    <3> QED BY <1>1, <3>2, <3>3, <3>4
  <2> QED BY <2>1, <2>2
<1>7. ASSUME NEW t \in Tx, DeleteTx(t)
      PROVE  AllocationsAccounted'
  <2>1. /\ amount'[t] = 0 /\ excess'[t] = 0 /\ \A b \in Budget : alloc'[t][b] = 0
        /\ \A x \in Tx \ {t} : /\ alloc'[x] = alloc[x] /\ amount'[x] = amount[x]
                              /\ excess'[x] = excess[x]
    BY <1>7 DEF DeleteTx, TypeOK
  <2>2. Total(alloc'[t], Budget) = 0
    BY <2>1, SumZero DEF Total
  <2> QED BY <1>1, <2>1, <2>2
<1>8. ASSUME NEW t \in Tx, NEW m \in SplitRequests, NEW p \in PassedOver(t),
             Split(t, m, p)
      PROVE  AllocationsAccounted'
  <2>1. m \in [Budget -> Nat]
    <3>1. Part \union {0} \subseteq Nat
      OBVIOUS
    <3> QED BY <3>1 DEF SplitRequests
  <2>2. Total(m, Budget) <= Magnitude(amount[t])
    BY <1>8 DEF Split, SplitIsValid
  <2>3. /\ alloc'[t] = [b \in Budget |->
                         Signed(amount[t], SplitPart(t, m, b))
                           + (IF b = UnallocatedFor(t) THEN SecondRow(t, m, p) ELSE 0)]
        /\ amount' = amount
        /\ excess'[t] = Excess(t, m, p)
        /\ \A y \in Tx \ {t} : alloc'[y] = alloc[y] /\ excess'[y] = excess[y]
    BY <1>8 DEF Split, TypeOK
  <2>4. Total(alloc'[t], Budget) = amount[t] + Excess(t, m, p)
    BY <2>1, <2>2, <2>3, SplitCovers
  <2> QED BY <1>1, <2>3, <2>4
<1>9. ASSUME NEW a \in Account, NEW avail \in Opening, NEW post \in Opening,
             CreateAccount(a, avail, post)
      PROVE  AllocationsAccounted'
  BY <1>2, <1>9 DEF CreateAccount, txVars
<1>10. ASSUME NEW t \in Tx, PostTx(t)
       PROVE  AllocationsAccounted'
  BY <1>2, <1>10 DEF PostTx
<1>11. ASSUME BudgetStep \/ TransferStep
       PROVE  AllocationsAccounted'
  BY <1>2, <1>11 DEF BudgetStep, TransferStep, CreateBudget, UpdateBudget, ArchiveBudget, DeleteBudget,
                     Transfer, ReverseTransfer, txVars
<1>12. CASE UNCHANGED vars
  BY <1>2, <1>12 DEF vars, txVars
<1> QED
  BY <1>4, <1>5, <1>6, <1>7, <1>8, <1>9, <1>10, <1>11, <1>12 DEF Next, AccountStep, TxStep

-----------------------------------------------------------------------------
\* A budget that no allocation names received nothing from transactions.
LEMMA SpentZero ==
  ASSUME NEW b \in Budget, \A t \in Tx : alloc[t][b] = 0
  PROVE  Spent(b) = 0
<1> DEFINE f == [t \in Tx |-> alloc[t][b]]
<1>1. \A t \in Tx : f[t] = 0
  OBVIOUS
<1> HIDE DEF f
<1>2. SumFunctionOnSet(f, Tx) = 0
  BY <1>1, PoolsAssumption, SumZero
<1> QED BY <1>2 DEF Spent, Total, f

\* A budget that no transfer touches received nothing from transfers.
LEMMA NetZero ==
  ASSUME NEW S \in SUBSET Itx, NEW b \in Budget, \A i \in S : Net(i, b) = 0
  PROVE  NetOf(S, b) = 0
<1> DEFINE f == [i \in Itx |-> Net(i, b)]
<1>1. \A i \in S : f[i] = 0
  OBVIOUS
<1>2. IsFiniteSet(S)
  BY PoolsAssumption, FS_Subset
<1> HIDE DEF f
<1>3. SumFunctionOnSet(f, S) = 0
  BY <1>1, <1>2, SumZero
<1> QED BY <1>3 DEF NetOf, Total, f

\* Money spent from a budget is an integer.
LEMMA SpentInt ==
  ASSUME TypeOK, NEW b \in Budget
  PROVE  Spent(b) \in Int
<1> DEFINE f == [t \in Tx |-> alloc[t][b]]
<1>1. \A t \in Tx : f[t] \in Int
  BY DEF TypeOK
<1> HIDE DEF f
<1>2. SumFunctionOnSet(f, Tx) \in Int
  BY <1>1, PoolsAssumption, SumInt
<1> QED BY <1>2 DEF Spent, Total, f

\* Transfers only touch budgets that exist.
LEMMA DeadNet ==
  ASSUME References, NEW b \in Budget, ~Live(b)
  PROVE  \A i \in Itx : Net(i, b) = 0
<1>1. ASSUME NEW i \in Itx, itx[i] = NoTransfer
      PROVE  Net(i, b) = 0
  BY <1>1, HomesAssumption DEF Net, Effect, NoTransfer
<1>2. ASSUME NEW i \in Itx, itx[i] # NoTransfer
      PROVE  Net(i, b) = 0
  <2>1. b # itx[i].src /\ b # itx[i].dst
    BY <1>2 DEF References, TransferRefs
  <2> QED BY <2>1 DEF Net, Effect
<1> QED BY <1>1, <1>2

\* When one transaction's allocations change, what a budget received changes
\* by that much.
LEMMA SpentDelta ==
  ASSUME TypeOK, TypeOK', NEW t \in Tx, \A x \in Tx \ {t} : alloc'[x] = alloc[x], NEW b \in Budget
  PROVE  Spent(b)' = Spent(b) + (alloc'[t][b] - alloc[t][b])
<1> DEFINE f == [x \in Tx |-> alloc[x][b]]
           g == [x \in Tx |-> alloc'[x][b]]
<1>1. \A x \in Tx : f[x] \in Int
  BY DEF TypeOK
<1>2. g[t] \in Int
  BY DEF TypeOK
<1>3. \A x \in Tx \ {t} : g[x] = f[x]
  OBVIOUS
<1>4. g[t] = alloc'[t][b] /\ f[t] = alloc[t][b]
  OBVIOUS
<1>5. Spent(b) = SumFunctionOnSet(f, Tx) /\ Spent(b)' = SumFunctionOnSet(g, Tx)
  BY DEF Spent, Total
<1> HIDE DEF f, g
<1>6. SumFunctionOnSet(g, Tx) = SumFunctionOnSet(f, Tx) + (g[t] - f[t])
  BY <1>1, <1>2, <1>3, PoolsAssumption, SumChangeOne
<1> QED BY <1>4, <1>5, <1>6

\* When one transfer changes, the net of a budget changes by that much.
LEMMA NetDelta ==
  ASSUME TypeOK, TypeOK', NEW i \in Itx, \A k \in Itx \ {i} : itx'[k] = itx[k], NEW b \in Budget
  PROVE  NetOf(Itx, b)' = NetOf(Itx, b) + (Net(i, b)' - Net(i, b))
<1> DEFINE f == [k \in Itx |-> Net(k, b)]
           g == [k \in Itx |-> Net(k, b)']
<1>1. \A k \in Itx : f[k] \in Int
  BY NetInt
<1>2. g[i] \in Int
  BY DEF TypeOK, TransferType, Net, Effect
<1>3. \A k \in Itx \ {i} : g[k] = f[k]
  BY DEF Net
<1>4. g[i] = Net(i, b)' /\ f[i] = Net(i, b)
  OBVIOUS
<1>5. NetOf(Itx, b) = SumFunctionOnSet(f, Itx) /\ NetOf(Itx, b)' = SumFunctionOnSet(g, Itx)
  BY DEF NetOf, Total
<1> HIDE DEF f, g
<1>6. SumFunctionOnSet(g, Itx) = SumFunctionOnSet(f, Itx) + (g[i] - f[i])
  BY <1>1, <1>2, <1>3, PoolsAssumption, SumChangeOne
<1> QED BY <1>4, <1>5, <1>6

\* Transfer: the new row carries the whole effect.
LEMMA TransferNet ==
  ASSUME TypeOK, TypeOK', NEW i \in Itx, NEW s \in Budget, NEW d \in Budget, NEW m \in Part,
         Transfer(i, s, d, m), NEW b \in Budget
  PROVE  NetOf(Itx, b)' = NetOf(Itx, b) + Effect(s, d, m, b)
<1>1. NetOf(Itx, b)' = NetOf(Itx, b) + (Net(i, b)' - Net(i, b))
  BY NetDelta DEF Transfer, TypeOK
<1>2. Net(i, b)' = Effect(s, d, m, b)
  BY DEF Transfer, TypeOK, Net
<1>3. Net(i, b) = 0
  BY HomesAssumption DEF Transfer, NoTransfer, Net, Effect
<1>4. Effect(s, d, m, b) \in Int /\ NetOf(Itx, b) \in Int
  <2>1. NetOf(Itx, b) \in Int
    BY NetInt
  <2> QED BY <2>1, AmountsAssumption DEF Effect
<1> QED BY <1>1, <1>2, <1>3, <1>4

\* ReverseTransfer: the row's effect is taken back.
LEMMA ReverseNet ==
  ASSUME TypeOK, TypeOK', NEW i \in Itx, ReverseTransfer(i), NEW b \in Budget
  PROVE  NetOf(Itx, b)' = NetOf(Itx, b) - Net(i, b)
<1>1. NetOf(Itx, b)' = NetOf(Itx, b) + (Net(i, b)' - Net(i, b))
  BY NetDelta DEF ReverseTransfer, TypeOK
<1>2. Net(i, b)' = 0
  BY HomesAssumption DEF ReverseTransfer, TypeOK, Net, Effect, NoTransfer
<1>3. Net(i, b) \in Int /\ NetOf(Itx, b) \in Int
  BY NetInt
<1> QED BY <1>1, <1>2, <1>3

\* ArchiveBudget: at most two new rows, which carry both sweeps.
LEMMA ArchiveNet ==
  ASSUME TypeOK, TypeOK', References, NEW b \in Budget, NEW i \in Itx, NEW j \in Itx,
         ArchiveBudget(b, i, j), NEW x \in Budget
  PROVE  LET u == Unallocated[Home[b]] IN
         /\ Effect(fillup[b], u, Drained(fillup[b]), x) \in Int
         /\ Effect(b, u, Drained(b), x) \in Int
         /\ NetOf(Itx, x)' = NetOf(Itx, x) + Effect(fillup[b], u, Drained(fillup[b]), x)
                                          + Effect(b, u, Drained(b), x)
<1> DEFINE u == Unallocated[Home[b]]
           first == Effect(fillup[b], u, Drained(fillup[b]), x)
           second == Effect(b, u, Drained(b), x)
           f == [k \in Itx |-> Net(k, x)]
           g == [k \in Itx |-> IF k = i THEN first ELSE 0]
           h == [k \in Itx |-> IF k = j THEN second ELSE 0]
           fg == [k \in Itx |-> f[k] + g[k]]
           new == [k \in Itx |-> Net(k, x)']
<1>1. Drained(b) \in Nat /\ Drained(fillup[b]) \in Nat
  BY DEF TypeOK, Drained, Live
<1>2. first \in Int /\ second \in Int
  BY <1>1 DEF Effect
<1>3. \A k \in Itx : f[k] \in Int
  BY NetInt
<1>4. \A k \in Itx : new[k] = fg[k] + h[k]
  <2> SUFFICES ASSUME NEW k \in Itx PROVE new[k] = fg[k] + h[k]
      OBVIOUS
  <2>0. i # j /\ f[k] \in Int
    BY <1>3 DEF ArchiveBudget
  <2>1. CASE k = i /\ Drained(fillup[b]) > 0
    <3>1. Net(k, x) = 0
      BY <2>1, HomesAssumption DEF ArchiveBudget, NoTransfer, Net, Effect
    <3>2. Net(k, x)' = first
      BY <2>1 DEF ArchiveBudget, TypeOK, Net
    <3> QED BY <1>2, <2>0, <2>1, <3>1, <3>2
  <2>2. CASE k = j /\ Drained(b) > 0
    <3>1. Net(k, x) = 0
      BY <2>2, HomesAssumption DEF ArchiveBudget, NoTransfer, Net, Effect
    <3>2. Net(k, x)' = second
      BY <2>0, <2>2 DEF ArchiveBudget, TypeOK, Net
    <3> QED BY <1>2, <2>0, <2>2, <3>1, <3>2
  <2>3. CASE ~(k = i /\ Drained(fillup[b]) > 0) /\ ~(k = j /\ Drained(b) > 0)
    <3>1. Net(k, x)' = Net(k, x)
      BY <2>3 DEF ArchiveBudget, TypeOK, Net
    <3>2. g[k] = 0 /\ h[k] = 0
      BY <1>1, <2>3 DEF Effect
    <3> QED BY <2>0, <3>1, <3>2
  <2> QED BY <2>1, <2>2, <2>3
<1>5. /\ \A k \in Itx : g[k] \in Int
      /\ \A k \in Itx : h[k] \in Int
      /\ \A k \in Itx : fg[k] = f[k] + g[k]
      /\ \A k \in Itx \ {i} : g[k] = 0
      /\ \A k \in Itx \ {j} : h[k] = 0
      /\ g[i] = first /\ h[j] = second
  BY <1>2
<1>6. NetOf(Itx, x) = SumFunctionOnSet(f, Itx) /\ NetOf(Itx, x)' = SumFunctionOnSet(new, Itx)
  BY DEF NetOf, Total
<1> HIDE DEF f, g, h, fg, new, first, second
<1>7. SumFunctionOnSet(g, Itx) = first
  BY <1>2, <1>5, PoolsAssumption, SumSingle
<1>8. SumFunctionOnSet(h, Itx) = second
  BY <1>2, <1>5, PoolsAssumption, SumSingle
<1>9. SumFunctionOnSet(fg, Itx) = SumFunctionOnSet(f, Itx) + SumFunctionOnSet(g, Itx)
  BY <1>3, <1>5, PoolsAssumption, SumPlus
<1>10. \A k \in Itx : fg[k] \in Int
  BY <1>3, <1>5
<1>11. SumFunctionOnSet(new, Itx) = SumFunctionOnSet(fg, Itx) + SumFunctionOnSet(h, Itx)
  BY <1>4, <1>5, <1>10, PoolsAssumption, SumPlus
<1>12. NetOf(Itx, x)' = NetOf(Itx, x) + first + second
  BY <1>6, <1>7, <1>8, <1>9, <1>11
<1> QED BY <1>2, <1>12 DEF first, second

-----------------------------------------------------------------------------
\* Over a set that holds both ends of a transfer, its effect cancels out.
LEMMA EffectCancels ==
  ASSUME NEW S, IsFiniteSet(S), NEW s \in S, NEW d \in S, NEW m \in Int,
         NEW f, \A x \in S : f[x] = Effect(s, d, m, x)
  PROVE  SumFunctionOnSet(f, S) = 0
<1> DEFINE g == [x \in S |-> IF x = d THEN m ELSE 0]
           h == [x \in S |-> IF x = s THEN m ELSE 0]
<1>1. /\ \A x \in S : g[x] \in Int /\ h[x] \in Int /\ f[x] = g[x] - h[x]
      /\ \A x \in S \ {d} : g[x] = 0
      /\ \A x \in S \ {s} : h[x] = 0
      /\ g[d] = m /\ h[s] = m
  BY DEF Effect
<1> HIDE DEF g, h
<1>2. SumFunctionOnSet(g, S) = m
  BY <1>1, SumSingle
<1>3. SumFunctionOnSet(h, S) = m
  BY <1>1, SumSingle
<1>4. SumFunctionOnSet(f, S) = SumFunctionOnSet(g, S) - SumFunctionOnSet(h, S)
  BY <1>1, SumMinus
<1> QED BY <1>2, <1>3, <1>4

\* A transfer with both ends in D adds nothing to the budgets of D together,
\* and a transfer with no end in D adds nothing to any of them.
LEMMA InnerNet ==
  ASSUME TypeOK, References, NEW D \in SUBSET Budget, NEW i \in Itx \ Crossing(D)
  PROVE  Total([d \in D |-> Net(i, d)], D) = 0
<1> DEFINE f == [d \in D |-> Net(i, d)]
<1>1. IsFiniteSet(D)
  BY PoolsAssumption, FS_Subset
<1>2. CASE itx[i].src \in D /\ itx[i].dst \in D
  <2>1. \A x \in D : f[x] = Effect(itx[i].src, itx[i].dst, itx[i].amount, x)
    BY DEF Net
  <2>2. itx[i].amount \in Int
    BY DEF TypeOK, TransferType
  <2> HIDE DEF f
  <2>3. SumFunctionOnSet(f, D) = 0
    BY <1>1, <1>2, <2>1, <2>2, EffectCancels
  <2> QED BY <2>3 DEF Total, f
<1>3. CASE ~(itx[i].src \in D /\ itx[i].dst \in D)
  <2>1. itx[i].src \notin D /\ itx[i].dst \notin D
    BY <1>3 DEF Crossing, Touching
  <2>2. \A x \in D : f[x] = 0
    BY <2>1 DEF Net, Effect
  <2> HIDE DEF f
  <2>3. SumFunctionOnSet(f, D) = 0
    BY <1>1, <2>2, SumZero
  <2> QED BY <2>3 DEF Total, f
<1> QED BY <1>2, <1>3

\* The transfers that stay among the doomed budgets, or away from them, add
\* nothing to the doomed budgets together.
LEMMA InnerNets ==
  ASSUME TypeOK, References, NEW D \in SUBSET Budget
  PROVE  Total([d \in D |-> NetOf(Itx \ Crossing(D), d)], D) = 0
<1> DEFINE A == Itx \ Crossing(D)
           F == [i \in A |-> [d \in D |-> Net(i, d)]]
           G == [d \in D |-> [i \in Itx |-> Net(i, d)]]
           perItx == [i \in A |-> SumFunctionOnSet(F[i], D)]
           perBudget == [d \in D |-> NetOf(A, d)]
<1>1. IsFiniteSet(A) /\ IsFiniteSet(D)
  BY PoolsAssumption, FS_Subset
<1>2. IntTable(F, A, D) /\ Transposed(F, G, A, D)
  BY NetInt DEF IntTable, Transposed
<1>3. RowSums(perItx, F, A, D) /\ RowSums(perBudget, G, D, A)
  BY DEF RowSums, NetOf, Total
<1>4. \A i \in A : perItx[i] = 0
  BY InnerNet DEF Total
<1> HIDE DEF A, F, G, perItx, perBudget
<1>6. SumFunctionOnSet(perItx, A) = SumFunctionOnSet(perBudget, D)
  BY <1>1, <1>2, <1>3, SumSwap
<1>7. SumFunctionOnSet(perItx, A) = 0
  BY <1>1, <1>4, SumZero
<1> QED BY <1>6, <1>7 DEF Total, perBudget, A

\* What budget.delete sweeps into Unallocated is always zero.
LEMMA ResidualZero ==
  ASSUME TypeOK, References, Blank, BudgetExplained, NEW D \in SUBSET Budget,
         NotAllocated(D), \A d \in D : d # Unallocated[Home[d]]
  PROVE  Residual(D) = 0
<1> DEFINE left == [d \in Budget |-> balance[d] - NetOf(Crossing(D), d)]
           inner == [d \in D |-> NetOf(Itx \ Crossing(D), d)]
<1>1. ASSUME NEW d \in D
      PROVE  left[d] = inner[d]
  <2> DEFINE f == [i \in Itx |-> Net(i, d)]
  <2>1. \A t \in Tx : alloc[t][d] = 0
    BY DEF NotAllocated, Blank
  <2>2. balance[d] = NetOf(Itx, d)
    <3>1. Spent(d) = 0
      BY <2>1, SpentZero
    <3>2. Base(d) = 0 /\ balance[d] = Base(d) + Spent(d) + NetOf(Itx, d)
      BY DEF Base, BudgetExplained
    <3>3. NetOf(Itx, d) \in Int
      BY NetInt
    <3> QED BY <3>1, <3>2, <3>3
  <2>3. Crossing(D) \in SUBSET Itx
    BY DEF Crossing, Touching
  <2>4. \A i \in Itx : f[i] \in Int
    BY NetInt
  <2>5. /\ NetOf(Itx, d) = SumFunctionOnSet(f, Itx)
        /\ NetOf(Crossing(D), d) = SumFunctionOnSet(f, Crossing(D))
        /\ NetOf(Itx \ Crossing(D), d) = SumFunctionOnSet(f, Itx \ Crossing(D))
    BY DEF NetOf, Total
  <2> HIDE DEF f
  <2>6. SumFunctionOnSet(f, Itx) = SumFunctionOnSet(f, Crossing(D)) + SumFunctionOnSet(f, Itx \ Crossing(D))
    BY <2>3, <2>4, PoolsAssumption, SumPartition
  <2>7. NetOf(Crossing(D), d) \in Int /\ NetOf(Itx \ Crossing(D), d) \in Int
    BY <2>3, NetInt
  <2> QED BY <2>2, <2>5, <2>6, <2>7
<1>2. IsFiniteSet(D)
  BY PoolsAssumption, FS_Subset
<1>3. SumFunctionOnSet(inner, D) = 0
  BY InnerNets DEF Total
<1> HIDE DEF left, inner
<1>4. SumFunctionOnSet(left, D) = SumFunctionOnSet(inner, D)
  BY <1>1, <1>2, SumEqual
<1> QED BY <1>3, <1>4 DEF Residual, Total, left

\* DeleteBudget: a surviving budget loses exactly its transfers with the
\* doomed ones, and the doomed ones lose every transfer.
LEMMA DeleteNet ==
  ASSUME TypeOK, TypeOK', NEW D \in SUBSET Budget,
         itx' = [i \in Itx |-> IF i \in Touching(D) THEN NoTransfer ELSE itx[i]],
         NEW x \in Budget
  PROVE  /\ x \in D => NetOf(Itx, x)' = 0
         /\ x \notin D => NetOf(Itx, x)' = NetOf(Itx, x) - NetOf(Crossing(D), x)
<1> DEFINE f == [i \in Itx |-> Net(i, x)]
           g == [i \in Itx |-> Net(i, x)']
<1>1. \A i \in Itx : g[i] = IF i \in Touching(D) THEN 0 ELSE f[i]
  BY HomesAssumption DEF Net, Effect, NoTransfer
<1>2. \A i \in Itx : f[i] \in Int
  BY NetInt
<1>3. NetOf(Itx, x)' = SumFunctionOnSet(g, Itx)
  BY DEF NetOf, Total
<1>4. ASSUME x \in D
      PROVE  NetOf(Itx, x)' = 0
  <2>1. \A i \in Itx : g[i] = 0
    <3>1. \A i \in Itx \ Touching(D) : f[i] = 0
      BY <1>4 DEF Touching, Net, Effect
    <3> QED BY <1>1, <3>1
  <2> HIDE DEF g
  <2> QED BY <1>3, <2>1, PoolsAssumption, SumZero
<1>5. ASSUME x \notin D
      PROVE  NetOf(Itx, x)' = NetOf(Itx, x) - NetOf(Crossing(D), x)
  <2> DEFINE A == Itx \ Crossing(D)
  <2>1. Crossing(D) \in SUBSET Itx /\ A \in SUBSET Itx
    BY DEF Crossing, Touching
  <2>2. \A i \in Itx : g[i] = IF i \in A THEN f[i] ELSE 0
    <3>1. \A i \in Touching(D) \ Crossing(D) : f[i] = 0
      BY <1>5 DEF Touching, Crossing, Net, Effect
    <3>2. Crossing(D) \subseteq Touching(D)
      BY DEF Crossing
    <3> QED BY <1>1, <3>1, <3>2
  <2>3. NetOf(Itx, x) = SumFunctionOnSet(f, Itx) /\ NetOf(Crossing(D), x) = SumFunctionOnSet(f, Crossing(D))
    BY DEF NetOf, Total
  <2> HIDE DEF f, g
  <2>4. SumFunctionOnSet(g, Itx) = SumFunctionOnSet(f, A)
    <3> HIDE DEF A
    <3> QED BY <1>2, <2>1, <2>2, PoolsAssumption, SumMask
  <2>5. SumFunctionOnSet(f, Itx) = SumFunctionOnSet(f, Crossing(D)) + SumFunctionOnSet(f, A)
    BY <1>2, <2>1, PoolsAssumption, SumPartition
  <2>6. NetOf(Crossing(D), x) \in Int /\ NetOf(Itx, x)' \in Int
    <3>1. NetOf(Crossing(D), x) \in Int
      BY <2>1, NetInt
    <3>2. \A i \in Itx : g[i] \in Int
      BY <1>1, <1>2
    <3>3. SumFunctionOnSet(g, Itx) \in Int
      BY <3>2, PoolsAssumption, SumInt
    <3> QED BY <1>3, <3>1, <3>3
  <2> QED BY <1>3, <2>3, <2>4, <2>5, <2>6
<1> QED BY <1>4, <1>5

\* DeleteAccount takes no transfer away from another account's budgets.
LEMMA OtherAccountNet ==
  ASSUME References, NEW a \in Account, DeleteAccount(a), NEW b \in Budget, Home[b] # a
  PROVE  NetOf(Itx, b)' = NetOf(Itx, b)
<1>1. ASSUME NEW i \in Itx
      PROVE  Net(i, b)' = Net(i, b)
  <2>1. CASE itx[i].src \in Budget /\ Home[itx[i].src] = a
    <3>1. itx'[i] = NoTransfer
      BY <2>1 DEF DeleteAccount
    <3>2. itx[i] # NoTransfer
      BY <2>1, HomesAssumption DEF NoTransfer
    <3>3. itx[i].src # b /\ itx[i].dst # b
      BY <2>1, <3>2 DEF References, TransferRefs
    <3> QED BY <3>1, <3>3, HomesAssumption DEF Net, Effect, NoTransfer
  <2>2. CASE ~(itx[i].src \in Budget /\ Home[itx[i].src] = a)
    BY <2>2 DEF DeleteAccount, Net
  <2> QED BY <2>1, <2>2
<1>2. [i \in Itx |-> Net(i, b)'] = [i \in Itx |-> Net(i, b)]
  BY <1>1
<1> QED BY <1>2 DEF NetOf

-----------------------------------------------------------------------------
\* A budget and its child, both about to be deleted, are budgets of the same
\* account other than Unallocated.
LEMMA DoomedBudgets ==
  ASSUME TypeOK, References, NEW b \in Budget, Live(b), b # Unallocated[Home[b]]
  PROVE  /\ WithChild(b) \in SUBSET Budget
         /\ \A d \in WithChild(b) : d # Unallocated[Home[d]]
<1>1. WithChild(b) \in SUBSET Budget
  BY DEF TypeOK, WithChild
<1>2. ASSUME fillup[b] # None
      PROVE  fillup[b] # Unallocated[Home[fillup[b]]]
  <2>1. fillup[b] \in Budget /\ kind[fillup[b]] = "fillup"
    BY <1>2 DEF TypeOK, References, ChildRefs
  <2>2. Home[fillup[b]] \in accounts
    BY <2>1 DEF References, AccountRefs, Live
  <2> QED BY <2>1, <2>2 DEF References, AccountRefs, IsGoal
<1> QED BY <1>1, <1>2 DEF WithChild

\* Explaining one budget's balance after a step: the balance moves with what
\* its allocations and its transfers do.
LEMMA Explain ==
  ASSUME TypeOK, BudgetExplained, NEW b \in Budget, NEW s \in Int, NEW n \in Int,
         Base(b)' = Base(b), Spent(b)' = Spent(b) + s, NetOf(Itx, b)' = NetOf(Itx, b) + n,
         balance'[b] = balance[b] + s + n
  PROVE  balance'[b] = Base(b)' + Spent(b)' + NetOf(Itx, b)'
<1>1. balance[b] = Base(b) + Spent(b) + NetOf(Itx, b)
  BY DEF BudgetExplained
<1>2. Spent(b) \in Int /\ NetOf(Itx, b) \in Int /\ Base(b) \in Int
  BY SpentInt, NetInt, HomesAssumption DEF Base, TypeOK
<1> QED BY <1>1, <1>2

\* Every step keeps every balance explained.
LEMMA ExplainedStep ==
  ASSUME TypeOK, References, Blank, BudgetExplained, [Next]_vars
  PROVE  BudgetExplained'
<1> USE HomesAssumption, AmountsAssumption
<1>0. TypeOK' /\ References' /\ Blank'
  BY TypeStep, ReferencesStep, BlankStep
<1>a. ASSUME UNCHANGED <<opening, alloc, itx, balance>>
      PROVE  BudgetExplained'
  <2>1. \A b \in Budget : Base(b)' = Base(b) /\ Spent(b)' = Spent(b) /\ NetOf(Itx, b)' = NetOf(Itx, b)
    BY <1>a DEF Base, Spent, NetOf, Net
  <2> QED BY <1>a, <2>1 DEF BudgetExplained
<1>b. ASSUME UNCHANGED opening, NEW t \in Tx, \A x \in Tx \ {t} : alloc'[x] = alloc[x],
             UNCHANGED itx,
             \A b \in Budget : balance'[b] = balance[b] + (alloc'[t][b] - alloc[t][b])
      PROVE  BudgetExplained'
  <2> SUFFICES ASSUME NEW b \in Budget
               PROVE  balance'[b] = Base(b)' + Spent(b)' + NetOf(Itx, b)'
      BY DEF BudgetExplained
  <2>1. Spent(b)' = Spent(b) + (alloc'[t][b] - alloc[t][b])
    BY <1>0, <1>b, SpentDelta
  <2> DEFINE s == alloc'[t][b] - alloc[t][b]
  <2>2. Base(b)' = Base(b)
    BY <1>b DEF Base
  <2>3. NetOf(Itx, b)' = NetOf(Itx, b) + 0
    <3>1. NetOf(Itx, b)' = NetOf(Itx, b) /\ NetOf(Itx, b) \in Int
      BY <1>b, NetInt DEF NetOf, Net
    <3> QED BY <3>1
  <2>4. s \in Int
    BY <1>0 DEF TypeOK
  <2>5. Spent(b)' = Spent(b) + s
    BY <2>1
  <2>6. balance'[b] = balance[b] + s + 0
    <3>1. balance'[b] = balance[b] + s
      BY <1>b
    <3>2. balance[b] \in Int
      BY DEF TypeOK
    <3> HIDE DEF s
    <3> QED BY <2>4, <3>1, <3>2
  <2> HIDE DEF s
  <2>7. 0 \in Int
    OBVIOUS
  <2> QED BY ONLY TypeOK, BudgetExplained, b \in Budget, <2>2, <2>3, <2>4, <2>5, <2>6, <2>7, Explain
<1>c. ASSUME UNCHANGED <<opening, alloc>>,
             NEW b \in Budget, NEW n \in Int, NetOf(Itx, b)' = NetOf(Itx, b) + n,
             balance'[b] = balance[b] + n
      PROVE  balance'[b] = Base(b)' + Spent(b)' + NetOf(Itx, b)'
  <2>1. Base(b)' = Base(b) /\ Spent(b)' = Spent(b) + 0
    <3>1. Spent(b)' = Spent(b) /\ Spent(b) \in Int
      BY <1>c, SpentInt DEF Spent
    <3> QED BY <1>c, <3>1 DEF Base
  <2>2. balance'[b] = balance[b] + 0 + n
    BY <1>c DEF TypeOK
  <2> QED BY <1>c, <2>1, <2>2, Explain
<1>1. ASSUME NEW a \in Account, NEW avail \in Opening, NEW post \in Opening,
             CreateAccount(a, avail, post)
      PROVE  BudgetExplained'
  <2> SUFFICES ASSUME NEW b \in Budget
               PROVE  balance'[b] = Base(b)' + Spent(b)' + NetOf(Itx, b)'
      BY DEF BudgetExplained
  <2>1. Spent(b)' = Spent(b) /\ NetOf(Itx, b)' = NetOf(Itx, b)
    BY <1>1 DEF CreateAccount, txVars, Spent, NetOf, Net
  <2>2. CASE b # Unallocated[a]
    <3>1. Base(b)' = Base(b) /\ balance'[b] = balance[b]
      BY <1>1, <2>2 DEF CreateAccount, Base, TypeOK
    <3> QED BY <2>1, <3>1 DEF BudgetExplained
  <2>3. CASE b = Unallocated[a]
    <3>1. ~Live(b)
      BY <1>1, <2>3 DEF CreateAccount, References, AccountRefs
    <3>2. NetOf(Itx, b) = 0
      <4>1. \A i \in Itx : Net(i, b) = 0
        BY <3>1, DeadNet
      <4> QED BY <4>1, NetZero
    <3>3. Spent(b) = 0
      <4>1. \A t \in Tx : alloc[t][b] = 0
        BY <3>1 DEF References, RowRefs, Blank
      <4> QED BY <4>1, SpentZero
    <3>4. Base(b)' = avail /\ balance'[b] = avail /\ avail \in Int
      BY <1>1, <2>3 DEF CreateAccount, Base, TypeOK
    <3> QED BY <2>1, <3>2, <3>3, <3>4
  <2> QED BY <2>2, <2>3
<1>2. ASSUME NEW a \in Account, DeleteAccount(a)
      PROVE  BudgetExplained'
  <2> SUFFICES ASSUME NEW b \in Budget
               PROVE  balance'[b] = Base(b)' + Spent(b)' + NetOf(Itx, b)'
      BY DEF BudgetExplained
  <2>1. CASE Home[b] = a
    <3>1. ~Live(b)'
      BY <1>2, <2>1 DEF DeleteAccount, Live
    <3>2. NetOf(Itx, b)' = 0
      <4>1. \A i \in Itx : Net(i, b)' = 0
        <5>1. \A i \in Itx : itx'[i] = NoTransfer
                \/ /\ itx'[i].src # b /\ itx'[i].dst # b
          BY <1>0, <3>1 DEF References, TransferRefs
        <5> QED BY <5>1 DEF Net, Effect, NoTransfer
      <4> DEFINE f == [i \in Itx |-> Net(i, b)']
      <4>2. \A i \in Itx : f[i] = 0
        BY <4>1
      <4>3. NetOf(Itx, b)' = SumFunctionOnSet(f, Itx)
        BY DEF NetOf, Total
      <4> HIDE DEF f
      <4> QED BY <4>2, <4>3, PoolsAssumption, SumZero
    <3>3. Spent(b)' = 0
      <4> DEFINE f == [t \in Tx |-> alloc'[t][b]]
      <4>1. \A t \in Tx : <<t, b>> \notin rows'
        BY <1>0, <3>1 DEF References, RowRefs
      <4>2. \A t \in Tx : f[t] = 0
        BY <1>0, <4>1 DEF Blank
      <4>3. Spent(b)' = SumFunctionOnSet(f, Tx)
        BY DEF Spent, Total
      <4> HIDE DEF f
      <4> QED BY <4>2, <4>3, PoolsAssumption, SumZero
    <3>4. Base(b)' = 0 /\ balance'[b] = 0
      BY <1>2, <2>1 DEF DeleteAccount, Base, TypeOK
    <3> QED BY <3>2, <3>3, <3>4
  <2>2. CASE Home[b] # a
    <3>1. \A t \in Tx : alloc'[t][b] = alloc[t][b]
      <4>1. \A t \in Tx : TxHome[t] = a => alloc[t][b] = 0
        BY <2>2 DEF References, RowRefs, Blank
      <4> QED BY <1>2, <4>1 DEF DeleteAccount, TypeOK
    <3>3. Spent(b)' = Spent(b)
      <4>1. [t \in Tx |-> alloc'[t][b]] = [t \in Tx |-> alloc[t][b]]
        BY <3>1
      <4> QED BY <4>1 DEF Spent
    <3>4. NetOf(Itx, b)' = NetOf(Itx, b)
      BY <1>2, <2>2, OtherAccountNet
    <3>5. Base(b)' = Base(b) /\ balance'[b] = balance[b]
      BY <1>2, <2>2 DEF DeleteAccount, Base, TypeOK
    <3> QED BY <3>3, <3>4, <3>5 DEF BudgetExplained
  <2> QED BY <2>1, <2>2
<1>3. ASSUME NEW t \in Tx, NEW m \in Amount, NEW p \in BOOLEAN, CreateTx(t, m, p)
      PROVE  BudgetExplained'
  <2>1. \A b \in Budget : alloc[t][b] = 0
    <3>1. \A b \in Budget : <<t, b>> \notin rows
      BY <1>3 DEF CreateTx, TypeOK
    <3> QED BY <3>1 DEF Blank
  <2>2. UnallocatedFor(t) \in Budget
    BY DEF UnallocatedFor
  <2>3. \A b \in Budget : balance'[b] = balance[b] + (alloc'[t][b] - alloc[t][b])
    BY <1>3, <2>1, <2>2 DEF CreateTx, TypeOK
  <2>4. \A x \in Tx \ {t} : alloc'[x] = alloc[x]
    BY <1>3 DEF CreateTx, TypeOK
  <2> QED BY <1>b, <1>3, <2>3, <2>4 DEF CreateTx
<1>4. ASSUME NEW t \in Tx, PostTx(t)
      PROVE  BudgetExplained'
  BY <1>a, <1>4 DEF PostTx, moneyVars
<1>5. ASSUME NEW t \in Tx, NEW m \in Amount, ResolveTx(t, m)
      PROVE  BudgetExplained'
  <2>1. CASE m = amount[t]
    BY <1>a, <1>5, <2>1 DEF ResolveTx
  <2>2. CASE m # amount[t]
    <3>1. /\ alloc' = [alloc EXCEPT ![t][UnallocatedFor(t)] = m]
          /\ balance' = [balance EXCEPT ![UnallocatedFor(t)] = @ - alloc[t][UnallocatedFor(t)] + m]
      BY <1>5, <2>2 DEF ResolveTx
    <3>2. UnallocatedFor(t) \in Budget
      BY DEF UnallocatedFor
    <3>3. \A b \in Budget : balance'[b] = balance[b] + (alloc'[t][b] - alloc[t][b])
      BY <3>1, <3>2 DEF TypeOK
    <3>4. \A x \in Tx \ {t} : alloc'[x] = alloc[x]
      BY <3>1 DEF TypeOK
    <3> QED BY <1>b, <1>5, <3>3, <3>4 DEF ResolveTx
  <2> QED BY <2>1, <2>2
<1>6. ASSUME NEW t \in Tx, DeleteTx(t)
      PROVE  BudgetExplained'
  <2>1. \A b \in Budget : balance'[b] = balance[b] + (alloc'[t][b] - alloc[t][b])
    BY <1>6 DEF DeleteTx, TypeOK
  <2>2. \A x \in Tx \ {t} : alloc'[x] = alloc[x]
    BY <1>6 DEF DeleteTx, TypeOK
  <2> QED BY <1>b, <1>6, <2>1, <2>2 DEF DeleteTx
<1>7. ASSUME NEW t \in Tx, NEW m \in SplitRequests, NEW p \in PassedOver(t),
             Split(t, m, p)
      PROVE  BudgetExplained'
  <2>1. \A b \in Budget : balance'[b] = balance[b] + (alloc'[t][b] - alloc[t][b])
    <3>1. \A b \in Budget : alloc'[t][b] \in Int /\ alloc[t][b] \in Int /\ balance[b] \in Int
      BY <1>0 DEF TypeOK
    <3>2. \A b \in Budget : balance'[b] = balance[b] + alloc'[t][b] - alloc[t][b]
      BY <1>7 DEF Split, TypeOK
    <3> QED BY <3>1, <3>2
  <2>2. \A x \in Tx \ {t} : alloc'[x] = alloc[x]
    BY <1>7 DEF Split, TypeOK
  <2> QED BY <1>b, <1>7, <2>1, <2>2 DEF Split, accountVars
<1>8. ASSUME NEW b \in Budget, NEW k \in Kinds, NEW c \in Budget \union {None},
             CreateBudget(b, k, c)
      PROVE  BudgetExplained'
  BY <1>a, <1>8 DEF CreateBudget, accountVars, moneyVars, txVars
<1>9. ASSUME NEW b \in Budget, NEW c \in Budget, UpdateBudget(b, c)
      PROVE  BudgetExplained'
  BY <1>a, <1>9 DEF UpdateBudget, accountVars, moneyVars, txVars
<1>10. ASSUME NEW b \in Budget, NEW i \in Itx, NEW j \in Itx, ArchiveBudget(b, i, j)
       PROVE  BudgetExplained'
  <2> SUFFICES ASSUME NEW x \in Budget
               PROVE  balance'[x] = Base(x)' + Spent(x)' + NetOf(Itx, x)'
      BY DEF BudgetExplained
  <2> DEFINE first == Effect(fillup[b], Unallocated[Home[b]], Drained(fillup[b]), x)
             second == Effect(b, Unallocated[Home[b]], Drained(b), x)
  <2>1. first \in Int /\ second \in Int /\ NetOf(Itx, x)' = NetOf(Itx, x) + first + second
    BY <1>0, <1>10, ArchiveNet
  <2>2. balance'[x] = balance[x] + (first + second)
    BY <1>10 DEF ArchiveBudget
  <2>3. UNCHANGED <<opening, alloc>>
    BY <1>10 DEF ArchiveBudget, accountVars, txVars
  <2>4. NetOf(Itx, x) \in Int
    BY NetInt
  <2> HIDE DEF first, second
  <2>5. NetOf(Itx, x)' = NetOf(Itx, x) + (first + second) /\ first + second \in Int
    BY <2>1, <2>4
  <2> QED BY <1>c, <2>2, <2>3, <2>5
<1>11. ASSUME NEW b \in Budget, DeleteBudget(b)
       PROVE  BudgetExplained'
  <2> SUFFICES ASSUME NEW x \in Budget
               PROVE  balance'[x] = Base(x)' + Spent(x)' + NetOf(Itx, x)'
      BY DEF BudgetExplained
  <2> DEFINE D == WithChild(b)
  <2>1. D \in SUBSET Budget /\ \A d \in D : d # Unallocated[Home[d]]
    BY <1>11, DoomedBudgets DEF DeleteBudget
  <2>2. Residual(D) = 0
    BY <1>11, <2>1, ResidualZero DEF DeleteBudget
  <2>3. /\ x \in D => NetOf(Itx, x)' = 0
        /\ x \notin D => NetOf(Itx, x)' = NetOf(Itx, x) - NetOf(Crossing(D), x)
    BY <1>0, <1>11, <2>1, DeleteNet DEF DeleteBudget
  <2>4. UNCHANGED <<opening, alloc>>
    BY <1>11 DEF DeleteBudget, accountVars, txVars
  <2>5. CASE x \in D
    <3>1. Base(x)' = 0
      BY <2>1, <2>4, <2>5 DEF Base
    <3>2. Spent(x)' = 0
      <4>1. \A t \in Tx : alloc[t][x] = 0
        BY <1>11, <2>5 DEF DeleteBudget, NotAllocated, Blank
      <4>2. Spent(x) = 0
        BY <4>1, SpentZero
      <4> QED BY <2>4, <4>2 DEF Spent
    <3>3. balance'[x] = 0
      BY <1>11, <2>5 DEF DeleteBudget
    <3> QED BY <2>3, <2>5, <3>1, <3>2, <3>3
  <2>6. CASE x \notin D
    <3>1. NetOf(Crossing(D), x) \in Int /\ NetOf(Itx, x) \in Int /\ balance[x] \in Int
      <4>1. Crossing(D) \in SUBSET Itx
        BY DEF Crossing, Touching
      <4>2. NetOf(Crossing(D), x) \in Int /\ NetOf(Itx, x) \in Int
        BY <4>1, NetInt
      <4> QED BY <4>2 DEF TypeOK
    <3>2. balance'[x] = balance[x] - NetOf(Crossing(D), x) + 0
      BY <1>11, <2>2, <2>6 DEF DeleteBudget
    <3>3. /\ balance'[x] = balance[x] + (-NetOf(Crossing(D), x))
          /\ NetOf(Itx, x)' = NetOf(Itx, x) + (-NetOf(Crossing(D), x))
          /\ -NetOf(Crossing(D), x) \in Int
      BY <2>3, <2>6, <3>1, <3>2
    <3> QED BY <1>c, <2>4, <3>3
  <2> QED BY <2>5, <2>6
<1>12. ASSUME NEW i \in Itx, NEW s \in Budget, NEW d \in Budget, NEW m \in Part,
              Transfer(i, s, d, m)
       PROVE  BudgetExplained'
  <2> SUFFICES ASSUME NEW b \in Budget
               PROVE  balance'[b] = Base(b)' + Spent(b)' + NetOf(Itx, b)'
      BY DEF BudgetExplained
  <2>1. NetOf(Itx, b)' = NetOf(Itx, b) + Effect(s, d, m, b)
    BY <1>0, <1>12, TransferNet
  <2>2. Effect(s, d, m, b) \in Int
    BY DEF Effect
  <2>3. balance'[b] = balance[b] + Effect(s, d, m, b) /\ UNCHANGED <<opening, alloc>>
    BY <1>12 DEF Transfer, accountVars, txVars
  <2> QED BY <1>c, <2>1, <2>2, <2>3
<1>13. ASSUME NEW i \in Itx, ReverseTransfer(i)
       PROVE  BudgetExplained'
  <2> SUFFICES ASSUME NEW b \in Budget
               PROVE  balance'[b] = Base(b)' + Spent(b)' + NetOf(Itx, b)'
      BY DEF BudgetExplained
  <2>1. NetOf(Itx, b)' = NetOf(Itx, b) - Net(i, b)
    BY <1>0, <1>13, ReverseNet
  <2>2. Net(i, b) \in Int /\ NetOf(Itx, b) \in Int /\ balance[b] \in Int
    BY NetInt DEF TypeOK
  <2>3. balance'[b] = balance[b] - Net(i, b) /\ UNCHANGED <<opening, alloc>>
    BY <1>13 DEF ReverseTransfer, accountVars, txVars
  <2>4. /\ NetOf(Itx, b)' = NetOf(Itx, b) + (-Net(i, b)) /\ -Net(i, b) \in Int
        /\ balance'[b] = balance[b] + (-Net(i, b))
    BY <2>1, <2>2, <2>3
  <2> QED BY <1>c, <2>3, <2>4
<1>14. CASE UNCHANGED vars
  BY <1>a, <1>14 DEF vars, accountVars, moneyVars, txVars
<1> QED
  BY <1>1, <1>2, <1>3, <1>4, <1>5, <1>6, <1>7, <1>8, <1>9, <1>10, <1>11, <1>12, <1>13, <1>14
  DEF Next, AccountStep, TxStep, BudgetStep, TransferStep

-----------------------------------------------------------------------------
\* Every step keeps every goal's funded amount the net of its transfers.
LEMMA GoalStep ==
  ASSUME TypeOK, References, Blank, GoalFunded, [Next]_vars
  PROVE  GoalFunded'
<1> USE HomesAssumption, AmountsAssumption
<1>0. TypeOK' /\ References'
  BY TypeStep, ReferencesStep
<1>a. ASSUME UNCHANGED <<kind, funded, itx>>
      PROVE  GoalFunded'
  <2>1. \A b \in Budget : NetOf(Itx, b)' = NetOf(Itx, b)
    BY <1>a DEF NetOf, Net
  <2> QED BY <1>a, <2>1 DEF GoalFunded, IsGoal
<1>b. ASSUME UNCHANGED <<funded, itx>>,
             \A b \in Budget : IsGoal(b)' => IsGoal(b) \/ ~Live(b)
      PROVE  GoalFunded'
  <2>1. \A b \in Budget : NetOf(Itx, b)' = NetOf(Itx, b)
    BY <1>b DEF NetOf, Net
  <2>2. ASSUME NEW b \in Budget, ~Live(b)
        PROVE  funded[b] = NetOf(Itx, b)
    <3>1. funded[b] = 0
      BY <2>2 DEF Blank
    <3>2. \A i \in Itx : Net(i, b) = 0
      BY <2>2, DeadNet
    <3> QED BY <3>1, <3>2, NetZero
  <2> QED BY <1>b, <2>1, <2>2 DEF GoalFunded
<1>c. ASSUME NEW b \in Budget, GoalFunded, IsGoal(b), NEW n \in Int,
             funded'[b] = funded[b] + n, NetOf(Itx, b)' = NetOf(Itx, b) + n
      PROVE  funded'[b] = NetOf(Itx, b)'
  BY <1>c DEF GoalFunded
<1>1. ASSUME NEW a \in Account, NEW avail \in Opening, NEW post \in Opening,
             CreateAccount(a, avail, post)
      PROVE  GoalFunded'
  <2>1. ~Live(Unallocated[a])
    BY <1>1 DEF CreateAccount, References, AccountRefs
  <2>2. \A b \in Budget : IsGoal(b)' => IsGoal(b) \/ ~Live(b)
    BY <1>1, <2>1 DEF CreateAccount, IsGoal, TypeOK
  <2> QED BY <1>b, <1>1, <2>2 DEF CreateAccount
<1>2. ASSUME NEW a \in Account, DeleteAccount(a)
      PROVE  GoalFunded'
  <2> SUFFICES ASSUME NEW b \in Budget, IsGoal(b)'
               PROVE  funded'[b] = NetOf(Itx, b)'
      BY DEF GoalFunded
  <2>1. Home[b] # a /\ IsGoal(b) /\ funded'[b] = funded[b]
    BY <1>2 DEF DeleteAccount, IsGoal
  <2>2. NetOf(Itx, b)' = NetOf(Itx, b)
    BY <1>2, <2>1, OtherAccountNet
  <2> QED BY <2>1, <2>2 DEF GoalFunded
<1>3. ASSUME NEW t \in Tx, NEW m \in Amount, NEW p \in BOOLEAN, CreateTx(t, m, p)
      PROVE  GoalFunded'
  BY <1>a, <1>3 DEF CreateTx, budgetVars
<1>4. ASSUME NEW t \in Tx, PostTx(t)
      PROVE  GoalFunded'
  BY <1>a, <1>4 DEF PostTx, moneyVars, budgetVars
<1>5. ASSUME NEW t \in Tx, NEW m \in Amount, ResolveTx(t, m)
      PROVE  GoalFunded'
  BY <1>a, <1>5 DEF ResolveTx, budgetVars
<1>6. ASSUME NEW t \in Tx, DeleteTx(t)
      PROVE  GoalFunded'
  BY <1>a, <1>6 DEF DeleteTx, budgetVars
<1>7. ASSUME NEW t \in Tx, NEW m \in SplitRequests, NEW p \in PassedOver(t),
             Split(t, m, p)
      PROVE  GoalFunded'
  BY <1>a, <1>7 DEF Split, budgetVars
<1>8. ASSUME NEW b \in Budget, NEW k \in Kinds, NEW c \in Budget \union {None},
             CreateBudget(b, k, c)
      PROVE  GoalFunded'
  <2>1. \A x \in Budget : IsGoal(x)' => IsGoal(x) \/ ~Live(x)
    BY <1>8 DEF CreateBudget, IsGoal, Unused, Live
  <2> QED BY <1>b, <1>8, <2>1 DEF CreateBudget, moneyVars
<1>9. ASSUME NEW b \in Budget, NEW c \in Budget, UpdateBudget(b, c)
      PROVE  GoalFunded'
  <2>1. \A x \in Budget : IsGoal(x)' => IsGoal(x) \/ ~Live(x)
    BY <1>9 DEF UpdateBudget, IsGoal, TypeOK
  <2> QED BY <1>b, <1>9, <2>1 DEF UpdateBudget, moneyVars
<1>10. ASSUME NEW b \in Budget, NEW i \in Itx, NEW j \in Itx, ArchiveBudget(b, i, j)
       PROVE  GoalFunded'
  <2> SUFFICES ASSUME NEW x \in Budget, IsGoal(x)'
               PROVE  funded'[x] = NetOf(Itx, x)'
      BY DEF GoalFunded
  <2> DEFINE first == Effect(fillup[b], Unallocated[Home[b]], Drained(fillup[b]), x)
             second == Effect(b, Unallocated[Home[b]], Drained(b), x)
  <2>1. first \in Int /\ second \in Int /\ NetOf(Itx, x)' = NetOf(Itx, x) + first + second
    BY <1>0, <1>10, ArchiveNet
  <2>2. IsGoal(x)
    BY <1>10 DEF ArchiveBudget, IsGoal
  <2>3. funded'[x] = funded[x] + (first + second)
    BY <1>10, <2>2 DEF ArchiveBudget
  <2>4. NetOf(Itx, x) \in Int
    BY NetInt
  <2> HIDE DEF first, second
  <2>5. NetOf(Itx, x)' = NetOf(Itx, x) + (first + second) /\ first + second \in Int
    BY <2>1, <2>4
  <2> QED BY <1>c, <2>2, <2>3, <2>5
<1>11. ASSUME NEW b \in Budget, DeleteBudget(b)
       PROVE  GoalFunded'
  <2> SUFFICES ASSUME NEW x \in Budget, IsGoal(x)'
               PROVE  funded'[x] = NetOf(Itx, x)'
      BY DEF GoalFunded
  <2> DEFINE D == WithChild(b)
  <2>1. D \in SUBSET Budget
    BY <1>11, DoomedBudgets DEF DeleteBudget
  <2>2. x \notin D /\ IsGoal(x)
    BY <1>11 DEF DeleteBudget, IsGoal
  <2>3. NetOf(Itx, x)' = NetOf(Itx, x) - NetOf(Crossing(D), x)
    BY <1>0, <1>11, <2>1, <2>2, DeleteNet DEF DeleteBudget
  <2>4. funded'[x] = funded[x] - NetOf(Crossing(D), x)
    BY <1>11, <2>2 DEF DeleteBudget
  <2> QED BY <2>2, <2>3, <2>4 DEF GoalFunded
<1>12. ASSUME NEW i \in Itx, NEW s \in Budget, NEW d \in Budget, NEW m \in Part,
              Transfer(i, s, d, m)
       PROVE  GoalFunded'
  <2> SUFFICES ASSUME NEW b \in Budget, IsGoal(b)'
               PROVE  funded'[b] = NetOf(Itx, b)'
      BY DEF GoalFunded
  <2>1. NetOf(Itx, b)' = NetOf(Itx, b) + Effect(s, d, m, b)
    BY <1>0, <1>12, TransferNet
  <2>2. IsGoal(b)
    BY <1>12 DEF Transfer, budgetVars, IsGoal
  <2>3. funded'[b] = funded[b] + Effect(s, d, m, b)
    BY <1>12, <2>2 DEF Transfer
  <2> QED BY <2>1, <2>2, <2>3 DEF GoalFunded
<1>13. ASSUME NEW i \in Itx, ReverseTransfer(i)
       PROVE  GoalFunded'
  <2> SUFFICES ASSUME NEW b \in Budget, IsGoal(b)'
               PROVE  funded'[b] = NetOf(Itx, b)'
      BY DEF GoalFunded
  <2>1. NetOf(Itx, b)' = NetOf(Itx, b) - Net(i, b)
    BY <1>0, <1>13, ReverseNet
  <2>2. IsGoal(b)
    BY <1>13 DEF ReverseTransfer, budgetVars, IsGoal
  <2>3. funded'[b] = funded[b] - Net(i, b)
    BY <1>13, <2>2 DEF ReverseTransfer
  <2> QED BY <2>1, <2>2, <2>3 DEF GoalFunded
<1>14. CASE UNCHANGED vars
  BY <1>a, <1>14 DEF vars, budgetVars, moneyVars
<1> QED
  BY <1>1, <1>2, <1>3, <1>4, <1>5, <1>6, <1>7, <1>8, <1>9, <1>10, <1>11, <1>12, <1>13, <1>14
  DEF Next, AccountStep, TxStep, BudgetStep, TransferStep

-----------------------------------------------------------------------------
\* The inductive invariant.
LedgerInv ==
  /\ TypeOK
  /\ References
  /\ Blank
  /\ AccountsMatchTransactions
  /\ AllocationsAccounted
  /\ BudgetExplained
  /\ GoalFunded

\* An empty database satisfies the inductive invariant.
LEMMA LedgerInit == Init => LedgerInv
<1> SUFFICES ASSUME Init PROVE LedgerInv
    OBVIOUS
<1> USE HomesAssumption
<1>1. TypeOK
  BY DEF Init, TypeOK, Kinds, NoTransfer, TransferType
<1>2. References
  BY DEF Init, References, AccountRefs, RowRefs, TransferRefs, ChildRefs, Live
<1>3. Blank
  BY DEF Init, Blank
<1>4. AccountsMatchTransactions
  <2> SUFFICES ASSUME NEW a \in Account
               PROVE  /\ available[a] = opening[a].available + Total(AvailablePart(a), Tx)
                      /\ posted[a] = opening[a].posted + Total(PostedPart(a), Tx)
      BY DEF AccountsMatchTransactions
  <2>1. \A t \in Tx : AvailablePart(a)[t] = 0 /\ PostedPart(a)[t] = 0
    BY DEF Init, AvailablePart, PostedPart, Settled
  <2>2. Total(AvailablePart(a), Tx) = 0 /\ Total(PostedPart(a), Tx) = 0
    BY <2>1, PoolsAssumption, SumZero DEF Total
  <2> QED BY <2>2 DEF Init
<1>5. AllocationsAccounted
  <2> SUFFICES ASSUME NEW t \in Tx PROVE Total(alloc[t], Budget) = amount[t] + excess[t]
      BY DEF AllocationsAccounted
  <2>1. \A b \in Budget : alloc[t][b] = 0
    BY DEF Init
  <2>2. Total(alloc[t], Budget) = 0
    BY <2>1, PoolsAssumption, SumZero DEF Total
  <2> QED BY <2>2 DEF Init
<1>6. ASSUME NEW b \in Budget
      PROVE  NetOf(Itx, b) = 0
  <2>1. \A i \in Itx : Net(i, b) = 0
    BY DEF Init, Net, Effect, NoTransfer
  <2> QED BY <2>1, NetZero
<1>7. BudgetExplained
  <2> SUFFICES ASSUME NEW b \in Budget
               PROVE  balance[b] = Base(b) + Spent(b) + NetOf(Itx, b)
      BY DEF BudgetExplained
  <2>1. Spent(b) = 0
    <3>1. \A t \in Tx : alloc[t][b] = 0
      BY DEF Init
    <3> QED BY <3>1, SpentZero
  <2>2. Base(b) = 0 /\ balance[b] = 0
    BY DEF Init, Base
  <2> QED BY <1>6, <2>1, <2>2
<1>8. GoalFunded
  BY <1>6 DEF Init, GoalFunded
<1> QED BY <1>1, <1>2, <1>3, <1>4, <1>5, <1>7, <1>8 DEF LedgerInv

\* Every step preserves the inductive invariant.
LEMMA LedgerStep == LedgerInv /\ [Next]_vars => LedgerInv'
<1> SUFFICES ASSUME LedgerInv, [Next]_vars PROVE LedgerInv'
    OBVIOUS
<1> USE DEF LedgerInv
<1>1. TypeOK' /\ References' /\ Blank'
  BY TypeStep, ReferencesStep, BlankStep
<1>2. AccountsMatchTransactions'
  BY AccountsStep
<1>3. AllocationsAccounted'
  BY CoverStep
<1>4. BudgetExplained' /\ GoalFunded'
  BY ExplainedStep, GoalStep
<1> QED BY <1>1, <1>2, <1>3, <1>4

\* The inductive invariant holds in every reachable state.
THEOREM LedgerCorrect == Spec => []LedgerInv
BY LedgerInit, LedgerStep, PTL DEF Spec

\* Every variable keeps its type.
THEOREM TypeCorrect == Spec => []TypeOK
BY LedgerCorrect, PTL DEF LedgerInv

\* No foreign key dangles or crosses accounts, whatever is deleted, archived
\* or split: bank_account.delete, budget.delete and transaction.split leave no
\* row pointing at a row that is gone.
THEOREM ReferencesCorrect == Spec => []References
BY LedgerCorrect, PTL DEF LedgerInv

\* The balances the transaction service adds to and subtracts from on an
\* account always equal its opening balances plus its transactions.
THEOREM AccountsCorrect == Spec => []AccountsMatchTransactions
BY LedgerCorrect, PTL DEF LedgerInv

\* A transaction's allocations add up to its amount and to the excess noted by
\* its last split (zero unless one named Unallocated), through creation, split,
\* re-split, settlement with another amount and deletion.
THEOREM AllocationsAccountedCorrect == Spec => []AllocationsAccounted
BY LedgerCorrect, PTL DEF LedgerInv

\* A budget's balance is exactly its allocations and its transfers (plus the
\* opening balance, in Unallocated).
THEOREM ExplainedCorrect == Spec => []BudgetExplained
BY LedgerCorrect, PTL DEF LedgerInv

\* A goal's funded_amount is the net of its transfers.
THEOREM GoalCorrect == Spec => []GoalFunded
BY LedgerCorrect, PTL DEF LedgerInv

-----------------------------------------------------------------------------
\* What an account's budgets hold of transaction t.
HeldPart(a) == [t \in Tx |-> AvailablePart(a)[t] + ExcessPart(a)[t]]

\* The part of transaction t that lies in budgets of account a: all of it in
\* t's own account, nothing elsewhere.
LEMMA PartInAccount ==
  ASSUME TypeOK, References, Blank, AllocationsAccounted,
         NEW a \in Account, NEW t \in Tx
  PROVE  Total(alloc[t], {b \in Budget : Home[b] = a}) = HeldPart(a)[t]
<1> DEFINE D == {b \in Budget : Home[b] = a}
           f == alloc[t]
<1>1. D \in SUBSET Budget /\ IsFiniteSet(D)
  BY PoolsAssumption, FS_Subset
<1>2. \A b \in Budget : f[b] \in Int
  BY DEF TypeOK
<1>3. \A b \in Budget : Home[b] # TxHome[t] => f[b] = 0
  BY DEF References, RowRefs, Blank
<1>4. CASE TxHome[t] = a
  <2>1. \A b \in Budget : f[b] = IF b \in D THEN f[b] ELSE 0
    BY <1>3, <1>4
  <2>2. SumFunctionOnSet(f, Budget) = SumFunctionOnSet(f, D)
    <3> HIDE DEF f, D
    <3> QED BY <1>1, <1>2, <2>1, PoolsAssumption, SumMask
  <2>3. SumFunctionOnSet(f, Budget) = amount[t] + excess[t]
    BY DEF AllocationsAccounted, Total
  <2> QED BY <1>4, <2>2, <2>3 DEF AvailablePart, ExcessPart, HeldPart, Total
<1>5. CASE TxHome[t] # a
  <2>1. \A b \in D : f[b] = 0
    BY <1>3, <1>5
  <2>2. SumFunctionOnSet(f, D) = 0
    <3> HIDE DEF f, D
    <3> QED BY <1>1, <2>1, SumZero
  <2> QED BY <1>5, <2>2 DEF AvailablePart, ExcessPart, HeldPart, Total
<1> QED BY <1>4, <1>5

\* All budgets of an account together received its transactions.
LEMMA SpentInAccount ==
  ASSUME TypeOK, References, Blank, AllocationsAccounted, NEW a \in Account
  PROVE  LET D == {b \in Budget : Home[b] = a} IN
         /\ Total([b \in D |-> Spent(b)], D)
              = Total(AvailablePart(a), Tx) + Total(ExcessPart(a), Tx)
         /\ Total(AvailablePart(a), Tx) \in Int /\ Total(ExcessPart(a), Tx) \in Int
<1> DEFINE D == {b \in Budget : Home[b] = a}
           G == [b \in D |-> [t \in Tx |-> alloc[t][b]]]
           perTx == HeldPart(a)
           perBudget == [b \in D |-> Spent(b)]
<1>1. IsFiniteSet(D)
  BY PoolsAssumption, FS_Subset
<1>2. IntTable(alloc, Tx, D) /\ Transposed(alloc, G, Tx, D)
  BY DEF TypeOK, IntTable, Transposed
<1>3. RowSums(perTx, alloc, Tx, D)
  BY PartInAccount DEF RowSums, Total
<1>4. RowSums(perBudget, G, D, Tx)
  BY DEF RowSums, Spent, Total
<1>5. /\ \A t \in Tx : AvailablePart(a)[t] \in Int /\ ExcessPart(a)[t] \in Int
      /\ \A t \in Tx : perTx[t] = AvailablePart(a)[t] + ExcessPart(a)[t]
  BY DEF TypeOK, AvailablePart, ExcessPart, HeldPart
<1>6. PICK avail : avail = AvailablePart(a)
  OBVIOUS
<1>7. PICK extra : extra = ExcessPart(a)
  OBVIOUS
<1> HIDE DEF D, G, perTx, perBudget
<1>8. SumFunctionOnSet(perTx, Tx) = SumFunctionOnSet(perBudget, D)
  BY <1>1, <1>2, <1>3, <1>4, PoolsAssumption, SumSwap
<1>9. \A t \in Tx : avail[t] \in Int /\ extra[t] \in Int /\ perTx[t] = avail[t] + extra[t]
  BY <1>5, <1>6, <1>7
<1>10. SumFunctionOnSet(perTx, Tx) = SumFunctionOnSet(avail, Tx) + SumFunctionOnSet(extra, Tx)
  BY <1>9, PoolsAssumption, SumPlus
<1>11. SumFunctionOnSet(avail, Tx) \in Int /\ SumFunctionOnSet(extra, Tx) \in Int
  BY <1>9, PoolsAssumption, SumInt
<1> QED BY <1>6, <1>7, <1>8, <1>10, <1>11 DEF Total, D, perBudget

\* Transfers move money within an account: all its budgets together keep what
\* they have.
LEMMA NetInAccount ==
  ASSUME TypeOK, References, NEW a \in Account
  PROVE  LET D == {b \in Budget : Home[b] = a} IN
         Total([b \in D |-> NetOf(Itx, b)], D) = 0
<1> DEFINE D == {b \in Budget : Home[b] = a}
<1>1. Crossing(D) = {}
  <2> SUFFICES ASSUME NEW i \in Crossing(D) PROVE FALSE
      OBVIOUS
  <2>1. i \in Itx /\ itx[i] # NoTransfer
    BY HomesAssumption DEF Crossing, Touching, NoTransfer
  <2>2. /\ itx[i].src \in Budget /\ itx[i].dst \in Budget
        /\ Home[itx[i].src] = Home[itx[i].dst]
    BY <2>1 DEF References, TransferRefs, Live
  <2> QED BY <2>2 DEF Crossing, Touching
<1>2. Itx \ Crossing(D) = Itx
  BY <1>1
<1> HIDE DEF D
<1>3. D \in SUBSET Budget
  BY DEF D
<1>4. Total([b \in D |-> NetOf(Itx \ Crossing(D), b)], D) = 0
  BY <1>3, InnerNets
<1> QED BY <1>2, <1>4 DEF D

\* Adding up the explanations of an account's budgets gives its available
\* balance and what splits left beyond its transactions.
LEMMA ExplainedSum == LedgerInv => BudgetsAccounted
<1> SUFFICES ASSUME LedgerInv, NEW a \in Account
             PROVE  Total([b \in Budget |-> IF Home[b] = a THEN balance[b] ELSE 0], Budget)
                      = available[a] + Total(ExcessPart(a), Tx)
    BY DEF BudgetsAccounted
<1> USE DEF LedgerInv
<1> DEFINE D == {b \in Budget : Home[b] = a}
           masked == [b \in Budget |-> IF Home[b] = a THEN balance[b] ELSE 0]
           base == [b \in D |-> Base(b)]
           spent == [b \in D |-> Spent(b)]
           net == [b \in D |-> NetOf(Itx, b)]
           both == [b \in D |-> base[b] + spent[b]]
<1>1. D \in SUBSET Budget /\ IsFiniteSet(D)
  BY PoolsAssumption, FS_Subset
<1>2. \A b \in Budget : balance[b] \in Int
  BY DEF TypeOK
<1>3. \A b \in Budget : masked[b] = IF b \in D THEN balance[b] ELSE 0
  OBVIOUS
<1>4. \A b \in D : base[b] \in Int /\ spent[b] \in Int /\ net[b] \in Int
  <2>1. \A b \in D : Base(b) \in Int
    BY HomesAssumption DEF Base, TypeOK
  <2> QED BY <2>1, SpentInt, NetInt
<1>5. \A b \in D : both[b] = base[b] + spent[b]
  OBVIOUS
<1>6. \A b \in D : balance[b] = both[b] + net[b]
  BY DEF BudgetExplained
<1>7. /\ Unallocated[a] \in D /\ base[Unallocated[a]] = opening[a].available
      /\ \A b \in D \ {Unallocated[a]} : base[b] = 0
  BY HomesAssumption DEF Base
<1>8. /\ SumFunctionOnSet(spent, D) = Total(AvailablePart(a), Tx) + Total(ExcessPart(a), Tx)
      /\ Total(AvailablePart(a), Tx) \in Int /\ Total(ExcessPart(a), Tx) \in Int
  BY SpentInAccount DEF Total
<1>9. SumFunctionOnSet(net, D) = 0
  BY NetInAccount DEF Total
<1> HIDE DEF D, masked, base, spent, net, both
<1>10. SumFunctionOnSet(masked, Budget) = SumFunctionOnSet(balance, D)
  BY <1>1, <1>2, <1>3, PoolsAssumption, SumMask
<1>11. SumFunctionOnSet(base, D) = opening[a].available
  BY <1>1, <1>4, <1>7, SumSingle
<1>12. SumFunctionOnSet(both, D) = SumFunctionOnSet(base, D) + SumFunctionOnSet(spent, D)
  BY <1>1, <1>4, <1>5, SumPlus
<1>13. \A b \in D : both[b] \in Int
  BY <1>4, <1>5
<1>14. SumFunctionOnSet(balance, D) = SumFunctionOnSet(both, D) + SumFunctionOnSet(net, D)
  BY <1>1, <1>4, <1>6, <1>13, SumPlus
<1>15. available[a] = opening[a].available + Total(AvailablePart(a), Tx)
  BY DEF AccountsMatchTransactions
<1>16. available[a] \in Int /\ opening[a].available \in Int
  BY DEF TypeOK
<1>17. SumFunctionOnSet(masked, Budget) = available[a] + Total(ExcessPart(a), Tx)
  BY <1>8, <1>9, <1>10, <1>11, <1>12, <1>14, <1>15, <1>16
<1> QED BY <1>17 DEF Total, masked

\* What verify_balances.py adds up for a whole account: the budgets of an
\* account hold its available balance and what splits left beyond their
\* transactions, so the rule it checks holds where no split named Unallocated.
THEOREM BudgetsAccountedCorrect == Spec => []BudgetsAccounted
BY LedgerCorrect, ExplainedSum, PTL

\* budget.delete never has an unrecorded remainder to move.
LEMMA NothingLeft == LedgerInv => NothingLeftToSweep
<1> SUFFICES ASSUME LedgerInv, NEW b \in Budget, Live(b), b # Unallocated[Home[b]],
                    NotAllocated(WithChild(b))
             PROVE  Residual(WithChild(b)) = 0
    BY DEF NothingLeftToSweep
<1>1. /\ WithChild(b) \in SUBSET Budget
      /\ \A d \in WithChild(b) : d # Unallocated[Home[d]]
  BY DoomedBudgets DEF LedgerInv
<1> QED BY <1>1, ResidualZero DEF LedgerInv

\* The balances budget.delete moves to Unallocated without a record (the
\* "residual" of budget.py:503-514) are zero whenever it gets that far.
THEOREM NothingLeftCorrect == Spec => []NothingLeftToSweep
BY LedgerCorrect, NothingLeft, PTL
=============================================================================
