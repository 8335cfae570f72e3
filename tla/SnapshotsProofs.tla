-------------------------- MODULE SnapshotsProofs --------------------------
(***************************************************************************)
(* Proofs about Snapshots: type correctness, AllocationSnapshots and       *)
(* TransferSnapshots, for any budgets, dates, amounts and number of rows.  *)
(*                                                                         *)
(* The invariant, SnapInv, says of every budget that what it held before   *)
(* the first event is what it opened with and that all its snapshots are   *)
(* right.  A call changes amounts and dates, and then recalculates: a      *)
(* recalculation writes nothing but one budget's snapshots (Rewrites), and *)
(* makes all of them right if those before its date are (FromTx, FromDt).  *)
(* Those are, for the call changed nothing before that date (SameUpTo).    *)
(***************************************************************************)
EXTENDS Snapshots, Sums

-----------------------------------------------------------------------------
(* Books.                                                                    *)

TxRow == [date : Nat, amount : Int, pending : BOOLEAN]
\* A row that is there moves money, and a transfer moves it between two budgets.
AllocRow == {r \in [amount : Int, snap : Int] : r.amount = 0 => r = NoAlloc}
ItxRow ==
  {r \in [src : Budgets, dst : Budgets, amount : Int, date : Nat, srcSnap : Int, dstSnap : Int] :
     IF r.amount = 0 THEN r = NoItx ELSE r.src # r.dst}
Books == [tx : [Txs -> TxRow], alloc : [Txs -> [Budgets -> AllocRow]],
          itx : [Itxs -> ItxRow], balance : [Budgets -> Int]]

TxOrder(k) == {p \in Txs \X Txs : TxBefore(k, p[1], p[2])}
ItxOrder(k) == {p \in Itxs \X Itxs : ItxBefore(k, p[1], p[2])}

LEMMA BookRows ==
  ASSUME NEW k \in Books
  PROVE  /\ \A t \in Txs : /\ k.tx[t] \in TxRow /\ k.tx[t].date \in Nat /\ t \in Nat
                           /\ \A b \in Budgets :
                                /\ k.alloc[t][b] \in AllocRow /\ k.alloc[t][b].amount \in Int
                                /\ k.alloc[t][b].snap \in Int
                                /\ (k.alloc[t][b] = NoAlloc <=> k.alloc[t][b].amount = 0)
         /\ \A i \in Itxs : /\ k.itx[i] \in ItxRow /\ i \in Nat /\ k.itx[i].date \in Nat
                            /\ k.itx[i].amount \in Int /\ k.itx[i].src \in Budgets
                            /\ k.itx[i].dst \in Budgets /\ k.itx[i].srcSnap \in Int
                            /\ k.itx[i].dstSnap \in Int
                            /\ (k.itx[i] = NoItx <=> k.itx[i].amount = 0)
                            /\ (k.itx[i] # NoItx => k.itx[i].src # k.itx[i].dst)
         /\ \A b \in Budgets : k.balance[b] \in Int
<1>1. ASSUME NEW t \in Txs
      PROVE  k.tx[t] \in TxRow /\ k.tx[t].date \in Nat /\ t \in Nat
  BY RowsAssumption DEF Books, TxRow
<1>2. ASSUME NEW t \in Txs, NEW b \in Budgets
      PROVE  /\ k.alloc[t][b] \in AllocRow /\ k.alloc[t][b].amount \in Int
             /\ k.alloc[t][b].snap \in Int
             /\ (k.alloc[t][b] = NoAlloc <=> k.alloc[t][b].amount = 0)
  <2>1. k.alloc[t][b] \in AllocRow
    BY DEF Books
  <2> QED BY <2>1 DEF AllocRow, NoAlloc
<1>3. ASSUME NEW i \in Itxs
      PROVE  /\ k.itx[i] \in ItxRow /\ i \in Nat /\ k.itx[i].date \in Nat
             /\ k.itx[i].amount \in Int /\ k.itx[i].src \in Budgets
             /\ k.itx[i].dst \in Budgets /\ k.itx[i].srcSnap \in Int
             /\ k.itx[i].dstSnap \in Int
             /\ (k.itx[i] = NoItx <=> k.itx[i].amount = 0)
             /\ (k.itx[i] # NoItx => k.itx[i].src # k.itx[i].dst)
  <2>1. k.itx[i] \in ItxRow /\ i \in Nat
    BY RowsAssumption DEF Books
  <2>2. PICK r : r = k.itx[i]
    OBVIOUS
  <2>3. r \in [src : Budgets, dst : Budgets, amount : Int, date : Nat, srcSnap : Int, dstSnap : Int]
        /\ IF r.amount = 0 THEN r = NoItx ELSE r.src # r.dst
    BY <2>1, <2>2 DEF ItxRow
  <2>4. r = NoItx <=> r.amount = 0
    BY <2>3 DEF NoItx
  <2> QED BY <2>1, <2>2, <2>3, <2>4
<1>4. \A b \in Budgets : k.balance[b] \in Int
  BY DEF Books
<1> QED BY <1>1, <1>2, <1>3, <1>4

LEMMA TxTotal ==
  ASSUME NEW k \in Books
  PROVE  /\ \A x \in Txs : ~TxBefore(k, x, x)
         /\ \A x, y \in Txs : x = y \/ TxBefore(k, x, y) \/ TxBefore(k, y, x)
         /\ \A x, y, z \in Txs : TxBefore(k, x, y) /\ TxBefore(k, y, z) => TxBefore(k, x, z)
<1>1. \A t \in Txs : k.tx[t].date \in Nat /\ t \in Nat
  BY BookRows
<1> QED BY <1>1 DEF TxBefore

LEMMA ItxTotal ==
  ASSUME NEW k \in Books
  PROVE  /\ \A x \in Itxs : ~ItxBefore(k, x, x)
         /\ \A x, y \in Itxs : x = y \/ ItxBefore(k, x, y) \/ ItxBefore(k, y, x)
         /\ \A x, y, z \in Itxs : ItxBefore(k, x, y) /\ ItxBefore(k, y, z) => ItxBefore(k, x, z)
<1>1. \A i \in Itxs : k.itx[i].date \in Nat /\ i \in Nat
  BY BookRows
<1> QED BY <1>1 DEF ItxBefore

LEMMA TxLine ==
  ASSUME NEW k \in Books
  PROVE  Lines(TxOrder(k), Txs) /\ \A s, t \in Txs : <<s, t>> \in TxOrder(k) <=> TxBefore(k, s, t)
<1>1. \A s, t \in Txs : <<s, t>> \in TxOrder(k) <=> TxBefore(k, s, t)
  BY DEF TxOrder
<1> QED BY <1>1, TxTotal DEF Lines

LEMMA ItxLine ==
  ASSUME NEW k \in Books
  PROVE  Lines(ItxOrder(k), Itxs) /\ \A i, j \in Itxs : <<i, j>> \in ItxOrder(k) <=> ItxBefore(k, i, j)
<1>1. \A i, j \in Itxs : <<i, j>> \in ItxOrder(k) <=> ItxBefore(k, i, j)
  BY DEF ItxOrder
<1> QED BY <1>1, ItxTotal DEF Lines

LEMMA FirstAndLast ==
  ASSUME NEW k \in Books, NEW S \in SUBSET Txs, S # {}
  PROVE  /\ LastOf(k, S) \in S /\ \A s \in S : s = LastOf(k, S) \/ TxBefore(k, s, LastOf(k, S))
         /\ FirstOf(k, S) \in S /\ \A s \in S : s = FirstOf(k, S) \/ TxBefore(k, FirstOf(k, S), s)
<1>1. IsFiniteSet(Txs)
  BY RowsAssumption
<1>2. \E t \in S : \A s \in S : s = t \/ TxBefore(k, s, t)
  <2>1. \E t \in S : \A s \in S : s = t \/ <<s, t>> \in TxOrder(k)
    BY <1>1, TxLine, LinesLast
  <2> QED BY <2>1, TxLine
<1>3. \E t \in S : \A s \in S : s = t \/ TxBefore(k, t, s)
  <2>1. \E t \in S : \A s \in S : s = t \/ <<t, s>> \in TxOrder(k)
    BY <1>1, TxLine, LinesFirst
  <2> QED BY <2>1, TxLine
<1> QED BY <1>2, <1>3, Zenon DEF LastOf, FirstOf

LEMMA LastTransfer ==
  ASSUME NEW k \in Books, NEW S \in SUBSET Itxs, S # {}
  PROVE  LastItx(k, S) \in S /\ \A i \in S : i = LastItx(k, S) \/ ItxBefore(k, i, LastItx(k, S))
<1>1. IsFiniteSet(Itxs)
  BY RowsAssumption
<1>2. \E j \in S : \A i \in S : i = j \/ ItxBefore(k, i, j)
  <2>1. \E j \in S : \A i \in S : i = j \/ <<i, j>> \in ItxOrder(k)
    BY <1>1, ItxLine, LinesLast
  <2> QED BY <2>1, ItxLine
<1> QED BY <1>2, Zenon DEF LastItx

-----------------------------------------------------------------------------
(* Sums over a budget's rows.                                                *)

LEMMA SumJoin ==
  ASSUME NEW D, IsFiniteSet(D), NEW f, \A x \in D : f[x] \in Int, NEW S \in SUBSET D, NEW T \in SUBSET D,
         S \intersect T = {}
  PROVE  SumFunctionOnSet(f, S \union T) = SumFunctionOnSet(f, S) + SumFunctionOnSet(f, T)
<1>1. IsFiniteSet(S \union T) /\ S \in SUBSET (S \union T) /\ (S \union T) \ S = T
  BY FS_Subset
<1>2. \A x \in S \union T : f[x] \in Int
  OBVIOUS
<1> QED BY <1>1, <1>2, SumPartition

LEMMA SumOne ==
  ASSUME NEW f, NEW x, f[x] \in Int
  PROVE  SumFunctionOnSet(f, {x}) = f[x]
<1>1. IsFiniteSet({x}) /\ x \in {x}
  BY FS_Singleton
<1> QED BY <1>1, SumSingle

LEMMA AllocSums ==
  ASSUME NEW k \in Books, NEW b \in Budgets
  PROVE  /\ \A S \in SUBSET Txs : AllocSum(k, b, S) \in Int
         /\ \A S, T \in SUBSET Txs :
              S \intersect T = {} => AllocSum(k, b, S \union T) = AllocSum(k, b, S) + AllocSum(k, b, T)
         /\ \A t \in Txs : AllocSum(k, b, {t}) = k.alloc[t][b].amount
         /\ AllocSum(k, b, {}) = 0
<1> DEFINE f == [t \in Txs |-> k.alloc[t][b].amount]
<1>1. IsFiniteSet(Txs) /\ \A t \in Txs : f[t] \in Int /\ f[t] = k.alloc[t][b].amount
  BY BookRows, RowsAssumption
<1>2. \A S : AllocSum(k, b, S) = SumFunctionOnSet(f, S)
  BY DEF AllocSum
<1> HIDE DEF f
<1>3. ASSUME NEW S \in SUBSET Txs PROVE SumFunctionOnSet(f, S) \in Int
  <2>1. IsFiniteSet(S) /\ \A x \in S : f[x] \in Int
    BY <1>1, FS_Subset
  <2> QED BY <2>1, SumInt
<1>4. ASSUME NEW S \in SUBSET Txs, NEW T \in SUBSET Txs, S \intersect T = {}
      PROVE  SumFunctionOnSet(f, S \union T) = SumFunctionOnSet(f, S) + SumFunctionOnSet(f, T)
  <2>1. \A x \in Txs : f[x] \in Int
    BY <1>1
  <2> QED BY <1>1, <1>4, <2>1, SumJoin
<1>5. ASSUME NEW t \in Txs PROVE SumFunctionOnSet(f, {t}) = k.alloc[t][b].amount
  BY <1>1, SumOne
<1>6. SumFunctionOnSet(f, {}) = 0
  BY SumEmpty
<1> QED BY <1>2, <1>3, <1>4, <1>5, <1>6

LEMMA MovedInt ==
  ASSUME NEW k \in Books, NEW b, NEW i \in Itxs
  PROVE  Moved(k, b, i) \in Int
<1>1. k.itx[i].amount \in Int
  BY BookRows
<1> QED BY <1>1 DEF Moved

LEMMA MoveSums ==
  ASSUME NEW k \in Books, NEW b
  PROVE  /\ \A S \in SUBSET Itxs : MoveSum(k, b, S) \in Int
         /\ \A S, T \in SUBSET Itxs :
              S \intersect T = {} => MoveSum(k, b, S \union T) = MoveSum(k, b, S) + MoveSum(k, b, T)
         /\ \A i \in Itxs : MoveSum(k, b, {i}) = Moved(k, b, i)
         /\ MoveSum(k, b, {}) = 0
<1> DEFINE f == [i \in Itxs |-> Moved(k, b, i)]
<1>1. IsFiniteSet(Itxs) /\ \A i \in Itxs : f[i] \in Int /\ f[i] = Moved(k, b, i)
  BY MovedInt, RowsAssumption
<1>2. \A S : MoveSum(k, b, S) = SumFunctionOnSet(f, S)
  BY DEF MoveSum
<1> HIDE DEF f
<1>3. ASSUME NEW S \in SUBSET Itxs PROVE SumFunctionOnSet(f, S) \in Int
  <2>1. IsFiniteSet(S) /\ \A x \in S : f[x] \in Int
    BY <1>1, FS_Subset
  <2> QED BY <2>1, SumInt
<1>4. ASSUME NEW S \in SUBSET Itxs, NEW T \in SUBSET Itxs, S \intersect T = {}
      PROVE  SumFunctionOnSet(f, S \union T) = SumFunctionOnSet(f, S) + SumFunctionOnSet(f, T)
  <2>1. \A x \in Itxs : f[x] \in Int
    BY <1>1
  <2> QED BY <1>1, <1>4, <2>1, SumJoin
<1>5. ASSUME NEW i \in Itxs PROVE SumFunctionOnSet(f, {i}) = Moved(k, b, i)
  BY <1>1, SumOne
<1>6. SumFunctionOnSet(f, {}) = 0
  BY SumEmpty
<1> QED BY <1>2, <1>3, <1>4, <1>5, <1>6

-----------------------------------------------------------------------------
(* What a budget held after an event, by the rows of a book.                 *)

AtAlloc(k, b, t) ==
  Baseline(k, b) + MoveSum(k, b, {j \in Moves(k, b) : k.itx[j].date <= k.tx[t].date})
  + AllocSum(k, b, {s \in Allocs(k, b) : s = t \/ TxBefore(k, s, t)})
AtItx(k, b, i) ==
  Baseline(k, b) + MoveSum(k, b, {j \in Moves(k, b) : j = i \/ ItxBefore(k, j, i)})
  + AllocSum(k, b, {t \in Allocs(k, b) : k.tx[t].date < k.itx[i].date})

LEMMA EventSets ==
  ASSUME NEW k, NEW b
  PROVE  Allocs(k, b) \in SUBSET Txs /\ Moves(k, b) \in SUBSET Itxs
BY DEF Allocs, Moves

LEMMA HeldInt ==
  ASSUME NEW k \in Books, NEW b \in Budgets
  PROVE  /\ Baseline(k, b) \in Int /\ \A t : AtAlloc(k, b, t) \in Int
         /\ \A i : AtItx(k, b, i) \in Int
<1>1. /\ \A S \in SUBSET Txs : AllocSum(k, b, S) \in Int
      /\ \A S \in SUBSET Itxs : MoveSum(k, b, S) \in Int
      /\ k.balance[b] \in Int
  BY AllocSums, MoveSums, BookRows
<1>2. Baseline(k, b) \in Int
  <2>1. AllocSum(k, b, Allocs(k, b)) \in Int /\ MoveSum(k, b, Moves(k, b)) \in Int
    BY <1>1, EventSets
  <2> QED BY <1>1, <2>1 DEF Baseline
<1>3. ASSUME NEW t PROVE AtAlloc(k, b, t) \in Int
  <2>1. /\ AllocSum(k, b, {s \in Allocs(k, b) : s = t \/ TxBefore(k, s, t)}) \in Int
        /\ MoveSum(k, b, {j \in Moves(k, b) : k.itx[j].date <= k.tx[t].date}) \in Int
    BY <1>1, EventSets
  <2> QED BY <1>2, <2>1 DEF AtAlloc
<1>4. ASSUME NEW i PROVE AtItx(k, b, i) \in Int
  <2>1. /\ AllocSum(k, b, {t \in Allocs(k, b) : k.tx[t].date < k.itx[i].date}) \in Int
        /\ MoveSum(k, b, {j \in Moves(k, b) : j = i \/ ItxBefore(k, j, i)}) \in Int
    BY <1>1, EventSets
  <2> QED BY <1>2, <2>1 DEF AtItx
<1> QED BY <1>2, <1>3, <1>4

\* From one allocation to the next: the transfers between and the allocation itself.
LEMMA NextAlloc ==
  ASSUME NEW k \in Books, NEW b \in Budgets, NEW p \in Allocs(k, b), NEW s \in Allocs(k, b),
         TxBefore(k, p, s), \A r \in Allocs(k, b) : TxBefore(k, r, s) => r = p \/ TxBefore(k, r, p)
  PROVE  AtAlloc(k, b, s)
           = AtAlloc(k, b, p) + InternalDelta(k, b, k.tx[p].date, k.tx[s].date) + k.alloc[s][b].amount
<1>1. /\ p \in Txs /\ s \in Txs /\ k.tx[p].date \in Nat /\ k.tx[s].date \in Nat
      /\ k.tx[p].date <= k.tx[s].date /\ k.alloc[s][b].amount \in Int
      /\ \A j \in Moves(k, b) : j \in Itxs /\ k.itx[j].date \in Nat
  BY EventSets, BookRows DEF TxBefore
<1> DEFINE A == {r \in Allocs(k, b) : r = p \/ TxBefore(k, r, p)}
           B == {r \in Allocs(k, b) : r = s \/ TxBefore(k, r, s)}
           M == {j \in Moves(k, b) : k.itx[j].date <= k.tx[p].date}
           N == {j \in Moves(k, b) : k.itx[j].date > k.tx[p].date /\ k.itx[j].date <= k.tx[s].date}
           O == {j \in Moves(k, b) : k.itx[j].date <= k.tx[s].date}
<1>2. /\ A \in SUBSET Txs /\ {s} \in SUBSET Txs /\ M \in SUBSET Itxs /\ N \in SUBSET Itxs
  BY <1>1, EventSets
<1>3. B = A \union {s} /\ A \intersect {s} = {}
  <2>1. \A r \in Txs : TxBefore(k, r, p) => TxBefore(k, r, s)
    BY <1>1, TxTotal
  <2>2. ~TxBefore(k, s, p) /\ s # p
    BY <1>1, TxTotal
  <2>3. A \subseteq Txs /\ Allocs(k, b) \subseteq Txs
    BY EventSets
  <2> QED BY <2>1, <2>2, <2>3
<1>4. O = M \union N /\ M \intersect N = {}
  BY <1>1
<1> HIDE DEF A, B, M, N, O
<1>5. AllocSum(k, b, B) = AllocSum(k, b, A) + k.alloc[s][b].amount
  <2>1. AllocSum(k, b, B) = AllocSum(k, b, A) + AllocSum(k, b, {s})
    BY <1>2, <1>3, AllocSums
  <2>2. AllocSum(k, b, {s}) = k.alloc[s][b].amount
    BY <1>1, AllocSums
  <2> QED BY <2>1, <2>2
<1>6. MoveSum(k, b, O) = MoveSum(k, b, M) + MoveSum(k, b, N)
  <2>1. \A S, T \in SUBSET Itxs :
          S \intersect T = {} => MoveSum(k, b, S \union T) = MoveSum(k, b, S) + MoveSum(k, b, T)
    BY MoveSums
  <2> QED BY <1>2, <1>4, <2>1
<1>7. InternalDelta(k, b, k.tx[p].date, k.tx[s].date) = MoveSum(k, b, N)
  BY DEF InternalDelta, N
<1>8. /\ AtAlloc(k, b, s) = Baseline(k, b) + MoveSum(k, b, O) + AllocSum(k, b, B)
      /\ AtAlloc(k, b, p) = Baseline(k, b) + MoveSum(k, b, M) + AllocSum(k, b, A)
  BY DEF AtAlloc, A, B, M, O
<1>9. /\ AllocSum(k, b, A) \in Int /\ MoveSum(k, b, M) \in Int /\ MoveSum(k, b, N) \in Int
      /\ Baseline(k, b) \in Int
  BY <1>2, AllocSums, MoveSums, HeldInt
<1> QED BY <1>1, <1>5, <1>6, <1>7, <1>8, <1>9

LEMMA FirstAlloc ==
  ASSUME NEW k \in Books, NEW b \in Budgets, NEW s \in Allocs(k, b),
         \A r \in Allocs(k, b) : ~TxBefore(k, r, s)
  PROVE  AtAlloc(k, b, s)
           = Baseline(k, b) + InternalDelta(k, b, Never, k.tx[s].date) + k.alloc[s][b].amount
<1>1. /\ s \in Txs /\ k.tx[s].date \in Nat
      /\ \A j \in Moves(k, b) : j \in Itxs /\ k.itx[j].date \in Nat
  BY EventSets, BookRows
<1> DEFINE B == {r \in Allocs(k, b) : r = s \/ TxBefore(k, r, s)}
           N == {j \in Moves(k, b) : k.itx[j].date > Never /\ k.itx[j].date <= k.tx[s].date}
           O == {j \in Moves(k, b) : k.itx[j].date <= k.tx[s].date}
<1>2. B = {s} /\ O = N
  BY <1>1 DEF Never
<1>3. AtAlloc(k, b, s) = Baseline(k, b) + MoveSum(k, b, O) + AllocSum(k, b, B)
  BY DEF AtAlloc
<1>4. InternalDelta(k, b, Never, k.tx[s].date) = MoveSum(k, b, N)
  BY DEF InternalDelta
<1>5. AllocSum(k, b, {s}) = k.alloc[s][b].amount
  BY <1>1, AllocSums
<1> QED BY <1>2, <1>3, <1>4, <1>5

-----------------------------------------------------------------------------
(* _recalculate_running_balances.                                            *)

\* The balance after s, when it is g after the allocations before.
RunsTo(k, b, Forward, start, since, g, s) ==
  LET Walked == {r \in Forward : TxBefore(k, r, s)}
      prev == LastOf(k, Walked)
  IN (IF Walked = {} THEN start + InternalDelta(k, b, since, k.tx[s].date)
      ELSE g[prev] + InternalDelta(k, b, k.tx[prev].date, k.tx[s].date))
     + k.alloc[s][b].amount
AllocsRun(k, b, Forward, start, since, g) ==
  g = [s \in Forward |-> RunsTo(k, b, Forward, start, since, g, s)]

LEMMA RunningAllocsChosen ==
  ASSUME NEW k, NEW b, NEW Forward, NEW start, NEW since
  PROVE  RunningAllocs(k, b, Forward, start, since)
           = CHOOSE g : AllocsRun(k, b, Forward, start, since, g)
BY DEF RunningAllocs, AllocsRun, RunsTo

\* The allocations of b not before transaction t.
AllocsFrom(k, b, t) == {s \in Allocs(k, b) : ~TxBefore(k, s, t)}
AllocsUntil(k, b, t) == {s \in Allocs(k, b) : TxBefore(k, s, t)}

LEMMA RunsToHeld ==
  ASSUME NEW k \in Books, NEW b \in Budgets, NEW t \in Txs, NEW off \in Int, NEW start, NEW since,
         NEW P, P = AllocsUntil(k, b, t), NEW F, F = AllocsFrom(k, b, t),
         P = {} => start = Baseline(k, b) + off /\ since = Never,
         P # {} => start = AtAlloc(k, b, LastOf(k, P)) + off /\ since = k.tx[LastOf(k, P)].date,
         NEW g, NEW s \in F,
         \A r \in F : TxBefore(k, r, s) => g[r] = AtAlloc(k, b, r) + off
  PROVE  RunsTo(k, b, F, start, since, g, s) = AtAlloc(k, b, s) + off
<1> DEFINE W == {r \in F : TxBefore(k, r, s)}
<1>1. /\ F \in SUBSET Txs /\ P \in SUBSET Txs /\ W \in SUBSET Txs /\ s \in Txs /\ s \in Allocs(k, b)
      /\ Allocs(k, b) \subseteq Txs /\ Allocs(k, b) = P \union F
      /\ \A r \in P : TxBefore(k, r, t) /\ r \in Allocs(k, b)
      /\ \A r \in F : ~TxBefore(k, r, t) /\ r \in Allocs(k, b)
  BY EventSets DEF AllocsFrom, AllocsUntil
<1>2. \A x, y, z \in Txs : TxBefore(k, x, y) /\ TxBefore(k, y, z) => TxBefore(k, x, z)
  BY TxTotal
<1>3. \A x, y \in Txs : x = y \/ TxBefore(k, x, y) \/ TxBefore(k, y, x)
  BY TxTotal
<1>4. \A r \in P : TxBefore(k, r, s)
  BY <1>1, <1>2, <1>3
<1>5. /\ \A x : AtAlloc(k, b, x) \in Int /\ Baseline(k, b) \in Int /\ k.alloc[s][b].amount \in Int
      /\ \A x, y : InternalDelta(k, b, x, y) \in Int
  <2>1. \A x, y : InternalDelta(k, b, x, y) \in Int
    BY MoveSums, EventSets DEF InternalDelta
  <2> QED BY <1>1, <2>1, HeldInt, BookRows
<1>6. CASE W # {}
  <2> DEFINE q == LastOf(k, W)
  <2>1. q \in W /\ \A r \in W : r = q \/ TxBefore(k, r, q)
    BY <1>1, <1>6, FirstAndLast
  <2> HIDE DEF q
  <2>2. \A r \in P : TxBefore(k, r, q)
    BY <1>1, <1>2, <1>3, <2>1
  <2>3. /\ q \in Allocs(k, b) /\ TxBefore(k, q, s)
        /\ \A r \in Allocs(k, b) : TxBefore(k, r, s) => r = q \/ TxBefore(k, r, q)
    BY <1>1, <2>1, <2>2
  <2>4. AtAlloc(k, b, s)
          = AtAlloc(k, b, q) + InternalDelta(k, b, k.tx[q].date, k.tx[s].date) + k.alloc[s][b].amount
    BY <1>1, <2>3, NextAlloc
  <2>5. g[q] = AtAlloc(k, b, q) + off
    BY <2>1
  <2>6. RunsTo(k, b, F, start, since, g, s)
          = g[q] + InternalDelta(k, b, k.tx[q].date, k.tx[s].date) + k.alloc[s][b].amount
    BY <1>6 DEF RunsTo, q
  <2> HIDE DEF W
  <2> QED BY <1>5, <2>4, <2>5, <2>6
<1>7. CASE W = {} /\ P # {}
  <2> DEFINE q == LastOf(k, P)
  <2>1. q \in P /\ \A r \in P : r = q \/ TxBefore(k, r, q)
    BY <1>1, <1>7, FirstAndLast
  <2>2. start = AtAlloc(k, b, q) + off /\ since = k.tx[q].date
    BY <1>7
  <2> HIDE DEF q
  <2>3. /\ q \in Allocs(k, b) /\ TxBefore(k, q, s)
        /\ \A r \in Allocs(k, b) : TxBefore(k, r, s) => r = q \/ TxBefore(k, r, q)
    BY <1>1, <1>4, <1>7, <2>1
  <2>4. AtAlloc(k, b, s)
          = AtAlloc(k, b, q) + InternalDelta(k, b, k.tx[q].date, k.tx[s].date) + k.alloc[s][b].amount
    BY <1>1, <2>3, NextAlloc
  <2>5. RunsTo(k, b, F, start, since, g, s)
          = start + InternalDelta(k, b, since, k.tx[s].date) + k.alloc[s][b].amount
    BY <1>7 DEF RunsTo
  <2> QED BY <1>5, <2>2, <2>4, <2>5
<1>8. CASE W = {} /\ P = {}
  <2>1. \A r \in Allocs(k, b) : ~TxBefore(k, r, s)
    BY <1>1, <1>8
  <2>2. AtAlloc(k, b, s)
          = Baseline(k, b) + InternalDelta(k, b, Never, k.tx[s].date) + k.alloc[s][b].amount
    BY <1>1, <2>1, FirstAlloc
  <2>3. RunsTo(k, b, F, start, since, g, s)
          = start + InternalDelta(k, b, since, k.tx[s].date) + k.alloc[s][b].amount
    BY <1>8 DEF RunsTo
  <2>4. start = Baseline(k, b) + off /\ since = Never
    BY <1>8
  <2> QED BY <1>5, <2>2, <2>3, <2>4
<1> QED BY <1>6, <1>7, <1>8

LEMMA RunningAllocsHeld ==
  ASSUME NEW k \in Books, NEW b \in Budgets, NEW t \in Txs, NEW off \in Int, NEW start, NEW since,
         NEW P, P = AllocsUntil(k, b, t), NEW F, F = AllocsFrom(k, b, t),
         P = {} => start = Baseline(k, b) + off /\ since = Never,
         P # {} => start = AtAlloc(k, b, LastOf(k, P)) + off /\ since = k.tx[LastOf(k, P)].date
  PROVE  \A s \in F : RunningAllocs(k, b, F, start, since)[s] = AtAlloc(k, b, s) + off
<1>1. F \in SUBSET Txs /\ IsFiniteSet(Txs)
  BY EventSets, RowsAssumption DEF AllocsFrom
<1> DEFINE h == [s \in F |-> AtAlloc(k, b, s) + off]
<1>2. \E g : AllocsRun(k, b, F, start, since, g)
  <2>1. \A s \in F : h[s] = AtAlloc(k, b, s) + off
    OBVIOUS
  <2>2. h = [s \in F |-> h[s]]
    OBVIOUS
  <2> HIDE DEF h
  <2>3. \A s \in F : RunsTo(k, b, F, start, since, h, s) = h[s]
    BY <2>1, RunsToHeld
  <2>4. AllocsRun(k, b, F, start, since, h)
    BY <2>2, <2>3 DEF AllocsRun
  <2> QED BY <2>4
<1>3. PICK g : g = RunningAllocs(k, b, F, start, since)
  OBVIOUS
<1>4. AllocsRun(k, b, F, start, since, g)
  BY <1>2, <1>3, RunningAllocsChosen
<1>5. \A s \in F : g[s] = RunsTo(k, b, F, start, since, g, s)
  BY <1>4 DEF AllocsRun
<1> DEFINE Good == {s \in F : g[s] = AtAlloc(k, b, s) + off}
<1>6. ASSUME NEW s \in F, \A r \in F : <<r, s>> \in TxOrder(k) => r \in Good
      PROVE  s \in Good
  <2>1. \A r \in F : TxBefore(k, r, s) => g[r] = AtAlloc(k, b, r) + off
    BY <1>1, <1>6, TxLine
  <2>2. RunsTo(k, b, F, start, since, g, s) = AtAlloc(k, b, s) + off
    BY <2>1, RunsToHeld
  <2> QED BY <1>5, <2>2
<1> HIDE DEF Good
<1>7. \A s \in F : s \in Good
  BY <1>1, <1>6, TxLine, LinesInduction
<1> QED BY <1>3, <1>7 DEF Good

\* By how much the snapshot of the last of the allocations S is wrong.
AllocOff(k, b, S) ==
  IF S = {} THEN 0 ELSE k.alloc[LastOf(k, S)][b].snap - AtAlloc(k, b, LastOf(k, S))

LEMMA AllocOffInt ==
  ASSUME NEW k \in Books, NEW b \in Budgets, NEW S \in SUBSET Txs
  PROVE  /\ AllocOff(k, b, S) \in Int
         /\ S # {} => k.alloc[LastOf(k, S)][b].snap = AtAlloc(k, b, LastOf(k, S)) + AllocOff(k, b, S)
<1>1. CASE S = {}
  BY <1>1 DEF AllocOff
<1>2. CASE S # {}
  <2> DEFINE p == LastOf(k, S)
  <2>1. p \in Txs
    BY <1>2, FirstAndLast
  <2> HIDE DEF p
  <2>2. k.alloc[p][b].snap \in Int /\ AtAlloc(k, b, p) \in Int
    BY <2>1, BookRows, HeldInt
  <2>3. AllocOff(k, b, S) = k.alloc[p][b].snap - AtAlloc(k, b, p)
    BY <1>2 DEF AllocOff, p
  <2>4. AllocOff(k, b, S) \in Int /\ k.alloc[p][b].snap = AtAlloc(k, b, p) + AllocOff(k, b, S)
    BY <2>2, <2>3
  <2> QED BY <2>4 DEF p
<1> QED BY <1>1, <1>2

\* New snapshots in the rows of b's allocations F.
Resnapped(a, b, F, run) == [s \in Txs |-> IF s \in F THEN [a[s] EXCEPT ![b].snap = run[s]] ELSE a[s]]

\* j is k but for the snapshots of b's allocations F, which are run.
AllocsSnapped(k, j, b, F, run) ==
  /\ j \in Books /\ j.tx = k.tx /\ j.itx = k.itx /\ j.balance = k.balance
  /\ \A s \in Txs, c \in Budgets :
       /\ j.alloc[s][c].amount = k.alloc[s][c].amount
       /\ c # b \/ s \notin F => j.alloc[s][c] = k.alloc[s][c]
  /\ \A s \in F : j.alloc[s][b].snap = run[s]

LEMMA ResnappedRows ==
  ASSUME NEW k \in Books, NEW b \in Budgets, NEW F \in SUBSET Allocs(k, b), NEW run,
         \A s \in F : run[s] \in Int, 
         NEW A, A = Resnapped(k.alloc, b, F, run), NEW j, j = [k EXCEPT !.alloc = A]
  PROVE  AllocsSnapped(k, j, b, F, run)
<1>1. F \in SUBSET Txs /\ \A s \in F : k.alloc[s][b].amount # 0
  BY BookRows DEF Allocs
<1>2. ASSUME NEW s \in Txs
      PROVE  /\ A[s] \in [Budgets -> AllocRow]
             /\ \A c \in Budgets : /\ A[s][c].amount = k.alloc[s][c].amount
                                   /\ c # b \/ s \notin F => A[s][c] = k.alloc[s][c]
             /\ s \in F => A[s][b].snap = run[s]
  <2>1. k.alloc[s] \in [Budgets -> AllocRow]
    BY DEF Books
  <2>2. CASE s \notin F
    BY <2>1, <2>2 DEF Resnapped
  <2>3. CASE s \in F
    <3> DEFINE row == [k.alloc[s][b] EXCEPT !.snap = run[s]]
    <3>1. A[s] = [k.alloc[s] EXCEPT ![b] = row]
      BY <2>3 DEF Resnapped
    <3>2. k.alloc[s][b] \in [amount : Int, snap : Int] /\ k.alloc[s][b].amount # 0
      BY <1>1, <2>1, <2>3 DEF AllocRow
    <3>3. row \in AllocRow /\ row.amount = k.alloc[s][b].amount /\ row.snap = run[s]
      BY <2>3, <3>2 DEF AllocRow
    <3> HIDE DEF row
    <3> QED BY <2>1, <2>3, <3>1, <3>3
  <2> QED BY <2>2, <2>3
<1>3. A \in [Txs -> [Budgets -> AllocRow]]
  <2>1. A = [s \in Txs |-> A[s]]
    BY DEF Resnapped
  <2> QED BY <1>2, <2>1
<1>4. j = [tx |-> k.tx, alloc |-> A, itx |-> k.itx, balance |-> k.balance]
  BY DEF Books
<1>5. j \in Books
  BY <1>3, <1>4 DEF Books
<1>6. j.tx = k.tx /\ j.itx = k.itx /\ j.balance = k.balance /\ j.alloc = A
  BY <1>4
<1>7. \A s \in Txs, c \in Budgets :
        /\ j.alloc[s][c].amount = k.alloc[s][c].amount
        /\ c # b \/ s \notin F => j.alloc[s][c] = k.alloc[s][c]
  BY <1>2, <1>6
<1>8. \A s \in F : j.alloc[s][b].snap = run[s]
  BY <1>1, <1>2, <1>6
<1> QED BY <1>5, <1>6, <1>7, <1>8 DEF AllocsSnapped

\* j is k with the snapshots of the allocations F as right, or wrong, as the last of P.
AllocsRerun(k, j, b, F, P) ==
  /\ j \in Books /\ j.tx = k.tx /\ j.itx = k.itx /\ j.balance = k.balance
  /\ \A s \in Txs, c \in Budgets :
       /\ j.alloc[s][c].amount = k.alloc[s][c].amount
       /\ c # b \/ s \notin F => j.alloc[s][c] = k.alloc[s][c]
  /\ \A s \in F : j.alloc[s][b].snap = AtAlloc(k, b, s) + AllocOff(k, b, P)

LEMMA RunAllocsRows ==
  ASSUME NEW k \in Books, NEW b \in Budgets, NEW t \in Txs, NEW j, j = RunAllocs(k, b, t)
  PROVE  AllocsRerun(k, j, b, AllocsFrom(k, b, t), AllocsUntil(k, b, t))
<1>1. PICK P \in SUBSET Txs : P = AllocsUntil(k, b, t)
  BY EventSets DEF AllocsUntil
<1>2. PICK F \in SUBSET Allocs(k, b) : F = AllocsFrom(k, b, t)
  BY DEF AllocsFrom
<1> DEFINE start == IF P = {} THEN Baseline(k, b) ELSE k.alloc[LastOf(k, P)][b].snap
           since == IF P = {} THEN Never ELSE k.tx[LastOf(k, P)].date
           run == RunningAllocs(k, b, F, start, since)
           off == AllocOff(k, b, P)
<1>3. Allocs(k, b) \ P = F
  BY <1>1, <1>2 DEF AllocsUntil, AllocsFrom
<1>4. j = [k EXCEPT !.alloc = Resnapped(k.alloc, b, F, run)]
  <2>1. P = {s \in Allocs(k, b) : TxBefore(k, s, t)}
    BY <1>1 DEF AllocsUntil
  <2> QED BY <1>3, <2>1 DEF RunAllocs, Resnapped
<1>5. /\ off \in Int /\ (P = {} => start = Baseline(k, b) + off /\ since = Never)
      /\ P # {} => start = AtAlloc(k, b, LastOf(k, P)) + off /\ since = k.tx[LastOf(k, P)].date
  <2>1. CASE P = {}
    BY <2>1, HeldInt DEF AllocOff
  <2>2. CASE P # {}
    BY <2>2, AllocOffInt
  <2> QED BY <2>1, <2>2
<1> HIDE DEF start, since, off
<1>6. \A s \in F : run[s] = AtAlloc(k, b, s) + off
  BY <1>1, <1>2, <1>5, RunningAllocsHeld
<1> HIDE DEF run
<1>7. \A s \in F : run[s] \in Int
  BY <1>5, <1>6, HeldInt
<1>9. PICK g : g = run
  OBVIOUS
<1>12. PICK A : A = Resnapped(k.alloc, b, F, g)
  OBVIOUS
<1>10. /\ \A s \in F : g[s] \in Int
       /\ j = [k EXCEPT !.alloc = A]
       /\ F \in SUBSET Allocs(k, b)
  BY <1>2, <1>4, <1>7, <1>9, <1>12
<1>11. AllocsSnapped(k, j, b, F, g)
  BY <1>10, <1>12, ResnappedRows
<1>8. /\ j \in Books /\ j.tx = k.tx /\ j.itx = k.itx /\ j.balance = k.balance
      /\ \A s \in Txs, c \in Budgets :
           /\ j.alloc[s][c].amount = k.alloc[s][c].amount
           /\ c # b \/ s \notin F => j.alloc[s][c] = k.alloc[s][c]
      /\ \A s \in F : j.alloc[s][b].snap = run[s]
  BY <1>9, <1>11 DEF AllocsSnapped
<1>13. AllocsRerun(k, j, b, F, P)
  BY <1>6, <1>8 DEF off, AllocsRerun
<1> QED BY <1>1, <1>2, <1>13

-----------------------------------------------------------------------------
(* recalculate_itx_snapshots_from_dt.                                        *)

\* What the budget held before the events of a date.
AtDate(k, b, from) ==
  Baseline(k, b) + MoveSum(k, b, {j \in Moves(k, b) : k.itx[j].date < from})
  + AllocSum(k, b, {s \in Allocs(k, b) : k.tx[s].date < from})

LEMMA AllocsBetween ==
  ASSUME NEW k \in Books, NEW b \in Budgets, NEW x \in Nat, NEW y \in Nat, x <= y
  PROVE  AllocSum(k, b, {s \in Allocs(k, b) : k.tx[s].date < y})
           = AllocSum(k, b, {s \in Allocs(k, b) : k.tx[s].date < x}) + AllocDelta(k, b, x, y)
<1> DEFINE A == {s \in Allocs(k, b) : k.tx[s].date < x}
           B == {s \in Allocs(k, b) : k.tx[s].date < y}
           D == {s \in Allocs(k, b) : k.tx[s].date >= x /\ k.tx[s].date < y}
<1>1. \A s \in Allocs(k, b) : s \in Txs /\ k.tx[s].date \in Nat
  BY EventSets, BookRows
<1>2. A \in SUBSET Txs /\ D \in SUBSET Txs /\ B = A \union D /\ A \intersect D = {}
  BY <1>1
<1>3. AllocDelta(k, b, x, y) = AllocSum(k, b, D)
  BY DEF AllocDelta
<1>4. \A S, T \in SUBSET Txs :
        S \intersect T = {} => AllocSum(k, b, S \union T) = AllocSum(k, b, S) + AllocSum(k, b, T)
  BY AllocSums
<1> HIDE DEF A, B, D
<1>5. AllocSum(k, b, B) = AllocSum(k, b, A) + AllocSum(k, b, D)
  BY <1>2, <1>4
<1> QED BY <1>3, <1>5 DEF A, B

LEMMA AllocDeltaInt ==
  ASSUME NEW k \in Books, NEW b \in Budgets
  PROVE  \A x, y : AllocDelta(k, b, x, y) \in Int
BY AllocSums, EventSets DEF AllocDelta

LEMMA AtDateInt ==
  ASSUME NEW k \in Books, NEW b \in Budgets
  PROVE  \A x : AtDate(k, b, x) \in Int
<1>1. ASSUME NEW x PROVE AtDate(k, b, x) \in Int
  <2>1. {s \in Allocs(k, b) : k.tx[s].date < x} \in SUBSET Txs
    BY EventSets
  <2>2. {j \in Moves(k, b) : k.itx[j].date < x} \in SUBSET Itxs
    BY EventSets
  <2>3. AllocSum(k, b, {s \in Allocs(k, b) : k.tx[s].date < x}) \in Int
    BY <2>1, AllocSums
  <2>4. MoveSum(k, b, {j \in Moves(k, b) : k.itx[j].date < x}) \in Int
    BY <2>2, MoveSums
  <2> QED BY <2>3, <2>4, HeldInt DEF AtDate
<1> QED BY <1>1

\* What the walk from a date starts from: the last allocation before it, its date,
\* its snapshot and the transfers in between.
WalkStarts(k, b, from, P, anchor, snap, N) ==
  /\ P = {s \in Allocs(k, b) : k.tx[s].date < from}
  /\ anchor = IF P = {} THEN Never ELSE k.tx[LastOf(k, P)].date
  /\ snap = IF P = {} THEN Baseline(k, b) ELSE k.alloc[LastOf(k, P)][b].snap
  /\ N = {i \in Moves(k, b) : k.itx[i].date > anchor /\ k.itx[i].date < from}

LEMMA StartOfWalk ==
  ASSUME NEW k \in Books, NEW b \in Budgets, NEW from \in Nat, NEW P, NEW anchor, NEW snap, NEW N,
         WalkStarts(k, b, from, P, anchor, snap, N)
  PROVE  snap + MoveSum(k, b, N) = AtDate(k, b, from) + AllocOff(k, b, P)
<1> DEFINE O == {i \in Moves(k, b) : k.itx[i].date < from}
<1>0. /\ P = {s \in Allocs(k, b) : k.tx[s].date < from}
      /\ anchor = IF P = {} THEN Never ELSE k.tx[LastOf(k, P)].date
      /\ snap = IF P = {} THEN Baseline(k, b) ELSE k.alloc[LastOf(k, P)][b].snap
      /\ N = {i \in Moves(k, b) : k.itx[i].date > anchor /\ k.itx[i].date < from}
  BY DEF WalkStarts
<1>9. \A j \in Moves(k, b) : j \in N <=> k.itx[j].date > anchor /\ k.itx[j].date < from
  BY <1>0
<1>10. N \subseteq Moves(k, b)
  BY <1>0
<1>1. /\ P \in SUBSET Txs /\ \A i \in Moves(k, b) : i \in Itxs /\ k.itx[i].date \in Nat
      /\ \A s \in Txs : k.tx[s].date \in Nat
  BY <1>0, EventSets, BookRows
<1>2. AtDate(k, b, from) = Baseline(k, b) + MoveSum(k, b, O) + AllocSum(k, b, P)
  BY <1>0 DEF AtDate
<1>3. N \in SUBSET Itxs /\ O \in SUBSET Itxs
  BY <1>0, <1>1
<1>4. /\ Baseline(k, b) \in Int /\ MoveSum(k, b, N) \in Int /\ MoveSum(k, b, O) \in Int
      /\ AllocSum(k, b, P) \in Int /\ AllocOff(k, b, P) \in Int
  BY <1>1, <1>3, HeldInt, MoveSums, AllocSums, AllocOffInt
<1>5. CASE P = {}
  <2>1. N = O
    <3>1. anchor = Never
      BY <1>0, <1>5
    <3>2. \A j \in Moves(k, b) : j \in N <=> j \in O
      BY <1>1, <1>9, <3>1 DEF Never
    <3> QED BY <1>10, <3>2
  <2>2. AllocSum(k, b, P) = 0 /\ AllocOff(k, b, P) = 0
    BY <1>5, AllocSums DEF AllocOff
  <2> HIDE DEF O
  <2>3. Baseline(k, b) + MoveSum(k, b, N) = AtDate(k, b, from) + AllocOff(k, b, P)
    BY <1>2, <1>4, <2>1, <2>2
  <2> QED BY <1>0, <1>5, <2>3
<1>6. CASE P # {}
  <2>1. PICK p : p = LastOf(k, P)
    OBVIOUS
  <2>2. p \in P /\ \A s \in P : s = p \/ TxBefore(k, s, p)
    BY <1>1, <1>6, <2>1, FirstAndLast
  <2>3. k.alloc[p][b].snap = AtAlloc(k, b, p) + AllocOff(k, b, P)
    BY <1>1, <1>6, <2>1, AllocOffInt
  <2>4. k.tx[p].date \in Nat /\ k.tx[p].date < from /\ anchor = k.tx[p].date
    BY <1>0, <1>1, <1>6, <2>1, <2>2
  <2>5. {s \in Allocs(k, b) : s = p \/ TxBefore(k, s, p)} = P
    <3>1. \A s \in Allocs(k, b) : TxBefore(k, s, p) => k.tx[s].date < from
      BY <1>1, <2>4, EventSets DEF TxBefore
    <3> QED BY <1>0, <2>2, <3>1
  <2> DEFINE M == {j \in Moves(k, b) : k.itx[j].date <= k.tx[p].date}
  <2>11. M \in SUBSET Itxs
    BY EventSets
  <2>12. O = M \union N
    <3>1. ASSUME NEW j \in Moves(k, b) PROVE j \in O <=> j \in M \union N
      <4>1. k.itx[j].date \in Nat
        BY <1>1
      <4> QED BY <1>9, <2>4, <4>1
    <3>2. O \subseteq Moves(k, b) /\ M \union N \subseteq Moves(k, b)
      BY <1>0
    <3> HIDE DEF O, M
    <3> QED BY <3>1, <3>2
  <2>13. M \intersect N = {}
    <3>1. ASSUME NEW j \in Moves(k, b) PROVE ~(j \in M /\ j \in N)
      <4>1. k.itx[j].date \in Nat
        BY <1>1
      <4> QED BY <1>9, <2>4, <4>1
    <3> QED BY <3>1
  <2>6. M \in SUBSET Itxs /\ O = M \union N /\ M \intersect N = {}
    BY <2>11, <2>12, <2>13
  <2>7. \A S, T \in SUBSET Itxs :
          S \intersect T = {} => MoveSum(k, b, S \union T) = MoveSum(k, b, S) + MoveSum(k, b, T)
    BY MoveSums
  <2>8. AtAlloc(k, b, p) = Baseline(k, b) + MoveSum(k, b, M) + AllocSum(k, b, P)
    BY <2>5 DEF AtAlloc
  <2> HIDE DEF M, O
  <2>9. MoveSum(k, b, O) = MoveSum(k, b, M) + MoveSum(k, b, N) /\ MoveSum(k, b, M) \in Int
    BY <1>3, <2>6, <2>7, MoveSums
  <2>10. k.alloc[p][b].snap + MoveSum(k, b, N) = AtDate(k, b, from) + AllocOff(k, b, P)
    BY <1>2, <1>4, <2>3, <2>8, <2>9
  <2> QED BY <1>0, <1>6, <2>1, <2>10
<1> QED BY <1>5, <1>6

\* From one transfer to the next: the allocations between and the transfer itself.
LEMMA NextItx ==
  ASSUME NEW k \in Books, NEW b \in Budgets, NEW q \in Moves(k, b), NEW i \in Moves(k, b),
         ItxBefore(k, q, i), \A j \in Moves(k, b) : ItxBefore(k, j, i) => j = q \/ ItxBefore(k, j, q)
  PROVE  AtItx(k, b, i)
           = AtItx(k, b, q) + AllocDelta(k, b, k.itx[q].date, k.itx[i].date) + Moved(k, b, i)
<1>1. /\ q \in Itxs /\ i \in Itxs /\ k.itx[q].date \in Nat /\ k.itx[i].date \in Nat
      /\ k.itx[q].date <= k.itx[i].date /\ Moved(k, b, i) \in Int
  BY EventSets, BookRows, MovedInt DEF ItxBefore
<1> DEFINE A == {j \in Moves(k, b) : j = q \/ ItxBefore(k, j, q)}
           B == {j \in Moves(k, b) : j = i \/ ItxBefore(k, j, i)}
           M == {t \in Allocs(k, b) : k.tx[t].date < k.itx[q].date}
           O == {t \in Allocs(k, b) : k.tx[t].date < k.itx[i].date}
<1>2. A \in SUBSET Itxs /\ {i} \in SUBSET Itxs /\ M \in SUBSET Txs /\ O \in SUBSET Txs
  BY <1>1, EventSets
<1>3. B = A \union {i} /\ A \intersect {i} = {}
  <2>1. \A j \in Itxs : ItxBefore(k, j, q) => ItxBefore(k, j, i)
    BY <1>1, ItxTotal
  <2>2. ~ItxBefore(k, i, q) /\ i # q
    BY <1>1, ItxTotal
  <2>3. A \subseteq Itxs /\ Moves(k, b) \subseteq Itxs
    BY EventSets
  <2> QED BY <2>1, <2>2, <2>3
<1>4. AllocSum(k, b, O) = AllocSum(k, b, M) + AllocDelta(k, b, k.itx[q].date, k.itx[i].date)
  BY <1>1, AllocsBetween
<1>8. /\ AtItx(k, b, i) = Baseline(k, b) + MoveSum(k, b, B) + AllocSum(k, b, O)
      /\ AtItx(k, b, q) = Baseline(k, b) + MoveSum(k, b, A) + AllocSum(k, b, M)
  BY DEF AtItx
<1> HIDE DEF A, B, M, O
<1>5. MoveSum(k, b, B) = MoveSum(k, b, A) + Moved(k, b, i)
  <2>1. \A S, T \in SUBSET Itxs :
          S \intersect T = {} => MoveSum(k, b, S \union T) = MoveSum(k, b, S) + MoveSum(k, b, T)
    BY MoveSums
  <2>2. MoveSum(k, b, B) = MoveSum(k, b, A) + MoveSum(k, b, {i})
    BY <1>2, <1>3, <2>1
  <2>3. MoveSum(k, b, {i}) = Moved(k, b, i)
    BY <1>1, MoveSums
  <2> QED BY <2>2, <2>3
<1>6. MoveSum(k, b, A) \in Int
  BY <1>2, MoveSums
<1>7. AllocSum(k, b, M) \in Int /\ Baseline(k, b) \in Int
      /\ AllocDelta(k, b, k.itx[q].date, k.itx[i].date) \in Int
  BY <1>2, AllocSums, HeldInt, AllocDeltaInt
<1> QED BY <1>1, <1>4, <1>5, <1>6, <1>7, <1>8

LEMMA FirstItx ==
  ASSUME NEW k \in Books, NEW b \in Budgets, NEW from \in Nat, NEW i \in Moves(k, b),
         k.itx[i].date >= from,
         \A j \in Moves(k, b) : k.itx[j].date >= from => ~ItxBefore(k, j, i)
  PROVE  AtItx(k, b, i)
           = AtDate(k, b, from) + AllocDelta(k, b, from, k.itx[i].date) + Moved(k, b, i)
<1>1. i \in Itxs /\ k.itx[i].date \in Nat /\ from <= k.itx[i].date /\ Moved(k, b, i) \in Int
  BY EventSets, BookRows, MovedInt
<1>9. \A j \in Moves(k, b) : j \in Itxs /\ k.itx[j].date \in Nat
  BY EventSets, BookRows
<1> DEFINE A == {j \in Moves(k, b) : k.itx[j].date < from}
           B == {j \in Moves(k, b) : j = i \/ ItxBefore(k, j, i)}
           M == {t \in Allocs(k, b) : k.tx[t].date < from}
           O == {t \in Allocs(k, b) : k.tx[t].date < k.itx[i].date}
<1>2. A \in SUBSET Itxs /\ {i} \in SUBSET Itxs /\ M \in SUBSET Txs /\ O \in SUBSET Txs
  BY <1>1, EventSets
<1>3. B = A \union {i} /\ A \intersect {i} = {}
  <2>1. ASSUME NEW j \in Moves(k, b) PROVE ItxBefore(k, j, i) <=> k.itx[j].date < from
    <3>1. k.itx[j].date \in Nat
      BY <1>9
    <3>2. k.itx[j].date < from => ItxBefore(k, j, i)
      BY <1>1, <3>1 DEF ItxBefore
    <3>3. k.itx[j].date >= from => ~ItxBefore(k, j, i)
      OBVIOUS
    <3> QED BY <3>1, <3>2, <3>3
  <2>2. ~(k.itx[i].date < from)
    BY <1>1
  <2> QED BY <2>1, <2>2
<1>4. AllocSum(k, b, O) = AllocSum(k, b, M) + AllocDelta(k, b, from, k.itx[i].date)
  BY <1>1, AllocsBetween
<1>8. /\ AtItx(k, b, i) = Baseline(k, b) + MoveSum(k, b, B) + AllocSum(k, b, O)
      /\ AtDate(k, b, from) = Baseline(k, b) + MoveSum(k, b, A) + AllocSum(k, b, M)
  BY DEF AtItx, AtDate
<1> HIDE DEF A, B, M, O
<1>5. MoveSum(k, b, B) = MoveSum(k, b, A) + Moved(k, b, i)
  <2>1. \A S, T \in SUBSET Itxs :
          S \intersect T = {} => MoveSum(k, b, S \union T) = MoveSum(k, b, S) + MoveSum(k, b, T)
    BY MoveSums
  <2>2. MoveSum(k, b, B) = MoveSum(k, b, A) + MoveSum(k, b, {i})
    BY <1>2, <1>3, <2>1
  <2>3. MoveSum(k, b, {i}) = Moved(k, b, i)
    BY <1>1, MoveSums
  <2> QED BY <2>2, <2>3
<1>6. MoveSum(k, b, A) \in Int
  BY <1>2, MoveSums
<1>7. AllocSum(k, b, M) \in Int /\ Baseline(k, b) \in Int /\ AllocDelta(k, b, from, k.itx[i].date) \in Int
  BY <1>2, AllocSums, HeldInt, AllocDeltaInt
<1> QED BY <1>1, <1>4, <1>5, <1>6, <1>7, <1>8

\* The balance after i, when it is g after the transfers before.
ItxRunsTo(k, b, Walk, start, from, g, i) ==
  LET Walked == {j \in Walk : ItxBefore(k, j, i)}
      prev == LastItx(k, Walked)
  IN (IF Walked = {} THEN start + AllocDelta(k, b, from, k.itx[i].date)
      ELSE g[prev] + AllocDelta(k, b, k.itx[prev].date, k.itx[i].date))
     + Moved(k, b, i)
ItxsRun(k, b, Walk, start, from, g) ==
  g = [i \in Walk |-> ItxRunsTo(k, b, Walk, start, from, g, i)]

LEMMA RunningItxsChosen ==
  ASSUME NEW k, NEW b, NEW Walk, NEW start, NEW from
  PROVE  RunningItxs(k, b, Walk, start, from) = CHOOSE g : ItxsRun(k, b, Walk, start, from, g)
BY DEF RunningItxs, ItxsRun, ItxRunsTo

\* The transfers of b from a date on.
MovesFrom(k, b, from) == {i \in Moves(k, b) : k.itx[i].date >= from}

LEMMA ItxRunsToHeld ==
  ASSUME NEW k \in Books, NEW b \in Budgets, NEW from \in Nat, NEW off \in Int,
         NEW W, W = MovesFrom(k, b, from), NEW start, start = AtDate(k, b, from) + off,
         NEW g, NEW i \in W, \A j \in W : ItxBefore(k, j, i) => g[j] = AtItx(k, b, j) + off
  PROVE  ItxRunsTo(k, b, W, start, from, g, i) = AtItx(k, b, i) + off
<1> DEFINE V == {j \in W : ItxBefore(k, j, i)}
<1>1. /\ W \in SUBSET Itxs /\ V \in SUBSET Itxs /\ i \in Moves(k, b) /\ k.itx[i].date >= from
      /\ i \in Itxs
  BY EventSets DEF MovesFrom
<1>2. /\ \A j \in Moves(k, b) : j \in Itxs /\ k.itx[j].date \in Nat
      /\ Moved(k, b, i) \in Int
  BY <1>1, EventSets, BookRows, MovedInt
<1>3. /\ \A x : AtItx(k, b, x) \in Int /\ AtDate(k, b, x) \in Int
      /\ \A x, y : AllocDelta(k, b, x, y) \in Int
  BY HeldInt, AtDateInt, AllocDeltaInt
<1>4. CASE V # {}
  <2>1. PICK q : q = LastItx(k, V)
    OBVIOUS
  <2>2. q \in V /\ \A j \in V : j = q \/ ItxBefore(k, j, q)
    BY <1>1, <1>4, <2>1, LastTransfer
  <2>3. q \in Moves(k, b) /\ ItxBefore(k, q, i) /\ k.itx[q].date >= from /\ q \in W
    BY <2>2 DEF MovesFrom
  <2>4. ASSUME NEW j \in Moves(k, b), ItxBefore(k, j, i) PROVE j = q \/ ItxBefore(k, j, q)
    <3>1. CASE k.itx[j].date >= from
      BY <2>2, <2>4, <3>1 DEF MovesFrom
    <3>2. CASE ~(k.itx[j].date >= from)
      <4>1. k.itx[j].date \in Nat /\ k.itx[q].date \in Nat
        BY <1>2, <2>3
      <4> QED BY <2>3, <3>2, <4>1 DEF ItxBefore
    <3> QED BY <3>1, <3>2
  <2>5. AtItx(k, b, i)
          = AtItx(k, b, q) + AllocDelta(k, b, k.itx[q].date, k.itx[i].date) + Moved(k, b, i)
    BY <1>1, <2>3, <2>4, NextItx
  <2>6. g[q] = AtItx(k, b, q) + off
    BY <2>3
  <2>7. ItxRunsTo(k, b, W, start, from, g, i)
          = g[q] + AllocDelta(k, b, k.itx[q].date, k.itx[i].date) + Moved(k, b, i)
    BY <1>4, <2>1 DEF ItxRunsTo
  <2> HIDE DEF V
  <2> QED BY <1>2, <1>3, <2>5, <2>6, <2>7
<1>5. CASE V = {}
  <2>1. \A j \in Moves(k, b) : k.itx[j].date >= from => ~ItxBefore(k, j, i)
    BY <1>5 DEF MovesFrom
  <2>2. AtItx(k, b, i)
          = AtDate(k, b, from) + AllocDelta(k, b, from, k.itx[i].date) + Moved(k, b, i)
    BY <1>1, <2>1, FirstItx
  <2>3. ItxRunsTo(k, b, W, start, from, g, i)
          = start + AllocDelta(k, b, from, k.itx[i].date) + Moved(k, b, i)
    BY <1>5 DEF ItxRunsTo
  <2> HIDE DEF V
  <2> QED BY <1>2, <1>3, <2>2, <2>3
<1> QED BY <1>4, <1>5

LEMMA RunningItxsHeld ==
  ASSUME NEW k \in Books, NEW b \in Budgets, NEW from \in Nat, NEW off \in Int,
         NEW W, W = MovesFrom(k, b, from), NEW start, start = AtDate(k, b, from) + off
  PROVE  \A i \in W : RunningItxs(k, b, W, start, from)[i] = AtItx(k, b, i) + off
<1>1. W \in SUBSET Itxs /\ IsFiniteSet(Itxs)
  BY EventSets, RowsAssumption DEF MovesFrom
<1> DEFINE h == [i \in W |-> AtItx(k, b, i) + off]
<1>2. \E g : ItxsRun(k, b, W, start, from, g)
  <2>1. \A i \in W : h[i] = AtItx(k, b, i) + off
    OBVIOUS
  <2>2. h = [i \in W |-> h[i]]
    OBVIOUS
  <2> HIDE DEF h
  <2>3. \A i \in W : ItxRunsTo(k, b, W, start, from, h, i) = h[i]
    BY <2>1, ItxRunsToHeld
  <2>4. ItxsRun(k, b, W, start, from, h)
    BY <2>2, <2>3 DEF ItxsRun
  <2> QED BY <2>4
<1>3. PICK g : g = RunningItxs(k, b, W, start, from)
  OBVIOUS
<1>4. ItxsRun(k, b, W, start, from, g)
  BY <1>2, <1>3, RunningItxsChosen
<1>5. \A i \in W : g[i] = ItxRunsTo(k, b, W, start, from, g, i)
  BY <1>4 DEF ItxsRun
<1> DEFINE Good == {i \in W : g[i] = AtItx(k, b, i) + off}
<1>6. ASSUME NEW i \in W, \A j \in W : <<j, i>> \in ItxOrder(k) => j \in Good
      PROVE  i \in Good
  <2>1. \A j \in W : ItxBefore(k, j, i) => g[j] = AtItx(k, b, j) + off
    BY <1>1, <1>6, ItxLine
  <2>2. ItxRunsTo(k, b, W, start, from, g, i) = AtItx(k, b, i) + off
    BY <2>1, ItxRunsToHeld
  <2> QED BY <1>5, <2>2
<1> HIDE DEF Good
<1>7. \A i \in W : i \in Good
  BY <1>1, <1>6, ItxLine, LinesInduction
<1> QED BY <1>3, <1>7 DEF Good

-----------------------------------------------------------------------------
\* The snapshot a transfer keeps for a budget.
Snap(k, b, i) == IF k.itx[i].src = b THEN k.itx[i].srcSnap ELSE k.itx[i].dstSnap

\* A transfer's row with another snapshot of b's.
Snapped(r, b, n) == IF r.src = b THEN [r EXCEPT !.srcSnap = n] ELSE [r EXCEPT !.dstSnap = n]

\* Two rows of the same transfer.
SameItx(r, q) == r.src = q.src /\ r.dst = q.dst /\ r.amount = q.amount /\ r.date = q.date

\* q is r but for b's snapshot, which is n.
SnappedTo(r, q, b, n) ==
  /\ q \in ItxRow /\ SameItx(q, r)
  /\ (IF q.src = b THEN q.srcSnap ELSE q.dstSnap) = n
  /\ \A c : c # b /\ c \in {r.src, r.dst} =>
       (IF q.src = c THEN q.srcSnap ELSE q.dstSnap) = (IF r.src = c THEN r.srcSnap ELSE r.dstSnap)

LEMMA SnappedRow ==
  ASSUME NEW r \in ItxRow, r # NoItx, NEW b, b \in {r.src, r.dst}, NEW n \in Int, NEW q, q = Snapped(r, b, n)
  PROVE  SnappedTo(r, q, b, n)
<1>1. /\ r \in [src : Budgets, dst : Budgets, amount : Int, date : Nat, srcSnap : Int, dstSnap : Int]
      /\ r.amount # 0 /\ r.src # r.dst
  BY DEF ItxRow
<1>2. CASE r.src = b
  <2>1. q = [r EXCEPT !.srcSnap = n]
    BY <1>2 DEF Snapped
  <2> QED BY <1>1, <1>2, <2>1 DEF ItxRow, SameItx, SnappedTo
<1>3. CASE r.src # b
  <2>1. q = [r EXCEPT !.dstSnap = n] /\ r.dst = b
    BY <1>3 DEF Snapped
  <2> QED BY <1>1, <1>3, <2>1 DEF ItxRow, SameItx, SnappedTo
<1> QED BY <1>2, <1>3

\* j is k but for b's snapshots of its transfers W, which are run.
ItxsSnapped(k, j, b, W, run) ==
  /\ j \in Books /\ j.tx = k.tx /\ j.alloc = k.alloc /\ j.balance = k.balance
  /\ \A i \in Itxs : /\ SameItx(j.itx[i], k.itx[i]) /\ (j.itx[i] = NoItx <=> k.itx[i] = NoItx)
                     /\ i \notin W => j.itx[i] = k.itx[i]
                     /\ \A c : c # b /\ i \in Moves(k, c) => Snap(j, c, i) = Snap(k, c, i)
  /\ \A i \in W : Snap(j, b, i) = run[i]

LEMMA ItxsSnappedRows ==
  ASSUME NEW k \in Books, NEW b \in Budgets, NEW W \in SUBSET Moves(k, b), NEW run,
         \A i \in W : run[i] \in Int, NEW j,
         NEW A, A = [i \in Itxs |-> IF i \in W THEN Snapped(k.itx[i], b, run[i]) ELSE k.itx[i]],
         j = [k EXCEPT !.itx = A]
  PROVE  ItxsSnapped(k, j, b, W, run)
<1>1. ASSUME NEW i \in Itxs
      PROVE  /\ A[i] \in ItxRow /\ SameItx(A[i], k.itx[i]) /\ (A[i] = NoItx <=> k.itx[i] = NoItx)
             /\ i \notin W => A[i] = k.itx[i]
             /\ \A c : c # b /\ i \in Moves(k, c) =>
                  (IF A[i].src = c THEN A[i].srcSnap ELSE A[i].dstSnap)
                    = (IF k.itx[i].src = c THEN k.itx[i].srcSnap ELSE k.itx[i].dstSnap)
             /\ i \in W => (IF A[i].src = b THEN A[i].srcSnap ELSE A[i].dstSnap) = run[i]
  <2>1. PICK r : r = k.itx[i]
    OBVIOUS
  <2>2. r \in ItxRow /\ (r = NoItx <=> r.amount = 0)
    BY <2>1, BookRows
  <2>3. CASE i \notin W
    BY <2>1, <2>2, <2>3 DEF SameItx
  <2>4. CASE i \in W
    <3>1. r # NoItx /\ b \in {r.src, r.dst} /\ run[i] \in Int
      BY <2>1, <2>4 DEF Moves
    <3>2. PICK q : q = Snapped(r, b, run[i])
      OBVIOUS
    <3>3. /\ q \in ItxRow /\ SameItx(q, r)
          /\ (IF q.src = b THEN q.srcSnap ELSE q.dstSnap) = run[i]
          /\ \A c : c # b /\ c \in {r.src, r.dst} =>
               (IF q.src = c THEN q.srcSnap ELSE q.dstSnap) = (IF r.src = c THEN r.srcSnap ELSE r.dstSnap)
      <4>1. SnappedTo(r, q, b, run[i])
        BY <2>2, <3>1, <3>2, SnappedRow
      <4> QED BY <4>1 DEF SnappedTo
    <3>4. A[i] = q
      BY <2>1, <2>4, <3>2
    <3>5. q # NoItx
      BY <2>2, <3>1, <3>3 DEF SameItx, NoItx
    <3>6. \A c : i \in Moves(k, c) => c \in {r.src, r.dst}
      BY <2>1 DEF Moves
    <3> QED BY <2>1, <2>4, <3>1, <3>3, <3>4, <3>5, <3>6
  <2> QED BY <2>3, <2>4
<1>2. A \in [Itxs -> ItxRow]
  <2>1. A = [i \in Itxs |-> A[i]]
    OBVIOUS
  <2> QED BY <1>1, <2>1
<1>3. j = [tx |-> k.tx, alloc |-> k.alloc, itx |-> A, balance |-> k.balance]
  BY DEF Books
<1>4. j \in Books
  BY <1>2, <1>3 DEF Books
<1>5. j.tx = k.tx /\ j.alloc = k.alloc /\ j.balance = k.balance /\ j.itx = A
  BY <1>3
<1>6. ASSUME NEW i \in Itxs
      PROVE  /\ SameItx(j.itx[i], k.itx[i]) /\ (j.itx[i] = NoItx <=> k.itx[i] = NoItx)
             /\ i \notin W => j.itx[i] = k.itx[i]
             /\ \A c : c # b /\ i \in Moves(k, c) => Snap(j, c, i) = Snap(k, c, i)
  BY <1>1, <1>5 DEF Snap
<1>7. \A i \in W : Snap(j, b, i) = run[i]
  BY <1>1, <1>5, EventSets DEF Snap
<1> QED BY <1>4, <1>5, <1>6, <1>7 DEF ItxsSnapped

LEMMA RunItxsRows ==
  ASSUME NEW k \in Books, NEW b \in Budgets, NEW from \in Nat, NEW j, j = RunItxs(k, b, from)
  PROVE  \E run : /\ ItxsSnapped(k, j, b, MovesFrom(k, b, from), run)
                  /\ \A i \in MovesFrom(k, b, from) :
                       run[i] = AtItx(k, b, i)
                                + AllocOff(k, b, {s \in Allocs(k, b) : k.tx[s].date < from})
<1>1. PICK P : P = {s \in Allocs(k, b) : k.tx[s].date < from}
  OBVIOUS
<1>2. PICK anchor : anchor = IF P = {} THEN Never ELSE k.tx[LastOf(k, P)].date
  OBVIOUS
<1>3. PICK W : W = MovesFrom(k, b, from)
  OBVIOUS
<1>15. PICK snap : snap = IF P = {} THEN Baseline(k, b) ELSE k.alloc[LastOf(k, P)][b].snap
  OBVIOUS
<1>16. PICK N : N = {i \in Moves(k, b) : k.itx[i].date > anchor /\ k.itx[i].date < from}
  OBVIOUS
<1>4. PICK start : start = snap + MoveSum(k, b, N)
  OBVIOUS
<1>5. PICK run : run = RunningItxs(k, b, W, start, from)
  OBVIOUS
<1>6. PICK off : off = AllocOff(k, b, P)
  OBVIOUS
<1>7. start = AtDate(k, b, from) + off
  <2>1. WalkStarts(k, b, from, P, anchor, snap, N)
    BY <1>1, <1>2, <1>15, <1>16 DEF WalkStarts
  <2>2. snap + MoveSum(k, b, N) = AtDate(k, b, from) + AllocOff(k, b, P)
    BY <2>1, StartOfWalk
  <2> QED BY <1>4, <1>6, <2>2
<1>8. P \in SUBSET Txs /\ off \in Int
  BY <1>1, <1>6, EventSets, AllocOffInt
<1>9. \A i \in W : run[i] = AtItx(k, b, i) + off
  BY <1>3, <1>5, <1>7, <1>8, RunningItxsHeld
<1>10. \A i \in W : run[i] \in Int
  BY <1>8, <1>9, HeldInt
<1>11. PICK A : A = [i \in Itxs |-> IF i \in W THEN Snapped(k.itx[i], b, run[i]) ELSE k.itx[i]]
  OBVIOUS
<1>12. j = [k EXCEPT !.itx = A]
  <2>1. j = [k EXCEPT !.itx = [i \in Itxs |-> IF i \in W THEN Snapped(k.itx[i], b, run[i]) ELSE k.itx[i]]]
    BY <1>1, <1>2, <1>3, <1>4, <1>5, <1>15, <1>16, Zenon DEF RunItxs, Snapped, MovesFrom
  <2> QED BY <1>11, <2>1
<1>13. W \in SUBSET Moves(k, b)
  BY <1>3 DEF MovesFrom
<1>14. ItxsSnapped(k, j, b, W, run)
  BY <1>10, <1>11, <1>12, <1>13, ItxsSnappedRows
<1> QED BY <1>1, <1>3, <1>6, <1>9, <1>14

-----------------------------------------------------------------------------
(* What the recalculations leave as it was.                                  *)

\* j has the rows of k, whatever their snapshots.
SameRows(k, j) ==
  /\ j.tx = k.tx /\ j.balance = k.balance
  /\ \A t \in Txs, c \in Budgets : j.alloc[t][c].amount = k.alloc[t][c].amount
  /\ \A i \in Itxs : SameItx(j.itx[i], k.itx[i]) /\ (j.itx[i] = NoItx <=> k.itx[i] = NoItx)

LEMMA SameRowsHeld ==
  ASSUME NEW k \in Books, NEW j \in Books, SameRows(k, j), NEW c \in Budgets
  PROVE  /\ Allocs(j, c) = Allocs(k, c) /\ Moves(j, c) = Moves(k, c)
         /\ Baseline(j, c) = Baseline(k, c)
         /\ \A t \in Txs : AtAlloc(j, c, t) = AtAlloc(k, c, t)
         /\ \A i \in Itxs : AtItx(j, c, i) = AtItx(k, c, i)
<1>1. /\ j.tx = k.tx /\ j.balance = k.balance
      /\ \A t \in Txs : j.alloc[t][c].amount = k.alloc[t][c].amount
      /\ \A i \in Itxs : /\ j.itx[i].src = k.itx[i].src /\ j.itx[i].dst = k.itx[i].dst
                         /\ j.itx[i].amount = k.itx[i].amount /\ j.itx[i].date = k.itx[i].date
                         /\ (j.itx[i] = NoItx <=> k.itx[i] = NoItx)
  BY DEF SameRows, SameItx
<1>2. Allocs(j, c) = Allocs(k, c)
  <2>1. \A t \in Txs : j.alloc[t][c] = NoAlloc <=> j.alloc[t][c].amount = 0
    BY BookRows
  <2>2. \A t \in Txs : k.alloc[t][c] = NoAlloc <=> k.alloc[t][c].amount = 0
    BY BookRows
  <2> QED BY <1>1, <2>1, <2>2 DEF Allocs
<1>3. Moves(j, c) = Moves(k, c)
  BY <1>1 DEF Moves
<1>4. \A S : AllocSum(j, c, S) = AllocSum(k, c, S)
  <2>1. [t \in Txs |-> j.alloc[t][c].amount] = [t \in Txs |-> k.alloc[t][c].amount]
    BY <1>1
  <2> QED BY <2>1 DEF AllocSum
<1>5. \A S : MoveSum(j, c, S) = MoveSum(k, c, S)
  <2>1. \A i \in Itxs : Moved(j, c, i) = Moved(k, c, i)
    BY <1>1 DEF Moved
  <2>2. [i \in Itxs |-> Moved(j, c, i)] = [i \in Itxs |-> Moved(k, c, i)]
    BY <2>1
  <2> QED BY <2>2 DEF MoveSum
<1>6. Baseline(j, c) = Baseline(k, c)
  BY <1>1, <1>2, <1>3, <1>4, <1>5 DEF Baseline
<1>7. \A s, t : TxBefore(j, s, t) <=> TxBefore(k, s, t)
  BY <1>1 DEF TxBefore
<1>8. \A h, i \in Itxs : ItxBefore(j, h, i) <=> ItxBefore(k, h, i)
  BY <1>1 DEF ItxBefore
<1>9. Allocs(k, c) \subseteq Txs /\ Moves(k, c) \subseteq Itxs
  BY EventSets
<1>10. ASSUME NEW t \in Txs PROVE AtAlloc(j, c, t) = AtAlloc(k, c, t)
  <2>1. {i \in Moves(j, c) : j.itx[i].date <= j.tx[t].date} = {i \in Moves(k, c) : k.itx[i].date <= k.tx[t].date}
    BY <1>1, <1>3, <1>9
  <2>2. {s \in Allocs(j, c) : s = t \/ TxBefore(j, s, t)} = {s \in Allocs(k, c) : s = t \/ TxBefore(k, s, t)}
    BY <1>2, <1>7
  <2> QED BY <1>4, <1>5, <1>6, <2>1, <2>2 DEF AtAlloc
<1>11. ASSUME NEW i \in Itxs PROVE AtItx(j, c, i) = AtItx(k, c, i)
  <2>1. {h \in Moves(j, c) : h = i \/ ItxBefore(j, h, i)} = {h \in Moves(k, c) : h = i \/ ItxBefore(k, h, i)}
    BY <1>3, <1>8, <1>9
  <2>2. {t \in Allocs(j, c) : j.tx[t].date < j.itx[i].date} = {t \in Allocs(k, c) : k.tx[t].date < k.itx[i].date}
    BY <1>1, <1>2
  <2> QED BY <1>4, <1>5, <1>6, <2>1, <2>2 DEF AtItx
<1> QED BY <1>2, <1>3, <1>6, <1>10, <1>11

\* j is k but for the snapshots of b's events.
Rewrites(k, j, b) ==
  /\ j \in Books /\ SameRows(k, j)
  /\ \A c \in Budgets \ {b} :
       /\ \A t \in Txs : j.alloc[t][c] = k.alloc[t][c]
       /\ \A i \in Moves(k, c) : Snap(j, c, i) = Snap(k, c, i)

LEMMA RewritesItself ==
  ASSUME NEW k \in Books, NEW b
  PROVE  Rewrites(k, k, b)
BY DEF Rewrites, SameRows, SameItx

LEMMA RewritesTwice ==
  ASSUME NEW k \in Books, NEW j, NEW r, NEW b, Rewrites(k, j, b), Rewrites(j, r, b)
  PROVE  Rewrites(k, r, b)
<1>1. j \in Books /\ r \in Books
  BY DEF Rewrites
<1>2. SameRows(k, r)
  BY DEF Rewrites, SameRows, SameItx
<1>3. ASSUME NEW c \in Budgets \ {b}
      PROVE  /\ \A t \in Txs : r.alloc[t][c] = k.alloc[t][c]
             /\ \A i \in Moves(k, c) : Snap(r, c, i) = Snap(k, c, i)
  <2>1. Moves(j, c) = Moves(k, c)
    BY <1>1, SameRowsHeld DEF Rewrites
  <2> QED BY <1>3, <2>1 DEF Rewrites
<1> QED BY <1>1, <1>2, <1>3 DEF Rewrites

RightAlloc(k, b, t) == k.alloc[t][b].snap = AtAlloc(k, b, t)
RightItx(k, b, i) == Snap(k, b, i) = AtItx(k, b, i)
\* Every snapshot of b is what b held, or every one at a date before D.
Right(k, b) ==
  /\ \A t \in Allocs(k, b) : RightAlloc(k, b, t)
  /\ \A i \in Moves(k, b) : RightItx(k, b, i)
RightBefore(k, b, D) ==
  /\ \A t \in Allocs(k, b) : k.tx[t].date < D => RightAlloc(k, b, t)
  /\ \A i \in Moves(k, b) : k.itx[i].date < D => RightItx(k, b, i)

\* If the snapshots of the allocations S are right, so is the last one.
LEMMA NoAllocOff ==
  ASSUME NEW k \in Books, NEW b \in Budgets, NEW S \in SUBSET Allocs(k, b),
         \A t \in S : RightAlloc(k, b, t)
  PROVE  AllocOff(k, b, S) = 0
<1>1. CASE S = {}
  BY <1>1 DEF AllocOff
<1>2. CASE S # {}
  <2>1. PICK p : p = LastOf(k, S)
    OBVIOUS
  <2>2. S \in SUBSET Txs
    BY EventSets
  <2>3. p \in S
    BY <1>2, <2>1, <2>2, FirstAndLast
  <2>4. k.alloc[p][b].snap = AtAlloc(k, b, p) /\ AtAlloc(k, b, p) \in Int
    BY <2>3, HeldInt DEF RightAlloc
  <2>5. AllocOff(k, b, S) = k.alloc[p][b].snap - AtAlloc(k, b, p)
    BY <1>2, <2>1 DEF AllocOff
  <2> QED BY <2>4, <2>5
<1> QED BY <1>1, <1>2

LEMMA RunAllocsRewrites ==
  ASSUME NEW k \in Books, NEW b \in Budgets, NEW t \in Txs, NEW j, j = RunAllocs(k, b, t)
  PROVE  /\ Rewrites(k, j, b) /\ j.itx = k.itx
         /\ \A s \in AllocsUntil(k, b, t) : j.alloc[s][b] = k.alloc[s][b]
         /\ (\A s \in AllocsUntil(k, b, t) : RightAlloc(k, b, s))
              => \A s \in Allocs(k, b) : RightAlloc(j, b, s)
<1>1. PICK P : P = AllocsUntil(k, b, t)
  OBVIOUS
<1>2. PICK F : F = AllocsFrom(k, b, t)
  OBVIOUS
<1>3. /\ j \in Books /\ j.tx = k.tx /\ j.itx = k.itx /\ j.balance = k.balance
      /\ \A s \in Txs, c \in Budgets :
           /\ j.alloc[s][c].amount = k.alloc[s][c].amount
           /\ c # b \/ s \notin F => j.alloc[s][c] = k.alloc[s][c]
      /\ \A s \in F : j.alloc[s][b].snap = AtAlloc(k, b, s) + AllocOff(k, b, P)
  <2>1. AllocsRerun(k, j, b, F, P)
    BY <1>1, <1>2, RunAllocsRows
  <2> QED BY <2>1 DEF AllocsRerun
<1>4. SameRows(k, j)
  BY <1>3 DEF SameRows, SameItx
<1>5. Rewrites(k, j, b)
  <2>1. ASSUME NEW c \in Budgets, NEW i \in Itxs PROVE Snap(j, c, i) = Snap(k, c, i)
    BY <1>3 DEF Snap
  <2>2. ASSUME NEW c \in Budgets \ {b}
        PROVE  /\ \A s \in Txs : j.alloc[s][c] = k.alloc[s][c]
               /\ \A i \in Moves(k, c) : Snap(j, c, i) = Snap(k, c, i)
    BY <1>3, <2>1, EventSets
  <2> QED BY <1>3, <1>4, <2>2 DEF Rewrites
<1>6. P \in SUBSET Txs /\ P \in SUBSET Allocs(k, b) /\ P \intersect F = {} /\ Allocs(k, b) = P \union F
  BY <1>1, <1>2, EventSets DEF AllocsUntil, AllocsFrom
<1>7. \A s \in P : j.alloc[s][b] = k.alloc[s][b]
  BY <1>3, <1>6
<1>8. ASSUME \A s \in P : RightAlloc(k, b, s), NEW s \in Allocs(k, b) PROVE RightAlloc(j, b, s)
  <2>1. s \in Txs
    BY EventSets
  <2>2. AtAlloc(j, b, s) = AtAlloc(k, b, s)
    BY <1>3, <1>4, <2>1, SameRowsHeld
  <2>3. AllocOff(k, b, P) = 0 /\ AtAlloc(k, b, s) \in Int
    BY <1>6, <1>8, NoAllocOff, HeldInt
  <2>4. CASE s \in P
    BY <1>7, <1>8, <2>2, <2>4 DEF RightAlloc
  <2>5. CASE s \in F
    <3>1. j.alloc[s][b].snap = AtAlloc(k, b, s) + AllocOff(k, b, P)
      BY <1>3, <2>5
    <3> QED BY <2>2, <2>3, <3>1 DEF RightAlloc
  <2> QED BY <1>6, <2>4, <2>5
<1> QED BY <1>1, <1>3, <1>5, <1>7, <1>8

LEMMA RunItxsRewrites ==
  ASSUME NEW k \in Books, NEW b \in Budgets, NEW D \in Nat, NEW j, j = RunItxs(k, b, D)
  PROVE  /\ Rewrites(k, j, b) /\ j.alloc = k.alloc
         /\ \A i \in Itxs \ MovesFrom(k, b, D) : j.itx[i] = k.itx[i]
         /\ (\A s \in Allocs(k, b) : k.tx[s].date < D => RightAlloc(k, b, s))
              => \A i \in MovesFrom(k, b, D) : RightItx(j, b, i)
<1>1. PICK W : W = MovesFrom(k, b, D)
  OBVIOUS
<1>2. PICK P : P = {s \in Allocs(k, b) : k.tx[s].date < D}
  OBVIOUS
<1>3. PICK run : /\ ItxsSnapped(k, j, b, W, run)
                 /\ \A i \in W : run[i] = AtItx(k, b, i) + AllocOff(k, b, P)
  BY <1>1, <1>2, RunItxsRows
<1>4. W \in SUBSET Itxs
  BY <1>1, EventSets DEF MovesFrom
<1>5. /\ j \in Books /\ j.tx = k.tx /\ j.alloc = k.alloc /\ j.balance = k.balance
      /\ \A i \in Itxs : SameItx(j.itx[i], k.itx[i]) /\ (j.itx[i] = NoItx <=> k.itx[i] = NoItx)
      /\ \A i \in Itxs \ W : j.itx[i] = k.itx[i]
      /\ \A i \in Itxs : \A c : c # b /\ i \in Moves(k, c) => Snap(j, c, i) = Snap(k, c, i)
      /\ \A i \in W : Snap(j, b, i) = run[i]
  BY <1>3 DEF ItxsSnapped
<1>6. SameRows(k, j)
  BY <1>5 DEF SameRows
<1>7. Rewrites(k, j, b)
  <2>1. ASSUME NEW c \in Budgets \ {b}, NEW i \in Moves(k, c) PROVE Snap(j, c, i) = Snap(k, c, i)
    BY <1>5, EventSets
  <2> QED BY <1>5, <1>6, <2>1 DEF Rewrites
<1>8. ASSUME \A s \in Allocs(k, b) : k.tx[s].date < D => RightAlloc(k, b, s), NEW i \in W
      PROVE  RightItx(j, b, i)
  <2>1. P \in SUBSET Allocs(k, b) /\ \A s \in P : RightAlloc(k, b, s)
    BY <1>2, <1>8
  <2>2. AllocOff(k, b, P) = 0
    BY <2>1, NoAllocOff
  <2>3. AtItx(j, b, i) = AtItx(k, b, i) /\ AtItx(k, b, i) \in Int
    BY <1>4, <1>5, <1>6, SameRowsHeld, HeldInt
  <2> QED BY <1>3, <1>5, <2>2, <2>3 DEF RightItx
<1> QED BY <1>1, <1>5, <1>7, <1>8

\* recalculate_from_transaction
LEMMA FromTx ==
  ASSUME NEW k \in Books, NEW b \in Budgets, NEW t \in Txs, NEW r,
         r = RecalculateFromTransaction(k, b, t), NEW D, D = k.tx[t].date
  PROVE  /\ Rewrites(k, r, b)
         /\ \A s \in AllocsUntil(k, b, t) : r.alloc[s][b] = k.alloc[s][b]
         /\ \A i \in Itxs \ MovesFrom(k, b, D) : r.itx[i] = k.itx[i]
         /\ /\ \A s \in AllocsUntil(k, b, t) : RightAlloc(k, b, s)
            /\ \A i \in Moves(k, b) : k.itx[i].date < D => RightItx(k, b, i)
            => Right(r, b)
<1>1. PICK j : j = RunAllocs(k, b, t)
  OBVIOUS
<1>2. r = RunItxs(j, b, D)
  BY <1>1 DEF RecalculateFromTransaction
<1>3. /\ Rewrites(k, j, b) /\ j.itx = k.itx
      /\ \A s \in AllocsUntil(k, b, t) : j.alloc[s][b] = k.alloc[s][b]
      /\ (\A s \in AllocsUntil(k, b, t) : RightAlloc(k, b, s))
           => \A s \in Allocs(k, b) : RightAlloc(j, b, s)
  BY <1>1, RunAllocsRewrites
<1>4. j \in Books /\ D \in Nat /\ SameRows(k, j)
  BY <1>3, BookRows DEF Rewrites
<1>5. /\ Rewrites(j, r, b) /\ r.alloc = j.alloc
      /\ \A i \in Itxs \ MovesFrom(j, b, D) : r.itx[i] = j.itx[i]
      /\ (\A s \in Allocs(j, b) : j.tx[s].date < D => RightAlloc(j, b, s))
           => \A i \in MovesFrom(j, b, D) : RightItx(r, b, i)
  BY <1>2, <1>4, RunItxsRewrites
<1>6. Allocs(j, b) = Allocs(k, b) /\ Moves(j, b) = Moves(k, b)
  BY <1>4, SameRowsHeld
<1>7. MovesFrom(j, b, D) = MovesFrom(k, b, D)
  BY <1>3, <1>6 DEF MovesFrom
<1>8. Rewrites(k, r, b)
  BY <1>3, <1>5, RewritesTwice
<1>9. ASSUME \A s \in AllocsUntil(k, b, t) : RightAlloc(k, b, s),
             \A i \in Moves(k, b) : k.itx[i].date < D => RightItx(k, b, i)
      PROVE  Right(r, b)
  <2>1. r \in Books /\ SameRows(j, r) /\ SameRows(k, r)
    BY <1>5, <1>8 DEF Rewrites
  <2>2. /\ Allocs(r, b) = Allocs(k, b) /\ Moves(r, b) = Moves(k, b)
        /\ \A i \in Itxs : AtItx(r, b, i) = AtItx(k, b, i)
    BY <2>1, SameRowsHeld
  <2>3. \A s \in Txs : AtAlloc(r, b, s) = AtAlloc(j, b, s)
    BY <1>4, <2>1, SameRowsHeld
  <2>4. ASSUME NEW s \in Allocs(r, b) PROVE RightAlloc(r, b, s)
    <3>1. s \in Txs /\ RightAlloc(j, b, s)
      BY <1>3, <1>9, <2>2, <2>4, EventSets
    <3> QED BY <1>5, <2>3, <3>1 DEF RightAlloc
  <2>5. ASSUME NEW i \in Moves(r, b) PROVE RightItx(r, b, i)
    <3>1. CASE i \in MovesFrom(k, b, D)
      BY <1>3, <1>5, <1>6, <1>7, <1>9, <3>1
    <3>2. CASE i \notin MovesFrom(k, b, D)
      <4>1. i \in Itxs /\ i \in Moves(k, b) /\ k.itx[i].date \in Nat /\ ~(k.itx[i].date >= D)
        BY <2>2, <3>2, EventSets, BookRows DEF MovesFrom
      <4>2. RightItx(k, b, i)
        BY <1>4, <1>9, <4>1
      <4>3. r.itx[i] = k.itx[i]
        BY <1>3, <1>5, <1>7, <3>2, <4>1
      <4> QED BY <2>2, <4>1, <4>2, <4>3 DEF RightItx, Snap
    <3> QED BY <3>1, <3>2
  <2> QED BY <2>4, <2>5 DEF Right
<1> QED BY <1>3, <1>5, <1>7, <1>8, <1>9

\* recalculate_from_dt
LEMMA FromDt ==
  ASSUME NEW k \in Books, NEW b \in Budgets, NEW D \in Nat, NEW r, r = RecalculateFromDt(k, b, D)
  PROVE  Rewrites(k, r, b) /\ (RightBefore(k, b, D) => Right(r, b))
<1>1. PICK S : S = {s \in Allocs(k, b) : k.tx[s].date >= D}
  OBVIOUS
<1>2. PICK j : j = IF S = {} THEN k ELSE RunAllocs(k, b, FirstOf(k, S))
  OBVIOUS
<1>3. r = RunItxs(j, b, D)
  BY <1>1, <1>2 DEF RecalculateFromDt
<1>4. \A s \in Allocs(k, b) : s \in Txs /\ k.tx[s].date \in Nat
  BY EventSets, BookRows
<1>5. /\ Rewrites(k, j, b) /\ j.itx = k.itx
      /\ (\A s \in Allocs(k, b) : k.tx[s].date < D => RightAlloc(k, b, s))
           => \A s \in Allocs(k, b) : RightAlloc(j, b, s)
  <2>1. CASE S = {}
    <3>1. \A s \in Allocs(k, b) : k.tx[s].date < D
      BY <1>1, <1>4, <2>1
    <3> QED BY <1>2, <2>1, <3>1, RewritesItself
  <2>2. CASE S # {}
    <3>1. PICK t : t = FirstOf(k, S)
      OBVIOUS
    <3>2. S \in SUBSET Txs
      BY <1>1, <1>4
    <3>3. t \in S /\ \A s \in S : s = t \/ TxBefore(k, t, s)
      BY <2>2, <3>1, <3>2, FirstAndLast
    <3>4. t \in Txs /\ j = RunAllocs(k, b, t)
      BY <1>2, <2>2, <3>1, <3>2, <3>3
    <3>5. /\ Rewrites(k, j, b) /\ j.itx = k.itx
          /\ (\A s \in AllocsUntil(k, b, t) : RightAlloc(k, b, s))
               => \A s \in Allocs(k, b) : RightAlloc(j, b, s)
      BY <3>4, RunAllocsRewrites
    <3>6. ASSUME NEW s \in AllocsUntil(k, b, t) PROVE s \in Allocs(k, b) /\ k.tx[s].date < D
      <4>1. s \in Allocs(k, b) /\ TxBefore(k, s, t)
        BY <3>6 DEF AllocsUntil
      <4>2. s \in Txs /\ k.tx[s].date \in Nat
        BY <1>4, <4>1
      <4>3. s \notin S
        BY <3>3, <3>4, <4>1, <4>2, TxTotal
      <4> QED BY <1>1, <4>1, <4>2, <4>3
    <3> QED BY <3>5, <3>6
  <2> QED BY <2>1, <2>2
<1>6. j \in Books /\ SameRows(k, j) /\ j.tx = k.tx
  BY <1>5 DEF Rewrites, SameRows
<1>7. /\ Rewrites(j, r, b) /\ r.alloc = j.alloc
      /\ \A i \in Itxs \ MovesFrom(j, b, D) : r.itx[i] = j.itx[i]
      /\ (\A s \in Allocs(j, b) : j.tx[s].date < D => RightAlloc(j, b, s))
           => \A i \in MovesFrom(j, b, D) : RightItx(r, b, i)
  BY <1>3, <1>6, RunItxsRewrites
<1>8. Allocs(j, b) = Allocs(k, b) /\ Moves(j, b) = Moves(k, b)
  BY <1>6, SameRowsHeld
<1>9. MovesFrom(j, b, D) = MovesFrom(k, b, D)
  BY <1>5, <1>8 DEF MovesFrom
<1>10. Rewrites(k, r, b)
  BY <1>5, <1>7, RewritesTwice
<1>11. ASSUME RightBefore(k, b, D) PROVE Right(r, b)
  <2>1. r \in Books /\ SameRows(j, r) /\ SameRows(k, r)
    BY <1>7, <1>10 DEF Rewrites
  <2>2. /\ Allocs(r, b) = Allocs(k, b) /\ Moves(r, b) = Moves(k, b)
        /\ \A i \in Itxs : AtItx(r, b, i) = AtItx(k, b, i)
    BY <2>1, SameRowsHeld
  <2>3. \A s \in Txs : AtAlloc(r, b, s) = AtAlloc(j, b, s)
    BY <1>6, <2>1, SameRowsHeld
  <2>4. \A s \in Allocs(k, b) : RightAlloc(j, b, s)
    BY <1>5, <1>11 DEF RightBefore
  <2>5. ASSUME NEW s \in Allocs(r, b) PROVE RightAlloc(r, b, s)
    <3>1. s \in Txs /\ RightAlloc(j, b, s)
      BY <2>2, <2>4, <2>5, EventSets
    <3> QED BY <1>7, <2>3, <3>1 DEF RightAlloc
  <2>6. ASSUME NEW i \in Moves(r, b) PROVE RightItx(r, b, i)
    <3>1. CASE i \in MovesFrom(k, b, D)
      BY <1>7, <1>8, <1>9, <2>4, <3>1
    <3>2. CASE i \notin MovesFrom(k, b, D)
      <4>1. i \in Itxs /\ i \in Moves(k, b) /\ k.itx[i].date \in Nat /\ ~(k.itx[i].date >= D)
        BY <2>2, <3>2, EventSets, BookRows DEF MovesFrom
      <4>2. RightItx(k, b, i)
        BY <1>11, <4>1 DEF RightBefore
      <4>3. r.itx[i] = k.itx[i]
        BY <1>5, <1>7, <1>9, <3>2, <4>1
      <4> QED BY <2>2, <4>1, <4>2, <4>3 DEF RightItx, Snap
    <3> QED BY <3>1, <3>2
  <2> QED BY <2>5, <2>6 DEF Right
<1> QED BY <1>10, <1>11

-----------------------------------------------------------------------------
(* Two books that agree on a budget, wholly or up to a date.                 *)

LEMMA AllocSumSame ==
  ASSUME NEW k \in Books, NEW j \in Books, NEW c \in Budgets, NEW S \in SUBSET Txs,
         \A t \in S : j.alloc[t][c].amount = k.alloc[t][c].amount
  PROVE  AllocSum(j, c, S) = AllocSum(k, c, S)
<1> DEFINE f == [t \in Txs |-> k.alloc[t][c].amount]
           g == [t \in Txs |-> j.alloc[t][c].amount]
<1>1. IsFiniteSet(S)
  BY RowsAssumption, FS_Subset
<1>2. \A t \in S : g[t] = f[t]
  OBVIOUS
<1>3. AllocSum(k, c, S) = SumFunctionOnSet(f, S) /\ AllocSum(j, c, S) = SumFunctionOnSet(g, S)
  BY DEF AllocSum
<1> HIDE DEF f, g
<1> QED BY <1>1, <1>2, <1>3, SumEqual

LEMMA MoveSumSame ==
  ASSUME NEW k \in Books, NEW j \in Books, NEW c, NEW S \in SUBSET Itxs,
         \A i \in S : SameItx(j.itx[i], k.itx[i])
  PROVE  MoveSum(j, c, S) = MoveSum(k, c, S)
<1> DEFINE f == [i \in Itxs |-> Moved(k, c, i)]
           g == [i \in Itxs |-> Moved(j, c, i)]
<1>1. IsFiniteSet(S)
  BY RowsAssumption, FS_Subset
<1>2. \A i \in S : g[i] = f[i]
  BY DEF Moved, SameItx
<1>3. MoveSum(k, c, S) = SumFunctionOnSet(f, S) /\ MoveSum(j, c, S) = SumFunctionOnSet(g, S)
  BY DEF MoveSum
<1> HIDE DEF f, g
<1> QED BY <1>1, <1>2, <1>3, SumEqual

\* A budget without a row of a transaction counts nothing for it.
LEMMA AllocSumAll ==
  ASSUME NEW k \in Books, NEW b \in Budgets
  PROVE  AllocSum(k, b, Allocs(k, b)) = AllocSum(k, b, Txs)
<1> DEFINE f == [t \in Txs |-> k.alloc[t][b].amount]
<1>1. IsFiniteSet(Txs) /\ Allocs(k, b) \in SUBSET Txs
  BY RowsAssumption, EventSets
<1>2. \A t \in Txs : f[t] \in Int
  BY BookRows
<1>3. \A t \in Txs : f[t] = IF t \in Allocs(k, b) THEN f[t] ELSE 0
  BY BookRows DEF Allocs
<1>4. /\ AllocSum(k, b, Txs) = SumFunctionOnSet(f, Txs)
      /\ AllocSum(k, b, Allocs(k, b)) = SumFunctionOnSet(f, Allocs(k, b))
  BY DEF AllocSum
<1> HIDE DEF f
<1> QED BY <1>1, <1>2, <1>3, <1>4, SumMask

\* t, or i, comes after the same moves M and the same allocations A of c.
AllocAfter(k, c, t, M, A) == /\ M = {i \in Moves(k, c) : k.itx[i].date <= k.tx[t].date}
                             /\ A = {s \in Allocs(k, c) : s = t \/ TxBefore(k, s, t)}
ItxAfter(k, c, i, M, A) == /\ M = {h \in Moves(k, c) : h = i \/ ItxBefore(k, h, i)}
                           /\ A = {t \in Allocs(k, c) : k.tx[t].date < k.itx[i].date}
SameAmounts(k, j, c, M, A) == /\ \A i \in M : SameItx(j.itx[i], k.itx[i])
                              /\ \A s \in A : j.alloc[s][c].amount = k.alloc[s][c].amount

LEMMA AtAllocIs ==
  ASSUME NEW k \in Books, NEW c \in Budgets, NEW t, NEW M, NEW A, AllocAfter(k, c, t, M, A)
  PROVE  /\ AtAlloc(k, c, t) = Baseline(k, c) + MoveSum(k, c, M) + AllocSum(k, c, A)
         /\ M \in SUBSET Itxs /\ A \in SUBSET Txs
<1>1. M \in SUBSET Itxs /\ A \in SUBSET Txs
  BY EventSets DEF AllocAfter
<1> QED BY <1>1 DEF AtAlloc, AllocAfter

LEMMA AtItxIs ==
  ASSUME NEW k \in Books, NEW c \in Budgets, NEW i, NEW M, NEW A, ItxAfter(k, c, i, M, A)
  PROVE  /\ AtItx(k, c, i) = Baseline(k, c) + MoveSum(k, c, M) + AllocSum(k, c, A)
         /\ M \in SUBSET Itxs /\ A \in SUBSET Txs
<1>1. M \in SUBSET Itxs /\ A \in SUBSET Txs
  BY EventSets DEF ItxAfter
<1> QED BY <1>1 DEF AtItx, ItxAfter

LEMMA SameSums ==
  ASSUME NEW k \in Books, NEW j \in Books, NEW c \in Budgets,
         NEW M \in SUBSET Itxs, NEW A \in SUBSET Txs, SameAmounts(k, j, c, M, A)
  PROVE  MoveSum(j, c, M) = MoveSum(k, c, M) /\ AllocSum(j, c, A) = AllocSum(k, c, A)
<1>1. AllocSum(j, c, A) = AllocSum(k, c, A)
  BY AllocSumSame DEF SameAmounts
<1>2. MoveSum(j, c, M) = MoveSum(k, c, M)
  BY MoveSumSame DEF SameAmounts
<1> QED BY <1>1, <1>2

LEMMA AtAllocSame ==
  ASSUME NEW k \in Books, NEW j \in Books, NEW c \in Budgets, NEW t, NEW M, NEW A,
         Baseline(j, c) = Baseline(k, c), AllocAfter(k, c, t, M, A), AllocAfter(j, c, t, M, A),
         SameAmounts(k, j, c, M, A)
  PROVE  AtAlloc(j, c, t) = AtAlloc(k, c, t)
<1>1. /\ AtAlloc(k, c, t) = Baseline(k, c) + MoveSum(k, c, M) + AllocSum(k, c, A)
      /\ M \in SUBSET Itxs /\ A \in SUBSET Txs
  BY AtAllocIs
<1>2. AtAlloc(j, c, t) = Baseline(j, c) + MoveSum(j, c, M) + AllocSum(j, c, A)
  BY AtAllocIs
<1> QED BY <1>1, <1>2, SameSums

LEMMA AtItxSame ==
  ASSUME NEW k \in Books, NEW j \in Books, NEW c \in Budgets, NEW i, NEW M, NEW A,
         Baseline(j, c) = Baseline(k, c), ItxAfter(k, c, i, M, A), ItxAfter(j, c, i, M, A),
         SameAmounts(k, j, c, M, A)
  PROVE  AtItx(j, c, i) = AtItx(k, c, i)
<1>1. /\ AtItx(k, c, i) = Baseline(k, c) + MoveSum(k, c, M) + AllocSum(k, c, A)
      /\ M \in SUBSET Itxs /\ A \in SUBSET Txs
  BY AtItxIs
<1>2. AtItx(j, c, i) = Baseline(j, c) + MoveSum(j, c, M) + AllocSum(j, c, A)
  BY AtItxIs
<1> QED BY <1>1, <1>2, SameSums

\* c has the same events, with the same snapshots, at the dates before D.
SameAllocsUpTo(k, j, c, D) ==
  \A t \in Txs : /\ (t \in Allocs(j, c) /\ j.tx[t].date < D) <=> (t \in Allocs(k, c) /\ k.tx[t].date < D)
                 /\ t \in Allocs(k, c) /\ k.tx[t].date < D =>
                      j.tx[t].date = k.tx[t].date /\ j.alloc[t][c] = k.alloc[t][c]
SameMovesUpTo(k, j, c, D) ==
  \A i \in Itxs : /\ (i \in Moves(j, c) /\ j.itx[i].date < D) <=> (i \in Moves(k, c) /\ k.itx[i].date < D)
                  /\ i \in Moves(k, c) /\ k.itx[i].date < D =>
                       SameItx(j.itx[i], k.itx[i]) /\ Snap(j, c, i) = Snap(k, c, i)
SameUpTo(k, j, c, D) ==
  Baseline(j, c) = Baseline(k, c) /\ SameAllocsUpTo(k, j, c, D) /\ SameMovesUpTo(k, j, c, D)

LEMMA UpToAlloc ==
  ASSUME NEW k \in Books, NEW j \in Books, NEW c \in Budgets, NEW D \in Nat, SameUpTo(k, j, c, D),
         NEW t \in Allocs(k, c), k.tx[t].date < D
  PROVE  AtAlloc(j, c, t) = AtAlloc(k, c, t)
<1>1. /\ Baseline(j, c) = Baseline(k, c) /\ SameAllocsUpTo(k, j, c, D) /\ SameMovesUpTo(k, j, c, D)
  BY DEF SameUpTo
<1>2. /\ t \in Txs /\ k.tx[t].date \in Nat /\ j.tx[t].date = k.tx[t].date
      /\ Allocs(k, c) \subseteq Txs /\ Allocs(j, c) \subseteq Txs
      /\ Moves(k, c) \subseteq Itxs /\ Moves(j, c) \subseteq Itxs
  BY <1>1, EventSets, BookRows DEF SameAllocsUpTo
<1>3. PICK M : M = {i \in Moves(k, c) : k.itx[i].date <= k.tx[t].date}
  OBVIOUS
<1>4. PICK A : A = {s \in Allocs(k, c) : s = t \/ TxBefore(k, s, t)}
  OBVIOUS
<1>5. ASSUME NEW i \in Itxs
      PROVE  /\ (i \in Moves(j, c) /\ j.itx[i].date <= j.tx[t].date) <=> i \in M
             /\ i \in M => SameItx(j.itx[i], k.itx[i])
  <2>1. k.itx[i].date \in Nat /\ j.itx[i].date \in Nat
    BY BookRows
  <2>2. /\ (i \in Moves(j, c) /\ j.itx[i].date < D) <=> (i \in Moves(k, c) /\ k.itx[i].date < D)
        /\ i \in Moves(k, c) /\ k.itx[i].date < D =>
             SameItx(j.itx[i], k.itx[i]) /\ Snap(j, c, i) = Snap(k, c, i)
    BY <1>1 DEF SameMovesUpTo
  <2>3. i \in M <=> i \in Moves(k, c) /\ k.itx[i].date <= k.tx[t].date
    BY <1>3
  <2> QED BY <1>2, <2>1, <2>2, <2>3 DEF SameItx
<1>6. M = {i \in Moves(j, c) : j.itx[i].date <= j.tx[t].date} /\ \A i \in M : SameItx(j.itx[i], k.itx[i])
  BY <1>2, <1>3, <1>5
<1>7. ASSUME NEW s \in Txs
      PROVE  /\ (s \in Allocs(j, c) /\ (s = t \/ TxBefore(j, s, t))) <=> s \in A
             /\ s \in A => j.alloc[s][c].amount = k.alloc[s][c].amount
  <2>1. k.tx[s].date \in Nat /\ j.tx[s].date \in Nat
    BY BookRows
  <2>2. /\ (s \in Allocs(j, c) /\ j.tx[s].date < D) <=> (s \in Allocs(k, c) /\ k.tx[s].date < D)
        /\ s \in Allocs(k, c) /\ k.tx[s].date < D =>
             j.tx[s].date = k.tx[s].date /\ j.alloc[s][c] = k.alloc[s][c]
    BY <1>1 DEF SameAllocsUpTo
  <2>3. s \in A <=> s \in Allocs(k, c) /\ (s = t \/ TxBefore(k, s, t))
    BY <1>4
  <2> QED BY <1>2, <2>1, <2>2, <2>3 DEF TxBefore
<1>8. A = {s \in Allocs(j, c) : s = t \/ TxBefore(j, s, t)}
      /\ \A s \in A : j.alloc[s][c].amount = k.alloc[s][c].amount
  BY <1>2, <1>4, <1>7
<1>9. AllocAfter(k, c, t, M, A) /\ AllocAfter(j, c, t, M, A) /\ SameAmounts(k, j, c, M, A)
  BY <1>3, <1>4, <1>6, <1>8 DEF AllocAfter, SameAmounts
<1> QED BY <1>1, <1>9, AtAllocSame

LEMMA UpToItx ==
  ASSUME NEW k \in Books, NEW j \in Books, NEW c \in Budgets, NEW D \in Nat, SameUpTo(k, j, c, D),
         NEW i \in Moves(k, c), k.itx[i].date < D
  PROVE  AtItx(j, c, i) = AtItx(k, c, i)
<1>1. /\ Baseline(j, c) = Baseline(k, c) /\ SameAllocsUpTo(k, j, c, D) /\ SameMovesUpTo(k, j, c, D)
  BY DEF SameUpTo
<1>2. /\ i \in Itxs /\ k.itx[i].date \in Nat /\ j.itx[i].date = k.itx[i].date
      /\ Allocs(k, c) \subseteq Txs /\ Allocs(j, c) \subseteq Txs
      /\ Moves(k, c) \subseteq Itxs /\ Moves(j, c) \subseteq Itxs
  BY <1>1, EventSets, BookRows DEF SameMovesUpTo, SameItx
<1>3. PICK M : M = {h \in Moves(k, c) : h = i \/ ItxBefore(k, h, i)}
  OBVIOUS
<1>4. PICK A : A = {t \in Allocs(k, c) : k.tx[t].date < k.itx[i].date}
  OBVIOUS
<1>5. ASSUME NEW h \in Itxs
      PROVE  /\ (h \in Moves(j, c) /\ (h = i \/ ItxBefore(j, h, i))) <=> h \in M
             /\ h \in M => SameItx(j.itx[h], k.itx[h])
  <2>1. k.itx[h].date \in Nat /\ j.itx[h].date \in Nat
    BY BookRows
  <2>2. /\ (h \in Moves(j, c) /\ j.itx[h].date < D) <=> (h \in Moves(k, c) /\ k.itx[h].date < D)
        /\ h \in Moves(k, c) /\ k.itx[h].date < D =>
             SameItx(j.itx[h], k.itx[h]) /\ Snap(j, c, h) = Snap(k, c, h)
    BY <1>1 DEF SameMovesUpTo
  <2>3. h \in M <=> h \in Moves(k, c) /\ (h = i \/ ItxBefore(k, h, i))
    BY <1>3
  <2>4. SameItx(j.itx[h], k.itx[h]) => j.itx[h].date = k.itx[h].date
    BY DEF SameItx
  <2> QED BY <1>2, <2>1, <2>2, <2>3, <2>4 DEF ItxBefore
<1>6. M = {h \in Moves(j, c) : h = i \/ ItxBefore(j, h, i)} /\ \A h \in M : SameItx(j.itx[h], k.itx[h])
  BY <1>2, <1>3, <1>5
<1>7. ASSUME NEW t \in Txs
      PROVE  /\ (t \in Allocs(j, c) /\ j.tx[t].date < j.itx[i].date) <=> t \in A
             /\ t \in A => j.alloc[t][c].amount = k.alloc[t][c].amount
  <2>1. k.tx[t].date \in Nat /\ j.tx[t].date \in Nat
    BY BookRows
  <2>2. /\ (t \in Allocs(j, c) /\ j.tx[t].date < D) <=> (t \in Allocs(k, c) /\ k.tx[t].date < D)
        /\ t \in Allocs(k, c) /\ k.tx[t].date < D =>
             j.tx[t].date = k.tx[t].date /\ j.alloc[t][c] = k.alloc[t][c]
    BY <1>1 DEF SameAllocsUpTo
  <2>3. t \in A <=> t \in Allocs(k, c) /\ k.tx[t].date < k.itx[i].date
    BY <1>4
  <2> QED BY <1>2, <2>1, <2>2, <2>3
<1>8. A = {t \in Allocs(j, c) : j.tx[t].date < j.itx[i].date}
      /\ \A t \in A : j.alloc[t][c].amount = k.alloc[t][c].amount
  BY <1>2, <1>4, <1>7
<1>9. ItxAfter(k, c, i, M, A) /\ ItxAfter(j, c, i, M, A) /\ SameAmounts(k, j, c, M, A)
  BY <1>3, <1>4, <1>6, <1>8 DEF ItxAfter, SameAmounts
<1> QED BY <1>1, <1>9, AtItxSame

LEMMA UpToRight ==
  ASSUME NEW k \in Books, NEW j \in Books, NEW c \in Budgets, NEW D \in Nat, SameUpTo(k, j, c, D),
         RightBefore(k, c, D)
  PROVE  RightBefore(j, c, D)
<1>1. ASSUME NEW t \in Allocs(j, c), j.tx[t].date < D PROVE RightAlloc(j, c, t)
  <2>1. t \in Allocs(k, c) /\ k.tx[t].date < D /\ j.alloc[t][c] = k.alloc[t][c]
    BY <1>1, EventSets DEF SameUpTo, SameAllocsUpTo
  <2>2. AtAlloc(j, c, t) = AtAlloc(k, c, t)
    BY <2>1, UpToAlloc
  <2> QED BY <2>1, <2>2 DEF RightBefore, RightAlloc
<1>2. ASSUME NEW i \in Moves(j, c), j.itx[i].date < D PROVE RightItx(j, c, i)
  <2>1. i \in Moves(k, c) /\ k.itx[i].date < D /\ Snap(j, c, i) = Snap(k, c, i)
    BY <1>2, EventSets DEF SameUpTo, SameMovesUpTo
  <2>2. AtItx(j, c, i) = AtItx(k, c, i)
    BY <2>1, UpToItx
  <2> QED BY <2>1, <2>2 DEF RightBefore, RightItx
<1> QED BY <1>1, <1>2 DEF RightBefore

LEMMA RightAlways ==
  ASSUME NEW k \in Books, NEW c \in Budgets
  PROVE  Right(k, c) <=> \A D \in Nat : RightBefore(k, c, D)
<1>1. ASSUME \A D \in Nat : RightBefore(k, c, D) PROVE Right(k, c)
  <2>1. ASSUME NEW t \in Allocs(k, c) PROVE RightAlloc(k, c, t)
    <3>1. k.tx[t].date \in Nat
      BY EventSets, BookRows
    <3>2. k.tx[t].date + 1 \in Nat /\ k.tx[t].date < k.tx[t].date + 1
      BY <3>1
    <3> QED BY <1>1, <3>2 DEF RightBefore
  <2>2. ASSUME NEW i \in Moves(k, c) PROVE RightItx(k, c, i)
    <3>1. k.itx[i].date \in Nat
      BY EventSets, BookRows
    <3>2. k.itx[i].date + 1 \in Nat /\ k.itx[i].date < k.itx[i].date + 1
      BY <3>1
    <3> QED BY <1>1, <3>2 DEF RightBefore
  <2> QED BY <2>1, <2>2 DEF Right
<1>2. Right(k, c) => \A D \in Nat : RightBefore(k, c, D)
  BY DEF Right, RightBefore
<1> QED BY <1>1, <1>2

\* c has the same events and balance, with the same snapshots.
SameFor(k, j, c) ==
  /\ Allocs(j, c) = Allocs(k, c) /\ Moves(j, c) = Moves(k, c) /\ j.balance[c] = k.balance[c]
  /\ \A t \in Allocs(k, c) : j.tx[t].date = k.tx[t].date /\ j.alloc[t][c] = k.alloc[t][c]
  /\ \A i \in Moves(k, c) : SameItx(j.itx[i], k.itx[i]) /\ Snap(j, c, i) = Snap(k, c, i)

LEMMA SameForUpTo ==
  ASSUME NEW k \in Books, NEW j \in Books, NEW c \in Budgets, SameFor(k, j, c)
  PROVE  /\ Baseline(j, c) = Baseline(k, c)
         /\ \A D \in Nat : SameUpTo(k, j, c, D)
         /\ Right(k, c) => Right(j, c)
<1>1. /\ Allocs(j, c) = Allocs(k, c) /\ Moves(j, c) = Moves(k, c) /\ j.balance[c] = k.balance[c]
      /\ \A t \in Allocs(k, c) : j.tx[t].date = k.tx[t].date /\ j.alloc[t][c] = k.alloc[t][c]
      /\ \A i \in Moves(k, c) : SameItx(j.itx[i], k.itx[i]) /\ Snap(j, c, i) = Snap(k, c, i)
  BY DEF SameFor
<1>2. Baseline(j, c) = Baseline(k, c)
  <2>1. Allocs(k, c) \in SUBSET Txs /\ Moves(k, c) \in SUBSET Itxs
    BY EventSets
  <2>2. AllocSum(j, c, Allocs(k, c)) = AllocSum(k, c, Allocs(k, c))
    BY <1>1, <2>1, AllocSumSame
  <2>3. MoveSum(j, c, Moves(k, c)) = MoveSum(k, c, Moves(k, c))
    BY <1>1, <2>1, MoveSumSame
  <2> QED BY <1>1, <2>2, <2>3 DEF Baseline
<1>3. ASSUME NEW D \in Nat PROVE SameUpTo(k, j, c, D)
  <2>1. SameAllocsUpTo(k, j, c, D)
    BY <1>1 DEF SameAllocsUpTo
  <2>2. SameMovesUpTo(k, j, c, D)
    BY <1>1 DEF SameMovesUpTo, SameItx
  <2> QED BY <1>2, <2>1, <2>2 DEF SameUpTo
<1>4. ASSUME Right(k, c) PROVE Right(j, c)
  <2>1. \A D \in Nat : RightBefore(j, c, D)
    BY <1>3, <1>4, UpToRight, RightAlways
  <2> QED BY <2>1, RightAlways
<1> QED BY <1>2, <1>3, <1>4

LEMMA RewritesOthers ==
  ASSUME NEW k \in Books, NEW j, NEW b, Rewrites(k, j, b), NEW c \in Budgets \ {b}
  PROVE  SameFor(k, j, c)
<1>1. j \in Books /\ SameRows(k, j)
  BY DEF Rewrites
<1>2. Allocs(j, c) = Allocs(k, c) /\ Moves(j, c) = Moves(k, c)
  BY <1>1, SameRowsHeld
<1>3. /\ Allocs(k, c) \subseteq Txs /\ Moves(k, c) \subseteq Itxs
  BY EventSets
<1> QED BY <1>2, <1>3 DEF SameFor, Rewrites, SameRows

-----------------------------------------------------------------------------
(* transaction_allocation.create, update_amount and delete.                  *)

\* j is k with n for the amount of t's row for b, before the recalculation.
Paid(k, j, t, b, n) ==
  /\ j \in Books /\ j.tx = k.tx /\ j.itx = k.itx
  /\ j.balance[b] = k.balance[b] - k.alloc[t][b].amount + n
  /\ \A c \in Budgets \ {b} : j.balance[c] = k.balance[c]
  /\ \A s \in Txs, c \in Budgets : s # t \/ c # b => j.alloc[s][c] = k.alloc[s][c]
  /\ j.alloc[t][b].amount = n

LEMMA PaidRows ==
  ASSUME NEW k \in Books, NEW t \in Txs, NEW b \in Budgets, NEW n \in Int,
         NEW row, row = IF n = 0 THEN NoAlloc ELSE [k.alloc[t][b] EXCEPT !.amount = n],
         NEW j, j = [k EXCEPT !.balance[b] = @ - k.alloc[t][b].amount + n, !.alloc[t][b] = row]
  PROVE  Paid(k, j, t, b, n)
<1>1. k.alloc[t][b] \in [amount : Int, snap : Int] /\ k.alloc[t][b].amount \in Int /\ k.balance[b] \in Int
  BY BookRows DEF AllocRow
<1>2. row \in AllocRow /\ row.amount = n
  <2>1. CASE n = 0
    BY <2>1 DEF AllocRow, NoAlloc
  <2>2. CASE n # 0
    BY <1>1, <2>2 DEF AllocRow
  <2> QED BY <2>1, <2>2
<1>3. /\ k.tx \in [Txs -> TxRow] /\ k.alloc \in [Txs -> [Budgets -> AllocRow]]
      /\ k.itx \in [Itxs -> ItxRow] /\ k.balance \in [Budgets -> Int]
  BY DEF Books
<1> DEFINE B == [k.balance EXCEPT ![b] = k.balance[b] - k.alloc[t][b].amount + n]
           A == [k.alloc EXCEPT ![t] = [k.alloc[t] EXCEPT ![b] = row]]
<1>4. j = [k EXCEPT !.balance = B, !.alloc = A]
  BY <1>3 DEF Books
<1>5. B \in [Budgets -> Int] /\ B[b] = k.balance[b] - k.alloc[t][b].amount + n
      /\ \A c \in Budgets \ {b} : B[c] = k.balance[c]
  BY <1>1, <1>3
<1>6. A \in [Txs -> [Budgets -> AllocRow]] /\ A[t][b] = row
      /\ \A s \in Txs, c \in Budgets : s # t \/ c # b => A[s][c] = k.alloc[s][c]
  BY <1>2, <1>3
<1> HIDE DEF A, B
<1>7. j \in Books /\ j.tx = k.tx /\ j.itx = k.itx /\ j.balance = B /\ j.alloc = A
  BY <1>4, <1>5, <1>6 DEF Books
<1> QED BY <1>2, <1>5, <1>6, <1>7 DEF Paid

LEMMA PaidBaseline ==
  ASSUME NEW k \in Books, NEW t \in Txs, NEW b \in Budgets, NEW n \in Int, NEW j, Paid(k, j, t, b, n)
  PROVE  Baseline(j, b) = Baseline(k, b)
<1>1. /\ j \in Books /\ j.itx = k.itx /\ j.balance[b] = k.balance[b] - k.alloc[t][b].amount + n
      /\ \A s \in Txs \ {t} : j.alloc[s][b] = k.alloc[s][b]
      /\ j.alloc[t][b].amount = n
  BY DEF Paid
<1> DEFINE f == [s \in Txs |-> k.alloc[s][b].amount]
           g == [s \in Txs |-> j.alloc[s][b].amount]
<1>2. /\ \A s \in Txs : f[s] \in Int /\ g[s] \in Int
      /\ \A s \in Txs \ {t} : g[s] = f[s]
      /\ g[t] = n /\ f[t] = k.alloc[t][b].amount
  BY <1>1, BookRows
<1>3. AllocSum(k, b, Txs) = SumFunctionOnSet(f, Txs) /\ AllocSum(j, b, Txs) = SumFunctionOnSet(g, Txs)
  BY DEF AllocSum
<1>4. IsFiniteSet(Txs)
  BY RowsAssumption
<1> HIDE DEF f, g
<1>5. SumFunctionOnSet(g, Txs) = SumFunctionOnSet(f, Txs) + (g[t] - f[t])
  <2>1. (\A s \in Txs : f[s] \in Int) /\ g[t] \in Int
    BY <1>2
  <2>2. \A s \in Txs \ {t} : g[s] = f[s]
    BY <1>2
  <2> QED BY <1>4, <2>1, <2>2, SumChangeOne
<1>6. /\ AllocSum(k, b, Allocs(k, b)) = AllocSum(k, b, Txs)
      /\ AllocSum(j, b, Allocs(j, b)) = AllocSum(j, b, Txs)
  BY <1>1, AllocSumAll
<1>7. MoveSum(j, b, Moves(j, b)) = MoveSum(k, b, Moves(k, b))
  BY <1>1 DEF MoveSum, Moves, Moved
<1>8. AllocSum(k, b, Txs) \in Int /\ MoveSum(k, b, Moves(k, b)) \in Int
  BY AllocSums, MoveSums, EventSets
<1>9. k.balance[b] \in Int /\ k.alloc[t][b].amount \in Int
  BY BookRows
<1>10. /\ Baseline(k, b) = k.balance[b] - AllocSum(k, b, Allocs(k, b)) - MoveSum(k, b, Moves(k, b))
       /\ Baseline(j, b) = j.balance[b] - AllocSum(j, b, Allocs(j, b)) - MoveSum(j, b, Moves(j, b))
  BY DEF Baseline
<1> QED BY <1>1, <1>2, <1>3, <1>5, <1>6, <1>7, <1>8, <1>9, <1>10

LEMMA PaidOthers ==
  ASSUME NEW k \in Books, NEW t \in Txs, NEW b \in Budgets, NEW n \in Int, NEW j, Paid(k, j, t, b, n),
         NEW c \in Budgets \ {b}
  PROVE  SameFor(k, j, c)
<1>1. /\ j \in Books /\ j.tx = k.tx /\ j.itx = k.itx /\ j.balance[c] = k.balance[c]
      /\ \A s \in Txs : j.alloc[s][c] = k.alloc[s][c]
  BY DEF Paid
<1>2. Allocs(j, c) = Allocs(k, c) /\ Moves(j, c) = Moves(k, c) /\ Allocs(k, c) \subseteq Txs
  BY <1>1 DEF Allocs, Moves
<1> QED BY <1>1, <1>2 DEF SameFor, SameItx, Snap

\* The events before t are as they were.
LEMMA PaidUpTo ==
  ASSUME NEW k \in Books, NEW t \in Txs, NEW b \in Budgets, NEW n \in Int, NEW j, Paid(k, j, t, b, n),
         NEW D \in Nat, D <= k.tx[t].date
  PROVE  SameUpTo(k, j, b, D)
<1>1. /\ j \in Books /\ j.tx = k.tx /\ j.itx = k.itx
      /\ \A s \in Txs \ {t} : j.alloc[s][b] = k.alloc[s][b]
  BY DEF Paid
<1>2. SameAllocsUpTo(k, j, b, D)
  <2>1. ~(k.tx[t].date < D)
    BY BookRows
  <2> QED BY <1>1, <2>1 DEF SameAllocsUpTo, Allocs
<1>3. SameMovesUpTo(k, j, b, D)
  BY <1>1 DEF SameMovesUpTo, Moves, SameItx, Snap
<1> QED BY <1>2, <1>3, PaidBaseline DEF SameUpTo

LEMMA PaidUntil ==
  ASSUME NEW k \in Books, NEW t \in Txs, NEW b \in Budgets, NEW n \in Int, NEW j, Paid(k, j, t, b, n)
  PROVE  \A s \in AllocsUntil(j, b, t) : s \in Allocs(k, b) /\ (RightAlloc(k, b, s) => RightAlloc(j, b, s))
<1>1. /\ j \in Books /\ j.tx = k.tx /\ j.itx = k.itx
      /\ \A s \in Txs \ {t} : j.alloc[s][b] = k.alloc[s][b]
  BY DEF Paid
<1>2. /\ \A x \in Txs : ~TxBefore(k, x, x)
      /\ \A x, y, z \in Txs : TxBefore(k, x, y) /\ TxBefore(k, y, z) => TxBefore(k, x, z)
  BY TxTotal
<1>3. \A x, y : TxBefore(j, x, y) <=> TxBefore(k, x, y)
  BY <1>1 DEF TxBefore
<1> SUFFICES ASSUME NEW s \in AllocsUntil(j, b, t)
             PROVE  s \in Allocs(k, b) /\ (RightAlloc(k, b, s) => RightAlloc(j, b, s))
    OBVIOUS
<1>4. s \in Txs /\ s # t /\ s \in Allocs(j, b) /\ TxBefore(k, s, t)
  BY <1>2, <1>3, EventSets DEF AllocsUntil
<1>5. s \in Allocs(k, b) /\ j.alloc[s][b] = k.alloc[s][b]
  BY <1>1, <1>4 DEF Allocs
<1>6. PICK M : M = {i \in Moves(k, b) : k.itx[i].date <= k.tx[s].date}
  OBVIOUS
<1>7. PICK A : A = {x \in Allocs(k, b) : x = s \/ TxBefore(k, x, s)}
  OBVIOUS
<1>8. t \notin A
  BY <1>2, <1>4, <1>7
<1>9. M = {i \in Moves(j, b) : j.itx[i].date <= j.tx[s].date}
  BY <1>1, <1>6 DEF Moves
<1>10. \A x \in Txs : x \in A <=> x \in Allocs(j, b) /\ (x = s \/ TxBefore(j, x, s))
  <2>1. ~(t = s \/ TxBefore(k, t, s))
    BY <1>2, <1>4
  <2> QED BY <1>1, <1>3, <1>7, <2>1 DEF Allocs
<1>11. Allocs(j, b) \subseteq Txs /\ A \subseteq Txs
  BY <1>7, EventSets
<1>12. A = {x \in Allocs(j, b) : x = s \/ TxBefore(j, x, s)}
  BY <1>10, <1>11
<1>13. AllocAfter(k, b, s, M, A) /\ AllocAfter(j, b, s, M, A)
  BY <1>6, <1>7, <1>9, <1>12 DEF AllocAfter
<1>14. SameAmounts(k, j, b, M, A)
  BY <1>1, <1>8, <1>11 DEF SameAmounts, SameItx
<1>15. AtAlloc(j, b, s) = AtAlloc(k, b, s)
  BY <1>1, <1>13, <1>14, PaidBaseline, AtAllocSame
<1> QED BY <1>5, <1>15 DEF RightAlloc

\* r is k with n for the amount of t's row for b: the rows are the same but for
\* it and the snapshots, and what was right still is.
AllocSet(k, r, t, b, n) ==
  /\ r \in Books /\ r.tx = k.tx
  /\ \A s \in Txs, c \in Budgets :
       r.alloc[s][c].amount = IF s = t /\ c = b THEN n ELSE k.alloc[s][c].amount
  /\ \A i \in Itxs : SameItx(r.itx[i], k.itx[i]) /\ (r.itx[i] = NoItx <=> k.itx[i] = NoItx)
  /\ \A c \in Budgets : Baseline(r, c) = Baseline(k, c) /\ (Right(k, c) => Right(r, c))
  /\ \A D \in Nat : D <= k.tx[t].date /\ RightBefore(k, b, D) => RightBefore(r, b, D)

LEMMA SetAllocRows ==
  ASSUME NEW k \in Books, NEW t \in Txs, NEW b \in Budgets, NEW n \in Int, NEW r, r = SetAlloc(k, t, b, n)
  PROVE  AllocSet(k, r, t, b, n)
<1>1. PICK row : row = IF n = 0 THEN NoAlloc ELSE [k.alloc[t][b] EXCEPT !.amount = n]
  OBVIOUS
<1>2. PICK j : j = [k EXCEPT !.balance[b] = @ - k.alloc[t][b].amount + n, !.alloc[t][b] = row]
  OBVIOUS
<1>3. Paid(k, j, t, b, n)
  BY <1>1, <1>2, PaidRows
<1>4. r = RecalculateFromTransaction(j, b, t)
  BY <1>1, <1>2 DEF SetAlloc
<1>5. PICK D : D = k.tx[t].date
  OBVIOUS
<1>6. /\ j \in Books /\ j.tx = k.tx /\ j.itx = k.itx /\ D = j.tx[t].date /\ D \in Nat
      /\ \A s \in Txs, c \in Budgets : s # t \/ c # b => j.alloc[s][c] = k.alloc[s][c]
      /\ j.alloc[t][b].amount = n
  BY <1>3, <1>5, BookRows DEF Paid
<1>7. /\ Rewrites(j, r, b)
      /\ \A s \in AllocsUntil(j, b, t) : r.alloc[s][b] = j.alloc[s][b]
      /\ \A i \in Itxs \ MovesFrom(j, b, D) : r.itx[i] = j.itx[i]
      /\ /\ \A s \in AllocsUntil(j, b, t) : RightAlloc(j, b, s)
         /\ \A i \in Moves(j, b) : j.itx[i].date < D => RightItx(j, b, i)
         => Right(r, b)
  BY <1>4, <1>6, FromTx
<1>8. r \in Books /\ SameRows(j, r)
  BY <1>7 DEF Rewrites
<1>9. r.tx = k.tx /\ \A s \in Txs, c \in Budgets :
        r.alloc[s][c].amount = IF s = t /\ c = b THEN n ELSE k.alloc[s][c].amount
  BY <1>6, <1>8 DEF SameRows
<1>10. \A i \in Itxs : SameItx(r.itx[i], k.itx[i]) /\ (r.itx[i] = NoItx <=> k.itx[i] = NoItx)
  BY <1>6, <1>8 DEF SameRows
<1>11. ASSUME NEW c \in Budgets, c # b
       PROVE  Baseline(r, c) = Baseline(k, c) /\ (Right(k, c) => Right(r, c))
  <2>1. Baseline(j, c) = Baseline(k, c) /\ (Right(k, c) => Right(j, c))
    BY <1>3, <1>6, <1>11, PaidOthers, SameForUpTo
  <2>2. SameFor(j, r, c)
    BY <1>6, <1>7, <1>11, RewritesOthers
  <2>3. Baseline(r, c) = Baseline(j, c) /\ (Right(j, c) => Right(r, c))
    BY <1>6, <1>8, <2>2, SameForUpTo
  <2> QED BY <2>1, <2>3
<1>12. Baseline(r, b) = Baseline(k, b)
  BY <1>3, <1>6, <1>8, PaidBaseline, SameRowsHeld
<1>13. ASSUME NEW E \in Nat, E <= D, RightBefore(k, b, E) PROVE RightBefore(j, b, E)
  <2>1. SameUpTo(k, j, b, E)
    BY <1>3, <1>5, <1>13, PaidUpTo
  <2> QED BY <1>6, <1>13, <2>1, UpToRight
<1>14. ASSUME Right(k, b) PROVE Right(r, b)
  <2>1. RightBefore(k, b, D)
    BY <1>6, <1>14, RightAlways
  <2>2. RightBefore(j, b, D)
    BY <1>6, <1>13, <2>1
  <2>3. \A s \in AllocsUntil(j, b, t) : RightAlloc(j, b, s)
    BY <1>3, <1>14, PaidUntil DEF Right
  <2> QED BY <1>7, <2>2, <2>3 DEF RightBefore
<1>15. ASSUME NEW E \in Nat, E <= D, RightBefore(k, b, E) PROVE RightBefore(r, b, E)
  <2>1. RightBefore(j, b, E)
    BY <1>13, <1>15
  <2>2. /\ Allocs(r, b) = Allocs(j, b) /\ Moves(r, b) = Moves(j, b)
        /\ \A s \in Txs : AtAlloc(r, b, s) = AtAlloc(j, b, s)
        /\ \A i \in Itxs : AtItx(r, b, i) = AtItx(j, b, i)
    BY <1>6, <1>8, SameRowsHeld
  <2>3. ASSUME NEW s \in Allocs(r, b), r.tx[s].date < E PROVE RightAlloc(r, b, s)
    <3>1. s \in Txs /\ s \in Allocs(j, b) /\ j.tx[s].date < E /\ j.tx[s].date \in Nat
      BY <1>6, <1>9, <2>2, <2>3, EventSets, BookRows
    <3>2. RightAlloc(j, b, s)
      BY <2>1, <3>1 DEF RightBefore
    <3>3. TxBefore(j, s, t)
      BY <1>6, <1>15, <3>1 DEF TxBefore
    <3>4. r.alloc[s][b] = j.alloc[s][b]
      BY <1>7, <3>1, <3>3 DEF AllocsUntil
    <3> QED BY <2>2, <3>1, <3>2, <3>4 DEF RightAlloc
  <2>4. ASSUME NEW i \in Moves(r, b), r.itx[i].date < E PROVE RightItx(r, b, i)
    <3>1. i \in Itxs /\ i \in Moves(j, b) /\ j.itx[i].date < E /\ j.itx[i].date \in Nat
      <4>1. i \in Itxs
        BY EventSets
      <4> QED BY <1>6, <1>10, <2>2, <2>4, <4>1, BookRows DEF SameItx
    <3>2. RightItx(j, b, i)
      BY <2>1, <3>1 DEF RightBefore
    <3>3. i \notin MovesFrom(j, b, D)
      BY <1>6, <1>15, <3>1 DEF MovesFrom
    <3>4. r.itx[i] = j.itx[i]
      BY <1>7, <3>1, <3>3
    <3> QED BY <2>2, <3>1, <3>2, <3>4 DEF RightItx, Snap
  <2> QED BY <2>3, <2>4 DEF RightBefore
<1>16. \A c \in Budgets : Baseline(r, c) = Baseline(k, c) /\ (Right(k, c) => Right(r, c))
  BY <1>11, <1>12, <1>14
<1> QED BY <1>5, <1>8, <1>9, <1>10, <1>15, <1>16 DEF AllocSet

-----------------------------------------------------------------------------
(* Folds over finite sets: one call after another.                           *)

\* g is the recursive function by which base is taken through the functions F[x]
\* of the elements x of S.
Folds(F, base, S, g) ==
  g = [s \in SUBSET S |->
         IF s = {} THEN base ELSE LET x == CHOOSE x \in s : TRUE IN F[x][g[s \ {x}]]]

LEMMA FoldsUnique ==
  ASSUME NEW F, NEW base, NEW A, NEW B, NEW g, NEW h, IsFiniteSet(A),
         Folds(F, base, A, g), Folds(F, base, B, h)
  PROVE  \A T \in SUBSET (A \cap B) : g[T] = h[T]
<1> DEFINE Good == {T \in SUBSET (A \cap B) : g[T] = h[T]}
<1>1. IsFiniteSet(A \cap B)
  BY FS_Intersection
<1>2. ASSUME NEW T \in SUBSET (A \cap B), \A U \in SUBSET T : U # T => U \in Good
      PROVE  T \in Good
  <2>1. CASE T = {}
    BY <2>1 DEF Folds
  <2>2. CASE T # {}
    <3> DEFINE x == Pick(T)
    <3>1. x \in T
      BY <2>2 DEF Pick
    <3>2. g[T \ {x}] = h[T \ {x}]
      BY <3>1, <1>2
    <3>3. g[T] = F[x][g[T \ {x}]] /\ h[T] = F[x][h[T \ {x}]]
      BY <2>2 DEF Folds, Pick
    <3> QED BY <3>2, <3>3
  <2> QED BY <2>1, <2>2
<1> HIDE DEF Good
<1>3. \A T \in SUBSET (A \cap B) : T \in Good
  BY <1>1, <1>2, SubsetInduction
<1> QED BY <1>3 DEF Good

LEMMA FoldsExist ==
  ASSUME NEW F, NEW base, NEW S, IsFiniteSet(S)
  PROVE  \E g : Folds(F, base, S, g)
<1> DEFINE Good == {T \in SUBSET S : \E g : Folds(F, base, T, g)}
           G(T) == CHOOSE g : Folds(F, base, T, g)
<1>1. ASSUME NEW T \in SUBSET S, \A U \in SUBSET T : U # T => U \in Good
      PROVE  T \in Good
  <2>1. \A U \in SUBSET T : U # T => Folds(F, base, U, G(U))
    BY <1>1
  <2> HIDE DEF G
  <2>2. ASSUME NEW U \in SUBSET T, U # T, U # {}
        PROVE  G(U)[U] = F[Pick(U)][G(U \ {Pick(U)})[U \ {Pick(U)}]]
    <3> DEFINE x == Pick(U)
               V == U \ {x}
    <3>1. x \in U
      BY <2>2 DEF Pick
    <3>2. Folds(F, base, U, G(U)) /\ Folds(F, base, V, G(V))
      BY <2>1, <2>2, <3>1
    <3>3. G(U)[U] = F[x][G(U)[V]]
      BY <3>2, <2>2 DEF Folds, Pick
    <3>4. IsFiniteSet(U)
      BY FS_Subset
    <3>5. V \in SUBSET (U \cap V)
      OBVIOUS
    <3>6. G(U)[V] = G(V)[V]
      <4> HIDE DEF V
      <4> QED BY <3>2, <3>4, <3>5, FoldsUnique
    <3> QED BY <3>3, <3>6
  <2>3. ASSUME {} # T PROVE G({})[{}] = base
    BY <2>1, <2>3 DEF Folds
  <2> DEFINE top == IF T = {} THEN base ELSE F[Pick(T)][G(T \ {Pick(T)})[T \ {Pick(T)}]]
             g == [U \in SUBSET T |-> IF U = T THEN top ELSE G(U)[U]]
  <2>4. ASSUME NEW U \in SUBSET T
        PROVE  g[U] = IF U = {} THEN base ELSE F[Pick(U)][g[U \ {Pick(U)}]]
    <3>1. CASE U = {}
      BY <2>3, <3>1
    <3>2. CASE U # {}
      <4>1. Pick(U) \in U
        BY <3>2 DEF Pick
      <4>2. U \ {Pick(U)} # T /\ U \ {Pick(U)} \in SUBSET T
        BY <4>1
      <4>3. CASE U = T
        BY <4>2, <4>3, <3>2
      <4>4. CASE U # T
        BY <4>2, <4>4, <3>2, <2>2
      <4> QED BY <4>3, <4>4
    <3> QED BY <3>1, <3>2
  <2>5. Folds(F, base, T, g)
    <3> DEFINE rhs == [s \in SUBSET T |->
                         IF s = {} THEN base ELSE LET x == CHOOSE x \in s : TRUE IN F[x][g[s \ {x}]]]
    <3>1. \A U \in SUBSET T : g[U] = rhs[U]
      <4> HIDE DEF g
      <4> QED BY <2>4 DEF Pick
    <3>2. g = [U \in SUBSET T |-> g[U]]
      OBVIOUS
    <3>3. rhs = [U \in SUBSET T |-> rhs[U]]
      OBVIOUS
    <3> HIDE DEF g, rhs
    <3>4. g = rhs
      BY <3>1, <3>2, <3>3
    <3> QED BY <3>4 DEF Folds, rhs
  <2> QED BY <2>5
<1> HIDE DEF Good
<1>2. \A T \in SUBSET S : T \in Good
  BY <1>1, SubsetInduction
<1> QED BY <1>2 DEF Good

\* A fold of functions on a set V, value by value.
FoldsIn(F, V, base, S, h) ==
  /\ h \in [SUBSET S -> V] /\ h[{}] = base
  /\ \A s \in SUBSET S : s # {} => h[s] = F[Pick(s)][h[s \ {Pick(s)}]]

LEMMA FoldIn ==
  ASSUME NEW S, IsFiniteSet(S), NEW V, NEW base \in V, NEW F, \A x \in S : F[x] \in [V -> V]
  PROVE  \E h : FoldsIn(F, V, base, S, h)
<1>1. PICK h : Folds(F, base, S, h)
  BY FoldsExist
<1>2. /\ h = [s \in SUBSET S |-> h[s]] /\ h[{}] = base
      /\ \A s \in SUBSET S : s # {} => h[s] = F[Pick(s)][h[s \ {Pick(s)}]]
  BY <1>1 DEF Folds, Pick
<1> DEFINE Good == {s \in SUBSET S : h[s] \in V}
<1>3. ASSUME NEW T \in SUBSET S, \A U \in SUBSET T : U # T => U \in Good PROVE T \in Good
  <2>1. CASE T = {}
    BY <1>2, <2>1
  <2>2. CASE T # {}
    <3>1. PICK x : x = Pick(T)
      OBVIOUS
    <3>2. x \in T
      BY <2>2, <3>1 DEF Pick
    <3>3. T \ {x} \in SUBSET T /\ T \ {x} # T
      BY <3>2
    <3>4. h[T \ {x}] \in V
      BY <1>3, <3>3
    <3>5. h[T] = F[x][h[T \ {x}]] /\ F[x] \in [V -> V]
      BY <1>2, <2>2, <3>1, <3>2
    <3> QED BY <3>4, <3>5
  <2> QED BY <2>1, <2>2
<1> HIDE DEF Good
<1>4. \A s \in SUBSET S : s \in Good
  BY <1>3, SubsetInduction
<1>5. h \in [SUBSET S -> V]
  BY <1>2, <1>4 DEF Good
<1> QED BY <1>2, <1>5 DEF FoldsIn

-----------------------------------------------------------------------------
(* Several rows of a transaction set one after another.                      *)

\* One of the calls.
Pay(k, t, m, b) == IF k.alloc[t][b].amount = m[b] THEN k ELSE SetAlloc(k, t, b, m[b])
Pays(k, t, m, S, g) ==
  g = [s \in SUBSET S |-> IF s = {} THEN k ELSE LET x == CHOOSE x \in s : TRUE IN Pay(g[s \ {x}], t, m, x)]

LEMMA SetAllocsChosen ==
  ASSUME NEW k, NEW t, NEW m, NEW S
  PROVE  SetAllocs(k, t, m, S) = (CHOOSE g : Pays(k, t, m, S, g))[S]
BY DEF SetAllocs, FoldSet, MapThenFoldSet, Pays, Pay

\* r is k with the amounts m in t's rows for the budgets S.
AllocsSet(k, r, t, m, S) ==
  /\ r \in Books /\ r.tx = k.tx
  /\ \A s \in Txs, c \in Budgets :
       r.alloc[s][c].amount = IF s = t /\ c \in S THEN m[c] ELSE k.alloc[s][c].amount
  /\ \A i \in Itxs : SameItx(r.itx[i], k.itx[i]) /\ (r.itx[i] = NoItx <=> k.itx[i] = NoItx)
  /\ \A c \in Budgets : Baseline(r, c) = Baseline(k, c) /\ (Right(k, c) => Right(r, c))

LEMMA PayRows ==
  ASSUME NEW k \in Books, NEW t \in Txs, NEW m \in [Budgets -> Int], NEW b \in Budgets,
         NEW r, r = Pay(k, t, m, b)
  PROVE  AllocsSet(k, r, t, m, {b})
<1>1. m[b] \in Int
  OBVIOUS
<1>2. CASE k.alloc[t][b].amount = m[b]
  <2>1. r = k
    BY <1>2 DEF Pay
  <2>2. \A s \in Txs, c \in Budgets :
          k.alloc[s][c].amount = IF s = t /\ c \in {b} THEN m[c] ELSE k.alloc[s][c].amount
    BY <1>2
  <2> QED BY <2>1, <2>2 DEF AllocsSet, SameItx
<1>3. CASE k.alloc[t][b].amount # m[b]
  <2>1. r = SetAlloc(k, t, b, m[b])
    BY <1>3 DEF Pay
  <2>2. AllocSet(k, r, t, b, m[b])
    BY <1>1, <2>1, SetAllocRows
  <2>3. \A s \in Txs, c \in Budgets :
          r.alloc[s][c].amount = IF s = t /\ c \in {b} THEN m[c] ELSE k.alloc[s][c].amount
    BY <2>2 DEF AllocSet
  <2> QED BY <2>2, <2>3 DEF AllocSet, AllocsSet
<1> QED BY <1>2, <1>3

LEMMA PayMore ==
  ASSUME NEW k \in Books, NEW t \in Txs, NEW m, NEW S, NEW b, NEW j, NEW r,
         AllocsSet(k, j, t, m, S), AllocsSet(j, r, t, m, {b})
  PROVE  AllocsSet(k, r, t, m, S \union {b})
<1>1. \A s \in Txs, c \in Budgets :
        r.alloc[s][c].amount = IF s = t /\ c \in S \union {b} THEN m[c] ELSE k.alloc[s][c].amount
  BY DEF AllocsSet
<1>2. \A i \in Itxs : SameItx(r.itx[i], k.itx[i]) /\ (r.itx[i] = NoItx <=> k.itx[i] = NoItx)
  BY DEF AllocsSet, SameItx
<1>3. \A c \in Budgets : Baseline(r, c) = Baseline(k, c) /\ (Right(k, c) => Right(r, c))
  BY DEF AllocsSet
<1>4. r \in Books /\ r.tx = k.tx
  BY DEF AllocsSet
<1> QED BY <1>1, <1>2, <1>3, <1>4 DEF AllocsSet

LEMMA SetAllocsRows ==
  ASSUME NEW k \in Books, NEW t \in Txs, NEW m \in [Budgets -> Int], NEW r, r = SetAllocs(k, t, m, Budgets)
  PROVE  AllocsSet(k, r, t, m, Budgets)
<1>1. IsFiniteSet(Budgets)
  BY BudgetsAssumption
<1>2. \A b \in Budgets, j \in Books : Pay(j, t, m, b) \in Books
  BY PayRows DEF AllocsSet
<1>3. \E g : Pays(k, t, m, Budgets, g)
  <2> DEFINE F == [b \in Budgets |-> [j \in Books |-> Pay(j, t, m, b)]]
  <2>1. \A b \in Budgets : F[b] \in [Books -> Books]
    BY <1>2
  <2>2. \A b \in Budgets, j \in Books : F[b][j] = Pay(j, t, m, b)
    OBVIOUS
  <2> HIDE DEF F
  <2>7. PICK h : FoldsIn(F, Books, k, Budgets, h)
    BY <1>1, <2>1, FoldIn
  <2>3. /\ h \in [SUBSET Budgets -> Books] /\ h[{}] = k
        /\ \A s \in SUBSET Budgets : s # {} => h[s] = F[Pick(s)][h[s \ {Pick(s)}]]
    BY <2>7 DEF FoldsIn
  <2> DEFINE rhs == [s \in SUBSET Budgets |->
                       IF s = {} THEN k ELSE LET x == CHOOSE x \in s : TRUE IN Pay(h[s \ {x}], t, m, x)]
  <2>4. ASSUME NEW s \in SUBSET Budgets PROVE h[s] = rhs[s]
    <3>1. CASE s = {}
      BY <2>3, <3>1
    <3>2. CASE s # {}
      <4>1. PICK x : x = Pick(s)
        OBVIOUS
      <4>2. x \in s /\ x \in Budgets /\ s \ {x} \in SUBSET Budgets
        BY <3>2, <4>1 DEF Pick
      <4>3. h[s] = F[x][h[s \ {x}]] /\ h[s \ {x}] \in Books
        BY <2>3, <3>2, <4>1, <4>2
      <4>4. h[s] = Pay(h[s \ {x}], t, m, x)
        BY <2>2, <4>2, <4>3
      <4> QED BY <3>2, <4>1, <4>4 DEF Pick
    <3> QED BY <3>1, <3>2
  <2>5. h = [s \in SUBSET Budgets |-> h[s]] /\ rhs = [s \in SUBSET Budgets |-> rhs[s]]
    BY <2>3
  <2> HIDE DEF rhs
  <2>6. h = rhs
    BY <2>4, <2>5
  <2> QED BY <2>6 DEF Pays, rhs
<1>4. PICK g : g = CHOOSE h : Pays(k, t, m, Budgets, h)
  OBVIOUS
<1>5. Pays(k, t, m, Budgets, g) /\ r = g[Budgets]
  BY <1>3, <1>4, SetAllocsChosen
<1>6. g[{}] = k /\ \A s \in SUBSET Budgets : s # {} => g[s] = Pay(g[s \ {Pick(s)}], t, m, Pick(s))
  BY <1>5 DEF Pays, Pick
<1> DEFINE Good == {s \in SUBSET Budgets : AllocsSet(k, g[s], t, m, s)}
<1>7. ASSUME NEW T \in SUBSET Budgets, \A U \in SUBSET T : U # T => U \in Good PROVE T \in Good
  <2>1. CASE T = {}
    <3>1. AllocsSet(k, k, t, m, {})
      BY DEF AllocsSet, SameItx
    <3> QED BY <1>6, <2>1, <3>1
  <2>2. CASE T # {}
    <3>1. PICK x : x = Pick(T)
      OBVIOUS
    <3>2. x \in T /\ x \in Budgets
      BY <2>2, <3>1 DEF Pick
    <3>3. PICK U : U = T \ {x}
      OBVIOUS
    <3>4. U \in SUBSET T /\ U # T /\ T = U \union {x}
      BY <3>2, <3>3
    <3>5. AllocsSet(k, g[U], t, m, U)
      BY <1>7, <3>4
    <3>6. g[U] \in Books
      BY <3>5 DEF AllocsSet
    <3>7. g[T] = Pay(g[U], t, m, x)
      BY <1>6, <2>2, <3>1, <3>3
    <3>8. AllocsSet(g[U], g[T], t, m, {x})
      BY <3>2, <3>6, <3>7, PayRows
    <3>9. AllocsSet(k, g[T], t, m, U \union {x})
      BY <3>5, <3>8, PayMore
    <3> QED BY <3>4, <3>9
  <2> QED BY <2>1, <2>2
<1> HIDE DEF Good
<1>8. \A s \in SUBSET Budgets : s \in Good
  BY <1>1, <1>7, SubsetInduction
<1>9. Budgets \in SUBSET Budgets
  OBVIOUS
<1> QED BY <1>5, <1>8, <1>9 DEF Good

-----------------------------------------------------------------------------
(* Both sides of a transfer, and the counterparties of a budget.             *)

LEMMA SameForTwice ==
  ASSUME NEW k \in Books, NEW j \in Books, NEW r \in Books, NEW c \in Budgets,
         SameFor(k, j, c), SameFor(j, r, c)
  PROVE  SameFor(k, r, c)
BY DEF SameFor, SameItx

LEMMA SameRowsTwice ==
  ASSUME NEW k, NEW j, NEW r, SameRows(k, j), SameRows(j, r)
  PROVE  SameRows(k, r)
BY DEF SameRows, SameItx

\* What was right up to D stays so.
LEMMA SameForRightBefore ==
  ASSUME NEW k \in Books, NEW j \in Books, NEW c \in Budgets, SameFor(k, j, c),
         NEW D \in Nat, RightBefore(k, c, D)
  PROVE  RightBefore(j, c, D)
<1>1. SameUpTo(k, j, c, D)
  BY SameForUpTo
<1> QED BY <1>1, UpToRight

LEMMA BothSidesRight ==
  ASSUME NEW k \in Books, NEW row, row.src \in Budgets, row.dst \in Budgets, row.src # row.dst, NEW D \in Nat,
         NEW r, r = BothSides(k, row, D),
         \A c \in {row.src, row.dst} : RightBefore(k, c, D),
         \A c \in Budgets \ {row.src, row.dst} : Right(k, c)
  PROVE  r \in Books /\ SameRows(k, r) /\ \A c \in Budgets : Right(r, c)
<1>1. PICK x : x = row.src
  OBVIOUS
<1>2. PICK y : y = row.dst
  OBVIOUS
<1>3. PICK j : j = RecalculateFromDt(k, x, D)
  OBVIOUS
<1>4. r = RecalculateFromDt(j, y, D)
  BY <1>1, <1>2, <1>3 DEF BothSides
<1>5. x \in Budgets /\ y \in Budgets /\ x # y /\ RightBefore(k, x, D) /\ RightBefore(k, y, D)
      /\ \A c \in Budgets : c # x /\ c # y => Right(k, c)
  BY <1>1, <1>2
<1>6. Rewrites(k, j, x) /\ Right(j, x)
  BY <1>3, <1>5, FromDt
<1>7. j \in Books /\ SameRows(k, j)
  BY <1>6 DEF Rewrites
<1>8. Rewrites(j, r, y) /\ (RightBefore(j, y, D) => Right(r, y))
  BY <1>4, <1>5, <1>7, FromDt
<1>9. r \in Books /\ SameRows(j, r)
  BY <1>8 DEF Rewrites
<1>10. \A c \in Budgets : c # x => SameFor(k, j, c)
  BY <1>6, RewritesOthers
<1>11. \A c \in Budgets : c # y => SameFor(j, r, c)
  BY <1>7, <1>8, RewritesOthers
<1>12. Right(r, y)
  <2>1. SameFor(k, j, y)
    BY <1>5, <1>10
  <2>2. RightBefore(j, y, D)
    BY <1>5, <1>7, <2>1, SameForRightBefore
  <2> QED BY <1>8, <2>2
<1>13. ASSUME NEW c \in Budgets, c # y PROVE Right(r, c)
  <2>1. Right(j, c)
    <3>1. CASE c = x
      BY <1>6, <3>1
    <3>2. CASE c # x
      <4>1. SameFor(k, j, c) /\ Right(k, c)
        BY <1>5, <1>10, <1>13, <3>2
      <4> QED BY <1>7, <4>1, SameForUpTo
    <3> QED BY <3>1, <3>2
  <2>2. SameFor(j, r, c)
    BY <1>11, <1>13
  <2> QED BY <1>7, <1>9, <2>1, <2>2, SameForUpTo
<1>14. SameRows(k, r)
  BY <1>7, <1>9, SameRowsTwice
<1> QED BY <1>9, <1>12, <1>13, <1>14

\* budget.delete recalculates each counterparty in turn.
Recalcs(b, k, S, g) ==
  g = [s \in SUBSET S |->
         IF s = {} THEN k
         ELSE LET x == CHOOSE x \in s : TRUE IN RecalculateFromDt(g[s \ {x}], x, Earliest(b, x))]

\* r is k with the budgets S recalculated.
RecalcSet(b, k, r, S) ==
  /\ r \in Books /\ SameRows(k, r)
  /\ \A c \in S : RightBefore(k, c, Earliest(b, c)) => Right(r, c)
  /\ \A c \in Budgets \ S : SameFor(k, r, c)

LEMMA RecalcMore ==
  ASSUME NEW b, NEW k \in Books, NEW S, NEW x \in Budgets \ S, Earliest(b, x) \in Nat,
         NEW j, RecalcSet(b, k, j, S), S \subseteq Budgets,
         NEW r, r = RecalculateFromDt(j, x, Earliest(b, x))
  PROVE  RecalcSet(b, k, r, S \union {x})
<1>1. PICK D : D = Earliest(b, x)
  OBVIOUS
<1>2. j \in Books /\ SameRows(k, j) /\ SameFor(k, j, x)
  BY DEF RecalcSet
<1>3. D \in Nat /\ Rewrites(j, r, x) /\ (RightBefore(j, x, D) => Right(r, x))
  BY <1>1, <1>2, FromDt
<1>4. r \in Books /\ SameRows(j, r)
  BY <1>3 DEF Rewrites
<1>5. \A c \in Budgets : c # x => SameFor(j, r, c)
  BY <1>2, <1>3, RewritesOthers
<1>6. SameRows(k, r)
  BY <1>2, <1>4, SameRowsTwice
<1>7. ASSUME RightBefore(k, x, D) PROVE Right(r, x)
  BY <1>2, <1>3, <1>7, SameForRightBefore
<1>8. ASSUME NEW c \in S, RightBefore(k, c, Earliest(b, c)) PROVE Right(r, c)
  <2>1. Right(j, c) /\ c \in Budgets /\ c # x
    BY <1>8 DEF RecalcSet
  <2> QED BY <1>2, <1>4, <1>5, <2>1, SameForUpTo
<1>9. ASSUME NEW c \in Budgets, c \notin S, c # x PROVE SameFor(k, r, c)
  <2>1. SameFor(k, j, c)
    BY <1>9 DEF RecalcSet
  <2> QED BY <1>2, <1>4, <1>5, <1>9, <2>1, SameForTwice
<1> QED BY <1>1, <1>4, <1>6, <1>7, <1>8, <1>9 DEF RecalcSet

LEMMA RecalcsRows ==
  ASSUME NEW b, NEW k \in Books, NEW S \in SUBSET Budgets, \A c \in S : Earliest(b, c) \in Nat,
         NEW r, r = (CHOOSE g : Recalcs(b, k, S, g))[S]
  PROVE  RecalcSet(b, k, r, S)
<1>1. IsFiniteSet(S)
  BY BudgetsAssumption, FS_Subset
<1>2. \A c \in S, j \in Books : RecalculateFromDt(j, c, Earliest(b, c)) \in Books
  BY FromDt DEF Rewrites
<1>3. \E g : Recalcs(b, k, S, g)
  <2> DEFINE F == [c \in S |-> [j \in Books |-> RecalculateFromDt(j, c, Earliest(b, c))]]
  <2>1. \A c \in S : F[c] \in [Books -> Books]
    BY <1>2
  <2>2. \A c \in S, j \in Books : F[c][j] = RecalculateFromDt(j, c, Earliest(b, c))
    OBVIOUS
  <2> HIDE DEF F
  <2>7. PICK h : FoldsIn(F, Books, k, S, h)
    BY <1>1, <2>1, FoldIn
  <2>3. /\ h \in [SUBSET S -> Books] /\ h[{}] = k
        /\ \A s \in SUBSET S : s # {} => h[s] = F[Pick(s)][h[s \ {Pick(s)}]]
    BY <2>7 DEF FoldsIn
  <2> DEFINE rhs == [s \in SUBSET S |->
                       IF s = {} THEN k
                       ELSE LET x == CHOOSE x \in s : TRUE
                            IN RecalculateFromDt(h[s \ {x}], x, Earliest(b, x))]
  <2>4. ASSUME NEW s \in SUBSET S PROVE h[s] = rhs[s]
    <3>1. CASE s = {}
      BY <2>3, <3>1
    <3>2. CASE s # {}
      <4>1. PICK x : x = Pick(s)
        OBVIOUS
      <4>2. x \in s /\ x \in S /\ s \ {x} \in SUBSET S
        BY <3>2, <4>1 DEF Pick
      <4>3. h[s] = F[x][h[s \ {x}]] /\ h[s \ {x}] \in Books
        BY <2>3, <3>2, <4>1, <4>2
      <4>4. h[s] = RecalculateFromDt(h[s \ {x}], x, Earliest(b, x))
        BY <2>2, <4>2, <4>3
      <4> QED BY <3>2, <4>1, <4>4 DEF Pick
    <3> QED BY <3>1, <3>2
  <2>5. h = [s \in SUBSET S |-> h[s]] /\ rhs = [s \in SUBSET S |-> rhs[s]]
    BY <2>3
  <2> HIDE DEF rhs
  <2>6. h = rhs
    BY <2>4, <2>5
  <2> QED BY <2>6 DEF Recalcs, rhs
<1>4. PICK g : g = CHOOSE h : Recalcs(b, k, S, h)
  OBVIOUS
<1>5. Recalcs(b, k, S, g) /\ r = g[S]
  BY <1>3, <1>4
<1>6. /\ g[{}] = k
      /\ \A s \in SUBSET S : s # {} =>
           g[s] = RecalculateFromDt(g[s \ {Pick(s)}], Pick(s), Earliest(b, Pick(s)))
  BY <1>5 DEF Recalcs, Pick
<1> DEFINE Good == {s \in SUBSET S : RecalcSet(b, k, g[s], s)}
<1>7. ASSUME NEW T \in SUBSET S, \A U \in SUBSET T : U # T => U \in Good PROVE T \in Good
  <2>1. CASE T = {}
    <3>1. RecalcSet(b, k, k, {})
      BY DEF RecalcSet, SameRows, SameItx, SameFor
    <3> QED BY <1>6, <2>1, <3>1
  <2>2. CASE T # {}
    <3>1. PICK x : x = Pick(T)
      OBVIOUS
    <3>2. x \in T /\ x \in S /\ x \in Budgets
      BY <2>2, <3>1 DEF Pick
    <3>3. PICK U : U = T \ {x}
      OBVIOUS
    <3>4. U \in SUBSET T /\ U # T /\ T = U \union {x} /\ x \notin U /\ U \subseteq Budgets
      BY <3>2, <3>3
    <3>5. RecalcSet(b, k, g[U], U)
      BY <1>7, <3>4
    <3>6. g[T] = RecalculateFromDt(g[U], x, Earliest(b, x)) /\ Earliest(b, x) \in Nat
      BY <1>6, <2>2, <3>1, <3>2, <3>3
    <3>7. RecalcSet(b, k, g[T], U \union {x})
      BY <3>2, <3>4, <3>5, <3>6, RecalcMore
    <3> QED BY <3>4, <3>7
  <2> QED BY <2>1, <2>2
<1> HIDE DEF Good
<1>8. \A s \in SUBSET S : s \in Good
  BY <1>1, <1>7, SubsetInduction
<1>9. S \in SUBSET S
  OBVIOUS
<1> QED BY <1>5, <1>8, <1>9 DEF Good

-----------------------------------------------------------------------------
(* A transfer's row, there or not.                                           *)

\* j is k with transfer i, and the money it moved.
Added(k, j, i, row) ==
  /\ k \in Books /\ j \in Books /\ j.tx = k.tx /\ j.alloc = k.alloc
  /\ k.itx[i] = NoItx /\ j.itx[i] = row /\ row # NoItx
  /\ \A h \in Itxs \ {i} : j.itx[h] = k.itx[h]
  /\ j.balance[row.src] = k.balance[row.src] - row.amount
  /\ j.balance[row.dst] = k.balance[row.dst] + row.amount
  /\ \A c \in Budgets \ {row.src, row.dst} : j.balance[c] = k.balance[c]

LEMMA AddedRows ==
  ASSUME NEW k, NEW j, NEW i \in Itxs, NEW row, Added(k, j, i, row)
  PROVE  /\ k \in Books /\ j \in Books /\ row \in ItxRow /\ row.src \in Budgets /\ row.dst \in Budgets
         /\ row.src # row.dst /\ row.amount \in Int /\ row.date \in Nat
BY BookRows DEF Added

LEMMA AddedMoves ==
  ASSUME NEW k, NEW j, NEW i \in Itxs, NEW row, Added(k, j, i, row), NEW c
  PROVE  /\ c \in {row.src, row.dst} => Moves(j, c) = Moves(k, c) \union {i}
         /\ c \notin {row.src, row.dst} => Moves(j, c) = Moves(k, c)
         /\ i \notin Moves(k, c) /\ Moves(k, c) \subseteq Itxs /\ Allocs(j, c) = Allocs(k, c)
BY DEF Added, Moves, Allocs

LEMMA AddedOthers ==
  ASSUME NEW k, NEW j, NEW i \in Itxs, NEW row, Added(k, j, i, row), NEW c \in Budgets \ {row.src, row.dst}
  PROVE  SameFor(k, j, c) /\ SameFor(j, k, c)
<1>1. /\ Moves(j, c) = Moves(k, c) /\ i \notin Moves(k, c) /\ Moves(k, c) \subseteq Itxs
      /\ Allocs(j, c) = Allocs(k, c)
  BY AddedMoves
<1>2. /\ \A h \in Itxs \ {i} : j.itx[h] = k.itx[h]
      /\ j.tx = k.tx /\ j.alloc = k.alloc /\ j.balance[c] = k.balance[c]
  BY DEF Added
<1> QED BY <1>1, <1>2 DEF SameFor, SameItx, Snap

LEMMA AddedBaseline ==
  ASSUME NEW k, NEW j, NEW i \in Itxs, NEW row, Added(k, j, i, row), NEW c \in {row.src, row.dst}
  PROVE  Baseline(j, c) = Baseline(k, c)
<1>9. k \in Books /\ j \in Books /\ row.src \in Budgets /\ row.dst \in Budgets /\ row.src # row.dst
      /\ row.amount \in Int
  BY AddedRows
<1>10. /\ Moves(j, c) = Moves(k, c) \union {i}
       /\ i \notin Moves(k, c) /\ Moves(k, c) \subseteq Itxs /\ Allocs(j, c) = Allocs(k, c)
  BY AddedMoves
<1>11. \A h \in Itxs \ {i} : j.itx[h] = k.itx[h]
  BY DEF Added
<1>1. /\ k \in Books /\ j \in Books /\ c \in Budgets /\ row.src # row.dst /\ row.amount \in Int
      /\ Moves(j, c) = Moves(k, c) \union {i}
      /\ i \notin Moves(k, c) /\ Moves(k, c) \subseteq Itxs /\ Allocs(j, c) = Allocs(k, c)
      /\ \A h \in Itxs \ {i} : j.itx[h] = k.itx[h]
  BY <1>9, <1>10, <1>11
<1>2. j.alloc = k.alloc /\ j.itx[i] = row
      /\ j.balance[row.src] = k.balance[row.src] - row.amount
      /\ j.balance[row.dst] = k.balance[row.dst] + row.amount
  BY DEF Added
<1>3. AllocSum(j, c, Allocs(j, c)) = AllocSum(k, c, Allocs(k, c))
  BY <1>1, <1>2 DEF AllocSum
<1>4. MoveSum(j, c, Moves(k, c)) = MoveSum(k, c, Moves(k, c))
  <2>1. \A h \in Moves(k, c) : SameItx(j.itx[h], k.itx[h])
    BY <1>1 DEF SameItx
  <2>2. Moves(k, c) \in SUBSET Itxs
    BY <1>1
  <2> QED BY <1>1, <2>1, <2>2, MoveSumSame
<1>5. MoveSum(j, c, Moves(j, c)) = MoveSum(j, c, Moves(k, c)) + Moved(j, c, i)
  <2>1. MoveSum(j, c, {i}) = Moved(j, c, i)
    BY <1>1, MoveSums
  <2>2. Moves(k, c) \in SUBSET Itxs /\ {i} \in SUBSET Itxs /\ Moves(k, c) \intersect {i} = {}
    BY <1>1
  <2>3. \A S, T \in SUBSET Itxs :
          S \intersect T = {} => MoveSum(j, c, S \union T) = MoveSum(j, c, S) + MoveSum(j, c, T)
    BY <1>1, MoveSums
  <2> QED BY <1>1, <2>1, <2>2, <2>3
<1>6. j.balance[c] = k.balance[c] + Moved(j, c, i) /\ Moved(j, c, i) \in Int /\ k.balance[c] \in Int
  <2>1. k.balance[c] \in Int
    BY <1>1, BookRows
  <2>2. CASE c = row.src
    BY <1>1, <1>2, <2>1, <2>2 DEF Moved
  <2>3. CASE c = row.dst
    BY <1>1, <1>2, <2>1, <2>3 DEF Moved
  <2> QED BY <2>1, <2>2, <2>3
<1>7. /\ Baseline(k, c) = k.balance[c] - AllocSum(k, c, Allocs(k, c)) - MoveSum(k, c, Moves(k, c))
      /\ Baseline(j, c) = j.balance[c] - AllocSum(j, c, Allocs(j, c)) - MoveSum(j, c, Moves(j, c))
  BY DEF Baseline
<1>8. AllocSum(k, c, Allocs(k, c)) \in Int /\ MoveSum(k, c, Moves(k, c)) \in Int
  BY <1>1, AllocSums, MoveSums, EventSets
<1> QED BY <1>3, <1>4, <1>5, <1>6, <1>7, <1>8

LEMMA AddedUpTo ==
  ASSUME NEW k, NEW j, NEW i \in Itxs, NEW row, Added(k, j, i, row), NEW c \in {row.src, row.dst}
  PROVE  SameUpTo(k, j, c, row.date) /\ SameUpTo(j, k, c, row.date)
<1>6. row.date \in Nat
  BY AddedRows
<1>7. /\ Moves(j, c) = Moves(k, c) \union {i}
      /\ i \notin Moves(k, c) /\ Moves(k, c) \subseteq Itxs /\ Allocs(j, c) = Allocs(k, c)
  BY AddedMoves
<1>8. \A h \in Itxs \ {i} : j.itx[h] = k.itx[h]
  BY DEF Added
<1>1. /\ Moves(j, c) = Moves(k, c) \union {i} /\ row.date \in Nat
      /\ i \notin Moves(k, c) /\ Moves(k, c) \subseteq Itxs /\ Allocs(j, c) = Allocs(k, c)
      /\ \A h \in Itxs \ {i} : j.itx[h] = k.itx[h]
  BY <1>6, <1>7, <1>8
<1>2. j.alloc = k.alloc /\ j.tx = k.tx /\ j.itx[i] = row
  BY DEF Added
<1>3. SameAllocsUpTo(k, j, c, row.date) /\ SameAllocsUpTo(j, k, c, row.date)
  BY <1>1, <1>2 DEF SameAllocsUpTo
<1>4. ~(j.itx[i].date < row.date)
  BY <1>1, <1>2
<1>5. SameMovesUpTo(k, j, c, row.date) /\ SameMovesUpTo(j, k, c, row.date)
  BY <1>1, <1>4 DEF SameMovesUpTo, SameItx, Snap
<1> QED BY <1>3, <1>5, AddedBaseline DEF SameUpTo

-----------------------------------------------------------------------------
(* The invariant.                                                            *)

\* A budget's balance before every recorded event.
Start(b) == IF b = Unallocated THEN Opening ELSE 0

TxRowKept(k, ls, ut, t) ==
  /\ k.tx[t] \in [date : Dates, amount : Int, pending : BOOLEAN] \union {NoTx}
  /\ k.tx[t] # NoTx => t \in ut
  /\ \A b \in Budgets : k.alloc[t][b].amount # 0 =>
       k.tx[t] # NoTx /\ b \in ls /\ (k.tx[t].pending => b = Unallocated)
ItxRowKept(k, ls, ui, i) ==
  k.itx[i] # NoItx =>
    /\ i \in ui /\ k.itx[i].src \in ls /\ k.itx[i].dst \in ls
    /\ k.itx[i].amount \in Parts /\ k.itx[i].date \in Dates
TxKept(k, ls, ut) == \A t \in Txs : TxRowKept(k, ls, ut, t)
ItxKept(k, ls, ui) == \A i \in Itxs : ItxRowKept(k, ls, ui, i)

\* Every budget's balance is its opening balance and its events, and every snapshot
\* is what it held.
Told(k) == \A b \in Budgets : Baseline(k, b) = Start(b) /\ Right(k, b)

Kept(k, ls, ut, ui) ==
  /\ k \in Books /\ ls \subseteq Budgets /\ Unallocated \in ls
  /\ TxKept(k, ls, ut) /\ ItxKept(k, ls, ui) /\ Told(k)

SnapInv == Kept(book, lives, usedTx, usedItx)

SameItxs(k, r) == \A i \in Itxs : SameItx(r.itx[i], k.itx[i]) /\ (r.itx[i] = NoItx <=> k.itx[i] = NoItx)

LEMMA ItxKeptSame ==
  ASSUME NEW k, NEW r, NEW ls, NEW ui, ItxKept(k, ls, ui), SameItxs(k, r)
  PROVE  ItxKept(r, ls, ui)
BY DEF ItxKept, ItxRowKept, SameItxs, SameItx

\* Another row of t: it changes nothing for a budget without an allocation of t, nor
\* for one that keeps its date.
RowSet(k, j, t, row) ==
  /\ j \in Books /\ j.tx[t] = row
  /\ \A s \in Txs \ {t} : j.tx[s] = k.tx[s]
  /\ j.alloc = k.alloc /\ j.itx = k.itx /\ j.balance = k.balance
  /\ \A c \in Budgets : t \notin Allocs(k, c) \/ row.date = k.tx[t].date => SameFor(k, j, c)

LEMMA TxRowSet ==
  ASSUME NEW k \in Books, NEW t \in Txs, NEW row \in TxRow, NEW j, j = [k EXCEPT !.tx[t] = row]
  PROVE  RowSet(k, j, t, row)
<1>1. /\ j \in Books /\ j.tx[t] = row
      /\ \A s \in Txs \ {t} : j.tx[s] = k.tx[s]
      /\ j.alloc = k.alloc /\ j.itx = k.itx /\ j.balance = k.balance
  BY DEF Books
<1>2. ASSUME NEW c \in Budgets, t \notin Allocs(k, c) \/ row.date = k.tx[t].date PROVE SameFor(k, j, c)
  <2>1. Allocs(j, c) = Allocs(k, c) /\ Moves(j, c) = Moves(k, c) /\ Allocs(k, c) \subseteq Txs
    BY <1>1 DEF Allocs, Moves
  <2>2. \A s \in Allocs(k, c) : j.tx[s].date = k.tx[s].date
    BY <1>1, <1>2, <2>1
  <2> QED BY <1>1, <2>1, <2>2 DEF SameFor, SameItx, Snap
<1> QED BY <1>1, <1>2 DEF RowSet

LEMMA ToldSame ==
  ASSUME NEW k \in Books, NEW j \in Books, Told(k), \A c \in Budgets : SameFor(k, j, c)
  PROVE  Told(j)
<1> SUFFICES ASSUME NEW c \in Budgets PROVE Baseline(j, c) = Start(c) /\ Right(j, c)
    BY DEF Told
<1>1. Baseline(k, c) = Start(c) /\ Right(k, c)
  BY DEF Told
<1>2. SameFor(k, j, c)
  OBVIOUS
<1> QED BY <1>1, <1>2, SameForUpTo

-----------------------------------------------------------------------------
(* The steps.                                                                *)

LEMMA InitKept ==
  ASSUME Init
  PROVE  SnapInv
<1>1. Never \in Int /\ Opening \in Int
  BY AmountsAssumption DEF Never
<1>2. NoTx \in TxRow /\ NoAlloc \in AllocRow /\ NoItx \in ItxRow
  BY BudgetsAssumption DEF TxRow, NoTx, AllocRow, NoAlloc, ItxRow, NoItx
<1>3. /\ book.tx = [t \in Txs |-> NoTx] /\ book.alloc = [t \in Txs |-> [b \in Budgets |-> NoAlloc]]
      /\ book.itx = [i \in Itxs |-> NoItx] /\ book.balance = [b \in Budgets |-> Start(b)]
      /\ lives = Budgets
      /\ book = [tx |-> book.tx, alloc |-> book.alloc, itx |-> book.itx, balance |-> book.balance]
  BY DEF Init, Start
<1>4. book \in Books
  <2>1. book.balance \in [Budgets -> Int]
    BY <1>1, <1>3 DEF Start
  <2>2. book.alloc \in [Txs -> [Budgets -> AllocRow]]
    BY <1>2, <1>3
  <2>3. book.tx \in [Txs -> TxRow] /\ book.itx \in [Itxs -> ItxRow]
    BY <1>2, <1>3
  <2> QED BY <1>3, <2>1, <2>2, <2>3 DEF Books
<1>5. TxKept(book, lives, usedTx) /\ ItxKept(book, lives, usedItx)
  BY <1>3 DEF TxKept, TxRowKept, ItxKept, ItxRowKept, NoAlloc
<1>6. Told(book)
  <2> SUFFICES ASSUME NEW b \in Budgets PROVE Baseline(book, b) = Start(b) /\ Right(book, b)
      BY DEF Told
  <2>1. Allocs(book, b) = {} /\ Moves(book, b) = {}
    BY <1>3 DEF Allocs, Moves
  <2>2. AllocSum(book, b, {}) = 0 /\ MoveSum(book, b, {}) = 0
    BY <1>4, AllocSums, MoveSums
  <2>3. book.balance[b] = Start(b) /\ Start(b) \in Int
    BY <1>1, <1>3 DEF Start
  <2>4. Baseline(book, b) = book.balance[b] - 0 - 0
    BY <2>1, <2>2 DEF Baseline
  <2> QED BY <2>1, <2>3, <2>4 DEF Right
<1> QED BY <1>3, <1>4, <1>5, <1>6, BudgetsAssumption DEF SnapInv, Kept

LEMMA CreateTxKept ==
  ASSUME SnapInv, NEW t \in Txs, NEW d \in Dates, NEW a \in Amounts, NEW p \in BOOLEAN, CreateTx(t, d, a, p)
  PROVE  SnapInv'
<1>1. PICK k : k = book
  OBVIOUS
<1>2. PICK r : r = book'
  OBVIOUS
<1>3. PICK row : row = [date |-> d, amount |-> a, pending |-> p]
  OBVIOUS
<1>4. PICK j : j = [k EXCEPT !.tx[t] = row]
  OBVIOUS
<1>5. r = SetAlloc(j, t, Unallocated, a) /\ t \notin usedTx
      /\ lives' = lives /\ usedItx' = usedItx /\ usedTx' = usedTx \union {t}
  BY <1>1, <1>2, <1>3, <1>4 DEF CreateTx
<1>6. /\ k \in Books /\ lives \subseteq Budgets /\ Unallocated \in lives
      /\ TxKept(k, lives, usedTx) /\ ItxKept(k, lives, usedItx) /\ Told(k)
  BY <1>1 DEF SnapInv, Kept
<1>7. /\ row \in TxRow /\ a \in Int /\ a # 0 /\ row # NoTx /\ Unallocated \in Budgets
      /\ row \in [date : Dates, amount : Int, pending : BOOLEAN]
  BY <1>3, RowsAssumption, AmountsAssumption, BudgetsAssumption DEF TxRow, NoTx
<1>8. \A b \in Budgets : k.alloc[t][b].amount = 0
  BY <1>5, <1>6 DEF TxKept, TxRowKept
<1>9. \A c \in Budgets : t \notin Allocs(k, c)
  BY <1>6, <1>8, BookRows DEF Allocs
<1>19. RowSet(k, j, t, row)
  BY <1>4, <1>6, <1>7, TxRowSet
<1>10. j \in Books /\ j.tx[t] = row /\ j.alloc = k.alloc /\ j.itx = k.itx
       /\ \A s \in Txs \ {t} : j.tx[s] = k.tx[s]
  BY <1>19 DEF RowSet
<1>11. \A c \in Budgets : SameFor(k, j, c)
  BY <1>9, <1>19 DEF RowSet
<1>12. Told(j)
  BY <1>6, <1>10, <1>11, ToldSame
<1>13. AllocSet(j, r, t, Unallocated, a)
  BY <1>5, <1>7, <1>10, SetAllocRows
<1>14. Told(r)
  BY <1>12, <1>13 DEF AllocSet, Told
<1>15. TxKept(r, lives, usedTx \union {t})
  <2>1. r.tx = j.tx /\ \A s \in Txs, c \in Budgets :
          r.alloc[s][c].amount = IF s = t /\ c = Unallocated THEN a ELSE k.alloc[s][c].amount
    BY <1>10, <1>13 DEF AllocSet
  <2>2. TxRowKept(r, lives, usedTx \union {t}, t)
    BY <1>6, <1>7, <1>8, <1>10, <2>1 DEF TxRowKept
  <2>3. ASSUME NEW s \in Txs, s # t PROVE TxRowKept(r, lives, usedTx \union {t}, s)
    <3>1. r.tx[s] = k.tx[s] /\ \A c \in Budgets : r.alloc[s][c].amount = k.alloc[s][c].amount
      BY <1>10, <2>1, <2>3
    <3>2. TxRowKept(k, lives, usedTx, s)
      BY <1>6 DEF TxKept
    <3> QED BY <3>1, <3>2 DEF TxRowKept
  <2> QED BY <2>2, <2>3 DEF TxKept
<1>16. ItxKept(r, lives, usedItx)
  BY <1>6, <1>10, <1>13, ItxKeptSame DEF AllocSet, SameItxs
<1>17. r \in Books
  BY <1>13 DEF AllocSet
<1>18. Kept(r, lives, usedTx \union {t}, usedItx)
  BY <1>6, <1>14, <1>15, <1>16, <1>17 DEF Kept
<1> QED BY <1>2, <1>5, <1>18 DEF SnapInv

\* A new date moves t's events of Unallocated from the earlier of the two dates on.
LEMMA MovedUpTo ==
  ASSUME NEW k \in Books, NEW t \in Txs, NEW row \in TxRow, NEW j, j = [k EXCEPT !.tx[t] = row],
         NEW b \in Budgets, NEW D \in Nat, D <= row.date, D <= k.tx[t].date
  PROVE  Baseline(j, b) = Baseline(k, b) /\ SameUpTo(k, j, b, D)
<1>1. /\ j \in Books /\ j.tx[t] = row
      /\ \A s \in Txs \ {t} : j.tx[s] = k.tx[s]
      /\ j.alloc = k.alloc /\ j.itx = k.itx /\ j.balance = k.balance
  <2>1. RowSet(k, j, t, row)
    BY TxRowSet
  <2> QED BY <2>1 DEF RowSet
<1>2. Allocs(j, b) = Allocs(k, b) /\ Moves(j, b) = Moves(k, b)
  BY <1>1 DEF Allocs, Moves
<1>3. Baseline(j, b) = Baseline(k, b)
  BY <1>1, <1>2 DEF Baseline, AllocSum, MoveSum, Moved
<1>4. k.tx[t].date \in Nat /\ row.date \in Nat
  BY BookRows DEF TxRow
<1>5. SameAllocsUpTo(k, j, b, D)
  BY <1>1, <1>2, <1>4 DEF SameAllocsUpTo
<1>6. SameMovesUpTo(k, j, b, D)
  BY <1>1, <1>2 DEF SameMovesUpTo, SameItx, Snap
<1> QED BY <1>3, <1>5, <1>6 DEF SameUpTo

LEMMA ResolveKept ==
  ASSUME SnapInv, NEW t \in Txs, NEW d \in Dates, NEW a \in Amounts, Resolve(t, d, a)
  PROVE  SnapInv'
<1>1. PICK k : k = book
  OBVIOUS
<1>2. PICK r : r = book'
  OBVIOUS
<1>3. PICK row : row = [date |-> d, amount |-> a, pending |-> FALSE]
  OBVIOUS
<1>4. PICK j : j = [k EXCEPT !.tx[t] = row]
  OBVIOUS
<1>5. PICK q : q = IF a = k.tx[t].amount THEN j ELSE SetAlloc(j, t, Unallocated, a)
  OBVIOUS
<1>6. PICK D : D = FromEarlier(k.tx[t].date, d)
  OBVIOUS
<1>7. r = (IF d = k.tx[t].date THEN q ELSE RecalculateFromDt(q, Unallocated, D)) /\ k.tx[t].pending
      /\ lives' = lives /\ usedItx' = usedItx /\ usedTx' = usedTx
  BY <1>1, <1>2, <1>3, <1>4, <1>5, <1>6 DEF Resolve
<1>8. /\ k \in Books /\ lives \subseteq Budgets /\ Unallocated \in lives
      /\ TxKept(k, lives, usedTx) /\ ItxKept(k, lives, usedItx) /\ Told(k)
  BY <1>1 DEF SnapInv, Kept
<1>9. /\ row \in TxRow /\ a \in Int /\ a # 0 /\ row # NoTx /\ Unallocated \in Budgets /\ d \in Nat
      /\ row \in [date : Dates, amount : Int, pending : BOOLEAN] /\ ~row.pending /\ row.date = d
  BY <1>3, RowsAssumption, AmountsAssumption, BudgetsAssumption DEF TxRow, NoTx
<1>10. /\ t \in usedTx /\ k.tx[t].date \in Nat
       /\ \A b \in Budgets : b # Unallocated => k.alloc[t][b].amount = 0
  <2>1. TxRowKept(k, lives, usedTx, t)
    BY <1>8 DEF TxKept
  <2>2. k.tx[t] # NoTx
    BY <1>7 DEF NoTx
  <2> QED BY <1>7, <1>8, <2>1, <2>2, BookRows DEF TxRowKept
<1>11. \A c \in Budgets : c # Unallocated => t \notin Allocs(k, c)
  BY <1>8, <1>10, BookRows DEF Allocs
<1>24. RowSet(k, j, t, row)
  BY <1>4, <1>8, <1>9, TxRowSet
<1>12. j \in Books /\ j.tx[t] = row /\ j.alloc = k.alloc /\ j.itx = k.itx
       /\ \A s \in Txs \ {t} : j.tx[s] = k.tx[s]
  BY <1>24 DEF RowSet
<1>13. \A c \in Budgets : t \notin Allocs(k, c) \/ row.date = k.tx[t].date => SameFor(k, j, c)
  BY <1>24 DEF RowSet
<1>14. D \in Nat /\ D <= d /\ D <= k.tx[t].date
  BY <1>6, <1>9, <1>10 DEF FromEarlier
<1>15. Baseline(j, Unallocated) = Baseline(k, Unallocated) /\ SameUpTo(k, j, Unallocated, D)
  BY <1>4, <1>8, <1>9, <1>14, MovedUpTo
<1>16. RightBefore(j, Unallocated, D)
  <2>1. Right(k, Unallocated)
    BY <1>8, <1>9 DEF Told
  <2>2. RightBefore(k, Unallocated, D)
    BY <1>8, <1>9, <1>14, <2>1, RightAlways
  <2> QED BY <1>8, <1>9, <1>12, <1>14, <1>15, <2>2, UpToRight
\* The row as settled, with the amount of its allocation.
<1>17. /\ q \in Books /\ q.tx = j.tx /\ SameItxs(j, q)
       /\ \A s \in Txs, c \in Budgets :
            q.alloc[s][c].amount = k.alloc[s][c].amount \/ (s = t /\ c = Unallocated)
       /\ \A c \in Budgets : Baseline(q, c) = Baseline(j, c) /\ (Right(j, c) => Right(q, c))
       /\ RightBefore(q, Unallocated, D)
  <2>1. CASE a = k.tx[t].amount
    <3>1. q = j
      BY <1>5, <2>1
    <3> QED BY <1>12, <1>16, <3>1 DEF SameItxs, SameItx
  <2>2. CASE a # k.tx[t].amount
    <3>1. q = SetAlloc(j, t, Unallocated, a)
      BY <1>5, <2>2
    <3>2. AllocSet(j, q, t, Unallocated, a)
      BY <1>9, <1>12, <3>1, SetAllocRows
    <3>3. D <= j.tx[t].date
      BY <1>9, <1>12, <1>14
    <3>4. RightBefore(q, Unallocated, D)
      BY <1>14, <1>16, <3>2, <3>3 DEF AllocSet
    <3> QED BY <1>12, <3>2, <3>4 DEF AllocSet, SameItxs
  <2> QED BY <2>1, <2>2
<1>18. \A c \in Budgets : c # Unallocated => Baseline(q, c) = Start(c) /\ Right(q, c)
  <2> SUFFICES ASSUME NEW c \in Budgets, c # Unallocated PROVE Baseline(q, c) = Start(c) /\ Right(q, c)
      OBVIOUS
  <2>1. SameFor(k, j, c)
    BY <1>11, <1>13
  <2>2. Baseline(j, c) = Baseline(k, c) /\ (Right(k, c) => Right(j, c))
    BY <1>8, <1>12, <2>1, SameForUpTo
  <2> QED BY <1>8, <1>17, <2>2 DEF Told
<1>19. Baseline(q, Unallocated) = Start(Unallocated)
  BY <1>8, <1>9, <1>15, <1>17 DEF Told
<1>20. r \in Books /\ SameRows(q, r) /\ Told(r)
  <2>1. CASE d = k.tx[t].date
    <3>1. r = q
      BY <1>7, <2>1
    <3>2. SameFor(k, j, Unallocated)
      BY <1>9, <1>13, <2>1
    <3>3. Right(j, Unallocated)
      BY <1>8, <1>9, <1>12, <3>2, SameForUpTo DEF Told
    <3>4. Right(q, Unallocated)
      BY <1>9, <1>17, <3>3
    <3> QED BY <1>17, <1>18, <1>19, <3>1, <3>4 DEF Told, SameRows, SameItx
  <2>2. CASE d # k.tx[t].date
    <3>1. r = RecalculateFromDt(q, Unallocated, D)
      BY <1>7, <2>2
    <3>2. Rewrites(q, r, Unallocated) /\ Right(r, Unallocated)
      BY <1>9, <1>14, <1>17, <3>1, FromDt
    <3>3. r \in Books /\ SameRows(q, r)
      BY <3>2 DEF Rewrites
    <3>4. ASSUME NEW c \in Budgets PROVE Baseline(r, c) = Start(c) /\ Right(r, c)
      <4>1. Baseline(r, c) = Baseline(q, c)
        BY <1>17, <3>3, SameRowsHeld
      <4>2. CASE c = Unallocated
        BY <1>19, <3>2, <4>1, <4>2
      <4>3. CASE c # Unallocated
        <5>1. SameFor(q, r, c)
          BY <1>17, <3>2, <4>3, RewritesOthers
        <5>2. Right(r, c)
          BY <1>17, <1>18, <3>3, <4>3, <5>1, SameForUpTo
        <5> QED BY <1>18, <4>1, <4>3, <5>2
      <4> QED BY <4>2, <4>3
    <3> QED BY <3>3, <3>4 DEF Told
  <2> QED BY <2>1, <2>2
<1>21. TxKept(r, lives, usedTx)
  <2>1. r.tx = j.tx /\ \A s \in Txs, c \in Budgets :
          r.alloc[s][c].amount = k.alloc[s][c].amount \/ (s = t /\ c = Unallocated)
    BY <1>17, <1>20 DEF SameRows
  <2>2. TxRowKept(r, lives, usedTx, t)
    BY <1>8, <1>9, <1>10, <1>12, <2>1 DEF TxRowKept
  <2>3. ASSUME NEW s \in Txs, s # t PROVE TxRowKept(r, lives, usedTx, s)
    <3>1. r.tx[s] = k.tx[s] /\ \A c \in Budgets : r.alloc[s][c].amount = k.alloc[s][c].amount
      BY <1>12, <2>1, <2>3
    <3>2. TxRowKept(k, lives, usedTx, s)
      BY <1>8 DEF TxKept
    <3> QED BY <3>1, <3>2 DEF TxRowKept
  <2> QED BY <2>2, <2>3 DEF TxKept
<1>22. ItxKept(r, lives, usedItx)
  <2>1. SameItxs(k, r)
    BY <1>12, <1>17, <1>20 DEF SameItxs, SameRows, SameItx
  <2> QED BY <1>8, <2>1, ItxKeptSame
<1>23. Kept(r, lives, usedTx, usedItx)
  BY <1>8, <1>20, <1>21, <1>22 DEF Kept
<1> QED BY <1>2, <1>7, <1>23 DEF SnapInv

\* The rows of t set to the amounts m, which only a living budget gets.
LEMMA SetAllocsKept ==
  ASSUME NEW k, NEW ls, NEW ut, NEW ui, Kept(k, ls, ut, ui), NEW t \in Txs, NEW m \in [Budgets -> Int],
         \A b \in Budgets : m[b] # 0 => k.tx[t] # NoTx /\ ~k.tx[t].pending /\ b \in ls,
         NEW r, r = SetAllocs(k, t, m, Budgets)
  PROVE  /\ Kept(r, ls, ut, ui) /\ r.tx = k.tx
         /\ \A b \in Budgets : r.alloc[t][b].amount = m[b]
<1>1. /\ k \in Books /\ ls \subseteq Budgets /\ Unallocated \in ls
      /\ TxKept(k, ls, ut) /\ ItxKept(k, ls, ui) /\ Told(k)
  BY DEF Kept
<1>2. AllocsSet(k, r, t, m, Budgets)
  BY <1>1, SetAllocsRows
<1>3. /\ r \in Books /\ r.tx = k.tx /\ SameItxs(k, r) /\ Told(r)
      /\ \A s \in Txs, c \in Budgets : r.alloc[s][c].amount = IF s = t THEN m[c] ELSE k.alloc[s][c].amount
  BY <1>1, <1>2 DEF AllocsSet, SameItxs, Told
<1>4. TxKept(r, ls, ut)
  <2> SUFFICES ASSUME NEW s \in Txs PROVE TxRowKept(r, ls, ut, s)
      BY DEF TxKept
  <2>1. TxRowKept(k, ls, ut, s)
    BY <1>1 DEF TxKept
  <2>2. CASE s = t
    BY <1>3, <2>1, <2>2 DEF TxRowKept
  <2>3. CASE s # t
    BY <1>3, <2>1, <2>3 DEF TxRowKept
  <2> QED BY <2>2, <2>3
<1>5. ItxKept(r, ls, ui)
  BY <1>1, <1>3, ItxKeptSame
<1> QED BY <1>1, <1>3, <1>4, <1>5 DEF Kept

LEMMA SplitKept ==
  ASSUME SnapInv, NEW t \in Txs, NEW m \in [Budgets \ {Unallocated} -> Parts \union {0}], Split(t, m)
  PROVE  SnapInv'
<1>1. PICK k : k = book
  OBVIOUS
<1>2. PICK r : r = book'
  OBVIOUS
<1>3. PICK sign : sign = IF k.tx[t].amount < 0 THEN -1 ELSE 1
  OBVIOUS
<1>4. PICK total : total = SumFunctionOnSet(m, DOMAIN m)
  OBVIOUS
<1>5. PICK rest : rest = sign * k.tx[t].amount - total
  OBVIOUS
<1>6. PICK w : w = [b \in Budgets |-> sign * (IF b = Unallocated THEN rest ELSE m[b])]
  OBVIOUS
<1>7. /\ r = SetAllocs(k, t, w, Budgets) /\ k.tx[t] # NoTx /\ ~k.tx[t].pending
      /\ \A b \in DOMAIN m : m[b] > 0 => b \in lives
      /\ lives' = lives /\ usedItx' = usedItx /\ usedTx' = usedTx
  BY <1>1, <1>2, <1>3, <1>4, <1>5, <1>6 DEF Split
<1>8. Kept(k, lives, usedTx, usedItx) /\ k \in Books /\ Unallocated \in lives
  BY <1>1 DEF SnapInv, Kept
<1>9. /\ DOMAIN m = Budgets \ {Unallocated} /\ \A b \in DOMAIN m : m[b] \in Nat /\ m[b] \in Int
      /\ IsFiniteSet(DOMAIN m)
  <2>1. Budgets \ {Unallocated} \in SUBSET Budgets
    OBVIOUS
  <2>2. IsFiniteSet(Budgets \ {Unallocated})
    BY <2>1, BudgetsAssumption, FS_Subset
  <2>3. DOMAIN m = Budgets \ {Unallocated}
    OBVIOUS
  <2>4. \A b \in DOMAIN m : m[b] \in Parts \union {0}
    OBVIOUS
  <2>5. \A n \in Parts : n \in Nat
    BY AmountsAssumption
  <2>6. ASSUME NEW b \in DOMAIN m PROVE m[b] \in Nat /\ m[b] \in Int
    <3>1. m[b] \in Parts \/ m[b] = 0
      BY <2>4
    <3>2. PICK n : n = m[b]
      OBVIOUS
    <3>3. n \in Parts \/ n = 0
      BY <3>1, <3>2
    <3>4. n \in Nat /\ n \in Int
      BY <2>5, <3>3
    <3> QED BY <3>2, <3>4
  <2> QED BY <2>2, <2>3, <2>6
<1>10. total \in Int
  BY <1>4, <1>9, SumInt
<1>11. k.tx[t].amount \in Int
  BY <1>8, BookRows DEF TxRow
<1>12. ASSUME NEW n \in Int PROVE sign * n \in Int /\ (sign * n = 0 <=> n = 0)
  BY <1>3
<1>13. rest \in Int
  BY <1>5, <1>10, <1>11, <1>12
<1>14. ASSUME NEW b \in Budgets PROVE w[b] \in Int /\ (w[b] # 0 => b \in lives)
  <2>1. CASE b = Unallocated
    BY <1>6, <1>8, <1>12, <1>13, <2>1
  <2>2. CASE b # Unallocated
    <3>1. b \in DOMAIN m /\ m[b] \in Nat
      BY <1>9, <2>2
    <3>2. w[b] = sign * m[b] /\ m[b] \in Int
      BY <1>6, <2>2, <3>1
    <3>3. w[b] \in Int /\ (w[b] = 0 <=> m[b] = 0)
      BY <1>12, <3>2
    <3>4. m[b] # 0 => m[b] > 0
      BY <3>1
    <3> QED BY <1>7, <3>1, <3>3, <3>4
  <2> QED BY <2>1, <2>2
<1>15. w \in [Budgets -> Int]
  BY <1>6, <1>14
<1>16. \A b \in Budgets : w[b] # 0 => k.tx[t] # NoTx /\ ~k.tx[t].pending /\ b \in lives
  BY <1>7, <1>14
<1>17. Kept(r, lives, usedTx, usedItx)
  BY <1>7, <1>8, <1>15, <1>16, SetAllocsKept
<1> QED BY <1>2, <1>7, <1>17 DEF SnapInv

LEMMA DeleteTxKept ==
  ASSUME SnapInv, NEW t \in Txs, DeleteTx(t)
  PROVE  SnapInv'
<1>1. PICK k : k = book
  OBVIOUS
<1>2. PICK r : r = book'
  OBVIOUS
<1>3. PICK z : z = [b \in Budgets |-> 0]
  OBVIOUS
<1>4. PICK q : q = SetAllocs(k, t, z, Budgets)
  OBVIOUS
<1>5. r = [q EXCEPT !.tx[t] = NoTx] /\ lives' = lives /\ usedItx' = usedItx /\ usedTx' = usedTx
  BY <1>1, <1>2, <1>3, <1>4 DEF DeleteTx
<1>6. Kept(k, lives, usedTx, usedItx) /\ z \in [Budgets -> Int] /\ \A b \in Budgets : z[b] = 0
  BY <1>1, <1>3 DEF SnapInv
<1>7. Kept(q, lives, usedTx, usedItx) /\ \A b \in Budgets : q.alloc[t][b].amount = z[b]
  BY <1>4, <1>6, SetAllocsKept
<1>8. /\ q \in Books /\ lives \subseteq Budgets /\ Unallocated \in lives
      /\ TxKept(q, lives, usedTx) /\ ItxKept(q, lives, usedItx) /\ Told(q)
  BY <1>7 DEF Kept
<1>9. \A b \in Budgets : q.alloc[t][b].amount = 0 /\ t \notin Allocs(q, b)
  BY <1>6, <1>7, <1>8, BookRows DEF Allocs
<1>10. PICK row : row = NoTx
  OBVIOUS
<1>11. row \in TxRow /\ r = [q EXCEPT !.tx[t] = row]
  BY <1>5, <1>10 DEF TxRow, NoTx
<1>12. RowSet(q, r, t, row)
  BY <1>8, <1>11, TxRowSet
<1>13. /\ r \in Books /\ r.tx[t] = row /\ r.alloc = q.alloc /\ r.itx = q.itx
       /\ \A s \in Txs \ {t} : r.tx[s] = q.tx[s]
       /\ \A c \in Budgets : SameFor(q, r, c)
  BY <1>9, <1>12 DEF RowSet
<1>14. Told(r)
  BY <1>8, <1>13, ToldSame
<1>15. TxKept(r, lives, usedTx)
  <2>1. TxRowKept(r, lives, usedTx, t)
    BY <1>9, <1>10, <1>13 DEF TxRowKept
  <2>2. ASSUME NEW s \in Txs, s # t PROVE TxRowKept(r, lives, usedTx, s)
    <3>1. TxRowKept(q, lives, usedTx, s)
      BY <1>8 DEF TxKept
    <3> QED BY <1>13, <2>2, <3>1 DEF TxRowKept
  <2> QED BY <2>1, <2>2 DEF TxKept
<1>16. ItxKept(r, lives, usedItx)
  BY <1>8, <1>13 DEF ItxKept, ItxRowKept
<1>17. Kept(r, lives, usedTx, usedItx)
  BY <1>8, <1>13, <1>14, <1>15, <1>16 DEF Kept
<1> QED BY <1>2, <1>5, <1>17 DEF SnapInv

-----------------------------------------------------------------------------
\* The rows of t, of the book k, in a book with the same ones.
LEMMA TxKeptSame ==
  ASSUME NEW k, NEW r, NEW ls, NEW ut, TxKept(k, ls, ut), r.tx = k.tx,
         \A s \in Txs, c \in Budgets : r.alloc[s][c].amount = k.alloc[s][c].amount
  PROVE  TxKept(r, ls, ut)
BY DEF TxKept, TxRowKept

\* Two budgets' events from a date on, recalculated once a transfer of that date is
\* there, or gone.
LEMMA BothSidesTold ==
  ASSUME NEW k \in Books, Told(k), NEW j \in Books, NEW row, row.src \in Budgets, row.dst \in Budgets,
         row.src # row.dst, NEW D \in Nat, NEW r, r = BothSides(j, row, D),
         \A c \in {row.src, row.dst} : SameUpTo(k, j, c, D),
         \A c \in Budgets \ {row.src, row.dst} : SameFor(k, j, c)
  PROVE  r \in Books /\ SameRows(j, r) /\ Told(r)
<1>1. \A c \in Budgets : Baseline(k, c) = Start(c) /\ Right(k, c)
  BY DEF Told
<1>2. \A c \in {row.src, row.dst} : Baseline(j, c) = Start(c) /\ RightBefore(j, c, D)
  <2> SUFFICES ASSUME NEW c \in {row.src, row.dst} PROVE Baseline(j, c) = Start(c) /\ RightBefore(j, c, D)
      OBVIOUS
  <2>1. c \in Budgets /\ SameUpTo(k, j, c, D)
    OBVIOUS
  <2>2. RightBefore(k, c, D)
    BY <1>1, <2>1, RightAlways
  <2>3. RightBefore(j, c, D)
    BY <2>1, <2>2, UpToRight
  <2> QED BY <1>1, <2>1, <2>3 DEF SameUpTo
<1>3. \A c \in Budgets \ {row.src, row.dst} : Baseline(j, c) = Start(c) /\ Right(j, c)
  <2> SUFFICES ASSUME NEW c \in Budgets \ {row.src, row.dst} PROVE Baseline(j, c) = Start(c) /\ Right(j, c)
      OBVIOUS
  <2>1. SameFor(k, j, c)
    OBVIOUS
  <2> QED BY <1>1, <2>1, SameForUpTo
<1>4. \A c \in {row.src, row.dst} : RightBefore(j, c, D)
  BY <1>2
<1>5. \A c \in Budgets \ {row.src, row.dst} : Right(j, c)
  BY <1>3
<1>6. r \in Books /\ SameRows(j, r) /\ \A c \in Budgets : Right(r, c)
  BY <1>4, <1>5, BothSidesRight
<1>7. \A c \in Budgets : Baseline(r, c) = Start(c)
  <2> SUFFICES ASSUME NEW c \in Budgets PROVE Baseline(r, c) = Start(c)
      OBVIOUS
  <2>1. Baseline(r, c) = Baseline(j, c)
    BY <1>6, SameRowsHeld
  <2> QED BY <1>2, <1>3, <2>1
<1> QED BY <1>6, <1>7 DEF Told

LEMMA TransferKept ==
  ASSUME SnapInv, NEW i \in Itxs, NEW x \in Budgets, NEW y \in Budgets, NEW a \in Parts, NEW d \in Dates,
         Transfer(i, x, y, a, d)
  PROVE  SnapInv'
<1>1. PICK k : k = book
  OBVIOUS
<1>2. PICK r : r = book'
  OBVIOUS
<1>3. PICK row : row = [src |-> x, dst |-> y, amount |-> a, date |-> d,
                        srcSnap |-> k.balance[x] - a, dstSnap |-> k.balance[y] + a]
  OBVIOUS
<1>4. PICK j : j = [k EXCEPT !.balance[x] = @ - a, !.balance[y] = @ + a, !.itx[i] = row]
  OBVIOUS
<1>5. /\ r = BothSides(j, row, d) /\ i \notin usedItx /\ x \in lives /\ y \in lives /\ x # y
      /\ lives' = lives /\ usedItx' = usedItx \union {i} /\ usedTx' = usedTx
  BY <1>1, <1>2, <1>3, <1>4 DEF Transfer
<1>6. /\ k \in Books /\ lives \subseteq Budgets /\ Unallocated \in lives
      /\ TxKept(k, lives, usedTx) /\ ItxKept(k, lives, usedItx) /\ Told(k)
  BY <1>1 DEF SnapInv, Kept
<1>7. k.itx[i] = NoItx
  BY <1>5, <1>6 DEF ItxKept, ItxRowKept
<1>8. /\ k.balance[x] \in Int /\ k.balance[y] \in Int /\ a \in Int /\ a # 0 /\ d \in Nat
  BY <1>6, BookRows, RowsAssumption, AmountsAssumption
<1>9. /\ row.src = x /\ row.dst = y /\ row.amount = a /\ row.date = d /\ row \in ItxRow /\ row # NoItx
  <2>1. row.src = x /\ row.dst = y /\ row.amount = a /\ row.date = d
    BY <1>3
  <2>2. row \in [src : Budgets, dst : Budgets, amount : Int, date : Nat, srcSnap : Int, dstSnap : Int]
    BY <1>3, <1>8
  <2> QED BY <1>5, <1>8, <2>1, <2>2 DEF ItxRow, NoItx
<1>10. Added(k, j, i, row)
  <2>1. /\ k.tx \in [Txs -> TxRow] /\ k.alloc \in [Txs -> [Budgets -> AllocRow]]
        /\ k.itx \in [Itxs -> ItxRow] /\ k.balance \in [Budgets -> Int]
        /\ k = [tx |-> k.tx, alloc |-> k.alloc, itx |-> k.itx, balance |-> k.balance]
    BY <1>6 DEF Books
  <2>2. PICK I : I = [k.itx EXCEPT ![i] = row]
    OBVIOUS
  <2>3. PICK B : B = [[k.balance EXCEPT ![x] = k.balance[x] - a] EXCEPT ![y] = k.balance[y] + a]
    OBVIOUS
  <2>8. PICK C : C = [k.balance EXCEPT ![x] = k.balance[x] - a]
    OBVIOUS
  <2>9. C \in [Budgets -> Int] /\ B = [C EXCEPT ![y] = k.balance[y] + a]
    BY <1>8, <2>1, <2>3, <2>8
  <2>10. PICK q : q = [k EXCEPT !.balance = C]
    OBVIOUS
  <2>11. q = [tx |-> k.tx, alloc |-> k.alloc, itx |-> k.itx, balance |-> C]
    BY <2>1, <2>10
  <2>12. j = [q EXCEPT !.balance[y] = k.balance[y] + a, !.itx[i] = row]
    BY <1>4, <2>8, <2>10
  <2>4. j = [tx |-> k.tx, alloc |-> k.alloc, itx |-> I, balance |-> B]
    BY <2>2, <2>9, <2>11, <2>12
  <2>5. I \in [Itxs -> ItxRow] /\ I[i] = row /\ \A h \in Itxs \ {i} : I[h] = k.itx[h]
    BY <1>9, <2>1, <2>2
  <2>6. /\ B \in [Budgets -> Int] /\ B[x] = k.balance[x] - a /\ B[y] = k.balance[y] + a
        /\ \A c \in Budgets \ {x, y} : B[c] = k.balance[c]
    BY <1>5, <1>8, <2>1, <2>3
  <2>7. j \in Books /\ j.tx = k.tx /\ j.alloc = k.alloc /\ j.itx = I /\ j.balance = B
    BY <2>1, <2>4, <2>5, <2>6 DEF Books
  <2> QED BY <1>6, <1>7, <1>9, <2>5, <2>6, <2>7 DEF Added
<1>11. j \in Books /\ j.tx = k.tx /\ j.alloc = k.alloc /\ j.itx[i] = row
       /\ \A h \in Itxs \ {i} : j.itx[h] = k.itx[h]
  BY <1>10 DEF Added
<1>12. \A c \in {row.src, row.dst} : SameUpTo(k, j, c, d)
  BY <1>9, <1>10, AddedUpTo
<1>13. \A c \in Budgets \ {row.src, row.dst} : SameFor(k, j, c)
  BY <1>10, AddedOthers
<1>14. row.src \in Budgets /\ row.dst \in Budgets /\ row.src # row.dst
  BY <1>5, <1>9
<1>15. r \in Books /\ SameRows(j, r) /\ Told(r)
  BY <1>5, <1>6, <1>8, <1>11, <1>12, <1>13, <1>14, BothSidesTold
<1>16. TxKept(r, lives, usedTx)
  <2>1. r.tx = k.tx /\ \A s \in Txs, c \in Budgets : r.alloc[s][c].amount = k.alloc[s][c].amount
    BY <1>11, <1>15 DEF SameRows
  <2> QED BY <1>6, <2>1, TxKeptSame
<1>17. ItxKept(r, lives, usedItx \union {i})
  <2> SUFFICES ASSUME NEW h \in Itxs PROVE ItxRowKept(r, lives, usedItx \union {i}, h)
      BY DEF ItxKept
  <2>1. SameItx(r.itx[h], j.itx[h]) /\ (r.itx[h] = NoItx <=> j.itx[h] = NoItx)
    BY <1>15 DEF SameRows
  <2>2. CASE h = i
    BY <1>5, <1>9, <1>11, <2>1, <2>2 DEF ItxRowKept, SameItx
  <2>3. CASE h # i
    <3>1. ItxRowKept(k, lives, usedItx, h) /\ j.itx[h] = k.itx[h]
      BY <1>6, <1>11, <2>3 DEF ItxKept
    <3> QED BY <2>1, <3>1 DEF ItxRowKept, SameItx
  <2> QED BY <2>2, <2>3
<1>18. Kept(r, lives, usedTx, usedItx \union {i})
  BY <1>6, <1>15, <1>16, <1>17 DEF Kept
<1> QED BY <1>2, <1>5, <1>18 DEF SnapInv

LEMMA DeleteTransferKept ==
  ASSUME SnapInv, NEW i \in Itxs, DeleteTransfer(i)
  PROVE  SnapInv'
<1>1. PICK k : k = book
  OBVIOUS
<1>2. PICK r : r = book'
  OBVIOUS
<1>3. PICK row : row = k.itx[i]
  OBVIOUS
<1>4. PICK j : j = [k EXCEPT !.balance[row.src] = @ + row.amount, !.balance[row.dst] = @ - row.amount,
                              !.itx[i] = NoItx]
  OBVIOUS
<1>5. /\ r = BothSides(j, row, row.date) /\ row # NoItx
      /\ lives' = lives /\ usedItx' = usedItx /\ usedTx' = usedTx
  BY <1>1, <1>2, <1>3, <1>4 DEF DeleteTransfer
<1>6. /\ k \in Books /\ lives \subseteq Budgets /\ Unallocated \in lives
      /\ TxKept(k, lives, usedTx) /\ ItxKept(k, lives, usedItx) /\ Told(k)
  BY <1>1 DEF SnapInv, Kept
<1>7. PICK x : x = row.src
  OBVIOUS
<1>8. PICK y : y = row.dst
  OBVIOUS
<1>9. PICK a : a = row.amount
  OBVIOUS
<1>10. /\ x \in Budgets /\ y \in Budgets /\ x # y /\ a \in Int /\ row.date \in Nat
       /\ k.balance[x] \in Int /\ k.balance[y] \in Int
  BY <1>3, <1>5, <1>6, <1>7, <1>8, <1>9, BookRows
<1>11. Added(j, k, i, row)
  <2>1. /\ k.tx \in [Txs -> TxRow] /\ k.alloc \in [Txs -> [Budgets -> AllocRow]]
        /\ k.itx \in [Itxs -> ItxRow] /\ k.balance \in [Budgets -> Int]
        /\ k = [tx |-> k.tx, alloc |-> k.alloc, itx |-> k.itx, balance |-> k.balance]
    BY <1>6 DEF Books
  <2>2. PICK I : I = [k.itx EXCEPT ![i] = NoItx]
    OBVIOUS
  <2>3. PICK B : B = [[k.balance EXCEPT ![x] = k.balance[x] + a] EXCEPT ![y] = k.balance[y] - a]
    OBVIOUS
  <2>10. PICK C : C = [k.balance EXCEPT ![x] = k.balance[x] + a]
    OBVIOUS
  <2>11. C \in [Budgets -> Int] /\ B = [C EXCEPT ![y] = k.balance[y] - a]
    BY <1>10, <2>1, <2>3, <2>10
  <2>12. PICK q : q = [k EXCEPT !.balance = C]
    OBVIOUS
  <2>13. q = [tx |-> k.tx, alloc |-> k.alloc, itx |-> k.itx, balance |-> C]
    BY <2>1, <2>12
  <2>14. j = [q EXCEPT !.balance[y] = k.balance[y] - a, !.itx[i] = NoItx]
    BY <1>4, <1>7, <1>8, <1>9, <2>10, <2>12
  <2>4. j = [tx |-> k.tx, alloc |-> k.alloc, itx |-> I, balance |-> B]
    BY <2>2, <2>11, <2>13, <2>14
  <2>8. NoItx \in ItxRow
    BY BudgetsAssumption DEF ItxRow, NoItx
  <2>5. I \in [Itxs -> ItxRow] /\ I[i] = NoItx /\ \A h \in Itxs \ {i} : I[h] = k.itx[h]
    BY <2>1, <2>2, <2>8
  <2>6. /\ B \in [Budgets -> Int] /\ B[x] = k.balance[x] + a /\ B[y] = k.balance[y] - a
        /\ \A c \in Budgets \ {x, y} : B[c] = k.balance[c]
    BY <1>10, <2>1, <2>3
  <2>7. j \in Books /\ j.tx = k.tx /\ j.alloc = k.alloc /\ j.itx = I /\ j.balance = B
    BY <2>1, <2>4, <2>5, <2>6 DEF Books
  <2>9. k.balance[x] = B[x] - a /\ k.balance[y] = B[y] + a
    BY <1>10, <2>6
  <2> QED BY <1>3, <1>5, <1>6, <1>7, <1>8, <1>9, <2>5, <2>6, <2>7, <2>9 DEF Added
<1>12. j \in Books /\ k.tx = j.tx /\ k.alloc = j.alloc /\ j.itx[i] = NoItx
       /\ \A h \in Itxs \ {i} : k.itx[h] = j.itx[h]
  BY <1>11 DEF Added
<1>13. \A c \in {row.src, row.dst} : SameUpTo(k, j, c, row.date)
  BY <1>11, AddedUpTo
<1>14. \A c \in Budgets \ {row.src, row.dst} : SameFor(k, j, c)
  BY <1>11, AddedOthers
<1>15. row.src \in Budgets /\ row.dst \in Budgets /\ row.src # row.dst
  BY <1>7, <1>8, <1>10
<1>16. r \in Books /\ SameRows(j, r) /\ Told(r)
  BY <1>5, <1>6, <1>10, <1>12, <1>13, <1>14, <1>15, BothSidesTold
<1>17. TxKept(r, lives, usedTx)
  <2>1. r.tx = k.tx /\ \A s \in Txs, c \in Budgets : r.alloc[s][c].amount = k.alloc[s][c].amount
    BY <1>12, <1>16 DEF SameRows
  <2> QED BY <1>6, <2>1, TxKeptSame
<1>18. ItxKept(r, lives, usedItx)
  <2> SUFFICES ASSUME NEW h \in Itxs PROVE ItxRowKept(r, lives, usedItx, h)
      BY DEF ItxKept
  <2>1. SameItx(r.itx[h], j.itx[h]) /\ (r.itx[h] = NoItx <=> j.itx[h] = NoItx)
    BY <1>16 DEF SameRows
  <2>2. CASE h = i
    BY <1>12, <2>1, <2>2 DEF ItxRowKept
  <2>3. CASE h # i
    <3>1. ItxRowKept(k, lives, usedItx, h) /\ j.itx[h] = k.itx[h]
      BY <1>6, <1>12, <2>3 DEF ItxKept
    <3> QED BY <2>1, <3>1 DEF ItxRowKept, SameItx
  <2> QED BY <2>2, <2>3
<1>19. Kept(r, lives, usedTx, usedItx)
  BY <1>6, <1>16, <1>17, <1>18 DEF Kept
<1> QED BY <1>2, <1>5, <1>19 DEF SnapInv

\* The transfers that b shares with c, of which c loses the earliest first.
Shared(k, b, c) == Moves(k, b) \intersect Moves(k, c)

LEMMA EarliestShared ==
  ASSUME book \in Books, NEW b, NEW c, Shared(book, b, c) # {}
  PROVE  Earliest(b, c) \in Nat /\ \A i \in Shared(book, b, c) : Earliest(b, c) <= book.itx[i].date
<1>1. PICK k : k = book
  OBVIOUS
<1>2. PICK S : S = Shared(k, b, c)
  OBVIOUS
<1>3. S \in SUBSET Itxs /\ S # {} /\ IsFiniteSet(Itxs) /\ k \in Books
  BY <1>1, <1>2, EventSets, RowsAssumption DEF Shared
<1>4. \A i \in Itxs : k.itx[i].date \in Nat
  BY <1>3, BookRows
<1>5. PICK E : E = {k.itx[i].date : i \in S}
  OBVIOUS
<1>6. \E d \in E : \A i \in S : d <= k.itx[i].date
  <2>1. \A T \in SUBSET Itxs : T # {} => \E x \in T : \A y \in T : y = x \/ <<x, y>> \in ItxOrder(k)
    BY <1>3, ItxLine, LinesFirst
  <2>2. PICK x \in S : \A y \in S : y = x \/ <<x, y>> \in ItxOrder(k)
    BY <1>3, <2>1
  <2>3. \A y \in S : y = x \/ ItxBefore(k, x, y)
    BY <1>3, <2>2, ItxLine
  <2>4. \A y \in S : k.itx[x].date <= k.itx[y].date
    BY <1>3, <1>4, <2>2, <2>3 DEF ItxBefore
  <2>5. k.itx[x].date \in E
    BY <1>5, <2>2
  <2> QED BY <2>4, <2>5
<1>7. Earliest(b, c) = CHOOSE d \in E : \A i \in S : d <= k.itx[i].date
  BY <1>1, <1>2, <1>5 DEF Earliest, Shared
<1>8. PICK e : e = Earliest(b, c)
  OBVIOUS
<1>9. e \in E /\ \A i \in S : e <= k.itx[i].date
  BY <1>6, <1>7, <1>8
<1>10. e \in Nat
  BY <1>3, <1>4, <1>5, <1>9
<1> QED BY <1>1, <1>2, <1>8, <1>9, <1>10

\* j is k without the transfers of b, whose money is back where it came from.
Stripped(k, j, b) ==
  /\ j \in Books /\ j.tx = k.tx /\ j.alloc = k.alloc
  /\ \A c \in Budgets : c # b => j.balance[c] = k.balance[c] - MoveSum(k, c, Shared(k, b, c))
  /\ j.balance[b] = 0
  /\ \A i \in Itxs : j.itx[i] = IF i \in Moves(k, b) THEN NoItx ELSE k.itx[i]

LEMMA StrippedRows ==
  ASSUME NEW k \in Books, NEW b \in Budgets, NEW B, NEW I, NEW j, j = [k EXCEPT !.balance = B, !.itx = I],
         B = [c \in Budgets |-> IF c = b THEN 0 ELSE k.balance[c] - MoveSum(k, c, Shared(k, b, c))],
         I = [i \in Itxs |-> IF i \in Moves(k, b) THEN NoItx ELSE k.itx[i]]
  PROVE  Stripped(k, j, b)
<1>1. /\ k.tx \in [Txs -> TxRow] /\ k.alloc \in [Txs -> [Budgets -> AllocRow]]
      /\ k.itx \in [Itxs -> ItxRow] /\ k.balance \in [Budgets -> Int]
      /\ k = [tx |-> k.tx, alloc |-> k.alloc, itx |-> k.itx, balance |-> k.balance]
  BY DEF Books
<1>2. j = [tx |-> k.tx, alloc |-> k.alloc, itx |-> I, balance |-> B]
  BY <1>1
<1>3. \A c \in Budgets : B[c] \in Int
  <2> SUFFICES ASSUME NEW c \in Budgets PROVE B[c] \in Int
      OBVIOUS
  <2>1. Shared(k, b, c) \in SUBSET Itxs
    BY EventSets DEF Shared
  <2>2. MoveSum(k, c, Shared(k, b, c)) \in Int /\ k.balance[c] \in Int
    BY <2>1, MoveSums, BookRows
  <2> QED BY <2>2
<1>4. NoItx \in ItxRow
  BY BudgetsAssumption DEF ItxRow, NoItx
<1>5. B \in [Budgets -> Int] /\ I \in [Itxs -> ItxRow]
  BY <1>1, <1>3, <1>4
<1>6. j \in Books /\ j.tx = k.tx /\ j.alloc = k.alloc /\ j.balance = B /\ j.itx = I
  BY <1>1, <1>2, <1>5 DEF Books
<1> QED BY <1>6 DEF Stripped

LEMMA StrippedMoves ==
  ASSUME NEW k \in Books, NEW b \in Budgets, NEW j, Stripped(k, j, b), NEW c \in Budgets \ {b}
  PROVE  /\ Moves(j, c) = Moves(k, c) \ Shared(k, b, c) /\ Shared(k, b, c) \subseteq Moves(k, c)
         /\ \A i \in Moves(j, c) : j.itx[i] = k.itx[i]
         /\ Allocs(j, c) = Allocs(k, c) /\ Baseline(j, c) = Baseline(k, c)
<1>1. /\ j \in Books /\ j.tx = k.tx /\ j.alloc = k.alloc
      /\ j.balance[c] = k.balance[c] - MoveSum(k, c, Shared(k, b, c))
      /\ \A i \in Itxs : j.itx[i] = IF i \in Moves(k, b) THEN NoItx ELSE k.itx[i]
  BY DEF Stripped
<1>2. PICK S : S = Shared(k, b, c)
  OBVIOUS
<1>3. PICK M : M = Moves(k, c)
  OBVIOUS
<1>4. PICK N : N = M \ S
  OBVIOUS
<1>5. /\ M \in SUBSET Itxs /\ S \in SUBSET Itxs /\ N \in SUBSET Itxs
      /\ S \subseteq M /\ M = N \union S /\ N \intersect S = {}
  BY <1>2, <1>3, <1>4, EventSets DEF Shared
<1>6. Moves(j, c) = N
  BY <1>1, <1>2, <1>3, <1>4 DEF Moves, Shared
<1>7. \A i \in N : j.itx[i] = k.itx[i]
  BY <1>1, <1>2, <1>3, <1>4, <1>5 DEF Shared
<1>8. Allocs(j, c) = Allocs(k, c)
  BY <1>1 DEF Allocs
<1>9. AllocSum(j, c, Allocs(j, c)) = AllocSum(k, c, Allocs(k, c))
  BY <1>1, <1>8 DEF AllocSum
<1>10. MoveSum(j, c, N) = MoveSum(k, c, N)
  <2>1. \A i \in N : SameItx(j.itx[i], k.itx[i])
    BY <1>7 DEF SameItx
  <2> QED BY <1>1, <1>5, <2>1, MoveSumSame
<1>11. MoveSum(k, c, M) = MoveSum(k, c, N) + MoveSum(k, c, S)
  <2>1. \A X, Y \in SUBSET Itxs :
          X \intersect Y = {} => MoveSum(k, c, X \union Y) = MoveSum(k, c, X) + MoveSum(k, c, Y)
    BY MoveSums
  <2> QED BY <1>5, <2>1
<1>12. /\ AllocSum(k, c, Allocs(k, c)) \in Int /\ MoveSum(k, c, N) \in Int /\ MoveSum(k, c, S) \in Int
       /\ k.balance[c] \in Int
  BY <1>5, AllocSums, MoveSums, EventSets, BookRows
<1>13. /\ Baseline(k, c) = k.balance[c] - AllocSum(k, c, Allocs(k, c)) - MoveSum(k, c, M)
       /\ Baseline(j, c) = j.balance[c] - AllocSum(j, c, Allocs(j, c)) - MoveSum(j, c, N)
  BY <1>3, <1>6 DEF Baseline
<1>14. Baseline(j, c) = Baseline(k, c)
  BY <1>1, <1>2, <1>9, <1>10, <1>11, <1>12, <1>13
<1> QED BY <1>2, <1>3, <1>4, <1>5, <1>6, <1>7, <1>8, <1>14

\* A budget that shares no transfer with b keeps all its events.
LEMMA StrippedOthers ==
  ASSUME NEW k \in Books, NEW b \in Budgets, NEW j, Stripped(k, j, b), NEW c \in Budgets \ {b},
         Shared(k, b, c) = {}
  PROVE  SameFor(k, j, c)
<1>1. /\ Moves(j, c) = Moves(k, c) \ Shared(k, b, c)
      /\ \A i \in Moves(j, c) : j.itx[i] = k.itx[i]
      /\ Allocs(j, c) = Allocs(k, c)
  BY StrippedMoves
<1>2. j.tx = k.tx /\ j.alloc = k.alloc /\ j.balance[c] = k.balance[c] - MoveSum(k, c, {})
  BY DEF Stripped
<1>3. MoveSum(k, c, {}) = 0 /\ k.balance[c] \in Int
  BY MoveSums, BookRows
<1>4. Moves(j, c) = Moves(k, c) /\ j.balance[c] = k.balance[c]
  BY <1>1, <1>2, <1>3
<1> QED BY <1>1, <1>2, <1>4 DEF SameFor, SameItx, Snap

\* And one that shares some, those before the earliest.
LEMMA StrippedUpTo ==
  ASSUME NEW k \in Books, NEW b \in Budgets, NEW j, Stripped(k, j, b), NEW c \in Budgets \ {b},
         NEW D \in Nat, \A i \in Shared(k, b, c) : D <= k.itx[i].date
  PROVE  SameUpTo(k, j, c, D)
<1>1. /\ Moves(j, c) = Moves(k, c) \ Shared(k, b, c)
      /\ \A i \in Moves(j, c) : j.itx[i] = k.itx[i]
      /\ Allocs(j, c) = Allocs(k, c) /\ Baseline(j, c) = Baseline(k, c)
  BY StrippedMoves
<1>2. j.tx = k.tx /\ j.alloc = k.alloc
  BY DEF Stripped
<1>3. SameAllocsUpTo(k, j, c, D)
  BY <1>1, <1>2 DEF SameAllocsUpTo
<1>4. SameMovesUpTo(k, j, c, D)
  <2> SUFFICES ASSUME NEW i \in Itxs
               PROVE  /\ (i \in Moves(j, c) /\ j.itx[i].date < D) <=> (i \in Moves(k, c) /\ k.itx[i].date < D)
                      /\ i \in Moves(k, c) /\ k.itx[i].date < D =>
                           SameItx(j.itx[i], k.itx[i]) /\ Snap(j, c, i) = Snap(k, c, i)
      BY DEF SameMovesUpTo
  <2>1. k.itx[i].date \in Nat
    BY BookRows
  <2>2. i \in Moves(k, c) /\ k.itx[i].date < D => i \in Moves(j, c)
    BY <1>1, <2>1
  <2>3. i \in Moves(j, c) => i \in Moves(k, c) /\ j.itx[i] = k.itx[i]
    BY <1>1
  <2> QED BY <2>2, <2>3 DEF SameItx, Snap
<1> QED BY <1>1, <1>3, <1>4 DEF SameUpTo

RecalcAll(b, k, S) == FoldSet(LAMBDA c, j : RecalculateFromDt(j, c, Earliest(b, c)), k, S)

LEMMA RecalcsChosen ==
  ASSUME NEW b, NEW k, NEW S
  PROVE  RecalcAll(b, k, S) = (CHOOSE g : Recalcs(b, k, S, g))[S]
BY DEF RecalcAll, FoldSet, MapThenFoldSet, Recalcs

LEMMA DeleteBudgetKept ==
  ASSUME SnapInv, NEW b \in Budgets, DeleteBudget(b)
  PROVE  SnapInv'
<1>1. PICK k : k = book
  OBVIOUS
<1>2. PICK r : r = book'
  OBVIOUS
<1>3. PICK S : S = {Other(k.itx[i], b) : i \in Moves(k, b)}
  OBVIOUS
<1>4. PICK B : B = [c \in Budgets |-> IF c = b THEN 0 ELSE k.balance[c] - MoveSum(k, c, Shared(k, b, c))]
  OBVIOUS
<1>5. PICK I : I = [i \in Itxs |-> IF i \in Moves(k, b) THEN NoItx ELSE k.itx[i]]
  OBVIOUS
<1>6. PICK j : j = [k EXCEPT !.balance = B, !.itx = I]
  OBVIOUS
<1>7. /\ b \in lives /\ b # Unallocated /\ Allocs(k, b) = {}
      /\ lives' = lives \ {b} /\ usedTx' = usedTx /\ usedItx' = usedItx
  BY <1>1 DEF DeleteBudget
<1>8. r = (CHOOSE g : Recalcs(b, j, S, g))[S]
  <2> DEFINE lost == Moves(book, b)
             others == {Other(book.itx[i], b) : i \in lost}
             stripped ==
               [book EXCEPT
                 !.balance = [c \in Budgets |->
                                IF c = b THEN 0
                                ELSE @[c] - MoveSum(book, c, lost \intersect Moves(book, c))],
                 !.itx = [i \in Itxs |-> IF i \in lost THEN NoItx ELSE @[i]]]
  <2>1. book' = RecalcAll(b, stripped, others)
    BY DEF DeleteBudget, RecalcAll
  <2>2. others = S
    BY <1>1, <1>3
  <2>3. stripped = j
    BY <1>1, <1>4, <1>5, <1>6 DEF Shared
  <2> HIDE DEF stripped, others
  <2>4. r = RecalcAll(b, j, S)
    BY <1>2, <2>1, <2>2, <2>3
  <2> QED BY <2>4, RecalcsChosen
<1>9. /\ k \in Books /\ lives \subseteq Budgets /\ Unallocated \in lives
      /\ TxKept(k, lives, usedTx) /\ ItxKept(k, lives, usedItx) /\ Told(k)
  BY <1>1 DEF SnapInv, Kept
<1>10. Stripped(k, j, b)
  BY <1>4, <1>5, <1>6, <1>9, StrippedRows
<1>11. /\ j \in Books /\ j.tx = k.tx /\ j.alloc = k.alloc /\ j.balance[b] = 0
       /\ \A i \in Itxs : j.itx[i] = IF i \in Moves(k, b) THEN NoItx ELSE k.itx[i]
  BY <1>10 DEF Stripped
\* The counterparties are the budgets that share a transfer with b.
<1>12. S \in SUBSET Budgets /\ b \notin S
       /\ \A c \in Budgets \ {b} : c \in S <=> Shared(k, b, c) # {}
  <2>1. \A i \in Moves(k, b) : /\ i \in Itxs /\ k.itx[i] # NoItx /\ b \in {k.itx[i].src, k.itx[i].dst}
                               /\ k.itx[i].src # k.itx[i].dst
                               /\ k.itx[i].src \in Budgets /\ k.itx[i].dst \in Budgets
    BY <1>9, BookRows DEF Moves
  <2>2. \A i \in Moves(k, b) : Other(k.itx[i], b) \in Budgets /\ Other(k.itx[i], b) # b
                               /\ Other(k.itx[i], b) \in {k.itx[i].src, k.itx[i].dst}
    BY <2>1 DEF Other
  <2>3. S \in SUBSET Budgets /\ b \notin S
    BY <1>3, <2>2
  <2>4. ASSUME NEW c \in S PROVE Shared(k, b, c) # {}
    <3>1. PICK i \in Moves(k, b) : c = Other(k.itx[i], b)
      BY <1>3
    <3>2. i \in Moves(k, c)
      BY <2>1, <2>2, <3>1 DEF Moves
    <3> QED BY <3>1, <3>2 DEF Shared
  <2>5. ASSUME NEW c \in Budgets, c # b, Shared(k, b, c) # {} PROVE c \in S
    <3>1. PICK i : i \in Moves(k, b) /\ i \in Moves(k, c)
      BY <2>5 DEF Shared
    <3>2. c \in {k.itx[i].src, k.itx[i].dst}
      BY <3>1 DEF Moves
    <3>3. c = Other(k.itx[i], b)
      BY <2>1, <2>5, <3>1, <3>2 DEF Other
    <3> QED BY <1>3, <3>1, <3>3
  <2> QED BY <2>3, <2>4, <2>5
<1>13. \A c \in S : Earliest(b, c) \in Nat /\ \A i \in Shared(k, b, c) : Earliest(b, c) <= k.itx[i].date
  <2> SUFFICES ASSUME NEW c \in S
               PROVE  Earliest(b, c) \in Nat /\ \A i \in Shared(k, b, c) : Earliest(b, c) <= k.itx[i].date
      OBVIOUS
  <2>1. Shared(book, b, c) # {} /\ book \in Books
    BY <1>1, <1>9, <1>12
  <2> QED BY <1>1, <2>1, EarliestShared
<1>14. RecalcSet(b, j, r, S)
  <2>1. \A c \in S : Earliest(b, c) \in Nat
    BY <1>13
  <2> QED BY <1>8, <1>11, <1>12, <2>1, RecalcsRows
<1>15. /\ r \in Books /\ SameRows(j, r)
       /\ \A c \in S : RightBefore(j, c, Earliest(b, c)) => Right(r, c)
       /\ \A c \in Budgets \ S : SameFor(j, r, c)
  BY <1>14 DEF RecalcSet
<1>16. \A c \in Budgets : Baseline(k, c) = Start(c) /\ Right(k, c)
  BY <1>9 DEF Told
<1>17. Told(r)
  <2> SUFFICES ASSUME NEW c \in Budgets PROVE Baseline(r, c) = Start(c) /\ Right(r, c)
      BY DEF Told
  <2>1. CASE c = b
    <3>1. Allocs(j, b) = {} /\ Moves(j, b) = {}
      BY <1>7, <1>11 DEF Allocs, Moves
    <3>2. /\ Allocs(r, b) = Allocs(j, b) /\ Moves(r, b) = Moves(j, b) /\ Baseline(r, b) = Baseline(j, b)
      BY <1>11, <1>15, SameRowsHeld
    <3>3. AllocSum(j, b, {}) = 0 /\ MoveSum(j, b, {}) = 0
      BY <1>11, AllocSums, MoveSums
    <3>4. Baseline(j, b) = 0 - 0 - 0
      BY <1>11, <3>1, <3>3 DEF Baseline
    <3>5. Start(b) = 0
      BY <1>7 DEF Start
    <3>6. Right(r, b)
      BY <3>1, <3>2 DEF Right
    <3> QED BY <2>1, <3>2, <3>4, <3>5, <3>6
  <2>2. CASE c \in S
    <3>1. PICK D : D = Earliest(b, c)
      OBVIOUS
    <3>2. D \in Nat /\ (\A i \in Shared(k, b, c) : D <= k.itx[i].date) /\ c \in Budgets \ {b}
      BY <1>12, <1>13, <2>2, <3>1
    <3>3. SameUpTo(k, j, c, D)
      BY <1>9, <1>10, <3>2, StrippedUpTo
    <3>4. RightBefore(k, c, D)
      BY <1>9, <1>16, <3>2, RightAlways
    <3>5. RightBefore(j, c, D)
      BY <1>9, <1>11, <3>2, <3>3, <3>4, UpToRight
    <3>6. Right(r, c)
      BY <1>15, <2>2, <3>1, <3>5
    <3>7. Baseline(r, c) = Baseline(j, c)
      BY <1>11, <1>15, SameRowsHeld
    <3> QED BY <1>16, <3>3, <3>6, <3>7 DEF SameUpTo
  <2>3. CASE c # b /\ c \notin S
    <3>1. c \in Budgets \ {b} /\ Shared(k, b, c) = {}
      BY <1>12, <2>3
    <3>2. SameFor(k, j, c)
      BY <1>9, <1>10, <3>1, StrippedOthers
    <3>3. Baseline(j, c) = Baseline(k, c) /\ (Right(k, c) => Right(j, c))
      BY <1>9, <1>11, <3>2, SameForUpTo
    <3>4. SameFor(j, r, c)
      BY <1>15, <2>3
    <3>5. Baseline(r, c) = Baseline(j, c) /\ (Right(j, c) => Right(r, c))
      BY <1>11, <1>15, <3>4, SameForUpTo
    <3> QED BY <1>16, <3>3, <3>5
  <2> QED BY <2>1, <2>2, <2>3
<1>18. TxKept(r, lives \ {b}, usedTx)
  <2>1. r.tx = k.tx /\ \A s \in Txs, c \in Budgets : r.alloc[s][c].amount = k.alloc[s][c].amount
    BY <1>11, <1>15 DEF SameRows
  <2>2. \A s \in Txs : k.alloc[s][b].amount = 0
    BY <1>7, <1>9, BookRows DEF Allocs
  <2>3. ASSUME NEW s \in Txs PROVE TxRowKept(r, lives \ {b}, usedTx, s)
    <3>1. TxRowKept(k, lives, usedTx, s)
      BY <1>9 DEF TxKept
    <3> QED BY <2>1, <2>2, <3>1 DEF TxRowKept
  <2> QED BY <2>3 DEF TxKept
<1>19. ItxKept(r, lives \ {b}, usedItx)
  <2> SUFFICES ASSUME NEW i \in Itxs, r.itx[i] # NoItx PROVE ItxRowKept(r, lives \ {b}, usedItx, i)
      BY DEF ItxKept, ItxRowKept
  <2>1. SameItx(r.itx[i], j.itx[i]) /\ j.itx[i] # NoItx
    BY <1>15 DEF SameRows
  <2>2. i \notin Moves(k, b) /\ j.itx[i] = k.itx[i] /\ k.itx[i] # NoItx
    BY <1>11, <2>1
  <2>3. k.itx[i].src # b /\ k.itx[i].dst # b
    BY <2>2 DEF Moves
  <2>4. ItxRowKept(k, lives, usedItx, i)
    BY <1>9 DEF ItxKept
  <2> QED BY <2>1, <2>2, <2>3, <2>4 DEF ItxRowKept, SameItx
<1>20. Kept(r, lives \ {b}, usedTx, usedItx)
  BY <1>7, <1>9, <1>15, <1>17, <1>18, <1>19 DEF Kept
<1> QED BY <1>2, <1>7, <1>20 DEF SnapInv

-----------------------------------------------------------------------------
(* The properties.                                                           *)

LEMMA SnapStep ==
  ASSUME SnapInv, [Next]_vars
  PROVE  SnapInv'
<1>1. CASE UNCHANGED vars
  BY <1>1 DEF vars, SnapInv
<1>2. ASSUME NEW t \in Txs, NEW d \in Dates, NEW a \in Amounts, NEW p \in BOOLEAN, CreateTx(t, d, a, p)
      PROVE  SnapInv'
  BY <1>2, CreateTxKept
<1>3. ASSUME NEW t \in Txs, NEW d \in Dates, NEW a \in Amounts, Resolve(t, d, a) PROVE SnapInv'
  BY <1>3, ResolveKept
<1>4. ASSUME NEW t \in Txs, NEW m \in [Budgets \ {Unallocated} -> Parts \union {0}], Split(t, m)
      PROVE  SnapInv'
  BY <1>4, SplitKept
<1>5. ASSUME NEW t \in Txs, DeleteTx(t) PROVE SnapInv'
  BY <1>5, DeleteTxKept
<1>6. ASSUME NEW i \in Itxs, NEW s \in Budgets, NEW d \in Budgets, NEW a \in Parts, NEW e \in Dates,
             Transfer(i, s, d, a, e)
      PROVE  SnapInv'
  BY <1>6, TransferKept
<1>7. ASSUME NEW i \in Itxs, DeleteTransfer(i) PROVE SnapInv'
  BY <1>7, DeleteTransferKept
<1>8. ASSUME NEW b \in Budgets, DeleteBudget(b) PROVE SnapInv'
  BY <1>8, DeleteBudgetKept
<1> QED BY <1>1, <1>2, <1>3, <1>4, <1>5, <1>6, <1>7, <1>8 DEF Next, TxStep, TransferStep

LEMMA SnapInvariant == Spec => []SnapInv
<1>1. Init => SnapInv
  BY InitKept
<1>2. SnapInv /\ [Next]_vars => SnapInv'
  BY SnapStep
<1> QED BY <1>1, <1>2, PTL DEF Spec

LEMMA SnapTyped ==
  ASSUME SnapInv
  PROVE  TypeOK
<1>1. /\ book \in Books /\ TxKept(book, lives, usedTx) /\ ItxKept(book, lives, usedItx)
  BY DEF SnapInv, Kept
<1>2. book.tx \in [Txs -> [date : Dates, amount : Int, pending : BOOLEAN] \union {NoTx}]
  <2>1. book.tx \in [Txs -> TxRow]
    BY <1>1 DEF Books
  <2>2. \A t \in Txs : book.tx[t] \in [date : Dates, amount : Int, pending : BOOLEAN] \union {NoTx}
    BY <1>1 DEF TxKept, TxRowKept
  <2> QED BY <2>1, <2>2
<1>3. ASSUME NEW t \in Txs, NEW b \in Budgets
      PROVE  /\ book.alloc[t][b] \in [amount : Int, snap : Int]
             /\ book.alloc[t][b] # NoAlloc => book.tx[t] # NoTx /\ b \in lives
  <2>1. book.alloc[t][b] \in AllocRow /\ (book.alloc[t][b] = NoAlloc <=> book.alloc[t][b].amount = 0)
    BY <1>1, BookRows
  <2>2. TxRowKept(book, lives, usedTx, t)
    BY <1>1 DEF TxKept
  <2> QED BY <2>1, <2>2 DEF AllocRow, TxRowKept
<1>4. \A i \in Itxs : book.itx[i] # NoItx =>
        /\ {book.itx[i].src, book.itx[i].dst} \subseteq lives
        /\ book.itx[i].amount \in Parts
  BY <1>1 DEF ItxKept, ItxRowKept
<1>5. book.balance \in [Budgets -> Int]
  BY <1>1 DEF Books
<1> QED BY <1>2, <1>3, <1>4, <1>5 DEF TypeOK

LEMMA SnapAllocs ==
  ASSUME SnapInv
  PROVE  AllocationSnapshots
<1>1. book \in Books /\ lives \subseteq Budgets /\ Told(book)
  BY DEF SnapInv, Kept
<1> SUFFICES ASSUME NEW b \in lives, NEW t \in Allocs(book, b)
             PROVE  book.alloc[t][b].snap = HeldAfterAlloc(book, b, t)
    BY DEF AllocationSnapshots
<1>2. Baseline(book, b) = Start(b) /\ RightAlloc(book, b, t)
  BY <1>1 DEF Told, Right
<1> QED BY <1>2 DEF RightAlloc, AtAlloc, HeldAfterAlloc, Start

LEMMA SnapItxs ==
  ASSUME SnapInv
  PROVE  TransferSnapshots
<1>1. book \in Books /\ lives \subseteq Budgets /\ Told(book)
  BY DEF SnapInv, Kept
<1> SUFFICES ASSUME NEW b \in lives, NEW i \in Moves(book, b)
             PROVE  Snap(book, b, i) = HeldAfterItx(book, b, i)
    BY DEF TransferSnapshots, Snap
<1>2. Baseline(book, b) = Start(b) /\ RightItx(book, b, i)
  BY <1>1 DEF Told, Right
<1> QED BY <1>2 DEF RightItx, AtItx, HeldAfterItx, Start

\* The rows have their types for any number of rows, budgets, dates and amounts: what
\* budget.delete or transaction.delete leaves behind belongs to living budgets and to
\* transactions that are there.
THEOREM TypeCorrect == Spec => []TypeOK
BY SnapInvariant, SnapTyped, PTL

\* Every allocation's budget_balance is what its budget held just after it, in
\* the order of dates, whichever calls inserted, settled at another date, split or
\* removed events before it: _recalculate_running_balances and the anchors its callers
\* choose keep the whole timeline right.
THEOREM AllocationSnapshotsCorrect == Spec => []AllocationSnapshots
BY SnapInvariant, SnapAllocs, PTL

\* And so is each side's snapshot of every internal transaction, those of the other
\* side of a deleted budget's transfers included: recalculate_itx_snapshots_from_dt.
THEOREM TransferSnapshotsCorrect == Spec => []TransferSnapshots
BY SnapInvariant, SnapItxs, PTL
=============================================================================
