----------------------------- MODULE Snapshots -----------------------------
(***************************************************************************)
(* The running balances of one account's budgets.  Every allocation and    *)
(* both sides of every internal transaction store the budget's balance     *)
(* just after them; inserting, moving or removing an event at a past date  *)
(* must rewrite the later ones, which service/transaction_allocation.py    *)
(* does from an anchor: the last allocation before that date.              *)
(*                                                                         *)
(* Each service call runs under its locks and in one database transaction  *)
(* (RowLocks checks that), so a call is one action here.  The whole of the *)
(* rows is one record, a book, and each call is the composition of the     *)
(* functions on books that its statements are.                             *)
(***************************************************************************)
EXTENDS Integers, FiniteSetsExt, Functions

CONSTANTS
  Budgets,       \* the account's budgets
  Unallocated,
  Opening,       \* Unallocated's balance when the account was created
  Txs,           \* bound: transactions, numbered in the order of created_at
  Itxs,          \* bound: internal transactions, likewise
  Dates,         \* transaction_date and effective_date
  Amounts,       \* signed amounts of transactions
  Parts          \* amounts of transfers and of split parts

ASSUME BudgetsAssumption == Unallocated \in Budgets /\ IsFiniteSet(Budgets)
ASSUME RowsAssumption ==
  /\ Txs \subseteq Nat /\ Itxs \subseteq Nat /\ Dates \subseteq Nat
  /\ IsFiniteSet(Txs) /\ IsFiniteSet(Itxs)
ASSUME AmountsAssumption ==
  /\ Opening \in Int /\ Amounts \subseteq Int /\ 0 \notin Amounts
  /\ Parts \subseteq Nat \ {0}

VARIABLES
  book,     \* the rows
  lives,    \* the budgets not deleted
  usedTx, usedItx    \* the rows created so far, deleted ones included

vars == <<book, lives, usedTx, usedItx>>

\* datetime.min
Never == -1

NoTx == [date |-> 0, amount |-> 0, pending |-> FALSE]
NoAlloc == [amount |-> 0, snap |-> 0]
NoItx == [src |-> Unallocated, dst |-> Unallocated, amount |-> 0, date |-> 0,
          srcSnap |-> 0, dstSnap |-> 0]

-----------------------------------------------------------------------------
(* A budget's events in a book k.                                          *)

Allocs(k, b) == {t \in Txs : k.alloc[t][b] # NoAlloc}
Moves(k, b) == {i \in Itxs : k.itx[i] # NoItx /\ b \in {k.itx[i].src, k.itx[i].dst}}

Moved(k, b, i) == IF k.itx[i].src = b THEN -k.itx[i].amount ELSE k.itx[i].amount

AllocSum(k, b, S) == SumFunctionOnSet([t \in Txs |-> k.alloc[t][b].amount], S)
MoveSum(k, b, S) == SumFunctionOnSet([i \in Itxs |-> Moved(k, b, i)], S)

\* (transaction_date, transaction.created_at)
TxBefore(k, s, t) ==
  \/ k.tx[s].date < k.tx[t].date
  \/ k.tx[s].date = k.tx[t].date /\ s < t
\* (effective_date, created_at)
ItxBefore(k, i, j) ==
  \/ k.itx[i].date < k.itx[j].date
  \/ k.itx[i].date = k.itx[j].date /\ i < j

\* The last and the first of a set of allocations.
LastOf(k, S) == CHOOSE t \in S : \A s \in S : s = t \/ TxBefore(k, s, t)
FirstOf(k, S) == CHOOSE t \in S : \A s \in S : s = t \/ TxBefore(k, t, s)

\* The balance before every recorded event, which no row stores.
Baseline(k, b) ==
  k.balance[b] - AllocSum(k, b, Allocs(k, b)) - MoveSum(k, b, Moves(k, b))

-----------------------------------------------------------------------------
(* The recalculations.                                                     *)

\* Mutant: a transfer at the date of an allocation is counted after it.
HalfOpen(k, b, after, before) ==
  MoveSum(k, b, {i \in Moves(k, b) : k.itx[i].date >= after /\ k.itx[i].date < before})

\* _internal_transaction_delta: what transfers in (after, before] moved.
InternalDelta(k, b, after, before) ==
  MoveSum(k, b, {i \in Moves(k, b) : k.itx[i].date > after /\ k.itx[i].date <= before})

\* The balances after the allocations Forward, in their order, when it was start
\* after the allocation of the date since.
RunningAllocs(k, b, Forward, start, since) ==
  LET running[s \in Forward] ==
        LET Walked == {r \in Forward : TxBefore(k, r, s)}
            prev == LastOf(k, Walked)
        IN (IF Walked = {} THEN start + InternalDelta(k, b, since, k.tx[s].date)
            ELSE running[prev] + InternalDelta(k, b, k.tx[prev].date, k.tx[s].date))
           + k.alloc[s][b].amount
  IN running

\* _recalculate_running_balances: from transaction t on, running on from the
\* snapshot of the allocation before it, or from the baseline.
RunAllocs(k, b, t) ==
  LET Prior == {s \in Allocs(k, b) : TxBefore(k, s, t)}
      Forward == Allocs(k, b) \ Prior
      start == IF Prior = {} THEN Baseline(k, b) ELSE k.alloc[LastOf(k, Prior)][b].snap
      since == IF Prior = {} THEN Never ELSE k.tx[LastOf(k, Prior)].date
      running == RunningAllocs(k, b, Forward, start, since)
  IN [k EXCEPT !.alloc = [s \in Txs |-> IF s \in Forward
                                        THEN [@[s] EXCEPT ![b].snap = running[s]]
                                        ELSE @[s]]]

\* The last of a set of transfers.
LastItx(k, S) == CHOOSE j \in S : \A h \in S : h = j \/ ItxBefore(k, h, j)

\* What allocations at the dates in [after, before) moved.
AllocDelta(k, b, after, before) ==
  AllocSum(k, b, {s \in Allocs(k, b) : k.tx[s].date >= after /\ k.tx[s].date < before})

\* The balances after the transfers Walk, in their order, when it was start before
\* the events of the date from.
RunningItxs(k, b, Walk, start, from) ==
  LET running[i \in Walk] ==
        LET Walked == {j \in Walk : ItxBefore(k, j, i)}
            prev == LastItx(k, Walked)
        IN (IF Walked = {} THEN start + AllocDelta(k, b, from, k.itx[i].date)
            ELSE running[prev] + AllocDelta(k, b, k.itx[prev].date, k.itx[i].date))
           + Moved(k, b, i)
  IN running

\* recalculate_itx_snapshots_from_dt: the anchor is the last allocation before
\* the date; its snapshot already counts the transfers of its own date.
RunItxs(k, b, from) ==
  LET Walk == {i \in Moves(k, b) : k.itx[i].date >= from}
      Prior == {s \in Allocs(k, b) : k.tx[s].date < from}
      anchor == IF Prior = {} THEN Never ELSE k.tx[LastOf(k, Prior)].date
      start == (IF Prior = {} THEN Baseline(k, b) ELSE k.alloc[LastOf(k, Prior)][b].snap)
               + MoveSum(k, b, {i \in Moves(k, b) : k.itx[i].date > anchor
                                                    /\ k.itx[i].date < from})
      running == RunningItxs(k, b, Walk, start, from)
      Snapped(i, r) == IF r.src = b THEN [r EXCEPT !.srcSnap = running[i]]
                       ELSE [r EXCEPT !.dstSnap = running[i]]
  IN [k EXCEPT !.itx = [i \in Itxs |-> IF i \in Walk THEN Snapped(i, @[i]) ELSE @[i]]]

\* Mutant: the snapshots of the transfers are left as they were.
AllocsOnly(k, b, t) == RunAllocs(k, b, t)

\* recalculate_from_transaction
RecalculateFromTransaction(k, b, t) ==
  RunItxs(RunAllocs(k, b, t), b, k.tx[t].date)

\* recalculate_from_dt
RecalculateFromDt(k, b, from) ==
  LET S == {s \in Allocs(k, b) : k.tx[s].date >= from}
  IN RunItxs(IF S = {} THEN k ELSE RunAllocs(k, b, FirstOf(k, S)), b, from)

-----------------------------------------------------------------------------
(* transaction_allocation.create, update_amount and delete: the row of a   *)
(* transaction for a budget goes from nothing, or an amount, to another.   *)

\* Mutant: the row is kept, with nothing.
KeptAlloc(k, t, b, amount) ==
  RecalculateFromTransaction(
    [k EXCEPT !.balance[b] = @ - k.alloc[t][b].amount + amount,
              !.alloc[t][b].amount = amount], b, t)

SetAlloc(k, t, b, amount) ==
  LET row == IF amount = 0 THEN NoAlloc ELSE [k.alloc[t][b] EXCEPT !.amount = amount]
  IN RecalculateFromTransaction(
       [k EXCEPT !.balance[b] = @ - k.alloc[t][b].amount + amount,
                 !.alloc[t][b] = row], b, t)

\* The rows of t in the budgets S set to the amounts m, one call after another.
SetAllocs(k, t, m, S) ==
  FoldSet(LAMBDA b, j : IF j.alloc[t][b].amount = m[b] THEN j ELSE SetAlloc(j, t, b, m[b]),
          k, S)

Init ==
  /\ book = [tx |-> [t \in Txs |-> NoTx],
             alloc |-> [t \in Txs |-> [b \in Budgets |-> NoAlloc]],
             itx |-> [i \in Itxs |-> NoItx],
             balance |-> [b \in Budgets |-> IF b = Unallocated THEN Opening ELSE 0]]
  /\ lives = Budgets
  /\ usedTx = {} /\ usedItx = {}

\* transaction.create
CreateTx(t, date, amount, pending) ==
  /\ t \notin usedTx /\ \A s \in Txs : s < t => s \in usedTx
  /\ book' = SetAlloc([book EXCEPT !.tx[t] = [date |-> date, amount |-> amount,
                                              pending |-> pending]],
                      t, Unallocated, amount)
  /\ usedTx' = usedTx \union {t}
  /\ UNCHANGED <<lives, usedItx>>

\* Mutant: the timeline is recalculated from the new date only.
FromNewDate(old, new) == new

\* min(old_transaction_date, new_transaction_date)
FromEarlier(old, new) == IF old < new THEN old ELSE new

\* transaction.resolve_pending_to_posted: the settled row may have another
\* amount and another date.
Resolve(t, date, amount) ==
  LET old == book.tx[t]
      settled == [book EXCEPT !.tx[t] = [date |-> date, amount |-> amount,
                                         pending |-> FALSE]]
      paid == IF amount = old.amount THEN settled
              ELSE SetAlloc(settled, t, Unallocated, amount)
  IN
  /\ old.pending
  /\ book' = IF date = old.date THEN paid
             ELSE RecalculateFromDt(paid, Unallocated, FromEarlier(old.date, date))
  /\ UNCHANGED <<lives, usedTx, usedItx>>

\* transaction.split, for a request that names assigned budgets only: the
\* declared parts, then the remainder to Unallocated, then the rows left over.
Split(t, m) ==
  LET sign == IF book.tx[t].amount < 0 THEN -1 ELSE 1
      total == SumFunctionOnSet(m, DOMAIN m)
      rest == sign * book.tx[t].amount - total
      wanted == [b \in Budgets |-> sign * (IF b = Unallocated THEN rest ELSE m[b])]
  IN
  /\ book.tx[t] # NoTx /\ ~book.tx[t].pending
  /\ \A b \in DOMAIN m : m[b] > 0 => b \in lives
  /\ rest >= 0
  /\ book' = SetAllocs(book, t, wanted, Budgets)
  /\ UNCHANGED <<lives, usedTx, usedItx>>

\* transaction.delete
DeleteTx(t) ==
  /\ book.tx[t] # NoTx
  /\ book' = [SetAllocs(book, t, [b \in Budgets |-> 0], Budgets) EXCEPT !.tx[t] = NoTx]
  /\ UNCHANGED <<lives, usedTx, usedItx>>

BothSides(k, i, from) ==
  RecalculateFromDt(RecalculateFromDt(k, i.src, from), i.dst, from)

\* internal_transaction.create
Transfer(i, src, dst, amount, date) ==
  LET row == [src |-> src, dst |-> dst, amount |-> amount, date |-> date,
              srcSnap |-> book.balance[src] - amount,
              dstSnap |-> book.balance[dst] + amount]
  IN
  /\ i \notin usedItx /\ \A j \in Itxs : j < i => j \in usedItx
  /\ {src, dst} \subseteq lives /\ src # dst
  /\ book' = BothSides([book EXCEPT !.balance[src] = @ - amount,
                                    !.balance[dst] = @ + amount,
                                    !.itx[i] = row], row, date)
  /\ usedItx' = usedItx \union {i}
  /\ UNCHANGED <<lives, usedTx>>

\* internal_transaction.delete
DeleteTransfer(i) ==
  LET row == book.itx[i] IN
  /\ row # NoItx
  /\ book' = BothSides([book EXCEPT !.balance[row.src] = @ + row.amount,
                                    !.balance[row.dst] = @ - row.amount,
                                    !.itx[i] = NoItx], row, row.date)
  /\ UNCHANGED <<lives, usedTx, usedItx>>

Other(row, b) == IF row.src = b THEN row.dst ELSE row.src

\* The earliest lost transfer of each counterparty.
Earliest(b, c) ==
  CHOOSE d \in {book.itx[i].date : i \in Moves(book, b) \intersect Moves(book, c)} :
    \A i \in Moves(book, b) \intersect Moves(book, c) : d <= book.itx[i].date

\* budget.delete: the transfers go with the budget, each other side gets its
\* money back and is recalculated from the first transfer it lost.
DeleteBudget(b) ==
  LET lost == Moves(book, b)
      others == {Other(book.itx[i], b) : i \in lost}
      stripped ==
        [book EXCEPT
          !.balance = [c \in Budgets |->
                         IF c = b THEN 0
                         ELSE @[c] - MoveSum(book, c, lost \intersect Moves(book, c))],
          !.itx = [i \in Itxs |-> IF i \in lost THEN NoItx ELSE @[i]]]
  IN
  /\ b \in lives \ {Unallocated}
  /\ Allocs(book, b) = {}
  /\ book' = FoldSet(LAMBDA c, k : RecalculateFromDt(k, c, Earliest(b, c)),
                     stripped, others)
  /\ lives' = lives \ {b}
  /\ UNCHANGED <<usedTx, usedItx>>

TxStep ==
  \E t \in Txs :
    \/ \E d \in Dates, a \in Amounts, p \in BOOLEAN : CreateTx(t, d, a, p)
    \/ \E d \in Dates, a \in Amounts : Resolve(t, d, a)
    \/ \E m \in [Budgets \ {Unallocated} -> Parts \union {0}] : Split(t, m)
    \/ DeleteTx(t)

TransferStep ==
  \E i \in Itxs :
    \/ \E s, d \in Budgets, a \in Parts, e \in Dates : Transfer(i, s, d, a, e)
    \/ DeleteTransfer(i)

Next == TxStep \/ TransferStep \/ \E b \in Budgets : DeleteBudget(b)

Spec == Init /\ [][Next]_vars

-----------------------------------------------------------------------------
\* The rows have their types, the rows of a deleted budget are gone, and no
\* allocation outlives its transaction.
TypeOK ==
  /\ book.tx \in [Txs -> [date : Dates, amount : Int, pending : BOOLEAN] \union {NoTx}]
  /\ \A t \in Txs, b \in Budgets :
       /\ book.alloc[t][b] \in [amount : Int, snap : Int]
       /\ book.alloc[t][b] # NoAlloc => book.tx[t] # NoTx /\ b \in lives
  /\ \A i \in Itxs : book.itx[i] # NoItx =>
       /\ {book.itx[i].src, book.itx[i].dst} \subseteq lives
       /\ book.itx[i].amount \in Parts
  /\ book.balance \in [Budgets -> Int]

\* What a budget held after the events up to a date: the transfers of that
\* date come before its allocations (verify_balances, _collect_events).
HeldAfterItx(k, b, i) ==
  (IF b = Unallocated THEN Opening ELSE 0)
  + MoveSum(k, b, {j \in Moves(k, b) : j = i \/ ItxBefore(k, j, i)})
  + AllocSum(k, b, {t \in Allocs(k, b) : k.tx[t].date < k.itx[i].date})
HeldAfterAlloc(k, b, t) ==
  (IF b = Unallocated THEN Opening ELSE 0)
  + MoveSum(k, b, {j \in Moves(k, b) : k.itx[j].date <= k.tx[t].date})
  + AllocSum(k, b, {s \in Allocs(k, b) : s = t \/ TxBefore(k, s, t)})

\* Every stored snapshot of an allocation is what the budget held just after
\* it in the order of dates, whatever was inserted, settled, split, moved or
\* removed at earlier dates since it was written.
AllocationSnapshots ==
  \A b \in lives : \A t \in Allocs(book, b) :
    book.alloc[t][b].snap = HeldAfterAlloc(book, b, t)

\* The same for the two sides of every transfer.
TransferSnapshots ==
  \A b \in lives : \A i \in Moves(book, b) :
    (IF book.itx[i].src = b THEN book.itx[i].srcSnap ELSE book.itx[i].dstSnap)
      = HeldAfterItx(book, b, i)
=============================================================================
